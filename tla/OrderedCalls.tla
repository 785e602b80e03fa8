---------------------------- MODULE OrderedCalls ----------------------------
(***************************************************************************)
(* What an encrypted session between the host library and a hardware       *)
(* wallet promises to the calls made over it.  The requests of a session   *)
(* are numbered 0, 1, 2, ... in the order the host encrypts them; the      *)
(* device executes them in that order and each one at most once; the       *)
(* answers the host accepts are those of the executed requests, in the     *)
(* same order and each one at most once.  Requests and answers may be lost *)
(* for ever: nothing here says that sent, served and got ever meet.        *)
(*                                                                         *)
(* BitBoxSession implements this specification, with the Noise nonces as   *)
(* the numbers.                                                            *)
(***************************************************************************)
EXTENDS Naturals

VARIABLES
  sent,    \* requests of this session encrypted by the host
  served,  \* requests of this session executed by the device
  got      \* answers of this session accepted by the host

vars == <<sent, served, got>>

Init ==
  /\ sent = 0
  /\ served = 0
  /\ got = 0

\* A new session replaces the old one, whatever was outstanding in it.
Open ==
  /\ sent' = 0
  /\ served' = 0
  /\ got' = 0

\* Requests come one by one.
Send ==
  /\ sent' = sent + 1
  /\ UNCHANGED <<served, got>>

\* The device executes the oldest request it has not executed.
Serve ==
  /\ served < sent
  /\ served' = served + 1
  /\ UNCHANGED <<sent, got>>

\* The host accepts the oldest answer it has not accepted.
Accept ==
  /\ got < served
  /\ got' = got + 1
  /\ UNCHANGED <<sent, served>>

\* A reply can make the host send its next request in the same step.
AcceptAndSend ==
  /\ got < served
  /\ got' = got + 1
  /\ sent' = sent + 1
  /\ UNCHANGED served

Next == Open \/ Send \/ Serve \/ Accept \/ AcceptAndSend

Spec == Init /\ [][Next]_vars
=============================================================================
