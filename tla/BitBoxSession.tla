---------------------------- MODULE BitBoxSession ----------------------------
(***************************************************************************)
(* One BitBox02 client of the library: the per-call interpreter            *)
(* (bhwi/src/bitbox/interpreter.rs), the Noise state that outlives the     *)
(* calls (bhwi/src/bitbox/noise.rs), the HWW request/retry loop of the     *)
(* transport (bhwi-async/src/transport/bitbox/hid.rs) and the driver that  *)
(* ties them together (run_command_inner, bhwi-async/src/lib.rs), against  *)
(* a device and its user, modelled from how that code uses them.           *)
(*                                                                         *)
(* Host and device share two FIFO channels.  Every request frame gets      *)
(* exactly one reply frame, but a call can stop waiting for its reply (a   *)
(* read error, a timeout, a dropped future): that reply is then read by a  *)
(* later call, and this module is about what happens next.                 *)
(*                                                                         *)
(* Abstracted: the handshakes are numbered, and a session is known by the  *)
(* number of its handshake; a ciphertext is the pair (session, nonce); a   *)
(* protobuf message is its type.  The signing and the setup commands, more *)
(* rounds of the same encrypted exchange, are in BitBoxSign and            *)
(* BitBoxManage.                                                           *)
(***************************************************************************)
EXTENDS Naturals, Sequences, FiniteSets

CONSTANTS
  Keys,       \* static public keys of the devices this host may meet
  NoKey,      \* no key
  Contexts,   \* the encrypted queries a client may issue
  MaxCalls,   \* bound: calls of the client
  MaxFaults,  \* bound: abandoned calls, failed writes and reconnections
  MaxWaits    \* bound: NOTREADY replies

\* What the device answers to each query (handle_encrypted_response).
AnswerTo(ctx) ==
  CASE ctx = "Version"              -> "DeviceInfo"
    [] ctx = "MasterFingerprint"    -> "Fingerprint"
    [] ctx \in {"Xpub", "Address"}  -> "Pub"
    [] ctx = "IsRegistered"         -> "IsScriptConfigRegistered"
    [] ctx = "RegisterScriptConfig" -> "BtcSuccess"
    [] OTHER                        -> "Success"

EncryptedContext ==
  {"Version", "MasterFingerprint", "Xpub", "Address", "IsRegistered",
   "RegisterScriptConfig", "RestoreFromMnemonic", "Backup"}

ResponseTypes ==
  {"DeviceInfo", "Fingerprint", "Pub", "IsScriptConfigRegistered",
   "BtcSuccess", "Success", "Error"}

ASSUME KeysAssumption == NoKey \notin Keys
ASSUME ContextsAssumption == Contexts \subseteq EncryptedContext
ASSUME BoundsAssumption == MaxCalls \in Nat /\ MaxFaults \in Nat /\ MaxWaits \in Nat

VARIABLES
  \* NoiseState
  noise,       \* the session: its handshake, nonces, peer, and the pairing code
  pubkeys,     \* NoiseConfigData.device_static_pubkeys
  \* BitBoxInterpreter, one per call
  call,        \* its state, query, handshake and the request it waits for
  handshakes,  \* handshakes started so far
  result,      \* how the last call ended
  \* the channel
  out,         \* request frames the device has not read
  in,          \* reply frames the host has not read
  \* the device and its user
  dev,         \* its key, its session and the nonce it expects
  job,         \* the reply it has not delivered yet, if any
  \* what happened so far
  served,      \* requests of the host's session the device has executed
  confirmed,   \* <<handshake, key>> the user accepted on the device
  shown,       \* handshake of the last pairing code given to the hook
  abandoned,   \* a call stopped waiting since this connection was opened
  calls, faults, waits

vars == <<noise, pubkeys, call, handshakes, result, out, in, dev, job, served,
          confirmed, shown, abandoned, calls, faults, waits>>

-----------------------------------------------------------------------------
(* Frames.                                                                 *)

NoCtx == "none"

Request(op, sid, n, ctx) == [hww |-> "NEW", op |-> op, sid |-> sid, n |-> n, ctx |-> ctx]
Retry == [hww |-> "RETRY", op |-> "none", sid |-> 0, n |-> 0, ctx |-> NoCtx]

Requests ==
  [hww : {"NEW", "RETRY"},
   op : {"unlock", "handshake", "hs1", "hs2", "verify", "msg", "none"},
   sid : Nat, n : Nat, ctx : EncryptedContext \cup {NoCtx}]

\* A reply without ACK has no payload; "status" is the single byte
\* RESPONSE_SUCCESS, "failure" any other status.
Refusal(hww) ==
  [hww |-> hww, kind |-> "none", sid |-> 0, n |-> 0, typ |-> "none", key |-> NoKey, verify |-> FALSE]
Status(kind) == [Refusal("ACK") EXCEPT !.kind = kind]
HandshakeReply1(sid, key) == [Status("hs1") EXCEPT !.sid = sid, !.key = key]
HandshakeReply2(sid, verify) == [Status("hs2") EXCEPT !.sid = sid, !.verify = verify]
Ciphertext(sid, n, typ) == [Status("enc") EXCEPT !.sid = sid, !.n = n, !.typ = typ]

Replies ==
  {r \in [hww : {"ACK", "NOTREADY", "BUSY", "NACK"},
          kind : {"none", "status", "failure", "hs1", "hs2", "enc"}, sid : Nat, n : Nat,
          typ : ResponseTypes \cup {"none"}, key : Keys \cup {NoKey}, verify : BOOLEAN] :
     r.kind = "hs1" => r.key \in Keys}

NoSession == [sid |-> 0, send |-> 0, recv |-> 0, peer |-> NoKey, code |-> FALSE]
NewCall == [st |-> "New", ctx |-> NoCtx, hid |-> 0, peer |-> NoKey, re |-> 0]
NoResult == [status |-> "none", n |-> 0, re |-> 0]
Err == [status |-> "err", n |-> 0, re |-> 0]
TaskDone == [status |-> "ok", n |-> 0, re |-> 0]

Sessions == [sid : Nat, send : Nat, recv : Nat, peer : Keys \cup {NoKey}, code : BOOLEAN]
Results == [status : {"none", "ok", "err"}, n : Nat, re : Nat]

\* A handshake in progress has its number and, once the device's first message
\* is read, the device's key: what the states of the interpreter carry.
Calls ==
  {c \in [st : {"New", "WaitUnlockAck", "WaitHandshakeInit", "WaitHandshake1",
                "WaitHandshake2", "WaitPairingConfirm", "WaitEncryptedResponse",
                "ShowAddrWaitFingerprint"},
          ctx : EncryptedContext \cup {NoCtx}, hid : Nat, peer : Keys \cup {NoKey}, re : Nat] :
     /\ c.st = "New" => c = NewCall
     /\ c.st \in {"WaitHandshake1", "WaitHandshake2", "WaitPairingConfirm"} => c.hid # 0
     /\ c.st \in {"WaitHandshake2", "WaitPairingConfirm"} => c.peer \in Keys}

Paired == noise.sid # 0

-----------------------------------------------------------------------------
(* The state the program starts in: what earlier runs persisted, all of it *)
(* confirmed by the user then.                                             *)

Init ==
  /\ noise = NoSession
  /\ pubkeys \in SUBSET Keys
  /\ call = NewCall
  /\ handshakes = 0
  /\ result = NoResult
  /\ out = <<>>
  /\ in = <<>>
  /\ \E k \in Keys : dev = [key |-> k, stage |-> "none", sid |-> 0, nonce |-> 0]
  /\ job = <<>>
  /\ served = 0
  /\ confirmed = {0} \X pubkeys
  /\ shown = 0
  /\ abandoned = FALSE
  /\ calls = 0 /\ faults = 0 /\ waits = 0

-----------------------------------------------------------------------------
(* The host.  A call goes on when its next frame is written; a write that  *)
(* fails ends it, and what it did to the Noise state stays done.           *)

Transmit(frame, next) ==
  \/ /\ out' = Append(out, frame)
     /\ call' = next
     /\ result' = NoResult
     /\ UNCHANGED faults
  \/ /\ faults < MaxFaults
     /\ faults' = faults + 1
     /\ call' = NewCall
     /\ result' = Err
     /\ UNCHANGED out

Return(res) ==
  /\ call' = NewCall
  /\ result' = res
  /\ UNCHANGED <<out, faults>>

StartCall ==
  /\ call = NewCall
  /\ calls < MaxCalls
  /\ calls' = calls + 1
  /\ UNCHANGED <<pubkeys, handshakes, in, dev, job, served, confirmed, shown, abandoned, waits>>

Unlock ==
  /\ StartCall
  /\ Transmit(Request("unlock", 0, 0, NoCtx), [NewCall EXCEPT !.st = "WaitUnlockAck"])
  /\ UNCHANGED noise

\* noise.encrypt consumes a nonce before the frame is written.
SendEncrypted(st, ctx, waiting) ==
  Transmit(Request("msg", noise.sid, noise.send, waiting),
           [NewCall EXCEPT !.st = st, !.ctx = ctx, !.re = noise.send])

Query ==
  /\ StartCall
  /\ Paired
  /\ noise' = [noise EXCEPT !.send = @ + 1]
  /\ \E ctx \in Contexts : SendEncrypted("WaitEncryptedResponse", ctx, ctx)

ShowDescriptorAddress ==
  /\ StartCall
  /\ Paired
  /\ noise' = [noise EXCEPT !.send = @ + 1]
  /\ SendEncrypted("ShowAddrWaitFingerprint", "Address", "MasterFingerprint")

\* Every encrypted command checks is_paired first.
NotPaired ==
  /\ StartCall
  /\ ~Paired
  /\ Return(Err)
  /\ UNCHANGED noise

-----------------------------------------------------------------------------
(* One reply frame: the transport's match on its HWW byte, and for an ACK  *)
(* the interpreter's exchange.                                             *)

Reply == Head(in)

Receive ==
  /\ call.st # "New"
  /\ in # <<>>
  /\ in' = Tail(in)
  /\ UNCHANGED <<dev, job, confirmed, calls, waits, abandoned>>

ReceiveAck(st) ==
  /\ Receive
  /\ call.st = st
  /\ Reply.hww = "ACK"

\* MUTANT: wait for the answer without asking for it.
OnNotReady_Silent ==
  /\ Receive
  /\ Reply.hww = "NOTREADY"
  /\ UNCHANGED <<noise, pubkeys, handshakes, shown, served, call, result, out, faults>>

OnNotReady ==
  /\ Receive
  /\ Reply.hww = "NOTREADY"
  /\ Transmit(Retry, call)
  /\ UNCHANGED <<noise, pubkeys, handshakes, shown, served>>

OnRefused ==
  /\ Receive
  /\ Reply.hww \in {"BUSY", "NACK"}
  /\ Return(Err)
  /\ UNCHANGED <<noise, pubkeys, handshakes, shown, served>>

\* The payload starts with RESPONSE_SUCCESS.
ExpectSuccess == Reply.kind \in {"status", "hs1", "hs2", "enc"}

\* Whatever the device acknowledged.
OnUnlockAck ==
  /\ ReceiveAck("WaitUnlockAck")
  /\ Transmit(Request("handshake", 0, 0, NoCtx), [NewCall EXCEPT !.st = "WaitHandshakeInit"])
  /\ UNCHANGED <<noise, pubkeys, handshakes, shown, served>>

OnHandshakeInit ==
  /\ ReceiveAck("WaitHandshakeInit")
  /\ UNCHANGED <<noise, pubkeys, shown, served>>
  /\ \/ /\ Reply.kind = "status"
        /\ handshakes' = handshakes + 1
        /\ Transmit(Request("hs1", handshakes', 0, NoCtx),
                    [NewCall EXCEPT !.st = "WaitHandshake1", !.hid = handshakes'])
     \/ /\ Reply.kind # "status"
        /\ Return(Err)
        /\ UNCHANGED handshakes

\* MUTANT: the peer's static key is not kept for the rest of the handshake.
AfterHandshake1_ForgetsPeer == [call EXCEPT !.st = "WaitHandshake2"]

AfterHandshake1 == [call EXCEPT !.st = "WaitHandshake2", !.peer = Reply.key]

OnHandshake1 ==
  /\ ReceiveAck("WaitHandshake1")
  /\ \/ /\ Reply.kind = "hs1" /\ Reply.sid = call.hid
        /\ Transmit(Request("hs2", call.hid, 0, NoCtx), AfterHandshake1)
     \/ /\ ~(Reply.kind = "hs1" /\ Reply.sid = call.hid)
        /\ Return(Err)
  /\ UNCHANGED <<noise, pubkeys, handshakes, shown, served>>

\* MUTANT: only the device is asked whether the pairing has to be verified.
NeedsVerification_DeviceOnly == Reply.kind = "hs2" /\ Reply.verify

NeedsVerification ==
  \/ call.peer \notin pubkeys
  \/ Reply.kind = "hs2" /\ Reply.verify

\* NoiseState::finalize: new ciphers; the code of the handshake is kept.
Finalize(code) ==
  /\ noise' = [sid |-> call.hid, send |-> 0, recv |-> 0, peer |-> call.peer, code |-> code]
  /\ served' = 0

\* MUTANT: the hook is called after the verification request is written.
ShowCode_Late == UNCHANGED shown

ShowCode == shown' = call.hid

OnHandshake2 ==
  /\ ReceiveAck("WaitHandshake2")
  /\ \/ /\ ExpectSuccess
        /\ NeedsVerification
        /\ ShowCode
        /\ Transmit(Request("verify", 0, 0, NoCtx), [call EXCEPT !.st = "WaitPairingConfirm"])
        /\ UNCHANGED <<noise, served>>
     \/ /\ ExpectSuccess
        /\ ~NeedsVerification
        /\ Finalize(FALSE)
        /\ Return(TaskDone)
        /\ UNCHANGED shown
     \/ /\ ~ExpectSuccess
        /\ Return(Err)
        /\ UNCHANGED <<noise, served, shown>>
  /\ UNCHANGED <<pubkeys, handshakes>>

\* MUTANT: any acknowledged reply counts as the user's consent.
PairingAccepted_AnyAck == TRUE

PairingAccepted == Reply.kind = "status"

OnPairingConfirm ==
  /\ ReceiveAck("WaitPairingConfirm")
  /\ \/ /\ PairingAccepted
        /\ pubkeys' = pubkeys \cup {call.peer}
        /\ Finalize(TRUE)
        /\ Return(TaskDone)
     \/ /\ ~PairingAccepted
        /\ Return(Err)
        /\ UNCHANGED <<noise, pubkeys, served>>
  /\ UNCHANGED <<handshakes, shown>>

\* MUTANT: the status byte is skipped, whatever it says, and the rest taken for
\* the answer.
Decrypts_AnyStatus == Reply.kind \in {"enc", "failure"}

\* NoiseState::decrypt; a failure leaves the receiving nonce where it was.
Decrypts == Reply.kind = "enc" /\ Reply.sid = noise.sid /\ Reply.n = noise.recv

OnUndecryptable ==
  /\ \E st \in {"WaitEncryptedResponse", "ShowAddrWaitFingerprint"} : ReceiveAck(st)
  /\ ~Decrypts
  /\ Return(Err)
  /\ UNCHANGED <<noise, pubkeys, handshakes, shown, served>>

OnEncryptedResponse ==
  /\ ReceiveAck("WaitEncryptedResponse")
  /\ Decrypts
  /\ noise' = [noise EXCEPT !.recv = @ + 1]
  /\ \/ /\ Reply.typ = AnswerTo(call.ctx)
        /\ Return([status |-> "ok", n |-> Reply.n, re |-> call.re])
     \/ /\ Reply.typ # AnswerTo(call.ctx)
        /\ Return(Err)
  /\ UNCHANGED <<pubkeys, handshakes, shown, served>>

\* MUTANT: the second request goes out before the first answer is checked, and
\* the call fails without waiting for it.
OnShowAddrFingerprint_SendsFirst ==
  /\ ReceiveAck("ShowAddrWaitFingerprint")
  /\ Decrypts
  /\ noise' = [noise EXCEPT !.send = @ + 1, !.recv = @ + 1]
  /\ \/ /\ Reply.typ = AnswerTo("MasterFingerprint")
        /\ SendEncrypted("WaitEncryptedResponse", "Address", "Address")
     \/ /\ Reply.typ # AnswerTo("MasterFingerprint")
        /\ Transmit(Request("msg", noise.sid, noise.send, "Address"), NewCall)
  /\ UNCHANGED <<pubkeys, handshakes, shown, served>>

\* The address is asked for if the descriptor has a key of the device's and its
\* path: neither is known before the fingerprint is.
OnShowAddrFingerprint ==
  /\ ReceiveAck("ShowAddrWaitFingerprint")
  /\ Decrypts
  /\ \/ /\ Reply.typ = AnswerTo("MasterFingerprint")
        /\ noise' = [noise EXCEPT !.send = @ + 1, !.recv = @ + 1]
        /\ SendEncrypted("WaitEncryptedResponse", "Address", "Address")
     \/ /\ noise' = [noise EXCEPT !.recv = @ + 1]
        /\ Return(Err)
  /\ UNCHANGED <<pubkeys, handshakes, shown, served>>

HostReceive ==
  \/ OnNotReady \/ OnRefused
  \/ OnUnlockAck \/ OnHandshakeInit \/ OnHandshake1 \/ OnHandshake2 \/ OnPairingConfirm
  \/ OnUndecryptable \/ OnEncryptedResponse \/ OnShowAddrFingerprint

\* The wait for a reply ends without one: the channel reports an error or a
\* timeout, or the caller drops the future.  Frames already written stay there.
Abandon ==
  /\ call.st # "New"
  /\ faults < MaxFaults
  /\ faults' = faults + 1
  /\ call' = NewCall
  /\ result' = Err
  /\ abandoned' = TRUE
  /\ UNCHANGED <<noise, pubkeys, handshakes, out, in, dev, job, served, confirmed,
                 shown, calls, waits>>

\* A new client over a new channel, with the persisted data or without, to the
\* same device or to another or a restarted one.
Reconnect ==
  /\ call = NewCall
  /\ faults < MaxFaults
  /\ faults' = faults + 1
  /\ noise' = NoSession
  /\ pubkeys' \in {pubkeys, {}}
  /\ result' = NoResult
  /\ out' = <<>>
  /\ in' = <<>>
  /\ served' = 0
  /\ abandoned' = FALSE
  /\ \/ UNCHANGED <<dev, job>>
     \/ \E k \in Keys :
          /\ dev' = [key |-> k, stage |-> "none", sid |-> 0, nonce |-> 0]
          /\ job' = <<>>
  /\ UNCHANGED <<call, handshakes, confirmed, shown, calls, waits>>

-----------------------------------------------------------------------------
(* The device: code that is not in this repository, modelled from what the *)
(* host expects of it.                                                     *)

Frame == Head(out)

DeviceReads ==
  /\ out # <<>>
  /\ out' = Tail(out)
  /\ UNCHANGED <<noise, pubkeys, call, handshakes, result, shown, abandoned, calls, faults>>

DeviceDoes(op) ==
  /\ DeviceReads
  /\ Frame.hww = "NEW"
  /\ Frame.op = op
  /\ job = <<>>

\* The reply is ready at once, or has to be asked for again.
Answer(r) ==
  \/ /\ in' = Append(in, r)
     /\ UNCHANGED <<job, waits>>
  \/ /\ waits < MaxWaits
     /\ waits' = waits + 1
     /\ job' = <<r>>
     /\ in' = Append(in, Refusal("NOTREADY"))

DeviceUnlock ==
  /\ DeviceDoes("unlock")
  /\ \E kind \in {"status", "failure"} : Answer(Status(kind))
  /\ UNCHANGED <<dev, confirmed, served>>

\* A new handshake ends the session the device had.
DeviceHandshakeInit ==
  /\ DeviceDoes("handshake")
  /\ \/ /\ dev' = [dev EXCEPT !.stage = "init", !.sid = 0, !.nonce = 0]
        /\ Answer(Status("status"))
     \/ /\ Answer(Status("failure"))
        /\ UNCHANGED dev
  /\ UNCHANGED <<confirmed, served>>

DeviceHandshake1 ==
  /\ DeviceDoes("hs1")
  /\ \/ /\ dev.stage = "init"
        /\ dev' = [dev EXCEPT !.stage = "hs1", !.sid = Frame.sid]
        /\ Answer(HandshakeReply1(Frame.sid, dev.key))
     \/ /\ dev.stage # "init"
        /\ Answer(Status("failure"))
        /\ UNCHANGED dev
  /\ UNCHANGED <<confirmed, served>>

DeviceHandshake2 ==
  /\ DeviceDoes("hs2")
  /\ \/ /\ dev.stage = "hs1" /\ Frame.sid = dev.sid
        /\ \E verify \in BOOLEAN :
             /\ dev' = [dev EXCEPT !.stage = IF verify THEN "verify" ELSE "open"]
             /\ Answer(HandshakeReply2(dev.sid, verify))
     \/ /\ ~(dev.stage = "hs1" /\ Frame.sid = dev.sid)
        /\ Answer(Status("failure"))
        /\ UNCHANGED dev
  /\ UNCHANGED <<confirmed, served>>

\* The user compares the two codes and accepts or rejects.
DeviceVerify ==
  /\ DeviceDoes("verify")
  /\ \/ /\ dev.stage \in {"verify", "open"}
        /\ confirmed' = confirmed \cup {<<dev.sid, dev.key>>}
        /\ dev' = [dev EXCEPT !.stage = "open"]
        /\ Answer(Status("status"))
     \/ /\ dev.stage \in {"verify", "open"}
        /\ dev' = [dev EXCEPT !.stage = "none", !.sid = 0, !.nonce = 0]
        /\ Answer(Status("failure"))
        /\ UNCHANGED confirmed
     \/ /\ dev.stage \notin {"verify", "open"}
        /\ Answer(Status("failure"))
        /\ UNCHANGED <<dev, confirmed>>
  /\ UNCHANGED served

\* A request is executed once, in the order of its nonces.
DeviceMessage ==
  /\ DeviceDoes("msg")
  /\ LET ok == dev.stage = "open" /\ Frame.sid = dev.sid /\ Frame.n = dev.nonce IN
     \/ /\ ok
        /\ dev' = [dev EXCEPT !.nonce = @ + 1]
        /\ served' = IF dev.sid = noise.sid THEN served + 1 ELSE served
        /\ \E typ \in {AnswerTo(Frame.ctx), "Error"} : Answer(Ciphertext(dev.sid, Frame.n, typ))
     \/ /\ ~ok
        /\ Answer(Status("failure"))
        /\ UNCHANGED <<dev, served>>
  /\ UNCHANGED confirmed

DeviceBusy ==
  /\ DeviceReads
  /\ Frame.hww = "NEW"
  /\ job # <<>>
  /\ in' = Append(in, Refusal("BUSY"))
  /\ UNCHANGED <<dev, job, confirmed, served, waits>>

DeviceRetry ==
  /\ DeviceReads
  /\ Frame.hww = "RETRY"
  /\ \/ /\ job # <<>>
        /\ in' = Append(in, job[1])
        /\ job' = <<>>
        /\ UNCHANGED waits
     \/ /\ job # <<>>
        /\ waits < MaxWaits
        /\ waits' = waits + 1
        /\ in' = Append(in, Refusal("NOTREADY"))
        /\ UNCHANGED job
     \/ /\ job = <<>>
        /\ in' = Append(in, Refusal("NACK"))
        /\ UNCHANGED <<job, waits>>
  /\ UNCHANGED <<dev, confirmed, served>>

DeviceStep ==
  \/ DeviceUnlock \/ DeviceHandshakeInit \/ DeviceHandshake1 \/ DeviceHandshake2
  \/ DeviceVerify \/ DeviceMessage \/ DeviceBusy \/ DeviceRetry

\* A reply nobody fetched is given up.
DeviceDropsJob ==
  /\ job # <<>>
  /\ job' = <<>>
  /\ UNCHANGED <<noise, pubkeys, call, handshakes, result, out, in, dev, served, confirmed,
                 shown, abandoned, calls, faults, waits>>

Next ==
  \/ Unlock \/ Query \/ ShowDescriptorAddress \/ NotPaired
  \/ HostReceive
  \/ Abandon \/ Reconnect
  \/ DeviceStep \/ DeviceDropsJob

\* A call that waits is polled, and a connected device answers: the executor
\* of the async runtime and the device's main loop.  Nobody owes a call.
Spec == Init /\ [][Next]_vars /\ WF_vars(HostReceive) /\ WF_vars(DeviceStep)

-----------------------------------------------------------------------------
(* Properties.                                                             *)

HostTypeOK ==
  /\ noise \in Sessions
  /\ pubkeys \subseteq Keys
  /\ call \in Calls
  /\ handshakes \in Nat
  /\ result \in Results
  /\ calls \in Nat /\ faults \in Nat

ChannelTypeOK ==
  /\ out \in Seq(Requests)
  /\ in \in Seq(Replies)

DeviceTypeOK ==
  /\ dev \in [key : Keys, stage : {"none", "init", "hs1", "verify", "open"}, sid : Nat, nonce : Nat]
  /\ job \in Seq(Replies) /\ Len(job) <= 1
  /\ waits \in Nat

HistoryTypeOK ==
  /\ served \in Nat
  /\ confirmed \subseteq Nat \X Keys
  /\ shown \in Nat
  /\ abandoned \in BOOLEAN

\* The variables have their types, with what the states of the interpreter carry
\* (Calls) and what a handshake reply carries (Replies).
TypeOK == HostTypeOK /\ ChannelTypeOK /\ DeviceTypeOK /\ HistoryTypeOK

\* A session is only ever open with a device in the list of paired devices:
\* a first-time peer is never let in unverified (interpreter.rs:1008), whatever
\* the device says about verification, and a list that is dropped takes the
\* session with it.
SessionPeerTrusted == Paired => noise.peer \in pubkeys

\* A key enters the list of paired devices only after the user accepted a
\* pairing with that device, and a session that carries a pairing code is the
\* one the user accepted: late replies of abandoned calls, rejections and
\* interrupted handshakes never stand in for the user's consent.
TrustNeedsConfirmation ==
  /\ \A k \in pubkeys : \E c \in confirmed : c[2] = k
  /\ noise.code => <<noise.sid, noise.peer>> \in confirmed

\* The user is asked on the device only about the pairing whose code the hook
\* was given last: the code is shown before the device asks.
CodeShownBeforeAsked ==
  [][confirmed' # confirmed => shown = dev.sid]_vars

\* A successful query returns the answer to its own request, unless an earlier
\* call on this connection was abandoned: errors of the device, busy replies,
\* answers of the wrong type and failed writes never shift the answers.
OwnAnswerUnlessAbandoned ==
  result.status = "ok" /\ ~abandoned => result.n = result.re

\* The session promises the calls what OrderedCalls says.
Ordered == INSTANCE OrderedCalls WITH sent <- noise.send, served <- served, got <- noise.recv
OrderedCallsSpec == Ordered!Spec

\* Every call ends: with the reply, with an error, or abandoned.
CallReturns == (call.st # "New") ~> (call.st = "New")

-----------------------------------------------------------------------------
(* Why the nonces of a session stay in step: the invariant behind the      *)
(* refinement.                                                             *)

Elems(q) == {q[i] : i \in 1..Len(q)}
PendingReplies == Elems(in) \cup Elems(job)

DistinctHandshakes(q) ==
  \A i, j \in 1..Len(q) :
    i # j /\ q[i].op = "hs1" /\ q[j].op = "hs1" => q[i].sid # q[j].sid

\* Handshake numbers are never reused: the handshake in progress is newer than
\* the session and than everything encrypted so far.
FreshHandshake ==
  /\ noise.sid <= handshakes /\ call.hid <= handshakes /\ dev.sid <= handshakes
  /\ call.hid # 0 => noise.sid < call.hid
  /\ \A f \in Elems(out) : f.op \in {"hs1", "hs2", "msg"} => f.sid <= handshakes
  /\ \A r \in PendingReplies :
       /\ r.sid <= handshakes
       /\ r.kind = "enc" => r.sid # 0 /\ r.sid # call.hid

\* The first message of a handshake is in one place: on its way to the device,
\* or answered; nobody uses the handshake while it is on its way.
OneHandshake1 ==
  /\ DistinctHandshakes(out)
  /\ \A f \in Elems(out) :
       f.op = "hs1" => /\ f.sid \notin {0, noise.sid, dev.sid}
                       /\ call.st \in {"WaitHandshake2", "WaitPairingConfirm"} => f.sid # call.hid
                       /\ \A r \in PendingReplies : r.kind = "hs1" => r.sid # f.sid

\* Device and host count the same messages.
NoncesInStep ==
  /\ noise.recv <= served /\ served <= noise.send
  /\ noise.sid = 0 => noise.send = 0
  /\ dev.stage = "init" \/ dev.sid = 0 => dev.nonce = 0
  /\ dev.sid = noise.sid => dev.nonce = served
  /\ dev.sid = call.hid => dev.nonce = 0
  /\ \A f \in Elems(out) :
       f.op = "msg" => f.sid \in 1..noise.sid /\ (f.sid = noise.sid => f.n < noise.send)
  /\ \A r \in PendingReplies :
       r.kind = "enc" /\ r.sid = noise.sid => r.n < served
  /\ call.st \in {"WaitEncryptedResponse", "ShowAddrWaitFingerprint"} => Paired

\* Handshakes are numbered afresh, their first messages are not duplicated, and
\* the two sides' nonces count the same messages.
SessionInv == FreshHandshake /\ OneHandshake1 /\ NoncesInStep

-----------------------------------------------------------------------------
(* Why nobody but the user vouches for a device: the invariant behind      *)
(* TrustNeedsConfirmation and CodeShownBeforeAsked.                        *)

IsHandshake1(m, sid) == m.kind = "hs1" /\ m.sid = sid

\* The device's first message of the handshake in progress, once it is on its
\* way, has nothing behind it but refusals of superfluous retries.
Handshake1IsLast ==
  call.st = "WaitHandshake1" =>
    /\ \A i, j \in 1..Len(out) :
         out[i].op = "hs1" /\ out[i].sid = call.hid /\ i < j => out[j].op = "none"
    /\ \A i \in 1..Len(in) : IsHandshake1(in[i], call.hid) =>
         /\ \A j \in 1..Len(in) : i < j => in[j].kind = "none"
         /\ job = <<>> /\ dev.key = in[i].key
    /\ \A r \in Elems(job) : IsHandshake1(r, call.hid) => dev.key = r.key
    /\ \A r \in PendingReplies : IsHandshake1(r, call.hid) =>
         /\ \A f \in Elems(out) : f.op = "none"
         /\ dev.stage = "hs1" /\ dev.sid = call.hid

\* From then on the channel is clean: the only success the device can report
\* before the session is open is the user's consent to this pairing.
OnlyConsentSucceeds ==
  call.st \in {"WaitHandshake2", "WaitPairingConfirm"} =>
    /\ dev.stage = "none" \/ (dev.stage # "init" /\ dev.sid = call.hid /\ dev.key = call.peer)
    /\ \A f \in Elems(out) : f.op \in {"none", "hs2", "verify"}
    /\ \A r \in PendingReplies :
         \/ r.kind \in {"none", "failure", "hs2"}
         \/ r.kind = "status" /\ <<call.hid, call.peer>> \in confirmed

\* A verification request is about the code that was shown.
AskedAboutShown ==
  \A i \in 1..Len(out) : out[i].op = "verify" =>
    /\ \A j \in 1..Len(out) : j < i => out[j].op \notin {"handshake", "hs1"}
    /\ dev.stage \in {"hs1", "verify", "open"} => dev.sid = shown

\* The channel is clean while a pairing is verified, and what the device asks
\* the user to verify is what the host showed.
PairingInv == Handshake1IsLast /\ OnlyConsentSucceeds /\ AskedAboutShown

-----------------------------------------------------------------------------
(* What a comment of the code says, which the code does not do.             *)

\* bhwi-async/src/bitbox.rs:48: pairing_code() "returns None once pairing has
\* been confirmed".
PairingCodeGoneOnceConfirmed == Paired => ~noise.code
=============================================================================
