----------------------------- MODULE BitBoxSign -----------------------------
(***************************************************************************)
(* The signing commands of the BitBox02 interpreter                        *)
(* (bhwi/src/bitbox/interpreter.rs): the btc_sign loop, in which the       *)
(* device asks for the parts of a transaction one at a time and twice for  *)
(* its inputs, and the signing of a message.  An ECDSA signature is made   *)
(* in three moves, so that the device cannot choose its nonce alone        *)
(* (antiklepto.rs): the host commits to a nonce, the device commits to     *)
(* its own, the host reveals.                                              *)
(*                                                                         *)
(* The calls run over an open session, which delivers requests and replies *)
(* in order (BitBoxSession).  A call can stop waiting for its reply; the   *)
(* next calls then read replies to earlier requests.                       *)
(*                                                                         *)
(* Abstracted: a PSBT or message is the number of the call that signs it,  *)
(* with the kinds of its inputs; a nonce is the number of the draw; a      *)
(* signature says what it signs and which nonce and commitment are in it.  *)
(***************************************************************************)
EXTENDS Naturals, Sequences

CONSTANTS
  Transactions,  \* transactions to sign: the kinds of their inputs
  MaxCalls,      \* bound: calls of the client
  MaxFaults      \* bound: calls that stop waiting

Kinds == {"ecdsa", "schnorr"}

ASSUME TransactionsAssumption ==
  \A tx \in Transactions : tx \in Seq(Kinds) /\ Len(tx) > 0
ASSUME BoundsAssumption == MaxCalls \in Nat /\ MaxFaults \in Nat

VARIABLES
  call,        \* the interpreter: its state and the context of the sign loop
  drawn,       \* host nonces drawn so far
  result,      \* how the last call ended
  revealed,    \* the nonces revealed so far
  out, in,     \* requests the device has not read, replies the host has not
  dev,         \* what the device is signing and the request it expects
  calls, lost  \* calls started; calls that stopped waiting

vars == <<call, drawn, result, revealed, out, in, dev, calls, lost>>

-----------------------------------------------------------------------------
\* What a signature signs, and the host nonce in it (0: none).  The device's
\* commitment to its own nonce follows from these three.
NoSig == [id |-> 0, index |-> 0, nonce |-> 0]
Signatures == [id : Nat, index : Nat, nonce : Nat]

\* nonce is what the request commits to, or reveals; 0 is no commitment.
Parts == {"PrevtxInit", "PrevtxInput", "PrevtxOutput"}
Ops == Parts \cup {"fingerprint", "init", "input", "output", "signature", "message"}
Request(op, index, nonce) == [op |-> op, id |-> calls, index |-> index, nonce |-> nonce, tx |-> call.tx]

Requests == [op : Ops, id : Nat, index : Nat, nonce : Nat, tx : Seq(Kinds)]

NextTypes == Parts \cup {"Input", "Output", "HostNonce", "Done"}
Types == NextTypes \cup {"Fingerprint", "AntikleptoSignerCommitment", "SignMessage", "Error"}
Replies == [typ : Types, index : Nat, sig : Signatures, commitment : Signatures]
Reply(typ) == [typ |-> typ, index |-> 0, sig |-> NoSig, commitment |-> NoSig]

Phases == {"ExpectNext", "ExpectNextWithSig", "ExpectHostNonce", "ExpectAntikleptoSig"}
NewCall == [st |-> "New", tx |-> <<>>, phase |-> "ExpectNext", pass2 |-> FALSE,
            sigs |-> <<>>, nonce |-> 0, commitment |-> NoSig]
Idle == [mode |-> "idle", id |-> 0, tx |-> <<>>, expects |-> "none", index |-> 0,
         pass |-> 1, nonce |-> 0]
NoResult == [status |-> "none", id |-> 0, tx |-> <<>>, sigs |-> <<>>]

Init ==
  /\ call = NewCall
  /\ drawn = 0
  /\ result = NoResult
  /\ revealed = {}
  /\ out = <<>> /\ in = <<>>
  /\ dev = Idle
  /\ calls = 0 /\ lost = 0

-----------------------------------------------------------------------------
(* The interpreter.                                                        *)

SignPsbt ==
  /\ call = NewCall
  /\ calls < MaxCalls
  /\ calls' = calls + 1
  /\ \E tx \in Transactions : call' = [NewCall EXCEPT !.st = "SignPsbtWaitFingerprint", !.tx = tx]
  /\ out' = Append(out, [Request("fingerprint", 0, 0) EXCEPT !.id = calls'])
  /\ result' = NoResult
  /\ UNCHANGED <<drawn, revealed, in, dev, lost>>

SignMessage ==
  /\ call = NewCall
  /\ calls < MaxCalls
  /\ calls' = calls + 1
  /\ drawn' = drawn + 1
  /\ call' = [NewCall EXCEPT !.st = "SignMessageWaitCommitment", !.nonce = drawn']
  /\ out' = Append(out, [Request("message", 0, drawn') EXCEPT !.id = calls'])
  /\ result' = NoResult
  /\ UNCHANGED <<revealed, in, dev, lost>>

Response == Head(in)

Receive(st) ==
  /\ call.st = st
  /\ in # <<>>
  /\ in' = Tail(in)
  /\ UNCHANGED <<dev, calls, lost>>

Send(request, next) ==
  /\ out' = Append(out, request)
  /\ call' = next
  /\ UNCHANGED result

Return(status, sigs) ==
  /\ call' = NewCall
  /\ result' = [status |-> status, id |-> calls, tx |-> call.tx, sigs |-> sigs]
  /\ UNCHANGED out

\* MUTANT: what was not asked for is skipped.
Fail_Waits == UNCHANGED <<call, result, out, drawn, revealed>>

Fail == Return("err", <<>>) /\ UNCHANGED <<drawn, revealed>>

\* With the fingerprint the wallet's account and the transaction are made from
\* the PSBT, if they can be.
OnSignFingerprint ==
  /\ Receive("SignPsbtWaitFingerprint")
  /\ \/ /\ Response.typ = "Fingerprint"
        /\ Send(Request("init", 0, 0), [call EXCEPT !.st = "SignPsbtWaitNext"])
        /\ UNCHANGED <<drawn, revealed>>
     \/ Fail

Reveal(next) ==
  /\ revealed' = revealed \cup {call.nonce}
  /\ Send(Request("signature", 0, call.nonce), next)
  /\ UNCHANGED drawn

\* MUTANT: the signature is taken without a look at the nonce in it.
Verified_Unchecked == TRUE

\* antiklepto::verify_ecdsa
Verified == Response.sig.nonce = call.nonce /\ Response.sig = call.commitment

\* What the loop does not take: a response the previous round did not ask for, a
\* missing or unverified signature, an input the transaction does not have.
Unexpected ==
  \/ Response.typ \notin NextTypes
  \/ (call.phase = "ExpectHostNonce") # (Response.typ = "HostNonce")
  \/ call.phase \in {"ExpectNextWithSig", "ExpectAntikleptoSig"} /\ Response.sig = NoSig
  \/ call.phase = "ExpectAntikleptoSig" /\ ~Verified
  \/ Response.typ = "Input" /\ Response.index \notin 1..Len(call.tx)

SignaturesNow ==
  IF call.phase \in {"ExpectNextWithSig", "ExpectAntikleptoSig"}
  THEN Append(call.sigs, Response.sig) ELSE call.sigs

IsSchnorr(index) == call.tx[index] = "schnorr"

\* MUTANT: the nonce of the call's first draw serves every input.
HostNonce_Reused == IF call.nonce = 0 THEN drawn + 1 ELSE call.nonce

HostNonce == drawn + 1

\* MUTANT: off by one.
LastInput_Before == Response.index = Len(call.tx) - 1

LastInput == Response.index = Len(call.tx)

PerformAntiklepto == call.pass2 /\ ~IsSchnorr(Response.index)

\* MUTANT: every input of pass 2 is expected to need an exchange of nonces.
PhaseAfterInput_SamePhase == IF call.pass2 THEN "ExpectHostNonce" ELSE "ExpectNext"

PhaseAfterInput ==
  CASE PerformAntiklepto -> "ExpectHostNonce"
    [] call.pass2 /\ ~PerformAntiklepto -> "ExpectNextWithSig"
    [] OTHER -> "ExpectNext"

SendInput ==
  /\ drawn' = IF PerformAntiklepto THEN drawn + 1 ELSE drawn
  /\ Send(Request("input", Response.index, IF PerformAntiklepto THEN HostNonce ELSE 0),
          [call EXCEPT
             !.sigs = SignaturesNow,
             !.nonce = IF PerformAntiklepto THEN HostNonce ELSE @,
             !.phase = PhaseAfterInput,
             !.pass2 = @ \/ LastInput])
  /\ UNCHANGED revealed

\* A part of an input's previous transaction, which the PSBT may lack, or an
\* output.  The code indexes with the number the device gives: a number out of
\* bounds, which this device never gives, ends the program.
SendPart(op) ==
  /\ Send(Request(op, Response.index, 0),
          [call EXCEPT !.sigs = SignaturesNow, !.phase = "ExpectNext"])
  /\ UNCHANGED <<drawn, revealed>>

OnDone == Return("ok", SignaturesNow) /\ UNCHANGED <<drawn, revealed>>

OnSignNext ==
  /\ Receive("SignPsbtWaitNext")
  /\ \/ Unexpected /\ Fail
     \/ /\ ~Unexpected
        /\ \/ /\ Response.typ = "HostNonce"
              /\ Reveal([call EXCEPT !.phase = "ExpectAntikleptoSig",
                                     !.commitment = Response.commitment])
           \/ Response.typ = "Input" /\ SendInput
           \/ /\ Response.typ \in Parts
              /\ (SendPart(Response.typ) \/ Fail)
           \/ Response.typ = "Output" /\ SendPart("output")
           \/ Response.typ = "Done" /\ OnDone

OnSignMessageCommitment ==
  /\ Receive("SignMessageWaitCommitment")
  /\ \/ /\ Response.typ = "AntikleptoSignerCommitment"
        /\ Reveal([call EXCEPT !.st = "SignMessageWaitSig", !.commitment = Response.commitment])
     \/ Response.typ # "AntikleptoSignerCommitment" /\ Fail

OnSignMessageSig ==
  /\ Receive("SignMessageWaitSig")
  /\ \/ /\ Response.typ = "SignMessage" /\ Verified
        /\ Return("ok", <<Response.sig>>)
        /\ UNCHANGED <<drawn, revealed>>
     \/ ~(Response.typ = "SignMessage" /\ Verified) /\ Fail

HostReceive == OnSignFingerprint \/ OnSignNext \/ OnSignMessageCommitment \/ OnSignMessageSig

\* A read error, a timeout or a dropped future.
Abandon ==
  /\ call # NewCall
  /\ lost < MaxFaults
  /\ lost' = lost + 1
  /\ call' = NewCall
  /\ result' = NoResult
  /\ UNCHANGED <<drawn, revealed, out, in, dev, calls>>

-----------------------------------------------------------------------------
(* The device: it asks for every input and its previous transaction, for   *)
(* the output, and again for every input to sign it.  A request it does    *)
(* not expect, or the user, ends the signing.                              *)

Asked == Head(out)

Answer(reply, next) ==
  /\ out # <<>>
  /\ out' = Tail(out)
  /\ in' = Append(in, reply)
  /\ dev' = next
  /\ UNCHANGED <<call, drawn, result, revealed, calls, lost>>

Expects(op) == out # <<>> /\ Asked.op = op /\ dev.mode = "signing" /\ dev.expects = op

AskInput(index, pass, sig) ==
  Answer([Reply("Input") EXCEPT !.index = index, !.sig = sig],
         [dev EXCEPT !.expects = "input", !.index = index, !.pass = pass, !.nonce = 0])

Ask(typ, expects, index) ==
  Answer([Reply(typ) EXCEPT !.index = index], [dev EXCEPT !.expects = expects, !.index = index])

DeviceFingerprint ==
  /\ out # <<>> /\ Asked.op = "fingerprint"
  /\ Answer(Reply("Fingerprint"), Idle)

DeviceInit ==
  /\ out # <<>> /\ Asked.op = "init"
  /\ Answer([Reply("Input") EXCEPT !.index = 1],
            [Idle EXCEPT !.mode = "signing", !.id = Asked.id, !.tx = Asked.tx, !.index = 1,
                         !.expects = "input"])

\* Pass 1: the inputs; previous transactions unless all inputs are Taproot.
AfterInput ==
  IF dev.index < Len(dev.tx) THEN AskInput(dev.index + 1, 1, NoSig) ELSE Ask("Output", "output", 1)

DeviceInput1 ==
  /\ Expects("input") /\ dev.pass = 1 /\ Asked.index = dev.index
  /\ \/ /\ \E i \in 1..Len(dev.tx) : dev.tx[i] = "ecdsa"
        /\ Ask("PrevtxInit", "PrevtxInit", dev.index)
     \/ /\ \A i \in 1..Len(dev.tx) : dev.tx[i] = "schnorr"
        /\ AfterInput

DevicePrevtx ==
  \/ Expects("PrevtxInit") /\ Ask("PrevtxInput", "PrevtxInput", dev.index)
  \/ Expects("PrevtxInput") /\ Ask("PrevtxOutput", "PrevtxOutput", dev.index)
  \/ Expects("PrevtxOutput") /\ AfterInput

DeviceOutput == Expects("output") /\ AskInput(1, 2, NoSig)

\* Pass 2: a signature at once, or after the exchange of nonces.
Signed(sig) ==
  IF dev.index < Len(dev.tx) THEN AskInput(dev.index + 1, 2, sig)
  ELSE Answer([Reply("Done") EXCEPT !.sig = sig], Idle)

Signature(nonce) == [id |-> dev.id, index |-> dev.index, nonce |-> nonce]

DeviceInput2 ==
  /\ Expects("input") /\ dev.pass = 2 /\ Asked.index = dev.index
  /\ \/ /\ Asked.nonce = 0 \/ dev.tx[dev.index] = "schnorr"
        /\ Signed(Signature(0))
     \/ /\ Asked.nonce # 0 /\ dev.tx[dev.index] = "ecdsa"
        /\ Answer([Reply("HostNonce") EXCEPT !.commitment = Signature(Asked.nonce)],
                  [dev EXCEPT !.expects = "signature", !.nonce = Asked.nonce])

DeviceSignature ==
  /\ Expects("signature") /\ Asked.nonce = dev.nonce
  /\ Signed(Signature(dev.nonce))

DeviceMessage ==
  /\ out # <<>> /\ Asked.op = "message"
  /\ Answer([Reply("AntikleptoSignerCommitment") EXCEPT
               !.commitment = [id |-> Asked.id, index |-> 0, nonce |-> Asked.nonce]],
            [Idle EXCEPT !.mode = "message", !.id = Asked.id, !.nonce = Asked.nonce])

DeviceMessageSignature ==
  /\ out # <<>> /\ Asked.op = "signature" /\ dev.mode = "message" /\ Asked.nonce = dev.nonce
  /\ Answer([Reply("SignMessage") EXCEPT !.sig = Signature(dev.nonce)], Idle)

DeviceRefuses == out # <<>> /\ Answer(Reply("Error"), Idle)

DeviceStep ==
  \/ DeviceFingerprint \/ DeviceInit \/ DeviceInput1 \/ DevicePrevtx \/ DeviceOutput
  \/ DeviceInput2 \/ DeviceSignature \/ DeviceMessage \/ DeviceMessageSignature \/ DeviceRefuses

Next == SignPsbt \/ SignMessage \/ HostReceive \/ Abandon \/ DeviceStep

Spec == Init /\ [][Next]_vars /\ WF_vars(HostReceive) /\ WF_vars(DeviceStep)

-----------------------------------------------------------------------------
(* Properties.                                                             *)

Awaited ==
  \/ call.st = "SignPsbtWaitNext" /\ call.phase \in {"ExpectHostNonce", "ExpectAntikleptoSig"}
  \/ call.st \in {"SignMessageWaitCommitment", "SignMessageWaitSig"}

Succeeded == result.status = "ok"

SignCalls ==
  [st : {"New", "SignPsbtWaitFingerprint", "SignPsbtWaitNext", "SignMessageWaitCommitment",
         "SignMessageWaitSig"},
   tx : Seq(Kinds), phase : Phases, pass2 : BOOLEAN, sigs : Seq(Signatures), nonce : Nat,
   commitment : Signatures]

Devices ==
  [mode : {"idle", "signing", "message"}, id : Nat, tx : Seq(Kinds),
   expects : Parts \cup {"none", "input", "output", "signature"}, index : Nat, pass : {1, 2},
   nonce : Nat]

\* The variables have their types; a nonce that is waited for has been drawn, and a
\* loop that has not begun expects no signature.
TypeOK ==
  /\ call \in SignCalls
  /\ Awaited => call.nonce \in 1..drawn
  /\ call.st = "SignPsbtWaitFingerprint" => call.phase = "ExpectNext"
  /\ drawn \in Nat /\ revealed \subseteq 1..drawn
  /\ result \in [status : {"none", "ok", "err"}, id : Nat, tx : Seq(Kinds), sigs : Seq(Signatures)]
  /\ out \in Seq(Requests) /\ in \in Seq(Replies)
  /\ dev \in Devices
  /\ calls \in Nat /\ lost \in Nat

\* Every signature handed back is over this call's PSBT or message, and each
\* input has its own, an ECDSA signature with a nonce of the host in it: what the
\* device signs for one input, or signed for an earlier call that stopped waiting,
\* never lands on another, and none is missing.  Only the types of the replies
\* guard the order of Schnorr signatures: after five lost calls a whole signing
\* of one Taproot input is left behind.
SignaturesInPlace ==
  Succeeded /\ lost < 5 =>
    IF result.tx = <<>> THEN result.sigs[1].id = result.id
    ELSE /\ Len(result.sigs) = Len(result.tx)
         /\ \A i \in 1..Len(result.tx) :
              /\ result.sigs[i].id = result.id /\ result.sigs[i].index = i
              /\ result.tx[i] = "ecdsa" => result.sigs[i].nonce # 0

\* However many calls were lost, a signature with a nonce of the host in it is
\* over this call's PSBT or message, and its nonce is in no other signature.
EcdsaIsOwn ==
  Succeeded =>
    \A i \in 1..Len(result.sigs) : result.sigs[i].nonce # 0 =>
      /\ result.sigs[i].id = result.id
      /\ \A j \in 1..Len(result.sigs) : i # j => result.sigs[i].nonce # result.sigs[j].nonce

\* A nonce is revealed once: no two signatures can be asked for with one nonce.
RevealedOnce ==
  [][\A i \in 1..Len(out') : i > Len(out) /\ out'[i].op = "signature" =>
       out'[i].nonce \notin revealed]_vars

\* A signing ends, however often the device asks.
SigningEnds == call # NewCall ~> call = NewCall
=============================================================================
