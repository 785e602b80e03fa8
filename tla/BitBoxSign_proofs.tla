-------------------------- MODULE BitBoxSign_proofs --------------------------
(* What TLAPS proves of BitBoxSign, for every value of its constants: the  *)
(* types, that a nonce is revealed once (RevealedOnce), that an ECDSA      *)
(* signature is the call's own, however many calls were lost (EcdsaIsOwn), *)
(* and that with fewer than five of them every signature is in its place   *)
(* (SignaturesInPlace).                                                    *)
EXTENDS BitBoxSign, SequenceFacts, TLAPS

InCall == call.st # "New"

\* The requests a call starts with: they find the device wherever it was left.
Openers == {"fingerprint", "message"}

\* The nonces that are waited for and not revealed yet.
Committed ==
  \/ call.st = "SignPsbtWaitNext" /\ call.phase = "ExpectHostNonce"
  \/ call.st = "SignMessageWaitCommitment"

\* All nonces have been drawn.
NoncesDrawn ==
  /\ \A j \in 1..Len(out) : out[j].nonce <= drawn
  /\ \A j \in 1..Len(in) : in[j].sig.nonce <= drawn
  /\ dev.nonce <= drawn /\ call.nonce <= drawn
  /\ \A j \in 1..Len(call.sigs) : call.sigs[j].nonce <= drawn

\* The device works on what it was asked for last, and the requests of a call
\* follow one another.
InOrder ==
  /\ call = NewCall \/ InCall
  /\ out # <<>> /\ out[1].op \notin Openers /\ dev.mode # "idle" => dev.id = out[1].id
  /\ \A j \in 1..(Len(out) - 1) : out[j + 1].op \notin Openers => out[j + 1].id = out[j].id
  /\ InCall /\ out # <<>> => out[Len(out)].id = calls
  /\ InCall /\ out = <<>> /\ dev.mode # "idle" => dev.id = calls

\* Whatever has the nonce of the call belongs to the call.
NonceIsOwn ==
  call.nonce # 0 =>
    /\ \A j \in 1..Len(out) : out[j].nonce = call.nonce => out[j].id = calls
    /\ \A j \in 1..Len(in) : in[j].sig.nonce = call.nonce => in[j].sig.id = calls
    /\ dev.mode # "idle" /\ dev.nonce = call.nonce => dev.id = calls

\* A reply with an ECDSA signature over an input.
IsEcdsa(reply) == reply.typ \in NextTypes /\ reply.sig.nonce # 0

\* Such a reply comes right after a commitment, so that a call that waits for a
\* Schnorr signature, which has just read something else, does not find one.
AfterCommitment ==
  /\ \A j \in 1..(Len(in) - 1) : IsEcdsa(in[j + 1]) => in[j].typ = "HostNonce"
  /\ dev.mode = "signing" /\ dev.expects = "signature" /\ in # <<>> => in[Len(in)].typ = "HostNonce"
  /\ call.st = "SignPsbtWaitNext" /\ call.phase = "ExpectNextWithSig" =>
       IF in = <<>> THEN ~(dev.mode = "signing" /\ dev.expects = "signature") ELSE ~IsEcdsa(in[1])

\* The signatures gathered so far.
Gathered ==
  /\ \A i \in 1..Len(call.sigs) : call.sigs[i].nonce # 0 =>
       /\ call.sigs[i].id = calls
       /\ \A j \in 1..Len(call.sigs) : i # j => call.sigs[i].nonce # call.sigs[j].nonce
       /\ call.st = "SignPsbtWaitNext" /\ call.phase \in {"ExpectHostNonce", "ExpectAntikleptoSig"} =>
            call.sigs[i].nonce # call.nonce

NotRevealed == Committed => call.nonce \notin revealed

SignInv ==
  /\ TypeOK /\ NoncesDrawn /\ InOrder /\ NonceIsOwn /\ AfterCommitment /\ Gathered
  /\ NotRevealed /\ EcdsaIsOwn

-----------------------------------------------------------------------------
(* Types.                                                                  *)

ResultTypes == [status : {"none", "ok", "err"}, id : Nat, tx : Seq(Kinds), sigs : Seq(Signatures)]

LEMMA ConstantTypes ==
  /\ NoSig \in Signatures /\ NoSig.nonce = 0
  /\ NewCall \in SignCalls /\ NewCall.st = "New" /\ NewCall.nonce = 0 /\ NewCall.sigs = <<>>
  /\ NewCall.phase = "ExpectNext"
  /\ Idle \in Devices /\ Idle.mode = "idle" /\ Idle.nonce = 0
  /\ NoResult \in ResultTypes /\ NoResult.status = "none"
<1>1. NoSig \in Signatures /\ NoSig.nonce = 0
  BY DEF NoSig, Signatures
<1>2. <<>> \in Seq(Kinds) /\ <<>> \in Seq(Signatures)
  BY EmptyFacts
<1>3. /\ NewCall \in SignCalls /\ NewCall.st = "New" /\ NewCall.nonce = 0 /\ NewCall.sigs = <<>>
      /\ NewCall.phase = "ExpectNext"
  BY <1>1, <1>2 DEF NewCall, SignCalls, Phases
<1>4. Idle \in Devices /\ Idle.mode = "idle" /\ Idle.nonce = 0
  BY <1>2 DEF Idle, Devices
<1>5. NoResult \in ResultTypes /\ NoResult.status = "none"
  BY <1>2 DEF NoResult, ResultTypes
<1>6. QED
  BY <1>1, <1>3, <1>4, <1>5

LEMMA RequestTypes ==
  ASSUME TypeOK, NEW op \in Ops, NEW index \in Nat, NEW nonce \in Nat
  PROVE  /\ Request(op, index, nonce) \in Requests /\ Request(op, index, nonce).id = calls
         /\ Request(op, index, nonce).nonce = nonce /\ Request(op, index, nonce).op = op
<1>1. call.tx \in Seq(Kinds) /\ calls \in Nat
  BY DEF TypeOK, SignCalls
<1>2. QED
  BY <1>1 DEF Request, Requests

LEMMA OpenerTypes ==
  ASSUME TypeOK, NEW op \in Ops, NEW nonce \in Nat, NEW id \in Nat
  PROVE  /\ [Request(op, 0, nonce) EXCEPT !.id = id] \in Requests
         /\ [Request(op, 0, nonce) EXCEPT !.id = id].id = id
         /\ [Request(op, 0, nonce) EXCEPT !.id = id].op = op
         /\ [Request(op, 0, nonce) EXCEPT !.id = id].nonce = nonce
<1>1. call.tx \in Seq(Kinds) /\ calls \in Nat
  BY DEF TypeOK, SignCalls
<1>2. QED
  BY <1>1 DEF Request, Requests

LEMMA TypesInit ==
  Init => TypeOK
  BY ConstantTypes, EmptyFacts DEF Init, TypeOK, ResultTypes, Awaited, NewCall

LEMMA StartTypes ==
  ASSUME TypeOK, SignPsbt \/ SignMessage
  PROVE  TypeOK'
<1>a. calls \in Nat /\ drawn \in Nat /\ out \in Seq(Requests) /\ revealed \subseteq 1..drawn
  BY DEF TypeOK
<1>b. /\ calls' = calls + 1
      /\ in' = in /\ dev' = dev /\ lost' = lost /\ revealed' = revealed /\ result' = NoResult
  BY DEF SignPsbt, SignMessage
<1>1. /\ calls \in Nat /\ calls' \in Nat /\ drawn \in Nat /\ out \in Seq(Requests) /\ revealed \subseteq 1..drawn
      /\ in' = in /\ dev' = dev /\ lost' = lost /\ revealed' = revealed /\ result' = NoResult
  BY <1>a, <1>b
<1>2. CASE SignPsbt
  <2>1. PICK tx \in Transactions : call' = [NewCall EXCEPT !.st = "SignPsbtWaitFingerprint", !.tx = tx]
    BY <1>2 DEF SignPsbt
  <2>2. tx \in Seq(Kinds)
    BY TransactionsAssumption
  <2>3. call' \in SignCalls /\ call'.st = "SignPsbtWaitFingerprint" /\ call'.phase = "ExpectNext"
    BY <2>1, <2>2, ConstantTypes DEF SignCalls
  <2>4. out' \in Seq(Requests)
    <3>1. [Request("fingerprint", 0, 0) EXCEPT !.id = calls'] \in Requests
      BY <1>1, OpenerTypes DEF Ops
    <3>2. QED
      BY <1>1, <1>2, <3>1, AppendFacts DEF SignPsbt
  <2>5. ~Awaited'
    BY <2>3 DEF Awaited
  <2>6. drawn' = drawn
    BY <1>2 DEF SignPsbt
  <2>7. QED
    BY <1>1, <2>3, <2>4, <2>5, <2>6, ConstantTypes DEF TypeOK, ResultTypes
<1>3. CASE SignMessage
  <2>1. drawn' = drawn + 1 /\ drawn' \in Nat /\ drawn' \in 1..drawn'
    BY <1>1, <1>3 DEF SignMessage
  <2>2. call' = [NewCall EXCEPT !.st = "SignMessageWaitCommitment", !.nonce = drawn']
    BY <1>3 DEF SignMessage
  <2>3. call' \in SignCalls /\ call'.nonce = drawn' /\ call'.st = "SignMessageWaitCommitment"
    BY <2>1, <2>2, ConstantTypes DEF SignCalls
  <2>4. out' \in Seq(Requests)
    <3>1. [Request("message", 0, drawn') EXCEPT !.id = calls'] \in Requests
      BY <1>1, <2>1, OpenerTypes DEF Ops
    <3>2. QED
      BY <1>1, <1>3, <3>1, AppendFacts DEF SignMessage
  <2>5. revealed' \subseteq 1..drawn'
    BY <1>1, <2>1
  <2>6. QED
    BY <1>1, <2>1, <2>3, <2>4, <2>5, ConstantTypes DEF TypeOK, ResultTypes
<1>4. QED
  BY <1>2, <1>3

\* What a call reads.
LEMMA ResponseTypes ==
  ASSUME TypeOK, in # <<>>, in' = Tail(in)
  PROVE  /\ Response = in[1] /\ Response \in Replies /\ in' \in Seq(Replies)
         /\ Response.sig \in Signatures /\ Response.commitment \in Signatures /\ Response.index \in Nat
<1>1. in \in Seq(Replies)
  BY DEF TypeOK
<1>2. Response = in[1] /\ Response \in Replies /\ in' \in Seq(Replies)
  BY <1>1, TailFacts DEF Response
<1>3. QED
  BY <1>2 DEF Replies

\* A call that ends with a result.
LEMMA ReturnTypes ==
  ASSUME TypeOK, in # <<>>, in' = Tail(in), NEW status \in {"ok", "err"}, NEW sigs \in Seq(Signatures),
         Return(status, sigs), UNCHANGED <<drawn, revealed, dev, calls, lost>>
  PROVE  TypeOK'
<1>1. call' = NewCall /\ out' = out /\ in' \in Seq(Replies)
  BY ResponseTypes DEF Return
<1>2. result' \in ResultTypes
  BY DEF Return, TypeOK, SignCalls, ResultTypes
<1>3. ~Awaited'
  BY <1>1, ConstantTypes DEF Awaited
<1>4. QED
  BY <1>1, <1>2, <1>3, ConstantTypes DEF TypeOK, ResultTypes

\* A call that goes on with a request.
LEMMA SendTypes ==
  ASSUME TypeOK, in # <<>>, in' = Tail(in), NEW request \in Requests, NEW next \in SignCalls,
         Send(request, next), UNCHANGED <<dev, calls, lost>>, drawn' \in Nat,
         revealed' \subseteq 1..drawn', next.nonce \in 1..drawn' \/ ~Awaited',
         next.st # "SignPsbtWaitFingerprint"
  PROVE  TypeOK'
<1>1. call' = next /\ out' = Append(out, request) /\ in' \in Seq(Replies) /\ result' = result
  BY ResponseTypes DEF Send
<1>2. out' \in Seq(Requests)
  BY <1>1, AppendFacts DEF TypeOK
<1>3. QED
  BY <1>1, <1>2 DEF TypeOK

LEMMA RevealTypes ==
  ASSUME TypeOK, in # <<>>, in' = Tail(in), call.nonce \in 1..drawn, NEW next \in SignCalls,
         next.nonce = call.nonce, next.st # "SignPsbtWaitFingerprint",
         Reveal(next), UNCHANGED <<dev, calls, lost>>
  PROVE  TypeOK'
<1>1. drawn' = drawn /\ drawn \in Nat /\ revealed \subseteq 1..drawn /\ revealed' = revealed \cup {call.nonce}
  BY DEF TypeOK, Reveal
<1>2. Request("signature", 0, call.nonce) \in Requests
  <2>1. call.nonce \in Nat /\ calls \in Nat
    BY <1>1 DEF TypeOK
  <2>2. QED
    BY <2>1, RequestTypes DEF Ops
<1>3. Send(Request("signature", 0, call.nonce), next)
  BY DEF Reveal
<1>4. revealed' \subseteq 1..drawn' /\ next.nonce \in 1..drawn'
  BY <1>1
<1>5. QED
  BY <1>1, <1>2, <1>3, <1>4, SendTypes

LEMMA SignaturesNowTypes ==
  ASSUME TypeOK, in # <<>>, in' = Tail(in)
  PROVE  SignaturesNow \in Seq(Signatures)
<1>1. call.sigs \in Seq(Signatures) /\ Response.sig \in Signatures
  BY ResponseTypes DEF TypeOK, SignCalls
<1>2. QED
  BY <1>1, AppendFacts DEF SignaturesNow

LEMMA FailTypes ==
  ASSUME TypeOK, in # <<>>, in' = Tail(in), Fail, UNCHANGED <<dev, calls, lost>>
  PROVE  TypeOK'
<1>1. <<>> \in Seq(Signatures)
  BY EmptyFacts
<1>2. QED
  BY <1>1, ReturnTypes DEF Fail

LEMMA FingerprintTypes ==
  ASSUME TypeOK, OnSignFingerprint
  PROVE  TypeOK'
<1>1. in # <<>> /\ in' = Tail(in) /\ UNCHANGED <<dev, calls, lost>>
  BY DEF OnSignFingerprint, Receive
<1>2. CASE ~Fail
  <2> DEFINE next == [call EXCEPT !.st = "SignPsbtWaitNext"]
  <2>1. /\ call \in SignCalls /\ call.phase = "ExpectNext" /\ drawn \in Nat /\ calls \in Nat
        /\ revealed \subseteq 1..drawn
    BY DEF TypeOK, OnSignFingerprint, Receive
  <2>2. Send(Request("init", 0, 0), next) /\ drawn' = drawn /\ revealed' = revealed
    BY <1>2 DEF OnSignFingerprint
  <2>3. next \in SignCalls /\ next.phase = "ExpectNext" /\ next.st = "SignPsbtWaitNext"
    BY <2>1 DEF SignCalls
  <2>4. Request("init", 0, 0) \in Requests
    BY <2>1, RequestTypes DEF Ops
  <2>5. call' = next
    BY <2>2 DEF Send
  <2> HIDE DEF next
  <2>6. ~Awaited'
    BY <2>3, <2>5 DEF Awaited
  <2>7. QED
    BY <1>1, <2>1, <2>2, <2>3, <2>4, <2>6, SendTypes
<1>3. QED
  BY <1>1, <1>2, FailTypes

LEMMA MessageTypes ==
  ASSUME TypeOK, OnSignMessageCommitment \/ OnSignMessageSig
  PROVE  TypeOK'
<1>1. in # <<>> /\ in' = Tail(in) /\ UNCHANGED <<dev, calls, lost>>
  BY DEF OnSignMessageCommitment, OnSignMessageSig, Receive
<1>2. CASE ~Fail /\ OnSignMessageCommitment
  <2> DEFINE next == [call EXCEPT !.st = "SignMessageWaitSig", !.commitment = Response.commitment]
  <2>1. call \in SignCalls /\ call.nonce \in 1..drawn
    BY <1>2 DEF TypeOK, OnSignMessageCommitment, Receive, Awaited
  <2>2. Response.commitment \in Signatures
    BY <1>1, ResponseTypes
  <2>3. next \in SignCalls /\ next.nonce = call.nonce /\ next.st = "SignMessageWaitSig"
    BY <2>1, <2>2 DEF SignCalls
  <2>4. Reveal(next)
    BY <1>2 DEF OnSignMessageCommitment
  <2> HIDE DEF next
  <2>5. QED
    BY <1>1, <2>1, <2>3, <2>4, RevealTypes
<1>3. CASE ~Fail /\ OnSignMessageSig
  <2>1. Response.sig \in Signatures
    BY <1>1, ResponseTypes
  <2>2. <<Response.sig>> \in Seq(Signatures)
    BY <2>1
  <2>3. Return("ok", <<Response.sig>>) /\ UNCHANGED <<drawn, revealed>>
    BY <1>3 DEF OnSignMessageSig
  <2>4. QED
    BY <1>1, <2>2, <2>3, ReturnTypes
<1>4. QED
  BY <1>1, <1>2, <1>3, FailTypes

LEMMA SendInputTypes ==
  ASSUME TypeOK, in # <<>>, in' = Tail(in), UNCHANGED <<dev, calls, lost>>,
         call.st = "SignPsbtWaitNext", SendInput
  PROVE  TypeOK'
<1> DEFINE nonce == IF PerformAntiklepto THEN HostNonce ELSE 0
           next == [call EXCEPT !.sigs = SignaturesNow,
                                !.nonce = IF PerformAntiklepto THEN HostNonce ELSE @,
                                !.phase = PhaseAfterInput,
                                !.pass2 = @ \/ LastInput]
<1>1. /\ call \in SignCalls /\ drawn \in Nat /\ calls \in Nat /\ revealed \subseteq 1..drawn
      /\ SignaturesNow \in Seq(Signatures) /\ Response.index \in Nat
  BY SignaturesNowTypes, ResponseTypes DEF TypeOK
<1>2. /\ Send(Request("input", Response.index, nonce), next) /\ revealed' = revealed
      /\ drawn' = IF PerformAntiklepto THEN drawn + 1 ELSE drawn
  BY DEF SendInput
<1>3. /\ nonce \in Nat /\ drawn' \in Nat /\ drawn <= drawn' /\ PhaseAfterInput \in Phases
      /\ PhaseAfterInput = "ExpectHostNonce" <=> PerformAntiklepto
      /\ PhaseAfterInput # "ExpectAntikleptoSig"
  BY <1>1, <1>2 DEF HostNonce, PhaseAfterInput, Phases
<1>4. next \in SignCalls
  BY <1>1, <1>3 DEF SignCalls, HostNonce, LastInput
<1>5. /\ next.st = "SignPsbtWaitNext" /\ next.phase = PhaseAfterInput
      /\ PerformAntiklepto => next.nonce = drawn + 1
  BY <1>1 DEF SignCalls, HostNonce
<1>6. Request("input", Response.index, nonce) \in Requests
  BY <1>1, <1>3, RequestTypes DEF Ops
<1>7. call' = next
  BY <1>2 DEF Send
<1> HIDE DEF next, nonce
<1>8. next.nonce \in 1..drawn' \/ ~Awaited'
  BY <1>1, <1>2, <1>3, <1>5, <1>7 DEF Awaited
<1>9. revealed' \subseteq 1..drawn'
  BY <1>1, <1>2, <1>3
<1>10. QED
  BY <1>2, <1>3, <1>4, <1>5, <1>6, <1>8, <1>9, SendTypes

LEMMA SendPartTypes ==
  ASSUME TypeOK, in # <<>>, in' = Tail(in), UNCHANGED <<dev, calls, lost>>,
         call.st = "SignPsbtWaitNext", NEW op \in Ops, SendPart(op)
  PROVE  TypeOK'
<1> DEFINE next == [call EXCEPT !.sigs = SignaturesNow, !.phase = "ExpectNext"]
<1>1. /\ call \in SignCalls /\ drawn \in Nat /\ calls \in Nat /\ revealed \subseteq 1..drawn
      /\ SignaturesNow \in Seq(Signatures) /\ Response.index \in Nat
  BY SignaturesNowTypes, ResponseTypes DEF TypeOK
<1>2. Send(Request(op, Response.index, 0), next) /\ UNCHANGED <<drawn, revealed>>
  BY DEF SendPart
<1>3. next \in SignCalls /\ next.st = "SignPsbtWaitNext" /\ next.phase = "ExpectNext"
  BY <1>1 DEF SignCalls, Phases
<1>4. Request(op, Response.index, 0) \in Requests
  BY <1>1, RequestTypes
<1>5. call' = next
  BY <1>2 DEF Send
<1> HIDE DEF next
<1>6. ~Awaited'
  BY <1>3, <1>5 DEF Awaited
<1>7. QED
  BY <1>1, <1>2, <1>3, <1>4, <1>6, SendTypes

\* What a round of the loop does.
LEMMA SignNextSteps ==
  ASSUME OnSignNext
  PROVE  \/ Fail
         \/ /\ ~Unexpected /\ Response.typ = "HostNonce"
            /\ Reveal([call EXCEPT !.phase = "ExpectAntikleptoSig", !.commitment = Response.commitment])
         \/ ~Unexpected /\ Response.typ = "Input" /\ SendInput
         \/ ~Unexpected /\ \E op \in Ops : SendPart(op)
         \/ ~Unexpected /\ Response.typ = "Done" /\ OnDone
  BY DEF OnSignNext, Ops

LEMMA SignNextTypes ==
  ASSUME TypeOK, OnSignNext
  PROVE  TypeOK'
<1>1. in # <<>> /\ in' = Tail(in) /\ call.st = "SignPsbtWaitNext" /\ UNCHANGED <<dev, calls, lost>>
  BY DEF OnSignNext, Receive
<1>2. ASSUME ~Unexpected, Response.typ = "HostNonce",
             Reveal([call EXCEPT !.phase = "ExpectAntikleptoSig", !.commitment = Response.commitment])
      PROVE  TypeOK'
  <2> DEFINE next == [call EXCEPT !.phase = "ExpectAntikleptoSig", !.commitment = Response.commitment]
  <2>1. call.phase = "ExpectHostNonce"
    BY <1>2 DEF Unexpected
  <2>2. call \in SignCalls /\ call.nonce \in 1..drawn
    BY <1>1, <2>1 DEF TypeOK, Awaited
  <2>3. Response.commitment \in Signatures
    BY <1>1, ResponseTypes
  <2>4. next \in SignCalls /\ next.nonce = call.nonce /\ next.st = "SignPsbtWaitNext"
    BY <1>1, <2>2, <2>3 DEF SignCalls, Phases
  <2>5. Reveal(next)
    BY <1>2
  <2> HIDE DEF next
  <2>6. QED
    BY <1>1, <2>2, <2>4, <2>5, RevealTypes
<1>3. CASE OnDone
  BY <1>1, <1>3, SignaturesNowTypes, ReturnTypes DEF OnDone
<1>4. QED
  BY <1>1, <1>2, <1>3, SignNextSteps, FailTypes, SendInputTypes, SendPartTypes

LEMMA AbandonTypes ==
  ASSUME TypeOK, Abandon
  PROVE  TypeOK'
<1>1. call' = NewCall /\ result' = NoResult /\ lost' = lost + 1
      /\ UNCHANGED <<drawn, revealed, out, in, dev, calls>>
  BY DEF Abandon
<1>2. ~Awaited'
  BY <1>1, ConstantTypes DEF Awaited
<1>3. QED
  BY <1>1, <1>2, ConstantTypes DEF TypeOK, ResultTypes

\* What the device does in a step: it answers the request it was asked; what it
\* is then at work on is that request's or the one it was at work on, and so is
\* the nonce it has; an ECDSA signature is what the request for it gets, and the
\* device expects that request only after its commitment.
DeviceAnswers(reply, next) ==
  /\ out # <<>> /\ out' = Tail(out) /\ in' = Append(in, reply) /\ dev' = next
  /\ UNCHANGED <<call, drawn, result, revealed, calls, lost>>
  /\ next.mode # "idle" =>
       next.id = out[1].id \/ (dev.mode # "idle" /\ next.id = dev.id /\ out[1].op \notin Openers)
  /\ next.nonce \in {0, out[1].nonce} \/ (next.nonce = dev.nonce /\ next.id = dev.id /\ dev.mode # "idle")
  /\ reply.sig.nonce # 0 =>
       /\ dev.mode # "idle" /\ out[1].op \notin Openers
       /\ reply.sig.nonce = dev.nonce /\ reply.sig.id = dev.id
  /\ IsEcdsa(reply) => dev.mode = "signing" /\ dev.expects = "signature"
  /\ next.mode = "signing" /\ next.expects = "signature" => reply.typ = "HostNonce"

LEMMA AskedTypes ==
  ASSUME TypeOK, out # <<>>
  PROVE  /\ Asked = out[1] /\ Asked \in Requests /\ Tail(out) \in Seq(Requests)
         /\ Asked.id \in Nat /\ Asked.nonce \in Nat /\ Asked.tx \in Seq(Kinds)
<1>1. out \in Seq(Requests)
  BY DEF TypeOK
<1>2. Asked = out[1] /\ Asked \in Requests /\ Tail(out) \in Seq(Requests)
  BY <1>1, TailFacts DEF Asked
<1>3. QED
  BY <1>2 DEF Requests

LEMMA AskInputAnswers ==
  ASSUME TypeOK, NEW index \in Nat, NEW pass \in {1, 2}, NEW sig \in Signatures,
         AskInput(index, pass, sig), dev.mode = "signing", Asked.op \notin Openers,
         sig.nonce # 0 => sig.nonce = dev.nonce /\ sig.id = dev.id /\ dev.expects = "signature"
  PROVE  \E reply \in Replies, next \in Devices : DeviceAnswers(reply, next)
<1> DEFINE reply == [Reply("Input") EXCEPT !.index = index, !.sig = sig]
           next == [dev EXCEPT !.expects = "input", !.index = index, !.pass = pass, !.nonce = 0]
<1>1. dev \in Devices
  BY DEF TypeOK
<1>2. reply \in Replies /\ reply.typ = "Input" /\ reply.sig = sig
  BY ConstantTypes DEF Reply, Replies, Types, NextTypes
<1>3. /\ next \in Devices /\ next.mode = dev.mode /\ next.id = dev.id /\ next.nonce = 0
      /\ next.expects = "input"
  BY <1>1 DEF Devices
<1>4. Answer(reply, next)
  BY DEF AskInput
<1> HIDE DEF reply, next
<1>5. out # <<>>
  BY <1>4 DEF Answer
<1>6. DeviceAnswers(reply, next)
  BY <1>2, <1>3, <1>4, <1>5, AskedTypes DEF DeviceAnswers, Answer, IsEcdsa
<1>7. QED
  BY <1>2, <1>3, <1>6

LEMMA AskAnswers ==
  ASSUME TypeOK, NEW typ \in Types, NEW expects \in Parts \cup {"output"}, NEW index \in Nat,
         Ask(typ, expects, index), dev.mode = "signing", Asked.op \notin Openers
  PROVE  \E reply \in Replies, next \in Devices : DeviceAnswers(reply, next)
<1> DEFINE reply == [Reply(typ) EXCEPT !.index = index]
           next == [dev EXCEPT !.expects = expects, !.index = index]
<1>1. dev \in Devices
  BY DEF TypeOK
<1>2. reply \in Replies /\ reply.sig.nonce = 0
  BY ConstantTypes DEF Reply, Replies
<1>3. /\ next \in Devices /\ next.mode = dev.mode /\ next.id = dev.id /\ next.nonce = dev.nonce
      /\ next.expects # "signature"
  BY <1>1 DEF Devices, Parts
<1>4. Answer(reply, next)
  BY DEF Ask
<1> HIDE DEF reply, next
<1>5. out # <<>>
  BY <1>4 DEF Answer
<1>6. DeviceAnswers(reply, next)
  BY <1>2, <1>3, <1>4, <1>5, AskedTypes DEF DeviceAnswers, Answer, IsEcdsa
<1>7. QED
  BY <1>2, <1>3, <1>6

\* What leaves the device idle.
LEMMA IdleAnswers ==
  ASSUME TypeOK, NEW reply \in Replies, Answer(reply, Idle), out # <<>>,
         reply.sig.nonce # 0 =>
           /\ dev.mode # "idle" /\ Asked.op \notin Openers
           /\ reply.sig.nonce = dev.nonce /\ reply.sig.id = dev.id,
         IsEcdsa(reply) => dev.mode = "signing" /\ dev.expects = "signature"
  PROVE  \E r \in Replies, next \in Devices : DeviceAnswers(r, next)
<1>1. DeviceAnswers(reply, Idle)
  BY AskedTypes, ConstantTypes DEF DeviceAnswers, Answer
<1>2. QED
  BY <1>1, ConstantTypes

LEMMA SignedAnswers ==
  ASSUME TypeOK, NEW nonce \in Nat, Signed(Signature(nonce)), dev.mode = "signing",
         out # <<>>, Asked.op \notin Openers, nonce # 0 => nonce = dev.nonce /\ dev.expects = "signature"
  PROVE  \E reply \in Replies, next \in Devices : DeviceAnswers(reply, next)
<1> DEFINE sig == Signature(nonce)
<1>1. dev.index \in Nat /\ dev.id \in Nat /\ dev.tx \in Seq(Kinds) /\ dev.index + 1 \in Nat
  BY DEF TypeOK, Devices
<1>2. sig \in Signatures /\ sig.nonce = nonce /\ sig.id = dev.id
  BY <1>1 DEF Signature, Signatures
<1>3. AskInput(dev.index + 1, 2, sig) \/ Answer([Reply("Done") EXCEPT !.sig = sig], Idle)
  BY DEF Signed
<1> HIDE DEF sig
<1>4. ASSUME Answer([Reply("Done") EXCEPT !.sig = sig], Idle)
      PROVE  \E reply \in Replies, next \in Devices : DeviceAnswers(reply, next)
  <2> DEFINE reply == [Reply("Done") EXCEPT !.sig = sig]
  <2>1. reply \in Replies /\ reply.sig = sig
    BY <1>2, ConstantTypes DEF Reply, Replies, Types, NextTypes
  <2>2. Answer(reply, Idle)
    BY <1>4
  <2> HIDE DEF reply
  <2>3. QED
    BY <1>2, <2>1, <2>2, IdleAnswers DEF IsEcdsa
<1>5. QED
  BY <1>1, <1>2, <1>3, <1>4, AskInputAnswers

LEMMA AfterInputAnswers ==
  ASSUME TypeOK, AfterInput, dev.mode = "signing", Asked.op \notin Openers
  PROVE  \E reply \in Replies, next \in Devices : DeviceAnswers(reply, next)
<1>1. dev.index \in Nat /\ dev.index + 1 \in Nat
  BY DEF TypeOK, Devices
<1>2. AskInput(dev.index + 1, 1, NoSig) \/ Ask("Output", "output", 1)
  BY DEF AfterInput
<1>3. QED
  BY <1>1, <1>2, ConstantTypes, AskInputAnswers, AskAnswers DEF Types, NextTypes

LEMMA CommitmentAnswers ==
  ASSUME TypeOK, Expects("input"),
         Answer([Reply("HostNonce") EXCEPT !.commitment = Signature(Asked.nonce)],
                [dev EXCEPT !.expects = "signature", !.nonce = Asked.nonce])
  PROVE  \E reply \in Replies, next \in Devices : DeviceAnswers(reply, next)
<1> DEFINE reply == [Reply("HostNonce") EXCEPT !.commitment = Signature(Asked.nonce)]
           next == [dev EXCEPT !.expects = "signature", !.nonce = Asked.nonce]
<1>1. /\ out # <<>> /\ dev.mode = "signing" /\ Asked.op = "input" /\ Asked.op \notin Openers
      /\ dev \in Devices
  BY DEF TypeOK, Expects, Openers
<1>2. Asked.nonce \in Nat /\ Signature(Asked.nonce) \in Signatures
  BY <1>1, AskedTypes DEF Signature, Signatures, Devices
<1>3. reply \in Replies /\ reply.sig.nonce = 0 /\ reply.typ = "HostNonce"
  BY <1>2, ConstantTypes DEF Reply, Replies, Types, NextTypes
<1>4. next \in Devices /\ next.mode = dev.mode /\ next.id = dev.id /\ next.nonce = Asked.nonce
  BY <1>1, <1>2 DEF Devices
<1>5. Answer(reply, next)
  OBVIOUS
<1> HIDE DEF reply, next
<1>6. DeviceAnswers(reply, next)
  BY <1>1, <1>3, <1>4, <1>5, AskedTypes DEF DeviceAnswers, Answer, IsEcdsa
<1>7. QED
  BY <1>3, <1>4, <1>6

\* A request that opens a signing.
LEMMA OpeningAnswers ==
  ASSUME TypeOK, DeviceInit \/ DeviceMessage
  PROVE  \E reply \in Replies, next \in Devices : DeviceAnswers(reply, next)
<1>1. out # <<>>
  BY DEF DeviceInit, DeviceMessage
<1>2. /\ Asked = out[1] /\ Asked.id \in Nat /\ Asked.nonce \in Nat /\ Asked.tx \in Seq(Kinds)
      /\ [id |-> Asked.id, index |-> 0, nonce |-> Asked.nonce] \in Signatures
  BY <1>1, AskedTypes DEF Signatures
<1>3. CASE DeviceInit
  <2> DEFINE reply == [Reply("Input") EXCEPT !.index = 1]
             next == [Idle EXCEPT !.mode = "signing", !.id = Asked.id, !.tx = Asked.tx,
                                  !.index = 1, !.expects = "input"]
  <2>1. reply \in Replies /\ reply.sig.nonce = 0
    BY ConstantTypes DEF Reply, Replies, Types, NextTypes
  <2>2. next \in Devices /\ next.id = Asked.id /\ next.nonce = 0 /\ next.expects = "input"
    BY <1>2, ConstantTypes DEF Devices
  <2>3. Answer(reply, next)
    BY <1>3 DEF DeviceInit
  <2> HIDE DEF reply, next
  <2>4. DeviceAnswers(reply, next)
    BY <1>1, <1>2, <2>1, <2>2, <2>3 DEF DeviceAnswers, Answer, IsEcdsa
  <2>5. QED
    BY <2>1, <2>2, <2>4
<1>4. CASE DeviceMessage
  <2> DEFINE reply == [Reply("AntikleptoSignerCommitment") EXCEPT
                         !.commitment = [id |-> Asked.id, index |-> 0, nonce |-> Asked.nonce]]
             next == [Idle EXCEPT !.mode = "message", !.id = Asked.id, !.nonce = Asked.nonce]
  <2>1. reply \in Replies /\ reply.sig.nonce = 0
    BY <1>2, ConstantTypes DEF Reply, Replies, Types
  <2>2. next \in Devices /\ next.id = Asked.id /\ next.nonce = Asked.nonce /\ next.mode = "message"
    BY <1>2, ConstantTypes DEF Devices
  <2>3. Answer(reply, next)
    BY <1>4 DEF DeviceMessage
  <2> HIDE DEF reply, next
  <2>4. DeviceAnswers(reply, next)
    BY <1>1, <1>2, <2>1, <2>2, <2>3 DEF DeviceAnswers, Answer, IsEcdsa
  <2>5. QED
    BY <2>1, <2>2, <2>4
<1>5. QED
  BY <1>3, <1>4

LEMMA ClosingAnswers ==
  ASSUME TypeOK, DeviceFingerprint \/ DeviceMessageSignature \/ DeviceRefuses
  PROVE  \E reply \in Replies, next \in Devices : DeviceAnswers(reply, next)
<1>1. out # <<>>
  BY DEF DeviceFingerprint, DeviceMessageSignature, DeviceRefuses
<1>2. CASE DeviceMessageSignature
  <2> DEFINE reply == [Reply("SignMessage") EXCEPT !.sig = Signature(dev.nonce)]
  <2>1. dev \in Devices
    BY DEF TypeOK
  <2>2. /\ Signature(dev.nonce) \in Signatures
        /\ Signature(dev.nonce).nonce = dev.nonce /\ Signature(dev.nonce).id = dev.id
    BY <2>1 DEF Signature, Signatures, Devices
  <2>3. reply \in Replies /\ reply.sig = Signature(dev.nonce) /\ reply.typ = "SignMessage"
    BY <2>2, ConstantTypes DEF Reply, Replies, Types
  <2>4. Answer(reply, Idle) /\ dev.mode = "message" /\ Asked.op \notin Openers
    BY <1>2 DEF DeviceMessageSignature, Openers
  <2> HIDE DEF reply
  <2>5. ~IsEcdsa(reply)
    BY <2>3 DEF IsEcdsa, NextTypes, Parts
  <2>6. QED
    BY <1>1, <2>2, <2>3, <2>4, <2>5, IdleAnswers
<1>3. ASSUME NEW typ \in {"Fingerprint", "Error"}, Answer(Reply(typ), Idle)
      PROVE  \E reply \in Replies, next \in Devices : DeviceAnswers(reply, next)
  <2>1. Reply(typ) \in Replies /\ Reply(typ).sig.nonce = 0
    BY ConstantTypes DEF Reply, Replies, Types
  <2>2. QED
    BY <1>1, <1>3, <2>1, IdleAnswers DEF IsEcdsa
<1>4. QED
  BY <1>2, <1>3 DEF DeviceFingerprint, DeviceRefuses

LEMMA DeviceSteps ==
  ASSUME TypeOK, DeviceStep
  PROVE  \E reply \in Replies, next \in Devices : DeviceAnswers(reply, next)
<1>1. dev.nonce \in Nat /\ dev.index \in Nat
  BY DEF TypeOK, Devices
<1>2. CASE DeviceInput1
  BY <1>1, <1>2, AskAnswers, AfterInputAnswers DEF DeviceInput1, Expects, Openers, Parts, Types, NextTypes
<1>3. CASE DevicePrevtx
  BY <1>1, <1>3, AskAnswers, AfterInputAnswers DEF DevicePrevtx, Expects, Openers, Parts, Types, NextTypes
<1>4. CASE DeviceOutput
  BY <1>4, ConstantTypes, AskInputAnswers DEF DeviceOutput, Expects, Openers
<1>5. CASE DeviceInput2
  BY <1>5, SignedAnswers, CommitmentAnswers DEF DeviceInput2, Expects, Openers
<1>6. CASE DeviceSignature
  BY <1>1, <1>6, SignedAnswers DEF DeviceSignature, Expects, Openers
<1>7. QED
  BY <1>2, <1>3, <1>4, <1>5, <1>6, OpeningAnswers, ClosingAnswers DEF DeviceStep

LEMMA DeviceTypes ==
  ASSUME TypeOK, DeviceStep
  PROVE  TypeOK'
<1>1. PICK reply \in Replies, next \in Devices : DeviceAnswers(reply, next)
  BY DeviceSteps
<1>2. out' \in Seq(Requests) /\ in' \in Seq(Replies) /\ dev' \in Devices
  BY <1>1, AskedTypes, AppendFacts DEF DeviceAnswers, TypeOK
<1>3. UNCHANGED <<call, drawn, result, revealed, calls, lost>>
  BY <1>1 DEF DeviceAnswers
<1>4. QED
  BY <1>2, <1>3 DEF TypeOK, Awaited

LEMMA TypesNext ==
  TypeOK /\ [Next]_vars => TypeOK'
<1> SUFFICES ASSUME TypeOK, [Next]_vars PROVE TypeOK'
  OBVIOUS
<1>1. CASE UNCHANGED vars
  BY <1>1 DEF vars, TypeOK, Awaited
<1>2. QED
  BY <1>1, StartTypes, FingerprintTypes, SignNextTypes, MessageTypes, AbandonTypes, DeviceTypes
  DEF Next, HostReceive

\* The variables keep their types, a nonce that is waited for has been drawn, and
\* only drawn nonces are revealed.
THEOREM TypeCorrect == Spec => []TypeOK
<1>1. Init => TypeOK
  BY TypesInit
<1>2. TypeOK /\ [Next]_vars => TypeOK'
  BY TypesNext
<1>3. QED
  BY <1>1, <1>2, PTL DEF Spec

-----------------------------------------------------------------------------
(* The signatures are the call's own.                                      *)

\* A request of a call, as the parts of the invariant see it.
Sends(request) ==
  /\ in # <<>> /\ in' = Tail(in) /\ out' = Append(out, request)
  /\ UNCHANGED <<result, dev, calls, lost>>
  /\ InCall /\ InCall' /\ request.id = calls
  /\ \/ drawn' = drawn /\ call'.nonce = call.nonce /\ request.nonce \in {0, call.nonce}
     \/ drawn' = drawn + 1 /\ call'.nonce = drawn' /\ request.nonce \in {0, drawn'}
  /\ request.op = "signature" => Committed /\ request.nonce = call.nonce
  /\ Committed' => drawn' = drawn + 1 /\ call'.nonce = drawn' /\ revealed' = revealed
  /\ call'.st = "SignPsbtWaitNext" /\ call'.phase = "ExpectNextWithSig" => Response.typ = "Input"
  /\ \/ call'.sigs = call.sigs
     \/ call'.sigs = SignaturesNow /\ ~Unexpected /\ call.st = "SignPsbtWaitNext"
  /\ call'.st = "SignPsbtWaitNext" /\ call'.phase \in {"ExpectHostNonce", "ExpectAntikleptoSig"} =>
       \/ drawn' = drawn + 1 /\ call'.nonce = drawn'
       \/ /\ call.st = "SignPsbtWaitNext" /\ call.phase = "ExpectHostNonce"
          /\ call'.sigs = call.sigs /\ call'.nonce = call.nonce

\* The end of a call.
Returns ==
  /\ call' = NewCall /\ out' = out
  /\ (in # <<>> /\ in' = Tail(in)) \/ in' = in
  /\ UNCHANGED <<drawn, revealed, dev, calls>>

LEMMA RevealSends ==
  ASSUME TypeOK, in # <<>>, in' = Tail(in), UNCHANGED <<dev, calls, lost>>, InCall, Committed,
         NEW st \in {"SignPsbtWaitNext", "SignMessageWaitSig"}, NEW phase \in Phases,
         (st = "SignPsbtWaitNext") <=> (call.st = "SignPsbtWaitNext"),
         (st = "SignPsbtWaitNext") => (phase = "ExpectAntikleptoSig"), NEW next \in SignCalls,
         next.st = st, next.phase = phase, next.sigs = call.sigs, next.nonce = call.nonce,
         Reveal(next)
  PROVE  \E request \in Requests : Sends(request)
<1> DEFINE request == Request("signature", 0, call.nonce)
<1>1. call.nonce \in Nat /\ calls \in Nat /\ "signature" \in Ops /\ 0 \in Nat
  BY DEF TypeOK, SignCalls, Ops
<1>2. /\ request \in Requests /\ request.op = "signature" /\ request.nonce = call.nonce
      /\ request.id = calls
  <2>1. \A op \in Ops, nonce \in Nat :
          /\ Request(op, 0, nonce) \in Requests /\ Request(op, 0, nonce).op = op
          /\ Request(op, 0, nonce).nonce = nonce /\ Request(op, 0, nonce).id = calls
    BY RequestTypes
  <2>2. QED
    BY <1>1, <2>1
<1>3. Send(request, next) /\ drawn' = drawn
  BY DEF Reveal
<1>4. call' = next /\ out' = Append(out, request) /\ result' = result
  BY <1>3 DEF Send
<1> HIDE DEF request
<1>5. Sends(request)
  BY <1>2, <1>3, <1>4 DEF Sends, InCall, Committed
<1>6. QED
  BY <1>2, <1>5

LEMMA InputSends ==
  ASSUME TypeOK, in # <<>>, in' = Tail(in), UNCHANGED <<dev, calls, lost>>,
         call.st = "SignPsbtWaitNext", ~Unexpected, Response.typ = "Input", SendInput
  PROVE  \E request \in Requests : Sends(request)
<1> DEFINE nonce == IF PerformAntiklepto THEN HostNonce ELSE 0
           next == [call EXCEPT !.sigs = SignaturesNow,
                                !.nonce = IF PerformAntiklepto THEN HostNonce ELSE @,
                                !.phase = PhaseAfterInput,
                                !.pass2 = @ \/ LastInput]
           request == Request("input", Response.index, nonce)
<1>1. /\ call \in SignCalls /\ drawn \in Nat /\ calls \in Nat /\ Response.index \in Nat
      /\ "input" \in Ops
  BY ResponseTypes DEF TypeOK, Ops
<1>2. /\ Send(request, next) /\ revealed' = revealed
      /\ drawn' = IF PerformAntiklepto THEN drawn + 1 ELSE drawn
  BY DEF SendInput
<1>3. /\ nonce \in Nat /\ PhaseAfterInput = "ExpectHostNonce" <=> PerformAntiklepto
      /\ PhaseAfterInput # "ExpectAntikleptoSig"
      /\ nonce = IF PerformAntiklepto THEN drawn' ELSE 0
  BY <1>1, <1>2 DEF HostNonce, PhaseAfterInput, Phases
<1>4. /\ next.st = "SignPsbtWaitNext" /\ next.phase = PhaseAfterInput /\ next.sigs = SignaturesNow
      /\ next.nonce = IF PerformAntiklepto THEN drawn' ELSE call.nonce
  BY <1>1, <1>2 DEF SignCalls, HostNonce
<1>5. /\ request \in Requests /\ request.op = "input" /\ request.nonce = nonce
      /\ request.id = calls
  BY <1>1, <1>3, RequestTypes
<1>6. call' = next /\ out' = Append(out, request) /\ result' = result
  BY <1>2 DEF Send
<1> HIDE DEF next, nonce, request
<1>7. InCall /\ InCall'
  BY <1>4, <1>6 DEF InCall
<1>8. CASE PerformAntiklepto
  BY <1>2, <1>3, <1>4, <1>5, <1>6, <1>7, <1>8 DEF Sends
<1>9. CASE ~PerformAntiklepto
  <2>1. ~Committed'
    BY <1>3, <1>4, <1>6, <1>9 DEF Committed
  <2>2. QED
    BY <1>2, <1>3, <1>4, <1>5, <1>6, <1>7, <1>9, <2>1 DEF Sends
<1>10. QED
  BY <1>8, <1>9

LEMMA PartSends ==
  ASSUME TypeOK, in # <<>>, in' = Tail(in), UNCHANGED <<dev, calls, lost>>,
         call.st = "SignPsbtWaitNext", ~Unexpected, NEW op \in Parts \cup {"output"}, SendPart(op)
  PROVE  \E request \in Requests : Sends(request)
<1> DEFINE next == [call EXCEPT !.sigs = SignaturesNow, !.phase = "ExpectNext"]
           request == Request(op, Response.index, 0)
<1>1. call \in SignCalls /\ calls \in Nat /\ Response.index \in Nat /\ op \in Ops /\ op # "signature"
  BY ResponseTypes DEF TypeOK, Ops, Parts
<1>2. /\ next.st = "SignPsbtWaitNext" /\ next.phase = "ExpectNext" /\ next.sigs = SignaturesNow
      /\ next.nonce = call.nonce
  BY <1>1 DEF SignCalls
<1>3. request \in Requests /\ request.op = op /\ request.nonce = 0 /\ request.id = calls
  BY <1>1, RequestTypes
<1>4. Send(request, next) /\ UNCHANGED <<drawn, revealed>>
  BY DEF SendPart
<1>5. call' = next /\ out' = Append(out, request) /\ result' = result
  BY <1>4 DEF Send
<1> HIDE DEF next, request
<1>6. Sends(request)
  BY <1>1, <1>2, <1>3, <1>4, <1>5 DEF Sends, InCall, Committed
<1>7. QED
  BY <1>3, <1>6

LEMMA FingerprintSends ==
  ASSUME TypeOK, in # <<>>, in' = Tail(in), UNCHANGED <<dev, calls, lost, drawn, revealed>>,
         call.st = "SignPsbtWaitFingerprint", NEW next \in SignCalls,
         next.st = "SignPsbtWaitNext", next.phase = "ExpectNext", next.sigs = call.sigs,
         next.nonce = call.nonce, Send(Request("init", 0, 0), next)
  PROVE  \E request \in Requests : Sends(request)
<1> DEFINE request == Request("init", 0, 0)
<1>1. call.nonce \in Nat /\ call.tx \in Seq(Kinds) /\ calls \in Nat /\ "init" \in Ops
  BY DEF TypeOK, SignCalls, Ops
<1>2. /\ request \in Requests /\ request.op = "init" /\ request.nonce = 0
      /\ request.id = calls
  BY <1>1 DEF Request, Requests
<1>3. call' = next /\ out' = Append(out, request) /\ result' = result
  BY DEF Send
<1> HIDE DEF request
<1>4. Sends(request)
  BY <1>1, <1>2, <1>3 DEF Sends, InCall, Committed
<1>5. QED
  BY <1>2, <1>4

LEMMA SignNextSends ==
  ASSUME TypeOK, OnSignNext, ~Fail, Response.typ # "Done"
  PROVE  \E request \in Requests : Sends(request)
<1>1. in # <<>> /\ in' = Tail(in) /\ call.st = "SignPsbtWaitNext" /\ UNCHANGED <<dev, calls, lost>>
  BY DEF OnSignNext, Receive
<1>2. ASSUME ~Unexpected, Response.typ = "HostNonce",
             Reveal([call EXCEPT !.phase = "ExpectAntikleptoSig", !.commitment = Response.commitment])
      PROVE  \E request \in Requests : Sends(request)
  <2> DEFINE next == [call EXCEPT !.phase = "ExpectAntikleptoSig", !.commitment = Response.commitment]
  <2>1. call.phase = "ExpectHostNonce" /\ InCall /\ Committed /\ "ExpectAntikleptoSig" \in Phases
    BY <1>1, <1>2 DEF Unexpected, InCall, Committed, Phases
  <2>2. call \in SignCalls /\ Response.commitment \in Signatures
    BY <1>1, ResponseTypes DEF TypeOK
  <2>3. /\ next \in SignCalls /\ next.nonce = call.nonce /\ next.st = "SignPsbtWaitNext"
        /\ next.phase = "ExpectAntikleptoSig" /\ next.sigs = call.sigs
    BY <1>1, <2>2 DEF SignCalls, Phases
  <2>4. Reveal(next)
    BY <1>2
  <2> HIDE DEF next
  <2>5. QED
    BY <1>1, <2>1, <2>3, <2>4, RevealSends
<1>3. \/ ~Unexpected /\ Response.typ = "Input" /\ SendInput
      \/ ~Unexpected /\ \E op \in Parts \cup {"output"} : SendPart(op)
      \/ ~Unexpected /\ Response.typ = "HostNonce" /\
           Reveal([call EXCEPT !.phase = "ExpectAntikleptoSig", !.commitment = Response.commitment])
  BY DEF OnSignNext
<1>4. QED
  BY <1>1, <1>2, <1>3, InputSends, PartSends

LEMMA HostSteps ==
  ASSUME TypeOK, HostReceive
  PROVE  \/ \E request \in Requests : Sends(request)
         \/ /\ in # <<>> /\ in' = Tail(in) /\ Returns /\ lost' = lost /\ result'.id = calls
            /\ \/ result'.status = "err"
               \/ /\ call.st = "SignPsbtWaitNext" /\ ~Unexpected
                  /\ result'.sigs = SignaturesNow
               \/ /\ call.st = "SignMessageWaitSig" /\ Verified
                  /\ result'.sigs = <<Response.sig>>
<1>1. in # <<>> /\ in' = Tail(in) /\ UNCHANGED <<dev, calls, lost>>
  BY DEF HostReceive, OnSignFingerprint, OnSignNext, OnSignMessageCommitment, OnSignMessageSig, Receive
<1>2. CASE Fail
  BY <1>1, <1>2 DEF Fail, Return, Returns
<1>3. CASE ~Fail /\ OnSignFingerprint
  <2> DEFINE next == [call EXCEPT !.st = "SignPsbtWaitNext"]
  <2>1. /\ call \in SignCalls /\ call.phase = "ExpectNext" /\ call.st = "SignPsbtWaitFingerprint"
    BY <1>3 DEF TypeOK, OnSignFingerprint, Receive
  <2>2. Send(Request("init", 0, 0), next) /\ UNCHANGED <<drawn, revealed>>
    BY <1>3 DEF OnSignFingerprint
  <2>3. /\ next \in SignCalls /\ next.st = "SignPsbtWaitNext" /\ next.phase = "ExpectNext"
        /\ next.sigs = call.sigs /\ next.nonce = call.nonce
    BY <2>1 DEF SignCalls
  <2> HIDE DEF next
  <2>4. QED
    BY <1>1, <2>1, <2>2, <2>3, FingerprintSends
<1>4. CASE ~Fail /\ OnSignNext
  <2>1. CASE Response.typ = "Done"
    BY <1>1, <1>4, <2>1 DEF OnSignNext, Receive, OnDone, Return, Returns, Parts
  <2>2. QED
    BY <1>4, <2>1, SignNextSends
<1>5. CASE ~Fail /\ OnSignMessageCommitment
  <2> DEFINE next == [call EXCEPT !.st = "SignMessageWaitSig", !.commitment = Response.commitment]
  <2>1. call \in SignCalls /\ call.phase \in Phases /\ call.st = "SignMessageWaitCommitment"
    BY <1>5 DEF TypeOK, SignCalls, OnSignMessageCommitment, Receive
  <2>2. Response.commitment \in Signatures
    BY <1>1, ResponseTypes
  <2>3. /\ next \in SignCalls /\ next.st = "SignMessageWaitSig" /\ next.phase = call.phase
        /\ next.sigs = call.sigs /\ next.nonce = call.nonce
    BY <2>1, <2>2 DEF SignCalls
  <2>4. Reveal(next)
    BY <1>5 DEF OnSignMessageCommitment
  <2>5. InCall /\ Committed
    BY <2>1 DEF InCall, Committed
  <2> HIDE DEF next
  <2>6. QED
    BY <1>1, <2>1, <2>3, <2>4, <2>5, RevealSends
<1>6. CASE ~Fail /\ OnSignMessageSig
  BY <1>1, <1>6 DEF OnSignMessageSig, Receive, Return, Returns
<1>7. QED
  BY <1>2, <1>3, <1>4, <1>5, <1>6 DEF HostReceive

\* The list of signatures with the one just read, which is the call's own: after
\* an exchange of nonces it has the call's nonce, and without one it has none.
LEMMA NowGathered ==
  ASSUME SignInv, in # <<>>, call.st = "SignPsbtWaitNext", ~Unexpected
  PROVE  /\ SignaturesNow \in Seq(Signatures)
         /\ \A i \in 1..Len(SignaturesNow) :
              /\ SignaturesNow[i].nonce <= drawn
              /\ SignaturesNow[i].nonce # 0 =>
                   /\ SignaturesNow[i].id = calls
                   /\ \A j \in 1..Len(SignaturesNow) :
                        i # j => SignaturesNow[i].nonce # SignaturesNow[j].nonce
<1> DEFINE sig == Response.sig
           q == call.sigs
<1>1. /\ TypeOK /\ q \in Seq(Signatures) /\ in \in Seq(Replies) /\ Len(in) \in Nat /\ Len(in) > 0
      /\ Response = in[1] /\ sig \in Signatures /\ 1 \in 1..Len(in) /\ sig.nonce \in Nat
  <2>1. TypeOK /\ q \in Seq(Signatures) /\ in \in Seq(Replies)
    BY DEF SignInv, TypeOK, SignCalls
  <2>2. Len(in) \in Nat /\ Len(in) > 0 /\ Response = in[1] /\ in[1] \in Replies
    BY <2>1, TailFacts DEF Response
  <2>3. sig \in Signatures /\ sig.nonce \in Nat
    BY <2>2 DEF Replies, Signatures
  <2>4. QED
    BY <2>1, <2>2, <2>3
<1>2. \A i \in 1..Len(q) :
        /\ q[i].nonce <= drawn
        /\ q[i].nonce # 0 => /\ q[i].id = calls
                             /\ \A j \in 1..Len(q) : i # j => q[i].nonce # q[j].nonce
  BY DEF SignInv, NoncesDrawn, Gathered
<1>3. sig.nonce <= drawn
  BY <1>1 DEF SignInv, NoncesDrawn
<1>4. ASSUME call.phase \in {"ExpectNextWithSig", "ExpectAntikleptoSig"}, sig.nonce # 0
      PROVE  sig.id = calls /\ \A i \in 1..Len(q) : q[i].nonce # sig.nonce
  <2>1. call.phase = "ExpectAntikleptoSig"
    BY <1>1, <1>4 DEF SignInv, AfterCommitment, IsEcdsa, Unexpected
  <2>2. sig.nonce = call.nonce
    BY <2>1 DEF Unexpected, Verified
  <2>3. sig.id = calls
    BY <1>1, <1>4, <2>2 DEF SignInv, NonceIsOwn
  <2>4. \A i \in 1..Len(q) : q[i].nonce # sig.nonce
    <3>1. \A i \in 1..Len(q) : q[i].nonce # 0 => q[i].nonce # call.nonce
      BY <2>1 DEF SignInv, Gathered
    <3>2. QED
      BY <1>4, <2>2, <3>1
  <2>5. QED
    BY <2>3, <2>4
<1>5. CASE SignaturesNow = q
  BY <1>1, <1>2, <1>5
<1>6. CASE SignaturesNow = Append(q, sig) /\ call.phase \in {"ExpectNextWithSig", "ExpectAntikleptoSig"}
  <2> DEFINE r == Append(q, sig)
  <2>1. /\ r \in Seq(Signatures) /\ Len(r) = Len(q) + 1 /\ Len(q) \in Nat
        /\ \A j \in 1..Len(r) : \/ j \in 1..Len(q) /\ r[j] = q[j]
                                \/ j = Len(q) + 1 /\ r[j] = sig
    BY <1>1, AppendFacts
  <2> HIDE DEF q, sig, r
  <2>2. \A i \in 1..Len(r) : r[i].nonce <= drawn /\ (r[i].nonce # 0 => r[i].id = calls)
    BY <1>2, <1>3, <1>4, <1>6, <2>1
  <2>3. ASSUME NEW i \in 1..Len(r), NEW j \in 1..Len(r), i # j, r[i].nonce # 0
        PROVE  r[i].nonce # r[j].nonce
    BY <1>2, <1>4, <1>6, <2>1, <2>3
  <2>4. QED
    BY <1>6, <2>1, <2>2, <2>3 DEF r
<1>7. QED
  BY <1>5, <1>6 DEF SignaturesNow

\* A host step leaves the queues as they are but for one element at each.
LEMMA SendKeepsOrder ==
  ASSUME SignInv, TypeOK', NEW request \in Requests, Sends(request)
  PROVE  InOrder' /\ NoncesDrawn'
<1>1. /\ out \in Seq(Requests) /\ in \in Seq(Replies) /\ drawn \in Nat /\ drawn' \in Nat
      /\ drawn <= drawn' /\ request.nonce \in Nat /\ call.nonce \in Nat
  BY DEF SignInv, TypeOK, Sends, Requests, SignCalls
<1>2. /\ Len(out) \in Nat /\ Len(out') = Len(out) + 1 /\ out' # <<>>
      /\ \A j \in 1..Len(out') : \/ j \in 1..Len(out) /\ out'[j] = out[j]
                                 \/ j = Len(out) + 1 /\ out'[j] = request
      /\ out # <<>> => Len(out) > 0
  BY <1>1, AppendFacts, EmptyFacts DEF Sends
<1>3. \A j \in 1..Len(in') : j + 1 \in 1..Len(in) /\ in'[j] = in[j + 1]
  BY <1>1, TailFacts DEF Sends
<1>4. InOrder'
  <2>1. dev' = dev /\ calls' = calls /\ InCall /\ InCall' /\ request.id = calls
    BY DEF Sends
  <2>2. ASSUME out'[1].op \notin Openers, dev.mode # "idle"
        PROVE  dev.id = out'[1].id
    <3>1. CASE out = <<>>
      BY <1>1, <1>2, <2>1, <2>2, <3>1, EmptyFacts DEF SignInv, InOrder
    <3>2. CASE out # <<>>
      BY <1>2, <2>1, <2>2, <3>2 DEF SignInv, InOrder
    <3>3. QED
      BY <3>1, <3>2
  <2>3. ASSUME NEW j \in 1..(Len(out') - 1), out'[j + 1].op \notin Openers
        PROVE  out'[j + 1].id = out'[j].id
    <3>1. j \in 1..Len(out) /\ j + 1 \in 1..Len(out') /\ j \in 1..Len(out') /\ out # <<>>
      BY <1>1, <1>2, EmptyFacts
    <3>2. CASE j + 1 = Len(out')
      BY <1>2, <2>1, <3>1, <3>2 DEF SignInv, InOrder
    <3>3. CASE j + 1 # Len(out')
      BY <1>2, <2>3, <3>1, <3>3 DEF SignInv, InOrder
    <3>4. QED
      BY <3>2, <3>3
  <2>4. out'[Len(out')].id = calls'
    BY <1>2, <2>1
  <2>5. QED
    BY <1>2, <2>1, <2>2, <2>3, <2>4 DEF InOrder
<1>5. NoncesDrawn'
  <2>1. /\ \A j \in 1..Len(out) : out[j].nonce <= drawn
        /\ \A j \in 1..Len(in) : in[j].sig.nonce <= drawn
        /\ dev.nonce <= drawn /\ call.nonce <= drawn
    BY DEF SignInv, NoncesDrawn
  <2>2. /\ \A j \in 1..Len(out) : out[j].nonce \in Nat
        /\ \A j \in 1..Len(in) : in[j].sig.nonce \in Nat
        /\ dev.nonce \in Nat
    <3>1. \A j \in 1..Len(out) : out[j] \in Requests
      BY <1>1
    <3>2. \A j \in 1..Len(in) : in[j] \in Replies
      BY <1>1
    <3>3. QED
      BY <3>1, <3>2 DEF SignInv, TypeOK, Requests, Replies, Signatures, Devices
  <2>3. request.nonce <= drawn' /\ call'.nonce <= drawn'
    BY <1>1, <2>1 DEF Sends
  <2>4. \A j \in 1..Len(out') : out'[j].nonce <= drawn'
    BY <1>1, <1>2, <2>1, <2>2, <2>3, SMTT(60)
  <2>5. \A j \in 1..Len(in') : in'[j].sig.nonce <= drawn'
    BY <1>1, <1>3, <2>1, <2>2, SMTT(60)
  <2>6. dev'.nonce <= drawn'
    BY <1>1, <2>1, <2>2 DEF Sends
  <2>7. \A j \in 1..Len(call'.sigs) : call'.sigs[j].nonce <= drawn'
    <3>1. /\ call.sigs \in Seq(Signatures) /\ call'.sigs \in Seq(Signatures)
          /\ \A j \in 1..Len(call.sigs) : call.sigs[j].nonce <= drawn
      BY DEF SignInv, TypeOK, SignCalls, NoncesDrawn
    <3>2. \A j \in 1..Len(call'.sigs) : call'.sigs[j].nonce <= drawn
      BY <3>1, NowGathered DEF Sends
    <3>3. \A j \in 1..Len(call'.sigs) : call'.sigs[j].nonce \in Nat
      <4>1. \A j \in 1..Len(call'.sigs) : call'.sigs[j] \in Signatures
        BY <3>1
      <4>2. QED
        BY <4>1 DEF Signatures
    <3>4. QED
      BY <1>1, <3>2, <3>3
  <2>8. QED
    BY <2>3, <2>4, <2>5, <2>6, <2>7 DEF NoncesDrawn
<1>6. QED
  BY <1>4, <1>5

LEMMA SendKeepsOwn ==
  ASSUME SignInv, TypeOK', NEW request \in Requests, Sends(request)
  PROVE  NonceIsOwn'
<1>1. /\ out \in Seq(Requests) /\ in \in Seq(Replies) /\ drawn \in Nat
      /\ call' \in SignCalls /\ dev' = dev /\ calls' = calls /\ request.id = calls
  BY DEF SignInv, TypeOK, Sends
<1>2. \A j \in 1..Len(out') : \/ j \in 1..Len(out) /\ out'[j] = out[j]
                              \/ j = Len(out) + 1 /\ out'[j] = request
  BY <1>1, AppendFacts DEF Sends
<1>3. \A j \in 1..Len(in') : j + 1 \in 1..Len(in) /\ in'[j] = in[j + 1]
  BY <1>1, TailFacts DEF Sends
<1>4. CASE call'.nonce = call.nonce
  <2>1. call.nonce # 0 =>
          /\ \A j \in 1..Len(out) : out[j].nonce = call.nonce => out[j].id = calls
          /\ \A j \in 1..Len(in) : in[j].sig.nonce = call.nonce => in[j].sig.id = calls
          /\ dev.mode # "idle" /\ dev.nonce = call.nonce => dev.id = calls
    BY DEF SignInv, NonceIsOwn
  <2>2. QED
    BY <1>1, <1>2, <1>3, <1>4, <2>1 DEF NonceIsOwn
<1>5. CASE call'.nonce = drawn + 1
  <2>1. /\ \A j \in 1..Len(out) : out[j].nonce # drawn + 1
        /\ \A j \in 1..Len(in) : in[j].sig.nonce # drawn + 1
        /\ dev.nonce # drawn + 1
    BY <1>1 DEF SignInv, NoncesDrawn
  <2>2. QED
    BY <1>1, <1>2, <1>3, <1>5, <2>1 DEF NonceIsOwn
<1>6. QED
  BY <1>4, <1>5 DEF Sends

\* Reading a reply leaves what follows a commitment in place.
LEMMA TailCommitments ==
  ASSUME in \in Seq(Replies), in # <<>>, in' = Tail(in), AfterCommitment
  PROVE  /\ \A j \in 1..(Len(in') - 1) : IsEcdsa(in'[j + 1]) => in'[j].typ = "HostNonce"
         /\ dev.mode = "signing" /\ dev.expects = "signature" /\ in' # <<>> =>
              in'[Len(in')].typ = "HostNonce"
<1>1. /\ Len(in) \in Nat /\ Len(in) > 0 /\ Len(in') = Len(in) - 1 /\ in' \in Seq(Replies)
      /\ \A j \in 1..Len(in') : j + 1 \in 1..Len(in) /\ in'[j] = in[j + 1]
  BY TailFacts
<1>2. /\ \A j \in 1..(Len(in) - 1) : IsEcdsa(in[j + 1]) => in[j].typ = "HostNonce"
      /\ dev.mode = "signing" /\ dev.expects = "signature" => in[Len(in)].typ = "HostNonce"
  BY DEF AfterCommitment
<1>3. ASSUME NEW j \in 1..(Len(in') - 1), IsEcdsa(in'[j + 1]) PROVE in'[j].typ = "HostNonce"
  <2>1. j \in 1..Len(in') /\ j + 1 \in 1..Len(in') /\ j + 1 \in 1..(Len(in) - 1)
    BY <1>1
  <2>2. in'[j] = in[j + 1] /\ in'[j + 1] = in[(j + 1) + 1]
    BY <1>1, <2>1
  <2>3. QED
    BY <1>2, <1>3, <2>1, <2>2
<1>4. ASSUME dev.mode = "signing", dev.expects = "signature", in' # <<>>
      PROVE  in'[Len(in')].typ = "HostNonce"
  <2>1. Len(in') \in 1..Len(in')
    BY <1>1, <1>4, EmptyFacts
  <2>2. in'[Len(in')] = in[Len(in)]
    BY <1>1, <2>1
  <2>3. QED
    BY <1>2, <1>4, <2>2
<1>5. QED
  BY <1>3, <1>4

LEMMA SendKeepsCommitments ==
  ASSUME SignInv, TypeOK', NEW request \in Requests, Sends(request)
  PROVE  AfterCommitment'
<1>1. in \in Seq(Replies) /\ in # <<>> /\ dev' = dev /\ in' = Tail(in) /\ Response = in[1]
  BY TailFacts DEF SignInv, TypeOK, Sends, Response
<1>2. /\ Len(in) \in Nat /\ Len(in) > 0 /\ Len(in') = Len(in) - 1 /\ in' \in Seq(Replies)
      /\ \A j \in 1..Len(in') : j + 1 \in 1..Len(in) /\ in'[j] = in[j + 1]
  BY <1>1, TailFacts
<1>3. /\ \A j \in 1..(Len(in) - 1) : IsEcdsa(in[j + 1]) => in[j].typ = "HostNonce"
      /\ dev.mode = "signing" /\ dev.expects = "signature" => in[Len(in)].typ = "HostNonce"
  BY <1>1 DEF SignInv, AfterCommitment
<1>4. /\ \A j \in 1..(Len(in') - 1) : IsEcdsa(in'[j + 1]) => in'[j].typ = "HostNonce"
      /\ dev.mode = "signing" /\ dev.expects = "signature" /\ in' # <<>> =>
           in'[Len(in')].typ = "HostNonce"
  BY <1>1, TailCommitments DEF SignInv
<1>5. ASSUME call'.st = "SignPsbtWaitNext", call'.phase = "ExpectNextWithSig"
      PROVE  IF in' = <<>> THEN ~(dev.mode = "signing" /\ dev.expects = "signature")
             ELSE ~IsEcdsa(in'[1])
  <2>1. in[1].typ # "HostNonce"
    BY <1>1, <1>5 DEF Sends
  <2>2. CASE in' = <<>>
    <3>1. Len(in') = 0
      BY <2>2
    <3>2. Len(in) = 1
      BY <1>2, <3>1
    <3>3. QED
      BY <1>3, <2>1, <2>2, <3>2
  <2>3. CASE in' # <<>>
    <3>1. 1 \in 1..Len(in') /\ 1 \in 1..(Len(in) - 1)
      BY <1>2, <2>3, EmptyFacts
    <3>2. in'[1] = in[2]
      BY <1>2, <3>1
    <3>3. IsEcdsa(in[1 + 1]) => in[1].typ = "HostNonce"
      BY <1>3, <3>1
    <3>4. QED
      BY <2>1, <2>3, <3>2, <3>3
  <2>4. QED
    BY <2>2, <2>3
<1>6. QED
  BY <1>1, <1>4, <1>5 DEF AfterCommitment, IsEcdsa

LEMMA SendKeeps ==
  ASSUME SignInv, TypeOK', NEW request \in Requests, Sends(request)
  PROVE  SignInv'
<1>1. drawn \in Nat /\ revealed \subseteq 1..drawn /\ TypeOK
  BY DEF SignInv, TypeOK
<1>2. NotRevealed'
  <2>1. drawn + 1 \notin revealed
    BY <1>1
  <2>2. QED
    BY <2>1 DEF Sends, NotRevealed
<1>3. EcdsaIsOwn'
  BY DEF SignInv, Sends, EcdsaIsOwn, Succeeded
<1>4. Gathered'
  <2>1. \A i \in 1..Len(call'.sigs) :
          /\ call'.sigs[i].nonce <= drawn
          /\ call'.sigs[i].nonce # 0 =>
               /\ call'.sigs[i].id = calls
               /\ \A j \in 1..Len(call'.sigs) : i # j => call'.sigs[i].nonce # call'.sigs[j].nonce
    <3>1. CASE call'.sigs = call.sigs
      BY <3>1 DEF SignInv, NoncesDrawn, Gathered
    <3>2. CASE call'.sigs # call.sigs
      BY <3>2, NowGathered DEF Sends
    <3>3. QED
      BY <3>1, <3>2
  <2>2. ASSUME NEW i \in 1..Len(call'.sigs), call'.sigs[i].nonce # 0, call'.st = "SignPsbtWaitNext",
               call'.phase \in {"ExpectHostNonce", "ExpectAntikleptoSig"}
        PROVE  call'.sigs[i].nonce # call'.nonce
    <3>1. CASE call'.nonce = drawn + 1
      <4>1. call'.sigs[i].nonce <= drawn
        BY <2>1
      <4>2. QED
        BY <1>1, <3>1, <4>1
    <3>2. CASE /\ call.st = "SignPsbtWaitNext" /\ call.phase = "ExpectHostNonce"
               /\ call'.sigs = call.sigs /\ call'.nonce = call.nonce
      BY <2>2, <3>2 DEF SignInv, Gathered
    <3>3. QED
      BY <2>2, <3>1, <3>2 DEF Sends
  <2>3. calls' = calls
    BY DEF Sends
  <2>4. QED
    BY <2>1, <2>2, <2>3 DEF Gathered
<1>5. QED
  BY <1>2, <1>3, <1>4, SendKeepsOrder, SendKeepsOwn, SendKeepsCommitments DEF SignInv

LEMMA ReturnKeeps ==
  ASSUME SignInv, TypeOK', Returns, EcdsaIsOwn'
  PROVE  SignInv'
<1>1. /\ call' = NewCall /\ ~InCall' /\ ~Committed' /\ call'.nonce = 0 /\ call'.sigs = <<>>
      /\ call'.st # "SignPsbtWaitNext"
      /\ UNCHANGED <<out, drawn, revealed, dev, calls>>
  BY ConstantTypes DEF Returns, InCall, Committed
<1>2. in \in Seq(Replies) /\ in' \in Seq(Replies) /\ drawn \in Nat /\ Len(in) \in Nat /\ Len(in') \in Nat
  BY DEF SignInv, TypeOK
<1>3. /\ \/ \A j \in 1..Len(in') : j + 1 \in 1..Len(in) /\ in'[j] = in[j + 1]
         \/ in' = in
      /\ \/ in # <<>> /\ Len(in') = Len(in) - 1 /\ Len(in) > 0
         \/ in' = in
  BY <1>2, TailFacts DEF Returns
<1>4. NoncesDrawn'
  BY <1>1, <1>2, <1>3, EmptyFacts DEF SignInv, NoncesDrawn
<1>5. InOrder'
  BY <1>1 DEF SignInv, InOrder
<1>6. AfterCommitment'
  <2>1. CASE in' = in
    BY <1>1, <2>1 DEF SignInv, AfterCommitment, IsEcdsa
  <2>2. CASE in # <<>> /\ in' = Tail(in)
    <3>1. /\ \A j \in 1..(Len(in') - 1) : IsEcdsa(in'[j + 1]) => in'[j].typ = "HostNonce"
          /\ dev.mode = "signing" /\ dev.expects = "signature" /\ in' # <<>> =>
               in'[Len(in')].typ = "HostNonce"
      BY <1>2, <2>2, TailCommitments DEF SignInv
    <3>2. QED
      BY <1>1, <3>1 DEF AfterCommitment, IsEcdsa
  <2>3. QED
    BY <2>1, <2>2 DEF Returns
<1>7. NonceIsOwn' /\ Gathered' /\ NotRevealed'
  BY <1>1, EmptyFacts DEF NonceIsOwn, Gathered, NotRevealed
<1>8. QED
  BY <1>4, <1>5, <1>6, <1>7 DEF SignInv

LEMMA HostKeeps ==
  ASSUME SignInv, TypeOK', HostReceive
  PROVE  SignInv'
<1>1. TypeOK
  BY DEF SignInv
<1>2. CASE \E request \in Requests : Sends(request)
  BY <1>2, SendKeeps
<1>3. CASE /\ in # <<>> /\ in' = Tail(in) /\ Returns /\ result'.id = calls
           /\ \/ result'.status = "err"
              \/ call.st = "SignPsbtWaitNext" /\ ~Unexpected /\ result'.sigs = SignaturesNow
              \/ call.st = "SignMessageWaitSig" /\ Verified /\ result'.sigs = <<Response.sig>>
  <2>1. CASE result'.status = "err"
    BY <1>3, <2>1, ReturnKeeps DEF EcdsaIsOwn, Succeeded
  <2>2. CASE call.st = "SignPsbtWaitNext" /\ ~Unexpected /\ result'.sigs = SignaturesNow
    BY <1>3, <2>2, NowGathered, ReturnKeeps DEF EcdsaIsOwn, Succeeded
  <2>3. CASE call.st = "SignMessageWaitSig" /\ Verified /\ result'.sigs = <<Response.sig>>
    <3>1. call.nonce # 0 /\ Response.sig.nonce = call.nonce
      BY <2>3 DEF SignInv, TypeOK, Awaited, Verified
    <3>2. Response = in[1] /\ 1 \in 1..Len(in)
      BY <1>3, TailFacts DEF SignInv, TypeOK, Response
    <3>3. Response.sig.id = calls
      BY <3>1, <3>2 DEF SignInv, NonceIsOwn
    <3>4. Len(result'.sigs) = 1 /\ result'.sigs[1] = Response.sig
      BY <2>3
    <3>5. EcdsaIsOwn'
      BY <1>3, <3>3, <3>4 DEF EcdsaIsOwn
    <3>6. QED
      BY <1>3, <3>5, ReturnKeeps
  <2>4. QED
    BY <1>3, <2>1, <2>2, <2>3
<1>4. QED
  BY <1>1, <1>2, <1>3, HostSteps

LEMMA AbandonKeeps ==
  ASSUME SignInv, TypeOK', Abandon
  PROVE  SignInv'
<1>1. Returns /\ result' = NoResult
  BY DEF Abandon, Returns
<1>2. QED
  BY <1>1, ConstantTypes, ReturnKeeps DEF EcdsaIsOwn, Succeeded

LEMMA StartKeeps ==
  ASSUME SignInv, TypeOK', SignPsbt \/ SignMessage
  PROVE  SignInv'
<1>1. /\ TypeOK /\ out \in Seq(Requests) /\ in \in Seq(Replies) /\ drawn \in Nat /\ drawn' \in Nat
      /\ calls \in Nat /\ revealed \subseteq 1..drawn
      /\ calls' = calls + 1 /\ in' = in /\ dev' = dev /\ revealed' = revealed /\ result' = NoResult
  BY DEF SignInv, TypeOK, SignPsbt, SignMessage
<1>2. PICK request \in Requests :
        /\ out' = Append(out, request) /\ request.id = calls' /\ request.op \in Openers
        /\ request.nonce = call'.nonce
        /\ InCall' /\ call'.sigs = <<>> /\ call'.st # "SignPsbtWaitNext"
        /\ \/ call'.nonce = 0 /\ drawn' = drawn /\ ~Committed'
           \/ call'.nonce = drawn + 1 /\ drawn' = drawn + 1
  <2>1. CASE SignPsbt
    <3> DEFINE request == [Request("fingerprint", 0, 0) EXCEPT !.id = calls']
    <3>1. PICK tx \in Transactions : call' = [NewCall EXCEPT !.st = "SignPsbtWaitFingerprint", !.tx = tx]
      BY <2>1 DEF SignPsbt
    <3>2. /\ call'.st = "SignPsbtWaitFingerprint" /\ call'.nonce = 0 /\ call'.sigs = <<>>
      BY <3>1, ConstantTypes DEF SignCalls
    <3>3. calls' \in Nat /\ "fingerprint" \in Ops
      BY <1>1 DEF Ops
    <3>4. /\ request \in Requests /\ request.id = calls' /\ request.nonce = 0
          /\ request.op = "fingerprint"
      BY <1>1, <3>3, OpenerTypes
    <3>5. out' = Append(out, request) /\ drawn' = drawn
      BY <2>1 DEF SignPsbt
    <3> HIDE DEF request
    <3>6. QED
      BY <3>2, <3>4, <3>5 DEF InCall, Committed, Openers
  <2>2. CASE SignMessage
    <3> DEFINE request == [Request("message", 0, drawn') EXCEPT !.id = calls']
    <3>1. call' = [NewCall EXCEPT !.st = "SignMessageWaitCommitment", !.nonce = drawn']
      BY <2>2 DEF SignMessage
    <3>2. /\ call'.st = "SignMessageWaitCommitment" /\ call'.nonce = drawn' /\ call'.sigs = <<>>
      BY <3>1, ConstantTypes DEF SignCalls
    <3>3. calls' \in Nat /\ "message" \in Ops
      BY <1>1 DEF Ops
    <3>4. /\ request \in Requests /\ request.id = calls' /\ request.nonce = drawn'
          /\ request.op = "message"
      BY <1>1, <3>3, OpenerTypes
    <3>5. out' = Append(out, request) /\ drawn' = drawn + 1
      BY <2>2 DEF SignMessage
    <3> HIDE DEF request
    <3>6. QED
      BY <3>2, <3>4, <3>5 DEF InCall, Openers
  <2>3. QED
    BY <2>1, <2>2
<1>3. /\ Len(out) \in Nat /\ Len(out') = Len(out) + 1 /\ out' # <<>>
      /\ \A j \in 1..Len(out') : \/ j \in 1..Len(out) /\ out'[j] = out[j]
                                 \/ j = Len(out) + 1 /\ out'[j] = request
  BY <1>1, <1>2, AppendFacts, EmptyFacts
<1>4. /\ \A j \in 1..Len(out) : out[j].nonce \in Nat /\ out[j].nonce <= drawn
      /\ \A j \in 1..Len(in) : in[j].sig.nonce \in Nat /\ in[j].sig.nonce <= drawn
      /\ dev.nonce \in Nat /\ dev.nonce <= drawn
  <2>1. /\ \A j \in 1..Len(out) : out[j] \in Requests
        /\ \A j \in 1..Len(in) : in[j] \in Replies
    BY <1>1
  <2>2. QED
    BY <2>1 DEF SignInv, NoncesDrawn, TypeOK, Requests, Replies, Signatures, Devices
<1>5. drawn <= drawn' /\ call'.nonce <= drawn' /\ request.nonce <= drawn'
  BY <1>1, <1>2
<1>6. NoncesDrawn'
  <2>1. \A j \in 1..Len(out') : out'[j].nonce <= drawn'
    BY <1>1, <1>3, <1>4, <1>5
  <2>2. \A j \in 1..Len(in') : in'[j].sig.nonce <= drawn'
    BY <1>1, <1>4, <1>5
  <2>3. dev'.nonce <= drawn'
    BY <1>1, <1>4, <1>5
  <2>4. QED
    BY <1>2, <1>5, <2>1, <2>2, <2>3, EmptyFacts DEF NoncesDrawn
<1>7. InOrder'
  <2>1. ASSUME out'[1].op \notin Openers, dev.mode # "idle"
        PROVE  dev.id = out'[1].id
    <3>1. out # <<>> /\ out'[1] = out[1]
      BY <1>1, <1>2, <1>3, <2>1, EmptyFacts
    <3>2. QED
      BY <2>1, <3>1 DEF SignInv, InOrder
  <2>2. ASSUME NEW j \in 1..(Len(out') - 1), out'[j + 1].op \notin Openers
        PROVE  out'[j + 1].id = out'[j].id
    <3>1. j \in 1..Len(out) /\ j + 1 \in 1..Len(out') /\ j \in 1..Len(out')
      BY <1>3
    <3>2. j + 1 \in 1..Len(out) /\ j \in 1..(Len(out) - 1)
      BY <1>2, <1>3, <2>2, <3>1
    <3>3. out'[j + 1] = out[j + 1] /\ out'[j] = out[j]
      BY <1>3, <3>1, <3>2
    <3>4. QED
      BY <2>2, <3>2, <3>3 DEF SignInv, InOrder
  <2>3. out'[Len(out')].id = calls'
    BY <1>2, <1>3
  <2>4. QED
    BY <1>1, <1>2, <1>3, <2>1, <2>2, <2>3 DEF InOrder
<1>8. NonceIsOwn'
  <2>1. CASE call'.nonce = drawn + 1
    <3>1. /\ \A j \in 1..Len(out) : out[j].nonce # drawn + 1
          /\ \A j \in 1..Len(in) : in[j].sig.nonce # drawn + 1
          /\ dev.nonce # drawn + 1
      BY <1>1, <1>4
    <3>2. QED
      BY <1>1, <1>2, <1>3, <2>1, <3>1 DEF NonceIsOwn
  <2>2. QED
    BY <1>2, <2>1 DEF NonceIsOwn
<1>9. AfterCommitment'
  BY <1>1, <1>2 DEF SignInv, AfterCommitment, IsEcdsa
<1>10. Gathered'
  BY <1>2, EmptyFacts DEF Gathered
<1>11. NotRevealed'
  <2>1. drawn + 1 \notin revealed
    BY <1>1
  <2>2. QED
    BY <1>1, <1>2, <2>1 DEF NotRevealed
<1>12. EcdsaIsOwn'
  BY <1>1, ConstantTypes DEF EcdsaIsOwn, Succeeded
<1>13. QED
  BY <1>6, <1>7, <1>8, <1>9, <1>10, <1>11, <1>12 DEF SignInv

LEMMA DeviceKeeps ==
  ASSUME SignInv, TypeOK', DeviceStep
  PROVE  SignInv'
<1>1. PICK reply \in Replies, next \in Devices : DeviceAnswers(reply, next)
  BY DeviceSteps DEF SignInv
<1>2. /\ out # <<>> /\ out' = Tail(out) /\ in' = Append(in, reply) /\ dev' = next
      /\ UNCHANGED <<call, drawn, result, revealed, calls, lost>>
  BY <1>1 DEF DeviceAnswers
<1>3. /\ TypeOK /\ out \in Seq(Requests) /\ in \in Seq(Replies) /\ drawn \in Nat /\ dev \in Devices
      /\ Len(in) \in Nat
  BY DEF SignInv, TypeOK
<1>4. /\ Len(out) \in Nat /\ Len(out) > 0 /\ Len(out') = Len(out) - 1 /\ Len(out') \in Nat
      /\ 1 \in 1..Len(out) /\ out' \in Seq(Requests)
      /\ \A j \in 1..Len(out') : j + 1 \in 1..Len(out) /\ out'[j] = out[j + 1]
  BY <1>2, <1>3, TailFacts
<1>5. /\ Len(in') = Len(in) + 1 /\ in' # <<>>
      /\ \A j \in 1..Len(in') : \/ j \in 1..Len(in) /\ in'[j] = in[j]
                                \/ j = Len(in) + 1 /\ in'[j] = reply
  BY <1>2, <1>3, AppendFacts
<1>6. next.mode # "idle" => next.id = out[1].id
  BY <1>1, <1>2 DEF DeviceAnswers, SignInv, InOrder
<1>7. NoncesDrawn'
  <2>1. reply.sig.nonce <= drawn /\ next.nonce <= drawn
    BY <1>1, <1>3, <1>4 DEF DeviceAnswers, SignInv, NoncesDrawn
  <2>2. QED
    BY <1>2, <1>4, <1>5, <2>1 DEF SignInv, NoncesDrawn
<1>8. InOrder'
  <2>1. ASSUME out' # <<>>, out'[1].op \notin Openers, next.mode # "idle"
        PROVE  next.id = out'[1].id
    <3>1. 1 \in 1..Len(out') /\ 1 \in 1..(Len(out) - 1)
      BY <1>4, <2>1, EmptyFacts
    <3>2. out'[1] = out[1 + 1]
      BY <1>4, <3>1
    <3>3. QED
      BY <1>6, <2>1, <3>1, <3>2 DEF SignInv, InOrder
  <2>2. ASSUME NEW j \in 1..(Len(out') - 1), out'[j + 1].op \notin Openers
        PROVE  out'[j + 1].id = out'[j].id
    <3>1. j \in 1..Len(out') /\ j + 1 \in 1..Len(out') /\ j + 1 \in 1..(Len(out) - 1)
      BY <1>4
    <3>2. out'[j] = out[j + 1] /\ out'[j + 1] = out[(j + 1) + 1]
      BY <1>4, <3>1
    <3>3. QED
      BY <2>2, <3>1, <3>2 DEF SignInv, InOrder
  <2>3. ASSUME InCall, out' # <<>> PROVE out'[Len(out')].id = calls
    <3>1. Len(out') \in 1..Len(out')
      BY <1>4, <2>3, EmptyFacts
    <3>2. out'[Len(out')] = out[Len(out)]
      BY <1>4, <3>1
    <3>3. QED
      BY <1>2, <2>3, <3>2 DEF SignInv, InOrder
  <2>4. ASSUME InCall, out' = <<>>, next.mode # "idle" PROVE next.id = calls
    <3>1. Len(out') = 0
      BY <2>4
    <3>2. Len(out) = 1
      BY <1>4, <3>1
    <3>3. QED
      BY <1>2, <1>6, <2>4, <3>2 DEF SignInv, InOrder
  <2>5. QED
    BY <1>2, <2>1, <2>2, <2>3, <2>4 DEF SignInv, InOrder, InCall
<1>9. NonceIsOwn'
  <2> SUFFICES ASSUME call.nonce # 0
               PROVE  /\ \A j \in 1..Len(out') : out'[j].nonce = call.nonce => out'[j].id = calls
                      /\ \A j \in 1..Len(in') : in'[j].sig.nonce = call.nonce => in'[j].sig.id = calls
                      /\ next.mode # "idle" /\ next.nonce = call.nonce => next.id = calls
    BY <1>2 DEF NonceIsOwn
  <2>1. /\ \A j \in 1..Len(out) : out[j].nonce = call.nonce => out[j].id = calls
        /\ \A j \in 1..Len(in) : in[j].sig.nonce = call.nonce => in[j].sig.id = calls
        /\ dev.mode # "idle" /\ dev.nonce = call.nonce => dev.id = calls
    BY DEF SignInv, NonceIsOwn
  <2>2. reply.sig.nonce = call.nonce => reply.sig.id = calls
    BY <1>1, <2>1 DEF DeviceAnswers
  <2>3. next.mode # "idle" /\ next.nonce = call.nonce => next.id = calls
    <3>1. CASE next.nonce = out[1].nonce
      BY <1>4, <1>6, <2>1, <3>1
    <3>2. CASE next.nonce = dev.nonce /\ next.id = dev.id /\ dev.mode # "idle"
      BY <2>1, <3>2
    <3>3. QED
      BY <1>1, <3>1, <3>2 DEF DeviceAnswers
  <2>4. QED
    BY <1>4, <1>5, <2>1, <2>2, <2>3, ZenonT(60)
<1>10. AfterCommitment'
  <2>1. ASSUME NEW j \in 1..(Len(in') - 1), IsEcdsa(in'[j + 1]) PROVE in'[j].typ = "HostNonce"
    <3>1. j \in 1..Len(in) /\ j \in 1..Len(in') /\ j + 1 \in 1..Len(in') /\ in'[j] = in[j] /\ in # <<>>
      BY <1>3, <1>5, EmptyFacts
    <3>2. CASE j + 1 \in 1..Len(in)
      <4>1. j \in 1..(Len(in) - 1) /\ in'[j + 1] = in[j + 1]
        BY <1>3, <1>5, <3>1, <3>2
      <4>2. QED
        BY <2>1, <3>1, <4>1 DEF SignInv, AfterCommitment
    <3>3. CASE j + 1 = Len(in) + 1
      <4>1. j = Len(in) /\ in'[j + 1] = reply
        BY <1>3, <1>5, <3>1, <3>3
      <4>2. dev.mode = "signing" /\ dev.expects = "signature"
        BY <1>1, <2>1, <4>1 DEF DeviceAnswers
      <4>3. QED
        BY <3>1, <4>1, <4>2 DEF SignInv, AfterCommitment
    <3>4. QED
      BY <1>3, <3>1, <3>2, <3>3
  <2>2. in'[Len(in')] = reply
    BY <1>3, <1>5
  <2>3. ASSUME call.st = "SignPsbtWaitNext", call.phase = "ExpectNextWithSig"
        PROVE  ~IsEcdsa(in'[1])
    <3>1. CASE in = <<>>
      BY <1>1, <1>5, <2>2, <2>3, <3>1, EmptyFacts DEF DeviceAnswers, SignInv, AfterCommitment
    <3>2. CASE in # <<>>
      <4>1. in'[1] = in[1]
        BY <1>3, <1>5, <3>2, EmptyFacts
      <4>2. QED
        BY <2>3, <3>2, <4>1 DEF SignInv, AfterCommitment
    <3>3. QED
      BY <3>1, <3>2
  <2>4. QED
    BY <1>1, <1>2, <1>5, <2>1, <2>2, <2>3 DEF DeviceAnswers, AfterCommitment, IsEcdsa
<1>11. Gathered' /\ NotRevealed' /\ EcdsaIsOwn'
  BY <1>2, ZenonT(60) DEF SignInv, Gathered, NotRevealed, Committed, EcdsaIsOwn, Succeeded
<1>12. QED
  BY <1>7, <1>8, <1>9, <1>10, <1>11 DEF SignInv

LEMMA SignInvInit ==
  Init => SignInv
<1> SUFFICES ASSUME Init PROVE SignInv
  OBVIOUS
<1>1. /\ call = NewCall /\ out = <<>> /\ in = <<>> /\ dev = Idle /\ result = NoResult /\ drawn = 0
      /\ call.st = "New" /\ call.sigs = <<>> /\ call.nonce = 0 /\ dev.nonce = 0 /\ dev.mode = "idle"
  BY ConstantTypes DEF Init
<1>2. NoncesDrawn /\ InOrder /\ NonceIsOwn /\ AfterCommitment
  BY <1>1, EmptyFacts DEF NoncesDrawn, InOrder, NonceIsOwn, AfterCommitment, InCall
<1>3. Gathered /\ NotRevealed /\ EcdsaIsOwn
  BY <1>1, ConstantTypes, EmptyFacts DEF Gathered, NotRevealed, Committed, EcdsaIsOwn, Succeeded
<1>4. QED
  BY <1>2, <1>3, TypesInit DEF SignInv

LEMMA SignInvNext ==
  SignInv /\ [Next]_vars => SignInv'
<1> SUFFICES ASSUME SignInv, [Next]_vars PROVE SignInv'
  OBVIOUS
<1>1. TypeOK'
  BY TypesNext DEF SignInv
<1>2. CASE UNCHANGED vars
  <2>1. UNCHANGED <<call, drawn, result, revealed, out, in, dev, calls, lost>>
    BY <1>2 DEF vars
  <2>2. NoncesDrawn' /\ InOrder' /\ NonceIsOwn'
    BY <2>1 DEF SignInv, NoncesDrawn, InOrder, NonceIsOwn, InCall
  <2>3. AfterCommitment' /\ Gathered' /\ NotRevealed' /\ EcdsaIsOwn'
    BY <2>1 DEF SignInv, AfterCommitment, IsEcdsa, Gathered, NotRevealed, Committed, EcdsaIsOwn,
                Succeeded
  <2>4. QED
    BY <1>1, <2>2, <2>3 DEF SignInv
<1>3. QED
  BY <1>1, <1>2, StartKeeps, HostKeeps, AbandonKeeps, DeviceKeeps DEF Next

\* A signature with a nonce of the host in it is over this call's PSBT or message,
\* and its nonce is in no other signature of the call, however many earlier calls
\* stopped waiting: the nonce a call waits with is new, whatever has it is the
\* call's own, and an ECDSA signature is read only after the call's own exchange.
THEOREM EcdsaSignaturesAreOwn == Spec => []EcdsaIsOwn
<1>1. SignInv => EcdsaIsOwn
  BY DEF SignInv
<1>2. QED
  BY <1>1, SignInvInit, SignInvNext, PTL DEF Spec

LEMMA RevealedOnceNext ==
  ASSUME SignInv, [Next]_vars, NEW i \in 1..Len(out'), i > Len(out), out'[i].op = "signature"
  PROVE  out'[i].nonce \notin revealed
<1>1. TypeOK /\ out \in Seq(Requests) /\ Len(out) \in Nat
  BY DEF SignInv, TypeOK
<1>2. CASE out' = out
  BY <1>1, <1>2
<1>3. CASE DeviceStep
  <2>1. out # <<>> /\ out' = Tail(out)
    BY <1>1, <1>3, DeviceSteps DEF DeviceAnswers
  <2>2. Len(out') = Len(out) - 1
    BY <1>1, <2>1, TailFacts
  <2>3. QED
    BY <1>1, <2>2
<1>4. CASE \E request \in Requests : Sends(request)
  <2>1. PICK request \in Requests : Sends(request)
    BY <1>4
  <2>2. out'[i] = request
    BY <1>1, <2>1, AppendFacts DEF Sends
  <2>3. QED
    BY <2>1, <2>2 DEF Sends, SignInv, NotRevealed
<1>5. CASE SignPsbt \/ SignMessage
  <2>1. \E op \in Openers, nonce \in Nat :
          /\ [Request(op, 0, nonce) EXCEPT !.id = calls'] \in Requests
          /\ [Request(op, 0, nonce) EXCEPT !.id = calls'].op = op
          /\ out' = Append(out, [Request(op, 0, nonce) EXCEPT !.id = calls'])
    <3>1. calls' \in Nat /\ drawn + 1 \in Nat /\ "fingerprint" \in Ops /\ "message" \in Ops
      <4>1. drawn \in Nat /\ calls \in Nat /\ calls' = calls + 1
        BY <1>5 DEF SignInv, TypeOK, SignPsbt, SignMessage
      <4>2. QED
        BY <4>1 DEF Ops
    <3>2. \A op \in Openers, nonce \in Nat :
            /\ [Request(op, 0, nonce) EXCEPT !.id = calls'] \in Requests
            /\ [Request(op, 0, nonce) EXCEPT !.id = calls'].op = op
      BY <1>1, <3>1, OpenerTypes DEF Openers
    <3>3. \/ out' = Append(out, [Request("fingerprint", 0, 0) EXCEPT !.id = calls'])
          \/ out' = Append(out, [Request("message", 0, drawn + 1) EXCEPT !.id = calls'])
      BY <1>5 DEF SignPsbt, SignMessage
    <3>4. QED
      BY <3>1, <3>2, <3>3 DEF Openers
  <2>2. PICK request \in Requests : out' = Append(out, request) /\ request.op \in Openers
    BY <2>1
  <2>3. out'[i] = request
    BY <1>1, <2>2, AppendFacts
  <2>4. QED
    BY <2>2, <2>3 DEF Openers
<1>6. QED
  <2>1. UNCHANGED vars \/ Abandon => out' = out
    BY DEF vars, Abandon
  <2>2. Returns => out' = out
    BY DEF Returns
  <2>3. QED
    BY <1>1, <1>2, <1>3, <1>4, <1>5, <2>1, <2>2, HostSteps DEF Next

\* A nonce is revealed once: the request that reveals it is not sent again.
THEOREM NoncesRevealedOnce == Spec => RevealedOnce
<1>1. SignInv /\ [Next]_vars =>
        [\A i \in 1..Len(out') : i > Len(out) /\ out'[i].op = "signature" =>
           out'[i].nonce \notin revealed]_vars
  BY RevealedOnceNext
<1>2. QED
  BY <1>1, SignInvInit, SignInvNext, PTL DEF Spec, RevealedOnce

-----------------------------------------------------------------------------
(* The signatures are in place.                                            *)

\* A call that signs a PSBT.
PsbtStates == {"SignPsbtWaitFingerprint", "SignPsbtWaitNext"}
ForPsbt == call.st \in PsbtStates

\* What a call signs is a PSBT with inputs, or a message; it begins with no
\* signature.
Given ==
  /\ ForPsbt => Len(call.tx) > 0
  /\ InCall /\ ~ForPsbt => call.tx = <<>>
  /\ call.st = "SignPsbtWaitFingerprint" => ~call.pass2 /\ call.sigs = <<>>

\* The requests and replies on their way: one of each call that stopped waiting,
\* at most, and one of the call in progress.
Stream == Len(in) + Len(out)
Backlog ==
  /\ Stream <= lost + (IF InCall THEN 1 ELSE 0)
  /\ InCall => Stream > 0

\* How many replies after a fingerprint the device has to have given, at least,
\* to be where it is.
Depth(task) ==
  CASE task.mode # "signing" -> 0
    [] task.mode = "signing" /\ (task.pass = 2 \/ task.expects = "signature") -> 3
    [] task.mode = "signing" /\ task.pass # 2 /\ task.expects = "output" -> 2
    [] OTHER -> 1

\* The end of a signing comes four replies after a fingerprint, or later.
Spaced ==
  \A i \in 1..Len(in) : in[i].typ = "Fingerprint" =>
    /\ i + Depth(dev) <= Len(in)
    /\ \A j \in 1..Len(in) : i < j /\ in[j].typ = "Done" => i + 4 <= j

\* The request a call for a PSBT begins with, or the reply to it, is at place p.
\* A call that has read replies to earlier requests has read Stream - p of them,
\* and no end of a signing comes before five.
Opener(p) ==
  IF p <= Len(in) THEN in[p].typ \in {"Fingerprint", "Error"}
  ELSE out[p - Len(in)].op = "fingerprint"
Behind(p) ==
  /\ Opener(p)
  /\ call.st = "SignPsbtWaitFingerprint" => p = Stream
  /\ call.st = "SignPsbtWaitNext" =>
       /\ p < Stream
       /\ p + Depth(dev) < Len(in) + Stream
       /\ \A j \in 1..Len(in) : in[j].typ = "Done" => p + 5 <= j + Stream

\* The call's own signatures, of its first inputs.
InPlace(sigs, count) ==
  /\ Len(sigs) = count
  /\ \A i \in 1..count :
       /\ sigs[i].id = calls /\ sigs[i].index = i
       /\ call.tx[i] = "ecdsa" => sigs[i].nonce # 0

\* The device is at the PSBT of the call; it looks at its parts; it signs.
AtPsbt(task) ==
  /\ task.mode = "signing" /\ task.id = calls /\ task.tx = call.tx
  /\ task.index \in 1..Len(call.tx)
Looking(task) == AtPsbt(task) /\ task.pass = 1 /\ call.phase = "ExpectNext" /\ call.sigs = <<>>
Signing(task) == AtPsbt(task) /\ task.pass = 2 /\ call.pass2
LastLooked(task) == call.pass2 <=> task.index = Len(call.tx)

\* The request of the call for the next part, which the device expects.
Asking(request, task) ==
  \/ /\ request.op = "init" /\ request.id = calls /\ request.tx = call.tx
     /\ ~call.pass2 /\ call.phase = "ExpectNext" /\ call.sigs = <<>>
  \/ /\ Looking(task) /\ request.op = task.expects
     /\ \/ request.op \in Parts \cup {"input"} /\ LastLooked(task)
        \/ request.op = "output" /\ call.pass2
  \/ /\ Signing(task) /\ request.op = task.expects
     /\ InPlace(call.sigs, task.index - 1)
     /\ \/ /\ request.op = "input"
           /\ IF call.tx[task.index] = "ecdsa" THEN call.phase = "ExpectHostNonce" /\ request.nonce # 0
              ELSE call.phase = "ExpectNextWithSig"
        \/ request.op = "signature" /\ call.phase = "ExpectAntikleptoSig" /\ task.nonce # 0

\* The signatures with the one in a reply.
WithSignature == {"ExpectNextWithSig", "ExpectAntikleptoSig"}
Now(reply) == IF call.phase \in WithSignature THEN Append(call.sigs, reply.sig) ELSE call.sigs

\* The reply of the device, with the signature the call waits for; all else ends
\* the call.
Replied(reply, task) ==
  \/ reply.typ \notin NextTypes
  \/ /\ Looking(task) /\ reply.typ = "Input" /\ reply.index = task.index
     /\ task.expects = "input" /\ ~call.pass2
  \/ Looking(task) /\ reply.typ \in Parts /\ task.expects = reply.typ /\ LastLooked(task)
  \/ Looking(task) /\ reply.typ = "Output" /\ task.expects = "output" /\ call.pass2
  \/ /\ Signing(task) /\ reply.typ = "Input" /\ reply.index = task.index
     /\ task.expects = "input" /\ InPlace(Now(reply), task.index - 1)
  \/ /\ Signing(task) /\ reply.typ = "HostNonce" /\ task.expects = "signature"
     /\ InPlace(call.sigs, task.index - 1) /\ task.nonce # 0
  \/ reply.typ = "Done" /\ InPlace(Now(reply), Len(call.tx))

\* Nothing but a request or a reply of the call is on its way.
Lockstep ==
  /\ call.st = "SignPsbtWaitNext"
  /\ \/ in = <<>> /\ Len(out) = 1 /\ Asking(out[1], dev)
     \/ out = <<>> /\ Len(in) = 1 /\ Replied(in[1], dev)

Returned ==
  Succeeded /\ lost < 5 =>
    IF result.tx = <<>> THEN Len(result.sigs) = 1 /\ result.sigs[1].nonce # 0
    ELSE /\ Len(result.sigs) = Len(result.tx)
         /\ \A i \in 1..Len(result.tx) :
              /\ result.sigs[i].id = result.id /\ result.sigs[i].index = i
              /\ result.tx[i] = "ecdsa" => result.sigs[i].nonce # 0

PlaceInv ==
  /\ Given /\ Backlog /\ Spaced /\ Returned
  /\ ForPsbt /\ lost < 5 => Lockstep \/ \E p \in 1..Stream : Behind(p)

LEMMA QueueTypes ==
  ASSUME TypeOK
  PROVE  /\ in \in Seq(Replies) /\ out \in Seq(Requests) /\ Len(in) \in Nat /\ Len(out) \in Nat
         /\ calls \in Nat /\ lost \in Nat /\ Stream \in Nat /\ Depth(dev) \in 0..3
         /\ call \in SignCalls /\ dev \in Devices
  BY DEF TypeOK, Stream, Depth

\* How a reply and what the device is at next keep to the order of a signing.
Paced(reply, next) ==
  /\ reply \in Replies
  /\ Depth(next) \in 0..3 /\ Depth(next) <= Depth(dev) + 1
  /\ reply.typ = "Done" => Depth(dev) = 3
  /\ reply.typ = "Fingerprint" => Depth(next) = 0
  /\ Asked.op = "fingerprint" => reply.typ \in {"Fingerprint", "Error"}

LEMMA DepthFacts ==
  ASSUME NEW task \in Devices
  PROVE  /\ Depth(task) \in 0..3
         /\ task.mode = "signing" => Depth(task) >= 1
         /\ task.mode # "signing" => Depth(task) = 0
         /\ task.mode = "signing" /\ task.pass = 2 => Depth(task) = 3
         /\ task.mode = "signing" /\ task.expects = "signature" => Depth(task) = 3
         /\ task.mode = "signing" /\ task.expects = "output" => Depth(task) >= 2
         /\ task.pass = 1 /\ task.expects = "input" => Depth(task) <= 1
         /\ task.pass = 1 /\ task.expects # "signature" => Depth(task) <= 2
  BY DEF Depth, Devices

LEMMA AskInputPaced ==
  ASSUME TypeOK, NEW index \in Nat, NEW pass \in {1, 2}, NEW sig \in Signatures,
         AskInput(index, pass, sig), dev.mode = "signing", Asked.op # "fingerprint",
         pass = 2 => Depth(dev) >= 2
  PROVE  \E reply \in Replies, next \in Devices : Answer(reply, next) /\ Paced(reply, next)
<1> DEFINE reply == [Reply("Input") EXCEPT !.index = index, !.sig = sig]
           next == [dev EXCEPT !.expects = "input", !.index = index, !.pass = pass, !.nonce = 0]
<1>1. dev \in Devices /\ Depth(dev) \in 0..3 /\ Depth(dev) >= 1
  BY QueueTypes, DepthFacts
<1>2. reply \in Replies /\ reply.typ = "Input"
  BY ConstantTypes DEF Reply, Replies, Types, NextTypes
<1>3. next \in Devices /\ next.mode = "signing" /\ next.expects = "input" /\ next.pass = pass
  BY <1>1 DEF Devices
<1>4. Answer(reply, next)
  BY DEF AskInput
<1> HIDE DEF reply, next
<1>5. Depth(next) \in 0..3 /\ (pass = 1 => Depth(next) <= 1)
  BY <1>3, DepthFacts
<1>6. Paced(reply, next)
  BY <1>1, <1>2, <1>5 DEF Paced
<1>7. QED
  BY <1>2, <1>3, <1>4, <1>6

LEMMA AskPaced ==
  ASSUME TypeOK, NEW typ \in Types \ {"Done", "Fingerprint"}, NEW expects \in Parts \cup {"output"},
         NEW index \in Nat, Ask(typ, expects, index), dev.mode = "signing",
         Asked.op # "fingerprint"
  PROVE  \E reply \in Replies, next \in Devices : Answer(reply, next) /\ Paced(reply, next)
<1> DEFINE reply == [Reply(typ) EXCEPT !.index = index]
           next == [dev EXCEPT !.expects = expects, !.index = index]
<1>1. dev \in Devices /\ Depth(dev) \in 0..3 /\ Depth(dev) >= 1
  BY QueueTypes, DepthFacts
<1>2. reply \in Replies /\ reply.typ = typ
  BY ConstantTypes DEF Reply, Replies
<1>3. /\ next \in Devices /\ next.mode = "signing" /\ next.expects # "signature"
      /\ next.pass = dev.pass /\ dev.pass \in {1, 2}
  BY <1>1 DEF Devices, Parts
<1>4. Answer(reply, next)
  BY DEF Ask
<1> HIDE DEF reply, next
<1>5. Depth(next) \in 0..3 /\ Depth(next) <= Depth(dev) + 1
  BY <1>1, <1>3, DepthFacts
<1>6. Paced(reply, next)
  BY <1>1, <1>2, <1>5 DEF Paced
<1>7. QED
  BY <1>2, <1>3, <1>4, <1>6

LEMMA IdlePaced ==
  ASSUME TypeOK, NEW reply \in Replies, Answer(reply, Idle), reply.typ = "Done" => Depth(dev) = 3,
         Asked.op = "fingerprint" => reply.typ \in {"Fingerprint", "Error"}
  PROVE  \E r \in Replies, next \in Devices : Answer(r, next) /\ Paced(r, next)
<1>1. Depth(Idle) = 0 /\ Idle \in Devices /\ Depth(dev) \in 0..3
  BY ConstantTypes, DepthFacts, QueueTypes
<1>2. Paced(reply, Idle)
  BY <1>1 DEF Paced
<1>3. QED
  BY <1>1, <1>2

LEMMA SignedPaced ==
  ASSUME TypeOK, NEW nonce \in Nat, Signed(Signature(nonce)), dev.mode = "signing",
         Asked.op # "fingerprint", Depth(dev) = 3
  PROVE  \E reply \in Replies, next \in Devices : Answer(reply, next) /\ Paced(reply, next)
<1>1. dev.index \in Nat /\ dev.index + 1 \in Nat /\ Signature(nonce) \in Signatures
  BY SMTT(60) DEF TypeOK, Devices, Signature, Signatures
<1>2. PICK sig \in Signatures : sig = Signature(nonce)
  BY <1>1
<1>3. CASE AskInput(dev.index + 1, 2, sig)
  BY <1>1, <1>3, AskInputPaced
<1>4. CASE Answer([Reply("Done") EXCEPT !.sig = sig], Idle)
  <2>1. PICK reply \in Replies : reply = [Reply("Done") EXCEPT !.sig = sig]
    BY ConstantTypes DEF Reply, Replies, Types, NextTypes
  <2>2. QED
    BY <1>4, <2>1, IdlePaced
<1>5. QED
  BY <1>2, <1>3, <1>4 DEF Signed

LEMMA AfterInputPaced ==
  ASSUME TypeOK, AfterInput, dev.mode = "signing", Asked.op # "fingerprint"
  PROVE  \E reply \in Replies, next \in Devices : Answer(reply, next) /\ Paced(reply, next)
<1>1. dev.index \in Nat /\ dev.index + 1 \in Nat
  BY DEF TypeOK, Devices
<1>2. AskInput(dev.index + 1, 1, NoSig) \/ Ask("Output", "output", 1)
  BY DEF AfterInput
<1>3. "Output" \in Types \ {"Done", "Fingerprint"}
  BY DEF Types, NextTypes
<1>4. CASE AskInput(dev.index + 1, 1, NoSig)
  BY <1>1, <1>4, ConstantTypes, AskInputPaced
<1>5. CASE Ask("Output", "output", 1)
  BY <1>3, <1>5, AskPaced
<1>6. QED
  BY <1>2, <1>4, <1>5

LEMMA OpeningPaced ==
  ASSUME TypeOK, DeviceInit \/ DeviceMessage
  PROVE  \E reply \in Replies, next \in Devices : Answer(reply, next) /\ Paced(reply, next)
<1>1. out # <<>> /\ Asked.op # "fingerprint"
  BY DEF DeviceInit, DeviceMessage
<1>2. /\ Asked.id \in Nat /\ Asked.nonce \in Nat /\ Asked.tx \in Seq(Kinds)
      /\ [id |-> Asked.id, index |-> 0, nonce |-> Asked.nonce] \in Signatures /\ Depth(dev) \in 0..3
  BY <1>1, AskedTypes, QueueTypes DEF Signatures
<1>3. CASE DeviceInit
  <2> DEFINE reply == [Reply("Input") EXCEPT !.index = 1]
             next == [Idle EXCEPT !.mode = "signing", !.id = Asked.id, !.tx = Asked.tx,
                                  !.index = 1, !.expects = "input"]
  <2>1. reply \in Replies /\ reply.typ = "Input"
    BY ConstantTypes DEF Reply, Replies, Types, NextTypes
  <2>2. next \in Devices /\ next.expects = "input" /\ next.pass = 1
    BY <1>2, ConstantTypes DEF Devices, Idle
  <2>3. Answer(reply, next)
    BY <1>3 DEF DeviceInit
  <2> HIDE DEF reply, next
  <2>4. Depth(next) \in 0..3 /\ Depth(next) <= 1
    BY <2>2, DepthFacts
  <2>5. Paced(reply, next)
    BY <1>1, <1>2, <2>1, <2>4 DEF Paced
  <2>6. QED
    BY <2>1, <2>2, <2>3, <2>5
<1>4. CASE DeviceMessage
  <2> DEFINE reply == [Reply("AntikleptoSignerCommitment") EXCEPT
                         !.commitment = [id |-> Asked.id, index |-> 0, nonce |-> Asked.nonce]]
             next == [Idle EXCEPT !.mode = "message", !.id = Asked.id, !.nonce = Asked.nonce]
  <2>1. reply \in Replies /\ reply.typ = "AntikleptoSignerCommitment"
    BY <1>2, ConstantTypes DEF Reply, Replies, Types
  <2>2. next \in Devices /\ next.mode = "message"
    BY <1>2, ConstantTypes DEF Devices
  <2>3. Answer(reply, next)
    BY <1>4 DEF DeviceMessage
  <2> HIDE DEF reply, next
  <2>4. Depth(next) = 0
    BY <2>2, DepthFacts
  <2>5. Paced(reply, next)
    BY <1>1, <1>2, <2>1, <2>4 DEF Paced
  <2>6. QED
    BY <2>1, <2>2, <2>3, <2>5
<1>5. QED
  BY <1>3, <1>4

LEMMA ClosingPaced ==
  ASSUME TypeOK, DeviceFingerprint \/ DeviceMessageSignature \/ DeviceRefuses
  PROVE  \E reply \in Replies, next \in Devices : Answer(reply, next) /\ Paced(reply, next)
<1>1. CASE DeviceMessageSignature
  <2>1. Signature(dev.nonce) \in Signatures
    BY DEF TypeOK, Devices, Signature, Signatures
  <2> DEFINE reply == [Reply("SignMessage") EXCEPT !.sig = Signature(dev.nonce)]
  <2>2. reply \in Replies /\ reply.typ = "SignMessage"
    BY <2>1, ConstantTypes DEF Reply, Replies, Types
  <2>3. Answer(reply, Idle) /\ Asked.op # "fingerprint"
    BY <1>1 DEF DeviceMessageSignature
  <2> HIDE DEF reply
  <2>4. QED
    BY <2>2, <2>3, IdlePaced
<1>2. ASSUME NEW typ \in {"Fingerprint", "Error"}, Answer(Reply(typ), Idle)
      PROVE  \E reply \in Replies, next \in Devices : Answer(reply, next) /\ Paced(reply, next)
  <2>1. Reply(typ) \in Replies /\ Reply(typ).typ = typ
    BY ConstantTypes DEF Reply, Replies, Types
  <2>2. QED
    BY <1>2, <2>1, IdlePaced
<1>3. QED
  BY <1>1, <1>2 DEF DeviceFingerprint, DeviceRefuses

LEMMA CommitmentPaced ==
  ASSUME TypeOK, Expects("input"), dev.pass = 2,
         Answer([Reply("HostNonce") EXCEPT !.commitment = Signature(Asked.nonce)],
                [dev EXCEPT !.expects = "signature", !.nonce = Asked.nonce])
  PROVE  \E reply \in Replies, next \in Devices : Answer(reply, next) /\ Paced(reply, next)
<1> DEFINE reply == [Reply("HostNonce") EXCEPT !.commitment = Signature(Asked.nonce)]
           next == [dev EXCEPT !.expects = "signature", !.nonce = Asked.nonce]
<1>1. out # <<>> /\ dev.mode = "signing" /\ Asked.op = "input" /\ dev \in Devices
  BY DEF TypeOK, Expects
<1>2. Asked.nonce \in Nat /\ Signature(Asked.nonce) \in Signatures
  BY <1>1, AskedTypes DEF Signature, Signatures, Devices
<1>3. reply \in Replies /\ reply.typ = "HostNonce"
  BY <1>2, ConstantTypes DEF Reply, Replies, Types, NextTypes
<1>4. next \in Devices
  BY <1>1, <1>2 DEF Devices
<1>5. Answer(reply, next)
  OBVIOUS
<1> HIDE DEF reply, next
<1>6. Depth(dev) = 3 /\ Depth(next) \in 0..3
  BY <1>1, <1>4, DepthFacts
<1>7. Paced(reply, next)
  BY <1>1, <1>3, <1>6 DEF Paced
<1>8. QED
  BY <1>3, <1>4, <1>5, <1>7

\* The device gives every part of a signing a reply of its own.
LEMMA DevicePaced ==
  ASSUME TypeOK, DeviceStep
  PROVE  \E reply \in Replies, next \in Devices : Answer(reply, next) /\ Paced(reply, next)
<1>1. dev.nonce \in Nat /\ dev.index \in Nat /\ dev \in Devices
  BY DEF TypeOK, Devices
<1>2. CASE DeviceInput1
  BY <1>1, <1>2, AskPaced, AfterInputPaced DEF DeviceInput1, Expects, Parts, Types, NextTypes
<1>3. CASE DevicePrevtx
  BY <1>1, <1>3, AskPaced, AfterInputPaced DEF DevicePrevtx, Expects, Parts, Types, NextTypes
<1>4. CASE DeviceOutput
  <2>1. Expects("output") /\ AskInput(1, 2, NoSig) /\ Depth(dev) >= 2
    BY <1>1, <1>4, DepthFacts DEF DeviceOutput, Expects
  <2>2. QED
    BY <2>1, ConstantTypes, AskInputPaced DEF Expects
<1>5. CASE DeviceInput2
  <2>1. Expects("input") /\ dev.pass = 2 /\ Depth(dev) = 3
    BY <1>1, <1>5, DepthFacts DEF DeviceInput2, Expects
  <2>2. QED
    BY <1>5, <2>1, SignedPaced, CommitmentPaced DEF DeviceInput2, Expects
<1>6. CASE DeviceSignature
  <2>1. Expects("signature") /\ Depth(dev) = 3
    BY <1>1, <1>6, DepthFacts DEF DeviceSignature, Expects
  <2>2. QED
    BY <1>1, <1>6, <2>1, SignedPaced DEF DeviceSignature, Expects
<1>7. QED
  BY <1>2, <1>3, <1>4, <1>5, <1>6, OpeningPaced, ClosingPaced DEF DeviceStep

\* The device in step with the call.
LEMMA InPlaceFacts ==
  ASSUME TypeOK, NEW sigs \in Seq(Signatures), NEW count \in Nat, InPlace(sigs, count),
         NEW sig \in Signatures, sig.id = calls, sig.index = count + 1,
         call.tx[count + 1] = "ecdsa" => sig.nonce # 0
  PROVE  InPlace(Append(sigs, sig), count + 1)
<1> DEFINE q == Append(sigs, sig)
<1>1. /\ Len(sigs) = count /\ Len(q) = count + 1
      /\ \A j \in 1..count : q[j] = sigs[j]
      /\ q[count + 1] = sig
  BY AppendFacts DEF InPlace
<1>2. \A i \in 1..(count + 1) : i \in 1..count \/ i = count + 1
  OBVIOUS
<1> HIDE DEF q
<1>3. InPlace(q, count + 1)
  BY <1>1, <1>2 DEF InPlace
<1>4. QED
  BY <1>3 DEF q

InStep == \E reply \in Replies, next \in Devices : Answer(reply, next) /\ Replied(reply, next)

\* It asks for a part, nothing signed yet.
LEMMA AskInStep ==
  ASSUME TypeOK, Looking(dev), NEW typ \in Parts \cup {"Output"}, NEW expects \in Parts \cup {"output"},
         NEW index \in 1..Len(call.tx), Ask(typ, expects, index),
         \/ typ \in Parts /\ expects = typ /\ index = dev.index /\ LastLooked(dev)
         \/ typ = "Output" /\ expects = "output" /\ call.pass2
  PROVE  InStep
<1> DEFINE reply == [Reply(typ) EXCEPT !.index = index]
           next == [dev EXCEPT !.expects = expects, !.index = index]
<1>1. dev \in Devices /\ Len(call.tx) \in Nat /\ index \in Nat
  BY DEF TypeOK, SignCalls
<1>2. reply \in Replies /\ reply.typ = typ
  BY ConstantTypes, <1>1 DEF Reply, Replies, Types, NextTypes
<1>3. /\ next \in Devices /\ next.mode = dev.mode /\ next.expects = expects /\ next.index = index
      /\ next.pass = dev.pass /\ next.id = dev.id /\ next.tx = dev.tx
  BY <1>1 DEF Devices, Parts
<1>4. Answer(reply, next)
  BY DEF Ask
<1> HIDE DEF reply, next
<1>5. Looking(next) /\ (index = dev.index => next.index = dev.index)
  BY <1>3 DEF Looking, AtPsbt
<1>6. Replied(reply, next)
  BY <1>2, <1>3, <1>5 DEF Replied, LastLooked
<1>7. QED
  BY <1>2, <1>3, <1>4, <1>6 DEF InStep

\* It asks for an input.
LEMMA AskInputInStep ==
  ASSUME TypeOK, AtPsbt(dev), NEW index \in 1..Len(call.tx), NEW pass \in {1, 2},
         NEW sig \in Signatures, AskInput(index, pass, sig),
         \/ pass = 1 /\ Looking(dev) /\ ~call.pass2
         \/ /\ pass = 2 /\ call.pass2
            /\ IF call.phase \in WithSignature THEN InPlace(Append(call.sigs, sig), index - 1)
               ELSE InPlace(call.sigs, index - 1)
  PROVE  InStep
<1> DEFINE reply == [Reply("Input") EXCEPT !.index = index, !.sig = sig]
           next == [dev EXCEPT !.expects = "input", !.index = index, !.pass = pass, !.nonce = 0]
<1>1. dev \in Devices /\ Len(call.tx) \in Nat /\ index \in Nat
  BY DEF TypeOK, SignCalls
<1>2. reply \in Replies /\ reply.typ = "Input" /\ reply.index = index /\ reply.sig = sig
  BY ConstantTypes, <1>1 DEF Reply, Replies, Types, NextTypes
<1>3. /\ next \in Devices /\ next.mode = dev.mode /\ next.expects = "input" /\ next.index = index
      /\ next.pass = pass /\ next.id = dev.id /\ next.tx = dev.tx
  BY <1>1 DEF Devices
<1>4. Answer(reply, next)
  BY DEF AskInput
<1> HIDE DEF reply, next
<1>5. AtPsbt(next)
  BY <1>3 DEF AtPsbt
<1>6. CASE pass = 1 /\ Looking(dev) /\ ~call.pass2
  BY <1>2, <1>3, <1>4, <1>5, <1>6 DEF InStep, Replied, Looking
<1>7. CASE pass = 2 /\ call.pass2 /\ InPlace(Now(reply), index - 1)
  <2>1. Signing(next) /\ InPlace(Now(reply), next.index - 1)
    BY <1>3, <1>5, <1>7 DEF Signing
  <2>2. QED
    BY <1>2, <1>3, <1>4, <2>1 DEF InStep, Replied
<1>8. QED
  BY <1>2, <1>6, <1>7 DEF Now

LEMMA AfterInputInStep ==
  ASSUME TypeOK, Looking(dev), LastLooked(dev), AfterInput
  PROVE  InStep
<1>1. /\ dev.index \in Nat /\ dev.index \in 1..Len(call.tx) /\ Len(call.tx) \in Nat /\ dev.tx = call.tx
      /\ AtPsbt(dev)
  BY DEF TypeOK, Devices, SignCalls, Looking, AtPsbt
<1>2. CASE dev.index < Len(dev.tx)
  <2>1. AskInput(dev.index + 1, 1, NoSig) /\ ~call.pass2 /\ dev.index + 1 \in 1..Len(call.tx)
    BY <1>1, <1>2 DEF AfterInput, LastLooked
  <2>2. QED
    BY <1>1, <2>1, ConstantTypes, AskInputInStep
<1>3. CASE ~(dev.index < Len(dev.tx))
  <2>1. Ask("Output", "output", 1) /\ call.pass2 /\ 1 \in 1..Len(call.tx)
    BY <1>1, <1>3 DEF AfterInput, LastLooked
  <2>2. QED
    BY <2>1, AskInStep
<1>4. QED
  BY <1>2, <1>3

\* It signs an input.
LEMMA SignedInStep ==
  ASSUME TypeOK, Signing(dev), InPlace(call.sigs, dev.index - 1), call.phase \in WithSignature,
         NEW nonce \in Nat, call.tx[dev.index] = "ecdsa" => nonce # 0, Signed(Signature(nonce))
  PROVE  InStep
<1>1. /\ dev.index \in 1..Len(call.tx) /\ Len(call.tx) \in Nat /\ dev.tx = call.tx /\ AtPsbt(dev)
      /\ dev.id = calls /\ dev.id \in Nat /\ call.sigs \in Seq(Signatures)
      /\ dev.index \in Nat /\ dev.index - 1 \in Nat /\ (dev.index - 1) + 1 = dev.index
      /\ (dev.index + 1) - 1 = dev.index
  BY SMTT(60) DEF TypeOK, Devices, SignCalls, Signing, AtPsbt
<1>2. PICK sig \in Signatures :
        sig = Signature(nonce) /\ sig.id = calls /\ sig.index = dev.index /\ sig.nonce = nonce
  BY <1>1 DEF Signature, Signatures
<1>3. InPlace(Append(call.sigs, sig), dev.index)
  <2>1. PICK count \in Nat : count = dev.index - 1 /\ count + 1 = dev.index
    BY <1>1
  <2>2. InPlace(Append(call.sigs, sig), count + 1)
    BY <1>1, <1>2, <2>1, InPlaceFacts
  <2>3. QED
    BY <2>1, <2>2
<1>4. CASE dev.index < Len(dev.tx) /\ AskInput(dev.index + 1, 2, sig)
  <2>1. PICK index \in 1..Len(call.tx) : index = dev.index + 1 /\ index - 1 = dev.index
    BY <1>1, <1>4
  <2>2. QED
    BY <1>1, <1>3, <1>4, <2>1, AskInputInStep DEF Signing
<1>5. CASE ~(dev.index < Len(dev.tx)) /\ Answer([Reply("Done") EXCEPT !.sig = sig], Idle)
  <2> DEFINE reply == [Reply("Done") EXCEPT !.sig = sig]
  <2>1. reply \in Replies /\ reply.typ = "Done" /\ reply.sig = sig
    BY <1>2, ConstantTypes DEF Reply, Replies, Types, NextTypes
  <2>2. Answer(reply, Idle)
    BY <1>5
  <2> HIDE DEF reply
  <2>3. dev.index = Len(call.tx)
    BY <1>1, <1>5
  <2>4. Now(reply) = Append(call.sigs, sig)
    BY <2>1 DEF Now
  <2>5. Replied(reply, Idle)
    BY <1>3, <2>1, <2>3, <2>4 DEF Replied
  <2>6. QED
    BY <2>1, <2>2, <2>5, ConstantTypes DEF InStep
<1>6. QED
  BY <1>2, <1>4, <1>5 DEF Signed

LEMMA InitInStep ==
  ASSUME TypeOK, Len(call.tx) > 0, Asking(Asked, dev), DeviceInit
  PROVE  InStep
<1> DEFINE reply == [Reply("Input") EXCEPT !.index = 1]
           next == [Idle EXCEPT !.mode = "signing", !.id = Asked.id, !.tx = Asked.tx,
                                !.index = 1, !.expects = "input"]
<1>1. /\ Asked.id = calls /\ Asked.tx = call.tx
      /\ ~call.pass2 /\ call.phase = "ExpectNext" /\ call.sigs = <<>>
  BY DEF Asking, DeviceInit, Parts
<1>2. Asked.id \in Nat /\ Asked.tx \in Seq(Kinds) /\ Len(call.tx) \in Nat
  BY AskedTypes DEF DeviceInit, TypeOK, SignCalls
<1>3. reply \in Replies /\ reply.typ = "Input" /\ reply.index = 1
  BY ConstantTypes DEF Reply, Replies, Types, NextTypes
<1>4. /\ next \in Devices /\ next.expects = "input" /\ next.pass = 1 /\ next.mode = "signing"
      /\ next.id = Asked.id /\ next.tx = Asked.tx /\ next.index = 1
  BY <1>2, ConstantTypes DEF Devices, Idle
<1>5. Answer(reply, next)
  BY DEF DeviceInit
<1> HIDE DEF reply, next
<1>6. Looking(next)
  BY <1>1, <1>2, <1>4 DEF Looking, AtPsbt
<1>7. Replied(reply, next)
  BY <1>1, <1>3, <1>4, <1>6 DEF Replied
<1>8. QED
  BY <1>3, <1>4, <1>5, <1>7 DEF InStep

LEMMA LookingInStep ==
  ASSUME TypeOK, Asking(Asked, dev), DeviceInput1 \/ DevicePrevtx \/ DeviceOutput
  PROVE  InStep
<1>1. /\ dev \in Devices /\ dev.index \in Nat /\ Len(call.tx) \in Nat
      /\ Asked.op = dev.expects /\ dev.mode = "signing" /\ out # <<>>
  BY DEF TypeOK, Devices, SignCalls, DeviceInput1, DevicePrevtx, DeviceOutput, Expects
<1>2. /\ Looking(dev) /\ dev.index \in 1..Len(call.tx) /\ AtPsbt(dev)
      /\ Asked.op \in Parts \cup {"input"} => LastLooked(dev)
      /\ Asked.op = "output" => call.pass2
  BY <1>1 DEF Asking, Looking, Signing, AtPsbt, Parts, DeviceInput1, DevicePrevtx, DeviceOutput, Expects
<1>3. CASE DeviceInput1
  <2>1. LastLooked(dev) /\ (AfterInput \/ Ask("PrevtxInit", "PrevtxInit", dev.index))
    BY <1>2, <1>3 DEF DeviceInput1, Expects
  <2>2. QED
    BY <1>2, <2>1, AskInStep, AfterInputInStep DEF Parts
<1>4. CASE DevicePrevtx
  <2>1. /\ LastLooked(dev)
        /\ \/ AfterInput
           \/ Ask("PrevtxInput", "PrevtxInput", dev.index)
           \/ Ask("PrevtxOutput", "PrevtxOutput", dev.index)
    BY <1>2, <1>4 DEF DevicePrevtx, Expects, Parts
  <2>2. QED
    BY <1>2, <2>1, AskInStep, AfterInputInStep DEF Parts
<1>5. CASE DeviceOutput
  <2>1. AskInput(1, 2, NoSig) /\ call.pass2 /\ call.phase \notin WithSignature /\ call.sigs = <<>>
    BY <1>2, <1>5 DEF DeviceOutput, Expects, Looking, WithSignature
  <2>2. InPlace(call.sigs, 1 - 1) /\ 1 \in 1..Len(call.tx)
    BY <1>1, <1>2, <2>1, EmptyFacts DEF InPlace
  <2>3. QED
    BY <1>2, <2>1, <2>2, ConstantTypes, AskInputInStep
<1>6. QED
  BY <1>3, <1>4, <1>5

LEMMA SigningInStep ==
  ASSUME TypeOK, Asking(Asked, dev), DeviceInput2 \/ DeviceSignature
  PROVE  InStep
<1>1. /\ dev \in Devices /\ dev.index \in Nat /\ dev.nonce \in Nat /\ Len(call.tx) \in Nat
      /\ Asked.op = dev.expects /\ Asked.op \in {"input", "signature"} /\ dev.mode = "signing"
      /\ out # <<>> /\ call.tx \in Seq(Kinds)
  BY SMTT(60) DEF TypeOK, Devices, SignCalls, DeviceInput2, DeviceSignature, Expects
<1>2. /\ Signing(dev) /\ dev.index \in 1..Len(call.tx) /\ AtPsbt(dev) /\ dev.tx = call.tx
      /\ InPlace(call.sigs, dev.index - 1)
      /\ Asked.op = "input" => IF call.tx[dev.index] = "ecdsa"
                               THEN call.phase = "ExpectHostNonce" /\ Asked.nonce # 0
                               ELSE call.phase = "ExpectNextWithSig"
      /\ Asked.op = "signature" => call.phase = "ExpectAntikleptoSig" /\ dev.nonce # 0
  BY <1>1 DEF Asking, Looking, Signing, AtPsbt, Parts, DeviceInput2, DeviceSignature, Expects
<1>3. CASE DeviceSignature
  <2>1. Signed(Signature(dev.nonce)) /\ call.phase \in WithSignature /\ dev.nonce # 0
    BY <1>2, <1>3 DEF DeviceSignature, Expects, WithSignature
  <2>2. QED
    BY <1>1, <1>2, <2>1, SignedInStep
<1>4. CASE DeviceInput2 /\ call.tx[dev.index] # "ecdsa"
  <2>1. Signed(Signature(0)) /\ call.phase \in WithSignature
    BY <1>2, <1>4 DEF DeviceInput2, Expects, WithSignature
  <2>2. QED
    BY <1>2, <1>4, <2>1, SignedInStep
<1>5. CASE DeviceInput2 /\ call.tx[dev.index] = "ecdsa"
  <2> DEFINE reply == [Reply("HostNonce") EXCEPT !.commitment = Signature(Asked.nonce)]
             next == [dev EXCEPT !.expects = "signature", !.nonce = Asked.nonce]
  <2>1. call.phase = "ExpectHostNonce" /\ Asked.nonce # 0 /\ Asked.nonce \in Nat
    BY <1>1, <1>2, <1>5, AskedTypes DEF DeviceInput2, Expects
  <2>2. Signature(Asked.nonce) \in Signatures
    BY <1>1, <2>1 DEF Signature, Signatures, Devices
  <2>3. reply \in Replies /\ reply.typ = "HostNonce"
    BY <2>2, ConstantTypes DEF Reply, Replies, Types, NextTypes
  <2>4. /\ next \in Devices /\ next.mode = dev.mode /\ next.expects = "signature"
        /\ next.index = dev.index /\ next.pass = dev.pass /\ next.id = dev.id /\ next.tx = dev.tx
        /\ next.nonce = Asked.nonce
    BY <1>1, <2>1 DEF Devices
  <2>5. Answer(reply, next)
    BY <1>2, <1>5, <2>1 DEF DeviceInput2
  <2> HIDE DEF reply, next
  <2>6. Signing(next) /\ InPlace(call.sigs, next.index - 1)
    BY <1>2, <2>4 DEF Signing, AtPsbt
  <2>7. Replied(reply, next)
    BY <2>1, <2>3, <2>4, <2>6 DEF Replied
  <2>8. QED
    BY <2>3, <2>4, <2>5, <2>7 DEF InStep
<1>6. QED
  BY <1>3, <1>4, <1>5

LEMMA ClosingInStep ==
  ASSUME TypeOK, Asking(Asked, dev),
         DeviceFingerprint \/ DeviceMessage \/ DeviceMessageSignature \/ DeviceRefuses
  PROVE  InStep
<1>1. DeviceRefuses
  BY DEF Asking, Looking, Signing, AtPsbt, Parts, DeviceFingerprint, DeviceMessage, DeviceMessageSignature
<1>2. Reply("Error") \in Replies /\ Reply("Error").typ = "Error"
  BY ConstantTypes DEF Reply, Replies, Types
<1>3. Replied(Reply("Error"), Idle)
  BY <1>2 DEF Replied, NextTypes, Parts
<1>4. QED
  BY <1>1, <1>2, <1>3, ConstantTypes DEF InStep, DeviceRefuses

LEMMA DeviceInStep ==
  ASSUME TypeOK, Len(call.tx) > 0, Asking(Asked, dev), DeviceStep
  PROVE  InStep
  BY InitInStep, LookingInStep, SigningInStep, ClosingInStep DEF DeviceStep

\* The call in step with the device.
LEMMA OneFact ==
  ASSUME TypeOK, NEW request \in Requests
  PROVE  /\ Len(<<>>) = 0
         /\ Len(in) = 1 => in # <<>> /\ Tail(in) = <<>> /\ Head(in) = in[1]
         /\ out = <<>> => Len(Append(out, request)) = 1 /\ Append(out, request)[1] = request
<1>1. in \in Seq(Replies) /\ out \in Seq(Requests)
  BY DEF TypeOK
<1>2. ASSUME Len(in) = 1
      PROVE  in # <<>> /\ Tail(in) = <<>> /\ Head(in) = in[1]
  <2>1. in # <<>>
    <3>1. <<>> = in => Len(in) = 0
      BY EmptyFacts
    <3>2. QED
      BY <1>2, <3>1
  <2>2. Head(in) = in[1] /\ Tail(in) \in Seq(Replies) /\ Len(Tail(in)) = 0
    BY <1>1, <1>2, <2>1, TailFacts
  <2>3. QED
    BY <2>1, <2>2, EmptyFacts
<1>3. ASSUME out = <<>>
      PROVE  Len(Append(out, request)) = 1 /\ Append(out, request)[1] = request
  <2>1. Len(out) = 0
    BY <1>3
  <2>2. Len(Append(out, request)) = Len(out) + 1 /\ Append(out, request)[Len(out) + 1] = request
    BY <1>1, AppendFacts
  <2>3. QED
    BY <2>1, <2>2
<1>4. QED
  BY <1>2, <1>3

LEMMA RequestFacts ==
  ASSUME TypeOK, NEW op \in Ops, NEW index \in Nat, NEW nonce \in Nat
  PROVE  /\ Request(op, index, nonce) \in Requests
         /\ Request(op, index, nonce).op = op /\ Request(op, index, nonce).id = calls
         /\ Request(op, index, nonce).index = index
         /\ Request(op, index, nonce).nonce = nonce /\ Request(op, index, nonce).tx = call.tx
  BY RequestTypes DEF Request

\* A request in step.
LEMMA SendInStep ==
  ASSUME TypeOK, in # <<>>, in' = Tail(in), Len(in) = 1, out = <<>>, UNCHANGED <<dev, calls, lost>>,
         NEW request \in Requests, NEW next, Send(request, next), next.st = "SignPsbtWaitNext",
         Asking(request, dev)'
  PROVE  Lockstep'
<1>1. call' = next /\ out' = Append(out, request)
  BY DEF Send
<1>2. in' = <<>> /\ Len(out') = 1 /\ out'[1] = request
  BY <1>1, OneFact
<1>3. Asking(out[1], dev)'
  BY <1>2 DEF Asking, Looking, Signing, AtPsbt, LastLooked, InPlace
<1>4. QED
  BY <1>1, <1>2, <1>3 DEF Lockstep

LEMMA PartInStep ==
  ASSUME TypeOK, in # <<>>, in' = Tail(in), Len(in) = 1, out = <<>>, UNCHANGED <<dev, calls, lost>>,
         call.st = "SignPsbtWaitNext", Looking(dev), NEW op \in Parts \cup {"output"}, SendPart(op),
         dev.expects = op,
         \/ op \in Parts /\ LastLooked(dev)
         \/ op = "output" /\ call.pass2
  PROVE  Lockstep'
<1> DEFINE request == Request(op, Response.index, 0)
           next == [call EXCEPT !.sigs = SignaturesNow, !.phase = "ExpectNext"]
<1>1. call \in SignCalls /\ Response.index \in Nat /\ op \in Ops
  BY ResponseTypes DEF TypeOK, Ops
<1>2. request \in Requests /\ request.op = op
  BY <1>1, RequestFacts
<1>3. SignaturesNow = <<>>
  BY DEF SignaturesNow, Looking
<1>4. /\ next.st = call.st /\ next.sigs = <<>> /\ next.phase = "ExpectNext"
      /\ next.pass2 = call.pass2 /\ next.tx = call.tx
  BY <1>1, <1>3 DEF SignCalls
<1>5. Send(request, next)
  BY DEF SendPart
<1> HIDE DEF request, next
<1>6. call' = next
  BY <1>5 DEF Send
<1>a. PICK r \in Requests : r = request
  BY <1>2
<1>7. Looking(dev)' /\ (LastLooked(dev) => LastLooked(dev)') /\ call'.pass2 = call.pass2
  BY <1>4, <1>6 DEF Looking, AtPsbt, LastLooked
<1>8. Asking(r, dev)'
  BY <1>2, <1>a, <1>7 DEF Asking
<1>9. QED
  BY <1>a, <1>4, <1>5, <1>8, SendInStep

LEMMA InputInStep ==
  ASSUME TypeOK, in # <<>>, in' = Tail(in), Len(in) = 1, out = <<>>, UNCHANGED <<dev, calls, lost>>,
         call.st = "SignPsbtWaitNext", SendInput, dev.expects = "input", Response.index = dev.index,
         \/ Looking(dev) /\ ~call.pass2
         \/ Signing(dev) /\ InPlace(SignaturesNow, dev.index - 1)
  PROVE  Lockstep'
<1> DEFINE nonce == IF PerformAntiklepto THEN HostNonce ELSE 0
           request == Request("input", Response.index, nonce)
           next == [call EXCEPT !.sigs = SignaturesNow,
                                !.nonce = IF PerformAntiklepto THEN HostNonce ELSE @,
                                !.phase = PhaseAfterInput,
                                !.pass2 = @ \/ LastInput]
<1>1. /\ call \in SignCalls /\ Response.index \in Nat /\ "input" \in Ops /\ drawn \in Nat
      /\ call.tx \in Seq(Kinds) /\ call.pass2 \in BOOLEAN
  BY ResponseTypes DEF TypeOK, Ops, SignCalls
<1>2. nonce \in Nat /\ (PerformAntiklepto => nonce # 0)
  BY <1>1 DEF HostNonce
<1>3. request \in Requests /\ request.op = "input" /\ request.nonce = nonce
  BY <1>1, <1>2, RequestFacts
<1>4. /\ next.st = call.st /\ next.sigs = SignaturesNow /\ next.phase = PhaseAfterInput
      /\ next.pass2 = (call.pass2 \/ LastInput) /\ next.tx = call.tx
  BY <1>1 DEF SignCalls
<1>5. Send(request, next)
  BY DEF SendInput
<1> HIDE DEF request, next, nonce
<1>6. call' = next
  BY <1>5 DEF Send
<1>a. PICK r \in Requests : r = request
  BY <1>3
<1>7. ASSUME Looking(dev), ~call.pass2
      PROVE  Asking(r, dev)'
  <2>1. ~PerformAntiklepto /\ PhaseAfterInput = "ExpectNext" /\ SignaturesNow = <<>>
    BY <1>7 DEF PerformAntiklepto, PhaseAfterInput, SignaturesNow, Looking
  <2>2. Looking(dev)' /\ LastLooked(dev)'
    BY <1>4, <1>6, <1>7, <2>1 DEF Looking, AtPsbt, LastLooked, LastInput
  <2>3. QED
    BY <1>3, <1>a, <2>2 DEF Asking
<1>8. ASSUME Signing(dev), InPlace(SignaturesNow, dev.index - 1)
      PROVE  Asking(r, dev)'
  <2>1. /\ PerformAntiklepto <=> call.tx[dev.index] = "ecdsa"
        /\ PhaseAfterInput = IF call.tx[dev.index] = "ecdsa" THEN "ExpectHostNonce" ELSE "ExpectNextWithSig"
    <3>1. call.tx[dev.index] \in Kinds /\ call.pass2
      BY <1>1, <1>8 DEF Signing, AtPsbt
    <3>2. QED
      BY <3>1 DEF PerformAntiklepto, IsSchnorr, PhaseAfterInput, Kinds
  <2>2. Signing(dev)' /\ call'.pass2
    BY <1>1, <1>4, <1>6, <1>8 DEF Signing, AtPsbt
  <2>3. InPlace(call.sigs, dev.index - 1)'
    BY <1>4, <1>6, <1>8 DEF InPlace
  <2>4. IF call'.tx[dev'.index] = "ecdsa" THEN call'.phase = "ExpectHostNonce" /\ r.nonce # 0
        ELSE call'.phase = "ExpectNextWithSig"
    BY <1>2, <1>3, <1>a, <1>4, <1>6, <2>1
  <2>5. QED
    BY <1>3, <1>a, <2>2, <2>3, <2>4 DEF Asking
<1>9. Asking(r, dev)'
  BY <1>7, <1>8
<1>10. QED
  BY <1>a, <1>4, <1>5, <1>9, SendInStep

LEMMA NonceInStep ==
  ASSUME TypeOK, in # <<>>, in' = Tail(in), Len(in) = 1, out = <<>>, UNCHANGED <<dev, calls, lost>>,
         call.st = "SignPsbtWaitNext", Signing(dev), InPlace(call.sigs, dev.index - 1),
         dev.expects = "signature", dev.nonce # 0,
         Reveal([call EXCEPT !.phase = "ExpectAntikleptoSig", !.commitment = Response.commitment])
  PROVE  Lockstep'
<1> DEFINE request == Request("signature", 0, call.nonce)
           next == [call EXCEPT !.phase = "ExpectAntikleptoSig", !.commitment = Response.commitment]
<1>1. call \in SignCalls /\ call.nonce \in Nat /\ "signature" \in Ops
  BY DEF TypeOK, Ops, SignCalls
<1>2. request \in Requests /\ request.op = "signature"
  BY <1>1, RequestFacts, ZenonT(60)
<1>3. /\ next.st = call.st /\ next.sigs = call.sigs /\ next.phase = "ExpectAntikleptoSig"
      /\ next.pass2 = call.pass2 /\ next.tx = call.tx
  BY <1>1 DEF SignCalls
<1>4. Send(request, next)
  BY DEF Reveal
<1> HIDE DEF request, next
<1>5. call' = next
  BY <1>4 DEF Send
<1>a. PICK r \in Requests : r = request
  BY <1>2
<1>6. Signing(dev)' /\ InPlace(call.sigs, dev.index - 1)'
  BY <1>3, <1>5, ZenonT(60) DEF Signing, AtPsbt, InPlace
<1>7. Asking(r, dev)'
  BY <1>2, <1>a, <1>3, <1>5, <1>6 DEF Asking
<1>8. QED
  BY <1>a, <1>3, <1>4, <1>7, SendInStep

\* What a call returns.
LEMMA FailReturned ==
  ASSUME Fail
  PROVE  Returned' /\ Given' /\ ~InCall' /\ ~ForPsbt' /\ out' = out
  BY ConstantTypes DEF Fail, Return, Returned, Succeeded, Given, InCall, ForPsbt, PsbtStates

LEMMA DoneReturned ==
  ASSUME TypeOK, Given, call.st = "SignPsbtWaitNext", in # <<>>, in' = Tail(in), OnDone,
         InPlace(SignaturesNow, Len(call.tx)) \/ lost >= 5,
         lost' = lost
  PROVE  Returned' /\ Given' /\ ~InCall' /\ ~ForPsbt' /\ out' = out
<1>1. /\ result' = [status |-> "ok", id |-> calls, tx |-> call.tx, sigs |-> SignaturesNow]
      /\ call' = NewCall /\ out' = out
  BY DEF OnDone, Return
<1>2. result'.id = calls /\ result'.tx = call.tx /\ result'.sigs = SignaturesNow
  BY <1>1
<1>3. call.tx # <<>>
  BY EmptyFacts DEF Given, ForPsbt, PsbtStates
<1>4. ~InCall' /\ ~ForPsbt' /\ Given'
  BY <1>1, ConstantTypes DEF Given, InCall, ForPsbt, PsbtStates
<1>5. Returned'
  <2>1. SUFFICES ASSUME InPlace(SignaturesNow, Len(call.tx))
                 PROVE  Returned'
    <3>1. lost \in Nat /\ (lost >= 5 => ~(lost' < 5))
      BY DEF TypeOK
    <3>2. QED
      BY <3>1 DEF Returned
  <2>2. QED
    BY <1>2, <1>3, <2>1 DEF Returned, InPlace
<1>6. QED
  BY <1>1, <1>4, <1>5

\* A round of the loop.
LEMMA LoopInStep ==
  ASSUME TypeOK, Given, OnSignNext, Len(in) = 1, out = <<>>, Replied(in[1], dev)
  PROVE  \/ Returned' /\ Given' /\ ~InCall' /\ ~ForPsbt' /\ out' = out
         \/ Lockstep'
<1>1. /\ in # <<>> /\ in' = Tail(in) /\ call.st = "SignPsbtWaitNext" /\ UNCHANGED <<dev, calls, lost>>
  BY DEF OnSignNext, Receive
<1>2. Response = in[1]
  BY <1>1, ResponseTypes
<1>3. Now(in[1]) = SignaturesNow
  BY <1>2 DEF Now, SignaturesNow, WithSignature
<1>4. CASE Fail
  BY <1>4, FailReturned
<1>5. CASE ~Unexpected /\ ~Fail
  <2>1. Response.typ \in NextTypes
    BY <1>5 DEF Unexpected
  <2>2. CASE Response.typ = "HostNonce"
    <3>1. /\ Signing(dev) /\ dev.expects = "signature" /\ InPlace(call.sigs, dev.index - 1)
          /\ dev.nonce # 0
      BY <1>2, <2>2 DEF Replied, NextTypes, Parts
    <3>2. Reveal([call EXCEPT !.phase = "ExpectAntikleptoSig", !.commitment = Response.commitment])
      BY <1>5, <2>2 DEF OnSignNext, Parts
    <3>3. QED
      BY <1>1, <3>1, <3>2, NonceInStep
  <2>3. CASE Response.typ = "Input"
    <3>1. /\ dev.expects = "input" /\ Response.index = dev.index
          /\ \/ Looking(dev) /\ ~call.pass2
             \/ Signing(dev) /\ InPlace(SignaturesNow, dev.index - 1)
      BY <1>2, <1>3, <2>3 DEF Replied, NextTypes, Parts
    <3>2. SendInput
      BY <1>5, <2>3 DEF OnSignNext, Parts
    <3>3. QED
      BY <1>1, <3>1, <3>2, InputInStep
  <2>4. CASE Response.typ \in Parts
    <3>1. Looking(dev) /\ dev.expects = Response.typ /\ LastLooked(dev)
      BY <1>2, <2>4 DEF Replied, NextTypes, Parts
    <3>2. SendPart(Response.typ)
      BY <1>5, <2>4 DEF OnSignNext, Parts
    <3>3. QED
      BY <1>1, <2>4, <3>1, <3>2, PartInStep
  <2>5. CASE Response.typ = "Output"
    <3>1. Looking(dev) /\ dev.expects = "output" /\ call.pass2
      BY <1>2, <2>5 DEF Replied, NextTypes, Parts
    <3>2. SendPart("output")
      BY <1>5, <2>5 DEF OnSignNext, Parts
    <3>3. QED
      BY <1>1, <3>1, <3>2, PartInStep
  <2>6. CASE Response.typ = "Done"
    <3>1. InPlace(SignaturesNow, Len(call.tx))
      BY <1>2, <1>3, <2>6 DEF Replied, NextTypes, Parts
    <3>2. OnDone
      BY <1>5, <2>6 DEF OnSignNext, Parts
    <3>3. QED
      BY <1>1, <3>1, <3>2, DoneReturned
  <2>7. QED
    BY <2>1, <2>2, <2>3, <2>4, <2>5, <2>6 DEF NextTypes
<1>6. QED
  BY <1>4, <1>5 DEF OnSignNext

\* The queues after a step.
LEMMA ReadFacts ==
  ASSUME TypeOK, in # <<>>, in' = Tail(in)
  PROVE  /\ Len(in') = Len(in) - 1 /\ Len(in) > 0 /\ Len(in) \in Nat
         /\ \A j \in 1..Len(in') : j + 1 \in 1..Len(in) /\ in'[j] = in[j + 1]
         /\ Response = in[1]
  BY TailFacts DEF TypeOK, Response

LEMMA SpacedRead ==
  ASSUME TypeOK, Spaced, dev' = dev, in # <<>>, in' = Tail(in)
  PROVE  Spaced'
<1>1. /\ Len(in') = Len(in) - 1 /\ Len(in) \in Nat /\ Depth(dev) \in 0..3 /\ Depth(dev') = Depth(dev)
      /\ \A j \in 1..Len(in') : j + 1 \in 1..Len(in) /\ in'[j] = in[j + 1]
  BY ReadFacts, QueueTypes
<1>2. ASSUME NEW i \in 1..Len(in'), in'[i].typ = "Fingerprint"
      PROVE  /\ i + Depth(dev') <= Len(in')
             /\ \A j \in 1..Len(in') : i < j /\ in'[j].typ = "Done" => i + 4 <= j
  <2>1. i + 1 \in 1..Len(in) /\ in[i + 1].typ = "Fingerprint"
    BY <1>1, <1>2
  <2>2. /\ i + 1 + Depth(dev) <= Len(in)
        /\ \A j \in 1..Len(in) : i + 1 < j /\ in[j].typ = "Done" => i + 1 + 4 <= j
    BY <2>1 DEF Spaced
  <2>3. i + Depth(dev') <= Len(in')
    BY <1>1, <2>2
  <2>4. ASSUME NEW j \in 1..Len(in'), i < j, in'[j].typ = "Done"
        PROVE  i + 4 <= j
    <3>1. j + 1 \in 1..Len(in) /\ in[j + 1].typ = "Done" /\ i + 1 < j + 1
      BY <1>1, <2>4
    <3>2. i + 1 + 4 <= j + 1
      BY <2>2, <3>1
    <3>3. QED
      BY <1>1, <3>2
  <2>5. QED
    BY <2>3, <2>4
<1>3. QED
  BY <1>2 DEF Spaced

\* A call that goes on leaves as many requests and replies as there were.
LEMMA GoOnFacts ==
  ASSUME TypeOK, in # <<>>, in' = Tail(in), NEW request \in Requests, out' = Append(out, request)
  PROVE  /\ Stream' = Stream /\ Stream \in Nat
         /\ \A p \in 2..Stream : Opener(p) => p - 1 \in 1..Stream' /\ Opener(p - 1)'
<1>1. /\ Len(in') = Len(in) - 1 /\ Len(in) \in Nat /\ Len(in) > 0 /\ Len(out) \in Nat
      /\ \A j \in 1..Len(in') : j + 1 \in 1..Len(in) /\ in'[j] = in[j + 1]
      /\ Len(out') = Len(out) + 1
      /\ \A j \in 1..Len(out) : out'[j] = out[j]
  BY ReadFacts, QueueTypes, AppendFacts DEF TypeOK
<1>2. Stream' = Stream /\ Stream \in Nat /\ Stream = Len(in) + Len(out)
  BY <1>1 DEF Stream
<1>3. ASSUME NEW p \in 2..Stream, Opener(p)
      PROVE  p - 1 \in 1..Stream' /\ Opener(p - 1)'
  <2>1. PICK place \in 1..Stream : place = p - 1 /\ place + 1 = p
    BY <1>2
  <2>2. CASE p <= Len(in)
    <3>1. place <= Len(in') /\ in'[place] = in[p]
      BY <1>1, <1>2, <2>1, <2>2
    <3>2. QED
      BY <1>2, <1>3, <2>1, <2>2, <3>1 DEF Opener
  <2>3. CASE ~(p <= Len(in))
    <3>1. ~(place <= Len(in')) /\ place - Len(in') = p - Len(in) /\ p - Len(in) \in 1..Len(out)
      BY <1>1, <1>2, <2>1, <2>3, SMTT(60)
    <3>2. out'[place - Len(in')] = out[p - Len(in)]
      BY <1>1, <3>1
    <3>3. QED
      BY <1>2, <1>3, <2>1, <2>3, <3>1, <3>2 DEF Opener
  <2>4. QED
    BY <2>2, <2>3
<1>4. QED
  BY <1>2, <1>3

\* The first reply, to this call's request or to an earlier one.
LEMMA FingerprintBehind ==
  ASSUME TypeOK, Spaced, call.st = "SignPsbtWaitFingerprint", call'.st = "SignPsbtWaitNext",
         in # <<>>, in' = Tail(in), dev' = dev, Response.typ = "Fingerprint",
         NEW request \in Requests, out' = Append(out, request),
         NEW p \in 2..Stream, Behind(p)
  PROVE  \E q \in 1..Stream' : Behind(q)'
<1>1. /\ Len(in') = Len(in) - 1 /\ Len(in) \in Nat /\ Len(in) > 0 /\ Response = in[1]
      /\ \A j \in 1..Len(in') : j + 1 \in 1..Len(in) /\ in'[j] = in[j + 1]
      /\ Depth(dev) \in 0..3 /\ Depth(dev') = Depth(dev)
  BY ReadFacts, QueueTypes
<1>2. Stream' = Stream /\ Stream \in Nat /\ p = Stream /\ Opener(p)
  BY GoOnFacts DEF Behind
<1>3. PICK q \in 1..Stream' : q = p - 1 /\ q + 1 = Stream
  BY <1>2
<1>4. Opener(q)'
  <2>1. Opener(p - 1)'
    BY <1>2, GoOnFacts
  <2>2. QED
    BY <1>3, <2>1 DEF Opener
<1>5. /\ 1 + Depth(dev) <= Len(in)
      /\ \A j \in 1..Len(in) : 1 < j /\ in[j].typ = "Done" => 1 + 4 <= j
  <2>1. 1 \in 1..Len(in) /\ in[1].typ = "Fingerprint"
    BY <1>1
  <2>2. QED
    BY <2>1 DEF Spaced
<1>6. q < Stream' /\ q + Depth(dev') < Len(in') + Stream'
  BY <1>1, <1>2, <1>3, <1>5
<1>7. ASSUME NEW j \in 1..Len(in'), in'[j].typ = "Done"
      PROVE  q + 5 <= j + Stream'
  <2>1. j + 1 \in 1..Len(in) /\ in[j + 1].typ = "Done" /\ 1 < j + 1
    BY <1>1, <1>7
  <2>2. 1 + 4 <= j + 1
    BY <1>5, <2>1
  <2>3. QED
    BY <1>1, <1>2, <1>3, <2>2
<1>8. Behind(q)'
  BY <1>4, <1>6, <1>7 DEF Behind
<1>9. QED
  BY <1>8

\* A further reply to an earlier request: it is not the last of a signing, and the
\* reply to this call's own first request is none the loop takes.
LEMMA LoopBehind ==
  ASSUME TypeOK, Backlog, lost < 5, OnSignNext, NEW p \in 1..Stream, Behind(p), ~Fail
  PROVE  p # 1 /\ Response.typ # "Done"
<1>1. /\ in # <<>> /\ in' = Tail(in) /\ call.st = "SignPsbtWaitNext"
  BY DEF OnSignNext, Receive
<1>2. Response = in[1] /\ Len(in) > 0 /\ Len(in) \in Nat /\ lost \in Nat /\ Stream \in Nat
  BY <1>1, ReadFacts, QueueTypes
<1>3. Response.typ \in NextTypes
  BY DEF OnSignNext, Unexpected
<1>4. p # 1
  BY <1>2, <1>3 DEF Behind, Opener, NextTypes, Parts
<1>5. ASSUME Response.typ = "Done"
      PROVE  FALSE
  <2>1. p + 5 <= 1 + Stream
    BY <1>1, <1>2, <1>5 DEF Behind
  <2>2. Stream <= lost + 1
    BY <1>1 DEF Backlog, InCall
  <2>3. QED
    BY <1>2, <1>4, <2>1, <2>2
<1>6. QED
  BY <1>4, <1>5

LEMMA SendBehind ==
  ASSUME TypeOK, call.st = "SignPsbtWaitNext", call'.st = "SignPsbtWaitNext",
         in # <<>>, in' = Tail(in), dev' = dev, NEW request \in Requests, out' = Append(out, request),
         NEW p \in 2..Stream, Behind(p)
  PROVE  \E q \in 1..Stream' : Behind(q)'
<1>1. /\ Len(in') = Len(in) - 1 /\ Len(in) \in Nat /\ Len(in) > 0
      /\ \A j \in 1..Len(in') : j + 1 \in 1..Len(in) /\ in'[j] = in[j + 1]
      /\ Depth(dev) \in 0..3 /\ Depth(dev') = Depth(dev)
  BY ReadFacts, QueueTypes
<1>2. /\ Stream' = Stream /\ Stream \in Nat /\ Opener(p)
      /\ p < Stream /\ p + Depth(dev) < Len(in) + Stream
      /\ \A j \in 1..Len(in) : in[j].typ = "Done" => p + 5 <= j + Stream
  BY GoOnFacts DEF Behind
<1>3. PICK q \in 1..Stream' : q = p - 1 /\ q + 1 = p
  BY <1>2
<1>4. Opener(q)'
  <2>1. Opener(p - 1)'
    BY <1>2, GoOnFacts
  <2>2. QED
    BY <1>3, <2>1 DEF Opener
<1>5. q < Stream' /\ q + Depth(dev') < Len(in') + Stream'
  BY <1>1, <1>2, <1>3
<1>6. ASSUME NEW j \in 1..Len(in'), in'[j].typ = "Done"
      PROVE  q + 5 <= j + Stream'
  <2>1. j + 1 \in 1..Len(in) /\ in[j + 1].typ = "Done"
    BY <1>1, <1>6
  <2>2. p + 5 <= j + 1 + Stream
    BY <1>2, <2>1
  <2>3. QED
    BY <1>1, <1>2, <1>3, <2>2
<1>7. Behind(q)'
  BY <1>4, <1>5, <1>6 DEF Behind
<1>8. QED
  BY <1>7

\* The end of a call.
LEMMA ReturnPlaces ==
  ASSUME TypeOK, PlaceInv, InCall, in # <<>>, in' = Tail(in), UNCHANGED <<out, dev, lost>>,
         Returned', Given', ~InCall', ~ForPsbt'
  PROVE  PlaceInv'
<1>1. /\ Len(in') = Len(in) - 1 /\ Len(in) \in Nat /\ Len(out) \in Nat /\ lost \in Nat
  BY ReadFacts, QueueTypes
<1>2. Stream <= lost + 1 /\ Stream = Len(in) + Len(out)
  BY DEF PlaceInv, Backlog, Stream
<1>3. Backlog'
  BY <1>1, <1>2 DEF Backlog, Stream
<1>4. Spaced'
  BY SpacedRead DEF PlaceInv
<1>5. QED
  BY <1>3, <1>4 DEF PlaceInv

\* A further request of a call.
LEMMA SendPlaces ==
  ASSUME TypeOK, PlaceInv, InCall, InCall', in # <<>>, in' = Tail(in),
         NEW request \in Requests, out' = Append(out, request), UNCHANGED <<result, dev, lost>>,
         Given', ForPsbt' /\ lost < 5 => Lockstep' \/ \E q \in 1..Stream' : Behind(q)'
  PROVE  PlaceInv'
<1>1. Stream' = Stream /\ Stream <= lost + 1 /\ Stream > 0
  BY GoOnFacts DEF PlaceInv, Backlog
<1>2. Backlog'
  BY <1>1 DEF Backlog
<1>3. Spaced'
  BY SpacedRead DEF PlaceInv
<1>4. Returned'
  BY DEF PlaceInv, Returned, Succeeded
<1>5. (ForPsbt /\ lost < 5)' => Lockstep' \/ (\E q \in 1..Stream : Behind(q))'
  OBVIOUS
<1>6. QED
  BY <1>2, <1>3, <1>4, <1>5 DEF PlaceInv

LEMMA FailPlaces ==
  ASSUME TypeOK, PlaceInv, InCall, in # <<>>, in' = Tail(in), UNCHANGED <<dev, calls, lost>>, Fail
  PROVE  PlaceInv'
  BY FailReturned, ReturnPlaces

\* A call that reads the first reply.
LEMMA FingerprintPlaces ==
  ASSUME TypeOK, PlaceInv, OnSignFingerprint
  PROVE  PlaceInv'
<1>1. /\ in # <<>> /\ in' = Tail(in) /\ UNCHANGED <<dev, calls, lost>> /\ InCall /\ ForPsbt
      /\ call.st = "SignPsbtWaitFingerprint" /\ call \in SignCalls /\ calls \in Nat
  BY DEF OnSignFingerprint, Receive, InCall, ForPsbt, PsbtStates, TypeOK
<1>2. CASE ~Fail
  <2> DEFINE next == [call EXCEPT !.st = "SignPsbtWaitNext"]
  <2>1. Response.typ = "Fingerprint" /\ Send(Request("init", 0, 0), next)
    BY <1>2 DEF OnSignFingerprint
  <2>2. /\ next.st = "SignPsbtWaitNext" /\ next.tx = call.tx /\ next.phase = call.phase
        /\ next.pass2 = call.pass2 /\ next.sigs = call.sigs
    BY <1>1 DEF SignCalls
  <2>3. /\ Request("init", 0, 0) \in Requests /\ Request("init", 0, 0).op = "init"
        /\ Request("init", 0, 0).id = calls /\ Request("init", 0, 0).tx = call.tx
    BY RequestFacts DEF Ops
  <2>4. PICK request \in Requests : request = Request("init", 0, 0)
    BY <2>3
  <2> HIDE DEF next
  <2>5. call' = next /\ out' = Append(out, request) /\ result' = result
    BY <2>1, <2>4 DEF Send
  <2>6. /\ call'.st = "SignPsbtWaitNext" /\ InCall' /\ ForPsbt' /\ Given'
    BY <1>1, <2>2, <2>5 DEF InCall, ForPsbt, PsbtStates, PlaceInv, Given
  <2>7. ASSUME lost < 5
        PROVE  Lockstep' \/ \E q \in 1..Stream' : Behind(q)'
    <3>1. PICK p \in 1..Stream : Behind(p)
      BY <1>1, <2>7 DEF PlaceInv, Lockstep
    <3>2. CASE p = 1
      <4>1. Len(in) = 1 /\ out = <<>>
        <5>1. Stream = 1 /\ Len(in) > 0 /\ Len(in) \in Nat /\ Len(out) \in Nat
          BY <1>1, <3>1, <3>2, ReadFacts, QueueTypes DEF Behind
        <5>2. Stream = Len(in) + Len(out)
          BY DEF Stream
        <5>3. Len(in) = 1 /\ Len(out) = 0
          BY <5>1, <5>2
        <5>4. out \in Seq(Requests)
          BY DEF TypeOK
        <5>5. QED
          BY <5>3, <5>4, EmptyFacts
      <4>2. ~call.pass2 /\ call.sigs = <<>> /\ call.phase = "ExpectNext"
        BY <1>1 DEF PlaceInv, Given, TypeOK
      <4>3. Asking(request, dev)'
        BY <1>1, <2>2, <2>3, <2>4, <2>5, <4>2 DEF Asking
      <4>4. Lockstep'
        BY <1>1, <2>1, <2>2, <2>4, <4>1, <4>3, SendInStep
      <4>5. QED
        BY <4>4
    <3>3. CASE p # 1
      <4>1. p \in 2..Stream /\ Spaced
        BY <3>1, <3>3, QueueTypes DEF PlaceInv
      <4>2. QED
        BY <1>1, <2>1, <2>5, <2>6, <3>1, <4>1, FingerprintBehind
    <3>4. QED
      BY <3>2, <3>3
  <2>8. QED
    BY <1>1, <2>5, <2>6, <2>7, SendPlaces
<1>3. QED
  BY <1>1, <1>2, FailPlaces

\* A round of the loop.
LEMMA LoopSends ==
  ASSUME TypeOK, OnSignNext, ~Fail, Response.typ # "Done"
  PROVE  /\ \E request \in Requests : Sends(request)
         /\ call'.st = "SignPsbtWaitNext" /\ call'.tx = call.tx
<1>1. call \in SignCalls /\ call.st = "SignPsbtWaitNext"
  BY DEF TypeOK, OnSignNext, Receive
<1>2. \/ \E phase \in Phases, commitment \in Signatures :
           call' = [call EXCEPT !.phase = phase, !.commitment = commitment]
      \/ call' = [call EXCEPT !.sigs = SignaturesNow,
                              !.nonce = IF PerformAntiklepto THEN HostNonce ELSE @,
                              !.phase = PhaseAfterInput, !.pass2 = @ \/ LastInput]
      \/ call' = [call EXCEPT !.sigs = SignaturesNow, !.phase = "ExpectNext"]
  <2>1. CASE Reveal([call EXCEPT !.phase = "ExpectAntikleptoSig", !.commitment = Response.commitment])
    <3>1. "ExpectAntikleptoSig" \in Phases /\ Response.commitment \in Signatures
      BY ResponseTypes DEF OnSignNext, Receive, Phases
    <3>2. QED
      BY <2>1, <3>1 DEF Reveal, Send
  <2>2. QED
    BY <2>1, SignNextSteps DEF SendInput, SendPart, Send
<1>3. call'.st = call.st /\ call'.tx = call.tx
  BY <1>1, <1>2 DEF SignCalls
<1>4. QED
  BY <1>1, <1>3, SignNextSends

LEMMA LoopPlaces ==
  ASSUME TypeOK, PlaceInv, OnSignNext
  PROVE  PlaceInv'
<1>1. /\ in # <<>> /\ in' = Tail(in) /\ UNCHANGED <<dev, calls, lost>> /\ InCall /\ ForPsbt
      /\ call.st = "SignPsbtWaitNext" /\ lost \in Nat /\ Given
  BY QueueTypes DEF OnSignNext, Receive, InCall, ForPsbt, PsbtStates, PlaceInv
<1>2. CASE ~Fail /\ Response.typ # "Done"
  <2>1. PICK request \in Requests : Sends(request)
    BY <1>2, LoopSends
  <2>2. call'.st = "SignPsbtWaitNext" /\ call'.tx = call.tx /\ InCall' /\ Given'
    BY <1>1, <1>2, LoopSends DEF InCall, ForPsbt, PsbtStates, Given
  <2>3. out' = Append(out, request) /\ result' = result
    BY <2>1 DEF Sends
  <2>4. ASSUME lost < 5
        PROVE  Lockstep' \/ \E q \in 1..Stream' : Behind(q)'
    <3>1. CASE Lockstep
      <4>1. out = <<>> /\ Len(in) = 1 /\ Replied(in[1], dev)
        BY <1>1, <3>1 DEF Lockstep
      <4>2. QED
        BY <1>1, <2>2, <4>1, LoopInStep
    <3>2. ASSUME NEW p \in 1..Stream, Behind(p)
          PROVE  Lockstep' \/ \E q \in 1..Stream' : Behind(q)'
      <4>1. p \in 2..Stream
        BY <1>2, <2>4, <3>2, LoopBehind, QueueTypes DEF PlaceInv
      <4>2. QED
        BY <1>1, <2>2, <2>3, <3>2, <4>1, SendBehind
    <3>3. QED
      BY <1>1, <2>4, <3>1, <3>2 DEF PlaceInv
  <2>5. QED
    BY <1>1, <2>2, <2>3, <2>4, SendPlaces
<1>3. CASE ~Fail /\ Response.typ = "Done"
  <2>1. OnDone
    BY <1>3 DEF OnSignNext, Parts
  <2>2. Returned' /\ Given' /\ ~InCall' /\ ~ForPsbt' /\ out' = out
    <3>1. CASE lost >= 5
      BY <1>1, <2>1, <3>1, DoneReturned
    <3>2. CASE lost < 5
      <4>1. Lockstep
        BY <1>1, <1>3, <3>2, LoopBehind DEF PlaceInv
      <4>2. out = <<>> /\ Len(in) = 1 /\ Replied(in[1], dev)
        BY <1>1, <4>1 DEF Lockstep
      <4>3. call' = NewCall
        BY <2>1 DEF OnDone, Return
      <4>4. ~Lockstep'
        BY <4>3, ConstantTypes DEF Lockstep
      <4>5. QED
        BY <1>1, <4>2, <4>4, LoopInStep
    <3>3. QED
      BY <1>1, <3>1, <3>2
  <2>3. QED
    BY <1>1, <2>2, ReturnPlaces
<1>4. QED
  BY <1>1, <1>2, <1>3, FailPlaces

\* A call that signs a message.
LEMMA MessagePlaces ==
  ASSUME TypeOK, PlaceInv, OnSignMessageCommitment \/ OnSignMessageSig
  PROVE  PlaceInv'
<1>1. /\ in # <<>> /\ in' = Tail(in) /\ UNCHANGED <<dev, calls, lost>> /\ InCall /\ ~ForPsbt
      /\ call \in SignCalls /\ call.tx = <<>> /\ Awaited
  BY DEF OnSignMessageCommitment, OnSignMessageSig, Receive, InCall, ForPsbt, PsbtStates, TypeOK,
         PlaceInv, Given, Awaited
<1>2. CASE ~Fail /\ OnSignMessageCommitment
  <2> DEFINE next == [call EXCEPT !.st = "SignMessageWaitSig", !.commitment = Response.commitment]
  <2>1. Send(Request("signature", 0, call.nonce), next)
    BY <1>2 DEF OnSignMessageCommitment, Reveal
  <2>2. next.st = "SignMessageWaitSig" /\ next.tx = call.tx
    BY <1>1 DEF SignCalls
  <2>3. call.nonce \in Nat
    BY <1>1 DEF SignCalls
  <2>4. PICK request \in Requests : request = Request("signature", 0, call.nonce)
    BY <2>3, RequestFacts DEF Ops
  <2> HIDE DEF next
  <2>5. call' = next /\ out' = Append(out, request) /\ result' = result
    BY <2>1, <2>4 DEF Send
  <2>6. InCall' /\ ~ForPsbt' /\ Given'
    BY <1>1, <2>2, <2>5 DEF InCall, ForPsbt, PsbtStates, Given
  <2>7. QED
    BY <1>1, <2>5, <2>6, SendPlaces
<1>3. CASE ~Fail /\ OnSignMessageSig
  <2>1. /\ call' = NewCall /\ out' = out /\ Verified
        /\ result' = [status |-> "ok", id |-> calls, tx |-> call.tx, sigs |-> <<Response.sig>>]
    BY <1>3 DEF OnSignMessageSig, Return
  <2>2. ~InCall' /\ ~ForPsbt' /\ Given'
    BY <2>1, ConstantTypes DEF InCall, ForPsbt, PsbtStates, Given
  <2>3. Response.sig.nonce # 0
    BY <1>1, <2>1 DEF Verified, TypeOK
  <2>4. result'.tx = <<>> /\ Len(result'.sigs) = 1 /\ result'.sigs[1] = Response.sig
    BY <1>1, <2>1
  <2>5. Returned'
    BY <2>3, <2>4 DEF Returned
  <2>6. QED
    BY <1>1, <2>1, <2>2, <2>5, ReturnPlaces
<1>4. QED
  BY <1>1, <1>2, <1>3, FailPlaces

LEMMA AbandonPlaces ==
  ASSUME TypeOK, PlaceInv, Abandon
  PROVE  PlaceInv'
<1>1. /\ call' = NewCall /\ result' = NoResult /\ lost' = lost + 1 /\ UNCHANGED <<out, in, dev>>
      /\ lost \in Nat
  BY DEF Abandon, TypeOK
<1>2. ~InCall' /\ ~ForPsbt' /\ Given'
  BY <1>1, ConstantTypes DEF InCall, ForPsbt, PsbtStates, Given
<1>3. Stream' = Stream /\ Stream \in Nat /\ Stream <= lost + 1
  BY <1>1, QueueTypes DEF Stream, PlaceInv, Backlog
<1>4. Backlog'
  BY <1>1, <1>2, <1>3 DEF Backlog
<1>5. Spaced' /\ Returned'
  BY <1>1, ConstantTypes DEF PlaceInv, Spaced, Returned, Succeeded
<1>6. QED
  BY <1>2, <1>4, <1>5 DEF PlaceInv

LEMMA StartPlaces ==
  ASSUME TypeOK, PlaceInv, SignPsbt \/ SignMessage
  PROVE  PlaceInv'
<1>1. /\ call = NewCall /\ ~InCall /\ result' = NoResult /\ UNCHANGED <<in, dev, lost>>
      /\ lost \in Nat /\ calls \in Nat /\ calls' = calls + 1 /\ drawn \in Nat
      /\ Len(in) \in Nat /\ Len(out) \in Nat /\ out \in Seq(Requests)
  BY QueueTypes, ConstantTypes DEF SignPsbt, SignMessage, InCall, TypeOK
<1>2. Spaced' /\ Returned'
  BY <1>1, ConstantTypes DEF PlaceInv, Spaced, Returned, Succeeded
<1>3. ASSUME NEW request \in Requests, out' = Append(out, request), InCall'
      PROVE  /\ Backlog' /\ Stream' \in Nat /\ Stream' > 0
             /\ Stream' > Len(in') /\ out'[Stream' - Len(in')] = request
  <2>1. Len(out') = Len(out) + 1 /\ out'[Len(out) + 1] = request
    BY <1>1, <1>3, AppendFacts
  <2>2. /\ Stream' = Stream + 1 /\ Stream \in Nat /\ Stream <= lost
        /\ Stream' - Len(in') = Len(out) + 1 /\ Stream' > Len(in')
    BY <1>1, <2>1 DEF Stream, PlaceInv, Backlog
  <2>3. Backlog'
    BY <1>1, <1>3, <2>2 DEF Backlog
  <2>4. QED
    BY <2>1, <2>2, <2>3
<1>4. CASE SignPsbt
  <2>1. PICK tx \in Transactions : call' = [NewCall EXCEPT !.st = "SignPsbtWaitFingerprint", !.tx = tx]
    BY <1>4 DEF SignPsbt
  <2>2. /\ call'.st = "SignPsbtWaitFingerprint" /\ call'.tx = tx /\ ~call'.pass2 /\ call'.sigs = <<>>
    BY <2>1 DEF NewCall
  <2>3. InCall' /\ ForPsbt' /\ Given'
    BY <2>2, TransactionsAssumption DEF InCall, ForPsbt, PsbtStates, Given
  <2>4. PICK request \in Requests : out' = Append(out, request) /\ request.op = "fingerprint"
    <3>1. "fingerprint" \in Ops /\ calls' \in Nat
      BY <1>1 DEF Ops
    <3>2. /\ [Request("fingerprint", 0, 0) EXCEPT !.id = calls'] \in Requests
          /\ [Request("fingerprint", 0, 0) EXCEPT !.id = calls'].op = "fingerprint"
      BY <3>1, OpenerTypes
    <3>3. QED
      BY <1>4, <3>2 DEF SignPsbt
  <2>5. /\ Backlog' /\ Stream' \in Nat /\ Stream' > 0
        /\ Stream' > Len(in') /\ out'[Stream' - Len(in')] = request
    BY <1>3, <2>3, <2>4
  <2>6. PICK p \in 1..Stream' : p = Stream'
    BY <2>5
  <2>7. ~(p <= Len(in')) /\ out'[p - Len(in')].op = "fingerprint"
    <3>1. Len(in') \in Nat /\ ~(p <= Len(in'))
      BY <1>1, <2>5, <2>6
    <3>2. out'[p - Len(in')] = request
      BY <2>5, <2>6
    <3>3. QED
      BY <2>4, <3>1, <3>2
  <2>8. Behind(p)'
    BY <2>2, <2>6, <2>7 DEF Behind, Opener
  <2>9. QED
    BY <1>2, <2>3, <2>5, <2>8 DEF PlaceInv
<1>5. CASE SignMessage
  <2>1. call' = [NewCall EXCEPT !.st = "SignMessageWaitCommitment", !.nonce = drawn']
    BY <1>5 DEF SignMessage
  <2>2. call'.st = "SignMessageWaitCommitment" /\ call'.tx = <<>>
    BY <2>1 DEF NewCall
  <2>3. InCall' /\ ~ForPsbt' /\ Given'
    BY <2>2 DEF InCall, ForPsbt, PsbtStates, Given
  <2>4. PICK request \in Requests : out' = Append(out, request)
    <3>1. "message" \in Ops /\ calls' \in Nat /\ drawn' \in Nat
      BY <1>1, <1>5 DEF Ops, SignMessage
    <3>2. [Request("message", 0, drawn') EXCEPT !.id = calls'] \in Requests
      BY <3>1, OpenerTypes
    <3>3. QED
      BY <1>5, <3>2 DEF SignMessage
  <2>5. Backlog'
    BY <1>3, <2>3, <2>4
  <2>6. QED
    BY <1>2, <2>3, <2>5 DEF PlaceInv
<1>6. QED
  BY <1>4, <1>5

\* The device.
LEMMA DevicePlaces ==
  ASSUME TypeOK, PlaceInv, DeviceStep
  PROVE  PlaceInv'
<1>1. PICK reply \in Replies, next \in Devices : Answer(reply, next) /\ Paced(reply, next)
  BY DevicePaced
<1>2. /\ out # <<>> /\ out' = Tail(out) /\ in' = Append(in, reply) /\ dev' = next
      /\ UNCHANGED <<call, drawn, result, revealed, calls, lost>>
  BY <1>1 DEF Answer
<1>3. /\ Len(in) \in Nat /\ Len(in') = Len(in) + 1 /\ in'[Len(in) + 1] = reply
      /\ \A j \in 1..Len(in') : \/ j \in 1..Len(in) /\ in'[j] = in[j]
                                \/ j = Len(in) + 1 /\ in'[j] = reply
      /\ \A j \in 1..Len(in) : in'[j] = in[j]
  BY <1>2, AppendFacts, QueueTypes
<1>4. /\ Len(out) \in Nat /\ Len(out) > 0 /\ Len(out') = Len(out) - 1 /\ Asked = out[1]
      /\ \A j \in 1..Len(out') : j + 1 \in 1..Len(out) /\ out'[j] = out[j + 1]
  BY <1>2, TailFacts, QueueTypes DEF Asked
<1>5. Stream' = Stream /\ Stream \in Nat /\ Stream = Len(in) + Len(out)
  BY <1>3, <1>4 DEF Stream
<1>6. /\ Depth(dev) \in 0..3 /\ Depth(dev') \in 0..3 /\ Depth(dev') <= Depth(dev) + 1
      /\ reply.typ = "Done" => Depth(dev) = 3
      /\ reply.typ = "Fingerprint" => Depth(dev') = 0
      /\ Asked.op = "fingerprint" => reply.typ \in {"Fingerprint", "Error"}
  BY <1>1, <1>2, QueueTypes DEF Paced
<1>7. Given' /\ Backlog' /\ Returned' /\ InCall' = InCall /\ ForPsbt' = ForPsbt
  BY <1>2, <1>5 DEF PlaceInv, Given, Backlog, Returned, Succeeded, InCall, ForPsbt
<1>8. Spaced'
  <2>1. ASSUME NEW i \in 1..Len(in'), in'[i].typ = "Fingerprint"
        PROVE  /\ i + Depth(dev') <= Len(in')
               /\ \A j \in 1..Len(in') : i < j /\ in'[j].typ = "Done" => i + 4 <= j
    <3>1. CASE i = Len(in) + 1
      BY <1>3, <1>6, <2>1, <3>1
    <3>2. CASE i \in 1..Len(in)
      <4>1. /\ i + Depth(dev) <= Len(in)
            /\ \A j \in 1..Len(in) : i < j /\ in[j].typ = "Done" => i + 4 <= j
        BY <1>3, <2>1, <3>2 DEF PlaceInv, Spaced
      <4>2. i + Depth(dev') <= Len(in')
        BY <1>3, <1>6, <4>1
      <4>3. ASSUME NEW j \in 1..Len(in'), i < j, in'[j].typ = "Done"
            PROVE  i + 4 <= j
        BY <1>3, <1>6, <4>1, <4>3
      <4>4. QED
        BY <4>2, <4>3
    <3>3. QED
      BY <1>3, <3>1, <3>2
  <2>2. QED
    BY <2>1 DEF Spaced
<1>9. ASSUME Lockstep, ForPsbt
      PROVE  Lockstep'
  <2>1. in = <<>> /\ Len(out) = 1 /\ Asking(out[1], dev)
    BY <1>2, <1>4, <1>9 DEF Lockstep
  <2>2. Len(call.tx) > 0
    BY <1>9 DEF PlaceInv, Given
  <2>3. PICK r \in Replies, n \in Devices : Answer(r, n) /\ Replied(r, n)
    BY <1>4, <2>1, <2>2, DeviceInStep DEF InStep
  <2>4. in' = Append(in, r) /\ dev' = n
    BY <2>3 DEF Answer
  <2>5. Len(in') = 1 /\ in'[1] = r
    <3>1. Len(in) = 0
      BY <2>1, EmptyFacts, SMTT(60)
    <3>2. Len(in') = Len(in) + 1 /\ in'[Len(in) + 1] = r
      BY <2>4, AppendFacts, QueueTypes, SMTT(60)
    <3>3. QED
      BY <3>1, <3>2
  <2>6. out' = <<>>
    <3>1. out' \in Seq(Requests) /\ Len(out') = 0
      BY <1>2, <1>4, <2>1, TailFacts, QueueTypes, SMTT(60)
    <3>2. QED
      BY <3>1, EmptyFacts, SMTT(60)
  <2>7. Replied(in[1], dev)'
    BY <1>2, <2>3, <2>4, <2>5, SMTT(60) DEF Replied, Looking, Signing, AtPsbt, LastLooked, InPlace, Now
  <2>8. QED
    BY <1>2, <1>9, <2>5, <2>6, <2>7 DEF Lockstep
<1>10. ASSUME NEW p \in 1..Stream, Behind(p)
       PROVE  Behind(p)'
  <2>1. Opener(p)'
    <3>1. CASE p <= Len(in)
      <4>1. in'[p] = in[p] /\ p <= Len(in')
        BY <1>3, <1>5, <3>1
      <4>2. QED
        BY <1>10, <3>1, <4>1 DEF Behind, Opener
    <3>2. CASE p = Len(in) + 1
      <4>1. p - Len(in) = 1 /\ ~(p <= Len(in)) /\ p <= Len(in')
        BY <1>3, <3>2
      <4>2. Asked.op = "fingerprint"
        BY <1>4, <1>10, <4>1 DEF Behind, Opener
      <4>3. QED
        BY <1>3, <1>6, <3>2, <4>1, <4>2 DEF Opener
    <3>3. CASE p > Len(in) + 1
      <4>1. /\ ~(p <= Len(in)) /\ ~(p <= Len(in')) /\ p - Len(in') \in 1..Len(out')
            /\ p - Len(in') + 1 = p - Len(in)
        BY <1>3, <1>4, <1>5, <3>3
      <4>2. out'[p - Len(in')] = out[p - Len(in)]
        BY <1>4, <4>1
      <4>3. QED
        BY <1>10, <4>1, <4>2 DEF Behind, Opener
    <3>4. QED
      BY <1>3, <3>1, <3>2, <3>3
  <2>2. ASSUME call.st = "SignPsbtWaitNext"
        PROVE  /\ p < Stream'
               /\ p + Depth(dev') < Len(in') + Stream'
               /\ \A j \in 1..Len(in') : in'[j].typ = "Done" => p + 5 <= j + Stream'
    <3>1. /\ p < Stream /\ p + Depth(dev) < Len(in) + Stream
          /\ \A j \in 1..Len(in) : in[j].typ = "Done" => p + 5 <= j + Stream
      BY <1>10, <2>2 DEF Behind
    <3>2. p + Depth(dev') < Len(in') + Stream'
      BY <1>3, <1>5, <1>6, <3>1
    <3>3. ASSUME NEW j \in 1..Len(in'), in'[j].typ = "Done"
          PROVE  p + 5 <= j + Stream'
      BY <1>3, <1>5, <1>6, <3>1, <3>3
    <3>4. QED
      BY <1>5, <3>1, <3>2, <3>3
  <2>3. QED
    BY <1>2, <1>5, <1>10, <2>1, <2>2 DEF Behind
<1>11. ForPsbt' /\ lost' < 5 => Lockstep' \/ \E p \in 1..Stream' : Behind(p)'
  BY <1>2, <1>5, <1>7, <1>9, <1>10 DEF PlaceInv
<1>12. QED
  BY <1>7, <1>8, <1>11 DEF PlaceInv

LEMMA PlaceInit == Init => PlaceInv
<1> SUFFICES ASSUME Init PROVE PlaceInv
  OBVIOUS
<1>1. /\ ~InCall /\ ~ForPsbt /\ ~Succeeded /\ Len(in) = 0 /\ Len(out) = 0 /\ lost = 0
      /\ call.st = "New"
  BY ConstantTypes, EmptyFacts DEF Init, InCall, ForPsbt, PsbtStates, Succeeded
<1>2. Given /\ Backlog /\ Spaced /\ Returned
  BY <1>1 DEF Given, Backlog, Stream, Spaced, Returned
<1>3. QED
  BY <1>1, <1>2 DEF PlaceInv

LEMMA PlaceNext == TypeOK /\ PlaceInv /\ [Next]_vars => PlaceInv'
<1> SUFFICES ASSUME TypeOK, PlaceInv, [Next]_vars PROVE PlaceInv'
  BY SMTT(60)
<1>1. CASE UNCHANGED vars
  <2>1. UNCHANGED <<call, drawn, result, revealed, out, in, dev, calls, lost>>
    BY <1>1, SMTT(60) DEF vars
  <2>2. Given' /\ Backlog' /\ Spaced' /\ Returned' /\ ForPsbt' = ForPsbt /\ Stream' = Stream
    BY <2>1, SMTT(60) DEF PlaceInv, Given, Backlog, Stream, Spaced, Returned, Succeeded, InCall, ForPsbt
  <2>3. Lockstep => Lockstep'
    BY <2>1 DEF Lockstep, Asking, Replied, Looking, Signing, AtPsbt, LastLooked, InPlace, Now
  <2>4. \A p \in 1..Stream : Behind(p) => Behind(p)'
    BY <2>1 DEF Behind, Opener, Stream
  <2>5. QED
    BY <2>1, <2>2, <2>3, <2>4, SMTT(60) DEF PlaceInv
<1>2. QED
  BY <1>1, StartPlaces, FingerprintPlaces, LoopPlaces, MessagePlaces, AbandonPlaces, DevicePlaces
  DEF Next, HostReceive

\* With fewer than five calls that stopped waiting, the signatures a call returns
\* are the device's for its own PSBT or message, one for each input and in the
\* order of the inputs.  A call with nothing else on its way is in step with the
\* device.  One that reads replies to earlier requests is too few of them behind
\* to read a whole signing, which takes five, and fails at the latest when it
\* reads the reply to its own first request.
THEOREM SignaturesAreInPlace == Spec => []SignaturesInPlace
<1>1. Init => TypeOK /\ PlaceInv
  BY TypesInit, PlaceInit
<1>2. TypeOK /\ PlaceInv /\ [Next]_vars => (TypeOK /\ PlaceInv)'
  BY TypesNext, PlaceNext
<1>3. PlaceInv /\ EcdsaIsOwn => SignaturesInPlace
  BY DEF PlaceInv, Returned, EcdsaIsOwn, SignaturesInPlace, Succeeded
<1>4. QED
  BY <1>1, <1>2, <1>3, EcdsaSignaturesAreOwn, PTL DEF Spec
=============================================================================
