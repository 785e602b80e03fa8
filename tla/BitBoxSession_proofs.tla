------------------------ MODULE BitBoxSession_proofs ------------------------
(* What TLAPS proves of BitBoxSession, for every value of its constants.   *)
EXTENDS BitBoxSession, TLAPS

\* A FIFO queue of elements of S holds elements of S whatever is put into it
\* and taken from it.
LEMMA EmptyTypes ==
  ASSUME NEW S
  PROVE  <<>> \in Seq(S) /\ Len(<<>>) = 0
  OBVIOUS

LEMMA AppendTypes ==
  ASSUME NEW S, NEW q \in Seq(S), NEW x \in S
  PROVE  Append(q, x) \in Seq(S) /\ Len(Append(q, x)) = Len(q) + 1
  OBVIOUS

LEMMA QueueTypes ==
  ASSUME NEW S, NEW q \in Seq(S), q # <<>>
  PROVE  /\ Head(q) \in S /\ Head(q) = q[1]
         /\ Tail(q) \in Seq(S) /\ Len(Tail(q)) = Len(q) - 1
         /\ Len(q) \in Nat /\ Len(q) > 0
  BY SMTT(60)

\* Every frame the two sides build is a frame.
LEMMA FrameTypes ==
  /\ Retry \in Requests
  /\ \A op \in {"unlock", "handshake", "hs1", "hs2", "verify", "msg"}, sid \in Nat, n \in Nat,
        ctx \in EncryptedContext \cup {NoCtx} : Request(op, sid, n, ctx) \in Requests
  /\ \A hww \in {"NOTREADY", "BUSY", "NACK"} : Refusal(hww) \in Replies
  /\ \A kind \in {"status", "failure"} : Status(kind) \in Replies
  /\ \A sid \in Nat, k \in Keys : HandshakeReply1(sid, k) \in Replies
  /\ \A sid \in Nat, v \in BOOLEAN : HandshakeReply2(sid, v) \in Replies
  /\ \A sid \in Nat, n \in Nat, typ \in ResponseTypes : Ciphertext(sid, n, typ) \in Replies
  BY ZenonT(60) DEF Retry, Requests, Request, Refusal, Replies, Status, HandshakeReply1, HandshakeReply2,
         Ciphertext, ResponseTypes, NoCtx

LEMMA AnswerTypes ==
  \A ctx : AnswerTo(ctx) \in ResponseTypes
  BY DEF AnswerTo, ResponseTypes

\* The values the host's part is reset to have their types.
LEMMA HostConstants ==
  /\ NewCall \in Calls
  /\ NoSession \in Sessions
  /\ {NoResult, Err, TaskDone} \subseteq Results
  BY DEF NewCall, Calls, NoSession, Sessions, NoResult, Err, TaskDone, Results, NoCtx

\* A frame is written, or it is not: the host's part keeps its types.
LEMMA TransmitTypes ==
  ASSUME HostTypeOK, ChannelTypeOK, NEW f \in Requests, NEW c \in Calls, Transmit(f, c)
  PROVE  out' \in Seq(Requests) /\ call' \in Calls /\ result' \in Results /\ faults' \in Nat
<1>1. CASE out' = Append(out, f) /\ call' = c /\ result' = NoResult /\ UNCHANGED faults
  BY <1>1, AppendTypes, HostConstants DEF HostTypeOK, ChannelTypeOK
<1>2. CASE faults' = faults + 1 /\ call' = NewCall /\ result' = Err /\ UNCHANGED out
  BY <1>2, HostConstants DEF HostTypeOK, ChannelTypeOK
<1>3. QED
  BY <1>1, <1>2 DEF Transmit

LEMMA ReturnTypes ==
  ASSUME HostTypeOK, ChannelTypeOK, NEW r \in Results, Return(r)
  PROVE  out' \in Seq(Requests) /\ call' \in Calls /\ result' \in Results /\ faults' \in Nat
  BY HostConstants DEF HostTypeOK, ChannelTypeOK, Return

-----------------------------------------------------------------------------
(* Type correctness, action by action.                                     *)

LEMMA StartCallTypes ==
  ASSUME TypeOK, StartCall
  PROVE  /\ pubkeys' \subseteq Keys /\ handshakes' \in Nat /\ calls' \in Nat
         /\ in' \in Seq(Replies) /\ DeviceTypeOK' /\ HistoryTypeOK'
  BY DEF TypeOK, StartCall, HostTypeOK, ChannelTypeOK, DeviceTypeOK, HistoryTypeOK

\* A step that starts a call with a frame.
LEMMA SendEncryptedTypes ==
  ASSUME HostTypeOK, ChannelTypeOK, NEW st \in {"WaitEncryptedResponse", "ShowAddrWaitFingerprint"},
         NEW ctx \in EncryptedContext, NEW waiting \in EncryptedContext,
         SendEncrypted(st, ctx, waiting)
  PROVE  out' \in Seq(Requests) /\ call' \in Calls /\ result' \in Results /\ faults' \in Nat
<1> DEFINE f == Request("msg", noise.sid, noise.send, waiting)
           c == [NewCall EXCEPT !.st = st, !.ctx = ctx, !.re = noise.send]
<1>1. noise.sid \in Nat /\ noise.send \in Nat
  BY DEF HostTypeOK, Sessions
<1>2. f \in Requests
  BY <1>1, FrameTypes
<1>3. c \in Calls
  BY <1>1 DEF Calls, NewCall, NoCtx
<1>4. Transmit(f, c)
  BY DEF SendEncrypted
<1>5. QED
  BY <1>2, <1>3, <1>4, TransmitTypes

LEMMA CallsTypeOK ==
  ASSUME TypeOK, Unlock \/ Query \/ ShowDescriptorAddress \/ NotPaired
  PROVE  TypeOK'
<1> USE DEF TypeOK
<1>0. StartCall
  BY DEF Unlock, Query, ShowDescriptorAddress, NotPaired
<1>1. CASE Unlock
  <2>1. Request("unlock", 0, 0, NoCtx) \in Requests
    BY FrameTypes
  <2>2. [NewCall EXCEPT !.st = "WaitUnlockAck"] \in Calls
    BY DEF NewCall, Calls, NoCtx
  <2>3. QED
    BY <1>0, <1>1, <2>1, <2>2, StartCallTypes, TransmitTypes DEF Unlock, HostTypeOK, ChannelTypeOK
<1>2. CASE Query
  <2>1. PICK ctx \in Contexts : SendEncrypted("WaitEncryptedResponse", ctx, ctx)
    BY <1>2 DEF Query
  <2>2. ctx \in EncryptedContext
    BY ContextsAssumption
  <2>3. noise' \in Sessions
    BY <1>2 DEF Query, HostTypeOK, Sessions
  <2>4. QED
    BY <1>0, <2>1, <2>2, <2>3, StartCallTypes, SendEncryptedTypes DEF HostTypeOK, ChannelTypeOK
<1>3. CASE ShowDescriptorAddress
  <2>1. SendEncrypted("ShowAddrWaitFingerprint", "Address", "MasterFingerprint")
    BY <1>3 DEF ShowDescriptorAddress
  <2>2. {"Address", "MasterFingerprint"} \subseteq EncryptedContext
    BY DEF EncryptedContext
  <2>3. noise' \in Sessions
    BY <1>3 DEF ShowDescriptorAddress, HostTypeOK, Sessions
  <2>4. QED
    BY <1>0, <2>1, <2>2, <2>3, StartCallTypes, SendEncryptedTypes DEF HostTypeOK, ChannelTypeOK
<1>4. CASE NotPaired
  BY <1>0, <1>4, StartCallTypes, ReturnTypes, HostConstants DEF NotPaired, HostTypeOK, ChannelTypeOK
<1>5. QED
  BY <1>1, <1>2, <1>3, <1>4

\* What every reply leaves alone, and what it takes off the channel.
LEMMA ReceiveTypes ==
  ASSUME TypeOK, Receive
  PROVE  /\ in \in Seq(Replies) /\ in # <<>> /\ Reply \in Replies /\ in' \in Seq(Replies)
         /\ DeviceTypeOK' /\ calls' \in Nat /\ abandoned' \in BOOLEAN
         /\ confirmed' \subseteq Nat \X Keys
<1>1. in \in Seq(Replies) /\ in # <<>> /\ in' = Tail(in)
  BY DEF TypeOK, ChannelTypeOK, Receive
<1>2. Reply \in Replies /\ in' \in Seq(Replies)
  BY <1>1, QueueTypes DEF Reply
<1>3. QED
  BY <1>1, <1>2 DEF TypeOK, Receive, HostTypeOK, DeviceTypeOK, HistoryTypeOK

LEMMA HostReceiveTypeOK ==
  ASSUME TypeOK, HostReceive
  PROVE  TypeOK'
<1> USE DEF TypeOK
<1>0. Receive
  BY DEF HostReceive, OnNotReady, OnRefused, OnUnlockAck, OnHandshakeInit, OnHandshake1,
         OnHandshake2, OnPairingConfirm, OnUndecryptable, OnEncryptedResponse,
         OnShowAddrFingerprint, ReceiveAck
<1>a. /\ in # <<>> /\ Reply \in Replies /\ in' \in Seq(Replies)
      /\ DeviceTypeOK' /\ calls' \in Nat /\ abandoned' \in BOOLEAN
      /\ confirmed' \subseteq Nat \X Keys
  BY <1>0, ReceiveTypes
<1>b. /\ noise \in Sessions /\ pubkeys \subseteq Keys /\ handshakes \in Nat
      /\ shown \in Nat /\ served \in Nat /\ call \in Calls
  BY DEF HostTypeOK, HistoryTypeOK
<1>c. SUFFICES /\ noise' \in Sessions /\ pubkeys' \subseteq Keys /\ handshakes' \in Nat
               /\ shown' \in Nat /\ served' \in Nat
               /\ out' \in Seq(Requests) /\ call' \in Calls /\ result' \in Results
               /\ faults' \in Nat
  BY <1>a DEF HostTypeOK, ChannelTypeOK, HistoryTypeOK
<1>1. CASE OnNotReady
  BY <1>1, <1>b, FrameTypes, TransmitTypes DEF OnNotReady
<1>2. CASE OnRefused
  BY <1>2, <1>b, HostConstants, ReturnTypes DEF OnRefused
<1>3. CASE OnUnlockAck
  <2>1. [NewCall EXCEPT !.st = "WaitHandshakeInit"] \in Calls
    BY DEF NewCall, Calls, NoCtx
  <2>2. Request("handshake", 0, 0, NoCtx) \in Requests
    BY FrameTypes
  <2>3. QED
    BY <1>3, <1>b, <2>1, <2>2, TransmitTypes DEF OnUnlockAck
<1>4. CASE OnHandshakeInit
  <2>1. CASE handshakes' = handshakes + 1
    <3>1. [NewCall EXCEPT !.st = "WaitHandshake1", !.hid = handshakes'] \in Calls
      <4>1. handshakes' \in Nat /\ handshakes' # 0
        BY <2>1, <1>b
      <4>2. QED
        BY <4>1 DEF NewCall, Calls, NoCtx
    <3>2. Request("hs1", handshakes', 0, NoCtx) \in Requests
      BY <2>1, <1>b, FrameTypes
    <3>3. \/ Transmit(Request("hs1", handshakes', 0, NoCtx),
                      [NewCall EXCEPT !.st = "WaitHandshake1", !.hid = handshakes'])
          \/ Return(Err)
      BY <1>4 DEF OnHandshakeInit
    <3>4. QED
      BY <1>4, <2>1, <1>b, <3>1, <3>2, <3>3, TransmitTypes, ReturnTypes, HostConstants
      DEF OnHandshakeInit
  <2>2. CASE UNCHANGED handshakes /\ Return(Err)
    BY <1>4, <2>2, <1>b, ReturnTypes, HostConstants DEF OnHandshakeInit
  <2>3. QED
    BY <1>4, <2>1, <2>2 DEF OnHandshakeInit
<1>5. CASE OnHandshake1
  <2>1. CASE /\ Reply.kind = "hs1"
             /\ Transmit(Request("hs2", call.hid, 0, NoCtx), AfterHandshake1)
    <3>1. call.st = "WaitHandshake1"
      BY <1>5 DEF OnHandshake1, ReceiveAck
    <3>2. Reply.key \in Keys
      BY <2>1, <1>a DEF Replies
    <3>3. AfterHandshake1 \in Calls
      BY <1>b, <3>1, <3>2 DEF AfterHandshake1, Calls
    <3>4. Request("hs2", call.hid, 0, NoCtx) \in Requests
      BY <1>b, FrameTypes DEF Calls
    <3>5. QED
      BY <1>5, <1>b, <2>1, <3>3, <3>4, TransmitTypes DEF OnHandshake1
  <2>2. CASE Return(Err)
    BY <1>5, <2>2, <1>b, ReturnTypes, HostConstants DEF OnHandshake1
  <2>3. QED
    BY <1>5, <2>1, <2>2 DEF OnHandshake1
<1>6. CASE OnHandshake2
  <2>1. call.st = "WaitHandshake2" /\ call.hid \in Nat /\ call.peer \in Keys
    BY <1>6, <1>b DEF OnHandshake2, ReceiveAck, Calls
  <2>2. CASE Transmit(Request("verify", 0, 0, NoCtx), [call EXCEPT !.st = "WaitPairingConfirm"])
             /\ ShowCode /\ UNCHANGED <<noise, served>>
    <3>1. [call EXCEPT !.st = "WaitPairingConfirm"] \in Calls
      BY <1>b, <2>1 DEF Calls
    <3>2. Request("verify", 0, 0, NoCtx) \in Requests
      BY FrameTypes
    <3>3. QED
      BY <1>6, <1>b, <2>1, <2>2, <3>1, <3>2, TransmitTypes DEF OnHandshake2, ShowCode
  <2>3. CASE Finalize(FALSE) /\ Return(TaskDone) /\ UNCHANGED shown
    BY <1>6, <2>1, <2>3, <1>b, ReturnTypes, HostConstants DEF OnHandshake2, Finalize, Sessions
  <2>4. CASE Return(Err) /\ UNCHANGED <<noise, served, shown>>
    BY <1>6, <2>4, <1>b, ReturnTypes, HostConstants DEF OnHandshake2
  <2>5. QED
    BY <1>6, <2>2, <2>3, <2>4 DEF OnHandshake2
<1>7. CASE OnPairingConfirm
  <2>1. call.st = "WaitPairingConfirm" /\ call.hid \in Nat /\ call.peer \in Keys
    BY <1>7, <1>b DEF OnPairingConfirm, ReceiveAck, Calls
  <2>2. CASE pubkeys' = pubkeys \cup {call.peer} /\ Finalize(TRUE) /\ Return(TaskDone)
    BY <1>7, <2>1, <2>2, <1>b, ReturnTypes, HostConstants DEF OnPairingConfirm, Finalize, Sessions
  <2>3. CASE Return(Err) /\ UNCHANGED <<noise, pubkeys, served>>
    BY <1>7, <2>3, <1>b, ReturnTypes, HostConstants DEF OnPairingConfirm
  <2>4. QED
    BY <1>7, <2>2, <2>3 DEF OnPairingConfirm
<1>8. CASE OnUndecryptable
  BY <1>8, <1>b, HostConstants, ReturnTypes DEF OnUndecryptable
<1>9. CASE OnEncryptedResponse
  <2>1. [status |-> "ok", n |-> Reply.n, re |-> call.re] \in Results
    BY <1>a, <1>b DEF Results, Replies, Calls
  <2>2. noise' \in Sessions
    BY <1>9, <1>b DEF OnEncryptedResponse, Sessions
  <2>3. PICK r \in Results : Return(r)
    BY <1>9, <2>1, HostConstants DEF OnEncryptedResponse
  <2>4. QED
    BY <1>9, <1>b, <2>2, <2>3, ReturnTypes DEF OnEncryptedResponse
<1>10. CASE OnShowAddrFingerprint
  <2>1. noise' \in Sessions
    <3>1. CASE noise' = [noise EXCEPT !.send = @ + 1, !.recv = @ + 1]
      <4>1. noise.send + 1 \in Nat /\ noise.recv + 1 \in Nat
        BY <1>b DEF Sessions
      <4>2. noise' = [noise EXCEPT !.send = noise.send + 1, !.recv = noise.recv + 1]
        BY <3>1
      <4>3. QED
        BY <4>1, <4>2, <1>b DEF Sessions
    <3>2. CASE noise' = [noise EXCEPT !.recv = @ + 1]
      BY <3>2, <1>b DEF Sessions
    <3>3. QED
      BY <1>10, <3>1, <3>2 DEF OnShowAddrFingerprint
  <2>2. "Address" \in EncryptedContext
    BY DEF EncryptedContext
  <2>3. SendEncrypted("WaitEncryptedResponse", "Address", "Address") \/ Return(Err)
    BY <1>10 DEF OnShowAddrFingerprint
  <2>4. QED
    BY <1>10, <1>b, <2>1, <2>2, <2>3, SendEncryptedTypes, ReturnTypes, HostConstants
    DEF OnShowAddrFingerprint
<1>11. QED
  BY <1>1, <1>2, <1>3, <1>4, <1>5, <1>6, <1>7, <1>8, <1>9, <1>10 DEF HostReceive

\* What every request the device reads leaves alone, and what it takes off the
\* channel.
LEMMA DeviceReadsTypes ==
  ASSUME TypeOK, DeviceReads
  PROVE  /\ out # <<>> /\ Frame \in Requests /\ out' \in Seq(Requests) /\ HostTypeOK'
         /\ shown' \in Nat /\ abandoned' \in BOOLEAN
<1>1. out \in Seq(Requests) /\ out # <<>> /\ out' = Tail(out)
  BY DEF TypeOK, ChannelTypeOK, DeviceReads
<1>2. Frame \in Requests /\ out' \in Seq(Requests)
  BY <1>1, QueueTypes DEF Frame
<1>3. QED
  BY <1>1, <1>2 DEF TypeOK, DeviceReads, HostTypeOK, HistoryTypeOK

\* The device's answer keeps the types of the channel and of its job.
LEMMA AnswerKeepsTypes ==
  ASSUME TypeOK, NEW r \in Replies, Answer(r)
  PROVE  in' \in Seq(Replies) /\ job' \in Seq(Replies) /\ Len(job') <= 1 /\ waits' \in Nat
<1>1. Refusal("NOTREADY") \in Replies
  BY FrameTypes
<1>2. CASE in' = Append(in, r) /\ UNCHANGED <<job, waits>>
  BY <1>2, AppendTypes DEF TypeOK, ChannelTypeOK, DeviceTypeOK
<1>3. CASE waits' = waits + 1 /\ job' = <<r>> /\ in' = Append(in, Refusal("NOTREADY"))
  BY <1>1, <1>3, AppendTypes DEF TypeOK, ChannelTypeOK, DeviceTypeOK
<1>4. QED
  BY <1>2, <1>3 DEF Answer

LEMMA DeviceStepTypeOK ==
  ASSUME TypeOK, DeviceStep
  PROVE  TypeOK'
<1> USE DEF TypeOK
<1>0. DeviceReads
  BY DEF DeviceStep, DeviceUnlock, DeviceHandshakeInit, DeviceHandshake1, DeviceHandshake2,
         DeviceVerify, DeviceMessage, DeviceBusy, DeviceRetry, DeviceDoes
<1>a. /\ Frame \in Requests /\ out' \in Seq(Requests) /\ HostTypeOK'
      /\ shown' \in Nat /\ abandoned' \in BOOLEAN
  BY <1>0, DeviceReadsTypes
<1>b. /\ dev \in [key : Keys, stage : {"none", "init", "hs1", "verify", "open"},
                  sid : Nat, nonce : Nat]
      /\ served \in Nat /\ confirmed \subseteq Nat \X Keys /\ job \in Seq(Replies)
      /\ Len(job) <= 1 /\ in \in Seq(Replies) /\ waits \in Nat
  BY DEF DeviceTypeOK, HistoryTypeOK, ChannelTypeOK
<1>c. SUFFICES /\ dev' \in [key : Keys, stage : {"none", "init", "hs1", "verify", "open"},
                            sid : Nat, nonce : Nat]
               /\ job' \in Seq(Replies) /\ Len(job') <= 1 /\ waits' \in Nat
               /\ in' \in Seq(Replies)
               /\ served' \in Nat /\ confirmed' \subseteq Nat \X Keys
  BY <1>a DEF DeviceTypeOK, HistoryTypeOK, ChannelTypeOK
<1>1. CASE DeviceUnlock
  BY <1>1, <1>b, FrameTypes, AnswerKeepsTypes DEF DeviceUnlock
<1>2. CASE DeviceHandshakeInit
  <2>1. CASE dev' = [dev EXCEPT !.stage = "init", !.sid = 0, !.nonce = 0]
             /\ Answer(Status("status"))
    BY <1>2, <2>1, <1>b, FrameTypes, AnswerKeepsTypes DEF DeviceHandshakeInit
  <2>2. CASE Answer(Status("failure")) /\ UNCHANGED dev
    BY <1>2, <2>2, <1>b, FrameTypes, AnswerKeepsTypes DEF DeviceHandshakeInit
  <2>3. QED
    BY <1>2, <2>1, <2>2 DEF DeviceHandshakeInit
<1>3. CASE DeviceHandshake1
  <2>1. HandshakeReply1(Frame.sid, dev.key) \in Replies
    BY <1>a, <1>b, FrameTypes DEF Requests
  <2>2. QED
    BY <1>3, <2>1, <1>a, <1>b, FrameTypes, AnswerKeepsTypes, ZenonT(60) DEF DeviceHandshake1, Requests
<1>4. CASE DeviceHandshake2
  <2>1. \A v \in BOOLEAN : HandshakeReply2(dev.sid, v) \in Replies
    BY <1>b, FrameTypes
  <2>2. QED
    BY <1>4, <2>1, <1>b, FrameTypes, AnswerKeepsTypes DEF DeviceHandshake2
<1>5. CASE DeviceVerify
  <2>1. <<dev.sid, dev.key>> \in Nat \X Keys
    BY <1>b
  <2>2. dev' \in [key : Keys, stage : {"none", "init", "hs1", "verify", "open"},
                  sid : Nat, nonce : Nat]
    <3>1. CASE dev' = [dev EXCEPT !.stage = "open"]
      BY <3>1, <1>b
    <3>2. CASE dev' = [dev EXCEPT !.stage = "none", !.sid = 0, !.nonce = 0]
      BY <3>2, <1>b
    <3>3. CASE UNCHANGED dev
      BY <3>3, <1>b
    <3>4. QED
      BY <1>5, <3>1, <3>2, <3>3 DEF DeviceVerify
  <2>3. confirmed' \subseteq Nat \X Keys
    BY <1>5, <2>1, <1>b DEF DeviceVerify
  <2>4. Answer(Status("status")) \/ Answer(Status("failure"))
    BY <1>5 DEF DeviceVerify
  <2>5. QED
    BY <1>5, <2>2, <2>3, <2>4, <1>b, FrameTypes, AnswerKeepsTypes DEF DeviceVerify
<1>6. CASE DeviceMessage
  <2>1. \A typ \in {AnswerTo(Frame.ctx), "Error"} : Ciphertext(dev.sid, Frame.n, typ) \in Replies
    <3>1. {AnswerTo(Frame.ctx), "Error"} \subseteq ResponseTypes
      BY AnswerTypes DEF ResponseTypes
    <3>2. Frame.n \in Nat /\ dev.sid \in Nat
      BY <1>a, <1>b DEF Requests
    <3>3. QED
      BY <3>1, <3>2, FrameTypes
  <2>2. QED
    BY <1>6, <2>1, <1>b, FrameTypes, AnswerKeepsTypes, SMTT(60) DEF DeviceMessage
<1>7. CASE DeviceBusy
  BY <1>7, <1>b, FrameTypes, AppendTypes DEF DeviceBusy
<1>8. CASE DeviceRetry
  <2>1. Refusal("NOTREADY") \in Replies /\ Refusal("NACK") \in Replies
    BY FrameTypes
  <2>2. job # <<>> => job[1] \in Replies
    BY <1>b
  <2>3. \E r \in Replies : in' = Append(in, r)
    BY <1>8, <2>1, <2>2 DEF DeviceRetry
  <2>4. in' \in Seq(Replies)
    BY <2>3, <1>b, AppendTypes
  <2>5. (job' = <<>> \/ job' = job) /\ waits' \in Nat
    BY <1>8, <1>b DEF DeviceRetry
  <2>6. job' \in Seq(Replies) /\ Len(job') <= 1
    <3>1. CASE job' = <<>>
      BY <3>1, EmptyTypes
    <3>2. CASE job' = job
      BY <3>2, <1>b
    <3>3. QED
      BY <2>5, <3>1, <3>2
  <2>7. QED
    BY <1>8, <2>4, <2>5, <2>6, <1>b DEF DeviceRetry
<1>9. QED
  BY <1>1, <1>2, <1>3, <1>4, <1>5, <1>6, <1>7, <1>8 DEF DeviceStep

LEMMA TypeOKInit == Init => TypeOK
<1> SUFFICES ASSUME Init PROVE TypeOK
  OBVIOUS
<1>1. HostTypeOK
  BY HostConstants DEF Init, HostTypeOK
<1>2. ChannelTypeOK /\ DeviceTypeOK
  BY DEF Init, ChannelTypeOK, DeviceTypeOK
<1>3. HistoryTypeOK
  <2>1. {0} \X pubkeys \subseteq Nat \X Keys
    BY DEF Init
  <2>2. QED
    BY <2>1 DEF Init, HistoryTypeOK
<1>4. QED
  BY <1>1, <1>2, <1>3 DEF TypeOK

LEMMA TypeOKStep == TypeOK /\ [Next]_vars => TypeOK'
<1> SUFFICES ASSUME TypeOK, [Next]_vars PROVE TypeOK'
  OBVIOUS
<1> USE DEF TypeOK
<1>1. CASE Unlock \/ Query \/ ShowDescriptorAddress \/ NotPaired
  BY <1>1, CallsTypeOK
<1>2. CASE HostReceive
  BY <1>2, HostReceiveTypeOK
<1>3. CASE Abandon
  BY <1>3, HostConstants DEF Abandon, HostTypeOK, ChannelTypeOK, DeviceTypeOK, HistoryTypeOK
<1>4. CASE Reconnect
  <2>1. HostTypeOK'
    BY <1>4, HostConstants DEF Reconnect, HostTypeOK
  <2>2. ChannelTypeOK' /\ HistoryTypeOK'
    BY <1>4, EmptyTypes DEF Reconnect, ChannelTypeOK, HistoryTypeOK
  <2>3. DeviceTypeOK'
    <3>1. CASE UNCHANGED <<dev, job>>
      BY <1>4, <3>1 DEF Reconnect, DeviceTypeOK
    <3>2. ASSUME NEW k \in Keys,
                 dev' = [key |-> k, stage |-> "none", sid |-> 0, nonce |-> 0], job' = <<>>
          PROVE  DeviceTypeOK'
      BY <1>4, <3>2, EmptyTypes DEF Reconnect, DeviceTypeOK
    <3>3. QED
      BY <1>4, <3>1, <3>2 DEF Reconnect
  <2>4. QED
    BY <2>1, <2>2, <2>3
<1>5. CASE DeviceStep
  BY <1>5, DeviceStepTypeOK
<1>6. CASE DeviceDropsJob
  BY <1>6 DEF DeviceDropsJob, HostTypeOK, ChannelTypeOK, DeviceTypeOK, HistoryTypeOK
<1>7. CASE UNCHANGED vars
  BY <1>7 DEF vars, HostTypeOK, ChannelTypeOK, DeviceTypeOK, HistoryTypeOK
<1>8. QED
  BY <1>1, <1>2, <1>3, <1>4, <1>5, <1>6, <1>7 DEF Next

\* Type correctness: no call leaves a variable, an interpreter state or a frame
\* that the code's types do not allow.
THEOREM TypeCorrect == Spec => []TypeOK
<1>1. QED
  BY TypeOKInit, TypeOKStep, PTL DEF Spec

-----------------------------------------------------------------------------
(* Sessions are open with trusted devices only.                            *)

LEMMA SessionPeerTrustedStep ==
  TypeOK /\ SessionPeerTrusted /\ [Next]_vars => SessionPeerTrusted'
<1> SUFFICES ASSUME TypeOK, SessionPeerTrusted, [Next]_vars
             PROVE  SessionPeerTrusted'
  OBVIOUS
<1> USE DEF SessionPeerTrusted, Paired
<1>1. CASE /\ noise'.sid = noise.sid /\ noise'.peer = noise.peer
           /\ pubkeys' = pubkeys
  BY <1>1
<1>2. CASE OnHandshake2
  BY <1>2, <1>1 DEF OnHandshake2, Finalize, NeedsVerification
<1>3. CASE OnPairingConfirm
  BY <1>3, <1>1 DEF OnPairingConfirm, Finalize
<1>4. CASE Reconnect
  BY <1>4 DEF Reconnect, NoSession
<1>5. CASE Query \/ ShowDescriptorAddress \/ OnEncryptedResponse \/ OnShowAddrFingerprint
  <2>1. noise \in Sessions
    BY DEF TypeOK, HostTypeOK
  <2>2. noise'.sid = noise.sid /\ noise'.peer = noise.peer
    BY <2>1, <1>5 DEF Sessions, Query, ShowDescriptorAddress, OnEncryptedResponse,
                      OnShowAddrFingerprint
  <2>3. pubkeys' = pubkeys
    BY <1>5 DEF Query, ShowDescriptorAddress, StartCall, OnEncryptedResponse,
                OnShowAddrFingerprint
  <2>4. QED
    BY <1>1, <2>2, <2>3
<1>6. CASE \/ Unlock \/ NotPaired \/ OnNotReady \/ OnRefused \/ OnUnlockAck
           \/ OnHandshakeInit \/ OnHandshake1 \/ OnUndecryptable
  BY <1>1, <1>6 DEF Unlock, NotPaired, StartCall, OnNotReady, OnRefused, OnUnlockAck,
                    OnHandshakeInit, OnHandshake1, OnUndecryptable
<1>7. CASE Abandon \/ DeviceDropsJob \/ UNCHANGED vars
  BY <1>1, <1>7 DEF Abandon, DeviceDropsJob, vars
<1>8. CASE DeviceStep
  <2>1. DeviceReads
    BY <1>8 DEF DeviceStep, DeviceUnlock, DeviceHandshakeInit, DeviceHandshake1, DeviceHandshake2,
                DeviceVerify, DeviceMessage, DeviceBusy, DeviceRetry, DeviceDoes
  <2>2. QED
    BY <2>1, <1>1 DEF DeviceReads
<1>9. QED
  BY <1>2, <1>3, <1>4, <1>5, <1>6, <1>7, <1>8 DEF Next, HostReceive

\* An encrypted session is only ever open with a device whose key is in the list
\* of paired devices, over any number of calls, faults and reconnections.
THEOREM SessionsAreTrusted == Spec => []SessionPeerTrusted
<1>1. Init => SessionPeerTrusted
  BY DEF Init, SessionPeerTrusted, Paired, NoSession
<1>2. QED
  BY <1>1, SessionPeerTrustedStep, TypeCorrect, PTL DEF Spec

-----------------------------------------------------------------------------
(* The two sides' nonces stay in step.                                     *)

LEMMA ElemsOfAppend ==
  ASSUME NEW S, NEW q \in Seq(S), NEW x \in S
  PROVE  Elems(Append(q, x)) = Elems(q) \cup {x}
  BY DEF Elems

LEMMA ElemsOfTail ==
  ASSUME NEW S, NEW q \in Seq(S), q # <<>>
  PROVE  Elems(Tail(q)) \subseteq Elems(q) /\ Head(q) \in Elems(q)
  BY DEF Elems

LEMMA ElemsOfShort ==
  /\ Elems(<<>>) = {}
  /\ \A x : Elems(<<x>>) = {x}
  BY DEF Elems

LEMMA DistinctAppend ==
  ASSUME NEW q \in Seq(Requests), NEW x \in Requests, DistinctHandshakes(q),
         x.op = "hs1" => \A f \in Elems(q) : f.op = "hs1" => f.sid # x.sid
  PROVE  DistinctHandshakes(Append(q, x))
<1> SUFFICES ASSUME NEW i \in 1..Len(Append(q, x)), NEW j \in 1..Len(Append(q, x)), i # j,
                    Append(q, x)[i].op = "hs1", Append(q, x)[j].op = "hs1"
             PROVE  Append(q, x)[i].sid # Append(q, x)[j].sid
  BY DEF DistinctHandshakes
<1>1. Len(Append(q, x)) = Len(q) + 1 /\ Len(q) \in Nat
  OBVIOUS
<1>2. \A k \in 1..Len(q) : Append(q, x)[k] = q[k] /\ q[k] \in Elems(q)
  BY DEF Elems
<1>3. Append(q, x)[Len(q) + 1] = x
  OBVIOUS
<1>4. QED
  BY <1>1, <1>2, <1>3 DEF DistinctHandshakes

LEMMA DistinctTail ==
  ASSUME NEW q \in Seq(Requests), q # <<>>, DistinctHandshakes(q)
  PROVE  /\ DistinctHandshakes(Tail(q))
         /\ Head(q).op = "hs1" =>
              \A f \in Elems(Tail(q)) : f.op = "hs1" => f.sid # Head(q).sid
<1>1. /\ Len(Tail(q)) = Len(q) - 1 /\ Len(q) \in Nat /\ Len(q) > 0 /\ Head(q) = q[1]
      /\ \A k \in 1..Len(Tail(q)) : Tail(q)[k] = q[k + 1]
  OBVIOUS
<1>2. \A k \in 1..Len(Tail(q)) : k + 1 \in 1..Len(q) /\ k + 1 # 1
  BY <1>1
<1>3. QED
  BY <1>1, <1>2 DEF DistinctHandshakes, Elems

\* A reply is read: fewer replies are pending.
LEMMA ReceivePending ==
  ASSUME TypeOK, Receive
  PROVE  PendingReplies' \subseteq PendingReplies /\ Reply \in PendingReplies
<1>1. in \in Seq(Replies) /\ in # <<>> /\ in' = Tail(in) /\ job' = job
  BY DEF TypeOK, ChannelTypeOK, Receive
<1>2. Elems(in') \subseteq Elems(in) /\ Reply \in Elems(in)
  BY <1>1, ElemsOfTail DEF Reply
<1>3. QED
  BY <1>1, <1>2 DEF PendingReplies

\* A step of the host that opens no session: what a frame and the state of the
\* call have to satisfy to keep the invariant.
LEMMA HostKeepsSessionInv ==
  ASSUME TypeOK, SessionInv, noise' \in Sessions, call' \in Calls, handshakes' \in Nat,
         PendingReplies' \subseteq PendingReplies, UNCHANGED <<dev, served>>,
         noise'.sid = noise.sid, noise'.send >= noise.send, noise'.recv <= served,
         Paired \/ noise'.send = noise.send,
         handshakes' = handshakes \/ handshakes' = handshakes + 1,
         \/ out' = out
         \/ \E f \in Requests :
              /\ out' = Append(out, f)
              /\ f.op = "hs1" => handshakes' = handshakes + 1 /\ f.sid = handshakes'
              /\ f.op = "hs2" => f.sid <= handshakes
              /\ f.op = "msg" => f.sid = noise.sid /\ f.n < noise'.send /\ Paired,
         \/ call'.hid \in {0, call.hid}
         \/ handshakes' = handshakes + 1 /\ call'.hid = handshakes',
         call'.st \in {"WaitHandshake2", "WaitPairingConfirm"} =>
           /\ call'.hid = call.hid
           /\ \A f \in Elems(out') : f.op = "hs1" => f.sid # call.hid,
         call'.st \in {"WaitEncryptedResponse", "ShowAddrWaitFingerprint"} => Paired
  PROVE  SessionInv'
<1> USE DEF SessionInv
<1>1. /\ noise \in Sessions /\ call \in Calls /\ handshakes \in Nat /\ out \in Seq(Requests)
      /\ served \in Nat
      /\ dev \in [key : Keys, stage : {"none", "init", "hs1", "verify", "open"},
                  sid : Nat, nonce : Nat]
      /\ PendingReplies \subseteq Replies
  <2>1. Elems(in) \subseteq Replies /\ Elems(job) \subseteq Replies
    BY SMTT(60) DEF TypeOK, ChannelTypeOK, DeviceTypeOK, Elems
  <2>2. QED
    BY <2>1 DEF TypeOK, HostTypeOK, ChannelTypeOK, DeviceTypeOK, HistoryTypeOK, PendingReplies
<1>2. Elems(out) \subseteq Requests
  BY <1>1 DEF Elems
<1>3. \A f \in Elems(out') :
        \/ f \in Elems(out)
        \/ /\ f \in Requests
           /\ f.op = "hs1" => handshakes' = handshakes + 1 /\ f.sid = handshakes'
           /\ f.op = "hs2" => f.sid <= handshakes
           /\ f.op = "msg" => f.sid = noise.sid /\ f.n < noise'.send /\ Paired
  <2>1. CASE out' = out
    BY <2>1
  <2>2. ASSUME NEW g \in Requests, out' = Append(out, g)
        PROVE  Elems(out') = Elems(out) \cup {g}
    BY <1>1, <2>2, ElemsOfAppend
  <2>3. QED
    BY <2>1, <2>2
<1>4. FreshHandshake'
  <2>1. \A f \in Elems(out') : f.op \in {"hs1", "hs2", "msg"} => f.sid <= handshakes'
    BY <1>1, <1>2, <1>3, SMTT(60) DEF FreshHandshake, Requests, Sessions
  <2>2. /\ noise'.sid <= handshakes' /\ call'.hid <= handshakes' /\ dev'.sid <= handshakes'
        /\ call'.hid # 0 => noise'.sid < call'.hid
    BY <1>1, SMTT(60) DEF FreshHandshake, Sessions, Calls
  <2>3. \A r \in PendingReplies' :
          r.sid <= handshakes' /\ (r.kind = "enc" => r.sid # 0 /\ r.sid # call'.hid)
    BY <1>1, SMTT(60) DEF FreshHandshake, Replies, Calls
  <2>4. QED
    BY <2>1, <2>2, <2>3 DEF FreshHandshake
<1>5. OneHandshake1'
  <2>1. DistinctHandshakes(out')
    <3>1. \A f \in Elems(out) : f.op = "hs1" => f.sid # handshakes + 1
      BY <1>1, <1>2 DEF FreshHandshake, Requests
    <3>2. QED
      BY <1>1, <3>1, DistinctAppend, ZenonT(90) DEF OneHandshake1
  <2>2. ASSUME NEW f \in Elems(out'), f.op = "hs1"
        PROVE  /\ f.sid \notin {0, noise'.sid, dev'.sid}
               /\ call'.st \in {"WaitHandshake2", "WaitPairingConfirm"} => f.sid # call'.hid
               /\ \A r \in PendingReplies' : r.kind = "hs1" => r.sid # f.sid
    <3>1. CASE f \in Elems(out)
      BY <2>2, <3>1, <1>1 DEF OneHandshake1
    <3>2. CASE f.sid = handshakes + 1
      BY <2>2, <3>2, <1>1, SMTT(60) DEF FreshHandshake, Sessions, Replies, Calls
    <3>3. QED
      BY <2>2, <3>1, <3>2, <1>3
  <2>3. QED
    BY <2>1, <2>2 DEF OneHandshake1
<1>6. NoncesInStep'
  <2>1. ASSUME NEW f \in Elems(out'), f.op = "msg"
        PROVE  f.sid \in 1..noise'.sid /\ (f.sid = noise'.sid => f.n < noise'.send)
    <3>1. CASE f \in Elems(out)
      BY <2>1, <3>1, <1>1, <1>2, SMTT(60) DEF NoncesInStep, Sessions, Requests
    <3>2. CASE f.sid = noise.sid /\ f.n < noise'.send /\ Paired
      BY <3>2, <1>1 DEF Paired, Sessions
    <3>3. QED
      BY <2>1, <3>1, <3>2, <1>3
  <2>2. /\ noise'.recv <= served' /\ served' <= noise'.send
        /\ noise'.sid = 0 => noise'.send = 0
    BY <1>1 DEF NoncesInStep, Paired, Sessions
  <2>3. /\ dev'.stage = "init" \/ dev'.sid = 0 => dev'.nonce = 0
        /\ dev'.sid = noise'.sid => dev'.nonce = served'
        /\ dev'.sid = call'.hid => dev'.nonce = 0
    BY <1>1 DEF NoncesInStep, FreshHandshake
  <2>4. \A r \in PendingReplies' : r.kind = "enc" /\ r.sid = noise'.sid => r.n < served'
    BY DEF NoncesInStep
  <2>5. call'.st \in {"WaitEncryptedResponse", "ShowAddrWaitFingerprint"} => Paired'
    BY DEF Paired
  <2>6. QED
    BY <2>1, <2>2, <2>3, <2>4, <2>5 DEF NoncesInStep
<1>7. QED
  BY <1>4, <1>5, <1>6


LEMMA StartCallPending ==
  ASSUME TypeOK, StartCall
  PROVE  PendingReplies' = PendingReplies /\ UNCHANGED <<dev, served, handshakes>> /\ call = NewCall
  BY DEF StartCall, PendingReplies

\* An encrypted request carries the session's next nonce.
LEMMA SendEncryptedEffect ==
  ASSUME noise \in Sessions, NEW st \in {"WaitEncryptedResponse", "ShowAddrWaitFingerprint"},
         NEW ctx \in EncryptedContext, NEW waiting \in EncryptedContext,
         SendEncrypted(st, ctx, waiting)
  PROVE  /\ call'.hid = 0 /\ call'.st \in {"New", st}
         /\ \/ out' = out
            \/ \E f \in Requests : /\ f.op = "msg" /\ f.sid = noise.sid /\ f.n = noise.send
                                  /\ out' = Append(out, f)
<1>1. CASE call' = NewCall /\ out' = out
  BY <1>1 DEF NewCall
<1>2. CASE /\ call' = [NewCall EXCEPT !.st = st, !.ctx = ctx, !.re = noise.send]
           /\ out' = Append(out, Request("msg", noise.sid, noise.send, waiting))
  <2>1. Request("msg", noise.sid, noise.send, waiting) \in Requests
    BY FrameTypes DEF Sessions
  <2>2. /\ Request("msg", noise.sid, noise.send, waiting).op = "msg"
        /\ Request("msg", noise.sid, noise.send, waiting).sid = noise.sid
        /\ Request("msg", noise.sid, noise.send, waiting).n = noise.send
    BY DEF Request
  <2>3. call'.hid = 0 /\ call'.st = st
    BY <1>2 DEF NewCall
  <2>4. QED
    BY <1>2, <2>1, <2>2, <2>3
<1>3. QED
  BY <1>1, <1>2 DEF SendEncrypted, Transmit

LEMMA CallsSessionInv ==
  ASSUME TypeOK, TypeOK', SessionInv, Unlock \/ Query \/ ShowDescriptorAddress \/ NotPaired
  PROVE  SessionInv'
<1>0. /\ StartCall /\ PendingReplies' = PendingReplies
      /\ UNCHANGED <<dev, served, handshakes>> /\ call = NewCall
  BY StartCallPending DEF Unlock, Query, ShowDescriptorAddress, NotPaired
<1>1. /\ noise \in Sessions /\ noise' \in Sessions /\ call' \in Calls /\ handshakes' \in Nat
      /\ noise.recv <= served
  BY DEF TypeOK, HostTypeOK, SessionInv, NoncesInStep
<1>2. CASE Unlock
  <2>1. /\ Request("unlock", 0, 0, NoCtx) \in Requests
        /\ Request("unlock", 0, 0, NoCtx).op = "unlock"
    BY FrameTypes DEF Request
  <2>2. /\ call'.hid = 0
        /\ call'.st \in {"New", "WaitUnlockAck"}
    BY <1>2 DEF Unlock, Transmit, NewCall
  <2>3. noise' = noise /\ \/ out' = out
                          \/ out' = Append(out, Request("unlock", 0, 0, NoCtx))
    BY <1>2 DEF Unlock, Transmit
  <2>4. QED
    BY <1>0, <1>1, <2>1, <2>2, <2>3, HostKeepsSessionInv DEF Sessions
<1>3. CASE Query \/ ShowDescriptorAddress
  <2>1. PICK st \in {"WaitEncryptedResponse", "ShowAddrWaitFingerprint"},
             ctx \in EncryptedContext, waiting \in EncryptedContext :
               SendEncrypted(st, ctx, waiting)
    <3>1. CASE Query
      BY <3>1, ContextsAssumption DEF Query
    <3>2. CASE ShowDescriptorAddress
      BY <3>2 DEF ShowDescriptorAddress, EncryptedContext
    <3>3. QED
      BY <1>3, <3>1, <3>2
  <2>2. noise' = [noise EXCEPT !.send = @ + 1] /\ Paired
    BY <1>3 DEF Query, ShowDescriptorAddress
  <2>3. /\ noise'.sid = noise.sid /\ noise'.send = noise.send + 1 /\ noise'.recv = noise.recv
        /\ noise.send \in Nat /\ noise.send < noise'.send
    BY <1>1, <2>2 DEF Sessions
  <2>4. /\ call'.hid = 0
        /\ call'.st \notin {"WaitHandshake2", "WaitPairingConfirm"}
        /\ \/ out' = out
           \/ \E f \in Requests : /\ f.op = "msg" /\ f.sid = noise.sid /\ f.n = noise.send
                                 /\ out' = Append(out, f)
    BY <1>1, <2>1, SendEncryptedEffect
  <2>5. QED
    BY <1>0, <1>1, <2>2, <2>3, <2>4, HostKeepsSessionInv
<1>4. CASE NotPaired
  <2>1. noise' = noise /\ out' = out /\ call'.hid = 0 /\ call'.st = "New"
    BY <1>4 DEF NotPaired, Return, NewCall
  <2>2. QED
    BY <1>0, <1>1, <2>1, HostKeepsSessionInv DEF Sessions
<1>5. QED
  BY <1>2, <1>3, <1>4

\* The replies that open no session.
LEMMA ReceiveSessionInv ==
  ASSUME TypeOK, TypeOK', SessionInv,
         \/ OnNotReady \/ OnRefused \/ OnUnlockAck \/ OnHandshakeInit \/ OnHandshake1
         \/ OnUndecryptable \/ OnEncryptedResponse \/ OnShowAddrFingerprint
  PROVE  SessionInv'
<1>0. /\ Receive /\ PendingReplies' \subseteq PendingReplies /\ Reply \in PendingReplies
      /\ UNCHANGED <<dev, served>>
  BY ReceivePending
  DEF OnNotReady, OnRefused, OnUnlockAck, OnHandshakeInit, OnHandshake1, OnUndecryptable,
      OnEncryptedResponse, OnShowAddrFingerprint, ReceiveAck, Receive
<1>1. /\ noise \in Sessions /\ noise' \in Sessions /\ call \in Calls /\ call' \in Calls
      /\ handshakes \in Nat /\ handshakes' \in Nat /\ noise.recv <= served
      /\ call.st \in {"WaitEncryptedResponse", "ShowAddrWaitFingerprint"} => Paired
      /\ call.hid <= handshakes
      /\ \A f \in Elems(out) : f.op = "hs1" =>
           /\ call.st \in {"WaitHandshake2", "WaitPairingConfirm"} => f.sid # call.hid
           /\ \A r \in PendingReplies : r.kind = "hs1" => r.sid # f.sid
  BY DEF TypeOK, HostTypeOK, SessionInv, NoncesInStep, FreshHandshake, OneHandshake1
<1>2. CASE out' = out /\ noise' = noise /\ handshakes' = handshakes /\ call' = NewCall
  BY <1>0, <1>1, <1>2, HostKeepsSessionInv DEF NewCall, Sessions
<1>3. CASE OnNotReady
  <2>1. Retry \in Requests /\ Retry.op = "none"
    BY FrameTypes DEF Retry
  <2>2. noise' = noise /\ handshakes' = handshakes
    BY <1>3 DEF OnNotReady
  <2>3. CASE out' = Append(out, Retry) /\ call' = call
    <3>1. \A f \in Elems(out') : f.op = "hs1" => f \in Elems(out)
      BY <2>1, <2>3, ElemsOfAppend DEF TypeOK, ChannelTypeOK
    <3>2. QED
      BY <1>0, <1>1, <2>1, <2>2, <2>3, <3>1, HostKeepsSessionInv DEF Sessions
  <2>4. QED
    BY <1>2, <1>3, <2>2, <2>3 DEF OnNotReady, Transmit
<1>4. CASE OnRefused \/ OnUndecryptable
  BY <1>2, <1>4 DEF OnRefused, OnUndecryptable, Return
<1>5. CASE OnUnlockAck
  <2> DEFINE f == Request("handshake", 0, 0, NoCtx)
  <2>1. f \in Requests /\ f.op = "handshake"
    BY FrameTypes DEF Request
  <2>2. noise' = noise /\ handshakes' = handshakes
    BY <1>5 DEF OnUnlockAck
  <2>3. CASE out' = Append(out, f) /\ call' = [NewCall EXCEPT !.st = "WaitHandshakeInit"]
    <3>1. call'.hid = 0 /\ call'.st = "WaitHandshakeInit"
      BY <2>3 DEF NewCall
    <3> HIDE DEF f
    <3>2. QED
      BY <1>0, <1>1, <2>1, <2>2, <2>3, <3>1, HostKeepsSessionInv DEF Sessions
  <2>4. QED
    BY <1>2, <1>5, <2>2, <2>3 DEF OnUnlockAck, Transmit
<1>6. CASE OnHandshakeInit
  <2> DEFINE f == Request("hs1", handshakes', 0, NoCtx)
  <2>1. noise' = noise
    BY <1>6 DEF OnHandshakeInit
  <2>2. CASE handshakes' = handshakes + 1 /\ out' = Append(out, f)
             /\ call' = [NewCall EXCEPT !.st = "WaitHandshake1", !.hid = handshakes']
    <3>1. f \in Requests /\ f.op = "hs1" /\ f.sid = handshakes'
      BY <1>1, FrameTypes DEF Request
    <3>2. call'.hid = handshakes' /\ call'.st = "WaitHandshake1"
      BY <2>2 DEF NewCall
    <3> HIDE DEF f
    <3>3. QED
      BY <1>0, <1>1, <2>1, <2>2, <3>1, <3>2, HostKeepsSessionInv DEF Sessions
  <2>3. CASE handshakes' = handshakes + 1 /\ out' = out /\ call' = NewCall
    BY <1>0, <1>1, <2>1, <2>3, HostKeepsSessionInv DEF NewCall, Sessions
  <2>4. CASE handshakes' = handshakes /\ Return(Err)
    BY <1>2, <2>1, <2>4 DEF Return
  <2>5. QED
    BY <1>6, <2>2, <2>3, <2>4 DEF OnHandshakeInit, Transmit
<1>7. CASE OnHandshake1
  <2> DEFINE f == Request("hs2", call.hid, 0, NoCtx)
  <2>1. noise' = noise /\ handshakes' = handshakes
    BY <1>7 DEF OnHandshake1
  <2>2. CASE /\ out' = Append(out, f) /\ call' = AfterHandshake1
             /\ Reply.kind = "hs1" /\ Reply.sid = call.hid
    <3>1. f \in Requests /\ f.op = "hs2" /\ f.sid = call.hid
      BY <1>1, FrameTypes DEF Request, Calls
    <3>2. call'.hid = call.hid /\ call'.st = "WaitHandshake2"
      BY <1>1, <2>2 DEF AfterHandshake1, Calls
    <3>3. \A g \in Elems(out') : g.op = "hs1" => g \in Elems(out)
      BY <2>2, <3>1, ElemsOfAppend DEF TypeOK, ChannelTypeOK
    <3>4. \A g \in Elems(out') : g.op = "hs1" => g.sid # call.hid
      BY <1>0, <1>1, <2>2, <3>3
    <3> HIDE DEF f
    <3>5. QED
      BY <1>0, <1>1, <2>1, <2>2, <3>1, <3>2, <3>4, HostKeepsSessionInv DEF Sessions
  <2>3. QED
    BY <1>2, <1>7, <2>1, <2>2 DEF OnHandshake1, Transmit, Return
<1>8. CASE OnEncryptedResponse \/ OnShowAddrFingerprint
  <2>1. /\ Paired /\ Reply.kind = "enc" /\ Reply.sid = noise.sid /\ Reply.n = noise.recv
        /\ handshakes' = handshakes
    BY <1>1, <1>8 DEF OnEncryptedResponse, OnShowAddrFingerprint, ReceiveAck, Decrypts
  <2>2. noise.recv + 1 <= served
    BY <1>0, <1>1, <2>1 DEF SessionInv, NoncesInStep, Sessions, TypeOK, HistoryTypeOK
  <2>3. CASE noise' = [noise EXCEPT !.recv = @ + 1] /\ Return(Err)
    <3>1. /\ noise'.sid = noise.sid /\ noise'.send = noise.send
          /\ noise'.recv = noise.recv + 1 /\ noise.send \in Nat
      BY <1>1, <2>3 DEF Sessions
    <3>2. QED
      BY <1>0, <1>1, <2>1, <2>2, <2>3, <3>1, HostKeepsSessionInv DEF Return, NewCall
  <2>4. CASE /\ noise' = [noise EXCEPT !.recv = @ + 1]
             /\ Return([status |-> "ok", n |-> Reply.n, re |-> call.re])
    <3>1. /\ noise'.sid = noise.sid /\ noise'.send = noise.send
          /\ noise'.recv = noise.recv + 1 /\ noise.send \in Nat
      BY <1>1, <2>4 DEF Sessions
    <3>2. QED
      BY <1>0, <1>1, <2>1, <2>2, <2>4, <3>1, HostKeepsSessionInv DEF Return, NewCall
  <2>5. CASE /\ noise' = [noise EXCEPT !.send = @ + 1, !.recv = @ + 1]
             /\ SendEncrypted("WaitEncryptedResponse", "Address", "Address")
    <3>1. /\ noise'.sid = noise.sid /\ noise'.send = noise.send + 1
          /\ noise'.recv = noise.recv + 1 /\ noise.send \in Nat /\ noise.send < noise'.send
      BY <1>1, <2>5 DEF Sessions
    <3>2. "Address" \in EncryptedContext
      BY DEF EncryptedContext
    <3>3. /\ call'.hid = 0 /\ call'.st \notin {"WaitHandshake2", "WaitPairingConfirm"}
          /\ \/ out' = out
             \/ \E f \in Requests : /\ f.op = "msg" /\ f.sid = noise.sid /\ f.n = noise.send
                                   /\ out' = Append(out, f)
      BY <1>1, <2>5, <3>2, SendEncryptedEffect
    <3>4. QED
      BY <1>0, <1>1, <2>1, <2>2, <3>1, <3>3, HostKeepsSessionInv
  <2>6. QED
    BY <1>8, <2>3, <2>4, <2>5 DEF OnEncryptedResponse, OnShowAddrFingerprint
<1>9. QED
  BY <1>3, <1>4, <1>5, <1>6, <1>7, <1>8


\* A handshake becomes the session: nothing of it has been encrypted yet.
LEMMA FinalizeSessionInv ==
  ASSUME TypeOK, TypeOK', SessionInv, Receive, NEW code, Finalize(code),
         call.st \in {"WaitHandshake2", "WaitPairingConfirm"},
         out' = out, handshakes' = handshakes, call' = NewCall
  PROVE  SessionInv'
<1>1. /\ noise \in Sessions /\ call \in Calls /\ handshakes \in Nat /\ call.hid # 0
      /\ call.hid \in Nat /\ out \in Seq(Requests)
      /\ dev \in [key : Keys, stage : {"none", "init", "hs1", "verify", "open"},
                  sid : Nat, nonce : Nat]
  BY DEF TypeOK, HostTypeOK, ChannelTypeOK, DeviceTypeOK, Calls
<1>2. /\ noise'.sid = call.hid /\ noise'.send = 0 /\ noise'.recv = 0 /\ served' = 0
      /\ call'.hid = 0 /\ call'.st = "New" /\ dev' = dev
  BY DEF Finalize, NewCall, Receive
<1>3. PendingReplies' \subseteq PendingReplies
  BY ReceivePending
<1>4. FreshHandshake'
  BY <1>1, <1>2, <1>3 DEF SessionInv, FreshHandshake
<1>5. OneHandshake1'
  BY <1>1, <1>2, <1>3 DEF SessionInv, OneHandshake1
<1>6. NoncesInStep'
  <2>1. \A f \in Elems(out) : f.op = "msg" => f.sid \in 1..call.hid /\ f.sid # call.hid
    BY <1>1 DEF SessionInv, NoncesInStep, FreshHandshake, Sessions
  <2>2. \A r \in PendingReplies : r.kind = "enc" => r.sid # call.hid
    BY DEF SessionInv, FreshHandshake
  <2>3. /\ dev.sid = call.hid => dev.nonce = 0
        /\ dev.stage = "init" \/ dev.sid = 0 => dev.nonce = 0
    BY DEF SessionInv, NoncesInStep
  <2>4. QED
    BY <1>1, <1>2, <1>3, <2>1, <2>2, <2>3 DEF NoncesInStep
<1>7. QED
  BY <1>4, <1>5, <1>6 DEF SessionInv

LEMMA HandshakeEndSessionInv ==
  ASSUME TypeOK, TypeOK', SessionInv, OnHandshake2 \/ OnPairingConfirm
  PROVE  SessionInv'
<1>0. /\ Receive /\ PendingReplies' \subseteq PendingReplies /\ handshakes' = handshakes
      /\ UNCHANGED dev /\ call.st \in {"WaitHandshake2", "WaitPairingConfirm"}
  BY ReceivePending DEF OnHandshake2, OnPairingConfirm, ReceiveAck, Receive
<1>1. /\ noise \in Sessions /\ noise' \in Sessions /\ call \in Calls /\ call' \in Calls
      /\ handshakes \in Nat /\ noise.recv <= served
      /\ \A f \in Elems(out) : f.op = "hs1" => f.sid # call.hid
  BY <1>0 DEF TypeOK, HostTypeOK, SessionInv, NoncesInStep, FreshHandshake, OneHandshake1
<1>2. CASE Finalize(FALSE) /\ Return(TaskDone)
  BY <1>0, <1>2, FinalizeSessionInv DEF Return
<1>3. CASE Finalize(TRUE) /\ Return(TaskDone)
  BY <1>0, <1>3, FinalizeSessionInv DEF Return
<1>4. CASE Return(Err) /\ UNCHANGED <<noise, served>>
  BY <1>0, <1>1, <1>4, HostKeepsSessionInv DEF Return, NewCall, Sessions
<1>5. CASE /\ Transmit(Request("verify", 0, 0, NoCtx), [call EXCEPT !.st = "WaitPairingConfirm"])
           /\ UNCHANGED <<noise, served>>
  <2>1. CASE out' = out /\ call' = NewCall
    BY <1>0, <1>1, <1>5, <2>1, HostKeepsSessionInv DEF NewCall, Sessions
  <2>2. CASE /\ out' = Append(out, Request("verify", 0, 0, NoCtx))
             /\ call' = [call EXCEPT !.st = "WaitPairingConfirm"]
    <3> DEFINE f == Request("verify", 0, 0, NoCtx)
    <3>1. f \in Requests /\ f.op = "verify"
      BY FrameTypes DEF Request
    <3>2. call'.hid = call.hid /\ call'.st = "WaitPairingConfirm"
      BY <1>1, <2>2 DEF Calls
    <3>3. \A g \in Elems(out') : g.op = "hs1" => g \in Elems(out)
      BY <2>2, <3>1, ElemsOfAppend DEF TypeOK, ChannelTypeOK
    <3> HIDE DEF f
    <3>4. out' = Append(out, f)
      BY <2>2 DEF f
    <3>5. QED
      BY <1>0, <1>1, <1>5, <3>1, <3>2, <3>3, <3>4, HostKeepsSessionInv DEF Sessions
  <2>3. QED
    BY <1>5, <2>1, <2>2 DEF Transmit
<1>6. QED
  BY <1>2, <1>3, <1>4, <1>5 DEF OnHandshake2, OnPairingConfirm

LEMMA InterruptSessionInv ==
  ASSUME TypeOK, TypeOK', SessionInv, Abandon \/ Reconnect \/ DeviceDropsJob
  PROVE  SessionInv'
<1>1. /\ noise \in Sessions /\ call \in Calls /\ handshakes \in Nat /\ noise.recv <= served
  BY DEF TypeOK, HostTypeOK, SessionInv, NoncesInStep
<1>2. CASE Abandon
  BY <1>1, <1>2, HostKeepsSessionInv DEF Abandon, PendingReplies, NewCall, Sessions, TypeOK, HostTypeOK
<1>3. CASE DeviceDropsJob
  <2>1. PendingReplies' \subseteq PendingReplies
    BY <1>3, ElemsOfShort DEF DeviceDropsJob, PendingReplies
  <2>2. QED
    BY <1>3, <2>1 DEF DeviceDropsJob, SessionInv, FreshHandshake, OneHandshake1, NoncesInStep, Paired
<1>4. CASE Reconnect
  <2>1. /\ Elems(out') = {} /\ DistinctHandshakes(out') /\ PendingReplies' \subseteq PendingReplies
    BY <1>4, ElemsOfShort DEF Reconnect, PendingReplies, DistinctHandshakes
  <2>2. /\ noise'.sid = 0 /\ noise'.send = 0 /\ noise'.recv = 0 /\ served' = 0
        /\ call' = call /\ call.hid = 0 /\ call.st = "New" /\ handshakes' = handshakes
    BY <1>4 DEF Reconnect, NoSession, NewCall
  <2>3. dev' = dev \/ (dev'.sid = 0 /\ dev'.nonce = 0)
    BY <1>4 DEF Reconnect
  <2>4. FreshHandshake'
    BY <1>1, <2>1, <2>2, <2>3 DEF SessionInv, FreshHandshake
  <2>5. OneHandshake1'
    BY <2>1 DEF OneHandshake1
  <2>6. NoncesInStep'
    <3>1. \A r \in PendingReplies' : r.kind = "enc" => r.sid # 0
      BY <2>1 DEF SessionInv, FreshHandshake
    <3>2. /\ dev'.stage = "init" \/ dev'.sid = 0 => dev'.nonce = 0
      BY <2>3 DEF SessionInv, NoncesInStep
    <3>3. QED
      BY <2>1, <2>2, <3>1, <3>2 DEF NoncesInStep
  <2>7. QED
    BY <2>4, <2>5, <2>6 DEF SessionInv
<1>5. QED
  BY <1>2, <1>3, <1>4


\* What the device puts into the channel.
LEMMA AnswerPending ==
  ASSUME TypeOK, NEW r \in Replies, Answer(r)
  PROVE  PendingReplies' \subseteq PendingReplies \cup {r, Refusal("NOTREADY")}
<1>1. in \in Seq(Replies) /\ Refusal("NOTREADY") \in Replies
  BY FrameTypes DEF TypeOK, ChannelTypeOK
<1>2. CASE in' = Append(in, r) /\ job' = job
  BY <1>1, <1>2, ElemsOfAppend DEF PendingReplies
<1>3. CASE job' = <<r>> /\ in' = Append(in, Refusal("NOTREADY"))
  BY <1>1, <1>3, ElemsOfAppend, ElemsOfShort DEF PendingReplies
<1>4. QED
  BY <1>2, <1>3 DEF Answer

\* A request that neither starts a handshake nor is executed: the device's
\* session stays or is dropped, and the reply is no answer of a session.
LEMMA DeviceKeepsSessionInv ==
  ASSUME TypeOK, SessionInv, DeviceReads, served' = served,
         \A r \in PendingReplies' :
           r \in PendingReplies \/ (r.kind \notin {"enc", "hs1"} /\ r.sid <= handshakes),
         \/ dev'.sid = dev.sid /\ dev'.nonce = dev.nonce /\ (dev'.stage = "init" => dev.nonce = 0)
         \/ dev'.sid = 0 /\ dev'.nonce = 0
  PROVE  SessionInv'
<1>1. /\ out \in Seq(Requests) /\ out # <<>> /\ out' = Tail(out)
      /\ UNCHANGED <<noise, call, handshakes>>
      /\ noise \in Sessions /\ call \in Calls /\ handshakes \in Nat /\ served \in Nat
  BY DEF TypeOK, ChannelTypeOK, HostTypeOK, HistoryTypeOK, DeviceReads
<1>2. Elems(out') \subseteq Elems(out) /\ DistinctHandshakes(out')
  BY <1>1, ElemsOfTail, DistinctTail DEF SessionInv, OneHandshake1
<1>3. FreshHandshake'
  BY <1>1, <1>2 DEF SessionInv, FreshHandshake
<1>4. OneHandshake1'
  BY <1>1, <1>2 DEF SessionInv, OneHandshake1
<1>5. NoncesInStep'
  <2>1. noise.sid = 0 => served = 0
    BY <1>1 DEF SessionInv, NoncesInStep, Sessions
  <2>2. QED
    BY <1>1, <1>2, <2>1 DEF SessionInv, NoncesInStep, Paired
<1>6. QED
  BY <1>3, <1>4, <1>5 DEF SessionInv

LEMMA DeviceStepSessionInv ==
  ASSUME TypeOK, TypeOK', SessionInv, DeviceStep
  PROVE  SessionInv'
<1>0. /\ DeviceReads
      /\ out \in Seq(Requests) /\ out # <<>> /\ out' = Tail(out)
      /\ Frame \in Requests /\ Frame \in Elems(out)
      /\ UNCHANGED <<noise, call, handshakes>>
      /\ noise \in Sessions /\ call \in Calls /\ handshakes \in Nat /\ served \in Nat
      /\ dev \in [key : Keys, stage : {"none", "init", "hs1", "verify", "open"},
                  sid : Nat, nonce : Nat]
  <2>1. DeviceReads
    BY DEF DeviceStep, DeviceUnlock, DeviceHandshakeInit, DeviceHandshake1, DeviceHandshake2,
           DeviceVerify, DeviceMessage, DeviceBusy, DeviceRetry, DeviceDoes
  <2>2. out \in Seq(Requests) /\ out # <<>> /\ out' = Tail(out) /\ Frame \in Requests
    BY <2>1, DeviceReadsTypes DEF TypeOK, ChannelTypeOK, DeviceReads
  <2>3. Frame \in Elems(out)
    BY <2>2, ElemsOfTail DEF Frame
  <2>4. QED
    BY <2>1, <2>2, <2>3 DEF DeviceReads, TypeOK, HostTypeOK, DeviceTypeOK, HistoryTypeOK
<1>1. /\ dev.stage = "init" \/ dev.sid = 0 => dev.nonce = 0
      /\ dev.sid <= handshakes
  BY DEF SessionInv, NoncesInStep, FreshHandshake
<1>2. \A hww : Refusal(hww).kind = "none" /\ Refusal(hww).sid = 0
  BY DEF Refusal
<1>3. \A kind : Status(kind).kind = kind /\ Status(kind).sid = 0
  BY DEF Status, Refusal
<1>4. ASSUME NEW kind \in {"status", "failure"}, Answer(Status(kind))
      PROVE  \A r \in PendingReplies' :
               r \in PendingReplies \/ (r.kind \notin {"enc", "hs1"} /\ r.sid <= handshakes)
  <2>1. Status(kind) \in Replies
    BY FrameTypes
  <2>2. QED
    BY <1>0, <1>2, <1>3, <1>4, <2>1, AnswerPending
<1>5. CASE DeviceUnlock
  BY <1>0, <1>1, <1>4, <1>5, DeviceKeepsSessionInv DEF DeviceUnlock
<1>6. CASE DeviceHandshakeInit
  <2>1. CASE dev' = [dev EXCEPT !.stage = "init", !.sid = 0, !.nonce = 0]
    <3>1. dev'.sid = 0 /\ dev'.nonce = 0
      BY <1>0, <2>1
    <3>2. QED
      BY <1>0, <1>4, <1>6, <3>1, DeviceKeepsSessionInv DEF DeviceHandshakeInit
  <2>2. CASE dev' = dev
    BY <1>0, <1>1, <1>4, <1>6, <2>2, DeviceKeepsSessionInv DEF DeviceHandshakeInit
  <2>3. QED
    BY <1>6, <2>1, <2>2 DEF DeviceHandshakeInit
<1>7. CASE DeviceHandshake2
  <2>1. CASE dev' = dev /\ Answer(Status("failure"))
    BY <1>0, <1>1, <1>4, <1>7, <2>1, DeviceKeepsSessionInv DEF DeviceHandshake2
  <2>2. ASSUME NEW verify \in BOOLEAN,
               dev' = [dev EXCEPT !.stage = IF verify THEN "verify" ELSE "open"],
               Answer(HandshakeReply2(dev.sid, verify))
        PROVE  SessionInv'
    <3>1. HandshakeReply2(dev.sid, verify) \in Replies
      BY <1>0, FrameTypes
    <3>2. /\ HandshakeReply2(dev.sid, verify).kind = "hs2"
          /\ HandshakeReply2(dev.sid, verify).sid = dev.sid
      BY DEF HandshakeReply2, Status, Refusal
    <3>3. \A r \in PendingReplies' :
            r \in PendingReplies \/ (r.kind \notin {"enc", "hs1"} /\ r.sid <= handshakes)
      BY <1>0, <1>1, <1>2, <2>2, <3>1, <3>2, AnswerPending
    <3>4. dev'.sid = dev.sid /\ dev'.nonce = dev.nonce /\ dev'.stage # "init"
      BY <1>0, <2>2
    <3>5. QED
      BY <1>0, <1>7, <3>3, <3>4, DeviceKeepsSessionInv DEF DeviceHandshake2
  <2>3. QED
    BY <1>7, <2>1, <2>2 DEF DeviceHandshake2
<1>8. CASE DeviceVerify
  <2>1. \/ dev'.sid = dev.sid /\ dev'.nonce = dev.nonce /\ (dev'.stage = "init" => dev.nonce = 0)
        \/ dev'.sid = 0 /\ dev'.nonce = 0
    <3>1. CASE dev' = dev
      BY <1>1, <3>1
    <3>2. CASE dev' = [dev EXCEPT !.stage = "open"]
      BY <1>0, <3>2
    <3>3. CASE dev' = [dev EXCEPT !.stage = "none", !.sid = 0, !.nonce = 0]
      BY <1>0, <3>3
    <3>4. QED
      BY <1>8, <3>1, <3>2, <3>3 DEF DeviceVerify
  <2>2. QED
    BY <1>0, <1>4, <1>8, <2>1, DeviceKeepsSessionInv DEF DeviceVerify
<1>9. CASE DeviceBusy
  <2>1. PendingReplies' = PendingReplies \cup {Refusal("BUSY")}
    BY <1>9, FrameTypes, ElemsOfAppend DEF DeviceBusy, PendingReplies, TypeOK, ChannelTypeOK
  <2>2. QED
    BY <1>0, <1>1, <1>2, <1>9, <2>1, DeviceKeepsSessionInv DEF DeviceBusy
<1>10. CASE DeviceRetry
  <2>1. \A r \in Replies : in' = Append(in, r) => Elems(in') = Elems(in) \cup {r}
    BY ElemsOfAppend DEF TypeOK, ChannelTypeOK
  <2>2. \A r \in PendingReplies' : r \in PendingReplies \/ (r.kind = "none" /\ r.sid = 0)
    <3>1. CASE job # <<>> /\ in' = Append(in, job[1]) /\ job' = <<>>
      <4>1. job[1] \in Elems(job) /\ job[1] \in Replies
        BY <3>1 DEF Elems, TypeOK, DeviceTypeOK
      <4>2. Elems(in') = Elems(in) \cup {job[1]} /\ Elems(job') = {}
        BY <2>1, <3>1, <4>1, ElemsOfShort
      <4>3. PendingReplies' = Elems(in') \cup Elems(job')
        BY DEF PendingReplies
      <4>4. QED
        BY <4>1, <4>2, <4>3 DEF PendingReplies
    <3>2. CASE in' = Append(in, Refusal("NOTREADY")) /\ job' = job
      <4>1. Elems(in') = Elems(in) \cup {Refusal("NOTREADY")}
        BY <2>1, <3>2, FrameTypes
      <4>2. PendingReplies' = Elems(in') \cup Elems(job)
        BY <3>2 DEF PendingReplies
      <4>3. QED
        BY <1>2, <4>1, <4>2 DEF PendingReplies
    <3>3. CASE in' = Append(in, Refusal("NACK")) /\ job' = job
      <4>1. Elems(in') = Elems(in) \cup {Refusal("NACK")}
        BY <2>1, <3>3, FrameTypes
      <4>2. PendingReplies' = Elems(in') \cup Elems(job)
        BY <3>3 DEF PendingReplies
      <4>3. QED
        BY <1>2, <4>1, <4>2 DEF PendingReplies
    <3>4. QED
      BY <1>10, <3>1, <3>2, <3>3 DEF DeviceRetry
  <2>3. QED
    BY <1>0, <1>1, <1>10, <2>2, DeviceKeepsSessionInv DEF DeviceRetry
<1>11. CASE DeviceHandshake1
  <2>1. CASE dev' = dev /\ Answer(Status("failure"))
    BY <1>0, <1>1, <1>4, <1>11, <2>1, DeviceKeepsSessionInv DEF DeviceHandshake1
  <2>2. CASE /\ dev.stage = "init"
             /\ dev' = [dev EXCEPT !.stage = "hs1", !.sid = Frame.sid]
             /\ Answer(HandshakeReply1(Frame.sid, dev.key))
    <3> DEFINE answer == HandshakeReply1(Frame.sid, dev.key)
    <3>1. answer \in Replies /\ answer.kind = "hs1" /\ answer.sid = Frame.sid
      BY <1>0, FrameTypes DEF HandshakeReply1, Status, Refusal, Requests
    <3>2. PendingReplies' \subseteq PendingReplies \cup {answer, Refusal("NOTREADY")}
      BY <2>2, <3>1, AnswerPending
    <3> HIDE DEF answer
    <3>3. /\ Frame.op = "hs1" /\ Frame.sid \in Nat /\ Frame.sid <= handshakes
          /\ Frame.sid \notin {0, noise.sid, dev.sid}
          /\ Elems(out') \subseteq Elems(out) /\ DistinctHandshakes(out')
          /\ \A f \in Elems(out') : f.op = "hs1" => f.sid # Frame.sid
      BY <1>0, <1>11, ElemsOfTail, DistinctTail
      DEF SessionInv, FreshHandshake, OneHandshake1, DeviceHandshake1, DeviceDoes, Frame, Requests
    <3>4. dev'.sid = Frame.sid /\ dev'.nonce = dev.nonce /\ dev'.stage = "hs1" /\ dev.nonce = 0
      BY <1>0, <1>1, <2>2
    <3>5. served' = served
      BY <1>11 DEF DeviceHandshake1
    <3>6. FreshHandshake'
      <4>1. \A r \in PendingReplies' :
              r.sid <= handshakes /\ (r.kind = "enc" => r.sid # 0 /\ r.sid # call.hid)
        BY <1>0, <1>2, <3>1, <3>2, <3>3 DEF SessionInv, FreshHandshake
      <4>2. QED
        BY <1>0, <3>3, <3>4, <4>1 DEF SessionInv, FreshHandshake
    <3>7. OneHandshake1'
      <4>1. ASSUME NEW f \in Elems(out'), f.op = "hs1"
            PROVE  \A r \in PendingReplies' : r.kind = "hs1" => r.sid # f.sid
        BY <1>2, <3>1, <3>2, <3>3, <4>1 DEF SessionInv, OneHandshake1
      <4>2. ASSUME NEW f \in Elems(out'), f.op = "hs1"
            PROVE  /\ f.sid \notin {0, noise'.sid, dev'.sid}
                   /\ call'.st \in {"WaitHandshake2", "WaitPairingConfirm"} => f.sid # call'.hid
        BY <1>0, <3>3, <3>4, <4>2 DEF SessionInv, OneHandshake1
      <4>3. QED
        BY <3>3, <4>1, <4>2 DEF OneHandshake1
    <3>8. NoncesInStep'
      <4>1. \A r \in PendingReplies' : r.kind = "enc" => r \in PendingReplies
        BY <1>2, <3>1, <3>2
      <4>2. QED
        BY <1>0, <3>3, <3>4, <3>5, <4>1 DEF SessionInv, NoncesInStep, Paired
    <3>9. QED
      BY <3>6, <3>7, <3>8 DEF SessionInv
  <2>3. QED
    BY <1>11, <2>1, <2>2 DEF DeviceHandshake1
<1>12. CASE DeviceMessage
  <2>1. CASE dev' = dev /\ served' = served /\ Answer(Status("failure"))
    BY <1>0, <1>1, <1>4, <1>12, <2>1, DeviceKeepsSessionInv DEF DeviceMessage
  <2>2. ASSUME Frame.op = "msg", dev.stage = "open", Frame.sid = dev.sid, Frame.n = dev.nonce,
               dev' = [dev EXCEPT !.nonce = @ + 1],
               served' = IF dev.sid = noise.sid THEN served + 1 ELSE served,
               NEW typ \in ResponseTypes, Answer(Ciphertext(dev.sid, Frame.n, typ))
        PROVE  SessionInv'
    <3> DEFINE answer == Ciphertext(dev.sid, Frame.n, typ)
    <3>1. /\ answer \in Replies /\ answer.kind = "enc" /\ answer.sid = dev.sid
          /\ answer.n = dev.nonce
      BY <1>0, <2>2, FrameTypes DEF Ciphertext, Status, Refusal, Requests
    <3>2. PendingReplies' \subseteq PendingReplies \cup {answer, Refusal("NOTREADY")}
      BY <2>2, <3>1, AnswerPending
    <3> HIDE DEF answer
    <3>3. /\ dev.sid \in 1..noise.sid
          /\ dev.sid = noise.sid => dev.nonce < noise.send /\ dev.nonce = served
      BY <1>0, <2>2 DEF SessionInv, NoncesInStep
    <3>4. Elems(out') \subseteq Elems(out) /\ DistinctHandshakes(out')
      BY <1>0, ElemsOfTail, DistinctTail DEF SessionInv, OneHandshake1
    <3>5. dev'.sid = dev.sid /\ dev'.nonce = dev.nonce + 1 /\ dev'.stage = "open"
      BY <1>0, <2>2
    <3>6. /\ dev.sid # 0 /\ dev.sid # call.hid /\ dev.nonce \in Nat /\ noise.sid \in Nat
      BY <1>0, <3>3 DEF SessionInv, FreshHandshake, Calls, Sessions
    <3>7. FreshHandshake'
      BY <1>0, <1>1, <1>2, <3>1, <3>2, <3>4, <3>5, <3>6, SMTT(60) DEF SessionInv, FreshHandshake
    <3>8. OneHandshake1'
      BY <1>0, <1>2, <3>1, <3>2, <3>4, <3>5 DEF SessionInv, OneHandshake1
    <3>9. NoncesInStep'
      <4>1. /\ noise.recv <= served' /\ served' <= noise.send
            /\ dev'.sid = noise.sid => dev'.nonce = served'
            /\ served <= served'
        BY <1>0, <2>2, <3>3, <3>5, <3>6 DEF SessionInv, NoncesInStep, Sessions
      <4>2. \A r \in PendingReplies' : r.kind = "enc" /\ r.sid = noise.sid => r.n < served'
        <5>1. \A r \in PendingReplies : r \in Replies
          BY SMTT(60) DEF PendingReplies, Elems, TypeOK, ChannelTypeOK, DeviceTypeOK
        <5>2. ASSUME NEW r \in PendingReplies, r.kind = "enc", r.sid = noise.sid
              PROVE  r.n < served'
          <6>1. r.n < served /\ r.n \in Nat /\ served' \in Nat
            BY <5>1, <5>2 DEF SessionInv, NoncesInStep, Replies, TypeOK, HistoryTypeOK
          <6>2. QED
            BY <1>0, <4>1, <6>1
        <5>3. dev.sid = noise.sid => dev.nonce < served'
          BY <1>0, <2>2, <3>3, <3>6
        <5>4. QED
          BY <1>2, <3>1, <3>2, <5>2, <5>3
      <4>3. QED
        BY <1>0, <3>4, <3>5, <3>6, <4>1, <4>2 DEF SessionInv, NoncesInStep, Paired
    <3>10. QED
      BY <3>7, <3>8, <3>9 DEF SessionInv
  <2>3. {AnswerTo(Frame.ctx), "Error"} \subseteq ResponseTypes
    BY AnswerTypes DEF ResponseTypes
  <2>4. QED
    BY <1>12, <2>1, <2>2, <2>3 DEF DeviceMessage, DeviceDoes
<1>13. QED
  BY <1>5, <1>6, <1>7, <1>8, <1>9, <1>10, <1>11, <1>12 DEF DeviceStep


LEMMA SessionInvInit == Init => SessionInv
<1> SUFFICES ASSUME Init PROVE SessionInv
  OBVIOUS
<1>1. Elems(out) = {} /\ PendingReplies = {} /\ DistinctHandshakes(out)
  BY ElemsOfShort DEF Init, PendingReplies, DistinctHandshakes
<1>2. /\ noise.sid = 0 /\ noise.send = 0 /\ noise.recv = 0 /\ call.hid = 0 /\ call.st = "New"
      /\ dev.sid = 0 /\ dev.nonce = 0 /\ handshakes = 0 /\ served = 0
  BY DEF Init, NoSession, NewCall
<1>3. QED
  BY <1>1, <1>2 DEF SessionInv, FreshHandshake, OneHandshake1, NoncesInStep

LEMMA SessionInvStep == TypeOK /\ SessionInv /\ [Next]_vars => SessionInv'
<1> SUFFICES ASSUME TypeOK, SessionInv, [Next]_vars PROVE SessionInv'
  OBVIOUS
<1>1. TypeOK'
  BY TypeOKStep
<1>2. CASE Unlock \/ Query \/ ShowDescriptorAddress \/ NotPaired
  BY <1>1, <1>2, CallsSessionInv
<1>3. CASE HostReceive
  BY <1>1, <1>3, ReceiveSessionInv, HandshakeEndSessionInv DEF HostReceive
<1>4. CASE Abandon \/ Reconnect \/ DeviceDropsJob
  BY <1>1, <1>4, InterruptSessionInv
<1>5. CASE DeviceStep
  BY <1>1, <1>5, DeviceStepSessionInv
<1>6. CASE UNCHANGED vars
  BY <1>6 DEF vars, SessionInv, FreshHandshake, OneHandshake1, NoncesInStep, PendingReplies, Paired
<1>7. QED
  BY <1>2, <1>3, <1>4, <1>5, <1>6 DEF Next

\* Handshake numbers are never reused and the nonces of the two sides count the
\* same messages: the invariant the refinement rests on.
THEOREM SessionInvariant == Spec => []SessionInv
<1>1. QED
  BY SessionInvInit, SessionInvStep, TypeCorrect, PTL DEF Spec

\* Every step of the session is a step of the abstract specification: a session
\* opened, a request sent, a request executed, an answer accepted.
LEMMA OrderedStep ==
  TypeOK /\ SessionInv /\ [Next]_vars => [Ordered!Next]_(Ordered!vars)
<1> SUFFICES ASSUME TypeOK, SessionInv, [Next]_vars
             PROVE  Ordered!Next \/ UNCHANGED <<noise.send, served, noise.recv>>
  BY DEF Ordered!vars
<1>0. noise \in Sessions /\ served \in Nat
  BY DEF TypeOK, HostTypeOK, HistoryTypeOK
<1>1. CASE noise' = noise /\ served' = served
  BY <1>1
<1>2. CASE Query \/ ShowDescriptorAddress
  <2>1. noise'.send = noise.send + 1 /\ noise'.recv = noise.recv /\ served' = served
    BY <1>0, <1>2 DEF Query, ShowDescriptorAddress, StartCall, Sessions
  <2>2. QED
    BY <2>1 DEF Ordered!Next, Ordered!Send
<1>3. CASE OnHandshake2 \/ OnPairingConfirm
  <2>1. CASE \E code \in BOOLEAN : Finalize(code)
    BY <2>1 DEF Finalize, Ordered!Next, Ordered!Open
  <2>2. QED
    BY <1>1, <1>3, <2>1 DEF OnHandshake2, OnPairingConfirm
<1>4. CASE OnEncryptedResponse \/ OnShowAddrFingerprint
  <2>1. noise.recv < served /\ served' = served
    <3>1. /\ Receive /\ Decrypts /\ Paired
      BY <1>4 DEF OnEncryptedResponse, OnShowAddrFingerprint, ReceiveAck, SessionInv, NoncesInStep
    <3>2. Reply \in PendingReplies
      BY <3>1, ReceivePending
    <3>3. QED
      BY <1>4, <3>1, <3>2 DEF Decrypts, SessionInv, NoncesInStep, OnEncryptedResponse,
                              OnShowAddrFingerprint
  <2>2. CASE noise' = [noise EXCEPT !.recv = @ + 1]
    BY <1>0, <2>1, <2>2 DEF Sessions, Ordered!Next, Ordered!Accept
  <2>3. CASE noise' = [noise EXCEPT !.send = @ + 1, !.recv = @ + 1]
    BY <1>0, <2>1, <2>3 DEF Sessions, Ordered!Next, Ordered!AcceptAndSend
  <2>4. QED
    BY <1>4, <2>2, <2>3 DEF OnEncryptedResponse, OnShowAddrFingerprint
<1>5. CASE Reconnect
  BY <1>5 DEF Reconnect, NoSession, Ordered!Next, Ordered!Open
<1>6. CASE DeviceMessage
  <2>1. noise' = noise
    BY <1>6 DEF DeviceMessage, DeviceDoes, DeviceReads
  <2>2. CASE /\ Frame.op = "msg" /\ Frame.sid = dev.sid /\ Frame.n = dev.nonce
             /\ dev.sid = noise.sid /\ served' = served + 1
    <3>1. Frame \in Elems(out)
      BY <1>6, ElemsOfTail DEF DeviceMessage, DeviceDoes, DeviceReads, Frame, TypeOK, ChannelTypeOK
    <3>2. served < noise.send
      BY <2>2, <3>1 DEF SessionInv, NoncesInStep
    <3>3. QED
      BY <2>1, <2>2, <3>2 DEF Ordered!Next, Ordered!Serve
  <2>3. QED
    BY <1>1, <1>6, <2>1, <2>2 DEF DeviceMessage, DeviceDoes
<1>7. CASE \/ DeviceUnlock \/ DeviceHandshakeInit \/ DeviceHandshake1 \/ DeviceHandshake2
           \/ DeviceVerify \/ DeviceBusy \/ DeviceRetry
  BY <1>1, <1>7 DEF DeviceUnlock, DeviceHandshakeInit, DeviceHandshake1, DeviceHandshake2,
                    DeviceVerify, DeviceBusy, DeviceRetry, DeviceDoes, DeviceReads
<1>8. CASE \/ Unlock \/ NotPaired \/ OnNotReady \/ OnRefused \/ OnUnlockAck \/ OnHandshakeInit
           \/ OnHandshake1 \/ OnUndecryptable
  BY <1>1, <1>8 DEF Unlock, NotPaired, StartCall, OnNotReady, OnRefused, OnUnlockAck,
                    OnHandshakeInit, OnHandshake1, OnUndecryptable
<1>9. CASE Abandon \/ DeviceDropsJob \/ UNCHANGED vars
  BY <1>1, <1>9 DEF Abandon, DeviceDropsJob, vars
<1>10. QED
  BY <1>2, <1>3, <1>4, <1>5, <1>6, <1>7, <1>8, <1>9 DEF Next, HostReceive, DeviceStep

\* The session implements OrderedCalls: whatever is abandoned, refused, retried
\* or lost, requests are executed in the order they were encrypted and at most
\* once, and the answers the host accepts are theirs, in that order.
THEOREM SessionIsOrdered == Spec => OrderedCallsSpec
<1>1. Init => Ordered!Init
  BY DEF Init, NoSession, Ordered!Init
<1>2. QED
  BY <1>1, OrderedStep, TypeCorrect, SessionInvariant, PTL
  DEF Spec, OrderedCallsSpec, Ordered!Spec


-----------------------------------------------------------------------------
(* Nobody but the user vouches for a device.                               *)

LEMMA AppendAt ==
  ASSUME NEW S, NEW q \in Seq(S), NEW x \in S
  PROVE  /\ Len(Append(q, x)) = Len(q) + 1 /\ Len(q) \in Nat
         /\ \A i \in 1..Len(q) : Append(q, x)[i] = q[i]
         /\ Append(q, x)[Len(q) + 1] = x
  OBVIOUS

LEMMA TailAt ==
  ASSUME NEW S, NEW q \in Seq(S), q # <<>>
  PROVE  /\ Len(Tail(q)) = Len(q) - 1 /\ Len(q) \in Nat /\ Len(q) > 0 /\ Head(q) = q[1]
         /\ \A i \in 1..Len(Tail(q)) : Tail(q)[i] = q[i + 1] /\ i + 1 \in 1..Len(q)
  OBVIOUS

\* A frame that is no verification request, put behind the others.
LEMMA HostKeepsAsked ==
  ASSUME TypeOK, AskedAboutShown, UNCHANGED <<dev, shown>>,
         \/ out' = out
         \/ \E f \in Requests : f.op # "verify" /\ out' = Append(out, f)
  PROVE  AskedAboutShown'
<1>1. CASE out' = out
  BY <1>1 DEF AskedAboutShown
<1>2. ASSUME NEW f \in Requests, f.op # "verify", out' = Append(out, f)
      PROVE  AskedAboutShown'
  <2>1. /\ Len(out') = Len(out) + 1 /\ Len(out) \in Nat
        /\ \A i \in 1..Len(out) : out'[i] = out[i]
        /\ out'[Len(out) + 1] = f
    BY <1>2, AppendAt DEF TypeOK, ChannelTypeOK
  <2>2. SUFFICES ASSUME NEW i \in 1..Len(out'), out'[i].op = "verify"
                 PROVE  /\ \A j \in 1..Len(out') : j < i => out'[j].op \notin {"handshake", "hs1"}
                        /\ dev.stage \in {"hs1", "verify", "open"} => dev.sid = shown
    BY DEF AskedAboutShown
  <2>3. i \in 1..Len(out)
    BY <1>2, <2>1, <2>2
  <2>4. out[i].op = "verify"
    BY <2>1, <2>2, <2>3
  <2>5. ASSUME NEW j \in 1..Len(out'), j < i
        PROVE  out'[j].op \notin {"handshake", "hs1"}
    <3>1. j \in 1..Len(out) /\ out'[j] = out[j]
      BY <2>1, <2>3, <2>5
    <3>2. QED
      BY <2>3, <2>4, <2>5, <3>1 DEF AskedAboutShown
  <2>6. QED
    BY <2>3, <2>4, <2>5 DEF AskedAboutShown
<1>3. QED
  BY <1>1, <1>2

\* Outside a handshake only the verification requests matter.
LEMMA OutsideHandshakePairingInv ==
  ASSUME TypeOK, PairingInv, UNCHANGED <<dev, shown>>,
         call'.st \notin {"WaitHandshake1", "WaitHandshake2", "WaitPairingConfirm"},
         \/ out' = out
         \/ \E f \in Requests : f.op # "verify" /\ out' = Append(out, f)
  PROVE  PairingInv'
  BY HostKeepsAsked DEF PairingInv, Handshake1IsLast, OnlyConsentSucceeds

LEMMA CallsPairingInv ==
  ASSUME TypeOK, PairingInv, Unlock \/ Query \/ ShowDescriptorAddress \/ NotPaired
  PROVE  PairingInv'
<1>0. noise \in Sessions /\ UNCHANGED <<dev, shown>>
  BY DEF TypeOK, HostTypeOK, Unlock, Query, ShowDescriptorAddress, NotPaired, StartCall
<1>1. CASE Unlock
  <2>1. /\ Request("unlock", 0, 0, NoCtx) \in Requests
        /\ Request("unlock", 0, 0, NoCtx).op = "unlock"
    BY FrameTypes DEF Request
  <2>2. call'.st \in {"New", "WaitUnlockAck"}
    BY <1>1 DEF Unlock, Transmit, NewCall
  <2>3. out' = out \/ out' = Append(out, Request("unlock", 0, 0, NoCtx))
    BY <1>1 DEF Unlock, Transmit
  <2>4. QED
    BY <1>0, <2>1, <2>2, <2>3, OutsideHandshakePairingInv
<1>2. CASE Query \/ ShowDescriptorAddress
  <2>1. PICK st \in {"WaitEncryptedResponse", "ShowAddrWaitFingerprint"},
             ctx \in EncryptedContext, waiting \in EncryptedContext :
               SendEncrypted(st, ctx, waiting)
    <3>1. CASE Query
      BY <3>1, ContextsAssumption DEF Query
    <3>2. CASE ShowDescriptorAddress
      BY <3>2 DEF ShowDescriptorAddress, EncryptedContext
    <3>3. QED
      BY <1>2, <3>1, <3>2
  <2>2. QED
    BY <1>0, <2>1, SendEncryptedEffect, OutsideHandshakePairingInv
<1>3. CASE NotPaired
  BY <1>0, <1>3, OutsideHandshakePairingInv DEF NotPaired, Return, NewCall
<1>4. QED
  BY <1>1, <1>2, <1>3

\* A retry, in whatever state the call waits.
LEMMA RetryPairingInv ==
  ASSUME TypeOK, PairingInv, OnNotReady
  PROVE  PairingInv'
<1>1. /\ Receive /\ in \in Seq(Replies) /\ in # <<>> /\ in' = Tail(in) /\ job' = job
      /\ PendingReplies' \subseteq PendingReplies
      /\ UNCHANGED <<dev, shown, confirmed>> /\ out \in Seq(Requests)
  BY ReceivePending DEF OnNotReady, Receive, TypeOK, ChannelTypeOK
<1>2. CASE out' = out /\ call' = NewCall
  BY <1>1, <1>2, OutsideHandshakePairingInv DEF NewCall
<1>3. CASE out' = Append(out, Retry) /\ call' = call
  <2>1. Retry \in Requests /\ Retry.op = "none"
    BY FrameTypes DEF Retry
  <2>2. AskedAboutShown'
    BY <1>1, <1>3, <2>1, HostKeepsAsked DEF PairingInv
  <2>3. Elems(out') = Elems(out) \cup {Retry}
    BY <1>1, <1>3, <2>1, ElemsOfAppend
  <2>4. OnlyConsentSucceeds'
    BY <1>1, <1>3, <2>1, <2>3 DEF PairingInv, OnlyConsentSucceeds
  <2>5. Handshake1IsLast'
    <3> SUFFICES ASSUME call.st = "WaitHandshake1"
                 PROVE  Handshake1IsLast'
      BY <1>3 DEF Handshake1IsLast
    <3>1. /\ Len(out') = Len(out) + 1 /\ Len(out) \in Nat
          /\ \A i \in 1..Len(out) : out'[i] = out[i]
          /\ out'[Len(out) + 1] = Retry
      BY <1>1, <1>3, <2>1, AppendAt
    <3>2. /\ Len(in') = Len(in) - 1 /\ Len(in) \in Nat /\ Len(in) > 0
          /\ \A i \in 1..Len(in') : in'[i] = in[i + 1] /\ i + 1 \in 1..Len(in)
      BY <1>1, TailAt
    <3>3. ASSUME NEW i \in 1..Len(out'), NEW j \in 1..Len(out'),
                 out'[i].op = "hs1", out'[i].sid = call.hid, i < j
          PROVE  out'[j].op = "none"
      <4>1. i \in 1..Len(out) /\ out'[i] = out[i]
        BY <2>1, <3>1, <3>3
      <4>2. CASE j = Len(out) + 1
        BY <2>1, <3>1, <4>2
      <4>3. CASE j \in 1..Len(out)
        BY <3>1, <3>3, <4>1, <4>3 DEF PairingInv, Handshake1IsLast
      <4>4. QED
        BY <3>1, <4>2, <4>3
    <3>4. ASSUME NEW i \in 1..Len(in'), IsHandshake1(in'[i], call.hid)
          PROVE  /\ \A j \in 1..Len(in') : i < j => in'[j].kind = "none"
                 /\ job' = <<>> /\ dev'.key = in'[i].key
      <4>1. i + 1 \in 1..Len(in) /\ in'[i] = in[i + 1]
        BY <3>2
      <4>2. ASSUME NEW j \in 1..Len(in'), i < j
            PROVE  in'[j].kind = "none"
        <5>1. j + 1 \in 1..Len(in) /\ in'[j] = in[j + 1] /\ i + 1 < j + 1
          BY <3>2, <4>2
        <5>2. QED
          BY <3>4, <4>1, <5>1 DEF PairingInv, Handshake1IsLast
      <4>3. QED
        BY <1>1, <3>4, <4>1, <4>2 DEF PairingInv, Handshake1IsLast
    <3>5. \A r \in Elems(job') : IsHandshake1(r, call.hid) => dev'.key = r.key
      BY <1>1 DEF PairingInv, Handshake1IsLast
    <3>6. \A r \in PendingReplies' : IsHandshake1(r, call.hid) =>
            /\ \A f \in Elems(out') : f.op = "none"
            /\ dev'.stage = "hs1" /\ dev'.sid = call.hid
      BY <1>1, <2>1, <2>3 DEF PairingInv, Handshake1IsLast
    <3>7. call' = call
      BY <1>3
    <3>8. QED
      BY <3>3, <3>4, <3>5, <3>6, <3>7 DEF Handshake1IsLast
  <2>6. QED
    BY <2>2, <2>4, <2>5 DEF PairingInv
<1>4. QED
  BY <1>2, <1>3 DEF OnNotReady, Transmit


\* The first message of a handshake is put behind whatever is on its way.
LEMMA HandshakeInitPairingInv ==
  ASSUME TypeOK, SessionInv, PairingInv, OnHandshakeInit
  PROVE  PairingInv'
<1>1. /\ PendingReplies' \subseteq PendingReplies /\ Elems(in') \subseteq PendingReplies'
      /\ Elems(job') \subseteq PendingReplies'
      /\ UNCHANGED <<dev, shown>> /\ out \in Seq(Requests) /\ handshakes \in Nat
      /\ in' \in Seq(Replies)
      /\ \A r \in PendingReplies : r.sid <= handshakes
      /\ \A i \in 1..Len(out) : out[i].op = "hs1" => out[i].sid <= handshakes
  BY ReceivePending, ReceiveTypes
  DEF OnHandshakeInit, ReceiveAck, Receive, TypeOK, ChannelTypeOK, HostTypeOK, SessionInv,
      FreshHandshake, Elems, PendingReplies
<1>2. CASE out' = out /\ call' = NewCall
  BY <1>1, <1>2, OutsideHandshakePairingInv DEF NewCall
<1>3. CASE /\ handshakes' = handshakes + 1
           /\ out' = Append(out, Request("hs1", handshakes', 0, NoCtx))
           /\ call' = [NewCall EXCEPT !.st = "WaitHandshake1", !.hid = handshakes']
  <2> DEFINE f == Request("hs1", handshakes', 0, NoCtx)
  <2>1. f \in Requests /\ f.op = "hs1" /\ f.sid = handshakes + 1
    <3>1. handshakes' = handshakes + 1 /\ handshakes' \in Nat
      BY <1>1, <1>3
    <3>2. f \in Requests
      BY <3>1, FrameTypes
    <3>3. QED
      BY <3>1, <3>2 DEF Request
  <2>2. call'.st = "WaitHandshake1" /\ call'.hid = handshakes + 1
    BY <1>3 DEF NewCall
  <2>3. out' = Append(out, f)
    BY <1>3
  <2> HIDE DEF f
  <2>4. AskedAboutShown'
    BY <1>1, <2>1, <2>3, HostKeepsAsked DEF PairingInv
  <2>5. OnlyConsentSucceeds'
    BY <2>2 DEF OnlyConsentSucceeds
  <2>6. Handshake1IsLast'
    <3>1. /\ Len(out') = Len(out) + 1 /\ Len(out) \in Nat
          /\ \A i \in 1..Len(out) : out'[i] = out[i]
      BY <1>1, <2>1, <2>3, AppendAt
    <3>2. ASSUME NEW i \in 1..Len(out'), NEW j \in 1..Len(out'),
                 out'[i].op = "hs1", out'[i].sid = handshakes + 1, i < j
          PROVE  FALSE
      <4>1. i \in 1..Len(out) /\ out'[i] = out[i]
        BY <3>1, <3>2
      <4>2. out[i].sid <= handshakes
        BY <1>1, <3>2, <4>1
      <4>3. QED
        BY <1>1, <3>2, <4>1, <4>2
    <3>3. \A r \in PendingReplies' : ~IsHandshake1(r, handshakes + 1)
      BY <1>1 DEF IsHandshake1
    <3>4. \A i \in 1..Len(in') : in'[i] \in PendingReplies'
      BY <1>1 DEF Elems
    <3>5. QED
      BY <1>1, <2>2, <3>2, <3>3, <3>4 DEF Handshake1IsLast
  <2>7. QED
    BY <2>4, <2>5, <2>6 DEF PairingInv
<1>4. QED
  BY <1>2, <1>3 DEF OnHandshakeInit, Transmit, Return

\* The device's first message is read: behind it there are only refusals, and
\* the channel is clean.
LEMMA Handshake1PairingInv ==
  ASSUME TypeOK, PairingInv, OnHandshake1
  PROVE  PairingInv'
<1>1. /\ in \in Seq(Replies) /\ in # <<>> /\ in' = Tail(in) /\ job' = job
      /\ UNCHANGED <<dev, shown, confirmed>> /\ out \in Seq(Requests) /\ call \in Calls
      /\ call.st = "WaitHandshake1"
  BY DEF OnHandshake1, ReceiveAck, Receive, TypeOK, ChannelTypeOK, HostTypeOK
<1>2. CASE out' = out /\ call' = NewCall
  BY <1>1, <1>2, OutsideHandshakePairingInv DEF NewCall
<1>3. CASE /\ Reply.kind = "hs1" /\ Reply.sid = call.hid /\ call' = AfterHandshake1
           /\ out' = Append(out, Request("hs2", call.hid, 0, NoCtx))
  <2> DEFINE f == Request("hs2", call.hid, 0, NoCtx)
  <2>1. f \in Requests /\ f.op = "hs2"
    BY <1>1, FrameTypes DEF Request, Calls
  <2>2. call'.st = "WaitHandshake2" /\ call'.hid = call.hid /\ call'.peer = Reply.key
    BY <1>1, <1>3 DEF AfterHandshake1, Calls
  <2>3. AskedAboutShown'
    BY <1>1, <1>3, <2>1, HostKeepsAsked DEF PairingInv
  <2>4. Elems(out') = Elems(out) \cup {f}
    BY <1>1, <1>3, <2>1, ElemsOfAppend
  <2> HIDE DEF f
  <2>5. /\ Len(in') = Len(in) - 1 /\ Len(in) \in Nat /\ Len(in) > 0 /\ Reply = in[1]
        /\ \A i \in 1..Len(in') : in'[i] = in[i + 1] /\ i + 1 \in 1..Len(in)
    BY <1>1, TailAt DEF Reply
  <2>6. IsHandshake1(in[1], call.hid) /\ in[1] \in PendingReplies /\ 1 \in 1..Len(in)
    BY <1>3, <2>5 DEF IsHandshake1, PendingReplies, Elems
  <2>7. /\ job = <<>> /\ dev.key = Reply.key
        /\ \A j \in 1..Len(in) : 1 < j => in[j].kind = "none"
        /\ \A g \in Elems(out) : g.op = "none"
        /\ dev.stage = "hs1" /\ dev.sid = call.hid
    BY <1>1, <2>5, <2>6 DEF PairingInv, Handshake1IsLast
  <2>8. \A r \in PendingReplies' : r.kind = "none"
    <3>1. \A r \in Elems(in') : r.kind = "none"
      BY <2>5, <2>7 DEF Elems
    <3>2. PendingReplies' = Elems(in') \cup Elems(job)
      BY <1>1 DEF PendingReplies
    <3>3. QED
      BY <2>7, <3>1, <3>2, ElemsOfShort
  <2>9. OnlyConsentSucceeds'
    BY <1>1, <2>1, <2>2, <2>4, <2>7, <2>8 DEF OnlyConsentSucceeds
  <2>10. Handshake1IsLast'
    BY <2>2 DEF Handshake1IsLast
  <2>11. QED
    BY <2>3, <2>9, <2>10 DEF PairingInv
<1>4. QED
  BY <1>2, <1>3 DEF OnHandshake1, Transmit, Return

\* The code is shown and the verification requested on a clean channel.
LEMMA Handshake2PairingInv ==
  ASSUME TypeOK, PairingInv, OnHandshake2
  PROVE  PairingInv'
<1>1. /\ PendingReplies' \subseteq PendingReplies
      /\ UNCHANGED <<dev, confirmed>> /\ out \in Seq(Requests) /\ call \in Calls
      /\ call.st = "WaitHandshake2"
  BY ReceivePending
  DEF OnHandshake2, ReceiveAck, Receive, TypeOK, ChannelTypeOK, HostTypeOK
<1>2. /\ dev.stage = "none" \/ (dev.stage # "init" /\ dev.sid = call.hid /\ dev.key = call.peer)
      /\ \A f \in Elems(out) : f.op \in {"none", "hs2", "verify"}
  BY <1>1 DEF PairingInv, OnlyConsentSucceeds
<1>3. CASE UNCHANGED shown /\ out' = out /\ call' = NewCall
  BY <1>1, <1>3, OutsideHandshakePairingInv DEF NewCall
<1>4. CASE /\ shown' = call.hid
           /\ \/ out' = out
              \/ out' = Append(out, Request("verify", 0, 0, NoCtx))
           /\ call'.st \in {"New", "WaitPairingConfirm"}
           /\ call'.st = "WaitPairingConfirm" => call'.hid = call.hid /\ call'.peer = call.peer
  <2> DEFINE f == Request("verify", 0, 0, NoCtx)
  <2>1. f \in Requests /\ f.op = "verify"
    BY FrameTypes DEF Request
  <2>2. Elems(out') \subseteq Elems(out) \cup {f}
    <3>1. out' = out \/ out' = Append(out, f)
      BY <1>4
    <3>2. Elems(Append(out, f)) = Elems(out) \cup {f}
      BY <1>1, <2>1, ElemsOfAppend
    <3>3. QED
      BY <3>1, <3>2
  <2> HIDE DEF f
  <2>3. \A g \in Elems(out') : g.op \in {"none", "hs2", "verify"}
    BY <1>2, <2>1, <2>2
  <2>4. AskedAboutShown'
    BY <1>1, <1>2, <1>4, <2>3 DEF AskedAboutShown, Elems
  <2>5. OnlyConsentSucceeds'
    BY <1>1, <1>2, <1>4, <2>3 DEF PairingInv, OnlyConsentSucceeds
  <2>6. Handshake1IsLast'
    BY <1>4 DEF Handshake1IsLast
  <2>7. QED
    BY <2>4, <2>5, <2>6 DEF PairingInv
<1>5. CASE /\ ShowCode
           /\ Transmit(Request("verify", 0, 0, NoCtx), [call EXCEPT !.st = "WaitPairingConfirm"])
  <2>1. /\ [call EXCEPT !.st = "WaitPairingConfirm"].st = "WaitPairingConfirm"
        /\ [call EXCEPT !.st = "WaitPairingConfirm"].hid = call.hid
        /\ [call EXCEPT !.st = "WaitPairingConfirm"].peer = call.peer
    BY <1>1 DEF Calls
  <2>2. NewCall.st = "New"
    BY DEF NewCall
  <2>3. QED
    BY <1>4, <1>5, <2>1, <2>2 DEF ShowCode, Transmit
<1>6. QED
  BY <1>3, <1>5 DEF OnHandshake2, Return

LEMMA OtherRepliesPairingInv ==
  ASSUME TypeOK, PairingInv,
         \/ OnRefused \/ OnUnlockAck \/ OnPairingConfirm
         \/ OnUndecryptable \/ OnEncryptedResponse \/ OnShowAddrFingerprint
  PROVE  PairingInv'
<1>0. UNCHANGED <<dev, shown>> /\ noise \in Sessions
  BY DEF OnRefused, OnUnlockAck, OnPairingConfirm, OnUndecryptable, OnEncryptedResponse,
         OnShowAddrFingerprint, ReceiveAck, Receive, TypeOK, HostTypeOK
<1>1. CASE out' = out /\ call' = NewCall
  BY <1>0, <1>1, OutsideHandshakePairingInv DEF NewCall
<1>2. CASE OnUnlockAck
  <2> DEFINE f == Request("handshake", 0, 0, NoCtx)
  <2>1. f \in Requests /\ f.op = "handshake"
    BY FrameTypes DEF Request
  <2>2. [NewCall EXCEPT !.st = "WaitHandshakeInit"].st = "WaitHandshakeInit"
    BY DEF NewCall
  <2>3. \/ out' = out /\ call' = NewCall
        \/ out' = Append(out, f) /\ call'.st = "WaitHandshakeInit"
    BY <1>2, <2>2 DEF OnUnlockAck, Transmit
  <2> HIDE DEF f
  <2>4. QED
    BY <1>0, <1>1, <2>1, <2>3, OutsideHandshakePairingInv
<1>3. CASE OnShowAddrFingerprint
  <2>1. CASE SendEncrypted("WaitEncryptedResponse", "Address", "Address")
    <3>1. "Address" \in EncryptedContext
      BY DEF EncryptedContext
    <3>2. QED
      BY <1>0, <2>1, <3>1, SendEncryptedEffect, OutsideHandshakePairingInv
  <2>2. QED
    BY <1>1, <1>3, <2>1 DEF OnShowAddrFingerprint, Return
<1>4. CASE OnRefused \/ OnPairingConfirm \/ OnUndecryptable \/ OnEncryptedResponse
  BY <1>1, <1>4 DEF OnRefused, OnPairingConfirm, OnUndecryptable, OnEncryptedResponse, Return
<1>5. QED
  BY <1>2, <1>3, <1>4

LEMMA InterruptPairingInv ==
  ASSUME TypeOK, PairingInv, Abandon \/ Reconnect \/ DeviceDropsJob
  PROVE  PairingInv'
<1>1. CASE Abandon
  BY <1>1, OutsideHandshakePairingInv DEF Abandon, NewCall
<1>2. CASE Reconnect
  <2>1. call'.st = "New" /\ out' = <<>>
    BY <1>2 DEF Reconnect, NewCall
  <2>2. QED
    BY <2>1 DEF PairingInv, Handshake1IsLast, OnlyConsentSucceeds, AskedAboutShown
<1>3. CASE DeviceDropsJob
  <2>1. PendingReplies' \subseteq PendingReplies /\ Elems(job') = {}
    BY <1>3, ElemsOfShort DEF DeviceDropsJob, PendingReplies
  <2>2. UNCHANGED <<call, out, in, dev, shown, confirmed>> /\ job' = <<>>
    BY <1>3 DEF DeviceDropsJob
  <2>3. QED
    BY <2>1, <2>2 DEF PairingInv, Handshake1IsLast, OnlyConsentSucceeds, AskedAboutShown
<1>4. QED
  BY <1>1, <1>2, <1>3


\* What the device does to the channel: the request is taken, and its reply put
\* behind the others or kept for a retry.
LEMMA DeviceChannel ==
  ASSUME TypeOK, DeviceReads, NEW r \in Replies, Answer(r), job = <<>>
  PROVE  /\ \/ in' = Append(in, r) /\ job' = <<>>
            \/ in' = Append(in, Refusal("NOTREADY")) /\ job' = <<r>>
         /\ PendingReplies' \subseteq PendingReplies \cup {r, Refusal("NOTREADY")}
  BY AnswerPending DEF Answer

\* The requests behind the one the device takes.
LEMMA DeviceTakes ==
  ASSUME TypeOK, PairingInv, DeviceReads
  PROVE  /\ Elems(out') \subseteq Elems(out) /\ Frame \in Elems(out)
         /\ \A i \in 1..Len(out') : out'[i] = out[i + 1] /\ i + 1 \in 1..Len(out)
         /\ Frame = out[1] /\ 1 \in 1..Len(out)
         /\ \A i, j \in 1..Len(out') :
              /\ call.st = "WaitHandshake1" /\ out'[i].op = "hs1" /\ out'[i].sid = call.hid /\ i < j
                   => out'[j].op = "none"
              /\ out'[i].op = "verify" /\ j < i => out'[j].op \notin {"handshake", "hs1"}
         /\ Frame.op \in {"handshake", "hs1"} => \A i \in 1..Len(out') : out'[i].op # "verify"
<1>1. out \in Seq(Requests) /\ out # <<>> /\ out' = Tail(out)
  BY DEF TypeOK, ChannelTypeOK, DeviceReads
<1>2. /\ Len(out') = Len(out) - 1 /\ Len(out) \in Nat /\ Len(out) > 0 /\ Frame = out[1]
      /\ \A i \in 1..Len(out') : out'[i] = out[i + 1] /\ i + 1 \in 1..Len(out)
  BY <1>1, TailAt DEF Frame
<1>3. \A i, j \in 1..Len(out') : i < j => i + 1 < j + 1
  BY <1>2
<1>4. \A i \in 1..Len(out') : 1 < i + 1
  BY <1>2
<1>5. ASSUME NEW i \in 1..Len(out'), NEW j \in 1..Len(out')
      PROVE  /\ call.st = "WaitHandshake1" /\ out'[i].op = "hs1" /\ out'[i].sid = call.hid /\ i < j
                  => out'[j].op = "none"
             /\ out'[i].op = "verify" /\ j < i => out'[j].op \notin {"handshake", "hs1"}
  <2>1. /\ out'[i] = out[i + 1] /\ i + 1 \in 1..Len(out)
        /\ out'[j] = out[j + 1] /\ j + 1 \in 1..Len(out)
        /\ i < j => i + 1 < j + 1
        /\ j < i => j + 1 < i + 1
    BY <1>2
  <2>2. /\ call.st = "WaitHandshake1" /\ out[i + 1].op = "hs1" /\ out[i + 1].sid = call.hid
             /\ i + 1 < j + 1 => out[j + 1].op = "none"
        /\ out[i + 1].op = "verify" /\ j + 1 < i + 1 => out[j + 1].op \notin {"handshake", "hs1"}
    BY <2>1 DEF PairingInv, Handshake1IsLast, AskedAboutShown
  <2>3. QED
    BY <2>1, <2>2
<1>6. Frame.op \in {"handshake", "hs1"} => \A i \in 1..Len(out') : out'[i].op # "verify"
  BY <1>2, <1>4 DEF PairingInv, AskedAboutShown
<1>7. QED
  BY <1>1, <1>2, <1>5, <1>6, ElemsOfTail DEF Frame

\* A request whose reply is not the first message of the handshake in progress.
LEMMA DeviceKeepsPairingInv ==
  ASSUME TypeOK, PairingInv, DeviceReads,
         confirmed \subseteq confirmed', dev'.key = dev.key,
         NEW new \in Replies, ~IsHandshake1(new, call.hid) \/ call.st # "WaitHandshake1",
         in' = Append(in, new),
         \A r \in Elems(job') :
           r \in Elems(job) \/ ~IsHandshake1(r, call.hid) \/ call.st # "WaitHandshake1",
         \A r \in PendingReplies : call.st = "WaitHandshake1" /\ IsHandshake1(r, call.hid) =>
           dev' = dev /\ (r \in Elems(in) => new.kind = "none" /\ (job = <<>> => job' = <<>>)),
         call.st \in {"WaitHandshake2", "WaitPairingConfirm"} =>
           /\ \/ dev'.stage = "none"
              \/ dev.stage # "none" /\ dev'.stage # "init" /\ dev'.sid = dev.sid
           /\ \A r \in {new} \cup Elems(job') :
                \/ r \in PendingReplies \/ r.kind \in {"none", "failure", "hs2"}
                \/ r.kind = "status" /\ <<call.hid, call.peer>> \in confirmed',
         \/ dev'.stage \notin {"hs1", "verify", "open"}
         \/ dev.stage \in {"hs1", "verify", "open"} /\ dev'.sid = dev.sid
         \/ Frame.op = "hs1"
  PROVE  PairingInv'
<1>1. /\ in \in Seq(Replies) /\ UNCHANGED <<call, shown>>
      /\ Elems(out') \subseteq Elems(out)
  BY DeviceTakes DEF TypeOK, ChannelTypeOK, DeviceReads
<1>2. PendingReplies' = Elems(in) \cup {new} \cup Elems(job')
  BY <1>1, ElemsOfAppend DEF PendingReplies
<1>3. AskedAboutShown'
  <2>1. SUFFICES ASSUME NEW i \in 1..Len(out'), out'[i].op = "verify"
                 PROVE  /\ \A j \in 1..Len(out') : j < i => out'[j].op \notin {"handshake", "hs1"}
                        /\ dev'.stage \in {"hs1", "verify", "open"} => dev'.sid = shown
    BY <1>1 DEF AskedAboutShown
  <2>2. Frame.op # "hs1"
    BY <2>1, DeviceTakes
  <2>3. out[i + 1].op = "verify" /\ i + 1 \in 1..Len(out)
    BY <2>1, DeviceTakes
  <2>4. dev.stage \in {"hs1", "verify", "open"} => dev.sid = shown
    BY <2>3 DEF PairingInv, AskedAboutShown
  <2>5. QED
    BY <2>1, <2>2, <2>4, DeviceTakes
<1>4. OnlyConsentSucceeds'
  <2> SUFFICES ASSUME call.st \in {"WaitHandshake2", "WaitPairingConfirm"}
               PROVE  OnlyConsentSucceeds'
    BY <1>1 DEF OnlyConsentSucceeds
  <2>1. /\ dev.stage = "none" \/ (dev.stage # "init" /\ dev.sid = call.hid /\ dev.key = call.peer)
        /\ \A f \in Elems(out) : f.op \in {"none", "hs2", "verify"}
        /\ \A r \in PendingReplies :
             \/ r.kind \in {"none", "failure", "hs2"}
             \/ r.kind = "status" /\ <<call.hid, call.peer>> \in confirmed
    BY DEF PairingInv, OnlyConsentSucceeds
  <2>2. \A r \in PendingReplies' :
          r \in PendingReplies \/ r \in {new} \cup Elems(job')
    BY <1>2 DEF PendingReplies
  <2>3. \A r \in PendingReplies' :
          \/ r.kind \in {"none", "failure", "hs2"}
          \/ r.kind = "status" /\ <<call.hid, call.peer>> \in confirmed'
    BY <2>1, <2>2
  <2>4. QED
    BY <1>1, <2>1, <2>3 DEF OnlyConsentSucceeds
<1>5. Handshake1IsLast'
  <2> SUFFICES ASSUME call.st = "WaitHandshake1"
               PROVE  Handshake1IsLast'
    BY <1>1 DEF Handshake1IsLast
  <2>1. /\ Len(in') = Len(in) + 1 /\ Len(in) \in Nat /\ in'[Len(in) + 1] = new
        /\ \A i \in 1..Len(in) : in'[i] = in[i]
    BY <1>1, AppendAt
  <2>2. ASSUME NEW i \in 1..Len(in'), IsHandshake1(in'[i], call.hid)
        PROVE  /\ \A j \in 1..Len(in') : i < j => in'[j].kind = "none"
               /\ job' = <<>> /\ dev'.key = in'[i].key
    <3>1. i \in 1..Len(in) /\ in'[i] = in[i] /\ in[i] \in PendingReplies /\ in[i] \in Elems(in)
      BY <2>1, <2>2 DEF PendingReplies, Elems
    <3>2. /\ \A j \in 1..Len(in) : i < j => in[j].kind = "none"
          /\ job = <<>> /\ dev.key = in[i].key
      BY <2>2, <3>1 DEF PairingInv, Handshake1IsLast
    <3>3. new.kind = "none" /\ job' = <<>> /\ dev' = dev
      BY <2>2, <3>1, <3>2
    <3>4. QED
      BY <2>1, <3>1, <3>2, <3>3, SMTT(60)
  <2>3. \A r \in Elems(job') : IsHandshake1(r, call.hid) => dev'.key = r.key
    BY DEF PairingInv, Handshake1IsLast
  <2>4. ASSUME NEW r \in PendingReplies', IsHandshake1(r, call.hid)
        PROVE  /\ \A f \in Elems(out') : f.op = "none"
               /\ dev'.stage = "hs1" /\ dev'.sid = call.hid
    <3>1. r \in PendingReplies
      BY <1>2, <2>4 DEF PendingReplies
    <3>2. QED
      BY <1>1, <2>4, <3>1 DEF PairingInv, Handshake1IsLast
  <2>5. QED
    BY <1>1, <2>2, <2>3, <2>4, DeviceTakes DEF Handshake1IsLast
<1>6. QED
  BY <1>3, <1>4, <1>5 DEF PairingInv


\* The device's first message of the handshake in progress comes, and nothing
\* but refusals of retries can follow it.
LEMMA DeviceAnswersHandshake1 ==
  ASSUME TypeOK, PairingInv, DeviceReads, call.st = "WaitHandshake1", dev'.key = dev.key,
         NEW new \in Replies, in' = Append(in, new),
         \A r \in Elems(in) : ~IsHandshake1(r, call.hid),
         IsHandshake1(new, call.hid) => job' = <<>> /\ new.key = dev.key,
         \A r \in Elems(job') : IsHandshake1(r, call.hid) => r.key = dev.key,
         \A f \in Elems(out') : f.op = "none",
         dev'.stage = "hs1", dev'.sid = call.hid
  PROVE  PairingInv'
<1>1. /\ in \in Seq(Replies) /\ UNCHANGED <<call, shown>>
  BY DEF TypeOK, ChannelTypeOK, DeviceReads
<1>2. AskedAboutShown'
  <2>1. \A i \in 1..Len(out') : out'[i] \in Elems(out')
    BY DEF Elems
  <2>2. QED
    BY <2>1 DEF AskedAboutShown
<1>3. OnlyConsentSucceeds'
  BY <1>1 DEF OnlyConsentSucceeds
<1>4. /\ Len(in') = Len(in) + 1 /\ Len(in) \in Nat /\ in'[Len(in) + 1] = new
      /\ \A i \in 1..Len(in) : in'[i] = in[i]
  BY <1>1, AppendAt
<1>5. ASSUME NEW i \in 1..Len(in'), IsHandshake1(in'[i], call.hid)
      PROVE  /\ \A j \in 1..Len(in') : i < j => in'[j].kind = "none"
             /\ job' = <<>> /\ dev'.key = in'[i].key
  <2>1. i \in 1..Len(in) => in[i] \in Elems(in) /\ in'[i] = in[i]
    BY <1>4 DEF Elems
  <2>2. i \notin 1..Len(in)
    BY <1>5, <2>1
  <2>3. i = Len(in) + 1
    BY <1>4, <2>2
  <2>4. QED
    BY <1>4, <1>5, <2>3
<1>6. Handshake1IsLast'
  <2>1. \A i, j \in 1..Len(out') :
          out'[i].op = "hs1" /\ out'[i].sid = call.hid /\ i < j => out'[j].op = "none"
    BY DeviceTakes
  <2>2. QED
    BY <1>1, <1>5, <2>1 DEF Handshake1IsLast
<1>7. QED
  BY <1>2, <1>3, <1>6 DEF PairingInv

LEMMA DeviceStepPairingInv ==
  ASSUME TypeOK, SessionInv, PairingInv, DeviceStep
  PROVE  PairingInv'
<1>0. /\ DeviceReads /\ Frame \in Requests /\ Frame \in Elems(out)
      /\ out \in Seq(Requests) /\ in \in Seq(Replies) /\ job \in Seq(Replies) /\ Len(job) <= 1
      /\ dev \in [key : Keys, stage : {"none", "init", "hs1", "verify", "open"},
                  sid : Nat, nonce : Nat]
      /\ UNCHANGED <<call, shown>>
  <2>1. DeviceReads
    BY DEF DeviceStep, DeviceUnlock, DeviceHandshakeInit, DeviceHandshake1, DeviceHandshake2,
           DeviceVerify, DeviceMessage, DeviceBusy, DeviceRetry, DeviceDoes
  <2>2. QED
    BY <2>1, DeviceReadsTypes, DeviceTakes
    DEF DeviceReads, TypeOK, ChannelTypeOK, DeviceTypeOK
<1>1. Elems(job) \subseteq PendingReplies
  BY DEF PendingReplies
<1>2. \A hww \in {"NOTREADY", "BUSY", "NACK"} :
        Refusal(hww) \in Replies /\ Refusal(hww).kind = "none"
  BY FrameTypes DEF Refusal
<1>3. \A kind \in {"status", "failure"} : Status(kind) \in Replies /\ Status(kind).kind = kind
  BY FrameTypes DEF Status, Refusal
<1>4. /\ \A r \in PendingReplies :
           call.st = "WaitHandshake1" /\ IsHandshake1(r, call.hid) =>
             Frame.op = "none" /\ (r \in Elems(in) => job = <<>>)
      /\ call.st \in {"WaitHandshake2", "WaitPairingConfirm"} => Frame.op \in {"none", "hs2", "verify"}
  BY <1>0 DEF PairingInv, Handshake1IsLast, OnlyConsentSucceeds, Elems
\* A request whose reply is r: the reply and the NOTREADY before it.
<1>5. ASSUME NEW r \in Replies, Answer(r), job = <<>>, Frame.op # "none",
             r.kind # "hs1" \/ call.st # "WaitHandshake1",
             confirmed \subseteq confirmed', dev'.key = dev.key,
             call.st \in {"WaitHandshake2", "WaitPairingConfirm"} =>
               /\ \/ dev'.stage = "none"
                  \/ dev.stage # "none" /\ dev'.stage # "init" /\ dev'.sid = dev.sid
               /\ \/ r.kind \in {"failure", "hs2"}
                  \/ r.kind = "status" /\ <<call.hid, call.peer>> \in confirmed',
             \/ dev'.stage \notin {"hs1", "verify", "open"}
             \/ dev.stage \in {"hs1", "verify", "open"} /\ dev'.sid = dev.sid
             \/ Frame.op = "hs1"
      PROVE  PairingInv'
  <2>1. ~IsHandshake1(r, call.hid) \/ call.st # "WaitHandshake1"
    BY <1>5 DEF IsHandshake1
  <2>2. Refusal("NOTREADY") \in Replies /\ Refusal("NOTREADY").kind = "none"
        /\ ~IsHandshake1(Refusal("NOTREADY"), call.hid)
    BY <1>2 DEF IsHandshake1
  <2>3. CASE in' = Append(in, r) /\ job' = <<>>
    BY <1>0, <1>4, <1>5, <2>1, <2>3, ElemsOfShort, DeviceKeepsPairingInv
  <2>4. CASE in' = Append(in, Refusal("NOTREADY")) /\ job' = <<r>>
    <3>1. Elems(job') = {r}
      BY <2>4, ElemsOfShort
    <3>2. QED
      BY <1>0, <1>4, <1>5, <2>1, <2>2, <2>4, <3>1, DeviceKeepsPairingInv
  <2>5. QED
    BY <1>0, <1>5, <2>3, <2>4, DeviceChannel
<1>6. CASE DeviceUnlock
  <2>1. PICK kind \in {"status", "failure"} : Answer(Status(kind))
    BY <1>6 DEF DeviceUnlock
  <2>2. /\ Frame.op = "unlock" /\ job = <<>> /\ dev' = dev /\ confirmed' = confirmed
        /\ Status(kind) \in Replies /\ Status(kind).kind # "hs1"
    BY <1>3, <1>6 DEF DeviceUnlock, DeviceDoes
  <2>3. QED
    BY <1>4, <1>5, <2>1, <2>2
<1>7. CASE DeviceHandshakeInit
  <2>1. /\ Frame.op = "handshake" /\ job = <<>> /\ confirmed' = confirmed
    BY <1>7 DEF DeviceHandshakeInit, DeviceDoes
  <2>2. CASE dev' = [dev EXCEPT !.stage = "init", !.sid = 0, !.nonce = 0]
             /\ Answer(Status("status"))
    <3>1. dev'.stage = "init" /\ dev'.key = dev.key
      BY <1>0, <2>2
    <3>2. Status("status") \in Replies /\ Status("status").kind # "hs1"
      BY <1>3
    <3>3. QED
      BY <1>4, <1>5, <2>1, <2>2, <3>1, <3>2
  <2>3. CASE dev' = dev /\ Answer(Status("failure"))
    <3>1. Status("failure") \in Replies /\ Status("failure").kind # "hs1"
      BY <1>3
    <3>2. QED
      BY <1>4, <1>5, <2>1, <2>3, <3>1
  <2>4. QED
    BY <1>7, <2>2, <2>3 DEF DeviceHandshakeInit
<1>8. CASE DeviceHandshake2
  <2>1. /\ Frame.op = "hs2" /\ job = <<>> /\ confirmed' = confirmed
    BY <1>8 DEF DeviceHandshake2, DeviceDoes
  <2>2. CASE dev' = dev /\ Answer(Status("failure"))
    <3>1. Status("failure") \in Replies /\ Status("failure").kind = "failure"
      BY <1>3
    <3>2. dev.stage = "none" \/ dev.stage # "init" \/ call.st \notin {"WaitHandshake2", "WaitPairingConfirm"}
      BY DEF PairingInv, OnlyConsentSucceeds
    <3>3. QED
      BY <1>5, <2>1, <2>2, <3>1, <3>2
  <2>3. ASSUME NEW verify \in BOOLEAN, dev.stage = "hs1",
               dev' = [dev EXCEPT !.stage = IF verify THEN "verify" ELSE "open"],
               Answer(HandshakeReply2(dev.sid, verify))
        PROVE  PairingInv'
    <3>1. HandshakeReply2(dev.sid, verify) \in Replies
      BY <1>0, FrameTypes
    <3>2. HandshakeReply2(dev.sid, verify).kind = "hs2"
      BY DEF HandshakeReply2, Status, Refusal
    <3>3. dev'.stage \in {"verify", "open"} /\ dev'.sid = dev.sid /\ dev'.key = dev.key
      BY <1>0, <2>3
    <3>4. QED
      BY <1>5, <2>1, <2>3, <3>1, <3>2, <3>3
  <2>4. QED
    BY <1>8, <2>2, <2>3 DEF DeviceHandshake2
<1>9. CASE DeviceVerify
  <2>1. Frame.op = "verify" /\ job = <<>>
    BY <1>9 DEF DeviceVerify, DeviceDoes
  <2>2. CASE /\ dev.stage \in {"verify", "open"}
             /\ confirmed' = confirmed \cup {<<dev.sid, dev.key>>}
             /\ dev' = [dev EXCEPT !.stage = "open"]
             /\ Answer(Status("status"))
    <3>1. Status("status") \in Replies /\ Status("status").kind = "status"
      BY <1>3
    <3>2. dev'.stage = "open" /\ dev'.sid = dev.sid /\ dev'.key = dev.key
      BY <1>0, <2>2
    <3>3. call.st \in {"WaitHandshake2", "WaitPairingConfirm"} =>
            <<call.hid, call.peer>> \in confirmed'
      BY <2>2 DEF PairingInv, OnlyConsentSucceeds
    <3>4. QED
      BY <1>5, <2>1, <2>2, <3>1, <3>2, <3>3
  <2>3. CASE /\ dev' = [dev EXCEPT !.stage = "none", !.sid = 0, !.nonce = 0]
             /\ confirmed' = confirmed /\ Answer(Status("failure"))
    <3>1. Status("failure") \in Replies /\ Status("failure").kind = "failure"
      BY <1>3
    <3>2. dev'.stage = "none" /\ dev'.key = dev.key
      BY <1>0, <2>3
    <3>3. QED
      BY <1>5, <2>1, <2>3, <3>1, <3>2
  <2>4. CASE dev' = dev /\ confirmed' = confirmed /\ Answer(Status("failure"))
    <3>1. Status("failure") \in Replies /\ Status("failure").kind = "failure"
      BY <1>3
    <3>2. dev.stage = "none" \/ dev.stage # "init" \/ call.st \notin {"WaitHandshake2", "WaitPairingConfirm"}
      BY DEF PairingInv, OnlyConsentSucceeds
    <3>3. QED
      BY <1>5, <2>1, <2>4, <3>1, <3>2
  <2>5. QED
    BY <1>9, <2>2, <2>3, <2>4 DEF DeviceVerify
<1>10. CASE DeviceMessage
  <2>1. Frame.op = "msg" /\ job = <<>> /\ confirmed' = confirmed
    BY <1>10 DEF DeviceMessage, DeviceDoes
  <2>2. CASE dev' = dev /\ Answer(Status("failure"))
    <3>1. Status("failure") \in Replies /\ Status("failure").kind # "hs1"
      BY <1>3
    <3>2. QED
      BY <1>4, <1>5, <2>1, <2>2, <3>1
  <2>3. ASSUME NEW typ \in ResponseTypes, Answer(Ciphertext(dev.sid, Frame.n, typ)),
               dev' = [dev EXCEPT !.nonce = @ + 1]
        PROVE  PairingInv'
    <3>1. Ciphertext(dev.sid, Frame.n, typ) \in Replies
      BY <1>0, FrameTypes DEF Requests
    <3>2. Ciphertext(dev.sid, Frame.n, typ).kind = "enc"
      BY DEF Ciphertext, Status, Refusal
    <3>3. dev'.stage = dev.stage /\ dev'.sid = dev.sid /\ dev'.key = dev.key
      BY <1>0, <2>3
    <3>4. QED
      BY <1>4, <1>5, <2>1, <2>3, <3>1, <3>2, <3>3
  <2>4. {AnswerTo(Frame.ctx), "Error"} \subseteq ResponseTypes
    BY AnswerTypes DEF ResponseTypes
  <2>5. QED
    BY <1>10, <2>2, <2>3, <2>4 DEF DeviceMessage
<1>11. CASE DeviceBusy
  <2>1. /\ in' = Append(in, Refusal("BUSY")) /\ job' = job /\ dev' = dev /\ confirmed' = confirmed
    BY <1>11 DEF DeviceBusy
  <2>2. Refusal("BUSY") \in Replies /\ Refusal("BUSY").kind = "none"
        /\ ~IsHandshake1(Refusal("BUSY"), call.hid)
    BY <1>2 DEF IsHandshake1
  <2>3. dev.stage = "none" \/ dev.stage # "init" \/ call.st \notin {"WaitHandshake2", "WaitPairingConfirm"}
    BY DEF PairingInv, OnlyConsentSucceeds
  <2>4. QED
    BY <1>0, <1>1, <2>1, <2>2, <2>3, DeviceKeepsPairingInv
<1>12. CASE DeviceRetry
  <2>1. /\ dev' = dev /\ confirmed' = confirmed
        /\ \/ job # <<>> /\ in' = Append(in, job[1]) /\ job' = <<>>
           \/ in' = Append(in, Refusal("NOTREADY")) /\ job' = job
           \/ in' = Append(in, Refusal("NACK")) /\ job' = job
    BY <1>12 DEF DeviceRetry
  <2>2. dev.stage = "none" \/ dev.stage # "init" \/ call.st \notin {"WaitHandshake2", "WaitPairingConfirm"}
    BY DEF PairingInv, OnlyConsentSucceeds
  <2>3. ASSUME NEW hww \in {"NOTREADY", "NACK"}, in' = Append(in, Refusal(hww)), job' = job
        PROVE  PairingInv'
    <3>1. Refusal(hww) \in Replies /\ Refusal(hww).kind = "none"
          /\ ~IsHandshake1(Refusal(hww), call.hid)
      BY <1>2 DEF IsHandshake1
    <3>2. QED
      BY <1>0, <1>1, <2>1, <2>2, <2>3, <3>1, DeviceKeepsPairingInv
  <2>4. ASSUME job # <<>>, in' = Append(in, job[1]), job' = <<>>
        PROVE  PairingInv'
    <3>1. /\ job[1] \in Replies /\ job[1] \in Elems(job) /\ job[1] \in PendingReplies
          /\ Elems(job') = {}
      BY <1>0, <1>1, <2>4, ElemsOfShort DEF Elems
    <3>2. CASE call.st = "WaitHandshake1" /\ IsHandshake1(job[1], call.hid)
      <4>1. /\ \A r \in Elems(in) : ~IsHandshake1(r, call.hid)
        BY <1>4, <2>4, <3>2 DEF PendingReplies
      <4>2. /\ dev.key = job[1].key
            /\ \A f \in Elems(out) : f.op = "none"
            /\ dev.stage = "hs1" /\ dev.sid = call.hid
        BY <3>1, <3>2 DEF PairingInv, Handshake1IsLast
      <4>3. \A f \in Elems(out') : f.op = "none"
        BY <1>0, <4>2, DeviceTakes
      <4>4. QED
        BY <1>0, <2>1, <2>4, <3>1, <3>2, <4>1, <4>2, <4>3, DeviceAnswersHandshake1
    <3>3. CASE ~(call.st = "WaitHandshake1" /\ IsHandshake1(job[1], call.hid))
      <4>1. \A r \in PendingReplies : call.st = "WaitHandshake1" /\ IsHandshake1(r, call.hid) =>
              r \notin Elems(in)
        BY <1>4, <2>4
      <4>2. QED
        BY <1>0, <2>1, <2>2, <2>4, <3>1, <3>3, <4>1, DeviceKeepsPairingInv
    <3>4. QED
      BY <3>2, <3>3
  <2>5. QED
    BY <2>1, <2>3, <2>4
<1>13. CASE DeviceHandshake1
  <2>1. /\ Frame.op = "hs1" /\ job = <<>> /\ confirmed' = confirmed
    BY <1>13 DEF DeviceHandshake1, DeviceDoes
  <2>2. CASE dev' = dev /\ Answer(Status("failure"))
    <3>1. Status("failure") \in Replies /\ Status("failure").kind # "hs1"
      BY <1>3
    <3>2. QED
      BY <1>4, <1>5, <2>1, <2>2, <3>1
  <2>3. CASE /\ dev' = [dev EXCEPT !.stage = "hs1", !.sid = Frame.sid]
             /\ Answer(HandshakeReply1(Frame.sid, dev.key))
    <3> DEFINE r == HandshakeReply1(Frame.sid, dev.key)
    <3>1. /\ r \in Replies /\ r.kind = "hs1" /\ r.sid = Frame.sid /\ r.key = dev.key
      BY <1>0, FrameTypes DEF Requests, HandshakeReply1, Status, Refusal
    <3>2. /\ Refusal("NOTREADY") \in Replies /\ Refusal("NOTREADY").kind = "none"
          /\ ~IsHandshake1(Refusal("NOTREADY"), call.hid)
      BY <1>2 DEF IsHandshake1
    <3>3. dev'.key = dev.key /\ dev'.stage = "hs1" /\ dev'.sid = Frame.sid
      BY <1>0, <2>3
    <3>4. Answer(r)
      BY <2>3
    <3> HIDE DEF r
    <3>5. call.st \notin {"WaitHandshake2", "WaitPairingConfirm"}
      BY <1>4, <2>1
    <3>6. \A m \in PendingReplies : call.st = "WaitHandshake1" => ~IsHandshake1(m, call.hid)
      BY <1>4, <2>1
    <3>7. /\ \/ in' = Append(in, r) /\ job' = <<>>
             \/ in' = Append(in, Refusal("NOTREADY")) /\ job' = <<r>>
      BY <1>0, <2>1, <3>1, <3>4, DeviceChannel
    <3>8. CASE call.st = "WaitHandshake1" /\ Frame.sid = call.hid
      <4>1. \A f \in Elems(out') : f.op = "none"
        <5>1. \A j \in 1..Len(out) : 1 < j => out[j].op = "none"
          BY <1>0, <2>1, <3>8, DeviceTakes DEF PairingInv, Handshake1IsLast
        <5>2. \A i \in 1..Len(out') : out'[i] = out[i + 1] /\ i + 1 \in 1..Len(out) /\ 1 < i + 1
          BY <1>0, DeviceTakes
        <5>3. QED
          BY <5>1, <5>2 DEF Elems
      <4>2. \A m \in Elems(in) : ~IsHandshake1(m, call.hid)
        BY <3>6, <3>8 DEF PendingReplies
      <4>3. CASE in' = Append(in, r) /\ job' = <<>>
        <5>1. Elems(job') = {}
          BY <4>3, ElemsOfShort
        <5>2. QED
          BY <1>0, <3>1, <3>3, <3>8, <4>1, <4>2, <4>3, <5>1, DeviceAnswersHandshake1
      <4>4. CASE in' = Append(in, Refusal("NOTREADY")) /\ job' = <<r>>
        <5>1. Elems(job') = {r}
          BY <4>4, ElemsOfShort
        <5>2. QED
          BY <1>0, <3>1, <3>2, <3>3, <3>8, <4>1, <4>2, <4>4, <5>1, DeviceAnswersHandshake1
      <4>5. QED
        BY <3>7, <4>3, <4>4
    <3>9. CASE ~(call.st = "WaitHandshake1" /\ Frame.sid = call.hid)
      <4>1. ~IsHandshake1(r, call.hid) \/ call.st # "WaitHandshake1"
        BY <3>1, <3>9 DEF IsHandshake1
      <4>2. CASE in' = Append(in, r) /\ job' = <<>>
        <5>1. Elems(job') = {}
          BY <4>2, ElemsOfShort
        <5>2. QED
          BY <1>0, <2>1, <3>1, <3>3, <3>5, <3>6, <4>1, <4>2, <5>1, DeviceKeepsPairingInv
      <4>3. CASE in' = Append(in, Refusal("NOTREADY")) /\ job' = <<r>>
        <5>1. Elems(job') = {r}
          BY <4>3, ElemsOfShort
        <5>2. QED
          BY <1>0, <2>1, <3>1, <3>2, <3>3, <3>5, <3>6, <4>1, <4>3, <5>1, DeviceKeepsPairingInv
      <4>4. QED
        BY <3>7, <4>2, <4>3
    <3>10. QED
      BY <3>8, <3>9
  <2>4. QED
    BY <1>13, <2>2, <2>3 DEF DeviceHandshake1
<1>14. QED
  BY <1>6, <1>7, <1>8, <1>9, <1>10, <1>11, <1>12, <1>13 DEF DeviceStep

LEMMA PairingInvInit == Init => PairingInv
<1> SUFFICES ASSUME Init PROVE PairingInv
  OBVIOUS
<1>1. call.st = "New" /\ out = <<>>
  BY DEF Init, NewCall
<1>2. QED
  BY <1>1 DEF PairingInv, Handshake1IsLast, OnlyConsentSucceeds, AskedAboutShown

LEMMA PairingInvStep == TypeOK /\ SessionInv /\ PairingInv /\ [Next]_vars => PairingInv'
<1> SUFFICES ASSUME TypeOK, SessionInv, PairingInv, [Next]_vars PROVE PairingInv'
  OBVIOUS
<1>1. CASE Unlock \/ Query \/ ShowDescriptorAddress \/ NotPaired
  BY <1>1, CallsPairingInv
<1>2. CASE HostReceive
  BY <1>2, RetryPairingInv, HandshakeInitPairingInv, Handshake1PairingInv,
     Handshake2PairingInv, OtherRepliesPairingInv DEF HostReceive
<1>3. CASE Abandon \/ Reconnect \/ DeviceDropsJob
  BY <1>3, InterruptPairingInv
<1>4. CASE DeviceStep
  BY <1>4, DeviceStepPairingInv
<1>5. CASE UNCHANGED vars
  BY <1>5 DEF vars, PairingInv, Handshake1IsLast, OnlyConsentSucceeds, AskedAboutShown,
              PendingReplies
<1>6. QED
  BY <1>1, <1>2, <1>3, <1>4, <1>5 DEF Next

\* While a pairing is verified no reply of an earlier call is left that could be
\* taken for the user's consent, and the device asks about the code shown.
THEOREM PairingInvariant == Spec => []PairingInv
<1>1. QED
  BY PairingInvInit, PairingInvStep, TypeCorrect, SessionInvariant, PTL DEF Spec

LEMMA TrustInit == Init => TrustNeedsConfirmation
<1> SUFFICES ASSUME Init PROVE TrustNeedsConfirmation
  OBVIOUS
<1>1. confirmed = {0} \X pubkeys /\ ~noise.code
  BY DEF Init, NoSession
<1>2. \A k \in pubkeys : <<0, k>> \in confirmed /\ <<0, k>>[2] = k
  BY <1>1
<1>3. QED
  BY <1>1, <1>2 DEF TrustNeedsConfirmation

\* What the user accepted stays accepted.
LEMMA ConfirmedGrows ==
  ASSUME [Next]_vars
  PROVE  confirmed \subseteq confirmed'
<1>1. CASE DeviceStep
  BY <1>1 DEF DeviceStep, DeviceUnlock, DeviceHandshakeInit, DeviceHandshake1, DeviceHandshake2,
              DeviceVerify, DeviceMessage, DeviceBusy, DeviceRetry
<1>2. CASE HostReceive
  BY <1>2 DEF HostReceive, OnNotReady, OnRefused, OnUnlockAck, OnHandshakeInit, OnHandshake1,
              OnHandshake2, OnPairingConfirm, OnUndecryptable, OnEncryptedResponse,
              OnShowAddrFingerprint, ReceiveAck, Receive
<1>3. CASE Unlock \/ Query \/ ShowDescriptorAddress \/ NotPaired
  BY <1>3 DEF Unlock, Query, ShowDescriptorAddress, NotPaired, StartCall
<1>4. QED
  BY <1>1, <1>2, <1>3 DEF Next, Abandon, Reconnect, DeviceDropsJob, vars

LEMMA TrustStep ==
  TypeOK /\ PairingInv /\ TrustNeedsConfirmation /\ [Next]_vars => TrustNeedsConfirmation'
<1> SUFFICES ASSUME TypeOK, PairingInv, TrustNeedsConfirmation, [Next]_vars
             PROVE  TrustNeedsConfirmation'
  OBVIOUS
<1>1. confirmed \subseteq confirmed'
  BY ConfirmedGrows
<1>2. ASSUME pubkeys' \subseteq pubkeys,
             ~noise'.code \/ (noise'.code = noise.code /\ noise'.sid = noise.sid
                              /\ noise'.peer = noise.peer)
      PROVE  TrustNeedsConfirmation'
  BY <1>1, <1>2 DEF TrustNeedsConfirmation
<1>3. CASE OnPairingConfirm
  <2>1. Reply \in PendingReplies /\ call.st = "WaitPairingConfirm"
    BY <1>3, ReceivePending DEF OnPairingConfirm, ReceiveAck
  <2>2. CASE PairingAccepted /\ pubkeys' = pubkeys \cup {call.peer} /\ Finalize(TRUE)
    <3>1. <<call.hid, call.peer>> \in confirmed'
      BY <1>1, <2>1, <2>2 DEF PairingAccepted, PairingInv, OnlyConsentSucceeds
    <3>2. <<call.hid, call.peer>>[2] = call.peer
      OBVIOUS
    <3>3. noise'.sid = call.hid /\ noise'.peer = call.peer
      BY <2>2 DEF Finalize
    <3>4. \A k \in pubkeys' : \E c \in confirmed' : c[2] = k
      BY <1>1, <2>2, <3>1, <3>2 DEF TrustNeedsConfirmation
    <3>5. QED
      BY <3>1, <3>3, <3>4 DEF TrustNeedsConfirmation
  <2>3. CASE UNCHANGED <<noise, pubkeys>>
    BY <1>2, <2>3
  <2>4. QED
    BY <1>3, <2>2, <2>3 DEF OnPairingConfirm
<1>4. CASE OnHandshake2
  BY <1>2, <1>4 DEF OnHandshake2, Finalize
<1>5. CASE Reconnect
  BY <1>2, <1>5 DEF Reconnect, NoSession
<1>6. CASE Query \/ ShowDescriptorAddress \/ OnEncryptedResponse \/ OnShowAddrFingerprint
  <2>1. noise \in Sessions
    BY DEF TypeOK, HostTypeOK
  <2>2. noise'.code = noise.code /\ noise'.sid = noise.sid /\ noise'.peer = noise.peer
    BY <2>1, <1>6 DEF Sessions, Query, ShowDescriptorAddress, OnEncryptedResponse,
                      OnShowAddrFingerprint
  <2>3. pubkeys' = pubkeys
    BY <1>6 DEF Query, ShowDescriptorAddress, StartCall, OnEncryptedResponse,
                OnShowAddrFingerprint
  <2>4. QED
    BY <1>2, <2>2, <2>3
<1>7. CASE \/ Unlock \/ NotPaired \/ OnNotReady \/ OnRefused \/ OnUnlockAck
           \/ OnHandshakeInit \/ OnHandshake1 \/ OnUndecryptable
  BY <1>2, <1>7 DEF Unlock, NotPaired, StartCall, OnNotReady, OnRefused, OnUnlockAck,
                    OnHandshakeInit, OnHandshake1, OnUndecryptable
<1>8. CASE Abandon \/ DeviceDropsJob \/ UNCHANGED vars
  BY <1>2, <1>8 DEF Abandon, DeviceDropsJob, vars
<1>9. CASE DeviceStep
  <2>1. DeviceReads
    BY <1>9 DEF DeviceStep, DeviceUnlock, DeviceHandshakeInit, DeviceHandshake1, DeviceHandshake2,
                DeviceVerify, DeviceMessage, DeviceBusy, DeviceRetry, DeviceDoes
  <2>2. QED
    BY <2>1, <1>2 DEF DeviceReads
<1>10. QED
  BY <1>3, <1>4, <1>5, <1>6, <1>7, <1>8, <1>9 DEF Next, HostReceive

\* A device enters the list of paired devices only by the consent of its user,
\* whatever late replies, rejections and interrupted handshakes come before.
THEOREM TrustIsConfirmed == Spec => []TrustNeedsConfirmation
<1>1. QED
  BY TrustInit, TrustStep, TypeCorrect, PairingInvariant, PTL DEF Spec

LEMMA ConfirmsTheShownCode ==
  TypeOK /\ PairingInv /\ [Next]_vars => [confirmed' # confirmed => shown = dev.sid]_vars
<1> SUFFICES ASSUME TypeOK, PairingInv, [Next]_vars, confirmed' # confirmed
             PROVE  shown = dev.sid
  OBVIOUS
<1>1. DeviceVerify
  <2>1. CASE DeviceStep
    BY <2>1 DEF DeviceStep, DeviceUnlock, DeviceHandshakeInit, DeviceHandshake1,
                DeviceHandshake2, DeviceMessage, DeviceBusy, DeviceRetry
  <2>2. CASE HostReceive
    BY <2>2 DEF HostReceive, OnNotReady, OnRefused, OnUnlockAck, OnHandshakeInit, OnHandshake1,
                OnHandshake2, OnPairingConfirm, OnUndecryptable, OnEncryptedResponse,
                OnShowAddrFingerprint, ReceiveAck, Receive
  <2>3. CASE Unlock \/ Query \/ ShowDescriptorAddress \/ NotPaired
    BY <2>3 DEF Unlock, Query, ShowDescriptorAddress, NotPaired, StartCall
  <2>4. QED
    BY <2>1, <2>2, <2>3 DEF Next, Abandon, Reconnect, DeviceDropsJob, vars
<1>2. DeviceReads /\ Frame.op = "verify" /\ dev.stage \in {"verify", "open"}
  BY <1>1 DEF DeviceVerify, DeviceDoes
<1>3. out[1].op = "verify" /\ 1 \in 1..Len(out)
  BY <1>2, DeviceTakes
<1>4. QED
  BY <1>2, <1>3 DEF PairingInv, AskedAboutShown

\* The user is asked on the device only about the code the host showed last.
THEOREM ShownBeforeAsked == Spec => CodeShownBeforeAsked
<1>1. QED
  BY ConfirmsTheShownCode, TypeCorrect, PairingInvariant, PTL DEF Spec, CodeShownBeforeAsked

-----------------------------------------------------------------------------
(* Whose answer a call returns.                                            *)

AwaitsCiphertext == call.st \in {"WaitEncryptedResponse", "ShowAddrWaitFingerprint"}

\* What the waiting call can decrypt of r is the answer to its own request.
AnswersCall(r) == r.kind = "enc" /\ r.sid = noise.sid => r.n = call.re
JobAnswersCall == job # <<>> => AnswersCall(job[1])

\* The request on its way is the one the call waits for, or asks for its answer;
\* the reply on its way is its answer, or says that it is not ready.
AsksForCall(f) ==
  AwaitsCiphertext => /\ f.hww = "NEW" => f.op = "msg" /\ f.n = call.re
                      /\ f.hww = "RETRY" => JobAnswersCall
RepliesToCall(r) ==
  AwaitsCiphertext => /\ AnswersCall(r)
                      /\ r.hww = "NOTREADY" => JobAnswersCall

\* Unless a call was abandoned, the channel is empty between calls, and a
\* waiting call has one frame on its way.  A reply the device still holds from a
\* call whose retry was not written is not in the way: it makes the device busy.
OneFrameOnItsWay ==
  ~abandoned =>
    \/ call.st = "New" /\ out = <<>> /\ in = <<>>
    \/ call.st # "New" /\ in = <<>> /\ \E f \in Requests : out = <<f>> /\ AsksForCall(f)
    \/ call.st # "New" /\ out = <<>> /\ \E r \in Replies : in = <<r>> /\ RepliesToCall(r)

LEMMA SingleFrame ==
  ASSUME NEW x, NEW q, q = <<x>>
  PROVE  q # <<>> /\ Head(q) = x /\ Tail(q) = <<>> /\ Append(<<>>, x) = q
  OBVIOUS

\* A call that writes a frame waits with that frame on its way, or it is over.
LEMMA TransmitOneFrame ==
  ASSUME out = <<>>, in' = <<>>, NEW f \in Requests, NEW c, c.st # "New", Transmit(f, c),
         call' = c => AsksForCall(f)'
  PROVE  OneFrameOnItsWay' /\ result'.status # "ok"
<1>1. CASE out' = Append(out, f) /\ call' = c /\ result' = NoResult
  <2>1. out' = <<f>>
    BY <1>1, SingleFrame
  <2>2. QED
    BY <1>1, <2>1 DEF OneFrameOnItsWay, NoResult
<1>2. CASE call' = NewCall /\ result' = Err /\ UNCHANGED out
  BY <1>2 DEF OneFrameOnItsWay, NewCall, Err
<1>3. QED
  BY <1>1, <1>2 DEF Transmit

LEMMA ReturnOneFrame ==
  ASSUME out = <<>>, in' = <<>>, NEW r, Return(r)
  PROVE  OneFrameOnItsWay'
  BY DEF Return, OneFrameOnItsWay, NewCall

OwnAnswerInv == OneFrameOnItsWay /\ OwnAnswerUnlessAbandoned

\* A call that starts finds the channel empty.
LEMMA CallsOneFrame ==
  ASSUME TypeOK, OwnAnswerInv, Unlock \/ Query \/ ShowDescriptorAddress \/ NotPaired
  PROVE  OwnAnswerInv'
<1>1. StartCall
  BY DEF Unlock, Query, ShowDescriptorAddress, NotPaired
<1>2. abandoned' = abandoned /\ call.st = "New"
  BY <1>1 DEF StartCall, NewCall
<1>3. CASE abandoned
  BY <1>2, <1>3 DEF OwnAnswerInv, OneFrameOnItsWay, OwnAnswerUnlessAbandoned
<1>4. CASE ~abandoned
  <2>1. out = <<>> /\ in' = <<>>
    BY <1>1, <1>2, <1>4 DEF OwnAnswerInv, OneFrameOnItsWay, StartCall
  <2>2. CASE Unlock
    <3>1. Request("unlock", 0, 0, NoCtx) \in Requests
      BY FrameTypes
    <3>2. ~AwaitsCiphertext' \/ call' # [NewCall EXCEPT !.st = "WaitUnlockAck"]
      BY DEF AwaitsCiphertext, NewCall
    <3>3. [NewCall EXCEPT !.st = "WaitUnlockAck"].st # "New"
      BY DEF NewCall
    <3>4. OneFrameOnItsWay' /\ result'.status # "ok"
      BY <2>1, <2>2, <3>1, <3>2, <3>3, TransmitOneFrame DEF Unlock, AsksForCall
    <3>5. QED
      BY <3>4 DEF OwnAnswerInv, OwnAnswerUnlessAbandoned
  <2>3. ASSUME NEW st \in {"WaitEncryptedResponse", "ShowAddrWaitFingerprint"},
               NEW ctx \in EncryptedContext, NEW waiting \in EncryptedContext,
               SendEncrypted(st, ctx, waiting)
        PROVE  OwnAnswerInv'
    <3>1. PICK f : f = Request("msg", noise.sid, noise.send, waiting)
      OBVIOUS
    <3>2. PICK c : c = [NewCall EXCEPT !.st = st, !.ctx = ctx, !.re = noise.send]
      OBVIOUS
    <3>3. noise.sid \in Nat /\ noise.send \in Nat
      BY DEF TypeOK, HostTypeOK, Sessions
    <3>4. f \in Requests /\ f.hww = "NEW" /\ f.op = "msg" /\ f.n = noise.send
      BY <3>1, <3>3, FrameTypes DEF Request
    <3>5. c.st # "New" /\ c.re = noise.send
      BY <3>2 DEF NewCall
    <3>6. Transmit(f, c)
      BY <2>3, <3>1, <3>2 DEF SendEncrypted
    <3>7. call' = c => AsksForCall(f)'
      BY <3>4, <3>5 DEF AsksForCall
    <3>8. OneFrameOnItsWay' /\ result'.status # "ok"
      BY <2>1, <3>4, <3>5, <3>6, <3>7, TransmitOneFrame
    <3>9. QED
      BY <3>8 DEF OwnAnswerInv, OwnAnswerUnlessAbandoned
  <2>4. CASE Query
    BY <2>3, <2>4, ContextsAssumption DEF Query
  <2>5. CASE ShowDescriptorAddress
    BY <2>3, <2>5 DEF ShowDescriptorAddress, EncryptedContext
  <2>6. CASE NotPaired
    <3>1. Return(Err)
      BY <2>6 DEF NotPaired
    <3>2. OneFrameOnItsWay'
      BY <2>1, <3>1, ReturnOneFrame
    <3>3. QED
      BY <3>1, <3>2 DEF OwnAnswerInv, OwnAnswerUnlessAbandoned, Return, Err
  <2>7. QED
    BY <2>2, <2>4, <2>5, <2>6
<1>5. QED
  BY <1>3, <1>4

\* A call that reads its reply finds the channel empty behind it, and returns it
\* only if it can decrypt it.
LEMMA ReceiveOneFrame ==
  ASSUME TypeOK, OwnAnswerInv, HostReceive
  PROVE  OwnAnswerInv'
<1>1. Receive
  BY DEF HostReceive, OnNotReady, OnRefused, OnUnlockAck, OnHandshakeInit, OnHandshake1,
         OnHandshake2, OnPairingConfirm, OnUndecryptable, OnEncryptedResponse,
         OnShowAddrFingerprint, ReceiveAck
<1>2. abandoned' = abandoned /\ call.st # "New" /\ in # <<>> /\ in' = Tail(in) /\ job' = job
  BY <1>1 DEF Receive
<1>3. CASE abandoned
  BY <1>2, <1>3 DEF OwnAnswerInv, OneFrameOnItsWay, OwnAnswerUnlessAbandoned
<1>4. CASE ~abandoned
  <2>1. PICK r \in Replies : in = <<r>> /\ out = <<>> /\ RepliesToCall(r)
    BY <1>2, <1>4 DEF OwnAnswerInv, OneFrameOnItsWay
  <2>2. out = <<>> /\ in' = <<>> /\ Reply = r
    BY <1>2, <2>1, SingleFrame DEF Reply
  <2>3. ASSUME OneFrameOnItsWay', result'.status # "ok" \/ result'.n = result'.re
        PROVE  OwnAnswerInv'
    BY <2>3 DEF OwnAnswerInv, OwnAnswerUnlessAbandoned
  <2>4. ASSUME NEW f \in Requests, NEW c, Transmit(f, c),
               c.st \notin {"New", "WaitEncryptedResponse", "ShowAddrWaitFingerprint"}
        PROVE  OwnAnswerInv'
    <3>1. call' = c => AsksForCall(f)'
      BY <2>4 DEF AsksForCall, AwaitsCiphertext
    <3>2. QED
      BY <2>2, <2>3, <2>4, <3>1, TransmitOneFrame
  <2>5. ASSUME NEW res, Return(res), res.status # "ok" \/ res.n = res.re
        PROVE  OwnAnswerInv'
    BY <2>2, <2>3, <2>5, ReturnOneFrame DEF Return
  <2>6. Err.status # "ok" /\ TaskDone.n = TaskDone.re
    BY DEF Err, TaskDone
  <2>7. CASE OnNotReady
    <3>1. r.hww = "NOTREADY" /\ Transmit(Retry, call) /\ noise' = noise
      BY <2>2, <2>7 DEF OnNotReady
    <3>2. PICK c : c = call
      OBVIOUS
    <3>3. Retry \in Requests /\ Retry.hww = "RETRY"
      BY FrameTypes DEF Retry
    <3>4. call' = c => AsksForCall(Retry)'
      <4>1. SUFFICES ASSUME call' = c, AwaitsCiphertext' PROVE JobAnswersCall'
        BY <3>3 DEF AsksForCall
      <4>2. JobAnswersCall
        BY <2>1, <3>1, <3>2, <4>1 DEF RepliesToCall, AwaitsCiphertext
      <4>3. QED
        BY <1>2, <3>1, <3>2, <4>1, <4>2 DEF JobAnswersCall, AnswersCall
    <3>5. QED
      BY <1>2, <2>2, <2>3, <3>1, <3>2, <3>3, <3>4, TransmitOneFrame
  <2>8. CASE OnRefused \/ OnUndecryptable
    BY <2>5, <2>6, <2>8 DEF OnRefused, OnUndecryptable
  <2>9. CASE OnUnlockAck
    <3>1. Request("handshake", 0, 0, NoCtx) \in Requests
      BY FrameTypes
    <3>2. [NewCall EXCEPT !.st = "WaitHandshakeInit"].st = "WaitHandshakeInit"
      BY DEF NewCall
    <3>3. QED
      BY <2>4, <2>9, <3>1, <3>2 DEF OnUnlockAck
  <2>10. CASE OnHandshakeInit
    <3>1. CASE Return(Err)
      BY <2>5, <2>6, <3>1
    <3>2. CASE /\ handshakes' = handshakes + 1
               /\ Transmit(Request("hs1", handshakes', 0, NoCtx),
                           [NewCall EXCEPT !.st = "WaitHandshake1", !.hid = handshakes'])
      <4>1. handshakes' \in Nat
        BY <3>2 DEF TypeOK, HostTypeOK
      <4>2. PICK n \in Nat : n = handshakes'
        BY <4>1
      <4>3. Request("hs1", n, 0, NoCtx) \in Requests
        BY FrameTypes
      <4>4. [NewCall EXCEPT !.st = "WaitHandshake1", !.hid = n].st = "WaitHandshake1"
        BY DEF NewCall
      <4>5. QED
        BY <2>4, <3>2, <4>2, <4>3, <4>4
    <3>3. QED
      BY <2>10, <3>1, <3>2 DEF OnHandshakeInit
  <2>11. CASE OnHandshake1
    <3>1. CASE Return(Err)
      BY <2>5, <2>6, <3>1
    <3>2. CASE Transmit(Request("hs2", call.hid, 0, NoCtx), AfterHandshake1)
      <4>1. call \in Calls
        BY DEF TypeOK, HostTypeOK
      <4>2. Request("hs2", call.hid, 0, NoCtx) \in Requests
        BY <4>1, FrameTypes DEF Calls
      <4>3. AfterHandshake1.st = "WaitHandshake2"
        BY <4>1 DEF AfterHandshake1, Calls
      <4>4. QED
        BY <2>4, <3>2, <4>2, <4>3
    <3>3. QED
      BY <2>11, <3>1, <3>2 DEF OnHandshake1
  <2>12. CASE OnHandshake2
    <3>1. CASE Return(Err) \/ Return(TaskDone)
      BY <2>5, <2>6, <3>1
    <3>2. CASE Transmit(Request("verify", 0, 0, NoCtx), [call EXCEPT !.st = "WaitPairingConfirm"])
      <4>1. call \in Calls
        BY DEF TypeOK, HostTypeOK
      <4>2. Request("verify", 0, 0, NoCtx) \in Requests
        BY FrameTypes
      <4>3. [call EXCEPT !.st = "WaitPairingConfirm"].st = "WaitPairingConfirm"
        BY <4>1 DEF Calls
      <4>4. QED
        BY <2>4, <3>2, <4>2, <4>3
    <3>3. QED
      BY <2>12, <3>1, <3>2 DEF OnHandshake2
  <2>13. CASE OnPairingConfirm
    BY <2>5, <2>6, <2>13 DEF OnPairingConfirm
  <2>14. CASE OnEncryptedResponse
    <3>1. CASE Return(Err)
      BY <2>5, <2>6, <3>1
    <3>2. CASE Return([status |-> "ok", n |-> Reply.n, re |-> call.re])
      <4>1. AwaitsCiphertext /\ r.kind = "enc" /\ r.sid = noise.sid
        BY <2>2, <2>14 DEF OnEncryptedResponse, ReceiveAck, Decrypts, AwaitsCiphertext
      <4>2. Reply.n = call.re
        BY <2>1, <2>2, <4>1 DEF RepliesToCall, AnswersCall
      <4>3. QED
        BY <2>5, <3>2, <4>2
    <3>3. QED
      BY <2>14, <3>1, <3>2 DEF OnEncryptedResponse
  <2>15. CASE OnShowAddrFingerprint
    <3>1. CASE Return(Err)
      BY <2>5, <2>6, <3>1
    <3>2. CASE SendEncrypted("WaitEncryptedResponse", "Address", "Address")
      <4>1. PICK f : f = Request("msg", noise.sid, noise.send, "Address")
        OBVIOUS
      <4>2. PICK c : c = [NewCall EXCEPT !.st = "WaitEncryptedResponse", !.ctx = "Address",
                                         !.re = noise.send]
        OBVIOUS
      <4>3. noise.sid \in Nat /\ noise.send \in Nat /\ "Address" \in EncryptedContext
        BY DEF TypeOK, HostTypeOK, Sessions, EncryptedContext
      <4>4. f \in Requests /\ f.hww = "NEW" /\ f.op = "msg" /\ f.n = noise.send
        BY <4>1, <4>3, FrameTypes DEF Request
      <4>5. c.st # "New" /\ c.re = noise.send
        BY <4>2 DEF NewCall
      <4>6. Transmit(f, c)
        BY <3>2, <4>1, <4>2 DEF SendEncrypted
      <4>7. call' = c => AsksForCall(f)'
        BY <4>4, <4>5 DEF AsksForCall
      <4>8. QED
        BY <2>2, <2>3, <4>4, <4>5, <4>6, <4>7, TransmitOneFrame
    <3>3. QED
      BY <2>15, <3>1, <3>2 DEF OnShowAddrFingerprint
  <2>16. QED
    BY <2>7, <2>8, <2>9, <2>10, <2>11, <2>12, <2>13, <2>14, <2>15 DEF HostReceive
<1>5. QED
  BY <1>3, <1>4

LEMMA InterruptOneFrame ==
  ASSUME TypeOK, OwnAnswerInv, Abandon \/ Reconnect \/ DeviceDropsJob
  PROVE  OwnAnswerInv'
<1>1. CASE Abandon
  BY <1>1 DEF Abandon, OwnAnswerInv, OneFrameOnItsWay, OwnAnswerUnlessAbandoned
<1>2. CASE Reconnect
  BY <1>2 DEF Reconnect, OwnAnswerInv, OneFrameOnItsWay, OwnAnswerUnlessAbandoned, NewCall, NoResult
<1>3. CASE DeviceDropsJob
  <2>1. call' = call /\ noise' = noise /\ job' = <<>> /\ abandoned' = abandoned
        /\ out' = out /\ in' = in /\ result' = result
    BY <1>3 DEF DeviceDropsJob
  <2>2. JobAnswersCall'
    BY <2>1 DEF JobAnswersCall
  <2>3. \A f : AsksForCall(f) => AsksForCall(f)'
    BY <2>1, <2>2 DEF AsksForCall, AwaitsCiphertext
  <2>4. \A r : RepliesToCall(r) => RepliesToCall(r)'
    BY <2>1, <2>2 DEF RepliesToCall, AwaitsCiphertext, AnswersCall
  <2>5. QED
    BY <2>1, <2>3, <2>4 DEF OwnAnswerInv, OneFrameOnItsWay, OwnAnswerUnlessAbandoned
<1>4. QED
  BY <1>1, <1>2, <1>3

\* The device answers the one frame that is on its way.
LEMMA DeviceOneFrame ==
  ASSUME TypeOK, OwnAnswerInv, DeviceStep
  PROVE  OwnAnswerInv'
<1>1. DeviceReads
  BY DEF DeviceStep, DeviceUnlock, DeviceHandshakeInit, DeviceHandshake1, DeviceHandshake2,
         DeviceVerify, DeviceMessage, DeviceBusy, DeviceRetry, DeviceDoes
<1>2. /\ out # <<>> /\ out' = Tail(out)
      /\ noise' = noise /\ call' = call /\ result' = result /\ abandoned' = abandoned
  BY <1>1 DEF DeviceReads
<1>3. OwnAnswerUnlessAbandoned'
  BY <1>2 DEF OwnAnswerInv, OwnAnswerUnlessAbandoned
<1>4. CASE abandoned
  BY <1>2, <1>3, <1>4 DEF OwnAnswerInv, OneFrameOnItsWay
<1>5. CASE ~abandoned
  <2>1. PICK f \in Requests : call.st # "New" /\ in = <<>> /\ out = <<f>> /\ AsksForCall(f)
    BY <1>2, <1>5 DEF OwnAnswerInv, OneFrameOnItsWay
  <2>2. out' = <<>> /\ Frame = f
    BY <1>2, <2>1, SingleFrame DEF Frame
  <2>3. ASSUME NEW r \in Replies, in' = Append(in, r), RepliesToCall(r)'
        PROVE  OwnAnswerInv'
    <3>1. in' = <<r>>
      BY <2>1, <2>3, SingleFrame
    <3>2. QED
      BY <1>2, <1>3, <2>1, <2>2, <2>3, <3>1 DEF OwnAnswerInv, OneFrameOnItsWay
  <2>4. ASSUME NEW r \in Replies, Answer(r), job = <<>>, AwaitsCiphertext => AnswersCall(r)
        PROVE  OwnAnswerInv'
    <3>1. AwaitsCiphertext' => AnswersCall(r)'
      BY <1>2, <2>4 DEF AwaitsCiphertext, AnswersCall
    <3>2. CASE in' = Append(in, r) /\ UNCHANGED job
      <4>1. JobAnswersCall'
        BY <2>4, <3>2 DEF JobAnswersCall
      <4>2. QED
        BY <2>3, <3>1, <3>2, <4>1 DEF RepliesToCall
    <3>3. CASE job' = <<r>> /\ in' = Append(in, Refusal("NOTREADY"))
      <4>1. AwaitsCiphertext' => JobAnswersCall'
        BY <3>1, <3>3 DEF JobAnswersCall
      <4>2. Refusal("NOTREADY") \in Replies /\ Refusal("NOTREADY").kind = "none"
        BY FrameTypes DEF Refusal
      <4>3. RepliesToCall(Refusal("NOTREADY"))'
        BY <4>1, <4>2 DEF RepliesToCall, AnswersCall
      <4>4. QED
        BY <2>3, <3>3, <4>2, <4>3
    <3>4. QED
      BY <2>4, <3>2, <3>3 DEF Answer
  <2>5. ASSUME DeviceUnlock \/ DeviceHandshakeInit \/ DeviceHandshake1 \/ DeviceHandshake2 \/ DeviceVerify
        PROVE  OwnAnswerInv'
    <3>1. job = <<>> /\ Frame.hww = "NEW" /\ Frame.op # "msg"
      BY <2>5 DEF DeviceUnlock, DeviceHandshakeInit, DeviceHandshake1, DeviceHandshake2,
                  DeviceVerify, DeviceDoes
    <3>2. ~AwaitsCiphertext
      BY <2>1, <2>2, <3>1 DEF AsksForCall
    <3>3. \E r \in Replies : Answer(r)
      <4>1. dev.sid \in Nat /\ dev.key \in Keys /\ Frame.sid \in Nat
        BY <2>2 DEF TypeOK, DeviceTypeOK, Requests
      <4>2. QED
        BY <2>5, <4>1, FrameTypes DEF DeviceUnlock, DeviceHandshakeInit, DeviceHandshake1,
           DeviceHandshake2, DeviceVerify
    <3>4. QED
      BY <2>4, <3>1, <3>2, <3>3
  <2>6. CASE DeviceMessage
    <3>1. job = <<>> /\ Frame.hww = "NEW" /\ Frame.op = "msg"
      BY <2>6 DEF DeviceMessage, DeviceDoes
    <3>2. CASE Answer(Status("failure"))
      <4>1. Status("failure") \in Replies /\ Status("failure").kind = "failure"
        BY FrameTypes DEF Status, Refusal
      <4>2. QED
        BY <2>4, <3>1, <3>2, <4>1 DEF AnswersCall
    <3>3. ASSUME NEW typ \in {AnswerTo(Frame.ctx), "Error"}, Answer(Ciphertext(dev.sid, Frame.n, typ))
          PROVE  OwnAnswerInv'
      <4>1. typ \in ResponseTypes
        BY AnswerTypes DEF ResponseTypes
      <4>2. dev.sid \in Nat /\ Frame.n \in Nat
        BY <2>2 DEF TypeOK, DeviceTypeOK, Requests
      <4>3. PICK r : r = Ciphertext(dev.sid, Frame.n, typ)
        OBVIOUS
      <4>4. r \in Replies
        BY <4>1, <4>2, <4>3, FrameTypes
      <4>5. r.n = f.n
        BY <2>2, <4>3 DEF Ciphertext, Status, Refusal
      <4>6. AwaitsCiphertext => AnswersCall(r)
        BY <2>1, <2>2, <3>1, <4>5 DEF AsksForCall, AnswersCall
      <4>7. QED
        BY <2>4, <3>1, <3>3, <4>3, <4>4, <4>6
    <3>4. QED
      BY <2>6, <3>2, <3>3 DEF DeviceMessage
  <2>7. ASSUME NEW hww \in {"NOTREADY", "BUSY", "NACK"}, in' = Append(in, Refusal(hww)),
               AwaitsCiphertext' /\ hww = "NOTREADY" => JobAnswersCall'
        PROVE  OwnAnswerInv'
    <3>1. Refusal(hww) \in Replies /\ Refusal(hww).kind = "none" /\ Refusal(hww).hww = hww
      BY FrameTypes DEF Refusal
    <3>2. RepliesToCall(Refusal(hww))'
      BY <2>7, <3>1 DEF RepliesToCall, AnswersCall
    <3>3. QED
      BY <2>3, <2>7, <3>1, <3>2
  <2>8. CASE DeviceBusy
    BY <2>7, <2>8 DEF DeviceBusy
  <2>9. CASE DeviceRetry
    <3>1. AwaitsCiphertext => JobAnswersCall
      BY <2>1, <2>2, <2>9 DEF DeviceRetry, AsksForCall
    <3>2. CASE job = <<>> /\ in' = Append(in, Refusal("NACK"))
      BY <2>7, <3>2
    <3>3. CASE job # <<>> /\ in' = Append(in, Refusal("NOTREADY")) /\ UNCHANGED job
      <4>1. AwaitsCiphertext' => JobAnswersCall'
        BY <1>2, <3>1, <3>3 DEF AwaitsCiphertext, JobAnswersCall, AnswersCall
      <4>2. QED
        BY <2>7, <3>3, <4>1
    <3>4. CASE job # <<>> /\ in' = Append(in, job[1]) /\ job' = <<>>
      <4>1. PICK r : r = job[1]
        OBVIOUS
      <4>2. r \in Replies
        BY <3>4, <4>1 DEF TypeOK, DeviceTypeOK
      <4>3. AwaitsCiphertext' => AnswersCall(r)'
        BY <1>2, <3>1, <3>4, <4>1 DEF AwaitsCiphertext, JobAnswersCall, AnswersCall
      <4>4. JobAnswersCall'
        BY <3>4 DEF JobAnswersCall
      <4>5. QED
        BY <2>3, <3>4, <4>1, <4>2, <4>3, <4>4 DEF RepliesToCall
    <3>5. QED
      BY <2>9, <3>2, <3>3, <3>4 DEF DeviceRetry
  <2>10. QED
    BY <2>5, <2>6, <2>8, <2>9 DEF DeviceStep
<1>6. QED
  BY <1>4, <1>5

LEMMA OwnAnswerInvInit == Init => OwnAnswerInv
  BY DEF Init, OwnAnswerInv, OneFrameOnItsWay, OwnAnswerUnlessAbandoned, NewCall, NoResult

LEMMA OwnAnswerInvStep == TypeOK /\ OwnAnswerInv /\ [Next]_vars => OwnAnswerInv'
<1> SUFFICES ASSUME TypeOK, OwnAnswerInv, [Next]_vars PROVE OwnAnswerInv'
  OBVIOUS
<1>1. CASE UNCHANGED vars
  BY <1>1 DEF vars, OwnAnswerInv, OneFrameOnItsWay, OwnAnswerUnlessAbandoned, AsksForCall,
              RepliesToCall, AwaitsCiphertext, JobAnswersCall, AnswersCall
<1>2. QED
  BY <1>1, CallsOneFrame, ReceiveOneFrame, InterruptOneFrame, DeviceOneFrame DEF Next

\* On a connection on which no call was abandoned every answer is that of the
\* request it is returned for, whatever the device refuses or gets wrong and
\* whichever writes fail.
THEOREM OwnAnswers == Spec => []OwnAnswerUnlessAbandoned
<1>1. OwnAnswerInv => OwnAnswerUnlessAbandoned
  BY DEF OwnAnswerInv
<1>2. QED
  BY <1>1, OwnAnswerInvInit, OwnAnswerInvStep, TypeCorrect, PTL DEF Spec
=============================================================================
