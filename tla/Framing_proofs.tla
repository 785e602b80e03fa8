--------------------------- MODULE Framing_proofs ---------------------------
(* What TLAPS proves of Framing, for every value of its constants: the     *)
(* types, and that an exchange returns one whole frame (OwnFrame).         *)
EXTENDS Framing, SequenceFacts, TLAPS

\* A packet with the flag is the last of its frame, and one without is not, but
\* for the Coldcard's one reply that is a single packet.
Flagged(p) ==
  /\ p.flagged => p.i = p.len
  /\ ~p.flagged => (p.i < p.len \/ p.len = 1)

\* q is what comes after p in the channel: the next packet of its frame, or the
\* first one of another.
Follows(p, q) ==
  IF p.i = p.len THEN q.i = 1 ELSE q.i = p.i + 1 /\ q.of = p.of /\ q.len = p.len

\* What the device has sent: whole frames one after another, the first of which
\* may lack its beginning.
WholeFrames ==
  /\ \A j \in 1..Len(in) : Flagged(in[j])
  /\ \A j \in 1..(Len(in) - 1) : Follows(in[j], in[j + 1])
  /\ in # <<>> => in[Len(in)].i = in[Len(in)].len

\* No frame before the one that is read next was cut.
Begins == "cut" \notin past \/ (Calling /\ call.fresh)

\* What has been read of a frame, in order and without its end, and the rest of it
\* is in the channel.
PartOfFrame ==
  LET b == call.buf
  IN  /\ b = <<>> /\ in # <<>> /\ Begins => in[1].i = 1
      /\ b # <<>> =>
           /\ call.st = "read" /\ in # <<>>
           /\ \A j \in 1..Len(b) :
                b[j].of = b[1].of /\ b[j].len = b[1].len /\ b[j].i = b[1].i + j - 1 /\ b[j].i < b[j].len
           /\ in[1].of = b[1].of /\ in[1].len = b[1].len /\ in[1].i = b[1].i + Len(b)
           /\ b[1].i = 1 \/ (link.protocol = "coldcard" /\ ~Begins)

\* All that is on its way belongs to the call, if nothing was when it started.
FreshIsOwn ==
  Calling /\ call.fresh =>
    \A q \in {call.todo, call.buf, out, in, dev} : \A j \in 1..Len(q) : q[j].of = call.n

FramingInv == TypeOK /\ WholeFrames /\ PartOfFrame /\ FreshIsOwn /\ OwnFrame

-----------------------------------------------------------------------------
(* Frames and their packets.                                               *)

\* What a frame is cut into.
LEMMA PacketsFacts ==
  ASSUME NEW n \in 1..MaxCalls, NEW len \in Nat \ {0}
  PROVE  /\ Packets(n, len) \in Seq(Packet) /\ Len(Packets(n, len)) = len
         /\ Packets(n, len) # <<>>
         /\ \A j \in 1..len :
              LET p == Packets(n, len)[j]
              IN  p.of = n /\ p.i = j /\ p.len = len /\ p.flagged = (j = len)
<1>1. \A j \in 1..len : [of |-> n, i |-> j, len |-> len, flagged |-> j = len] \in Packet
  BY DEF Packet
<1>2. QED
  BY <1>1 DEF Packets

LEMMA FramFacts ==
  ASSUME NEW n \in 1..MaxCalls
  PROVE  /\ Fram(n) \in Seq(Packet) /\ Len(Fram(n)) = 1
         /\ Fram(n)[1].of = n /\ Fram(n)[1].i = 1 /\ Fram(n)[1].len = 1 /\ ~Fram(n)[1].flagged
<1>1. [of |-> n, i |-> 1, len |-> 1, flagged |-> FALSE] \in Packet
  BY DEF Packet
<1>2. QED
  BY <1>1 DEF Fram

-----------------------------------------------------------------------------
(* Types.                                                                  *)

CallTypes == [st : {"none", "write", "read"}, n : 0..MaxCalls,
              todo : Seq(Packet), buf : Seq(Packet), fresh : BOOLEAN]
ResultTypes == [status : {"none", "ok", "err", "panic"}, n : 0..MaxCalls,
                frame : Seq(Packet), fresh : BOOLEAN]

LEMMA IdleTypes ==
  /\ Idle \in CallTypes /\ Idle.st = "none" /\ Idle.todo = <<>> /\ Idle.buf = <<>>
  /\ NoResult \in ResultTypes /\ NoResult.status = "none"
  BY BoundsAssumption, EmptyFacts DEF Idle, NoResult, CallTypes, ResultTypes

LEMMA EndsTypes ==
  ASSUME TypeOK, NEW status \in {"ok", "err", "panic"}, NEW frame \in Seq(Packet), Ends(status, frame)
  PROVE  /\ call' \in CallTypes /\ result' \in ResultTypes
         /\ call'.st = "none" /\ call'.todo = <<>>
         /\ Len(call'.todo) <= MaxPackets
<1>1. call' = Idle
  BY DEF Ends
<1>2. result' \in ResultTypes
  BY DEF Ends, TypeOK, ResultTypes
<1>3. Len(<<>>) <= MaxPackets
  BY EmptyFacts, BoundsAssumption
<1>4. QED
  BY <1>1, <1>2, <1>3, IdleTypes

LEMMA WrittenTypes ==
  ASSUME TypeOK, call.st = "write", Written
  PROVE  /\ call' \in CallTypes /\ (call'.st = "write" <=> call'.todo # <<>>)
         /\ call'.n = call.n /\ call'.fresh = call.fresh /\ call'.buf = call.buf
         /\ call'.st # "none"
         /\ call'.todo = Tail(call.todo) /\ Len(call'.todo) = Len(call.todo) - 1
<1>1. call.todo \in Seq(Packet) /\ call.todo # <<>>
  BY DEF TypeOK
<1>2. Tail(call.todo) \in Seq(Packet) /\ Len(Tail(call.todo)) = Len(call.todo) - 1
  BY <1>1, TailFacts
<1>3. QED
  BY <1>1, <1>2 DEF TypeOK, CallTypes, Written

LEMMA ReadOnTypes ==
  ASSUME TypeOK, call.st = "read", NEW buf \in Seq(Packet), ReadOn(buf)
  PROVE  /\ call' \in CallTypes /\ call'.st = "read" /\ call'.todo = call.todo
         /\ call'.n = call.n /\ call'.fresh = call.fresh /\ call'.buf = buf
         /\ result' = result
  BY DEF TypeOK, CallTypes, ReadOn

LEMMA TypesInit ==
  Init => TypeOK
  BY BoundsAssumption, IdleTypes, EmptyFacts DEF Init, TypeOK, CallTypes, ResultTypes

LEMMA StartCallTypes ==
  ASSUME TypeOK, NEW len \in Lengths, StartCall(len)
  PROVE  TypeOK'
<1>1. len \in Nat \ {0} /\ calls + 1 \in 1..MaxCalls
  BY BoundsAssumption, SMTT(60) DEF TypeOK, StartCall
<1>2. CASE Encodes(len)
  <2>1. Packets(calls + 1, len) \in Seq(Packet) /\ Packets(calls + 1, len) # <<>>
        /\ Len(Packets(calls + 1, len)) = len
    BY <1>1, PacketsFacts
  <2>2. call' = [st |-> "write", n |-> calls + 1, todo |-> Packets(calls + 1, len), buf |-> <<>>,
                 fresh |-> out = <<>> /\ in = <<>> /\ dev = <<>>] /\ result' = NoResult
    BY <1>2 DEF StartCall
  <2>3. call' \in CallTypes
    BY <1>1, <2>1, <2>2, EmptyFacts DEF CallTypes
  <2>4. QED
    BY <1>1, <1>2, <2>1, <2>2, <2>3, IdleTypes DEF TypeOK, CallTypes, ResultTypes, StartCall, Encodes
<1>3. CASE ~Encodes(len)
  <2>1. result' = [status |-> "err", n |-> calls + 1, frame |-> <<>>, fresh |-> TRUE] /\ call' = call
    BY <1>3 DEF StartCall, NoResult
  <2>3. result' \in ResultTypes
    BY <1>1, <2>1, EmptyFacts, BoundsAssumption DEF ResultTypes
  <2>2. QED
    BY <1>1, <2>1, <2>3 DEF TypeOK, CallTypes, ResultTypes, StartCall
<1>4. QED
  BY <1>2, <1>3

LEMMA WriteTypes ==
  ASSUME TypeOK, WritePacket \/ FailWrite
  PROVE  TypeOK'
<1>1. /\ call.st = "write" /\ call.todo \in Seq(Packet) /\ call.todo # <<>>
      /\ Len(call.todo) \in Nat /\ Head(call.todo) \in Packet
  BY TailFacts DEF WritePacket, FailWrite, TypeOK
<1>2. CASE WritePacket
  <2>1. out' \in Seq(Packet)
    BY <1>1, <1>2, AppendFacts DEF WritePacket, TypeOK
  <2>2. /\ call' \in CallTypes /\ (call'.st = "write" <=> call'.todo # <<>>)
        /\ Len(call'.todo) <= Len(call.todo)
    BY <1>1, <1>2, WrittenTypes DEF WritePacket
  <2>3. link'.protocol = "u2f" => Len(call'.todo) <= MaxPackets
    BY <1>1, <1>2, <2>2, WrittenTypes, BoundsAssumption DEF WritePacket, TypeOK
  <2>4. QED
    BY <1>2, <2>1, <2>2, <2>3 DEF WritePacket, TypeOK, CallTypes
<1>4. CASE FailWrite
  <2>0. Fault({"failed"}) \/ Fault({"unwritten"})
    BY <1>4 DEF FailWrite
  <2>1. past' \subseteq {"failed", "unwritten", "cut"} /\ faults' \in 0..MaxFaults
    <3>1. past \subseteq {"failed", "unwritten", "cut"} /\ faults \in 0..MaxFaults
      BY DEF TypeOK
    <3>2. past' \subseteq {"failed", "unwritten", "cut"}
      BY <2>0, <3>1 DEF Fault
    <3>3. faults' \in 0..MaxFaults
      BY <2>0, <3>1, BoundsAssumption DEF Fault
    <3>4. QED
      BY <3>2, <3>3
  <2>2. CASE Ends("err", <<>>)
    BY <1>4, <2>1, <2>2, EndsTypes, EmptyFacts DEF FailWrite, TypeOK, CallTypes, ResultTypes
  <2>3. CASE Written /\ UNCHANGED result
    <3>2. call' \in CallTypes /\ (call'.st = "write" <=> call'.todo # <<>>)
      BY <1>1, <2>3, WrittenTypes
    <3>3. link'.protocol = "u2f" => Len(call'.todo) <= MaxPackets
      BY <1>1, <1>4, <2>3, WrittenTypes, BoundsAssumption, SMTT(60) DEF FailWrite, TypeOK
    <3>4. QED
      BY <1>4, <2>1, <2>3, <3>2, <3>3 DEF FailWrite, TypeOK, CallTypes
  <2>4. QED
    BY <1>4, <2>2, <2>3 DEF FailWrite
<1>3. QED
  BY <1>2, <1>4

\* The packets read are packets.
LEMMA BufferTypes ==
  ASSUME TypeOK, in # <<>>
  PROVE  /\ Head(in) \in Packet /\ Head(in) = in[1] /\ Tail(in) \in Seq(Packet)
         /\ Append(call.buf, Head(in)) \in Seq(Packet)
  BY TailFacts, AppendFacts DEF TypeOK

\* A packet read ends the call, or is kept.
LEMMA ReadEndsOrKeeps ==
  ASSUME ReadPacket
  PROVE  LET buf == Append(call.buf, Head(in))
         IN  Ends("err", <<>>) \/ Ends("ok", buf) \/ ReadOn(buf)
  BY DEF ReadPacket, DecodeU2f, DecodeColdcard, DecodeLedger

LEMMA ReadTypes ==
  ASSUME TypeOK, ReadPacket \/ ShortRead \/ Abandon
  PROVE  TypeOK'
<1>1. CASE ReadPacket
  <2> DEFINE buf == Append(call.buf, Head(in))
  <2>1. buf \in Seq(Packet) /\ in' \in Seq(Packet) /\ call.st = "read"
    BY <1>1, BufferTypes DEF ReadPacket
  <2>2. CASE Ends("err", <<>>) \/ Ends("ok", buf)
    BY <1>1, <2>1, <2>2, EndsTypes, EmptyFacts DEF ReadPacket, TypeOK, CallTypes, ResultTypes
  <2>3. CASE ReadOn(buf)
    BY <1>1, <2>1, <2>3, ReadOnTypes DEF ReadPacket, TypeOK, CallTypes, ResultTypes
  <2>4. QED
    BY <1>1, <2>2, <2>3, ReadEndsOrKeeps
<1>2. CASE ShortRead
  <2>1. past' \subseteq {"failed", "unwritten", "cut"} /\ faults' \in 0..MaxFaults /\ in' \in Seq(Packet)
    BY <1>2, BoundsAssumption, BufferTypes, SMTT(60) DEF ShortRead, Fault, TypeOK
  <2>2. Ends("err", <<>>) \/ Ends("panic", <<>>)
    BY <1>2 DEF ShortRead
  <2>3. QED
    BY <1>2, <2>1, <2>2, EndsTypes, EmptyFacts DEF ShortRead, TypeOK, CallTypes, ResultTypes
<1>3. CASE Abandon
  <2>1. past' \subseteq {"failed", "unwritten", "cut"} /\ faults' \in 0..MaxFaults
    BY <1>3, BoundsAssumption DEF Abandon, Fault, TypeOK
  <2>2. QED
    BY <1>3, <2>1, IdleTypes, EmptyFacts, BoundsAssumption DEF Abandon, TypeOK, CallTypes, ResultTypes
<1>4. QED
  BY <1>1, <1>2, <1>3

\* What the device has of a request, with one packet more.
LEMMA CollectedTypes ==
  ASSUME TypeOK, NEW p \in Packet
  PROVE  Collected(p) \in Seq(Packet)
  BY AppendFacts DEF TypeOK, Collected

LEMMA DeviceTypes ==
  ASSUME TypeOK, DeviceReads
  PROVE  TypeOK'
<1> DEFINE p == Head(out)
           got == Collected(p)
<1>1. p \in Packet /\ out' \in Seq(Packet)
  BY TailFacts DEF DeviceReads, TypeOK
<1>2. got \in Seq(Packet) /\ p.of \in 1..MaxCalls
  BY <1>1, CollectedTypes DEF Packet
<1>3. dev' \in Seq(Packet)
  BY <1>2, EmptyFacts DEF DeviceReads
<1>4. in' = in \/ (\E len \in Lengths : in' = in \o Packets(p.of, len)) \/ in' = in \o Fram(p.of)
  BY DEF DeviceReads
<1>5. in' \in Seq(Packet)
  <2>1. \A len \in Lengths : Packets(p.of, len) \in Seq(Packet)
    BY <1>2, PacketsFacts, BoundsAssumption
  <2>2. Fram(p.of) \in Seq(Packet)
    BY <1>2, FramFacts
  <2>3. in \in Seq(Packet)
    BY DEF TypeOK
  <2>4. CASE \E len \in Lengths : in' = in \o Packets(p.of, len)
    BY <2>1, <2>3, <2>4, ConcatFacts
  <2>5. CASE in' = in \o Fram(p.of)
    BY <2>2, <2>3, <2>5, ConcatFacts
  <2>6. QED
    BY <1>4, <2>3, <2>4, <2>5
<1>6. QED
  BY <1>1, <1>3, <1>5 DEF DeviceReads, TypeOK

\* Every variable keeps its type, whatever is sent, lost or cut.
THEOREM TypeCorrect == Spec => []TypeOK
<1>1. TypeOK /\ [Next]_vars => TypeOK'
  <2>1. CASE UNCHANGED vars
    BY <2>1 DEF vars, TypeOK
  <2>2. QED
    BY <2>1, StartCallTypes, WriteTypes, ReadTypes, DeviceTypes DEF Next, HostNext
<1>2. QED
  BY TypesInit, <1>1, PTL DEF Spec

-----------------------------------------------------------------------------
(* One whole frame.                                                        *)

LEMMA InvInit ==
  Init => FramingInv
<1> SUFFICES ASSUME Init PROVE FramingInv
  OBVIOUS
<1>1. TypeOK
  BY TypesInit
<1>2. WholeFrames
  BY EmptyFacts DEF Init, WholeFrames
<1>3. PartOfFrame
  BY EmptyFacts DEF Init, PartOfFrame, Idle
<1>4. FreshIsOwn
  BY DEF Init, FreshIsOwn, Calling, Idle
<1>5. OwnFrame
  BY DEF Init, OwnFrame, NoResult
<1>6. QED
  BY <1>1, <1>2, <1>3, <1>4, <1>5 DEF FramingInv

\* A call that is over has read nothing of a frame.
LEMMA NothingRead ==
  ASSUME PartOfFrame, call.st # "read"
  PROVE  call.buf = <<>> /\ (in # <<>> /\ Begins => in[1].i = 1)
  BY DEF PartOfFrame

\* What a call returned stays, or is nothing.
LEMMA ResultStays ==
  ASSUME OwnFrame, past \subseteq past', link' = link, result' = result \/ result'.status # "ok"
  PROVE  OwnFrame'
  BY DEF OwnFrame, Whole

LEMMA StartCallInv ==
  ASSUME FramingInv, NEW len \in Lengths, StartCall(len)
  PROVE  FramingInv'
<1> USE DEF FramingInv
<1>0. TypeOK'
  BY StartCallTypes
<1>1. call.st = "none" /\ calls + 1 \in 1..MaxCalls /\ len \in Nat \ {0}
  BY BoundsAssumption, SMTT(60) DEF StartCall, Calling, TypeOK
<1>2. WholeFrames'
  BY DEF WholeFrames, StartCall
<1>3. call.buf = <<>> /\ (in # <<>> /\ Begins => in[1].i = 1)
  BY <1>1, NothingRead
<1>4. CASE Encodes(len)
  <2> DEFINE nothing == out = <<>> /\ in = <<>> /\ dev = <<>>
  <2>0. call' = [st |-> "write", n |-> calls + 1, todo |-> Packets(calls + 1, len), buf |-> <<>>,
                 fresh |-> nothing]
    BY <1>4 DEF StartCall
  <2> HIDE DEF nothing
  <2>a. /\ call'.st = "write" /\ call'.buf = <<>> /\ call'.n = calls + 1
        /\ call'.todo = Packets(calls + 1, len) /\ call'.fresh = nothing
    BY <2>0
  <2>1. /\ call'.st = "write" /\ call'.buf = <<>> /\ call'.n = calls + 1
        /\ call'.todo = Packets(calls + 1, len)
        /\ call'.fresh => out = <<>> /\ in = <<>> /\ dev = <<>>
    BY <2>a DEF nothing
  <2>2. PartOfFrame'
    BY <1>3, <2>1 DEF StartCall, PartOfFrame, Begins, Calling
  <2>3. \A j \in 1..Len(call'.todo) : call'.todo[j].of = call'.n
    <3>1. /\ Len(Packets(calls + 1, len)) = len
          /\ \A j \in 1..len : Packets(calls + 1, len)[j].of = calls + 1
      BY <1>1, PacketsFacts
    <3>2. QED
      BY <2>1, <3>1
  <2>4. FreshIsOwn'
    BY <2>1, <2>3, EmptyFacts DEF StartCall, FreshIsOwn
  <2>5. OwnFrame'
    BY <1>4, ResultStays, IdleTypes DEF StartCall
  <2>6. QED
    BY <1>0, <1>2, <2>2, <2>4, <2>5
<1>5. CASE ~Encodes(len)
  <2>1. call' = call /\ result'.status = "err"
    BY <1>5 DEF StartCall, NoResult
  <2>2. PartOfFrame' /\ FreshIsOwn'
    BY <2>1 DEF StartCall, PartOfFrame, FreshIsOwn, Begins, Calling
  <2>3. OwnFrame'
    BY <2>1, ResultStays DEF StartCall
  <2>4. QED
    BY <1>0, <1>2, <2>2, <2>3
<1>6. QED
  BY <1>4, <1>5

\* A packet of the request is no longer the call's to write.
LEMMA WrittenInv ==
  ASSUME FramingInv, call.st = "write", Written, in' = in, dev' = dev, link' = link,
         "cut" \in past => "cut" \in past',
         out' = out \/ out' = Append(out, Head(call.todo))
  PROVE  WholeFrames' /\ PartOfFrame' /\ FreshIsOwn'
<1>1. /\ call'.buf = call.buf /\ call'.st # "none" /\ call'.fresh = call.fresh /\ call'.n = call.n
      /\ call'.todo = Tail(call.todo)
  BY WrittenTypes DEF FramingInv
<1>2. WholeFrames'
  BY DEF FramingInv, WholeFrames
<1>3. call.buf = <<>> /\ (in # <<>> /\ Begins => in[1].i = 1)
  BY NothingRead DEF FramingInv
<1>4. PartOfFrame'
  BY <1>1, <1>3 DEF PartOfFrame, Begins, Calling
<1>5. FreshIsOwn'
  <2> SUFFICES ASSUME call.fresh
               PROVE  \A q \in {call'.todo, call'.buf, out', in', dev'} :
                        \A j \in 1..Len(q) : q[j].of = call.n
    BY <1>1 DEF FreshIsOwn
  <2>1. \A q \in {call.todo, call.buf, out, in, dev} : \A j \in 1..Len(q) : q[j].of = call.n
    BY DEF FramingInv, FreshIsOwn, Calling
  <2>2. call.todo \in Seq(Packet) /\ call.todo # <<>> /\ out \in Seq(Packet)
    BY DEF FramingInv, TypeOK
  <2>3. /\ Len(call.todo) \in Nat /\ Len(call.todo) > 0 /\ Head(call.todo) \in Packet
        /\ Head(call.todo) = call.todo[1]
    BY <2>2, TailFacts
  <2>4. \A j \in 1..Len(call'.todo) : call'.todo[j].of = call.n
    <3>1. /\ Len(call'.todo) = Len(call.todo) - 1
          /\ \A j \in 1..Len(call'.todo) : call'.todo[j] = call.todo[j + 1]
      BY <1>1, <2>2, TailFacts
    <3>2. \A j \in 1..Len(call'.todo) : j + 1 \in 1..Len(call.todo)
      BY <2>3, <3>1
    <3>3. QED
      BY <2>1, <3>1, <3>2
  <2>5. \A j \in 1..Len(out') : out'[j].of = call.n
    <3>1. CASE out' = out
      BY <2>1, <3>1
    <3>2. CASE out' = Append(out, Head(call.todo))
      <4>1. /\ Len(out') = Len(out) + 1 /\ Len(out) \in Nat
            /\ \A j \in 1..Len(out) : out'[j] = out[j]
            /\ out'[Len(out) + 1] = Head(call.todo)
        BY <2>2, <2>3, <3>2, AppendFacts
      <4>2. Head(call.todo).of = call.n
        BY <2>1, <2>3
      <4>3. \A j \in 1..Len(out') : j \in 1..Len(out) \/ j = Len(out) + 1
        BY <4>1
      <4>4. QED
        BY <2>1, <4>1, <4>2, <4>3
    <3>3. QED
      BY <3>1, <3>2
  <2>6. QED
    BY <1>1, <2>1, <2>4, <2>5, ZenonT(90)
<1>6. QED
  BY <1>2, <1>4, <1>5

\* A call that ends without a frame, and leaves the channel as it is.
LEMMA EndsInv ==
  ASSUME FramingInv, call' = Idle, in' = in, link' = link, "cut" \in past => "cut" \in past',
         call.buf # <<>> => "cut" \in past'
  PROVE  WholeFrames' /\ PartOfFrame' /\ FreshIsOwn'
<1>1. call'.st = "none" /\ call'.buf = <<>>
  BY IdleTypes
<1>2. WholeFrames'
  BY DEF FramingInv, WholeFrames
<1>3. PartOfFrame'
  BY <1>1 DEF FramingInv, PartOfFrame, Begins, Calling
<1>4. FreshIsOwn'
  BY <1>1 DEF FreshIsOwn, Calling
<1>5. QED
  BY <1>2, <1>3, <1>4

LEMMA WriteInv ==
  ASSUME FramingInv, WritePacket \/ FailWrite
  PROVE  FramingInv'
<1>1. TypeOK'
  BY WriteTypes DEF FramingInv
<1>2. CASE WritePacket
  <2>1. WholeFrames' /\ PartOfFrame' /\ FreshIsOwn'
    BY <1>2, WrittenInv DEF WritePacket
  <2>2. OwnFrame'
    BY <1>2, ResultStays DEF WritePacket, FramingInv
  <2>3. QED
    BY <1>1, <2>1, <2>2 DEF FramingInv
<1>3. CASE FailWrite
  <2>1. /\ call.st = "write" /\ in' = in /\ out' = out /\ dev' = dev /\ link' = link
        /\ past \subseteq past' /\ call.buf = <<>>
    BY <1>3, NothingRead DEF FailWrite, Fault, FramingInv
  <2>2. CASE Ends("err", <<>>)
    <3>1. call' = Idle /\ result'.status = "err"
      BY <2>2 DEF Ends
    <3>2. WholeFrames' /\ PartOfFrame' /\ FreshIsOwn'
      BY <2>1, <3>1, EndsInv
    <3>3. OwnFrame'
      BY <2>1, <3>1, ResultStays DEF FramingInv
    <3>4. QED
      BY <1>1, <3>2, <3>3 DEF FramingInv
  <2>3. CASE Written /\ UNCHANGED result
    <3>1. WholeFrames' /\ PartOfFrame' /\ FreshIsOwn'
      BY <2>1, <2>3, WrittenInv
    <3>2. OwnFrame'
      BY <2>1, <2>3, ResultStays DEF FramingInv
    <3>3. QED
      BY <1>1, <3>1, <3>2 DEF FramingInv
  <2>4. QED
    BY <1>3, <2>2, <2>3 DEF FailWrite
<1>4. QED
  BY <1>2, <1>3

\* A packet read, after those that were read before it.
LEMMA NextPacket ==
  ASSUME FramingInv, ReadPacket,
         NEW p, p = Head(in), NEW buf, buf = Append(call.buf, p)
  PROVE  /\ buf \in Seq(Packet) /\ Len(buf) = Len(call.buf) + 1 /\ Len(call.buf) \in Nat
         /\ buf[Len(buf)] = p /\ Head(buf) = buf[1] /\ p \in Packet /\ Flagged(p)
         /\ \A j \in 1..Len(buf) :
              buf[j].of = buf[1].of /\ buf[j].len = buf[1].len /\ buf[j].i = buf[1].i + j - 1
         /\ \A j \in 1..Len(call.buf) : buf[j].i < buf[j].len
         /\ buf[1].i \in Nat /\ buf[1].i >= 1 /\ buf[1].len \in Nat
         /\ buf[1].i = 1 \/ (~Begins /\ (call.buf # <<>> => link.protocol = "coldcard"))
<1> DEFINE b == call.buf
<1>1. b \in Seq(Packet) /\ in \in Seq(Packet) /\ in # <<>> /\ call.st = "read" /\ Len(b) \in Nat
  BY EmptyFacts DEF FramingInv, TypeOK, ReadPacket
<1>2. p = in[1] /\ p \in Packet /\ Len(in) \in Nat /\ Len(in) > 0
  BY <1>1, TailFacts
<1>3. /\ buf \in Seq(Packet) /\ Len(buf) = Len(b) + 1 /\ buf # <<>>
      /\ \A j \in 1..Len(b) : buf[j] = b[j]
      /\ buf[Len(b) + 1] = p
  BY <1>1, <1>2, AppendFacts, SMTT(60)
<1>4. Head(buf) = buf[1] /\ buf[1] \in Packet
  BY <1>3, TailFacts
<1>5. buf[1].i \in Nat /\ buf[1].i >= 1 /\ buf[1].len \in Nat
  BY <1>4 DEF Packet
<1>6. Flagged(p)
  BY <1>2 DEF FramingInv, WholeFrames
<1>7. CASE b = <<>>
  <2>1. Len(b) = 0 /\ buf[1] = p
    BY <1>3, <1>7, EmptyFacts
  <2>2. p.i = 1 \/ ~Begins
    BY <1>1, <1>2, <1>7 DEF FramingInv, PartOfFrame
  <2>3. \A j \in 1..Len(buf) : j = 1
    BY <1>3, <2>1
  <2>4. QED
    BY <1>2, <1>3, <1>4, <1>5, <1>6, <1>7, <2>1, <2>2, <2>3
<1>8. CASE b # <<>>
  <2>1. Len(b) >= 1 /\ buf[1] = b[1]
    BY <1>1, <1>3, <1>8, EmptyFacts
  <2>2. /\ \A j \in 1..Len(b) :
             b[j].of = b[1].of /\ b[j].len = b[1].len /\ b[j].i = b[1].i + j - 1 /\ b[j].i < b[j].len
        /\ in[1].of = b[1].of /\ in[1].len = b[1].len /\ in[1].i = b[1].i + Len(b)
        /\ b[1].i = 1 \/ (link.protocol = "coldcard" /\ ~Begins)
    BY <1>8 DEF FramingInv, PartOfFrame
  <2>3. \A j \in 1..Len(buf) : j \in 1..Len(b) \/ j = Len(b) + 1
    BY <1>1, <1>3
  <2>4. \A j \in 1..Len(b) :
           buf[j].of = buf[1].of /\ buf[j].len = buf[1].len /\ buf[j].i = buf[1].i + j - 1
           /\ buf[j].i < buf[j].len
    BY <1>3, <2>1, <2>2, ZenonT(60)
  <2>5. p.of = buf[1].of /\ p.len = buf[1].len /\ p.i = buf[1].i + (Len(b) + 1) - 1
    BY <1>1, <1>2, <1>5, <2>1, <2>2
  <2>6. \A j \in 1..Len(buf) :
           buf[j].of = buf[1].of /\ buf[j].len = buf[1].len /\ buf[j].i = buf[1].i + j - 1
    BY <1>3, <2>3, <2>4, <2>5
  <2>7. QED
    BY <1>1, <1>2, <1>3, <1>4, <1>5, <1>6, <2>1, <2>2, <2>4, <2>6
<1>9. QED
  BY <1>7, <1>8

\* A frame is refused when its beginning is missing, returned when its last packet
\* is there, and waited for until then.
LEMMA Decoded ==
  ASSUME FramingInv, ReadPacket,
         NEW p, p = Head(in), NEW buf, buf = Append(call.buf, p)
  PROVE  \/ Ends("err", <<>>) /\ ~Begins
         \/ Ends("ok", buf) /\ p.i = p.len /\ (buf[1].i = 1 \/ (link.protocol = "coldcard" /\ ~Begins))
         \/ ReadOn(buf) /\ p.i < p.len /\ (buf[1].i = 1 \/ (link.protocol = "coldcard" /\ ~Begins))
<1>1. /\ buf \in Seq(Packet) /\ Len(buf) = Len(call.buf) + 1 /\ Len(call.buf) \in Nat
      /\ buf[Len(buf)] = p /\ Head(buf) = buf[1] /\ Flagged(p)
      /\ p.of = buf[1].of /\ p.len = buf[1].len /\ p.i = buf[1].i + Len(buf) - 1
      /\ buf[1].i \in Nat /\ buf[1].i >= 1 /\ buf[1].len \in Nat
      /\ buf[1].i = 1 \/ (~Begins /\ (call.buf # <<>> => link.protocol = "coldcard"))
      /\ call.buf = <<>> <=> Len(buf) = 1
  <2>a. /\ buf \in Seq(Packet) /\ Len(buf) = Len(call.buf) + 1 /\ Len(call.buf) \in Nat
        /\ buf[Len(buf)] = p /\ Head(buf) = buf[1] /\ Flagged(p)
    BY NextPacket
  <2>b. \A j \in 1..Len(buf) :
              buf[j].of = buf[1].of /\ buf[j].len = buf[1].len /\ buf[j].i = buf[1].i + j - 1
    BY <2>a, NextPacket, ZenonT(60)
  <2>d. buf[1].i \in Nat /\ buf[1].i >= 1 /\ buf[1].len \in Nat
    BY NextPacket
  <2>c. buf[1].i = 1 \/ (~Begins /\ (call.buf # <<>> => link.protocol = "coldcard"))
    BY NextPacket, ZenonT(60)
  <2>1. /\ buf \in Seq(Packet) /\ Len(buf) = Len(call.buf) + 1 /\ Len(call.buf) \in Nat
        /\ buf[Len(buf)] = p /\ Head(buf) = buf[1] /\ Flagged(p)
        /\ \A j \in 1..Len(buf) :
              buf[j].of = buf[1].of /\ buf[j].len = buf[1].len /\ buf[j].i = buf[1].i + j - 1
        /\ buf[1].i \in Nat /\ buf[1].i >= 1 /\ buf[1].len \in Nat
        /\ buf[1].i = 1 \/ (~Begins /\ (call.buf # <<>> => link.protocol = "coldcard"))
    BY <2>a, <2>b, <2>c, <2>d
  <2>2. Len(buf) \in 1..Len(buf) /\ call.buf \in Seq(Packet)
    BY <2>1 DEF FramingInv, TypeOK
  <2>3. call.buf = <<>> <=> Len(call.buf) = 0
    BY <2>2, EmptyFacts
  <2>4. p.of = buf[1].of /\ p.len = buf[1].len /\ p.i = buf[1].i + Len(buf) - 1
    BY <2>1, <2>2
  <2>5. call.buf = <<>> <=> Len(buf) = 1
    BY <2>1, <2>3
  <2>6. QED
    BY <2>1, <2>4, <2>5
<1>2. link \in Links /\ link.protocol \in {"u2f", "coldcard", "ledger"} /\ p.i \in Nat /\ p.i <= p.len
  <2>1. link \in Links /\ p \in Packet
    BY NextPacket DEF FramingInv, TypeOK
  <2>2. QED
    BY <2>1, LinksAssumption DEF Packet
<1>3. CASE link.protocol = "u2f"
  <2>1. DecodeU2f(buf)
    BY <1>3 DEF ReadPacket
  <2>2. QED
    BY <1>1, <1>2, <1>3, <2>1 DEF DecodeU2f, First
<1>4. CASE link.protocol = "coldcard"
  <2>1. DecodeColdcard(buf)
    BY <1>4 DEF ReadPacket
  <2>2. CASE Ends("ok", buf) /\ (p.flagged \/ (Len(buf) = 1 /\ IsFram(p)))
    <3>1. p.i = p.len
      BY <1>1, <1>2, <2>2 DEF IsFram, Flagged
    <3>2. QED
      BY <1>1, <1>4, <2>2, <3>1
  <2>3. CASE ReadOn(buf) /\ ~(p.flagged \/ (Len(buf) = 1 /\ IsFram(p)))
    <3>1. p.i < p.len
      BY <1>1, <1>2, <2>3 DEF IsFram, Flagged
    <3>2. QED
      BY <1>1, <1>4, <2>3, <3>1
  <2>4. QED
    BY <1>1, <2>1, <2>2, <2>3 DEF DecodeColdcard
<1>5. CASE link.protocol = "ledger"
  <2>1. DecodeLedger(buf)
    BY <1>5 DEF ReadPacket
  <2>2. QED
    BY <1>1, <1>2, <1>5, <2>1 DEF DecodeLedger
<1>6. QED
  BY <1>2, <1>3, <1>4, <1>5

\* What is left in the channel when a packet was taken from it.
LEMMA TailOfChannel ==
  ASSUME FramingInv, in # <<>>, in' = Tail(in)
  PROVE  /\ WholeFrames'
         /\ in' = <<>> => Head(in).i = Head(in).len
         /\ in' # <<>> => Follows(Head(in), in'[1])
         /\ \A j \in 1..Len(in') : \E k \in 1..Len(in) : in'[j] = in[k]
<1>1. /\ in \in Seq(Packet) /\ Len(in) \in Nat /\ Len(in) > 0 /\ Head(in) = in[1]
      /\ in' \in Seq(Packet) /\ Len(in') = Len(in) - 1
      /\ \A j \in 1..Len(in') : in'[j] = in[j + 1]
  BY TailFacts DEF FramingInv, TypeOK
<1>2. in' = <<>> <=> Len(in) = 1
  <2>1. in' = <<>> <=> Len(in') = 0
    BY <1>1, EmptyFacts
  <2>2. QED
    BY <1>1, <2>1
<1>3. WholeFrames
  BY DEF FramingInv
<1>4. \A j \in 1..Len(in') : j + 1 \in 1..Len(in) /\ in'[j] = in[j + 1]
  BY <1>1
<1>5. \A j \in 1..Len(in') : Flagged(in'[j])
  BY <1>3, <1>4 DEF WholeFrames
<1>6. \A j \in 1..(Len(in') - 1) : Follows(in'[j], in'[j + 1])
  <2> SUFFICES ASSUME NEW j \in 1..(Len(in') - 1)
               PROVE  Follows(in'[j], in'[j + 1])
    OBVIOUS
  <2>1. j + 1 \in 1..(Len(in) - 1) /\ in'[j] = in[j + 1] /\ in'[j + 1] = in[(j + 1) + 1]
    BY <1>1
  <2>2. QED
    BY <1>3, <2>1 DEF WholeFrames
<1>7. in' # <<>> => in'[Len(in')].i = in'[Len(in')].len
  <2> SUFFICES ASSUME in' # <<>>
               PROVE  in'[Len(in')].i = in'[Len(in')].len
    OBVIOUS
  <2>1. in'[Len(in')] = in[Len(in)]
    BY <1>1, <1>2
  <2>2. QED
    BY <1>3, <2>1 DEF WholeFrames
<1>8. in' = <<>> => Head(in).i = Head(in).len
  BY <1>1, <1>2, <1>3 DEF WholeFrames
<1>9. in' # <<>> => Follows(Head(in), in'[1])
  <2> SUFFICES ASSUME in' # <<>>
               PROVE  Follows(Head(in), in'[1])
    OBVIOUS
  <2>1. 1 \in 1..(Len(in) - 1) /\ in'[1] = in[1 + 1]
    BY <1>1, <1>2
  <2>2. QED
    BY <1>1, <1>3, <2>1 DEF WholeFrames
<1>10. WholeFrames'
  BY <1>5, <1>6, <1>7 DEF WholeFrames
<1>11. QED
  BY <1>4, <1>8, <1>9, <1>10

LEMMA ReadInv ==
  ASSUME FramingInv, ReadPacket
  PROVE  FramingInv'
<1> DEFINE p == Head(in)
           buf == Append(call.buf, p)
<1>1. TypeOK'
  BY ReadTypes DEF FramingInv
<1>2. /\ in # <<>> /\ in' = Tail(in) /\ call.st = "read"
      /\ link' = link /\ past' = past /\ out' = out /\ dev' = dev
  BY DEF ReadPacket
<1>3. /\ WholeFrames'
      /\ in' = <<>> => p.i = p.len
      /\ in' # <<>> => Follows(p, in'[1])
      /\ \A j \in 1..Len(in') : \E k \in 1..Len(in) : in'[j] = in[k]
  BY <1>2, TailOfChannel
<1>4. /\ buf \in Seq(Packet) /\ Len(buf) = Len(call.buf) + 1 /\ Len(call.buf) \in Nat
      /\ buf[Len(buf)] = p /\ p \in Packet
      /\ \A j \in 1..Len(buf) :
           buf[j].of = buf[1].of /\ buf[j].len = buf[1].len /\ buf[j].i = buf[1].i + j - 1
      /\ \A j \in 1..Len(call.buf) : buf[j].i < buf[j].len
      /\ buf[1].i \in Nat /\ buf[1].len \in Nat
  BY NextPacket, ZenonT(90)
<1>5. p.of = buf[1].of /\ p.len = buf[1].len /\ p.i = buf[1].i + Len(buf) - 1
  <2>1. Len(buf) \in 1..Len(buf)
    BY <1>4
  <2>2. QED
    BY <1>4, <2>1
<1>6. OwnFrame /\ FreshIsOwn /\ call \in CallTypes
  BY DEF FramingInv, TypeOK, CallTypes
<1>a. p = in[1] /\ 1 \in 1..Len(in)
  BY <1>2, TailFacts DEF FramingInv, TypeOK
<1>b. \/ Ends("err", <<>>) /\ ~Begins
      \/ Ends("ok", buf) /\ p.i = p.len /\ (buf[1].i = 1 \/ (link.protocol = "coldcard" /\ ~Begins))
      \/ ReadOn(buf) /\ p.i < p.len /\ (buf[1].i = 1 \/ (link.protocol = "coldcard" /\ ~Begins))
  BY Decoded
<1> HIDE DEF p, buf
<1>7. CASE Ends("err", <<>>) /\ ~Begins
  <2>1. call' = Idle /\ result'.status = "err" /\ "cut" \in past
    BY <1>7 DEF Ends, Begins
  <2>2. call'.st = "none" /\ call'.buf = <<>>
    BY <2>1, IdleTypes
  <2>3. PartOfFrame' /\ FreshIsOwn'
    BY <1>2, <2>1, <2>2 DEF PartOfFrame, FreshIsOwn, Begins, Calling
  <2>4. OwnFrame'
    BY <1>2, <1>6, <2>1, ResultStays
  <2>5. QED
    BY <1>1, <1>3, <2>3, <2>4 DEF FramingInv
<1>8. CASE Ends("ok", buf) /\ p.i = p.len /\ (buf[1].i = 1 \/ (link.protocol = "coldcard" /\ ~Begins))
  <2>1. /\ call' = Idle
        /\ result' = [status |-> "ok", n |-> call.n, frame |-> buf, fresh |-> call.fresh]
    BY <1>8 DEF Ends
  <2>2. call'.st = "none" /\ call'.buf = <<>>
    BY <2>1, IdleTypes
  <2>3. in' # <<>> => in'[1].i = 1
    BY <1>3, <1>8 DEF Follows
  <2>4. PartOfFrame' /\ FreshIsOwn'
    BY <2>2, <2>3 DEF PartOfFrame, FreshIsOwn, Calling
  <2>5. buf[1].i = 1 => Whole(buf)
    <3> SUFFICES ASSUME buf[1].i = 1, NEW j \in DOMAIN buf
                 PROVE  buf[j].i = j /\ buf[j].of = buf[1].of /\ buf[j].len = Len(buf)
      BY DEF Whole
    <3>1. j \in 1..Len(buf)
      BY <1>4
    <3>2. buf[1].len = Len(buf)
      BY <1>4, <1>5, <1>8
    <3>3. QED
      BY <1>4, <3>1, <3>2
  <2>6. (link.protocol = "coldcard" /\ "cut" \in past) \/ Whole(buf)
    BY <1>8, <2>5 DEF Begins
  <2>7. call.fresh => Whole(buf) /\ buf[1].of = call.n
    <3> SUFFICES ASSUME call.fresh
                 PROVE  Whole(buf) /\ buf[1].of = call.n
      OBVIOUS
    <3>1. Calling /\ Begins
      BY <1>2 DEF Begins, Calling
    <3>2. \A q \in {call.buf, in} : \A j \in 1..Len(q) : q[j].of = call.n
      BY <1>6, <3>1 DEF FreshIsOwn
    <3>3. p.of = call.n
      BY <1>a, <3>2
    <3>4. QED
      BY <1>5, <1>8, <2>5, <3>1, <3>3
  <2>8. result'.frame = buf /\ result'.fresh = call.fresh /\ result'.n = call.n
    BY <2>1
  <2>9. OwnFrame'
    BY <1>2, <2>6, <2>7, <2>8 DEF OwnFrame, Whole
  <2>10. QED
    BY <1>1, <1>3, <2>4, <2>9 DEF FramingInv
<1>9. CASE ReadOn(buf) /\ p.i < p.len /\ (buf[1].i = 1 \/ (link.protocol = "coldcard" /\ ~Begins))
  <2>1. /\ call'.st = "read" /\ call'.todo = call.todo /\ call'.n = call.n
        /\ call'.fresh = call.fresh /\ call'.buf = buf /\ result' = result
    BY <1>2, <1>4, <1>9, ReadOnTypes DEF FramingInv
  <2>2. in' # <<>> /\ in'[1].of = p.of /\ in'[1].len = p.len /\ in'[1].i = p.i + 1
    <3>1. p.i \in Nat /\ p.len \in Nat
      BY <1>4 DEF Packet
    <3>2. p.i # p.len
      BY <1>9, <3>1
    <3>3. QED
      BY <1>3, <3>2 DEF Follows
  <2>3. buf # <<>>
    BY <1>4, EmptyFacts
  <2>4. \A j \in 1..Len(buf) : buf[j].i < buf[j].len
    <3>1. \A j \in 1..Len(buf) : j \in 1..Len(call.buf) \/ j = Len(buf)
      BY <1>4
    <3>2. QED
      BY <1>4, <1>9, <3>1
  <2>5. in'[1].i = buf[1].i + Len(buf)
    <3>1. buf[1].i \in Nat /\ Len(buf) \in Nat
      BY <1>4
    <3>2. QED
      BY <1>5, <2>2, <3>1
  <2>6. Begins' <=> Begins
    BY <1>2, <2>1 DEF Begins, Calling
  <2>7. PartOfFrame'
    BY <1>2, <1>4, <1>5, <1>9, <2>1, <2>2, <2>3, <2>4, <2>5, <2>6 DEF PartOfFrame
  <2>8. FreshIsOwn'
    <3> SUFFICES ASSUME call.fresh
                 PROVE  \A q \in {call.todo, buf, out, in', dev} : \A j \in 1..Len(q) : q[j].of = call.n
      BY <1>2, <2>1, ZenonT(90) DEF FreshIsOwn
    <3>1. \A q \in {call.todo, call.buf, out, in, dev} : \A j \in 1..Len(q) : q[j].of = call.n
      BY <1>2, <1>6 DEF FreshIsOwn, Calling
    <3>2. p.of = call.n
      BY <1>a, <3>1
    <3>3. \A j \in 1..Len(buf) : buf[j].of = call.n
      BY <1>4, <1>5, <3>2
    <3>4. \A j \in 1..Len(in') : in'[j].of = call.n
      BY <1>3, <3>1
    <3>5. QED
      BY <3>1, <3>3, <3>4
  <2>9. OwnFrame'
    BY <1>2, <1>6, <2>1, ResultStays
  <2>10. QED
    BY <1>1, <1>3, <2>7, <2>8, <2>9 DEF FramingInv
<1>10. QED
  BY <1>7, <1>8, <1>9, <1>b

LEMMA DroppedInv ==
  ASSUME FramingInv, ShortRead \/ Abandon
  PROVE  FramingInv'
<1>1. TypeOK'
  BY ReadTypes DEF FramingInv
<1>2. CASE ShortRead
  <2>1. /\ call' = Idle /\ result'.status # "ok" /\ "cut" \in past' /\ past \subseteq past'
        /\ in # <<>> /\ in' = Tail(in) /\ link' = link
    BY <1>2 DEF ShortRead, Fault, Ends
  <2>2. WholeFrames'
    BY <2>1, TailOfChannel
  <2>3. call'.st = "none" /\ call'.buf = <<>>
    BY <2>1, IdleTypes
  <2>4. PartOfFrame' /\ FreshIsOwn'
    BY <2>1, <2>3 DEF PartOfFrame, FreshIsOwn, Begins, Calling
  <2>5. OwnFrame'
    BY <2>1, ResultStays DEF FramingInv
  <2>6. QED
    BY <1>1, <2>2, <2>4, <2>5 DEF FramingInv
<1>3. CASE Abandon
  <2>1. /\ call' = Idle /\ result'.status # "ok" /\ past \subseteq past'
        /\ call.buf # <<>> => "cut" \in past'
        /\ in' = in /\ link' = link
    BY <1>3, IdleTypes DEF Abandon, Fault
  <2>2. WholeFrames' /\ PartOfFrame' /\ FreshIsOwn'
    BY <2>1, EndsInv
  <2>3. OwnFrame'
    BY <2>1, ResultStays DEF FramingInv
  <2>4. QED
    BY <1>1, <2>2, <2>3 DEF FramingInv
<1>4. QED
  BY <1>2, <1>3

\* A whole frame comes after what is in the channel.
LEMMA FrameArrives ==
  ASSUME FramingInv, NEW frame \in Seq(Packet), frame # <<>>, in' = in \o frame,
         call' = call, link' = link, past' = past,
         \A j \in 1..Len(frame) :
            frame[j].i = j /\ frame[j].len = Len(frame) /\ frame[j].of = frame[1].of /\ Flagged(frame[j])
  PROVE  WholeFrames' /\ PartOfFrame'
<1>1. /\ in \in Seq(Packet) /\ Len(in) \in Nat /\ Len(frame) \in Nat /\ Len(frame) > 0
      /\ in = <<>> <=> Len(in) = 0
  BY EmptyFacts DEF FramingInv, TypeOK
<1>2. /\ in' \in Seq(Packet) /\ Len(in') = Len(in) + Len(frame)
      /\ \A j \in 1..Len(in) : in'[j] = in[j]
      /\ \A j \in 1..Len(frame) : in'[Len(in) + j] = frame[j]
  BY <1>1, ConcatFacts
<1>3. \A j \in 1..Len(in') :
        \/ j \in 1..Len(in) /\ in'[j] = in[j]
        \/ j - Len(in) \in 1..Len(frame) /\ in'[j] = frame[j - Len(in)]
  <2> SUFFICES ASSUME NEW j \in 1..Len(in'), ~(j \in 1..Len(in))
               PROVE  j - Len(in) \in 1..Len(frame) /\ in'[j] = frame[j - Len(in)]
    BY <1>2
  <2>1. j - Len(in) \in 1..Len(frame) /\ Len(in) + (j - Len(in)) = j
    BY <1>1, <1>2
  <2>2. QED
    BY <1>2, <2>1
<1>4. WholeFrames
  BY DEF FramingInv
<1>5. \A j \in 1..Len(in') : Flagged(in'[j])
  BY <1>3, <1>4 DEF WholeFrames
<1>6. \A j \in 1..(Len(in') - 1) : Follows(in'[j], in'[j + 1])
  <2> SUFFICES ASSUME NEW j \in 1..(Len(in') - 1)
               PROVE  Follows(in'[j], in'[j + 1])
    OBVIOUS
  <2>1. CASE j < Len(in)
    <3>1. j \in 1..(Len(in) - 1) /\ in'[j] = in[j] /\ in'[j + 1] = in[j + 1]
      BY <1>1, <1>2, <2>1
    <3>2. QED
      BY <1>4, <3>1 DEF WholeFrames
  <2>2. CASE j = Len(in)
    <3>1. in # <<>> /\ in'[j] = in[Len(in)] /\ in'[j + 1] = frame[1]
      BY <1>1, <1>2, <2>2
    <3>2. in'[j].i = in'[j].len
      BY <1>4, <3>1 DEF WholeFrames
    <3>3. in'[j + 1].i = 1
      BY <1>1, <3>1
    <3>4. QED
      BY <3>2, <3>3 DEF Follows
  <2>3. CASE j > Len(in)
    <3> DEFINE k == j - Len(in)
    <3>1. k \in 1..(Len(frame) - 1) /\ k + 1 \in 1..Len(frame) /\ Len(in) + k = j /\ Len(in) + (k + 1) = j + 1
      BY <1>1, <1>2, <2>3
    <3>2. in'[j] = frame[k] /\ in'[j + 1] = frame[k + 1]
      BY <1>2, <3>1
    <3> HIDE DEF k
    <3>3. /\ frame[k].i = k /\ frame[k].len = Len(frame)
          /\ frame[k + 1].i = k + 1 /\ frame[k + 1].len = Len(frame) /\ frame[k + 1].of = frame[k].of
      BY <3>1
    <3>4. k # Len(frame)
      BY <1>1, <3>1
    <3>5. QED
      BY <3>2, <3>3, <3>4 DEF Follows
  <2>4. QED
    BY <1>1, <2>1, <2>2, <2>3, SMTT(60)
<1>7. in'[Len(in')].i = in'[Len(in')].len
  <2>1. Len(frame) \in 1..Len(frame) /\ in'[Len(in')] = frame[Len(frame)]
    BY <1>1, <1>2
  <2>2. QED
    BY <2>1
<1>8. WholeFrames'
  BY <1>5, <1>6, <1>7 DEF WholeFrames
<1>9. in' # <<>> /\ (in # <<>> => in'[1] = in[1]) /\ (in = <<>> => in'[1].i = 1)
  <2>1. in' # <<>>
    BY <1>1, <1>2, EmptyFacts
  <2>2. in # <<>> => in'[1] = in[1]
    BY <1>1, <1>2
  <2>3. in = <<>> => in'[1].i = 1
    <3> SUFFICES ASSUME in = <<>> PROVE in'[1].i = 1
      OBVIOUS
    <3>1. Len(in) = 0 /\ 1 \in 1..Len(frame)
      BY <1>1
    <3>2. in'[0 + 1] = frame[1]
      BY <1>2, <3>1
    <3>3. QED
      BY <3>1, <3>2
  <2>4. QED
    BY <2>1, <2>2, <2>3
<1>10. PartOfFrame
  BY DEF FramingInv
<1>11. Begins' <=> Begins
  BY DEF Begins, Calling
<1>12. PartOfFrame'
  BY <1>9, <1>10, <1>11 DEF PartOfFrame
<1>13. QED
  BY <1>8, <1>12

\* What the device has of a request belongs to it, with the packet it reads.
LEMMA CollectedOwn ==
  ASSUME FramingInv, NEW p \in Packet, NEW n, p.of = n, \A j \in 1..Len(dev) : dev[j].of = n
  PROVE  \A j \in 1..Len(Collected(p)) : Collected(p)[j].of = n
<1>1. dev \in Seq(Packet) /\ Len(dev) \in Nat
  BY EmptyFacts DEF FramingInv, TypeOK
<1>2. CASE Collected(p) = Append(dev, p)
  <2> DEFINE got == Append(dev, p)
  <2>1. /\ Len(got) = Len(dev) + 1 /\ got[Len(dev) + 1] = p
        /\ \A j \in 1..Len(dev) : got[j] = dev[j]
    BY <1>1, AppendFacts
  <2>2. \A j \in 1..Len(got) : j \in 1..Len(dev) \/ j = Len(dev) + 1
    BY <1>1, <2>1
  <2> HIDE DEF got
  <2>3. \A j \in 1..Len(got) : got[j].of = n
    BY <2>1, <2>2
  <2>4. QED
    BY <1>2, <2>3 DEF got
<1>3. CASE Collected(p) = <<p>>
  BY <1>3
<1>4. CASE Collected(p) = dev
  BY <1>4
<1>5. QED
  BY <1>2, <1>3, <1>4 DEF Collected

LEMMA DeviceInv ==
  ASSUME FramingInv, DeviceReads
  PROVE  FramingInv'
<1> DEFINE p == Head(out)
           got == Collected(p)
<1>1. TypeOK'
  BY DeviceTypes DEF FramingInv
<1>2. /\ out # <<>> /\ out' = Tail(out) /\ dev' \in {<<>>, got}
      /\ call' = call /\ result' = result /\ link' = link /\ past' = past
  BY DEF DeviceReads
<1>3. /\ p = out[1] /\ p \in Packet /\ 1 \in 1..Len(out)
      /\ Len(out') = Len(out) - 1 /\ Len(out) \in Nat
      /\ \A j \in 1..Len(out') : out'[j] = out[j + 1]
  BY <1>2, TailFacts DEF FramingInv, TypeOK
<1>4. p.of \in 1..MaxCalls
  BY <1>3 DEF Packet
<1>5. \/ in' = in
      \/ \E frame \in Seq(Packet) :
           /\ in' = in \o frame /\ frame # <<>>
           /\ \A j \in 1..Len(frame) :
                frame[j].i = j /\ frame[j].len = Len(frame) /\ frame[j].of = p.of /\ Flagged(frame[j])
  <2>1. CASE in' = in
    BY <2>1
  <2>2. CASE \E len \in Lengths : in' = in \o Packets(p.of, len)
    <3>1. PICK len \in Lengths : in' = in \o Packets(p.of, len)
      BY <2>2
    <3>2. len \in Nat \ {0}
      BY BoundsAssumption
    <3> DEFINE frame == Packets(p.of, len)
    <3>3. /\ frame \in Seq(Packet) /\ Len(frame) = len /\ frame # <<>>
          /\ \A j \in 1..len :
               /\ frame[j].i = j /\ frame[j].len = len /\ frame[j].of = p.of
               /\ frame[j].flagged = (j = len)
      BY <1>4, <3>2, PacketsFacts
    <3> HIDE DEF frame
    <3>4. \A j \in 1..Len(frame) : Flagged(frame[j])
      <4> SUFFICES ASSUME NEW j \in 1..len PROVE Flagged(frame[j])
        BY <3>3
      <4>1. CASE j = len
        <5>1. frame[j].i = frame[j].len /\ frame[j].flagged
          BY <3>3, <4>1
        <5>2. QED
          BY <5>1 DEF Flagged
      <4>2. CASE j # len
        <5>1. frame[j].i < frame[j].len
          BY <3>2, <3>3, <4>2
        <5>2. ~frame[j].flagged
          BY <3>3, <4>2
        <5>3. QED
          BY <5>1, <5>2 DEF Flagged
      <4>3. QED
        BY <4>1, <4>2
    <3>5. QED
      BY <3>1, <3>3, <3>4, ZenonT(60) DEF frame
  <2>3. CASE in' = in \o Fram(p.of)
    <3> DEFINE frame == Fram(p.of)
    <3>1. /\ frame \in Seq(Packet) /\ Len(frame) = 1
          /\ frame[1].of = p.of /\ frame[1].i = 1 /\ frame[1].len = 1 /\ ~frame[1].flagged
      BY <1>4, FramFacts
    <3>2. frame # <<>>
      BY <3>1, EmptyFacts
    <3> HIDE DEF frame
    <3>3. \A j \in 1..Len(frame) : j = 1
      BY <3>1
    <3>4. QED
      BY <2>3, <3>1, <3>2, <3>3 DEF frame, Flagged
  <2>4. QED
    BY <2>1, <2>2, <2>3 DEF DeviceReads
<1>a. OwnFrame'
  BY <1>2, ResultStays DEF FramingInv
<1> HIDE DEF got, p
<1>6. WholeFrames' /\ PartOfFrame'
  <2>1. CASE in' = in
    BY <1>2, <2>1 DEF FramingInv, WholeFrames, PartOfFrame, Begins, Calling
  <2>2. CASE in' # in
    <3>1. PICK frame \in Seq(Packet) :
            /\ in' = in \o frame /\ frame # <<>>
            /\ \A j \in 1..Len(frame) :
                 frame[j].i = j /\ frame[j].len = Len(frame) /\ frame[j].of = p.of /\ Flagged(frame[j])
      BY <1>5, <2>2
    <3>2. Len(frame) \in Nat /\ Len(frame) # 0
      BY <3>1, EmptyFacts
    <3>3. frame[1].of = p.of
      BY <3>1, <3>2
    <3>4. QED
      BY <1>2, <3>1, <3>3, FrameArrives
  <2>3. QED
    BY <2>1, <2>2
<1>7. FreshIsOwn'
  <2> SUFFICES ASSUME Calling, call.fresh
               PROVE  \A q \in {call.todo, call.buf, out', in', dev'} : \A j \in 1..Len(q) : q[j].of = call.n
    BY <1>2 DEF FreshIsOwn, Calling
  <2>1. \A q \in {call.todo, call.buf, out, in, dev} : \A j \in 1..Len(q) : q[j].of = call.n
    BY DEF FramingInv, FreshIsOwn
  <2>2. p.of = call.n
    BY <1>3, <2>1
  <2>3. \A j \in 1..Len(out') : out'[j].of = call.n
    <3>1. \A j \in 1..Len(out') : j + 1 \in 1..Len(out)
      BY <1>3
    <3>2. QED
      BY <1>3, <2>1, <3>1
  <2>4. \A j \in 1..Len(dev') : dev'[j].of = call.n
    <3>1. \A j \in 1..Len(got) : got[j].of = call.n
      BY <1>3, <2>1, <2>2, CollectedOwn, SMTT(60) DEF got
    <3>2. Len(<<>>) = 0
      BY EmptyFacts
    <3>3. QED
      BY <1>2, <3>1, <3>2
  <2>5. \A j \in 1..Len(in') : in'[j].of = call.n
    <3>1. CASE in' = in
      BY <2>1, <3>1
    <3>2. CASE in' # in
      <4>1. PICK frame \in Seq(Packet) :
              in' = in \o frame /\ \A j \in 1..Len(frame) : frame[j].of = p.of
        BY <1>5, <3>2
      <4>2. in \in Seq(Packet) /\ Len(in) \in Nat /\ Len(frame) \in Nat
        BY EmptyFacts DEF FramingInv, TypeOK
      <4>3. /\ Len(in') = Len(in) + Len(frame)
            /\ \A j \in 1..Len(in) : in'[j] = in[j]
            /\ \A j \in 1..Len(frame) : in'[Len(in) + j] = frame[j]
        BY <4>1, <4>2, ConcatFacts
      <4>4. SUFFICES ASSUME NEW j \in 1..Len(in') PROVE in'[j].of = call.n
        OBVIOUS
      <4>5. CASE j \in 1..Len(in)
        BY <2>1, <4>3, <4>5
      <4>6. CASE j \notin 1..Len(in)
        <5>1. j - Len(in) \in 1..Len(frame) /\ Len(in) + (j - Len(in)) = j
          BY <4>2, <4>3, <4>6
        <5>2. in'[j] = frame[j - Len(in)]
          BY <4>3, <5>1
        <5>3. QED
          BY <2>2, <4>1, <5>1, <5>2
      <4>7. QED
        BY <4>5, <4>6
    <3>3. QED
      BY <3>1, <3>2
  <2>6. QED
    BY <2>1, <2>3, <2>4, <2>5
<1>8. QED
  BY <1>1, <1>6, <1>7, <1>a DEF FramingInv

LEMMA FramingInductive ==
  FramingInv /\ [Next]_vars => FramingInv'
<1> SUFFICES ASSUME FramingInv, [Next]_vars
             PROVE  FramingInv'
  OBVIOUS
<1>1. CASE UNCHANGED vars
  BY <1>1 DEF vars, FramingInv, TypeOK, WholeFrames, PartOfFrame, FreshIsOwn, OwnFrame, Whole, Begins, Calling
<1>2. CASE \E len \in Lengths : StartCall(len)
  BY <1>2, StartCallInv
<1>3. CASE WritePacket \/ FailWrite
  BY <1>3, WriteInv
<1>4. CASE ReadPacket
  BY <1>4, ReadInv
<1>5. CASE ShortRead \/ Abandon
  BY <1>5, DroppedInv
<1>6. CASE DeviceReads
  BY <1>6, DeviceInv
<1>7. QED
  BY <1>1, <1>2, <1>3, <1>4, <1>5, <1>6 DEF Next, HostNext

\* What an exchange returns is one whole frame of the device, its own when nothing
\* was on its way, however many packets a frame has and whatever was cut before:
\* the channel holds whole frames after at most one rest (WholeFrames), and a call
\* keeps only what comes from the beginning of one (PartOfFrame).
THEOREM OneWholeFrame == Spec => []OwnFrame
<1>1. FramingInv => OwnFrame
  BY DEF FramingInv
<1>2. QED
  BY InvInit, FramingInductive, <1>1, PTL DEF Spec
=============================================================================
