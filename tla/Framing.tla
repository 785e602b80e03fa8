------------------------------- MODULE Framing -------------------------------
(***************************************************************************)
(* How the frames of a call are cut into the packets of a USB device and   *)
(* put together again: the U2F-HID codec of the BitBox02                   *)
(* (bhwi/src/bitbox/u2f.rs, bhwi-async/src/transport/bitbox/hid.rs), the   *)
(* length bytes of the Coldcard (.../coldcard/hid.rs) and the numbered     *)
(* packets of the Ledger (.../ledger/hid.rs), over the channels of         *)
(* bhwi-cli/src/hid.rs and of a browser (bhwi-wasm/src/webhid.rs).         *)
(*                                                                         *)
(* A packet that was not read waits for the next call, whatever became of  *)
(* its frame.  The packets of the three differ in what tells where a frame *)
(* begins and ends.  The sessions above (BitBoxSession, ColdcardSession,   *)
(* LedgerClient) are about whole frames.                                   *)
(*                                                                         *)
(* Abstracted: the bytes of a packet are its frame and its place in it.    *)
(***************************************************************************)
EXTENDS Naturals, Sequences

CONSTANTS
  Links,       \* the protocols, each over the system's HID or a browser's
  Lengths,     \* how many packets a request or a reply has
  MaxPackets,  \* packets of a frame U2F-HID can number: 128
  MaxCalls,    \* bound: calls
  MaxFaults    \* bound: dropped calls, packets that are short or not written

ASSUME LinksAssumption ==
  Links \subseteq [protocol : {"u2f", "coldcard", "ledger"}, browser : BOOLEAN]
ASSUME BoundsAssumption ==
  /\ Lengths \subseteq Nat \ {0} /\ MaxPackets \in Nat \ {0}
  /\ MaxCalls \in Nat /\ MaxFaults \in Nat

VARIABLES
  link,     \* the device and how it is reached, once and for all
  call,     \* exchange: the packets still to write, and those read
  result,   \* how the last exchange ended
  out, in,  \* packets the device has not read, packets the host has not
  dev,      \* packets of a request the device has read so far
  past,     \* what has gone wrong so far
  calls, faults

vars == <<link, call, result, out, in, dev, past, calls, faults>>

-----------------------------------------------------------------------------
(* Packets.                                                                *)

\* The n-th frame of a direction, cut in len packets.
Packets(n, len) == [i \in 1..len |-> [of |-> n, i |-> i, len |-> len, flagged |-> i = len]]

\* The Coldcard's one reply that lacks the flag of a last packet.
Fram(n) == <<[of |-> n, i |-> 1, len |-> 1, flagged |-> FALSE]>>

IsFram(p) == p.len = 1 /\ ~p.flagged

\* MUTANT: the packets are not counted.
Encodes_All(len) == TRUE

\* U2fHid::encode has 127 numbers for the packets after the first.
Encodes(len) == link.protocol = "u2f" => len <= MaxPackets

\* A first packet has the command and the length of the frame.
First(p) == p.i = 1

-----------------------------------------------------------------------------
(* The host.                                                               *)

Idle == [st |-> "none", n |-> 0, todo |-> <<>>, buf |-> <<>>, fresh |-> TRUE]
NoResult == [status |-> "none", n |-> 0, frame |-> <<>>, fresh |-> TRUE]

Init ==
  /\ link \in Links
  /\ call = Idle /\ result = NoResult
  /\ out = <<>> /\ in = <<>> /\ dev = <<>>
  /\ past = {}
  /\ calls = 0 /\ faults = 0

Calling == call.st # "none"

Ends(status, frame) ==
  /\ call' = Idle
  /\ result' = [status |-> status, n |-> call.n, frame |-> frame, fresh |-> call.fresh]

\* Something goes wrong.
Fault(what) ==
  /\ faults < MaxFaults
  /\ faults' = faults + 1
  /\ past' = past \cup what

\* exchange: the request is encoded as a whole, or not at all.
StartCall(len) ==
  /\ ~Calling /\ result.status # "panic"
  /\ calls < MaxCalls
  /\ calls' = calls + 1
  /\ IF Encodes(len)
     THEN /\ call' = [st |-> "write", n |-> calls + 1, todo |-> Packets(calls + 1, len), buf |-> <<>>,
                      fresh |-> out = <<>> /\ in = <<>> /\ dev = <<>>]
          /\ result' = NoResult
     ELSE /\ result' = [NoResult EXCEPT !.status = "err", !.n = calls + 1]
          /\ UNCHANGED call
  /\ UNCHANGED <<link, out, in, dev, past, faults>>

Written ==
  call' = [call EXCEPT !.todo = Tail(@), !.st = IF Tail(call.todo) = <<>> THEN "read" ELSE "write"]

WritePacket ==
  /\ call.st = "write"
  /\ out' = Append(out, Head(call.todo))
  /\ Written
  /\ UNCHANGED <<link, result, in, dev, past, calls, faults>>

\* A packet cannot be written: the call ends, but in a browser, where the error
\* is logged and the packet counts as sent.
FailWrite ==
  /\ call.st = "write"
  /\ \/ ~link.browser /\ Fault({"failed"}) /\ Ends("err", <<>>)
     \/ link.browser /\ Fault({"unwritten"}) /\ Written /\ UNCHANGED result
  /\ UNCHANGED <<link, out, in, dev, calls>>

ReadOn(buf) == call' = [call EXCEPT !.buf = buf] /\ UNCHANGED result

\* BitBoxTransportHID::read_frame and U2fHid::decode: the first packet must be a
\* first one; as many are read as it says, and what is in their headers is passed
\* over.
DecodeU2f(buf) ==
  \/ ~First(Head(buf)) /\ Ends("err", <<>>)
  \/ First(Head(buf)) /\ Len(buf) < Head(buf).len /\ ReadOn(buf)
  \/ First(Head(buf)) /\ Len(buf) = Head(buf).len /\ Ends("ok", buf)

\* MUTANT: the reply without the flag is not known.
DecodeColdcard_NoFram(buf) ==
  LET p == buf[Len(buf)]
  IN  \/ p.flagged /\ Ends("ok", buf)
      \/ ~p.flagged /\ ReadOn(buf)

\* ColdcardTransportHID::exchange: whatever comes up to a packet with the flag.
DecodeColdcard(buf) ==
  LET p == buf[Len(buf)]
      Last == p.flagged \/ (Len(buf) = 1 /\ IsFram(p))
  IN  \/ Last /\ Ends("ok", buf)
      \/ ~Last /\ ReadOn(buf)

\* MUTANT: the numbers of the packets are not compared.
DecodeLedger_AnyNumber(buf) ==
  \/ Len(buf) < Head(buf).len /\ ReadOn(buf)
  \/ Len(buf) >= Head(buf).len /\ Ends("ok", buf)

\* LedgerTransportHID::exchange: packets in the order of their numbers, up to the
\* length that is in the first.
DecodeLedger(buf) ==
  LET p == buf[Len(buf)]
  IN  \/ p.i # Len(buf) /\ Ends("err", <<>>)
      \/ p.i = Len(buf) /\ Len(buf) < Head(buf).len /\ ReadOn(buf)
      \/ p.i = Len(buf) /\ Len(buf) = Head(buf).len /\ Ends("ok", buf)

ReadPacket ==
  /\ call.st = "read" /\ in # <<>>
  /\ in' = Tail(in)
  /\ LET buf == Append(call.buf, Head(in))
     IN  \/ link.protocol = "u2f" /\ DecodeU2f(buf)
         \/ link.protocol = "coldcard" /\ DecodeColdcard(buf)
         \/ link.protocol = "ledger" /\ DecodeLedger(buf)
  /\ UNCHANGED <<link, out, dev, past, calls, faults>>

\* A packet that is too short is lost with its call; the browser's channel panics
\* at it, and the client is of no more use.
ShortRead ==
  /\ call.st = "read" /\ in # <<>>
  /\ in' = Tail(in)
  /\ Fault({"failed", "cut"})
  /\ Ends(IF link.browser THEN "panic" ELSE "err", <<>>)
  /\ UNCHANGED <<link, out, dev, calls>>

\* The future of the call is dropped, or its read times out.
Abandon ==
  /\ Calling
  /\ Fault({"failed"} \cup (IF call.buf = <<>> THEN {} ELSE {"cut"}))
  /\ call' = Idle /\ result' = NoResult
  /\ UNCHANGED <<link, out, in, dev, calls>>

HostNext ==
  (\E len \in Lengths : StartCall(len)) \/ WritePacket \/ FailWrite \/ ReadPacket \/ ShortRead \/ Abandon

-----------------------------------------------------------------------------
(* The device.                                                             *)

\* U2F-HID and the Ledger begin again at a first packet and pass over one that
\* does not follow; the Coldcard takes whatever comes up to the flag.
Collected(p) ==
  CASE link.protocol = "coldcard" -> Append(dev, p)
    [] link.protocol # "coldcard" /\ First(p) -> <<p>>
    [] link.protocol # "coldcard" /\ p.i = Len(dev) + 1 /\ dev[1].of = p.of -> Append(dev, p)
    [] OTHER -> dev

DeviceReads ==
  /\ out # <<>>
  /\ out' = Tail(out)
  /\ LET p == Head(out)
         got == Collected(p)
     IN  IF got # <<>> /\ got[Len(got)] = p /\ p.flagged
         THEN /\ dev' = <<>>
              /\ \/ \E len \in Lengths : Encodes(len) /\ in' = in \o Packets(p.of, len)
                 \/ link.protocol = "coldcard" /\ in' = in \o Fram(p.of)
         ELSE dev' = got /\ UNCHANGED in
  /\ UNCHANGED <<link, call, result, past, calls, faults>>

Next == HostNext \/ DeviceReads

\* The executor polls the call and the device answers.
Fairness == WF_vars(WritePacket) /\ WF_vars(ReadPacket) /\ WF_vars(DeviceReads)

Spec == Init /\ [][Next]_vars /\ Fairness

-----------------------------------------------------------------------------
(* Properties.                                                             *)

Packet == {p \in [of : 1..MaxCalls, i : Nat, len : Nat, flagged : BOOLEAN] : p.i \in 1..p.len}

\* The variables have their types; no request has more packets than its protocol
\* can number.
TypeOK ==
  /\ link \in Links
  /\ call \in [st : {"none", "write", "read"}, n : 0..MaxCalls,
              todo : Seq(Packet), buf : Seq(Packet), fresh : BOOLEAN]
  /\ call.st = "write" <=> call.todo # <<>>
  /\ link.protocol = "u2f" => Len(call.todo) <= MaxPackets
  /\ result \in [status : {"none", "ok", "err", "panic"}, n : 0..MaxCalls,
                frame : Seq(Packet), fresh : BOOLEAN]
  /\ out \in Seq(Packet) /\ in \in Seq(Packet) /\ dev \in Seq(Packet)
  /\ past \subseteq {"failed", "unwritten", "cut"}
  /\ calls \in 0..MaxCalls /\ faults \in 0..MaxFaults

Whole(frame) ==
  \A i \in DOMAIN frame : frame[i].i = i /\ frame[i].of = frame[1].of /\ frame[i].len = Len(frame)

\* What an exchange returns is one frame of the device, with all its packets in
\* order, also after calls that stopped in the middle of one: U2F-HID does not
\* look at the numbers of the packets, and need not, as the rest of a frame has no
\* first packet and is refused one by one.  Only the Coldcard's frames have no
\* beginning: there the rest of one is taken for a frame.
\* And the reader keeps nothing from one call to the next: one that starts when
\* nothing is on its way gets the reply to its own request.
OwnFrame ==
  result.status = "ok" =>
    /\ (link.protocol = "coldcard" /\ "cut" \in past) \/ Whole(result.frame)
    /\ result.fresh => Whole(result.frame) /\ result.frame[1].of = result.n

\* Every exchange ends, whatever earlier ones left in the channel, and also with
\* the reply that does not say it is the last; but for one of a browser whose
\* packet was not written, which waits for an answer to what was never asked.
CallReturns == (Calling /\ "unwritten" \notin past) ~> (~Calling \/ "unwritten" \in past)
=============================================================================
