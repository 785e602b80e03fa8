----------------------- MODULE ColdcardSession_proofs -----------------------
(* What TLAPS proves of ColdcardSession, for every value of its constants. *)
EXTENDS ColdcardSession, SequenceFacts, TLAPS

Engines == [key : Nat, enc : Nat, dec : Nat]

Calls ==
  [st : States, cmd : Commands \cup {"none"}, doc : Docs \cup {Backup}, offset : Nat,
   file : Files, of : Nat, bytes : Seq(Units)]

Results ==
  [status : {"none", "ok", "err", "notready"}, cmd : Commands \cup {"none"},
   doc : Docs \cup {Backup}, id : Nat, bytes : Seq(Units)]

Devices ==
  [key : Nat, enc : Nat, dec : Nat, buffer : Seq(Units), slots : [Slots -> Files], task : Tasks]

Faults == {"lost", "abandoned", "busy", "declined"}

\* A file is gathered only while it is downloaded, and is then incomplete.
Gathers(c) ==
  IF c.st = "DownloadingFile" THEN Len(c.bytes) < Length[c.file.doc] ELSE c.bytes = <<>>

TypeInv == TypeOK /\ Gathers(call)

-----------------------------------------------------------------------------
(* Types.                                                                  *)

LEMMA TypeParts ==
  TypeInv <=>
    /\ engine \in Engines /\ call \in Calls /\ Gathers(call) /\ result \in Results
    /\ call.st \notin {"New", "StartEncryption"} => engine.key # 0
    /\ out \in Seq(Requests) /\ in \in Seq(Replies) /\ dev \in Devices /\ past \subseteq Faults
    /\ keys \in Nat /\ calls \in Nat /\ faults \in Nat /\ polls \in Nat
<1>1. call.st = "DownloadingFile" /\ Gathers(call) => Len(call.bytes) < Length[call.file.doc]
  BY DEF Gathers
<1>2. QED
  BY <1>1 DEF TypeInv, TypeOK, Engines, Calls, Results, Devices, Faults

LEMMA TypePartsNext ==
  ASSUME engine' \in Engines, call' \in Calls, Gathers(call'), result' \in Results,
         call'.st \in {"New", "StartEncryption"} \/ engine'.key # 0,
         out' \in Seq(Requests), in' \in Seq(Replies), dev' \in Devices, past' \subseteq Faults,
         keys' \in Nat, calls' \in Nat, faults' \in Nat, polls' \in Nat
  PROVE  TypeInv'
<1>1. call'.st = "DownloadingFile" => Len(call'.bytes) < Length[call'.file.doc]
  BY DEF Gathers
<1>2. TypeOK'
  BY <1>1 DEF TypeOK, Engines, Calls, Results, Devices, Faults
<1>3. QED
  BY <1>2 DEF TypeInv

LEMMA ConstantTypes ==
  /\ NoFile \in Files /\ NewEngine \in Engines /\ NewEngine.key = 0
  /\ NewCall \in Calls /\ NewCall.st = "New" /\ NewCall.bytes = <<>> /\ Gathers(NewCall)
  /\ NoResult \in Results /\ NoResult.status = "none"
  /\ NewDevice \in Devices /\ NewDevice.key = 0 /\ NoTask \in Tasks
<1>1. NoFile \in Files /\ Backup \in Docs \cup {Backup} /\ <<>> \in Seq(Units)
  BY EmptyFacts DEF NoFile, Files
<1>2. NewEngine \in Engines /\ NewEngine.key = 0
  BY DEF NewEngine, Engines
<1>3. NewCall \in Calls /\ NewCall.st = "New" /\ NewCall.bytes = <<>>
  BY <1>1 DEF NewCall, Calls, States, Commands
<1>4. NoResult \in Results /\ NoResult.status = "none"
  BY <1>1 DEF NoResult, Results
<1>5. NoTask \in Tasks
  BY DEF NoTask, Tasks
<1>6. NewDevice \in Devices /\ NewDevice.key = 0
  BY <1>1, <1>5 DEF NewDevice, Devices
<1>7. QED
  BY <1>1, <1>2, <1>3, <1>4, <1>5, <1>6 DEF Gathers

LEMMA LengthTypes ==
  ASSUME NEW doc \in Docs \cup {Backup}
  PROVE  Length[doc] \in Nat /\ Length[doc] > 0
  BY LengthAssumption

\* A file, and a piece of it.
LEMMA ContentTypes ==
  ASSUME NEW file \in Files
  PROVE  /\ file.doc \in Docs \cup {Backup}
         /\ Content(file) \in Seq(Units) /\ Len(Content(file)) = Length[file.doc]
         /\ \A i \in 1..Length[file.doc] : Content(file)[i] = <<file, i>>
         /\ \A m \in Nat, n \in Nat :
              n <= Length[file.doc] => SubSeq(Content(file), m + 1, n) \in Seq(Units)
<1>1. file.doc \in Docs \cup {Backup}
  BY DEF Files
<1>2. Length[file.doc] \in Nat
  BY <1>1, LengthTypes
<1>3. \A i \in 1..Length[file.doc] : <<file, i>> \in Units
  BY <1>2 DEF Units
<1>4. Content(file) \in Seq(Units) /\ Len(Content(file)) = Length[file.doc]
  BY <1>2, <1>3 DEF Content
<1>5. \A i \in 1..Length[file.doc] : Content(file)[i] = <<file, i>>
  BY DEF Content
<1>6. ASSUME NEW m \in Nat, NEW n \in Nat, n <= Length[file.doc]
      PROVE  SubSeq(Content(file), m + 1, n) \in Seq(Units)
  BY <1>4, <1>6, PieceFacts
<1>7. QED
  BY <1>1, <1>4, <1>5, <1>6

LEMMA HashTypes ==
  ASSUME NEW bytes
  PROVE  Hash(bytes) \in Units
<1>1. NoFile \in Files
  BY ConstantTypes
<1>2. QED
  BY <1>1 DEF Hash, Units

LEMMA ChunkEndTypes ==
  ASSUME NEW length \in Nat, NEW offset \in Nat
  PROVE  /\ ChunkEnd(length, offset) \in Nat /\ ChunkEnd(length, offset) <= length
         /\ offset < length => ChunkEnd(length, offset) > offset
  BY ChunkAssumption DEF ChunkEnd, Least

LEMMA RequestTypes ==
  ASSUME NEW op \in Ops, NEW id \in Nat
  PROVE  /\ Request(op, id) \in Requests
         /\ Request(op, id).op = op /\ Request(op, id).id = id
  BY EmptyFacts DEF Request, Requests, Slots

LEMMA ReplyTypes ==
  ASSUME NEW typ \in Texts \cup {"mypub", "refu", "okay", "busy", "err", "int1", "biny",
                                 "strx", "smrx", "garbled"}
  PROVE  Reply(typ) \in Replies /\ Reply(typ).typ = typ
  BY EmptyFacts, ConstantTypes DEF Reply, Replies

LEMMA SentTypes ==
  ASSUME NEW doc \in Docs \cup {Backup}
  PROVE  Sent(doc) \in Files /\ Sent(doc).doc = doc /\ Signed(doc) \in Files /\ Signed(doc).doc = doc
  BY DEF Sent, Signed, Files

LEMMA UploadTypes ==
  ASSUME NEW id \in Nat, NEW doc \in Docs \cup {Backup}, NEW offset \in Nat
  PROVE  /\ UploadRequest(id, doc, offset) \in Requests
         /\ UploadRequest(id, doc, offset).op = "upld" /\ UploadRequest(id, doc, offset).id = id
         /\ UploadRequest(id, doc, offset).offset = offset
         /\ UploadRequest(id, doc, offset).data =
              SubSeq(Content(Sent(doc)), offset + 1, ChunkEnd(Length[doc], offset))
<1> DEFINE data == SubSeq(Content(Sent(doc)), offset + 1, ChunkEnd(Length[doc], offset))
           request == Request("upld", id)
<1>1. data \in Seq(Units)
  BY LengthTypes, SentTypes, ContentTypes, ChunkEndTypes
<1>2. request \in Requests /\ request.op = "upld" /\ request.id = id
  BY RequestTypes DEF Ops
<1>3. UploadRequest(id, doc, offset) = [request EXCEPT !.offset = offset, !.data = data]
  BY DEF UploadRequest
<1> HIDE DEF data, request
<1>4. /\ UploadRequest(id, doc, offset) \in Requests
      /\ UploadRequest(id, doc, offset).op = "upld" /\ UploadRequest(id, doc, offset).id = id
      /\ UploadRequest(id, doc, offset).offset = offset
      /\ UploadRequest(id, doc, offset).data = data
  BY <1>1, <1>2, <1>3 DEF Requests
<1>5. QED
  BY <1>4 DEF data

LEMMA EncryptedTypes ==
  ASSUME NEW request \in Requests, engine \in Engines
  PROVE  /\ Encrypted(request) \in Requests
         /\ Encrypted(request).op = request.op /\ Encrypted(request).id = request.id
         /\ Encrypted(request).doc = request.doc /\ Encrypted(request).offset = request.offset
         /\ Encrypted(request).length = request.length /\ Encrypted(request).slot = request.slot
         /\ Encrypted(request).data = request.data
         /\ Encrypted(request).key = engine.key /\ Encrypted(request).n = engine.enc
  BY DEF Encrypted, Requests, Engines

\* What a call makes of the frame it reads.
LEMMA ResponseTypes ==
  ASSUME TypeInv, in # <<>>, in' = Tail(in)
  PROVE  /\ Head(in) = in[1] /\ in[1] \in Replies /\ in' \in Seq(Replies) /\ Response \in Replies
         /\ Response.id \in Nat /\ Response.data \in Seq(Units) /\ Response.file \in Files
         /\ Head(in).id \in Nat /\ Head(in).offset \in Nat
<1>1. in \in Seq(Replies)
  BY TypeParts
<1>2. Head(in) = in[1] /\ in[1] \in Replies /\ in' \in Seq(Replies)
  BY <1>1, TailFacts
<1>3. Response \in Replies
  BY <1>2, ReplyTypes DEF Response
<1>4. QED
  BY <1>2, <1>3 DEF Replies

LEMMA TransmitTypes ==
  ASSUME TypeInv, NEW frame \in Requests, NEW next \in Calls, Transmit(frame, next), Gathers(next),
         engine' \in Engines, next.st \in {"New", "StartEncryption"} \/ engine'.key # 0,
         in' \in Seq(Replies), calls' \in Nat, UNCHANGED <<dev, keys, polls>>
  PROVE  TypeInv'
<1>1. CASE /\ out' = Append(out, frame) /\ call' = next /\ result' = NoResult
           /\ UNCHANGED <<past, faults>>
  <2>1. out' \in Seq(Requests)
    BY <1>1, TypeParts, AppendFacts
  <2>2. QED
    BY <1>1, <2>1, TypeParts, TypePartsNext, ConstantTypes
<1>2. CASE /\ faults' = faults + 1 /\ past' = past \cup {"lost"} /\ call' = NewCall
           /\ result' = [NoResult EXCEPT !.status = "err"] /\ UNCHANGED out
  <2>1. result' \in Results
    BY <1>2, ConstantTypes DEF Results
  <2>2. past' \subseteq Faults /\ faults' \in Nat
    BY <1>2, TypeParts DEF Faults
  <2>3. QED
    BY <1>2, <2>1, <2>2, TypeParts, TypePartsNext, ConstantTypes
<1>3. QED
  BY <1>1, <1>2 DEF Transmit

LEMMA ReturnTypes ==
  ASSUME TypeInv, NEW res \in Results, Return(res), engine' \in Engines, in' \in Seq(Replies),
         calls' \in Nat, UNCHANGED <<dev, keys, polls>>
  PROVE  TypeInv'
<1>1. call' = NewCall /\ result' = [res EXCEPT !.cmd = call.cmd, !.doc = call.doc]
  BY DEF Return
<1>2. result' \in Results
  BY <1>1, TypeParts DEF Results, Calls
<1>3. QED
  BY <1>1, <1>2, TypeParts, TypePartsNext, ConstantTypes DEF Return

\* A call that ends, well or not.
LEMMA EndTypes ==
  ASSUME TypeInv, Fail \/ \E id \in Nat : Succeed(id), engine' \in Engines, in' \in Seq(Replies),
         calls' \in Nat, UNCHANGED <<dev, keys, polls>>
  PROVE  TypeInv'
<1>1. [NoResult EXCEPT !.status = "err"] \in Results
  BY ConstantTypes DEF Results
<1>2. \A id \in Nat : [NoResult EXCEPT !.status = "ok", !.id = id] \in Results
  BY ConstantTypes DEF Results
<1>3. QED
  BY <1>1, <1>2, ReturnTypes DEF Fail, Succeed

LEMMA StartTypes ==
  ASSUME TypeInv, Start
  PROVE  TypeInv'
<1>1. /\ calls' \in Nat /\ engine \in Engines /\ in' = in /\ in \in Seq(Replies)
      /\ UNCHANGED <<dev, keys, polls>>
  <2>1. StartCall
    BY DEF Start, Unlock, Query, SignMessage, StartBackup, StartUpload, StartEncrypted
  <2>2. QED
    BY <2>1, TypeParts DEF StartCall
<1>2. ASSUME NotReady PROVE TypeInv'
  <2>1. result' \in Results /\ call' = NewCall /\ UNCHANGED <<engine, out, past, faults>>
    BY <1>2, ConstantTypes DEF NotReady, Results
  <2>2. QED
    BY <1>1, <2>1, TypeParts, TypePartsNext, ConstantTypes
<1>3. ASSUME NEW cmd \in Commands, NEW doc \in Docs \cup {Backup}, NEW request \in Requests,
             NEW st \in States, st # "DownloadingFile", StartEncrypted(cmd, doc, request, st)
      PROVE  TypeInv'
  <2> DEFINE next == [NewCall EXCEPT !.st = st, !.cmd = cmd, !.doc = doc]
  <2>1. CASE Ready /\ engine' = [engine EXCEPT !.enc = @ + 1] /\ Transmit(Encrypted(request), next)
    <3>1. engine' \in Engines /\ engine'.key # 0
      BY <1>1, <2>1, SMTT(60) DEF Engines, Ready
    <3>2. next \in Calls /\ next.st = st /\ next.bytes = <<>>
      BY <1>3, ConstantTypes, EmptyFacts DEF Calls, NewCall
    <3>3. Transmit(Encrypted(request), next)
      BY <2>1
    <3> HIDE DEF next
    <3>4. QED
      BY <1>1, <1>3, <3>1, <3>2, <3>3, EncryptedTypes, TransmitTypes DEF Gathers
  <2>2. QED
    BY <1>2, <1>3, <2>1 DEF StartEncrypted
<1>4. CASE Unlock
  <2> DEFINE next == [NewCall EXCEPT !.st = "StartEncryption"]
  <2>1. CASE Transmit(Request("ncry", calls'), next) /\ engine' = engine
    <3>1. next \in Calls /\ next.st = "StartEncryption" /\ next.bytes = <<>>
      BY ConstantTypes DEF Calls, States
    <3>2. Request("ncry", calls') \in Requests
      BY <1>1, RequestTypes DEF Ops
    <3>3. Transmit(Request("ncry", calls'), next) /\ engine' = engine
      BY <2>1
    <3> HIDE DEF next
    <3>4. QED
      BY <1>1, <3>1, <3>2, <3>3, TransmitTypes DEF Gathers
  <2>2. QED
    BY <1>2, <1>4, <2>1 DEF Unlock
<1>5. CASE Query \/ SignMessage \/ StartBackup
  <2>1. \E op \in Ops, cmd \in Commands, st \in States \ {"DownloadingFile"} :
          StartEncrypted(cmd, Backup, Request(op, calls'), st)
    BY <1>5 DEF Query, SignMessage, StartBackup, Ops, Commands, States, Queries
  <2>2. QED
    BY <1>1, <1>3, <2>1, RequestTypes
<1>6. CASE StartUpload
  <2>1. \E cmd \in Commands, doc \in Docs, st \in States \ {"DownloadingFile"} :
          StartEncrypted(cmd, doc, UploadRequest(calls', doc, 0), st)
    BY <1>6 DEF StartUpload, Commands, States
  <2>2. QED
    BY <1>1, <1>3, <2>1, UploadTypes
<1>7. QED
  BY <1>4, <1>5, <1>6 DEF Start

LEMMA EngineAdvances ==
  ASSUME engine \in Engines,
         engine' = [engine EXCEPT !.dec = @ + 1, !.enc = @ + 1] \/ Decrypt
         \/ engine' = [engine EXCEPT !.enc = @ + 1]
  PROVE  engine' \in Engines /\ engine'.key = engine.key
<1>1. CASE engine' = [engine EXCEPT !.dec = @ + 1, !.enc = @ + 1]
  <2>1. engine.dec + 1 \in Nat /\ engine.enc + 1 \in Nat
    BY DEF Engines
  <2>2. QED
    BY <1>1, <2>1, Zenon DEF Engines
<1>2. CASE Decrypt
  BY <1>2 DEF Decrypt, Engines
<1>3. CASE engine' = [engine EXCEPT !.enc = @ + 1]
  BY <1>3 DEF Engines
<1>4. QED
  BY <1>1, <1>2, <1>3

\* A call that goes on.
LEMMA SendTypes ==
  ASSUME TypeInv, in # <<>>, in' = Tail(in), NEW request \in Requests, NEW next \in Calls,
         Send(request, next), Gathers(next), engine.key # 0, UNCHANGED <<dev, keys, calls, polls>>
  PROVE  TypeInv'
<1>1. engine' \in Engines /\ engine'.key # 0
  <2>1. engine \in Engines
    BY TypeParts
  <2>2. engine' = [engine EXCEPT !.dec = @ + 1, !.enc = @ + 1]
    BY DEF Send
  <2>3. QED
    BY <2>1, <2>2, EngineAdvances
<1>2. in' \in Seq(Replies)
  BY ResponseTypes
<1>3. Encrypted(request) \in Requests /\ Transmit(Encrypted(request), next)
  BY TypeParts, EncryptedTypes DEF Send
<1>4. calls' \in Nat
  BY TypeParts
<1>5. QED
  BY <1>1, <1>2, <1>3, <1>4, TransmitTypes

LEMMA DecryptEndTypes ==
  ASSUME TypeInv, in # <<>>, in' = Tail(in), Decrypt \/ UNCHANGED engine,
         Fail \/ Succeed(Response.id), UNCHANGED <<dev, keys, calls, polls>>
  PROVE  TypeInv'
<1>1. engine' \in Engines
  BY TypeParts DEF Decrypt, Engines
<1>2. in' \in Seq(Replies) /\ Response.id \in Nat
  BY ResponseTypes
<1>3. calls' \in Nat
  BY TypeParts
<1>4. QED
  BY <1>1, <1>2, <1>3, EndTypes

LEMMA KeyTypes ==
  ASSUME TypeInv, OnStartEncryption
  PROVE  TypeInv'
<1>1. in # <<>> /\ in' = Tail(in) /\ UNCHANGED <<dev, keys, calls, polls>>
  BY DEF OnStartEncryption, Receive
<1>2. in' \in Seq(Replies) /\ calls' \in Nat /\ Head(in).offset \in Nat /\ Head(in).id \in Nat
  BY <1>1, ResponseTypes, TypeParts
<1>3. engine' \in Engines
  BY <1>2, ConstantTypes, TypeParts DEF OnStartEncryption, Engines
<1>4. QED
  BY <1>1, <1>2, <1>3, EndTypes DEF OnStartEncryption

\* The state of a call past the key exchange that goes on to another.
LEMMA GoOnTypes ==
  ASSUME TypeInv, call.st # "DownloadingFile",
         NEW st \in States, st # "DownloadingFile", NEW offset \in Nat
  PROVE  /\ call \in Calls /\ Gathers(call)
         /\ [call EXCEPT !.st = st] \in Calls /\ Gathers([call EXCEPT !.st = st])
         /\ [call EXCEPT !.offset = offset] \in Calls /\ Gathers([call EXCEPT !.offset = offset])
<1>1. call \in Calls /\ Gathers(call) /\ call.bytes = <<>>
  BY TypeParts DEF Gathers
<1>2. /\ [call EXCEPT !.st = st] \in Calls /\ [call EXCEPT !.st = st].st = st
      /\ [call EXCEPT !.st = st].bytes = <<>>
  BY <1>1 DEF Calls
<1>3. /\ [call EXCEPT !.offset = offset] \in Calls /\ [call EXCEPT !.offset = offset].st = call.st
      /\ [call EXCEPT !.offset = offset].bytes = <<>>
  BY <1>1 DEF Calls
<1>4. QED
  BY <1>1, <1>2, <1>3 DEF Gathers

LEMMA RoundTypes ==
  ASSUME TypeInv, OnQuery \/ OnSignMessage \/ OnBackup \/ OnSigningPsbt \/ OnEnrollingWallet
  PROVE  TypeInv'
<1>1. /\ in # <<>> /\ in' = Tail(in) /\ UNCHANGED <<dev, keys, calls, polls>>
      /\ call.st \in {"Query", "SignMessage", "Backup", "SigningPsbt", "EnrollingWallet"}
  BY DEF OnQuery, OnSignMessage, OnBackup, OnSigningPsbt, OnEnrollingWallet, Receive
<1>2. engine.key # 0 /\ calls \in Nat /\ call.st # "DownloadingFile"
  BY <1>1, TypeParts
<1>3. \/ Decrypt /\ (Fail \/ Succeed(Response.id))
      \/ \E op \in Polls : \/ Send(Request(op, calls), call)
                           \/ Send(Request(op, calls), [call EXCEPT !.st = "PollingBackupFile"])
                           \/ Send(Request(op, calls), [call EXCEPT !.st = "PollingSignedPsbt"])
  BY DEF OnQuery, OnSignMessage, OnBackup, OnSigningPsbt, OnEnrollingWallet, Polls
<1>4. ASSUME NEW op \in Polls PROVE Request(op, calls) \in Requests
  BY <1>2, RequestTypes DEF Ops
<1>5. /\ call \in Calls /\ Gathers(call)
      /\ \A st \in {"PollingBackupFile", "PollingSignedPsbt"} :
           [call EXCEPT !.st = st] \in Calls /\ Gathers([call EXCEPT !.st = st])
  BY <1>2, GoOnTypes DEF States
<1>6. QED
  BY <1>1, <1>2, <1>3, <1>4, <1>5, SendTypes, DecryptEndTypes

LEMMA UploadAcknowledgedTypes ==
  ASSUME TypeInv, OnUploadAcknowledged
  PROVE  TypeInv'
<1>1. /\ in # <<>> /\ in' = Tail(in) /\ UNCHANGED <<dev, keys, calls, polls>>
      /\ call.st = "UploadingFile"
  BY DEF OnUploadAcknowledged, Receive
<1>2. engine.key # 0 /\ calls \in Nat /\ call.offset \in Nat /\ call.doc \in Docs \cup {Backup}
  BY <1>1, TypeParts DEF Calls
<1>3. NextOffset \in Nat
  BY <1>2, LengthTypes, ChunkEndTypes DEF NextOffset
<1>4. /\ UploadRequest(calls, call.doc, NextOffset) \in Requests
      /\ Request("sha2", calls) \in Requests
  BY <1>2, <1>3, UploadTypes, RequestTypes DEF Ops
<1>5. /\ [call EXCEPT !.offset = NextOffset] \in Calls
      /\ Gathers([call EXCEPT !.offset = NextOffset])
      /\ [call EXCEPT !.st = "VerifyingFileUpload"] \in Calls
      /\ Gathers([call EXCEPT !.st = "VerifyingFileUpload"])
  BY <1>1, <1>3, GoOnTypes DEF States
<1>6. \/ Decrypt /\ Fail
      \/ Send(UploadRequest(calls, call.doc, NextOffset), [call EXCEPT !.offset = NextOffset])
      \/ Send(Request("sha2", calls), [call EXCEPT !.st = "VerifyingFileUpload"])
  BY DEF OnUploadAcknowledged
<1>7. QED
  BY <1>1, <1>2, <1>4, <1>5, <1>6, SendTypes, DecryptEndTypes

LEMMA WithDocTypes ==
  ASSUME NEW op \in Ops, NEW id \in Nat, NEW doc \in Docs \cup {Backup}
  PROVE  /\ [Request(op, id) EXCEPT !.doc = doc] \in Requests
         /\ [Request(op, id) EXCEPT !.doc = doc].op = op
         /\ [Request(op, id) EXCEPT !.doc = doc].id = id
         /\ [Request(op, id) EXCEPT !.doc = doc].doc = doc
  BY RequestTypes DEF Requests

LEMMA UploadVerifiedTypes ==
  ASSUME TypeInv, OnUploadVerified
  PROVE  TypeInv'
<1>1. /\ in # <<>> /\ in' = Tail(in) /\ UNCHANGED <<dev, keys, calls, polls>>
      /\ call.st = "VerifyingFileUpload"
  BY DEF OnUploadVerified, Receive
<1>2. engine.key # 0 /\ calls \in Nat /\ call.doc \in Docs \cup {Backup}
  BY <1>1, TypeParts DEF Calls
<1>3. \A op \in {"stxn", "enrl"} : [Request(op, calls) EXCEPT !.doc = call.doc] \in Requests
  BY <1>2, WithDocTypes DEF Ops
<1>4. \A st \in {"SigningPsbt", "EnrollingWallet"} :
        [call EXCEPT !.st = st] \in Calls /\ Gathers([call EXCEPT !.st = st])
  BY <1>1, GoOnTypes DEF States
<1>5. \/ Decrypt /\ Fail
      \/ Send([Request("stxn", calls) EXCEPT !.doc = call.doc], [call EXCEPT !.st = "SigningPsbt"])
      \/ Send([Request("enrl", calls) EXCEPT !.doc = call.doc], [call EXCEPT !.st = "EnrollingWallet"])
  BY DEF OnUploadVerified, AfterEnroll
<1>6. QED
  BY <1>1, <1>2, <1>3, <1>4, <1>5, SendTypes, DecryptEndTypes

LEMMA DownloadTypes ==
  ASSUME TypeInv, NEW file \in Files, NEW offset \in Nat, offset < Length[file.doc]
  PROVE  /\ DownloadRequest(file, offset) \in Requests
         /\ DownloadRequest(file, offset).op = "dwld" /\ DownloadRequest(file, offset).id = calls
         /\ DownloadRequest(file, offset).offset = offset
         /\ DownloadRequest(file, offset).length = ChunkEnd(Length[file.doc], offset) - offset
         /\ DownloadRequest(file, offset).slot = Slot
<1>1. file.doc \in Docs \cup {Backup} /\ calls \in Nat /\ Slot \in Slots
  BY ContentTypes, TypeParts DEF Slot, Slots
<1>2. ChunkEnd(Length[file.doc], offset) - offset \in Nat
  <2>1. Length[file.doc] \in Nat
    BY <1>1, LengthTypes
  <2>2. ChunkEnd(Length[file.doc], offset) \in Nat /\ ChunkEnd(Length[file.doc], offset) > offset
    BY <2>1, ChunkEndTypes
  <2>3. QED
    BY <2>2
<1>3. Request("dwld", calls) \in Requests /\ Request("dwld", calls).op = "dwld" /\ Request("dwld", calls).id = calls
  BY <1>1, RequestTypes DEF Ops
<1>4. QED
  BY <1>1, <1>2, <1>3 DEF DownloadRequest, Requests

LEMMA PollTypes ==
  ASSUME TypeInv, OnPoll
  PROVE  TypeInv'
<1> DEFINE next == [call EXCEPT !.st = "DownloadingFile", !.file = Response.file, !.of = Response.id]
<1>1. /\ in # <<>> /\ in' = Tail(in) /\ UNCHANGED <<dev, keys, calls, polls>>
      /\ call.st \in {"PollingSignedPsbt", "PollingBackupFile"}
  BY DEF OnPoll, Receive
<1>2. engine.key # 0 /\ calls \in Nat /\ call \in Calls /\ Gathers(call) /\ call.bytes = <<>>
  BY <1>1, TypeParts DEF Gathers
<1>3. /\ Response.file \in Files /\ Response.id \in Nat
      /\ Response.file.doc \in Docs \cup {Backup} /\ Length[Response.file.doc] > 0
  BY <1>1, ResponseTypes, ContentTypes, LengthTypes
<1>4. /\ DownloadRequest(Response.file, 0) \in Requests
      /\ \A op \in {"stok", "bkok"} : Request(op, calls) \in Requests
  BY <1>2, <1>3, DownloadTypes, RequestTypes DEF Ops, Polls
<1>5. next \in Calls /\ Gathers(next)
  <2>1. next \in Calls /\ next.st = "DownloadingFile" /\ next.bytes = <<>> /\ next.file = Response.file
    BY <1>2, <1>3 DEF Calls, States
  <2> HIDE DEF next
  <2>2. QED
    BY <1>3, <2>1 DEF Gathers
<1>6. \/ Decrypt /\ Fail
      \/ \E op \in {"stok", "bkok"} : Send(Request(op, calls), call)
      \/ Send(DownloadRequest(Response.file, 0), next)
  BY DEF OnPoll
<1> HIDE DEF next
<1>7. QED
  BY <1>1, <1>2, <1>4, <1>5, <1>6, SendTypes, DecryptEndTypes

LEMMA OnDownloadTypes ==
  ASSUME TypeInv, OnDownload
  PROVE  TypeInv'
<1> DEFINE bytes == call.bytes \o Response.data
<1>1. /\ in # <<>> /\ in' = Tail(in) /\ UNCHANGED <<dev, keys, calls, polls>>
      /\ call.st = "DownloadingFile"
  BY DEF OnDownload, Receive
<1>2. /\ engine.key # 0 /\ calls \in Nat /\ call \in Calls /\ engine \in Engines
      /\ call.bytes \in Seq(Units) /\ call.file \in Files /\ call.of \in Nat
  BY <1>1, TypeParts DEF Calls
<1>3. bytes \in Seq(Units) /\ Len(bytes) = Downloaded /\ Downloaded \in Nat
  <2>1. Response.data \in Seq(Units)
    BY <1>1, ResponseTypes
  <2>2. /\ bytes \in Seq(Units) /\ Len(bytes) = Len(call.bytes) + Len(Response.data)
    BY <1>2, <2>1, ConcatFacts
  <2>3. Downloaded \in Nat /\ Downloaded = Len(call.bytes) + Len(Response.data)
    <3>1. Len(call.bytes) \in Nat /\ Len(Response.data) \in Nat
      BY <1>2, <2>1
    <3>2. \A a \in Nat, b \in Nat : a + b \in Nat
      OBVIOUS
    <3>3. QED
      BY <3>1, <3>2, Zenon DEF Downloaded
  <2>4. QED
    BY <2>2, <2>3
<1> HIDE DEF bytes
<1> DEFINE next == [call EXCEPT !.bytes = bytes]
           res == [NoResult EXCEPT !.status = "ok", !.id = call.of, !.bytes = bytes]
<1>4. next \in Calls /\ next.st = "DownloadingFile" /\ next.file = call.file /\ next.bytes = bytes
  BY <1>1, <1>2, <1>3 DEF Calls
<1>5. res \in Results
  BY <1>2, <1>3, ConstantTypes DEF Results
<1>6. \/ Decrypt /\ Fail
      \/ Decrypt /\ Return(res)
      \/ /\ Downloaded < Length[call.file.doc]
         /\ Send(DownloadRequest(call.file, Downloaded), next)
  BY DEF OnDownload, bytes
<1> HIDE DEF next, res
<1>7. CASE Decrypt /\ Return(res)
  <2>1. engine' \in Engines
    BY <1>2, <1>7 DEF Decrypt, Engines
  <2>2. in' \in Seq(Replies) /\ calls' \in Nat
    BY <1>1, <1>2, ResponseTypes
  <2>3. QED
    BY <1>1, <1>5, <1>7, <2>1, <2>2, ReturnTypes
<1>8. CASE Downloaded < Length[call.file.doc] /\ Send(DownloadRequest(call.file, Downloaded), next)
  <2>1. Gathers(next)
    BY <1>3, <1>4, <1>8 DEF Gathers
  <2>2. DownloadRequest(call.file, Downloaded) \in Requests
    BY <1>2, <1>3, <1>8, DownloadTypes
  <2>3. QED
    BY <1>1, <1>2, <1>4, <1>8, <2>1, <2>2, SendTypes
<1>9. QED
  BY <1>1, <1>6, <1>7, <1>8, DecryptEndTypes

-----------------------------------------------------------------------------
(* What the device does in a step.                                         *)

\* A reply to a request, and the device after it.
Replied(reply, next) ==
  /\ out # <<>> /\ out' = Tail(out) /\ in' = Append(in, reply) /\ dev' = next
  /\ reply.key = dev.key /\ reply.n = dev.enc
  /\ next.key = dev.key /\ next.enc = dev.enc + 1 /\ next.dec = dev.dec + 1
  /\ UNCHANGED <<engine, call, result, calls, faults, keys>>
  /\ past \subseteq past' /\ past' \subseteq Faults
  /\ "abandoned" \in past' => "abandoned" \in past

Keeps(next) == next.buffer = dev.buffer /\ next.slots = dev.slots /\ next.task = dev.task

Garbled(reply, next) ==
  Asked.op # "ncry" /\ ~Understood /\ reply.typ = "err" /\ Keeps(next)

Answered(reply, next) ==
  /\ Asked.op \in Queries /\ Keeps(next)
  /\ \/ reply.typ = Asked.op /\ reply.id = Asked.id
     \/ reply.typ = "refu" /\ "declined" \in past'

KindOf(op) == IF op = "smsg" THEN "message" ELSE IF op = "back" THEN "backup" ELSE op

UserAsked(reply, next) ==
  /\ Asked.op \in {"smsg", "back", "stxn", "enrl"}
  /\ next.buffer = dev.buffer /\ next.slots = dev.slots
  /\ \/ /\ reply.typ = "okay" /\ reply.id = Asked.id
        /\ next.task = [kind |-> KindOf(Asked.op), state |-> "pending", id |-> Asked.id,
                        doc |-> Asked.doc]
     \/ reply.typ = "busy" /\ next.task = dev.task /\ "busy" \in past'
     \/ /\ reply.typ = "err" /\ next.task = dev.task
        /\ \/ "declined" \in past'
           \/ Asked.op \in {"stxn", "enrl"} /\ dev.buffer # Content(Sent(Asked.doc))

Uploaded(reply, next) ==
  /\ Asked.op = "upld" /\ reply.typ = "int1" /\ reply.offset = Asked.offset
  /\ next.buffer = SubSeq(dev.buffer, 1, Least(Asked.offset, Len(dev.buffer))) \o Asked.data
  /\ next.slots = dev.slots /\ next.task = dev.task

Hashed(reply, next) ==
  Asked.op = "sha2" /\ reply.typ = "biny" /\ reply.data = <<Hash(dev.buffer)>> /\ Keeps(next)

Polled(reply, next) ==
  /\ Asked.op \in Polls /\ next.buffer = dev.buffer /\ next.slots = dev.slots
  /\ \/ reply.typ = "busy" /\ dev.task.state = "pending" /\ next.task = dev.task
     \/ /\ reply.typ = "smrx" /\ dev.task.state = "approved" /\ dev.task.kind = "message"
        /\ reply.id = dev.task.id /\ next.task = NoTask
     \/ /\ reply.typ = "strx" /\ dev.task.state = "approved" /\ dev.task.kind \in {"backup", "stxn"}
        /\ reply.id = dev.task.id /\ next.task = NoTask
        /\ reply.file = dev.slots[IF dev.task.kind = "stxn" THEN 1 ELSE 0]
     \/ reply.typ = "refu" /\ "declined" \in past' /\ next.task = NoTask
     \/ reply.typ = "err" /\ dev.task.state = "none" /\ next.task = dev.task

PieceEnd == Least(Asked.offset + Asked.length, Length[dev.slots[Asked.slot].doc])

PieceRead(reply, next) ==
  /\ Asked.op = "dwld" /\ Keeps(next)
  /\ \/ /\ reply.typ = "err"
        /\ (dev.slots[Asked.slot] = NoFile \/ Asked.offset + 1 > PieceEnd)
     \/ /\ reply.typ = "biny"
        /\ \E end \in (Asked.offset + 1)..PieceEnd :
             reply.data = SubSeq(Content(dev.slots[Asked.slot]), Asked.offset + 1, end)

Outcome(reply, next) ==
  \/ Garbled(reply, next)
  \/ Understood /\ \/ Answered(reply, next) \/ UserAsked(reply, next) \/ Uploaded(reply, next)
                   \/ Hashed(reply, next) \/ Polled(reply, next) \/ PieceRead(reply, next)

LEMMA DeviceParts ==
  ASSUME TypeInv
  PROVE  /\ dev.key \in Nat /\ dev.enc \in Nat /\ dev.dec \in Nat /\ dev.buffer \in Seq(Units)
         /\ dev.slots \in [Slots -> Files] /\ dev.task \in Tasks
         /\ dev.task.id \in Nat /\ dev.task.doc \in Docs \cup {Backup}
  BY TypeParts DEF Devices, Tasks

LEMMA AskedTypes ==
  ASSUME TypeInv, out # <<>>
  PROVE  /\ Asked = out[1] /\ Asked \in Requests /\ Tail(out) \in Seq(Requests)
         /\ Asked.op \in Ops /\ Asked.id \in Nat /\ Asked.doc \in Docs \cup {Backup}
         /\ Asked.offset \in Nat /\ Asked.length \in Nat /\ Asked.slot \in Slots
         /\ Asked.data \in Seq(Units)
<1>1. out \in Seq(Requests)
  BY TypeParts
<1>2. Asked = out[1] /\ Asked \in Requests /\ Tail(out) \in Seq(Requests)
  BY <1>1, TailFacts DEF Asked
<1>3. QED
  BY <1>2 DEF Requests

\* An answer as the next state has it.
LEMMA AnswerTypes ==
  ASSUME TypeInv, NEW reply \in Replies, NEW next \in Devices, Answer(reply, next), DeviceReads,
         keys' = keys, past \subseteq past', past' \subseteq Faults,
         "abandoned" \in past' => "abandoned" \in past,
         next.key = dev.key, next.enc = dev.enc, next.dec = dev.dec
  PROVE  \E r \in Replies, d \in Devices :
           /\ Replied(r, d)
           /\ r.typ = reply.typ /\ r.id = reply.id /\ r.offset = reply.offset
           /\ r.data = reply.data /\ r.file = reply.file
           /\ d.buffer = next.buffer /\ d.slots = next.slots /\ d.task = next.task
<1> DEFINE r == [reply EXCEPT !.key = dev.key, !.n = dev.enc]
           d == [next EXCEPT !.enc = @ + 1, !.dec = @ + 1]
<1>1. dev.key \in Nat /\ dev.enc \in Nat /\ dev.enc + 1 \in Nat /\ dev.dec + 1 \in Nat
  BY DeviceParts
<1>2. /\ r \in Replies /\ r.key = dev.key /\ r.n = dev.enc /\ r.typ = reply.typ
      /\ r.id = reply.id /\ r.offset = reply.offset /\ r.data = reply.data /\ r.file = reply.file
  BY <1>1 DEF Replies
<1>3. d = [next EXCEPT !.enc = dev.enc + 1, !.dec = dev.dec + 1]
  OBVIOUS
<1>4. /\ d \in Devices /\ d.key = dev.key /\ d.enc = dev.enc + 1 /\ d.dec = dev.dec + 1
      /\ d.buffer = next.buffer /\ d.slots = next.slots /\ d.task = next.task
  <2> HIDE DEF d
  <2>1. QED
    BY <1>1, <1>3 DEF Devices
<1>5. in' = Append(in, r) /\ dev' = d
  BY DEF Answer
<1> HIDE DEF r, d
<1>6. Replied(r, d)
  BY <1>2, <1>4, <1>5 DEF Replied, DeviceReads
<1>7. QED
  BY <1>2, <1>4, <1>6

\* The device answers and is otherwise as it was.
LEMMA KeepAnswers ==
  ASSUME TypeInv, NEW reply \in Replies, Answer(reply, dev), DeviceReads, keys' = keys,
         past' = past \/ past' = past \cup {"busy"} \/ past' = past \cup {"declined"}
  PROVE  \E r \in Replies, d \in Devices :
           /\ Replied(r, d) /\ Keeps(d)
           /\ r.typ = reply.typ /\ r.id = reply.id /\ r.data = reply.data /\ r.file = reply.file
<1>1. past \subseteq past' /\ past' \subseteq Faults /\ ("abandoned" \in past' => "abandoned" \in past)
  BY TypeParts DEF Faults
<1>2. dev \in Devices
  BY TypeParts
<1>3. QED
  BY <1>1, <1>2, AnswerTypes DEF Keeps

\* The device answers and has another task.
LEMMA TaskAnswers ==
  ASSUME TypeInv, NEW reply \in Replies, NEW task \in Tasks,
         Answer(reply, [dev EXCEPT !.task = task]), DeviceReads, keys' = keys,
         past' = past \/ past' = past \cup {"busy"} \/ past' = past \cup {"declined"}
  PROVE  \E r \in Replies, d \in Devices :
           /\ Replied(r, d) /\ d.buffer = dev.buffer /\ d.slots = dev.slots /\ d.task = task
           /\ r.typ = reply.typ /\ r.id = reply.id /\ r.data = reply.data /\ r.file = reply.file
<1> DEFINE next == [dev EXCEPT !.task = task]
<1>1. past \subseteq past' /\ past' \subseteq Faults /\ ("abandoned" \in past' => "abandoned" \in past)
  BY TypeParts DEF Faults
<1>2. /\ next \in Devices /\ next.key = dev.key /\ next.enc = dev.enc /\ next.dec = dev.dec
      /\ next.buffer = dev.buffer /\ next.slots = dev.slots /\ next.task = task
  BY TypeParts DEF Devices
<1>3. Answer(reply, next)
  OBVIOUS
<1> HIDE DEF next
<1>4. QED
  BY <1>1, <1>2, <1>3, AnswerTypes

LEMMA AskUserOutcome ==
  ASSUME TypeInv, DeviceReads, keys' = keys, Understood, NEW kind \in {"message", "backup", "stxn", "enrl"},
         Asked.op \in {"smsg", "back", "stxn", "enrl"}, kind = KindOf(Asked.op), NEW valid \in BOOLEAN,
         ~valid => Asked.op \in {"stxn", "enrl"} /\ dev.buffer # Content(Sent(Asked.doc)),
         AskUser(kind, valid)
  PROVE  \E reply \in Replies, next \in Devices : Replied(reply, next) /\ Outcome(reply, next)
<1> DEFINE task == [kind |-> kind, state |-> "pending", id |-> Asked.id, doc |-> Asked.doc]
<1>1. out # <<>> /\ Asked.id \in Nat /\ Asked.doc \in Docs \cup {Backup}
  BY AskedTypes DEF DeviceReads
<1>2. task \in Tasks
  BY <1>1 DEF Tasks
<1>3. CASE Answer([Reply("okay") EXCEPT !.id = Asked.id], [dev EXCEPT !.task = task]) /\ past' = past
  <2> DEFINE reply == [Reply("okay") EXCEPT !.id = Asked.id]
  <2>1. reply \in Replies /\ reply.typ = "okay" /\ reply.id = Asked.id
    BY <1>1, ReplyTypes DEF Replies
  <2> HIDE DEF task, reply
  <2>2. Answer(reply, [dev EXCEPT !.task = task]) /\ past' = past
    BY <1>3 DEF reply, task
  <2>3. PICK r \in Replies, d \in Devices :
          /\ Replied(r, d) /\ d.buffer = dev.buffer /\ d.slots = dev.slots /\ d.task = task
          /\ r.typ = "okay" /\ r.id = Asked.id
    BY <1>2, <2>1, <2>2, TaskAnswers
  <2>4. UserAsked(r, d)
    BY <2>3 DEF UserAsked, task
  <2>5. QED
    BY <2>3, <2>4 DEF Outcome
<1>4. CASE Answer(Reply("busy"), dev) /\ past' = past \cup {"busy"}
  <2>1. Reply("busy") \in Replies /\ Reply("busy").typ = "busy"
    BY ReplyTypes
  <2>2. PICK r \in Replies, d \in Devices : Replied(r, d) /\ Keeps(d) /\ r.typ = "busy"
    BY <1>4, <2>1, KeepAnswers
  <2>3. UserAsked(r, d)
    BY <1>4, <2>2 DEF UserAsked, Keeps
  <2>4. QED
    BY <2>2, <2>3 DEF Outcome
<1>5. CASE Answer(Reply("err"), dev) /\ past' = IF valid THEN past \cup {"declined"} ELSE past
  <2>1. Reply("err") \in Replies /\ Reply("err").typ = "err"
    BY ReplyTypes
  <2>2. PICK r \in Replies, d \in Devices : Replied(r, d) /\ Keeps(d) /\ r.typ = "err"
    BY <1>5, <2>1, KeepAnswers
  <2>3. UserAsked(r, d)
    BY <1>5, <2>2 DEF UserAsked, Keeps
  <2>4. QED
    BY <2>2, <2>3 DEF Outcome
<1>6. QED
  BY <1>3, <1>4, <1>5 DEF AskUser

LEMMA AsksUserOutcome ==
  ASSUME TypeInv, DeviceAsksUser
  PROVE  \E reply \in Replies, next \in Devices : Replied(reply, next) /\ Outcome(reply, next)
<1>1. CASE DeviceDoes("smsg") /\ AskUser("message", TRUE)
  BY <1>1, AskUserOutcome DEF DeviceDoes, KindOf
<1>2. CASE DeviceDoes("back") /\ AskUser("backup", TRUE)
  BY <1>2, AskUserOutcome DEF DeviceDoes, KindOf
<1>3. ASSUME NEW op \in {"stxn", "enrl"}, DeviceDoes(op),
             AskUser(op, dev.buffer = Content(Sent(Asked.doc)))
      PROVE  \E reply \in Replies, next \in Devices : Replied(reply, next) /\ Outcome(reply, next)
  <2>1. /\ DeviceReads /\ keys' = keys /\ Understood /\ Asked.op = op /\ op = KindOf(Asked.op)
        /\ op \in {"message", "backup", "stxn", "enrl"} /\ Asked.op \in {"smsg", "back", "stxn", "enrl"}
    BY <1>3 DEF DeviceDoes, KindOf
  <2> DEFINE valid == dev.buffer = Content(Sent(Asked.doc))
  <2>2. valid \in BOOLEAN /\ (~valid => Asked.op \in {"stxn", "enrl"} /\ dev.buffer # Content(Sent(Asked.doc)))
    BY <2>1
  <2>3. AskUser(op, valid)
    BY <1>3
  <2> HIDE DEF valid
  <2>4. QED
    BY <2>1, <2>2, <2>3, AskUserOutcome
<1>4. QED
  BY <1>1, <1>2, <1>3 DEF DeviceAsksUser

LEMMA SimpleOutcome ==
  ASSUME TypeInv, DeviceGarbled \/ DeviceQuery \/ DeviceHash
  PROVE  \E reply \in Replies, next \in Devices : Replied(reply, next) /\ Outcome(reply, next)
<1>1. DeviceReads /\ keys' = keys
  BY DEF DeviceGarbled, DeviceQuery, DeviceHash, DeviceDoes
<1>2. Asked.id \in Nat
  BY <1>1, AskedTypes DEF DeviceReads
<1>3. CASE DeviceGarbled
  <2>1. Reply("err") \in Replies /\ Reply("err").typ = "err"
    BY ReplyTypes
  <2>2. PICK r \in Replies, d \in Devices : Replied(r, d) /\ Keeps(d) /\ r.typ = "err"
    BY <1>1, <1>3, <2>1, KeepAnswers DEF DeviceGarbled
  <2>3. QED
    BY <1>3, <2>2 DEF Outcome, Garbled, DeviceGarbled
<1>4. CASE DeviceQuery
  <2>1. PICK op \in Queries :
          /\ Asked.op = op /\ Understood
          /\ \/ Answer([Reply(op) EXCEPT !.id = Asked.id], dev) /\ past' = past
             \/ Answer(Reply("refu"), dev) /\ past' = past \cup {"declined"}
    BY <1>4 DEF DeviceQuery, DeviceDoes
  <2>2. CASE Answer([Reply(op) EXCEPT !.id = Asked.id], dev) /\ past' = past
    <3> DEFINE reply == [Reply(op) EXCEPT !.id = Asked.id]
    <3>1. Reply(op) \in Replies /\ Reply(op).typ = op
      BY ReplyTypes DEF Queries, Texts
    <3>2. reply \in Replies /\ reply.typ = op /\ reply.id = Asked.id
      BY <1>2, <3>1 DEF Replies
    <3>3. Answer(reply, dev)
      BY <2>2
    <3> HIDE DEF reply
    <3>4. PICK r \in Replies, d \in Devices :
            Replied(r, d) /\ Keeps(d) /\ r.typ = op /\ r.id = Asked.id
      BY <1>1, <2>2, <3>2, <3>3, KeepAnswers
    <3>5. QED
      BY <2>1, <3>4 DEF Outcome, Answered
  <2>3. CASE Answer(Reply("refu"), dev) /\ past' = past \cup {"declined"}
    <3>1. Reply("refu") \in Replies /\ Reply("refu").typ = "refu"
      BY ReplyTypes
    <3>2. PICK r \in Replies, d \in Devices : Replied(r, d) /\ Keeps(d) /\ r.typ = "refu"
      BY <1>1, <2>3, <3>1, KeepAnswers
    <3>3. QED
      BY <2>1, <2>3, <3>2 DEF Outcome, Answered
  <2>4. QED
    BY <2>1, <2>2, <2>3
<1>5. CASE DeviceHash
  <2> DEFINE reply == [Reply("biny") EXCEPT !.data = <<Hash(dev.buffer)>>]
  <2>1. /\ Reply("biny") \in Replies /\ Reply("biny").typ = "biny" /\ Hash(dev.buffer) \in Units
    BY ReplyTypes, HashTypes
  <2>2. <<Hash(dev.buffer)>> \in Seq(Units)
    BY <2>1
  <2>3. reply \in Replies /\ reply.typ = "biny" /\ reply.data = <<Hash(dev.buffer)>>
    BY <2>1, <2>2 DEF Replies
  <2>4. Answer(reply, dev) /\ past' = past /\ Asked.op = "sha2" /\ Understood
    BY <1>5 DEF DeviceHash, DeviceDoes
  <2> HIDE DEF reply
  <2>5. PICK r \in Replies, d \in Devices :
          Replied(r, d) /\ Keeps(d) /\ r.typ = "biny" /\ r.data = <<Hash(dev.buffer)>>
    BY <1>1, <2>3, <2>4, KeepAnswers
  <2>6. QED
    BY <2>4, <2>5 DEF Outcome, Hashed
<1>6. QED
  BY <1>3, <1>4, <1>5

LEMMA UploadOutcome ==
  ASSUME TypeInv, DeviceUpload
  PROVE  \E reply \in Replies, next \in Devices : Replied(reply, next) /\ Outcome(reply, next)
<1> DEFINE buffer == SubSeq(dev.buffer, 1, Least(Asked.offset, Len(dev.buffer))) \o Asked.data
           reply == [Reply("int1") EXCEPT !.offset = Asked.offset]
           next == [dev EXCEPT !.buffer = buffer]
<1>1. /\ DeviceReads /\ keys' = keys /\ Asked.op = "upld" /\ Understood /\ past' = past
      /\ out # <<>>
  BY DEF DeviceUpload, DeviceDoes, DeviceReads
<1>2. Asked.offset \in Nat /\ Asked.data \in Seq(Units) /\ dev.buffer \in Seq(Units)
  BY <1>1, AskedTypes, DeviceParts
<1>3. buffer \in Seq(Units)
  <2>1. Least(Asked.offset, Len(dev.buffer)) \in 0..Len(dev.buffer)
    BY <1>2 DEF Least
  <2>2. SubSeq(dev.buffer, 0 + 1, Least(Asked.offset, Len(dev.buffer))) \in Seq(Units)
    BY <1>2, <2>1, PieceFacts
  <2>3. SubSeq(dev.buffer, 1, Least(Asked.offset, Len(dev.buffer))) \in Seq(Units)
    BY <2>2
  <2>4. QED
    BY <1>2, <2>3, ConcatFacts
<1>4. Answer(reply, next)
  BY DEF DeviceUpload
<1>5. reply \in Replies /\ reply.typ = "int1" /\ reply.offset = Asked.offset
  BY <1>2, ReplyTypes DEF Replies
<1>6. next = [dev EXCEPT !.buffer = buffer]
  OBVIOUS
<1> HIDE DEF reply, next, buffer
<1>7. /\ next \in Devices /\ next.key = dev.key /\ next.enc = dev.enc /\ next.dec = dev.dec
      /\ next.buffer = buffer /\ next.slots = dev.slots /\ next.task = dev.task
  BY <1>3, <1>6, TypeParts DEF Devices
<1>8. past \subseteq past' /\ past' \subseteq Faults /\ ("abandoned" \in past' => "abandoned" \in past)
  BY <1>1, TypeParts
<1>9. PICK r \in Replies, d \in Devices :
        /\ Replied(r, d) /\ r.typ = reply.typ /\ r.offset = reply.offset
        /\ d.buffer = next.buffer /\ d.slots = next.slots /\ d.task = next.task
  BY <1>1, <1>4, <1>5, <1>7, <1>8, AnswerTypes
<1>10. Uploaded(r, d)
  BY <1>1, <1>5, <1>7, <1>9 DEF Uploaded, buffer
<1>11. QED
  BY <1>1, <1>9, <1>10 DEF Outcome

LEMMA PolledOutcome ==
  ASSUME TypeInv, DevicePolled
  PROVE  \E reply \in Replies, next \in Devices : Replied(reply, next) /\ Outcome(reply, next)
<1>1. DeviceReads /\ keys' = keys /\ Asked.op \in Polls /\ Understood
  BY DEF DevicePolled, DeviceDoes
<1>2. dev.task.id \in Nat /\ dev.slots \in [Slots -> Files] /\ NoTask \in Tasks
  BY DeviceParts, ConstantTypes
<1>3. CASE dev.task.state = "pending" /\ Answer(Reply("busy"), dev) /\ past' = past
  <2>1. Reply("busy") \in Replies /\ Reply("busy").typ = "busy"
    BY ReplyTypes
  <2>2. PICK r \in Replies, d \in Devices : Replied(r, d) /\ Keeps(d) /\ r.typ = "busy"
    BY <1>1, <1>3, <2>1, KeepAnswers
  <2>3. QED
    BY <1>1, <1>3, <2>2 DEF Outcome, Polled, Keeps
<1>4. CASE /\ dev.task.state = "approved" /\ dev.task.kind = "message" /\ past' = past
           /\ Answer([Reply("smrx") EXCEPT !.id = dev.task.id], [dev EXCEPT !.task = NoTask])
  <2> DEFINE reply == [Reply("smrx") EXCEPT !.id = dev.task.id]
  <2>1. reply \in Replies /\ reply.typ = "smrx" /\ reply.id = dev.task.id
    BY <1>2, ReplyTypes DEF Replies
  <2>2. Answer(reply, [dev EXCEPT !.task = NoTask])
    BY <1>4
  <2> HIDE DEF reply
  <2>3. PICK r \in Replies, d \in Devices :
          /\ Replied(r, d) /\ d.buffer = dev.buffer /\ d.slots = dev.slots /\ d.task = NoTask
          /\ r.typ = "smrx" /\ r.id = dev.task.id
    BY <1>1, <1>2, <1>4, <2>1, <2>2, TaskAnswers
  <2>4. QED
    BY <1>1, <1>4, <2>3 DEF Outcome, Polled
<1>5. CASE /\ dev.task.state = "approved" /\ dev.task.kind \in {"backup", "stxn"} /\ past' = past
           /\ Answer([Reply("strx") EXCEPT
                        !.id = dev.task.id,
                        !.file = dev.slots[IF dev.task.kind = "stxn" THEN 1 ELSE 0]],
                     [dev EXCEPT !.task = NoTask])
  <2> DEFINE file == dev.slots[IF dev.task.kind = "stxn" THEN 1 ELSE 0]
             reply == [Reply("strx") EXCEPT !.id = dev.task.id, !.file = file]
  <2>1. file \in Files
    BY <1>2 DEF Slots
  <2>2. Answer(reply, [dev EXCEPT !.task = NoTask])
    BY <1>5
  <2> HIDE DEF file
  <2>3. reply \in Replies /\ reply.typ = "strx" /\ reply.id = dev.task.id /\ reply.file = file
    <3> DEFINE base == Reply("strx")
    <3>1. base \in Replies /\ base.typ = "strx"
      BY ReplyTypes
    <3>2. reply = [base EXCEPT !.id = dev.task.id, !.file = file]
      OBVIOUS
    <3> HIDE DEF reply, base
    <3>3. QED
      BY <1>2, <2>1, <3>1, <3>2 DEF Replies
  <2> HIDE DEF reply
  <2>4. PICK r \in Replies, d \in Devices :
          /\ Replied(r, d) /\ d.buffer = dev.buffer /\ d.slots = dev.slots /\ d.task = NoTask
          /\ r.typ = "strx" /\ r.id = dev.task.id /\ r.file = file
    BY <1>1, <1>2, <1>5, <2>2, <2>3, TaskAnswers
  <2>5. QED
    BY <1>1, <1>5, <2>4 DEF Outcome, Polled, file
<1>6. CASE /\ Answer(Reply("refu"), [dev EXCEPT !.task = NoTask])
           /\ past' = past \cup {"declined"}
  <2>1. Reply("refu") \in Replies /\ Reply("refu").typ = "refu"
    BY ReplyTypes
  <2>2. PICK r \in Replies, d \in Devices :
          /\ Replied(r, d) /\ d.buffer = dev.buffer /\ d.slots = dev.slots /\ d.task = NoTask
          /\ r.typ = "refu"
    BY <1>1, <1>2, <1>6, <2>1, TaskAnswers
  <2>3. QED
    BY <1>1, <1>6, <2>2 DEF Outcome, Polled
<1>7. CASE dev.task.state = "none" /\ Answer(Reply("err"), dev) /\ past' = past
  <2>1. Reply("err") \in Replies /\ Reply("err").typ = "err"
    BY ReplyTypes
  <2>2. PICK r \in Replies, d \in Devices : Replied(r, d) /\ Keeps(d) /\ r.typ = "err"
    BY <1>1, <1>7, <2>1, KeepAnswers
  <2>3. QED
    BY <1>1, <1>7, <2>2 DEF Outcome, Polled, Keeps
<1>8. QED
  BY <1>3, <1>4, <1>5, <1>6, <1>7 DEF DevicePolled

LEMMA DownloadOutcome ==
  ASSUME TypeInv, DeviceDownload
  PROVE  \E reply \in Replies, next \in Devices : Replied(reply, next) /\ Outcome(reply, next)
<1> DEFINE file == dev.slots[Asked.slot]
<1>1. DeviceReads /\ keys' = keys /\ Asked.op = "dwld" /\ Understood /\ past' = past
  BY DEF DeviceDownload, DeviceDoes
<1>2. Asked.offset \in Nat /\ Asked.length \in Nat /\ file \in Files /\ Length[file.doc] \in Nat
  BY <1>1, AskedTypes, DeviceParts, ContentTypes, LengthTypes DEF DeviceReads
<1>3. PieceEnd \in Nat /\ PieceEnd <= Length[file.doc]
  BY <1>2 DEF PieceEnd, Least
<1>4. \/ (file = NoFile \/ Asked.offset + 1 > PieceEnd) /\ Answer(Reply("err"), dev)
      \/ \E end \in (Asked.offset + 1)..PieceEnd :
           Answer([Reply("biny") EXCEPT !.data = SubSeq(Content(file), Asked.offset + 1, end)], dev)
  <2> DEFINE chunks == {SubSeq(Content(file), Asked.offset + 1, e) : e \in (Asked.offset + 1)..PieceEnd}
  <2>1. \E reply \in IF file = NoFile \/ chunks = {} THEN {Reply("err")}
                     ELSE {[Reply("biny") EXCEPT !.data = chunk] : chunk \in chunks} :
          Answer(reply, dev)
    BY DEF DeviceDownload, PieceEnd
  <2>2. chunks = {} => Asked.offset + 1 > PieceEnd
    <3>1. SUFFICES ASSUME ~(Asked.offset + 1 > PieceEnd) PROVE chunks # {}
      OBVIOUS
    <3>2. Asked.offset + 1 \in (Asked.offset + 1)..PieceEnd
      BY <1>2, <1>3, <3>1
    <3>3. SubSeq(Content(file), Asked.offset + 1, Asked.offset + 1) \in chunks
      BY <3>2
    <3>4. QED
      BY <3>3
  <2>3. CASE file = NoFile \/ chunks = {}
    BY <2>1, <2>2, <2>3
  <2>4. CASE ~(file = NoFile \/ chunks = {})
    <3>1. PICK chunk \in chunks : Answer([Reply("biny") EXCEPT !.data = chunk], dev)
      BY <2>1, <2>4
    <3>2. PICK end \in (Asked.offset + 1)..PieceEnd :
            chunk = SubSeq(Content(file), Asked.offset + 1, end)
      BY <3>1
    <3>3. QED
      BY <3>1, <3>2
  <2>5. QED
    BY <2>3, <2>4
<1>5. CASE (file = NoFile \/ Asked.offset + 1 > PieceEnd) /\ Answer(Reply("err"), dev)
  <2>1. Reply("err") \in Replies /\ Reply("err").typ = "err"
    BY ReplyTypes
  <2>2. PICK r \in Replies, d \in Devices : Replied(r, d) /\ Keeps(d) /\ r.typ = "err"
    BY <1>1, <1>5, <2>1, KeepAnswers
  <2>3. PieceRead(r, d)
    BY <1>1, <1>5, <2>2 DEF PieceRead
  <2>4. QED
    BY <1>1, <2>2, <2>3 DEF Outcome
<1>6. ASSUME NEW end \in (Asked.offset + 1)..PieceEnd,
             Answer([Reply("biny") EXCEPT !.data = SubSeq(Content(file), Asked.offset + 1, end)], dev)
      PROVE  \E reply \in Replies, next \in Devices : Replied(reply, next) /\ Outcome(reply, next)
  <2> DEFINE data == SubSeq(Content(file), Asked.offset + 1, end)
             reply == [Reply("biny") EXCEPT !.data = data]
  <2>1. data \in Seq(Units)
    BY <1>2, <1>3, ContentTypes, SMTT(60)
  <2>2. Answer(reply, dev)
    BY <1>6
  <2> HIDE DEF data
  <2>3. reply \in Replies /\ reply.typ = "biny" /\ reply.data = data
    BY <2>1, ReplyTypes DEF Replies
  <2> HIDE DEF reply
  <2>4. PICK r \in Replies, d \in Devices :
          Replied(r, d) /\ Keeps(d) /\ r.typ = "biny" /\ r.data = data
    BY <1>1, <2>2, <2>3, KeepAnswers
  <2>5. PieceRead(r, d)
    BY <1>1, <2>4 DEF PieceRead, data
  <2>6. QED
    BY <1>1, <2>4, <2>5 DEF Outcome
<1>7. QED
  BY <1>4, <1>5, <1>6

LEMMA DeviceSteps ==
  ASSUME TypeInv, DeviceStep
  PROVE  \/ DeviceKeyExchange
         \/ \E reply \in Replies, next \in Devices : Replied(reply, next) /\ Outcome(reply, next)
  BY AsksUserOutcome, SimpleOutcome, UploadOutcome, PolledOutcome, DownloadOutcome DEF DeviceStep

LEMMA RepliedTypes ==
  ASSUME TypeInv, NEW reply \in Replies, NEW next \in Devices, Replied(reply, next), polls' \in Nat
  PROVE  TypeInv'
<1>1. out' \in Seq(Requests) /\ in' \in Seq(Replies)
  BY AskedTypes, TypeParts, AppendFacts DEF Replied
<1>2. call' = call /\ engine' = engine /\ dev' \in Devices
  BY DEF Replied
<1>3. QED
  BY <1>1, <1>2, TypeParts, TypePartsNext DEF Replied

LEMMA KeyExchangeSteps ==
  ASSUME TypeInv, DeviceKeyExchange
  PROVE  /\ out # <<>> /\ out' = Tail(out) /\ Asked.op = "ncry"
         /\ UNCHANGED <<engine, call, result, calls, faults, polls>>
         /\ \E reply \in Replies :
              /\ in' = Append(in, reply)
              /\ \/ /\ reply.typ = "mypub" /\ reply.id = Asked.id /\ reply.offset = dev'.key
                    /\ keys' = keys + 1 /\ dev' \in Devices /\ past' = past
                    /\ dev'.key = keys + 1 /\ dev'.enc = 0 /\ dev'.dec = 0
                    /\ dev'.slots = dev.slots /\ dev'.task = dev.task
                 \/ reply.typ = "err" /\ UNCHANGED <<dev, keys>> /\ past' = past \cup {"declined"}
<1>1. /\ out # <<>> /\ out' = Tail(out) /\ Asked.op = "ncry"
      /\ UNCHANGED <<engine, call, result, calls, faults, polls>>
  BY DEF DeviceKeyExchange, DeviceReads
<1>2. Asked.id \in Nat /\ keys \in Nat /\ keys + 1 \in Nat
  <2>1. keys \in Nat
    BY TypeParts
  <2>2. QED
    BY <1>1, <2>1, AskedTypes
<1>3. CASE /\ keys' = keys + 1 /\ dev' = [dev EXCEPT !.key = keys', !.enc = 0, !.dec = 0]
           /\ in' = Append(in, [Reply("mypub") EXCEPT !.id = Asked.id, !.offset = keys'])
           /\ past' = past
  <2> DEFINE reply == [Reply("mypub") EXCEPT !.id = Asked.id, !.offset = keys']
  <2>1. reply \in Replies /\ reply.typ = "mypub" /\ reply.id = Asked.id /\ reply.offset = keys'
    <3> DEFINE base == Reply("mypub")
    <3>1. base \in Replies /\ base.typ = "mypub" /\ keys' \in Nat
      BY <1>2, <1>3, ReplyTypes
    <3>2. reply = [base EXCEPT !.id = Asked.id, !.offset = keys']
      OBVIOUS
    <3> HIDE DEF reply, base
    <3>3. QED
      BY <1>2, <3>1, <3>2 DEF Replies
  <2>2. in' = Append(in, reply)
    BY <1>3
  <2> HIDE DEF reply
  <2>3. /\ dev' \in Devices /\ dev'.key = keys + 1 /\ dev'.enc = 0 /\ dev'.dec = 0
        /\ dev'.slots = dev.slots /\ dev'.task = dev.task
    BY <1>2, <1>3, TypeParts DEF Devices
  <2>4. QED
    BY <1>1, <1>3, <2>1, <2>2, <2>3
<1>4. CASE in' = Append(in, Reply("err")) /\ past' = past \cup {"declined"} /\ UNCHANGED <<dev, keys>>
  BY <1>1, <1>4, ReplyTypes
<1>5. QED
  BY <1>1, <1>3, <1>4 DEF DeviceKeyExchange

LEMMA DeviceTypes ==
  ASSUME TypeInv, DeviceStep
  PROVE  TypeInv'
<1>1. polls' \in Nat
  <2>1. polls \in Nat
    BY TypeParts, SMTT(60)
  <2>2. polls' = polls \/ polls' = polls + 1
    BY DEF DeviceStep, DeviceKeyExchange, DeviceGarbled, DeviceQuery, DeviceAsksUser, DeviceUpload,
           DeviceHash, DevicePolled, DeviceDownload
  <2>3. QED
    BY <2>1, <2>2, SMTT(60)
<1>2. CASE DeviceKeyExchange
  <2>1. /\ out' = Tail(out) /\ out # <<>> /\ UNCHANGED <<engine, call, result, calls, faults, polls>>
    BY <1>2, KeyExchangeSteps
  <2>2. out' \in Seq(Requests) /\ in' \in Seq(Replies)
    <3>1. PICK reply \in Replies : in' = Append(in, reply)
      BY <1>2, KeyExchangeSteps
    <3>2. in \in Seq(Replies) /\ out' \in Seq(Requests)
      BY <2>1, AskedTypes, TypeParts
    <3>3. QED
      BY <3>1, <3>2, AppendFacts
  <2>3. keys' \in Nat /\ dev' \in Devices /\ past' \subseteq Faults
    <3>1. keys \in Nat /\ dev \in Devices /\ past \subseteq Faults /\ "declined" \in Faults
      BY TypeParts DEF Faults
    <3>2. \/ keys' = keys + 1 /\ dev' \in Devices /\ past' = past
          \/ UNCHANGED <<dev, keys>> /\ past' = past \cup {"declined"}
      BY <1>2, KeyExchangeSteps
    <3>3. QED
      BY <3>1, <3>2
  <2>4. QED
    BY <2>1, <2>2, <2>3, TypeParts, TypePartsNext
<1>3. QED
  BY <1>1, <1>2, DeviceSteps, RepliedTypes

\* What the user's decision makes of the device.
LEMMA UserSteps ==
  ASSUME TypeInv, UserDecides
  PROVE  /\ UNCHANGED <<engine, call, result, out, in, keys, past, calls, faults, polls>>
         /\ dev.task.state = "pending" /\ dev' \in Devices
         /\ dev'.key = dev.key /\ dev'.enc = dev.enc /\ dev'.dec = dev.dec /\ dev'.buffer = dev.buffer
         /\ \/ dev.task.kind = "enrl" /\ dev'.task = NoTask /\ dev'.slots = dev.slots
            \/ /\ dev.task.kind # "enrl"
               /\ dev'.task.kind = dev.task.kind /\ dev'.task.id = dev.task.id
               /\ dev'.task.doc = dev.task.doc
               /\ \/ dev'.task.state = "refused" /\ dev'.slots = dev.slots
                  \/ /\ dev'.task.state = "approved"
                     /\ dev.task.kind = "stxn" => dev'.slots[1] = Signed(dev.task.doc)
                     /\ dev.task.kind = "backup" => dev'.slots[0] = Sent(Backup)
<1>1. /\ UNCHANGED <<engine, call, result, out, in, keys, past, calls, faults, polls>>
      /\ dev.task.state = "pending"
  BY DEF UserDecides
<1>2. /\ dev \in Devices /\ dev.task \in Tasks /\ dev.slots \in [Slots -> Files]
      /\ dev.task.doc \in Docs \cup {Backup}
  BY TypeParts, DeviceParts
<1>3. PICK approved \in BOOLEAN :
        LET decided == [dev EXCEPT !.task.state = IF approved THEN "approved" ELSE "refused"] IN
        dev' = CASE dev.task.kind = "enrl"              -> [dev EXCEPT !.task = NoTask]
                 [] approved /\ dev.task.kind = "stxn"   ->
                      [decided EXCEPT !.slots[1] = Signed(dev.task.doc)]
                 [] approved /\ dev.task.kind = "backup" ->
                      [decided EXCEPT !.slots[0] = Sent(Backup)]
                 [] OTHER                                -> decided
  BY DEF UserDecides
<1> DEFINE state == IF approved THEN "approved" ELSE "refused"
           task == [dev.task EXCEPT !.state = state]
           decided == [dev EXCEPT !.task = task]
<1>4. /\ task \in Tasks /\ task.kind = dev.task.kind /\ task.id = dev.task.id
      /\ task.doc = dev.task.doc /\ task.state = state
  BY <1>2 DEF Tasks
<1>5. dev' = CASE dev.task.kind = "enrl"              -> [dev EXCEPT !.task = NoTask]
               [] approved /\ dev.task.kind = "stxn"   ->
                    [decided EXCEPT !.slots[1] = Signed(dev.task.doc)]
               [] approved /\ dev.task.kind = "backup" ->
                    [decided EXCEPT !.slots[0] = Sent(Backup)]
               [] OTHER                                -> decided
  BY <1>3
<1> HIDE DEF task
<1>6. /\ decided \in Devices /\ decided.key = dev.key /\ decided.enc = dev.enc
      /\ decided.dec = dev.dec /\ decided.buffer = dev.buffer /\ decided.slots = dev.slots
      /\ decided.task = task
  BY <1>2, <1>4 DEF Devices
<1> HIDE DEF decided
<1>7. CASE dev.task.kind = "enrl"
  <2>1. dev' = [dev EXCEPT !.task = NoTask]
    BY <1>5, <1>7
  <2>2. QED
    BY <1>1, <1>2, <1>7, <2>1, ConstantTypes DEF Devices
<1>8. CASE dev.task.kind # "enrl" /\ dev' = decided
           /\ ~(approved /\ dev.task.kind \in {"stxn", "backup"})
  BY <1>1, <1>2, <1>4, <1>6, <1>8
<1>9. ASSUME approved, NEW slot \in Slots, NEW file \in Files, dev.task.kind # "enrl",
             dev' = [decided EXCEPT !.slots[slot] = file],
             dev.task.kind = "stxn" => slot = 1 /\ file = Signed(dev.task.doc),
             dev.task.kind = "backup" => slot = 0 /\ file = Sent(Backup)
      PROVE  /\ dev' \in Devices
             /\ dev'.key = dev.key /\ dev'.enc = dev.enc /\ dev'.dec = dev.dec
             /\ dev'.buffer = dev.buffer /\ dev'.task = task /\ dev'.slots[slot] = file
  <2> DEFINE slots == [decided.slots EXCEPT ![slot] = file]
  <2>1. slots \in [Slots -> Files] /\ slots[slot] = file
    BY <1>2, <1>6, <1>9
  <2>2. dev' = [decided EXCEPT !.slots = slots]
    BY <1>9
  <2> HIDE DEF slots
  <2>3. QED
    BY <1>6, <2>1, <2>2 DEF Devices
<1>10. Signed(dev.task.doc) \in Files /\ Sent(Backup) \in Files /\ 0 \in Slots /\ 1 \in Slots
  BY <1>2, SentTypes DEF Slots
<1>11. CASE approved /\ dev.task.kind = "stxn"
  <2>1. dev' = [decided EXCEPT !.slots[1] = Signed(dev.task.doc)]
    BY <1>5, <1>11
  <2>2. QED
    BY <1>1, <1>4, <1>9, <1>10, <1>11, <2>1
<1>12. CASE approved /\ dev.task.kind = "backup"
  <2>1. dev' = [decided EXCEPT !.slots[0] = Sent(Backup)]
    BY <1>5, <1>12
  <2>2. QED
    BY <1>1, <1>4, <1>9, <1>10, <1>12, <2>1
<1>13. QED
  BY <1>5, <1>7, <1>8, <1>11, <1>12

LEMMA FaultTypes ==
  ASSUME TypeInv, Abandon \/ LoseReply \/ Reconnect
  PROVE  TypeInv'
<1>1. faults + 1 \in Nat /\ \A what \in {"abandoned", "lost"} : past \cup {what} \subseteq Faults
  BY TypeParts DEF Faults
<1>2. CASE Abandon \/ LoseReply
  <2>1. in' \in Seq(Replies)
    BY <1>2, TypeParts, TailFacts DEF Abandon, LoseReply
  <2>2. /\ call' = NewCall /\ result' = NoResult /\ faults' \in Nat /\ past' \subseteq Faults
        /\ UNCHANGED <<engine, out, dev, keys, calls, polls>>
    BY <1>1, <1>2 DEF Abandon, LoseReply, StopWaiting
  <2>3. QED
    BY <2>1, <2>2, TypeParts, TypePartsNext, ConstantTypes
<1>3. CASE Reconnect
  <2>1. <<>> \in Seq(Requests) /\ <<>> \in Seq(Replies)
    BY EmptyFacts
  <2>2. /\ call' = call /\ call = NewCall /\ result' = NoResult /\ engine' = NewEngine
        /\ dev' \in {dev, NewDevice} /\ faults' \in Nat /\ past' = {} /\ out' = <<>> /\ in' = <<>>
        /\ UNCHANGED <<keys, calls, polls>>
    BY <1>1, <1>3 DEF Reconnect
  <2>3. QED
    BY <2>1, <2>2, TypeParts, TypePartsNext, ConstantTypes
<1>4. QED
  BY <1>2, <1>3

LEMMA TypesNext ==
  ASSUME TypeInv, [Next]_vars
  PROVE  TypeInv'
<1>1. CASE HostReceive
  BY <1>1, KeyTypes, RoundTypes, UploadAcknowledgedTypes, UploadVerifiedTypes, PollTypes,
     OnDownloadTypes DEF HostReceive
<1>2. CASE UserDecides
  BY <1>2, UserSteps, TypeParts, TypePartsNext
<1>3. CASE UNCHANGED vars
  BY <1>3, TypeParts, TypePartsNext DEF vars
<1>4. QED
  BY <1>1, <1>2, <1>3, StartTypes, FaultTypes, DeviceTypes DEF Next

LEMMA TypesInit ==
  ASSUME Init
  PROVE  TypeInv
<1>1. /\ engine \in Engines /\ call \in Calls /\ Gathers(call) /\ result \in Results
      /\ call.st = "New" /\ dev \in Devices
  BY ConstantTypes DEF Init
<1>2. out \in Seq(Requests) /\ in \in Seq(Replies)
  BY EmptyFacts DEF Init
<1>3. past \subseteq Faults /\ keys \in Nat /\ calls \in Nat /\ faults \in Nat /\ polls \in Nat
  BY DEF Init
<1>4. QED
  BY <1>1, <1>2, <1>3, TypeParts

\* Every state of a client, its engine, its channel and its device is well formed: a call
\* that uses the streams has an engine with a key, and what a call has downloaded is
\* shorter than the file that was announced to it.
THEOREM TypeCorrect == Spec => []TypeOK
<1>1. Init => TypeInv
  BY TypesInit
<1>2. TypeInv /\ [Next]_vars => TypeInv'
  BY TypesNext
<1>3. TypeInv => TypeOK
  BY DEF TypeInv
<1>4. QED
  BY <1>1, <1>2, <1>3, PTL DEF Spec

-----------------------------------------------------------------------------
(* The invariants.  A call that waits has one frame under way: its request *)
(* or the reply to it.                                                     *)

Quiet == call.st = "New" /\ out = <<>> /\ in = <<>>
Asking == call.st # "New" /\ out # <<>> /\ Tail(out) = <<>> /\ in = <<>>
Answering == call.st # "New" /\ out = <<>> /\ in # <<>> /\ Tail(in) = <<>>

\* As long as no call was abandoned, the frame under way is the call's, and the key the
\* host holds is the device's, or is about to be.
Lockstep ==
  "abandoned" \notin past =>
    /\ Quiet \/ Asking \/ Answering
    /\ engine.key # 0 => engine.key = dev.key
    /\ call.st = "StartEncryption" => engine.key = 0
    /\ Asking =>
         /\ Head(out).id = calls
         /\ Head(out).op = "ncry" <=> call.st = "StartEncryption"
    /\ Answering /\ call.st = "StartEncryption" /\ Head(in).typ = "mypub" =>
         Head(in).offset = dev.key /\ Head(in).id = calls

\* What the user approved is in its place, for as long as it is still to be told.
Made ==
  dev.task.state = "approved" =>
    /\ dev.task.kind = "stxn" => dev.slots[1] = Signed(dev.task.doc)
    /\ dev.task.kind = "backup" => dev.slots[0] = Sent(Backup)

\* The commands that get to a state.
Commanded ==
  /\ call.st \in {"SigningPsbt", "PollingSignedPsbt"} => call.cmd = "SignPsbt"
  /\ call.st \in {"Backup", "PollingBackupFile"} => call.cmd = "Backup"
  /\ call.st = "Query" => call.cmd \in Queries
  /\ call.st \in {"StartEncryption", "Query", "SignMessage", "EnrollingWallet"} =>
       call.cmd # "SignPsbt"
  /\ call.cmd = "SignPsbt" => call.doc # Backup

OpsOf(st) ==
  CASE st = "StartEncryption" -> {"ncry"}
    [] st = "Query" -> Queries
    [] st = "SignMessage" -> {"smsg", "smok"}
    [] st = "Backup" -> {"back"}
    [] st = "UploadingFile" -> {"upld"}
    [] st = "VerifyingFileUpload" -> {"sha2"}
    [] st = "SigningPsbt" -> {"stxn"}
    [] st = "EnrollingWallet" -> {"enrl"}
    [] st = "PollingSignedPsbt" -> {"stok"}
    [] st = "PollingBackupFile" -> {"bkok"}
    [] st = "DownloadingFile" -> {"dwld"}

KindFor(st) ==
  CASE st = "SignMessage" -> "message"
    [] st \in {"Backup", "PollingBackupFile"} -> "backup"
    [] st \in {"SigningPsbt", "PollingSignedPsbt"} -> "stxn"
    [] OTHER -> "other"

\* What the user is asked, or has decided, is what this call asked for.
Mine ==
  /\ dev.task.kind = KindFor(call.st) /\ dev.task.id = calls /\ dev.task.state # "none"
  /\ dev.task.kind = "stxn" => dev.task.doc = call.doc

Wanted == IF call.cmd = "SignPsbt" THEN Signed(call.doc) ELSE Sent(Backup)

\* As long as, moreover, the device was never busy with another call's request: what it
\* answers is this call's.
Matched ==
  {"abandoned", "busy"} \cap past = {} =>
    /\ Asking =>
         /\ Head(out).op \in OpsOf(call.st)
         /\ Head(out).op = "stxn" => Head(out).doc = call.doc
         /\ Head(out).op \in Polls => Mine
    /\ Answering =>
         /\ Head(in).typ \in Texts \cup {"okay", "smrx", "strx"} => Head(in).id = calls
         /\ Head(in).typ \in {"okay", "busy"} /\ call.st # "EnrollingWallet" => Mine
         /\ Head(in).typ = "strx" => Head(in).file = Wanted
    /\ call.st = "DownloadingFile" => call.of = calls /\ call.file = Wanted
    /\ result.status = "ok" =>
         /\ result.id = calls
         /\ result.cmd = "SignPsbt" => result.bytes = Content(Signed(result.doc))

\* Both streams are where the other side expects them.
Streams ==
  engine.key # 0 =>
    /\ Quiet => dev.dec = engine.enc /\ dev.enc = engine.dec
    /\ Asking =>
         /\ Head(out).key = engine.key /\ Head(out).n = dev.dec
         /\ engine.enc = dev.dec + 1 /\ engine.dec = dev.enc
    /\ Answering =>
         /\ Head(in).key = engine.key /\ Head(in).n = engine.dec
         /\ dev.enc = engine.dec + 1 /\ dev.dec = engine.enc

Doc == Content(Sent(call.doc))

\* The device holds what was sent of the file.
Uploads ==
  /\ call.st = "UploadingFile" => call.offset <= Length[call.doc]
  /\ Asking /\ call.st = "UploadingFile" =>
       /\ Head(out).offset = call.offset
       /\ Head(out).data = SubSeq(Doc, call.offset + 1, NextOffset)
       /\ SubSeq(dev.buffer, 1, Least(call.offset, Len(dev.buffer))) = SubSeq(Doc, 1, call.offset)
  /\ Answering /\ call.st = "UploadingFile" => dev.buffer = SubSeq(Doc, 1, NextOffset)
  /\ call.st \in {"VerifyingFileUpload", "SigningPsbt", "EnrollingWallet"} => dev.buffer = Doc
  /\ Asking /\ call.st \in {"SigningPsbt", "EnrollingWallet"} => Head(out).doc = call.doc

\* The host holds what it asked for of the file, which the device keeps meanwhile.
Downloads ==
  /\ call.st = "DownloadingFile" =>
       /\ dev.slots[Slot] = call.file /\ dev.task.state # "pending"
       /\ call.bytes = SubSeq(Content(call.file), 1, Len(call.bytes))
  /\ Asking /\ call.st = "DownloadingFile" =>
       /\ Head(out).slot = Slot /\ Head(out).offset = Len(call.bytes)
       /\ Head(out).length = ChunkEnd(Length[call.file.doc], Len(call.bytes)) - Len(call.bytes)
  /\ Answering /\ Head(in).typ = "strx" =>
       dev.slots[Slot] = Head(in).file /\ dev.task.state # "pending"

\* The reply is one the call goes on with.
Expected ==
  /\ call.st = "StartEncryption" => Head(in).typ = "mypub" /\ dev.enc = 0 /\ dev.dec = 0
  /\ call.st = "Query" => Head(in).typ = call.cmd
  /\ call.st = "SignMessage" => Head(in).typ \in {"okay", "busy", "smrx"}
  /\ call.st \in {"Backup", "SigningPsbt"} => Head(in).typ = "okay"
  /\ call.st = "UploadingFile" => Head(in).typ = "int1" /\ Head(in).offset = call.offset
  /\ call.st = "VerifyingFileUpload" => Head(in).typ = "biny" /\ Head(in).data = <<Hash(Doc)>>
  /\ call.st = "EnrollingWallet" => Head(in).typ = "okay"
  /\ call.st \in {"PollingSignedPsbt", "PollingBackupFile"} => Head(in).typ \in {"busy", "strx"}
  /\ call.st = "DownloadingFile" =>
       /\ Head(in).typ = "biny"
       /\ \E end \in (Len(call.bytes) + 1)..Length[call.file.doc] :
            Head(in).data = SubSeq(Content(call.file), Len(call.bytes) + 1, end)

\* As long as nothing has gone wrong, nothing can.
Smooth ==
  past = {} =>
    /\ result.status # "err"
    /\ Streams /\ Uploads /\ Downloads
    /\ Asking /\ call.st = "Query" => Head(out).op = call.cmd
    /\ Answering => Expected

-----------------------------------------------------------------------------
(* What the host does in a step.                                           *)

\* A frame is written.
Writes(frame, next) ==
  /\ frame \in Requests /\ next \in Calls
  /\ out' = Append(out, frame) /\ call' = next /\ result' = NoResult /\ past' = past

\* A frame is lost, and the call with it.
Lost ==
  /\ out' = out /\ call' = NewCall /\ result'.status = "err" /\ past' = past \cup {"lost"}
  /\ engine'.key = engine.key

Encrypts(frame) ==
  /\ engine.key # 0 /\ engine'.key = engine.key /\ engine'.enc = engine.enc + 1
  /\ frame.key = engine.key /\ frame.n = engine.enc

\* A frame with the chunk that the call's offset names, and one that asks for the rest of
\* what it has gathered.
PutsChunk(frame, next) ==
  /\ next.st = "UploadingFile" /\ frame.op = "upld" /\ frame.offset = next.offset
  /\ frame.data = SubSeq(Content(Sent(next.doc)), next.offset + 1,
                         ChunkEnd(Length[next.doc], next.offset))

GetsChunk(frame, next) ==
  /\ next.st = "DownloadingFile" /\ frame.op = "dwld" /\ frame.slot = Slot
  /\ frame.offset = Len(next.bytes)
  /\ frame.length = ChunkEnd(Length[next.file.doc], Len(next.bytes)) - Len(next.bytes)

Begins(frame, next) ==
  /\ call = NewCall /\ calls' = calls + 1 /\ UNCHANGED <<in, dev>>
  /\ Writes(frame, next) /\ frame.id = calls'
  /\ \/ /\ engine.key = 0 /\ UNCHANGED engine
        /\ frame.op = "ncry" /\ next.st = "StartEncryption" /\ next.cmd = "none"
     \/ /\ Encrypts(frame) /\ engine'.dec = engine.dec
        /\ \/ next.st = "Query" /\ next.cmd \in Queries /\ frame.op = next.cmd
           \/ next.st = "SignMessage" /\ next.cmd = "SignMessage" /\ frame.op = "smsg"
           \/ next.st = "Backup" /\ next.cmd = "Backup" /\ frame.op = "back"
           \/ next.doc \in Docs /\ next.offset = 0 /\ PutsChunk(frame, next)

\* A call that does not start.
Refused ==
  /\ call = NewCall /\ call' = NewCall /\ out' = out /\ calls' = calls + 1 /\ UNCHANGED <<in, dev>>
  /\ \/ Lost
     \/ UNCHANGED <<engine, past>> /\ result'.status = "notready"

GoesOn(frame, next) ==
  /\ in # <<>> /\ in' = Tail(in) /\ UNCHANGED <<calls, dev>>
  /\ Writes(frame, next) /\ frame.id = calls /\ Encrypts(frame) /\ engine'.dec = engine.dec + 1
  /\ next.cmd = call.cmd /\ next.doc = call.doc
  /\ \/ call.st = "SignMessage" /\ Pending /\ frame.op = "smok" /\ next = call
     \/ call.st = "Backup" /\ Pending /\ frame.op = "bkok" /\ next.st = "PollingBackupFile"
     \/ call.st = "SigningPsbt" /\ Pending /\ frame.op = "stok" /\ next.st = "PollingSignedPsbt"
     \/ /\ call.st \in {"PollingSignedPsbt", "PollingBackupFile"} /\ Pending /\ next = call
        /\ frame.op = IF Slot = 1 THEN "stok" ELSE "bkok"
     \/ /\ call.st \in {"PollingSignedPsbt", "PollingBackupFile"} /\ Response.typ = "strx"
        /\ next.file = Response.file /\ next.of = Response.id /\ next.bytes = <<>>
        /\ GetsChunk(frame, next)
     \/ /\ call.st = "UploadingFile" /\ NextOffset < Length[call.doc] /\ next.offset = NextOffset
        /\ PutsChunk(frame, next)
     \/ /\ call.st = "UploadingFile" /\ NextOffset >= Length[call.doc]
        /\ frame.op = "sha2" /\ next.st = "VerifyingFileUpload"
     \/ /\ call.st = "VerifyingFileUpload" /\ frame.doc = call.doc
        /\ \/ call.cmd = "SignPsbt" /\ frame.op = "stxn" /\ next.st = "SigningPsbt"
           \/ call.cmd = "RegisterWallet" /\ frame.op = "enrl" /\ next.st = "EnrollingWallet"
     \/ /\ call.st = "DownloadingFile" /\ Downloaded < Length[call.file.doc]
        /\ next.file = call.file /\ next.of = call.of
        /\ next.bytes = call.bytes \o Response.data /\ Len(next.bytes) = Downloaded
        /\ GetsChunk(frame, next)

Whole ==
  /\ Downloaded = Length[call.file.doc]
  /\ Hash(call.bytes \o Response.data) = Hash(Content(call.file))
  /\ call.cmd = "SignPsbt" => call.file.doc # Backup

Unexpected ==
  \/ call.st = "StartEncryption" /\ Head(in).typ # "mypub"
  \/ call.st = "Query" /\ Response.typ \notin Accepts(call.cmd)
  \/ call.st = "SignMessage" /\ ~Pending /\ Response.typ # "smrx"
  \/ call.st \in {"Backup", "SigningPsbt"} /\ ~Pending
  \/ call.st = "UploadingFile" /\ ~(Response.typ = "int1" /\ Response.offset = call.offset)
  \/ call.st = "VerifyingFileUpload" /\ ~(Response.typ = "biny" /\ Response.data = <<Hash(Doc)>>)
  \/ call.st = "EnrollingWallet" /\ Response.typ # "okay"
  \/ call.st \in {"PollingSignedPsbt", "PollingBackupFile"} /\ ~Pending /\ Response.typ # "strx"
  \/ /\ call.st = "DownloadingFile"
     /\ \/ ~(Response.typ = "biny" /\ Response.data # <<>>)
        \/ Downloaded >= Length[call.file.doc] /\ ~Whole

Ends ==
  /\ in # <<>> /\ in' = Tail(in) /\ UNCHANGED <<calls, dev>>
  /\ call' = NewCall /\ out' = out
  /\ \/ Lost
     \/ /\ past' = past /\ call.st = "StartEncryption" /\ Head(in).typ = "mypub"
        /\ engine'.key = Head(in).offset /\ engine'.enc = 0 /\ engine'.dec = 0
        /\ result'.status = "ok" /\ result'.id = Head(in).id /\ result'.cmd = call.cmd
     \/ /\ past' = past /\ engine'.key = engine.key
        /\ result'.status = "err" /\ Unexpected
     \/ /\ past' = past
        /\ engine.key # 0 /\ engine'.key = engine.key
        /\ engine'.enc = engine.enc /\ engine'.dec = engine.dec + 1
        /\ result'.status = "ok" /\ result'.cmd = call.cmd /\ result'.doc = call.doc
        /\ \/ /\ call.st \in {"Query", "SignMessage", "EnrollingWallet"}
              /\ Response.typ \in Texts \cup {"smrx", "okay"} /\ result'.id = Response.id
           \/ /\ call.st = "DownloadingFile" /\ Whole
              /\ result'.id = call.of /\ result'.bytes = call.bytes \o Response.data

LEMMA Transmits ==
  ASSUME NEW frame \in Requests, NEW next \in Calls, Transmit(frame, next),
         engine'.key = engine.key
  PROVE  Writes(frame, next) \/ Lost
  BY ConstantTypes DEF Transmit, Writes, Lost, Results

LEMMA StartSteps ==
  ASSUME TypeInv, Start
  PROVE  Refused \/ \E frame \in Requests, next \in Calls : Begins(frame, next)
<1>1. StartCall
  BY DEF Start, Unlock, Query, SignMessage, StartBackup, StartUpload, StartEncrypted
<1>2. /\ call = NewCall /\ calls' = calls + 1 /\ calls' \in Nat /\ UNCHANGED <<in, dev>>
      /\ engine \in Engines
  BY <1>1, TypeParts DEF StartCall
<1>3. NotReady => Refused
  BY <1>2, ConstantTypes DEF NotReady, Refused, Results
<1>4. Lost => Refused
  BY <1>2 DEF Refused, Lost
<1>5. CASE Unlock
  <2> DEFINE next == [NewCall EXCEPT !.st = "StartEncryption"]
             frame == Request("ncry", calls')
  <2>1. CASE HasPubKey /\ Transmit(frame, next) /\ UNCHANGED engine
    <3>1. next \in Calls /\ next.st = "StartEncryption" /\ next.cmd = "none"
      BY ConstantTypes DEF Calls, States, NewCall
    <3>2. frame \in Requests /\ frame.op = "ncry" /\ frame.id = calls'
      BY <1>2, RequestTypes DEF Ops
    <3> HIDE DEF next, frame
    <3>3. Writes(frame, next) \/ Lost
      BY <2>1, <3>1, <3>2, Transmits
    <3>4. Writes(frame, next) => Begins(frame, next)
      BY <1>2, <2>1, <3>1, <3>2 DEF Begins, HasPubKey
    <3>5. QED
      BY <1>4, <3>1, <3>2, <3>3, <3>4
  <2>2. QED
    BY <1>3, <1>5, <2>1 DEF Unlock
<1>6. ASSUME NEW cmd \in Commands, NEW doc \in Docs \cup {Backup}, NEW request \in Requests,
             NEW st \in States, StartEncrypted(cmd, doc, request, st), request.id = calls',
             \/ st = "Query" /\ cmd \in Queries /\ request.op = cmd
             \/ st = "SignMessage" /\ cmd = "SignMessage" /\ request.op = "smsg"
             \/ st = "Backup" /\ cmd = "Backup" /\ request.op = "back"
             \/ /\ doc \in Docs /\ st = "UploadingFile" /\ request.op = "upld" /\ request.offset = 0
                /\ request.data = SubSeq(Content(Sent(doc)), 0 + 1, ChunkEnd(Length[doc], 0))
      PROVE  Refused \/ \E frame \in Requests, next \in Calls : Begins(frame, next)
  <2> DEFINE next == [NewCall EXCEPT !.st = st, !.cmd = cmd, !.doc = doc]
             frame == Encrypted(request)
  <2>1. CASE Ready /\ engine' = [engine EXCEPT !.enc = @ + 1] /\ Transmit(frame, next)
    <3>1. /\ next \in Calls /\ next.st = st /\ next.cmd = cmd /\ next.doc = doc /\ next.offset = 0
      BY <1>6, ConstantTypes, EmptyFacts DEF Calls, NewCall
    <3>2. /\ frame \in Requests /\ frame.op = request.op /\ frame.id = calls'
          /\ frame.offset = request.offset /\ frame.data = request.data
          /\ frame.key = engine.key /\ frame.n = engine.enc
      BY <1>2, <1>6, EncryptedTypes
    <3>3. /\ engine.key # 0 /\ engine'.key = engine.key /\ engine'.enc = engine.enc + 1
          /\ engine'.dec = engine.dec
      BY <1>2, <2>1 DEF Engines, Ready
    <3>4. Transmit(frame, next)
      BY <2>1
    <3> HIDE DEF next, frame
    <3>5. Writes(frame, next) \/ Lost
      BY <3>1, <3>2, <3>3, <3>4, Transmits
    <3>6. Writes(frame, next) => Begins(frame, next)
      BY <1>2, <1>6, <3>1, <3>2, <3>3 DEF Begins, Encrypts, PutsChunk
    <3>7. QED
      BY <1>4, <3>1, <3>2, <3>5, <3>6
  <2>2. QED
    BY <1>3, <1>6, <2>1 DEF StartEncrypted
<1>7. CASE Query
  <2>1. PICK cmd \in Queries : StartEncrypted(cmd, Backup, Request(cmd, calls'), "Query")
    BY <1>7 DEF Query
  <2>2. cmd \in Ops /\ cmd \in Commands /\ "Query" \in States
    BY DEF Ops, Commands, States
  <2>3. QED
    BY <1>2, <1>6, <2>1, <2>2, RequestTypes
<1>8. CASE SignMessage \/ StartBackup
  <2>1. {"smsg", "back"} \subseteq Ops /\ {"SignMessage", "Backup"} \subseteq Commands
        /\ {"SignMessage", "Backup"} \subseteq States
    BY DEF Ops, Commands, States
  <2>2. /\ Request("smsg", calls') \in Requests /\ Request("smsg", calls').op = "smsg"
        /\ Request("smsg", calls').id = calls'
        /\ Request("back", calls') \in Requests /\ Request("back", calls').op = "back"
        /\ Request("back", calls').id = calls'
    BY <1>2, <2>1, RequestTypes
  <2>3. QED
    BY <1>6, <1>8, <2>1, <2>2 DEF SignMessage, StartBackup
<1>9. CASE StartUpload
  <2>1. PICK cmd \in {"SignPsbt", "RegisterWallet"}, doc \in Docs :
          StartEncrypted(cmd, doc, UploadRequest(calls', doc, 0), "UploadingFile")
    BY <1>9 DEF StartUpload
  <2>2. cmd \in Commands /\ "UploadingFile" \in States
    BY DEF Commands, States
  <2> DEFINE request == UploadRequest(calls', doc, 0)
  <2>3. /\ request \in Requests /\ request.op = "upld" /\ request.id = calls' /\ request.offset = 0
        /\ request.data = SubSeq(Content(Sent(doc)), 0 + 1, ChunkEnd(Length[doc], 0))
    BY <1>2, UploadTypes, SMTT(60)
  <2>4. StartEncrypted(cmd, doc, request, "UploadingFile")
    BY <2>1
  <2> HIDE DEF request
  <2>5. QED
    BY <1>6, <2>2, <2>3, <2>4
<1>10. QED
  BY <1>5, <1>7, <1>8, <1>9 DEF Start

LEMMA Sends ==
  ASSUME TypeInv, in # <<>>, in' = Tail(in), UNCHANGED <<dev, keys, calls, polls>>,
         engine.key # 0, NEW request \in Requests, request.id = calls, NEW next \in Calls,
         Send(request, next)
  PROVE  \/ Ends
         \/ \E frame \in Requests :
              /\ Writes(frame, next) /\ Encrypts(frame) /\ engine'.dec = engine.dec + 1
              /\ frame.op = request.op /\ frame.id = calls /\ frame.doc = request.doc
              /\ frame.offset = request.offset /\ frame.length = request.length
              /\ frame.slot = request.slot /\ frame.data = request.data
<1> DEFINE frame == Encrypted(request)
<1>1. engine \in Engines /\ engine' = [engine EXCEPT !.dec = @ + 1, !.enc = @ + 1]
  BY TypeParts DEF Send
<1>2. /\ frame \in Requests /\ frame.op = request.op /\ frame.id = calls /\ frame.doc = request.doc
      /\ frame.offset = request.offset /\ frame.length = request.length
      /\ frame.slot = request.slot /\ frame.data = request.data
      /\ frame.key = engine.key /\ frame.n = engine.enc
  BY <1>1, EncryptedTypes
<1>3. /\ engine'.key = engine.key /\ engine'.enc = engine.enc + 1 /\ engine'.dec = engine.dec + 1
  BY <1>1 DEF Engines
<1>4. Transmit(frame, next)
  BY DEF Send
<1> HIDE DEF frame
<1>5. Writes(frame, next) \/ Lost
  BY <1>2, <1>3, <1>4, Transmits
<1>6. Lost => Ends
  BY DEF Lost, Ends
<1>7. Encrypts(frame)
  BY <1>2, <1>3 DEF Encrypts
<1>8. QED
  BY <1>2, <1>3, <1>5, <1>6, <1>7

LEMMA Decrypts ==
  ASSUME engine \in Engines, Decrypt
  PROVE  engine'.key = engine.key /\ engine'.enc = engine.enc /\ engine'.dec = engine.dec + 1
  BY DEF Decrypt, Engines

LEMMA Fails ==
  ASSUME TypeInv, in # <<>>, in' = Tail(in), UNCHANGED <<dev, keys, calls, polls>>,
         Fail, engine'.key = engine.key, Unexpected
  PROVE  Ends
<1>1. result'.status = "err"
  BY ConstantTypes DEF Fail, Return, Results
<1>2. QED
  BY <1>1 DEF Ends, Fail, Return

LEMMA Succeeds ==
  ASSUME TypeInv, Succeed(Response.id), NEW id, id = Response.id
  PROVE  /\ result'.status = "ok" /\ result'.id = id /\ result'.cmd = call.cmd
         /\ result'.doc = call.doc /\ call' = NewCall /\ UNCHANGED <<out, past, faults>>
  BY ConstantTypes DEF Succeed, Return, Results

LEMMA KeySteps ==
  ASSUME TypeInv, OnStartEncryption
  PROVE  Ends
<1>1. /\ in # <<>> /\ in' = Tail(in) /\ UNCHANGED <<dev, keys, calls, polls>>
      /\ call.st = "StartEncryption"
  BY DEF OnStartEncryption, Receive
<1>2. CASE /\ Head(in).typ = "mypub" /\ engine' = [NewEngine EXCEPT !.key = Head(in).offset]
           /\ Succeed(Head(in).id)
  <2>1. /\ result'.status = "ok" /\ result'.id = Head(in).id /\ result'.cmd = call.cmd
        /\ call' = NewCall /\ UNCHANGED <<out, past>>
    BY <1>2, ConstantTypes DEF Succeed, Return, Results
  <2>2. engine'.key = Head(in).offset /\ engine'.enc = 0 /\ engine'.dec = 0
    BY <1>2 DEF NewEngine
  <2>3. QED
    BY <1>1, <1>2, <2>1, <2>2 DEF Ends
<1>3. CASE Head(in).typ # "mypub" /\ Fail /\ UNCHANGED engine
  BY <1>1, <1>3, Fails DEF Unexpected
<1>4. QED
  BY <1>2, <1>3 DEF OnStartEncryption

\* A short answer ends a call.
LEMMA AnswerSteps ==
  ASSUME TypeInv, Commanded, OnQuery \/ OnEnrollingWallet \/ (OnSignMessage /\ ~Pending)
  PROVE  Ends
<1>1. /\ in # <<>> /\ in' = Tail(in) /\ UNCHANGED <<dev, keys, calls, polls>>
      /\ call.st \in {"Query", "SignMessage", "EnrollingWallet"}
  BY DEF OnQuery, OnEnrollingWallet, OnSignMessage, Receive
<1>2. Decrypt /\ engine \in Engines /\ engine.key # 0
  BY <1>1, TypeParts DEF OnQuery, OnEnrollingWallet, OnSignMessage
<1>3. engine'.key = engine.key /\ engine'.enc = engine.enc /\ engine'.dec = engine.dec + 1
  BY <1>2, Decrypts
<1>4. CASE Fail /\ Unexpected
  BY <1>1, <1>3, <1>4, Fails
<1>5. CASE Response.typ \in Texts \cup {"smrx", "okay"} /\ Succeed(Response.id)
  <2>1. /\ result'.status = "ok" /\ result'.id = Response.id /\ result'.cmd = call.cmd
        /\ result'.doc = call.doc /\ call' = NewCall /\ UNCHANGED <<out, past, faults>>
    BY <1>5, Succeeds
  <2>2. QED
    BY <1>1, <1>2, <1>3, <1>5, <2>1 DEF Ends
<1>6. CASE OnQuery
  <2>1. call.st = "Query" /\ Accepts(call.cmd) \subseteq Texts
    BY <1>6 DEF OnQuery, Receive, Accepts, Queries, Texts, Commanded
  <2>2. QED
    BY <1>4, <1>5, <1>6, <2>1 DEF OnQuery, Receive, Unexpected
<1>7. CASE OnEnrollingWallet
  BY <1>4, <1>5, <1>7 DEF OnEnrollingWallet, Receive, Unexpected
<1>8. CASE OnSignMessage /\ ~Pending
  BY <1>4, <1>5, <1>8 DEF OnSignMessage, Receive, Unexpected
<1>9. QED
  BY <1>6, <1>7, <1>8

\* What is started is polled.
LEMMA PendingSteps ==
  ASSUME TypeInv, OnSignMessage \/ OnBackup \/ OnSigningPsbt, Pending
  PROVE  Ends \/ \E frame \in Requests, next \in Calls : GoesOn(frame, next)
<1>1. /\ in # <<>> /\ in' = Tail(in) /\ UNCHANGED <<dev, keys, calls, polls>>
      /\ call.st \in {"SignMessage", "Backup", "SigningPsbt"}
  BY DEF OnSignMessage, OnBackup, OnSigningPsbt, Receive
<1>2. engine.key # 0 /\ calls \in Nat /\ call \in Calls
  BY <1>1, TypeParts
<1>3. ASSUME NEW op \in Polls, NEW next \in Calls, next.cmd = call.cmd, next.doc = call.doc,
             Send(Request(op, calls), next),
             \/ call.st = "SignMessage" /\ op = "smok" /\ next = call
             \/ call.st = "Backup" /\ op = "bkok" /\ next.st = "PollingBackupFile"
             \/ call.st = "SigningPsbt" /\ op = "stok" /\ next.st = "PollingSignedPsbt"
      PROVE  Ends \/ \E frame \in Requests, after \in Calls : GoesOn(frame, after)
  <2>1. Request(op, calls) \in Requests /\ Request(op, calls).op = op /\ Request(op, calls).id = calls
    BY <1>2, RequestTypes DEF Ops
  <2>2. \/ Ends
        \/ \E frame \in Requests :
             /\ Writes(frame, next) /\ Encrypts(frame) /\ engine'.dec = engine.dec + 1
             /\ frame.op = op /\ frame.id = calls
    BY <1>1, <1>2, <1>3, <2>1, Sends
  <2>3. ASSUME NEW frame \in Requests, Writes(frame, next), Encrypts(frame),
               engine'.dec = engine.dec + 1, frame.op = op, frame.id = calls
        PROVE  GoesOn(frame, next)
    BY <1>1, <1>3, <2>3 DEF GoesOn
  <2>4. QED
    BY <2>2, <2>3
<1>4. ASSUME NEW st \in {"PollingBackupFile", "PollingSignedPsbt"}
      PROVE  /\ [call EXCEPT !.st = st] \in Calls /\ [call EXCEPT !.st = st].st = st
             /\ [call EXCEPT !.st = st].cmd = call.cmd /\ [call EXCEPT !.st = st].doc = call.doc
  BY <1>2 DEF Calls, States
<1>5. "smok" \in Polls /\ "bkok" \in Polls /\ "stok" \in Polls
  BY DEF Polls
<1>6. CASE OnSignMessage
  <2>1. call.st = "SignMessage" /\ Send(Request("smok", calls), call)
    BY <1>6 DEF OnSignMessage, Receive, Pending
  <2>2. QED
    BY <1>2, <1>3, <1>5, <2>1
<1>7. CASE OnBackup
  <2> DEFINE next == [call EXCEPT !.st = "PollingBackupFile"]
  <2>1. call.st = "Backup" /\ Send(Request("bkok", calls), next)
    BY <1>7 DEF OnBackup, Receive
  <2>2. next \in Calls /\ next.st = "PollingBackupFile" /\ next.cmd = call.cmd /\ next.doc = call.doc
    BY <1>4
  <2> HIDE DEF next
  <2>3. QED
    BY <1>3, <1>5, <2>1, <2>2
<1>8. CASE OnSigningPsbt
  <2> DEFINE next == [call EXCEPT !.st = "PollingSignedPsbt"]
  <2>1. call.st = "SigningPsbt" /\ Send(Request("stok", calls), next)
    BY <1>8 DEF OnSigningPsbt, Receive, SigningStarted
  <2>2. next \in Calls /\ next.st = "PollingSignedPsbt" /\ next.cmd = call.cmd /\ next.doc = call.doc
    BY <1>4
  <2> HIDE DEF next
  <2>3. QED
    BY <1>3, <1>5, <2>1, <2>2
<1>9. QED
  BY <1>6, <1>7, <1>8

LEMMA NotPendingSteps ==
  ASSUME TypeInv, OnBackup \/ OnSigningPsbt, ~Pending
  PROVE  Ends
<1>1. /\ in # <<>> /\ in' = Tail(in) /\ UNCHANGED <<dev, keys, calls, polls>>
      /\ call.st \in {"Backup", "SigningPsbt"} /\ Decrypt /\ Fail
  BY DEF OnBackup, OnSigningPsbt, Receive, SigningStarted
<1>2. engine'.key = engine.key
  BY <1>1, TypeParts, Decrypts
<1>3. QED
  BY <1>1, <1>2, Fails DEF Unexpected

LEMMA UploadSteps ==
  ASSUME TypeInv, OnUploadAcknowledged
  PROVE  Ends \/ \E frame \in Requests, next \in Calls : GoesOn(frame, next)
<1>1. /\ in # <<>> /\ in' = Tail(in) /\ UNCHANGED <<dev, keys, calls, polls>>
      /\ call.st = "UploadingFile"
  BY DEF OnUploadAcknowledged, Receive
<1>2. /\ engine.key # 0 /\ calls \in Nat /\ call \in Calls /\ engine \in Engines
      /\ call.offset \in Nat /\ call.doc \in Docs \cup {Backup}
  BY <1>1, TypeParts DEF Calls
<1>3. NextOffset \in Nat
  BY <1>2, LengthTypes, ChunkEndTypes DEF NextOffset
<1>4. CASE /\ NextOffset < Length[call.doc]
           /\ Send(UploadRequest(calls, call.doc, NextOffset), [call EXCEPT !.offset = NextOffset])
  <2> DEFINE next == [call EXCEPT !.offset = NextOffset]
             request == UploadRequest(calls, call.doc, NextOffset)
  <2>1. /\ next \in Calls /\ next.st = "UploadingFile" /\ next.cmd = call.cmd
        /\ next.doc = call.doc /\ next.offset = NextOffset
    BY <1>1, <1>2, <1>3 DEF Calls
  <2>2. /\ request \in Requests /\ request.op = "upld" /\ request.id = calls
        /\ request.offset = NextOffset
        /\ request.data = SubSeq(Content(Sent(call.doc)), NextOffset + 1,
                                 ChunkEnd(Length[call.doc], NextOffset))
    <3>1. request \in Requests
      BY <1>2, <1>3, UploadTypes
    <3>2. request.op = "upld" /\ request.id = calls /\ request.offset = NextOffset
      BY <1>2, <1>3, UploadTypes, SMTT(60)
    <3>3. request.data = SubSeq(Content(Sent(call.doc)), NextOffset + 1,
                                ChunkEnd(Length[call.doc], NextOffset))
      BY <1>2, <1>3, UploadTypes, ZenonT(90)
    <3>4. QED
      BY <3>1, <3>2, <3>3
  <2>3. Send(request, next)
    BY <1>4
  <2> HIDE DEF next, request
  <2>4. \/ Ends
        \/ \E frame \in Requests :
             /\ Writes(frame, next) /\ Encrypts(frame) /\ engine'.dec = engine.dec + 1
             /\ frame.op = request.op /\ frame.id = calls /\ frame.offset = request.offset
             /\ frame.data = request.data
    BY <1>1, <1>2, <2>1, <2>2, <2>3, Sends
  <2>5. ASSUME NEW frame \in Requests, Writes(frame, next), Encrypts(frame),
               engine'.dec = engine.dec + 1, frame.op = request.op, frame.id = calls,
               frame.offset = request.offset, frame.data = request.data
        PROVE  GoesOn(frame, next)
    <3>1. PutsChunk(frame, next)
      BY <2>1, <2>2, <2>5 DEF PutsChunk
    <3>2. QED
      BY <1>1, <1>4, <2>1, <2>5, <3>1 DEF GoesOn
  <2>6. QED
    BY <2>1, <2>4, <2>5
<1>5. CASE /\ NextOffset >= Length[call.doc]
           /\ Send(Request("sha2", calls), [call EXCEPT !.st = "VerifyingFileUpload"])
  <2> DEFINE next == [call EXCEPT !.st = "VerifyingFileUpload"]
             request == Request("sha2", calls)
  <2>1. /\ next \in Calls /\ next.st = "VerifyingFileUpload" /\ next.cmd = call.cmd
        /\ next.doc = call.doc
    BY <1>2 DEF Calls, States
  <2>2. request \in Requests /\ request.op = "sha2" /\ request.id = calls
    BY <1>2, RequestTypes DEF Ops
  <2>3. Send(request, next)
    BY <1>5
  <2> HIDE DEF next, request
  <2>4. \/ Ends
        \/ \E frame \in Requests :
             /\ Writes(frame, next) /\ Encrypts(frame) /\ engine'.dec = engine.dec + 1
             /\ frame.op = "sha2" /\ frame.id = calls
    BY <1>1, <1>2, <2>1, <2>2, <2>3, Sends
  <2>5. ASSUME NEW frame \in Requests, Writes(frame, next), Encrypts(frame),
               engine'.dec = engine.dec + 1, frame.op = "sha2", frame.id = calls
        PROVE  GoesOn(frame, next)
    BY <1>1, <1>5, <2>1, <2>5 DEF GoesOn
  <2>6. QED
    BY <2>1, <2>4, <2>5
<1>6. CASE ~(Response.typ = "int1" /\ Response.offset = call.offset) /\ Decrypt /\ Fail
  <2>1. engine'.key = engine.key
    BY <1>2, <1>6, Decrypts
  <2>2. QED
    BY <1>1, <1>6, <2>1, Fails DEF Unexpected
<1>7. QED
  BY <1>4, <1>5, <1>6 DEF OnUploadAcknowledged

LEMMA VerifySteps ==
  ASSUME TypeInv, OnUploadVerified
  PROVE  Ends \/ \E frame \in Requests, next \in Calls : GoesOn(frame, next)
<1>1. /\ in # <<>> /\ in' = Tail(in) /\ UNCHANGED <<dev, keys, calls, polls>>
      /\ call.st = "VerifyingFileUpload"
  BY DEF OnUploadVerified, Receive
<1>2. /\ engine.key # 0 /\ calls \in Nat /\ call \in Calls /\ engine \in Engines
      /\ call.doc \in Docs \cup {Backup}
  BY <1>1, TypeParts DEF Calls
<1>3. ASSUME NEW op \in {"stxn", "enrl"}, NEW st \in {"SigningPsbt", "EnrollingWallet"},
             Send([Request(op, calls) EXCEPT !.doc = call.doc], [call EXCEPT !.st = st]),
             \/ call.cmd = "SignPsbt" /\ op = "stxn" /\ st = "SigningPsbt"
             \/ call.cmd = "RegisterWallet" /\ op = "enrl" /\ st = "EnrollingWallet"
      PROVE  Ends \/ \E frame \in Requests, next \in Calls : GoesOn(frame, next)
  <2> DEFINE next == [call EXCEPT !.st = st]
             request == [Request(op, calls) EXCEPT !.doc = call.doc]
  <2>1. next \in Calls /\ next.st = st /\ next.cmd = call.cmd /\ next.doc = call.doc
    BY <1>2 DEF Calls, States
  <2>2. request \in Requests /\ request.op = op /\ request.id = calls /\ request.doc = call.doc
    BY <1>2, WithDocTypes DEF Ops
  <2>3. Send(request, next)
    BY <1>3
  <2> HIDE DEF next, request
  <2>4. \/ Ends
        \/ \E frame \in Requests :
             /\ Writes(frame, next) /\ Encrypts(frame) /\ engine'.dec = engine.dec + 1
             /\ frame.op = op /\ frame.id = calls /\ frame.doc = call.doc
    BY <1>1, <1>2, <2>1, <2>2, <2>3, Sends
  <2>5. ASSUME NEW frame \in Requests, Writes(frame, next), Encrypts(frame),
               engine'.dec = engine.dec + 1, frame.op = op, frame.id = calls, frame.doc = call.doc
        PROVE  GoesOn(frame, next)
    BY <1>1, <1>3, <2>1, <2>5 DEF GoesOn
  <2>6. QED
    BY <2>1, <2>4, <2>5
<1>4. CASE /\ ~(Response.typ = "biny" /\ Response.data = <<Hash(Content(Sent(call.doc)))>>)
           /\ Decrypt /\ Fail
  <2>1. engine'.key = engine.key
    BY <1>2, <1>4, Decrypts
  <2>2. QED
    BY <1>1, <1>4, <2>1, Fails DEF Unexpected, Doc
<1>5. QED
  BY <1>3, <1>4 DEF OnUploadVerified, AfterEnroll

LEMMA PollSteps ==
  ASSUME TypeInv, OnPoll
  PROVE  Ends \/ \E frame \in Requests, next \in Calls : GoesOn(frame, next)
<1>1. /\ in # <<>> /\ in' = Tail(in) /\ UNCHANGED <<dev, keys, calls, polls>>
      /\ call.st \in {"PollingSignedPsbt", "PollingBackupFile"}
  BY DEF OnPoll, Receive
<1>2. /\ engine.key # 0 /\ calls \in Nat /\ call \in Calls /\ engine \in Engines
      /\ call.bytes = <<>>
  BY <1>1, TypeParts DEF Gathers
<1>3. CASE Pending /\ Send(Request(IF Slot = 1 THEN "stok" ELSE "bkok", calls), call)
  <2> DEFINE op == IF Slot = 1 THEN "stok" ELSE "bkok"
             request == Request(op, calls)
  <2>1. request \in Requests /\ request.op = op /\ request.id = calls
    BY <1>2, RequestTypes, ZenonT(60) DEF Ops, Polls
  <2>2. Send(request, call)
    BY <1>3
  <2> HIDE DEF op, request
  <2>3. \/ Ends
        \/ \E frame \in Requests :
             /\ Writes(frame, call) /\ Encrypts(frame) /\ engine'.dec = engine.dec + 1
             /\ frame.op = op /\ frame.id = calls
    BY <1>1, <1>2, <2>1, <2>2, Sends
  <2>4. ASSUME NEW frame \in Requests, Writes(frame, call), Encrypts(frame),
               engine'.dec = engine.dec + 1, frame.op = op, frame.id = calls
        PROVE  GoesOn(frame, call)
    BY <1>1, <1>3, <2>4 DEF GoesOn, op
  <2>5. QED
    BY <1>2, <2>3, <2>4
<1>4. CASE /\ Response.typ = "strx"
           /\ Send(DownloadRequest(Response.file, 0),
                   [call EXCEPT !.st = "DownloadingFile", !.file = Response.file, !.of = Response.id])
  <2> DEFINE next == [call EXCEPT !.st = "DownloadingFile", !.file = Response.file,
                                  !.of = Response.id]
             request == DownloadRequest(Response.file, 0)
  <2>1. /\ Response.file \in Files /\ Response.id \in Nat
        /\ Length[Response.file.doc] \in Nat /\ 0 < Length[Response.file.doc]
    BY <1>1, ResponseTypes, ContentTypes, LengthTypes
  <2>2. /\ next \in Calls /\ next.st = "DownloadingFile" /\ next.cmd = call.cmd
        /\ next.doc = call.doc /\ next.file = Response.file /\ next.of = Response.id
        /\ next.bytes = <<>>
    BY <1>2, <2>1 DEF Calls, States
  <2>3. /\ request \in Requests /\ request.op = "dwld" /\ request.id = calls /\ request.offset = 0
        /\ request.slot = Slot /\ request.length = ChunkEnd(Length[Response.file.doc], 0) - 0
    <3>1. request \in Requests /\ request.op = "dwld" /\ request.id = calls
      BY <2>1, DownloadTypes
    <3>2. request.offset = 0 /\ request.slot = Slot
      BY <2>1, DownloadTypes
    <3>3. request.length = ChunkEnd(Length[Response.file.doc], 0) - 0
      BY <2>1, DownloadTypes
    <3>4. QED
      BY <3>1, <3>2, <3>3
  <2>4. Send(request, next)
    BY <1>4
  <2> HIDE DEF next, request
  <2>5. \/ Ends
        \/ \E frame \in Requests :
             /\ Writes(frame, next) /\ Encrypts(frame) /\ engine'.dec = engine.dec + 1
             /\ frame.op = request.op /\ frame.id = calls /\ frame.offset = request.offset
             /\ frame.length = request.length /\ frame.slot = request.slot
    BY <1>1, <1>2, <2>2, <2>3, <2>4, Sends
  <2>6. ASSUME NEW frame \in Requests, Writes(frame, next), Encrypts(frame),
               engine'.dec = engine.dec + 1, frame.op = request.op, frame.id = calls,
               frame.offset = request.offset, frame.length = request.length,
               frame.slot = request.slot
        PROVE  GoesOn(frame, next)
    <3>1. Len(next.bytes) = 0
      BY <2>2
    <3>2. GetsChunk(frame, next)
      BY <2>2, <2>3, <2>6, <3>1 DEF GetsChunk
    <3>3. QED
      BY <1>1, <1>4, <2>2, <2>6, <3>2 DEF GoesOn
  <2>7. QED
    BY <2>2, <2>5, <2>6
<1>5. CASE ~Pending /\ Response.typ # "strx" /\ Decrypt /\ Fail
  <2>1. engine'.key = engine.key
    BY <1>2, <1>5, Decrypts
  <2>2. QED
    BY <1>1, <1>5, <2>1, Fails DEF Unexpected
<1>6. QED
  BY <1>3, <1>4, <1>5 DEF OnPoll

LEMMA DownloadSteps ==
  ASSUME TypeInv, OnDownload
  PROVE  Ends \/ \E frame \in Requests, next \in Calls : GoesOn(frame, next)
<1> DEFINE bytes == call.bytes \o Response.data
<1>1. /\ in # <<>> /\ in' = Tail(in) /\ UNCHANGED <<dev, keys, calls, polls>>
      /\ call.st = "DownloadingFile"
  BY DEF OnDownload, Receive
<1>2. /\ engine.key # 0 /\ calls \in Nat /\ call \in Calls /\ engine \in Engines
      /\ call.bytes \in Seq(Units) /\ call.file \in Files /\ call.of \in Nat
  BY <1>1, TypeParts DEF Calls
<1>3. bytes \in Seq(Units) /\ Len(bytes) = Downloaded /\ Downloaded \in Nat
  <2>1. Response.data \in Seq(Units)
    BY <1>1, ResponseTypes
  <2>2. bytes \in Seq(Units) /\ Len(bytes) = Len(call.bytes) + Len(Response.data)
    BY <1>2, <2>1, ConcatFacts
  <2>3. Len(bytes) \in Nat
    <3>1. \A q \in Seq(Units) : Len(q) \in Nat
      OBVIOUS
    <3>2. QED
      BY <2>2, <3>1, Zenon
  <2>4. QED
    BY <2>2, <2>3 DEF Downloaded
<1> HIDE DEF bytes
<1>4. CASE /\ Downloaded < Length[call.file.doc]
           /\ Send(DownloadRequest(call.file, Downloaded), [call EXCEPT !.bytes = bytes])
  <2> DEFINE next == [call EXCEPT !.bytes = bytes]
             request == DownloadRequest(call.file, Downloaded)
  <2>1. /\ next \in Calls /\ next.st = "DownloadingFile" /\ next.cmd = call.cmd
        /\ next.doc = call.doc /\ next.file = call.file /\ next.of = call.of /\ next.bytes = bytes
    BY <1>1, <1>2, <1>3 DEF Calls
  <2>2. /\ request \in Requests /\ request.op = "dwld" /\ request.id = calls
        /\ request.offset = Downloaded /\ request.slot = Slot
        /\ request.length = ChunkEnd(Length[call.file.doc], Downloaded) - Downloaded
    <3>1. request \in Requests /\ request.op = "dwld" /\ request.id = calls
      BY <1>2, <1>3, <1>4, DownloadTypes
    <3>2. request.offset = Downloaded /\ request.slot = Slot
      BY <1>2, <1>3, <1>4, DownloadTypes
    <3>3. request.length = ChunkEnd(Length[call.file.doc], Downloaded) - Downloaded
      BY <1>2, <1>3, <1>4, DownloadTypes
    <3>4. QED
      BY <3>1, <3>2, <3>3
  <2>3. Send(request, next)
    BY <1>4
  <2> HIDE DEF next, request
  <2>4. \/ Ends
        \/ \E frame \in Requests :
             /\ Writes(frame, next) /\ Encrypts(frame) /\ engine'.dec = engine.dec + 1
             /\ frame.op = request.op /\ frame.id = calls /\ frame.offset = request.offset
             /\ frame.length = request.length /\ frame.slot = request.slot
    BY <1>1, <1>2, <2>1, <2>2, <2>3, Sends
  <2>5. ASSUME NEW frame \in Requests, Writes(frame, next), Encrypts(frame),
               engine'.dec = engine.dec + 1, frame.op = request.op, frame.id = calls,
               frame.offset = request.offset, frame.length = request.length,
               frame.slot = request.slot
        PROVE  GoesOn(frame, next)
    <3>1. GetsChunk(frame, next)
      BY <1>3, <2>1, <2>2, <2>5 DEF GetsChunk
    <3>2. QED
      BY <1>1, <1>3, <1>4, <2>1, <2>5, <3>1 DEF GoesOn, bytes
  <2>6. QED
    BY <2>1, <2>4, <2>5
<1>5. CASE /\ Whole /\ Decrypt
           /\ Return([NoResult EXCEPT !.status = "ok", !.id = call.of, !.bytes = bytes])
  <2>1. /\ result'.status = "ok" /\ result'.cmd = call.cmd /\ result'.doc = call.doc
        /\ result'.id = call.of /\ result'.bytes = bytes
    BY <1>5, ConstantTypes DEF Return, Results
  <2>2. call' = NewCall /\ UNCHANGED <<out, past>>
    BY <1>5 DEF Return
  <2>3. engine'.key = engine.key /\ engine'.enc = engine.enc /\ engine'.dec = engine.dec + 1
    BY <1>2, <1>5, Decrypts
  <2>4. QED
    BY <1>1, <1>2, <1>5, <2>1, <2>2, <2>3 DEF Ends, bytes
<1>6. CASE /\ \/ ~(Response.typ = "biny" /\ Response.data # <<>>)
              \/ Downloaded >= Length[call.file.doc] /\ ~Whole
           /\ Decrypt /\ Fail
  <2>1. engine'.key = engine.key
    BY <1>2, <1>6, Decrypts
  <2>2. QED
    BY <1>1, <1>6, <2>1, Fails DEF Unexpected
<1>7. QED
  BY <1>4, <1>5, <1>6 DEF OnDownload, Whole, bytes

LEMMA HostSteps ==
  ASSUME TypeInv, Commanded, HostReceive
  PROVE  Ends \/ \E frame \in Requests, next \in Calls : GoesOn(frame, next)
<1>1. CASE OnSignMessage \/ OnBackup \/ OnSigningPsbt
  BY <1>1, PendingSteps, NotPendingSteps, AnswerSteps
<1>2. QED
  BY <1>1, KeySteps, AnswerSteps, UploadSteps, VerifySteps, PollSteps, DownloadSteps
  DEF HostReceive

-----------------------------------------------------------------------------
(* Commands and files: what holds whatever goes wrong.                     *)

LEMMA FaultSteps ==
  ASSUME Abandon \/ LoseReply \/ Reconnect
  PROVE  /\ call' = NewCall /\ result' = NoResult /\ calls' = calls
         /\ \/ "abandoned" \in past' /\ UNCHANGED <<engine, dev>>
            \/ /\ in # <<>> /\ in' = Tail(in) /\ UNCHANGED <<engine, out, dev>>
               /\ past' = past \cup {"lost"}
            \/ engine' = NewEngine /\ out' = <<>> /\ in' = <<>> /\ dev' \in {dev, NewDevice}
  BY DEF Abandon, LoseReply, Reconnect, StopWaiting

LEMMA CommandedNext ==
  ASSUME TypeInv, Commanded, [Next]_vars
  PROVE  Commanded'
<1>1. NewCall.st = "New" /\ NewCall.cmd = "none"
  BY DEF NewCall
<1>2. CASE call' = NewCall
  BY <1>1, <1>2 DEF Commanded
<1>3. CASE call' = call
  BY <1>3 DEF Commanded
<1>4. ASSUME NEW frame \in Requests, NEW next \in Calls, Begins(frame, next)
      PROVE  Commanded'
  <2>1. call' = next
    BY <1>4 DEF Begins, Writes
  <2>2. \/ next.st = "StartEncryption" /\ next.cmd = "none"
        \/ next.st = "Query" /\ next.cmd \in Queries
        \/ next.st = "SignMessage" /\ next.cmd = "SignMessage"
        \/ next.st = "Backup" /\ next.cmd = "Backup"
        \/ next.st = "UploadingFile" /\ next.doc # Backup
    BY <1>4, LengthAssumption DEF Begins, PutsChunk
  <2>3. QED
    BY <2>1, <2>2 DEF Commanded, Queries
<1>5. ASSUME NEW frame \in Requests, NEW next \in Calls, GoesOn(frame, next)
      PROVE  Commanded'
  <2>1. call' = next /\ next.cmd = call.cmd /\ next.doc = call.doc
    BY <1>5 DEF GoesOn, Writes
  <2>2. \/ next = call
        \/ call.st = "Backup" /\ next.st = "PollingBackupFile"
        \/ call.st = "SigningPsbt" /\ next.st = "PollingSignedPsbt"
        \/ next.st \in {"DownloadingFile", "UploadingFile", "VerifyingFileUpload"}
        \/ call.cmd = "SignPsbt" /\ next.st = "SigningPsbt"
        \/ call.cmd = "RegisterWallet" /\ next.st = "EnrollingWallet"
    BY <1>5 DEF GoesOn, PutsChunk, GetsChunk
  <2>3. QED
    BY <2>1, <2>2 DEF Commanded
<1>6. CASE Start
  BY <1>2, <1>4, <1>6, StartSteps DEF Refused
<1>7. CASE HostReceive
  BY <1>2, <1>5, <1>7, HostSteps DEF Ends
<1>8. CASE Abandon \/ LoseReply \/ Reconnect
  BY <1>2, <1>8, FaultSteps
<1>9. CASE DeviceStep
  BY <1>3, <1>9, DeviceSteps, KeyExchangeSteps DEF Replied
<1>10. CASE UserDecides \/ UNCHANGED vars
  BY <1>3, <1>10 DEF UserDecides, vars
<1>11. QED
  BY <1>6, <1>7, <1>8, <1>9, <1>10 DEF Next

LEMMA MadeNext ==
  ASSUME TypeInv, Commanded, Made, [Next]_vars
  PROVE  Made'
<1>1. CASE dev' = dev
  BY <1>1 DEF Made
<1>2. CASE dev'.task.state \in {"none", "pending"}
  BY <1>2 DEF Made
<1>3. CASE dev'.task = dev.task /\ dev'.slots = dev.slots
  BY <1>3 DEF Made
<1>4. CASE Start \/ HostReceive
  BY <1>1, <1>4, StartSteps, HostSteps DEF Refused, Begins, Ends, GoesOn
<1>5. CASE Abandon \/ LoseReply \/ Reconnect
  BY <1>1, <1>2, <1>5, FaultSteps DEF NewDevice, NoTask
<1>6. ASSUME NEW reply \in Replies, NEW next \in Devices, Replied(reply, next), Outcome(reply, next)
      PROVE  Made'
  <2>1. dev' = next
    BY <1>6 DEF Replied
  <2>2. next.slots = dev.slots /\ (next.task = dev.task \/ next.task.state \in {"none", "pending"})
    BY <1>6 DEF Outcome, Garbled, Answered, UserAsked, Uploaded, Hashed, Polled, PieceRead, Keeps,
                NoTask
  <2>3. QED
    BY <1>2, <1>3, <2>1, <2>2
<1>7. CASE DeviceStep
  BY <1>1, <1>3, <1>6, <1>7, DeviceSteps, KeyExchangeSteps
<1>8. CASE UserDecides
  BY <1>2, <1>8, UserSteps DEF Made, NoTask
<1>9. CASE UNCHANGED vars
  BY <1>1, <1>9 DEF vars
<1>10. QED
  BY <1>4, <1>5, <1>7, <1>8, <1>9 DEF Next

-----------------------------------------------------------------------------
(* Where the frame under way is.                                           *)

LEMMA BeginsFrame ==
  ASSUME Lockstep, "abandoned" \notin past, NEW frame, NEW next, Begins(frame, next)
  PROVE  /\ Quiet /\ Asking' /\ ~Answering' /\ ~Quiet' /\ Head(out') = frame /\ call' = next
         /\ "abandoned" \notin past' /\ past' = past /\ result' = NoResult
<1>1. Quiet
  BY DEF Lockstep, Begins, NewCall, Asking, Answering
<1>2. out' = Append(<<>>, frame) /\ in' = <<>> /\ next.st # "New"
  BY <1>1 DEF Begins, Writes, Quiet, PutsChunk
<1>3. QED
  BY <1>1, <1>2, OneFacts DEF Begins, Writes, Asking, Answering, Quiet

LEMMA RefusedFrame ==
  ASSUME Lockstep, "abandoned" \notin past, Refused
  PROVE  Quiet /\ Quiet' /\ ~Asking' /\ ~Answering'
<1>1. Quiet
  BY DEF Lockstep, Refused, NewCall, Asking, Answering
<1>2. QED
  BY <1>1 DEF Refused, Quiet, Asking, Answering, NewCall

LEMMA GoesOnFrame ==
  ASSUME Lockstep, "abandoned" \notin past, NEW frame, NEW next, GoesOn(frame, next)
  PROVE  /\ Answering /\ Asking' /\ ~Answering' /\ ~Quiet' /\ Head(out') = frame /\ call' = next
         /\ "abandoned" \notin past' /\ past' = past /\ result' = NoResult
         /\ call.st # "StartEncryption" /\ next.st # "StartEncryption" /\ frame.op # "ncry"
<1>1. Answering
  BY DEF Lockstep, GoesOn, Quiet, Asking
<1>2. out' = Append(<<>>, frame) /\ in' = <<>>
  BY <1>1 DEF GoesOn, Writes, Answering
<1>3. /\ call.st \notin {"New", "StartEncryption"} /\ next.st \notin {"New", "StartEncryption"}
      /\ frame.op # "ncry"
  BY DEF GoesOn, PutsChunk, GetsChunk
<1>4. QED
  BY <1>1, <1>2, <1>3, OneFacts DEF GoesOn, Writes, Asking, Answering, Quiet

LEMMA EndsFrame ==
  ASSUME Lockstep, "abandoned" \notin past, Ends
  PROVE  Answering /\ Quiet' /\ ~Asking' /\ ~Answering'
<1>1. Answering
  BY DEF Lockstep, Ends, Quiet, Asking
<1>2. QED
  BY <1>1 DEF Ends, Quiet, Asking, Answering, NewCall

LEMMA RepliedFrame ==
  ASSUME Lockstep, "abandoned" \notin past, NEW reply, out # <<>>, out' = Tail(out),
         in' = Append(in, reply), call' = call
  PROVE  /\ Asking /\ Answering' /\ ~Asking' /\ ~Quiet' /\ Head(in') = reply /\ Asked = Head(out)
<1>1. Asking
  BY DEF Lockstep, Quiet, Answering
<1>2. out' = <<>> /\ in' = Append(<<>>, reply)
  BY <1>1 DEF Asking
<1>3. QED
  BY <1>1, <1>2, OneFacts DEF Asking, Answering, Quiet, Asked

LEMMA LostFrame ==
  ASSUME Lockstep, "abandoned" \notin past, in # <<>>, in' = Tail(in), call' = NewCall, out' = out
  PROVE  Answering /\ Quiet' /\ ~Asking' /\ ~Answering'
<1>1. Answering
  BY DEF Lockstep, Quiet, Asking
<1>2. QED
  BY <1>1 DEF Quiet, Asking, Answering, NewCall

\* A new connection.
LEMMA FreshFrame ==
  ASSUME call' = NewCall, out' = <<>>, in' = <<>>
  PROVE  Quiet' /\ ~Asking' /\ ~Answering'
  BY DEF Quiet, Asking, Answering, NewCall

LEMMA LockstepNext ==
  ASSUME TypeInv, Commanded, Lockstep, [Next]_vars
  PROVE  Lockstep'
<1>1. CASE "abandoned" \in past'
  BY <1>1 DEF Lockstep
<1>2. ASSUME "abandoned" \notin past, NEW frame \in Requests, NEW next \in Calls, Begins(frame, next)
      PROVE  Lockstep'
  <2>1. /\ Asking' /\ ~Answering' /\ ~Quiet' /\ Head(out') = frame /\ call' = next
        /\ engine.key # 0 => engine.key = dev.key
    BY <1>2, BeginsFrame DEF Lockstep
  <2>2. /\ frame.id = calls' /\ engine'.key = engine.key /\ dev' = dev
        /\ next.st = "StartEncryption" => engine'.key = 0
        /\ frame.op = "ncry" <=> next.st = "StartEncryption"
    BY <1>2 DEF Begins, Encrypts, PutsChunk, Queries
  <2>3. QED
    BY <2>1, <2>2 DEF Lockstep
<1>3. CASE "abandoned" \notin past /\ Refused
  <2>1. Quiet' /\ ~Asking' /\ ~Answering'
    BY <1>3, RefusedFrame
  <2>2. call'.st # "StartEncryption" /\ engine'.key = engine.key /\ dev' = dev
    BY <1>3 DEF Refused, Lost, NewCall
  <2>3. QED
    BY <1>3, <2>1, <2>2 DEF Lockstep
<1>4. ASSUME "abandoned" \notin past, NEW frame \in Requests, NEW next \in Calls, GoesOn(frame, next)
      PROVE  Lockstep'
  <2>1. /\ Asking' /\ ~Answering' /\ ~Quiet' /\ Head(out') = frame /\ call' = next
        /\ next.st # "StartEncryption" /\ frame.op # "ncry"
    BY <1>4, GoesOnFrame
  <2>2. frame.id = calls' /\ engine'.key = engine.key /\ dev' = dev
    BY <1>4 DEF GoesOn, Encrypts
  <2>3. QED
    BY <1>4, <2>1, <2>2 DEF Lockstep
<1>5. CASE "abandoned" \notin past /\ Ends
  <2>1. Answering /\ Quiet' /\ ~Asking' /\ ~Answering'
    BY <1>5, EndsFrame
  <2>2. call'.st # "StartEncryption" /\ dev' = dev
    BY <1>5 DEF Ends, NewCall
  <2>3. engine'.key # 0 => engine'.key = dev.key
    BY <1>5, <2>1 DEF Ends, Lost, Lockstep
  <2>4. QED
    BY <2>1, <2>2, <2>3 DEF Lockstep
<1>6. ASSUME "abandoned" \notin past, NEW reply \in Replies, NEW next \in Devices,
             Replied(reply, next), Outcome(reply, next)
      PROVE  Lockstep'
  <2>1. Asking /\ Answering' /\ ~Asking' /\ ~Quiet' /\ Head(in') = reply /\ Asked = Head(out)
    BY <1>6, RepliedFrame DEF Replied
  <2>2. call' = call /\ engine' = engine /\ dev'.key = dev.key
    BY <1>6 DEF Replied
  <2>3. reply.typ # "mypub"
    BY <1>6 DEF Outcome, Garbled, Answered, UserAsked, Uploaded, Hashed, Polled, PieceRead, Queries
  <2>4. QED
    BY <1>6, <2>1, <2>2, <2>3 DEF Lockstep
<1>7. CASE "abandoned" \notin past /\ DeviceKeyExchange
  <2>1. PICK reply \in Replies :
          /\ in' = Append(in, reply)
          /\ reply.typ = "mypub" => reply.id = Asked.id /\ reply.offset = dev'.key
    BY <1>7, KeyExchangeSteps
  <2>2. /\ out # <<>> /\ out' = Tail(out) /\ Asked.op = "ncry"
        /\ UNCHANGED <<engine, call, calls>>
    BY <1>7, KeyExchangeSteps
  <2>3. Asking /\ Answering' /\ ~Asking' /\ ~Quiet' /\ Head(in') = reply /\ Asked = Head(out)
    BY <1>7, <2>1, <2>2, RepliedFrame
  <2>4. engine.key = 0 /\ Head(out).id = calls
    BY <1>7, <2>2, <2>3 DEF Lockstep
  <2>5. QED
    BY <2>1, <2>2, <2>3, <2>4 DEF Lockstep
<1>8. CASE "abandoned" \notin past /\ UNCHANGED <<engine, call, out, in, past, calls>>
           /\ dev'.key = dev.key
  BY <1>8 DEF Lockstep, Quiet, Asking, Answering
<1>9. CASE Abandon \/ LoseReply \/ Reconnect
  <2>1. CASE "abandoned" \notin past /\ in # <<>> /\ in' = Tail(in) /\ UNCHANGED <<engine, out, dev>>
    <3>1. Quiet' /\ ~Asking' /\ ~Answering' /\ call'.st # "StartEncryption"
      BY <1>9, <2>1, FaultSteps, LostFrame DEF NewCall
    <3>2. QED
      BY <2>1, <3>1 DEF Lockstep
  <2>2. CASE engine' = NewEngine /\ out' = <<>> /\ in' = <<>>
    <3>1. Quiet' /\ ~Asking' /\ ~Answering' /\ engine'.key = 0
      BY <1>9, <2>2, FaultSteps, FreshFrame, ConstantTypes
    <3>2. QED
      BY <3>1 DEF Lockstep
  <2>3. QED
    BY <1>1, <1>9, <2>1, <2>2, FaultSteps
<1>10. CASE Start
  <2>1. "abandoned" \in past => "abandoned" \in past'
    BY <1>10, StartSteps DEF Refused, Lost, Begins, Writes
  <2>2. QED
    BY <1>1, <1>2, <1>3, <1>10, <2>1, StartSteps
<1>11. CASE HostReceive
  <2>1. "abandoned" \in past => "abandoned" \in past'
    BY <1>11, HostSteps, ZenonT(60) DEF Ends, Lost, GoesOn, Writes
  <2>2. QED
    BY <1>1, <1>4, <1>5, <1>11, <2>1, HostSteps
<1>12. CASE DeviceStep
  <2>1. "abandoned" \in past => "abandoned" \in past'
    BY <1>12, DeviceSteps, KeyExchangeSteps DEF Replied
  <2>2. QED
    BY <1>1, <1>6, <1>7, <1>12, <2>1, DeviceSteps
<1>13. CASE UserDecides
  BY <1>1, <1>8, <1>13, UserSteps
<1>14. CASE UNCHANGED vars
  BY <1>1, <1>8, <1>14 DEF vars
<1>15. QED
  BY <1>9, <1>10, <1>11, <1>12, <1>13, <1>14 DEF Next

LEMMA HoldsAtFirst ==
  ASSUME Init
  PROVE  TypeInv /\ Commanded /\ Made /\ Lockstep /\ Quiet /\ ~Asking /\ ~Answering
<1>1. TypeInv
  BY TypesInit
<1>2. Quiet /\ ~Asking /\ ~Answering
  BY DEF Init, Quiet, Asking, Answering, NewCall
<1>3. Commanded /\ Made
  BY DEF Init, Commanded, Made, NewCall, NewDevice, NoTask
<1>4. Lockstep
  BY <1>2 DEF Init, Lockstep, NewCall, NewEngine
<1>5. QED
  BY <1>1, <1>2, <1>3, <1>4

\* The host never encrypts for a device that has another key, unless it gave up waiting
\* for a reply on this connection: the frame under way is then the call's own, and a key
\* exchange ends with the key the device made in it.
THEOREM KeysAlwaysAgree == Spec => []KeysAgree
<1> DEFINE Inv == TypeInv /\ Commanded /\ Lockstep
<1>1. Init => Inv
  BY HoldsAtFirst
<1>2. Inv /\ [Next]_vars => Inv'
  BY TypesNext, CommandedNext, LockstepNext
<1>3. Inv => KeysAgree
  BY DEF Lockstep, KeysAgree
<1>4. QED
  BY <1>1, <1>2, <1>3, PTL DEF Spec

-----------------------------------------------------------------------------
(* What the device answers is this call's.                                 *)

LEMMA ResponseIs == Response = Head(in) \/ Response.typ = "garbled"
  BY DEF Response, Reply

\* A hash knows its file.
LEMMA HashFacts ==
  ASSUME NEW bytes, NEW file \in Files, file # NoFile, Hash(bytes) = Hash(Content(file))
  PROVE  bytes = Content(file)
<1>1. ASSUME NEW f \in Files, NEW g \in Files, Content(f) = Content(g) PROVE f = g
  <2>1. /\ Length[f.doc] \in Nat /\ Length[f.doc] > 0 /\ Length[g.doc] \in Nat /\ Length[g.doc] > 0
    BY ContentTypes, LengthTypes
  <2>2. 1 \in 1..Length[f.doc] /\ 1 \in 1..Length[g.doc]
    BY <2>1
  <2>3. Content(f)[1] = <<f, 1>> /\ Content(g)[1] = <<g, 1>>
    BY <2>2, ContentTypes
  <2>4. QED
    BY <1>1, <2>3
<1> DEFINE of(b) == CHOOSE f \in Files : b = Content(f)
<1>2. of(Content(file)) = file
  BY <1>1
<1>3. Hash(Content(file)) = <<file, 0>>
  BY <1>2 DEF Hash
<1>4. (\E f \in Files : bytes = Content(f)) => Hash(bytes) = <<of(bytes), 0>> /\ bytes = Content(of(bytes))
  BY DEF Hash
<1>5. ~(\E f \in Files : bytes = Content(f)) => Hash(bytes) = <<NoFile, 0>>
  BY DEF Hash
<1> HIDE DEF of
<1>6. QED
  BY <1>3, <1>4, <1>5

LEMMA MatchedBegins ==
  ASSUME Lockstep, "abandoned" \notin past, NEW frame \in Requests, NEW next \in Calls,
         Begins(frame, next)
  PROVE  Matched'
<1>1. Asking' /\ ~Answering' /\ Head(out') = frame /\ call' = next /\ result' = NoResult
  BY BeginsFrame
<1>2. /\ frame.op \in OpsOf(next.st) /\ frame.op # "stxn" /\ frame.op \notin Polls
      /\ next.st # "DownloadingFile"
  BY DEF Begins, PutsChunk, OpsOf, Polls, Queries
<1>3. QED
  BY <1>1, <1>2, ConstantTypes DEF Matched

LEMMA MatchedGoesOn ==
  ASSUME Commanded, Lockstep, Matched, {"abandoned", "busy"} \cap past = {},
         NEW frame \in Requests, NEW next \in Calls, GoesOn(frame, next)
  PROVE  Matched'
<1>1. /\ Answering /\ Asking' /\ ~Answering' /\ Head(out') = frame /\ call' = next
      /\ result' = NoResult
  BY GoesOnFrame
<1>2. dev' = dev /\ calls' = calls /\ next.cmd = call.cmd /\ next.doc = call.doc
  BY DEF GoesOn
<1>3. /\ Head(in).typ \in {"okay", "busy"} /\ call.st # "EnrollingWallet" => Mine
      /\ Head(in).typ = "strx" => Head(in).id = calls /\ Head(in).file = Wanted
      /\ call.st = "DownloadingFile" => call.of = calls /\ call.file = Wanted
  BY <1>1 DEF Matched
<1>4. CASE /\ Pending /\ call.st # "EnrollingWallet" /\ KindFor(next.st) = KindFor(call.st)
           /\ frame.op \in OpsOf(next.st) /\ frame.op # "stxn" /\ next.st # "DownloadingFile"
  <2>1. Mine
    BY <1>3, <1>4, ResponseIs DEF Pending
  <2>2. Mine'
    BY <1>1, <1>2, <1>4, <2>1 DEF Mine
  <2>3. QED
    BY <1>1, <1>4, <2>2, ConstantTypes DEF Matched
<1>5. CASE /\ next.st \notin {"DownloadingFile"} /\ frame.op \in OpsOf(next.st)
           /\ frame.op \notin Polls /\ (frame.op = "stxn" => frame.doc = next.doc)
  BY <1>1, <1>5, ConstantTypes DEF Matched
<1>6. CASE GetsChunk(frame, next) /\ next.of = calls /\ next.file = Wanted
  <2>1. /\ frame.op \in OpsOf(next.st) /\ frame.op \notin Polls /\ frame.op # "stxn"
        /\ next.st = "DownloadingFile"
    BY <1>6 DEF GetsChunk, OpsOf, Polls
  <2>2. Wanted' = Wanted
    BY <1>1, <1>2 DEF Wanted
  <2>3. QED
    BY <1>1, <1>2, <1>6, <2>1, <2>2, ConstantTypes DEF Matched
<1>7. CASE call.st = "SignMessage" /\ Pending /\ frame.op = "smok" /\ next = call
  BY <1>4, <1>7 DEF OpsOf
<1>8. CASE call.st = "Backup" /\ Pending /\ frame.op = "bkok" /\ next.st = "PollingBackupFile"
  BY <1>4, <1>8 DEF OpsOf, KindFor
<1>9. CASE call.st = "SigningPsbt" /\ Pending /\ frame.op = "stok" /\ next.st = "PollingSignedPsbt"
  BY <1>4, <1>9 DEF OpsOf, KindFor
<1>10. CASE /\ call.st \in {"PollingSignedPsbt", "PollingBackupFile"} /\ Pending /\ next = call
            /\ frame.op = IF Slot = 1 THEN "stok" ELSE "bkok"
  BY <1>4, <1>10 DEF OpsOf, Commanded, Slot
<1>11. CASE /\ call.st \in {"PollingSignedPsbt", "PollingBackupFile"} /\ Response.typ = "strx"
            /\ next.file = Response.file /\ next.of = Response.id /\ GetsChunk(frame, next)
  BY <1>3, <1>6, <1>11, ResponseIs
<1>12. CASE call.st = "UploadingFile" /\ PutsChunk(frame, next)
  BY <1>5, <1>12 DEF PutsChunk, OpsOf, Polls
<1>13. CASE call.st = "UploadingFile" /\ frame.op = "sha2" /\ next.st = "VerifyingFileUpload"
  BY <1>5, <1>13 DEF OpsOf, Polls
<1>14. CASE /\ call.st = "VerifyingFileUpload" /\ frame.doc = call.doc
            /\ \/ frame.op = "stxn" /\ next.st = "SigningPsbt"
               \/ frame.op = "enrl" /\ next.st = "EnrollingWallet"
  BY <1>2, <1>5, <1>14 DEF OpsOf, Polls
<1>15. CASE /\ call.st = "DownloadingFile" /\ next.file = call.file /\ next.of = call.of
            /\ GetsChunk(frame, next)
  BY <1>3, <1>6, <1>15
<1>16. QED
  BY <1>7, <1>8, <1>9, <1>10, <1>11, <1>12, <1>13, <1>14, <1>15 DEF GoesOn

LEMMA MatchedEnds ==
  ASSUME TypeInv, Commanded, Lockstep, Matched, {"abandoned", "busy"} \cap past = {}, Ends
  PROVE  Matched'
<1>1. /\ Answering /\ ~Asking' /\ ~Answering' /\ call'.st = "New" /\ calls' = calls
  BY EndsFrame DEF Ends, NewCall
<1>2. ASSUME result'.status = "ok"
      PROVE  /\ result'.id = calls
             /\ result'.cmd = "SignPsbt" => result'.bytes = Content(Signed(result'.doc))
  <2>1. CASE /\ call.st = "StartEncryption" /\ Head(in).typ = "mypub" /\ result'.id = Head(in).id
             /\ result'.cmd = call.cmd
    BY <1>1, <2>1 DEF Lockstep, Commanded
  <2>2. CASE /\ call.st \in {"Query", "SignMessage", "EnrollingWallet"} /\ result'.cmd = call.cmd
             /\ Response.typ \in Texts \cup {"smrx", "okay"} /\ result'.id = Response.id
    BY <1>1, <2>2, ResponseIs DEF Matched, Commanded, Texts
  <2>3. CASE /\ call.st = "DownloadingFile" /\ Whole /\ result'.id = call.of
             /\ result'.bytes = call.bytes \o Response.data
             /\ result'.cmd = call.cmd /\ result'.doc = call.doc
    <3>1. call.of = calls /\ call.file = Wanted /\ call.file \in Files
      BY <2>3, TypeParts DEF Matched, Calls
    <3>2. ASSUME call.cmd = "SignPsbt" PROVE call.bytes \o Response.data = Content(Signed(call.doc))
      <4>1. call.file = Signed(call.doc) /\ call.file # NoFile
        BY <2>3, <3>1, <3>2 DEF Wanted, Whole, Signed, NoFile
      <4>2. Hash(call.bytes \o Response.data) = Hash(Content(call.file))
        BY <2>3 DEF Whole
      <4>3. QED
        BY <3>1, <4>1, <4>2, HashFacts
    <3>3. QED
      BY <2>3, <3>1, <3>2
  <2>4. QED
    BY <1>2, <2>1, <2>2, <2>3 DEF Ends, Lost
<1>3. QED
  BY <1>1, <1>2 DEF Matched

LEMMA MatchedReplied ==
  ASSUME TypeInv, Commanded, Made, Lockstep, Matched, {"abandoned", "busy"} \cap past' = {},
         NEW reply \in Replies, NEW next \in Devices, Replied(reply, next), Outcome(reply, next)
  PROVE  Matched'
<1>1. {"abandoned", "busy"} \cap past = {}
  BY DEF Replied
<1>2. Asking /\ Answering' /\ ~Asking' /\ Head(in') = reply /\ Asked = Head(out)
  BY <1>1, RepliedFrame DEF Replied
<1>3. UNCHANGED <<call, result, calls>> /\ dev' = next
  BY DEF Replied
<1>4. /\ Asked.id = calls /\ Asked.op \in OpsOf(call.st)
      /\ Asked.op = "stxn" => Asked.doc = call.doc
      /\ Asked.op \in Polls => Mine
  BY <1>1, <1>2 DEF Lockstep, Matched
<1>5. Wanted' = Wanted
  BY <1>3 DEF Wanted
<1>6. SUFFICES /\ reply.typ \in Texts \cup {"okay", "smrx", "strx"} => reply.id = calls
               /\ reply.typ \in {"okay", "busy"} /\ call.st # "EnrollingWallet" => Mine'
               /\ reply.typ = "strx" => reply.file = Wanted
  BY <1>1, <1>2, <1>3, <1>5 DEF Matched
<1>7. CASE Garbled(reply, next)
  BY <1>7 DEF Garbled, Texts
<1>8. CASE Answered(reply, next)
  BY <1>4, <1>8 DEF Answered, Queries, Texts
<1>9. CASE UserAsked(reply, next)
  <2>1. /\ Asked.op = "smsg" => call.st = "SignMessage"
        /\ Asked.op = "back" => call.st = "Backup"
        /\ Asked.op = "stxn" => call.st = "SigningPsbt"
        /\ Asked.op = "enrl" => call.st = "EnrollingWallet"
    <3>1. call.st \in States
      BY TypeParts DEF Calls
    <3>2. call.st # "New"
      BY <1>2 DEF Asking
    <3>3. QED
      BY <1>4, <3>1, <3>2 DEF OpsOf, States, Queries
  <2>2. CASE /\ reply.typ = "okay" /\ reply.id = Asked.id
             /\ next.task = [kind |-> KindOf(Asked.op), state |-> "pending", id |-> Asked.id,
                             doc |-> Asked.doc]
    <3>1. ASSUME call.st # "EnrollingWallet" PROVE Mine'
      <4>1. /\ KindOf(Asked.op) = KindFor(call.st)
            /\ KindOf(Asked.op) = "stxn" => Asked.doc = call.doc
        BY <1>4, <1>9, <2>1, <3>1 DEF UserAsked, KindOf, KindFor
      <4>2. QED
        BY <1>3, <1>4, <2>2, <4>1 DEF Mine
    <3>2. QED
      BY <1>4, <2>2, <3>1
  <2>3. CASE reply.typ = "err"
    BY <2>3 DEF Texts
  <2>4. QED
    BY <1>9, <2>2, <2>3 DEF UserAsked
<1>10. CASE Polled(reply, next)
  <2>1. Mine
    BY <1>4, <1>10 DEF Polled
  <2>2. CASE reply.typ = "busy" /\ next.task = dev.task
    BY <1>3, <2>1, <2>2 DEF Mine, Texts
  <2>3. CASE reply.typ = "smrx" /\ reply.id = dev.task.id
    BY <2>1, <2>3 DEF Mine
  <2>4. CASE /\ reply.typ = "strx" /\ dev.task.state = "approved" /\ dev.task.kind \in {"backup", "stxn"}
             /\ reply.id = dev.task.id
             /\ reply.file = dev.slots[IF dev.task.kind = "stxn" THEN 1 ELSE 0]
    <3>1. CASE dev.task.kind = "stxn"
      <4>1. call.cmd = "SignPsbt"
        BY <2>1, <3>1 DEF Mine, KindFor, Commanded
      <4>2. reply.file = Signed(call.doc)
        BY <2>1, <2>4, <3>1 DEF Mine, Made
      <4>3. QED
        BY <2>1, <2>4, <4>1, <4>2 DEF Wanted, Mine
    <3>2. CASE dev.task.kind = "backup"
      <4>1. call.cmd = "Backup"
        BY <2>1, <3>2 DEF Mine, KindFor, Commanded
      <4>2. reply.file = Sent(Backup)
        BY <2>4, <3>2 DEF Made
      <4>3. QED
        BY <2>1, <2>4, <4>1, <4>2 DEF Wanted, Mine
    <3>3. QED
      BY <2>4, <3>1, <3>2
  <2>5. CASE reply.typ \in {"refu", "err"}
    BY <2>5 DEF Texts
  <2>6. QED
    BY <1>10, <2>2, <2>3, <2>4, <2>5 DEF Polled
<1>11. CASE Uploaded(reply, next) \/ Hashed(reply, next) \/ PieceRead(reply, next)
  BY <1>11 DEF Uploaded, Hashed, PieceRead, Texts
<1>12. QED
  BY <1>7, <1>8, <1>9, <1>10, <1>11 DEF Outcome

LEMMA MatchedNext ==
  ASSUME TypeInv, Commanded, Made, Lockstep, Matched, [Next]_vars
  PROVE  Matched'
<1>1. CASE {"abandoned", "busy"} \cap past' # {}
  BY <1>1 DEF Matched
<1>2. CASE {"abandoned", "busy"} \cap past = {} /\ Refused
  <2>1. ~Asking' /\ ~Answering' /\ call'.st = "New" /\ result'.status # "ok"
    BY <1>2, RefusedFrame DEF Refused, Lost, NewCall
  <2>2. QED
    BY <2>1 DEF Matched
<1>3. CASE ~Asking' /\ ~Answering' /\ call' = NewCall /\ result' = NoResult
  BY <1>3, ConstantTypes DEF Matched
<1>4. CASE DeviceKeyExchange /\ {"abandoned", "busy"} \cap past = {}
  <2>1. PICK reply \in Replies : in' = Append(in, reply) /\ reply.typ \in {"mypub", "err"}
    BY <1>4, KeyExchangeSteps
  <2>2. out # <<>> /\ out' = Tail(out) /\ UNCHANGED <<call, result, calls>>
    BY <1>4, KeyExchangeSteps
  <2>3. Answering' /\ ~Asking' /\ Head(in') = reply
    BY <1>4, <2>1, <2>2, RepliedFrame
  <2>4. Wanted' = Wanted
    BY <2>2 DEF Wanted
  <2>5. QED
    BY <1>4, <2>1, <2>2, <2>3, <2>4 DEF Matched, Texts
<1>5. CASE UserDecides
  <2>1. UNCHANGED <<call, result, out, in, past, calls>>
    BY <1>5, UserSteps
  <2>2. Wanted' = Wanted /\ (Asking <=> Asking') /\ (Answering <=> Answering')
    BY <2>1 DEF Wanted, Asking, Answering
  <2>3. Mine => Mine'
    BY <1>5, <2>1, UserSteps DEF Mine, KindFor
  <2>4. QED
    BY <2>1, <2>2, <2>3 DEF Matched
<1>6. CASE UNCHANGED vars
  <2>1. UNCHANGED <<call, result, out, in, past, calls, dev>>
    BY <1>6 DEF vars
  <2>2. /\ Wanted' = Wanted /\ (Asking <=> Asking') /\ (Answering <=> Answering')
        /\ Mine <=> Mine'
    BY <2>1 DEF Wanted, Asking, Answering, Mine
  <2>3. QED
    BY <2>1, <2>2 DEF Matched
<1>7. CASE Abandon \/ LoseReply \/ Reconnect
  <2>1. CASE "abandoned" \notin past /\ in # <<>> /\ in' = Tail(in) /\ UNCHANGED <<engine, out, dev>>
    BY <1>3, <1>7, <2>1, FaultSteps, LostFrame
  <2>2. CASE engine' = NewEngine /\ out' = <<>> /\ in' = <<>>
    BY <1>3, <1>7, <2>2, FaultSteps, FreshFrame
  <2>3. "abandoned" \notin past' => \/ "abandoned" \notin past /\ in # <<>> /\ in' = Tail(in)
                                       /\ UNCHANGED <<engine, out, dev>>
                                    \/ engine' = NewEngine /\ out' = <<>> /\ in' = <<>>
    BY <1>7, FaultSteps
  <2>4. QED
    BY <1>1, <2>1, <2>2, <2>3
<1>8. CASE Start
  <2>1. past \subseteq past'
    BY <1>8, StartSteps DEF Refused, Lost, Begins, Writes
  <2>2. QED
    BY <1>1, <1>2, <1>8, <2>1, StartSteps, MatchedBegins
<1>9. CASE HostReceive
  <2>1. past \subseteq past'
    BY <1>9, HostSteps, ZenonT(60) DEF Ends, Lost, GoesOn, Writes
  <2>2. QED
    BY <1>1, <1>9, <2>1, HostSteps, MatchedGoesOn, MatchedEnds
<1>10. CASE DeviceStep
  <2>1. past \subseteq past'
    BY <1>10, DeviceSteps, KeyExchangeSteps DEF Replied
  <2>2. QED
    BY <1>1, <1>4, <1>10, <2>1, DeviceSteps, MatchedReplied
<1>11. QED
  BY <1>5, <1>6, <1>7, <1>8, <1>9, <1>10 DEF Next

\* What a call returns was made for it, and a signed PSBT is the one that was given, as
\* long as no call on this connection was abandoned and the device was not busy: what the
\* device is asked to approve, and keeps for the polls and the download, is then always
\* the waiting call's.
THEOREM OwnAnswers == Spec => []("abandoned" \notin past => OwnAnswer)
<1> DEFINE Inv == TypeInv /\ Commanded /\ Made /\ Lockstep /\ Matched
<1>1. Init => Inv
  <2>1. Init => Matched
    BY HoldsAtFirst DEF Matched, Init, NewCall, NoResult
  <2>2. QED
    BY <2>1, HoldsAtFirst
<1>2. Inv /\ [Next]_vars => Inv'
  BY TypesNext, CommandedNext, MadeNext, LockstepNext, MatchedNext
<1>3. Inv => ("abandoned" \notin past => OwnAnswer)
  BY DEF Matched, OwnAnswer
<1>4. QED
  BY <1>1, <1>2, <1>3, PTL DEF Spec

-----------------------------------------------------------------------------
(* Nothing fails without a reason.                                         *)

LEMMA SmoothBegins ==
  ASSUME TypeInv, Lockstep, Smooth, past = {}, NEW frame \in Requests, NEW next \in Calls,
         Begins(frame, next)
  PROVE  Smooth'
<1>1. /\ Quiet /\ Asking' /\ ~Answering' /\ ~Quiet' /\ Head(out') = frame /\ call' = next
      /\ result' = NoResult
  BY BeginsFrame
<1>2. Streams'
  BY <1>1 DEF Smooth, Streams, Begins, Encrypts
<1>3. next.st = "UploadingFile" =>
        /\ next.offset = 0 /\ next.doc \in Docs /\ frame.offset = 0
        /\ frame.data = SubSeq(Content(Sent(next.doc)), 0 + 1, ChunkEnd(Length[next.doc], 0))
  BY DEF Begins, PutsChunk
<1>4. next.st \in {"StartEncryption", "Query", "SignMessage", "Backup", "UploadingFile"}
  BY DEF Begins, PutsChunk
<1>5. Uploads'
  <2>1. ASSUME next.st = "UploadingFile"
        PROVE  /\ next.offset <= Length[next.doc]
               /\ SubSeq(dev.buffer, 1, Least(0, Len(dev.buffer))) =
                    SubSeq(Content(Sent(next.doc)), 1, 0)
    <3>1. next.offset = 0 /\ next.doc \in Docs \cup {Backup} /\ Sent(next.doc) \in Files
      BY <1>3, <2>1, SentTypes
    <3>2. Length[next.doc] \in Nat /\ Content(Sent(next.doc)) \in Seq(Units) /\ dev.buffer \in Seq(Units)
      BY <3>1, LengthTypes, ContentTypes, DeviceParts
    <3>3. Len(dev.buffer) \in Nat
      BY <3>2
    <3>4. Least(0, Len(dev.buffer)) = 0
      BY <3>3 DEF Least
    <3>5. SubSeq(dev.buffer, 1, 0) = <<>> /\ SubSeq(Content(Sent(next.doc)), 1, 0) = <<>>
      <4>1. \A q \in Seq(Units) : SubSeq(q, 1, 0) = <<>>
        OBVIOUS
      <4>2. QED
        BY <3>2, <4>1, Zenon
    <3>6. QED
      BY <3>1, <3>2, <3>4, <3>5
  <2>2. dev' = dev
    BY DEF Begins
  <2>3. QED
    BY <1>1, <1>3, <1>4, <2>1, <2>2 DEF Uploads, Doc, NextOffset
<1>6. Downloads'
  BY <1>1, <1>4 DEF Downloads
<1>7. next.st = "Query" => frame.op = next.cmd
  BY DEF Begins, PutsChunk
<1>8. QED
  BY <1>1, <1>2, <1>5, <1>6, <1>7, ConstantTypes DEF Smooth

LEMMA SmoothQuiet ==
  ASSUME Quiet', ~Asking', ~Answering', call' = NewCall, result'.status # "err",
         engine'.key = 0 \/ (dev'.dec = engine'.enc /\ dev'.enc = engine'.dec)
  PROVE  Smooth'
<1>1. call'.st = "New"
  BY ConstantTypes
<1>2. Streams'
  BY DEF Streams
<1>3. Uploads' /\ Downloads'
  BY <1>1 DEF Uploads, Downloads
<1>4. QED
  BY <1>1, <1>2, <1>3 DEF Smooth

LEMMA SmoothRefused ==
  ASSUME Lockstep, Smooth, past = {}, past' = {}, Refused
  PROVE  Smooth'
<1>1. Quiet /\ Quiet' /\ ~Asking' /\ ~Answering'
  BY RefusedFrame
<1>2. UNCHANGED <<engine, dev>> /\ result'.status # "err" /\ call' = NewCall
  BY DEF Refused, Lost
<1>3. QED
  BY <1>1, <1>2, SmoothQuiet DEF Smooth, Streams

\* The response is the reply as it came.
LEMMA InStep ==
  ASSUME TypeInv, Smooth, past = {}, Answering, call.st # "StartEncryption"
  PROVE  /\ Response = Head(in) /\ Expected /\ engine.key # 0
         /\ dev.enc = engine.dec + 1 /\ dev.dec = engine.enc
<1>1. engine.key # 0
  BY TypeParts DEF Answering
<1>2. QED
  BY <1>1 DEF Smooth, Streams, Response

\* A chunk put after those before it.
LEMMA Gathering ==
  ASSUME TypeInv, Smooth, past = {}, Answering, in' = Tail(in), call.st = "DownloadingFile"
  PROVE  \E end \in (Len(call.bytes) + 1)..Length[call.file.doc] :
           /\ call.bytes \o Response.data = SubSeq(Content(call.file), 1, end)
           /\ Len(call.bytes \o Response.data) = end /\ Downloaded = end
           /\ Response.typ = "biny" /\ Response.data # <<>>
<1> DEFINE content == Content(call.file)
           total == Length[call.file.doc]
<1>1. Response = Head(in) /\ Expected
  BY InStep
<1>2. PICK end \in (Len(call.bytes) + 1)..total :
        Response.data = SubSeq(content, Len(call.bytes) + 1, end)
  BY <1>1 DEF Expected
<1>3. /\ call.bytes \in Seq(Units) /\ call.file \in Files /\ content \in Seq(Units)
      /\ Len(content) = total /\ total \in Nat
  BY TypeParts, ContentTypes, LengthTypes DEF Calls
<1>4. call.bytes = SubSeq(content, 1, Len(call.bytes))
  BY DEF Smooth, Downloads
<1>5. Len(call.bytes) \in Nat /\ end \in Nat /\ Len(call.bytes) <= end /\ end <= total
  <2>1. Len(call.bytes) \in Nat
    <3>1. \A q \in Seq(Units) : Len(q) \in Nat
      OBVIOUS
    <3>2. QED
      BY <1>3, <3>1, Zenon
  <2>2. QED
    BY <1>2, <1>3, <2>1
<1> HIDE DEF content, total
<1>6. SubSeq(content, 1, Len(call.bytes)) \o SubSeq(content, Len(call.bytes) + 1, end) =
        SubSeq(content, 1, end)
  BY <1>3, <1>5, PiecesFacts, ZenonT(60)
<1>7. call.bytes \o Response.data = SubSeq(content, 1, end)
  BY <1>2, <1>4, <1>6
<1>8. /\ Len(Response.data) = end - Len(call.bytes) /\ Response.data \in Seq(Units)
  <2> DEFINE m == Len(call.bytes)
  <2>1. m \in Nat /\ end \in Nat /\ m <= end /\ end <= Len(content)
    BY <1>3, <1>5
  <2>2. Response.data = SubSeq(content, m + 1, end)
    BY <1>2
  <2> HIDE DEF m
  <2>3. SubSeq(content, m + 1, end) \in Seq(Units) /\ Len(SubSeq(content, m + 1, end)) = end - m
    BY <1>3, <2>1, PieceFacts
  <2>4. QED
    BY <2>2, <2>3 DEF m
<1>9. Response.data # <<>>
  <2>1. end - Len(call.bytes) # 0
    BY <1>2, <1>5
  <2>2. Len(Response.data) # 0
    BY <1>8, <2>1
  <2>3. QED
    BY <1>8, <2>2, EmptyFacts
<1>10. Len(call.bytes \o Response.data) = Len(call.bytes) + Len(Response.data)
  BY <1>3, <1>8, ConcatFacts, ZenonT(60)
<1>11. Downloaded = end /\ Len(call.bytes \o Response.data) = end
  BY <1>5, <1>8, <1>10 DEF Downloaded
<1>12. QED
  BY <1>1, <1>2, <1>7, <1>9, <1>11 DEF Expected, content, total

LEMMA SmoothEnds ==
  ASSUME TypeInv, Commanded, Lockstep, Matched, Smooth, past = {}, past' = {}, Ends
  PROVE  Smooth'
<1>1. Answering /\ Quiet' /\ ~Asking' /\ ~Answering'
  BY EndsFrame
<1>2. call' = NewCall /\ dev' = dev /\ in' = Tail(in) /\ past' = past
  BY DEF Ends
<1>3. Expected
  BY <1>1 DEF Smooth
<1>4. ~Unexpected
  <2>1. call.st = "StartEncryption" => Head(in).typ = "mypub"
    BY <1>3 DEF Expected
  <2>2. call.st # "StartEncryption" => Response = Head(in)
    BY <1>1, InStep
  <2>3. call.st = "Query" => Response.typ \in Accepts(call.cmd)
    BY <1>3, <2>2 DEF Expected, Commanded, Accepts, Queries, Texts
  <2>4. ASSUME call.st = "DownloadingFile"
        PROVE  /\ Response.typ = "biny" /\ Response.data # <<>>
               /\ Downloaded >= Length[call.file.doc] => Whole
    <3>1. PICK end \in (Len(call.bytes) + 1)..Length[call.file.doc] :
            /\ call.bytes \o Response.data = SubSeq(Content(call.file), 1, end)
            /\ Downloaded = end /\ Response.typ = "biny" /\ Response.data # <<>>
      BY <1>1, <1>2, <2>4, Gathering
    <3>2. ASSUME Downloaded >= Length[call.file.doc] PROVE Whole
      <4>1. call.file \in Files /\ Length[call.file.doc] \in Nat
        BY TypeParts, ContentTypes, LengthTypes DEF Calls
      <4>2. Len(call.bytes) \in Nat
        BY TypeParts DEF Calls
      <4>3. end = Length[call.file.doc]
        BY <3>1, <3>2, <4>1, <4>2
      <4>4. SubSeq(Content(call.file), 1, end) = Content(call.file)
        <5>1. Content(call.file) \in Seq(Units) /\ Len(Content(call.file)) = end
          BY <4>1, <4>3, ContentTypes
        <5>2. QED
          BY <5>1, PiecesFacts
      <4>5. call.cmd = "SignPsbt" => call.file.doc # Backup
        BY <2>4 DEF Matched, Wanted, Commanded, Signed
      <4>6. QED
        BY <3>1, <4>3, <4>4, <4>5 DEF Whole
    <3>3. QED
      BY <3>1, <3>2
  <2>5. QED
    BY <1>3, <2>1, <2>2, <2>3, <2>4 DEF Unexpected, Expected, Pending
<1>5. CASE /\ call.st = "StartEncryption" /\ engine'.enc = 0 /\ engine'.dec = 0
           /\ result'.status = "ok"
  <2>1. dev'.dec = engine'.enc /\ dev'.enc = engine'.dec
    BY <1>2, <1>3, <1>5 DEF Expected
  <2>2. QED
    BY <1>1, <1>2, <1>5, <2>1, SmoothQuiet
<1>6. CASE /\ engine.key # 0 /\ result'.status = "ok"
           /\ engine'.enc = engine.enc /\ engine'.dec = engine.dec + 1
  <2>1. dev'.dec = engine'.enc /\ dev'.enc = engine'.dec
    BY <1>1, <1>2, <1>6 DEF Smooth, Streams
  <2>2. QED
    BY <1>1, <1>2, <1>6, <2>1, SmoothQuiet
<1>7. QED
  BY <1>4, <1>5, <1>6 DEF Ends, Lost

LEMMA SmoothGoesOn ==
  ASSUME TypeInv, Commanded, Lockstep, Matched, Smooth, past = {},
         NEW frame \in Requests, NEW next \in Calls, GoesOn(frame, next)
  PROVE  Smooth'
<1>1. /\ Answering /\ Asking' /\ ~Answering' /\ ~Quiet' /\ Head(out') = frame /\ call' = next
      /\ result' = NoResult /\ call.st # "StartEncryption"
  BY GoesOnFrame
<1>2. /\ dev' = dev /\ in' = Tail(in) /\ next.cmd = call.cmd /\ next.doc = call.doc
      /\ Slot' = Slot
  BY <1>1 DEF GoesOn, Slot
<1>3. Response = Head(in) /\ Expected /\ dev.enc = engine.dec + 1 /\ dev.dec = engine.enc
  BY <1>1, InStep
<1>4. Streams'
  <2>1. /\ engine'.key = engine.key /\ engine'.enc = engine.enc + 1 /\ engine'.dec = engine.dec + 1
        /\ frame.key = engine.key /\ frame.n = engine.enc
    BY DEF GoesOn, Encrypts
  <2>2. QED
    BY <1>1, <1>2, <1>3, <2>1 DEF Streams
<1>5. /\ call.doc \in Docs \cup {Backup} /\ Length[call.doc] \in Nat /\ dev.buffer \in Seq(Units)
      /\ Doc \in Seq(Units) /\ Len(Doc) = Length[call.doc] /\ Doc' = Doc
      /\ call.offset \in Nat /\ NextOffset \in Nat /\ NextOffset <= Length[call.doc]
  <2>1. call.doc \in Docs \cup {Backup} /\ call.offset \in Nat
    BY TypeParts DEF Calls
  <2>2. Length[call.doc] \in Nat /\ Doc \in Seq(Units) /\ Len(Doc) = Length[call.doc]
    BY <2>1, LengthTypes, SentTypes, ContentTypes DEF Doc
  <2>3. NextOffset \in Nat /\ NextOffset <= Length[call.doc]
    BY <2>1, <2>2, ChunkEndTypes DEF NextOffset
  <2>4. QED
    BY <1>1, <1>2, <2>1, <2>2, <2>3, DeviceParts DEF Doc
<1>6. call.st = "UploadingFile" => dev.buffer = SubSeq(Doc, 1, NextOffset)
  BY <1>1 DEF Smooth, Uploads
<1>7. Uploads'
  <2>1. CASE /\ call.st = "UploadingFile" /\ NextOffset < Length[call.doc]
             /\ next.offset = NextOffset /\ PutsChunk(frame, next)
    <3>1. Len(dev.buffer) = NextOffset /\ SubSeq(dev.buffer, 1, Len(dev.buffer)) = dev.buffer
      <4>1. Len(SubSeq(Doc, 0 + 1, NextOffset)) = NextOffset
        BY <1>5, PieceFacts
      <4>2. Len(dev.buffer) = NextOffset
        <5>1. 0 + 1 = 1
          OBVIOUS
        <5>2. Len(SubSeq(Doc, 1, NextOffset)) = NextOffset
          BY <4>1, <5>1, Zenon
        <5>3. QED
          BY <1>6, <2>1, <5>2
      <4>3. QED
        BY <1>5, <4>2, PiecesFacts
    <3>2. Least(NextOffset, Len(dev.buffer)) = Len(dev.buffer)
      BY <3>1 DEF Least
    <3>3. SubSeq(dev.buffer, 1, Least(NextOffset, Len(dev.buffer))) = SubSeq(Doc, 1, NextOffset)
      BY <1>6, <2>1, <3>1, <3>2
    <3>4. next.st = "UploadingFile" /\ next.offset <= Length[next.doc]
      BY <1>2, <1>5, <2>1 DEF PutsChunk
    <3>5. frame.offset = next.offset /\ frame.data = SubSeq(Doc, next.offset + 1, NextOffset')
      BY <1>1, <1>2, <2>1 DEF PutsChunk, Doc, NextOffset
    <3>6. QED
      BY <1>1, <1>2, <1>5, <2>1, <3>3, <3>4, <3>5 DEF Uploads
  <2>2. CASE /\ call.st = "UploadingFile" /\ NextOffset >= Length[call.doc]
             /\ next.st = "VerifyingFileUpload"
    <3>1. NextOffset = Len(Doc)
      BY <1>5, <2>2
    <3>2. SubSeq(Doc, 1, Len(Doc)) = Doc
      BY <1>5, PiecesFacts
    <3>3. dev.buffer = Doc
      BY <1>6, <2>2, <3>1, <3>2
    <3>4. QED
      BY <1>1, <1>2, <1>5, <2>2, <3>3 DEF Uploads
  <2>3. CASE /\ call.st = "VerifyingFileUpload" /\ frame.doc = call.doc
             /\ next.st \in {"SigningPsbt", "EnrollingWallet"}
    <3>1. dev.buffer = Doc
      BY <2>3 DEF Smooth, Uploads
    <3>2. QED
      BY <1>1, <1>2, <1>5, <2>3, <3>1 DEF Uploads
  <2>4. CASE next.st \in {"SignMessage", "PollingSignedPsbt", "PollingBackupFile", "DownloadingFile"}
    BY <1>1, <2>4 DEF Uploads
  <2>5. QED
    BY <2>1, <2>2, <2>3, <2>4 DEF GoesOn, GetsChunk
<1>8. Downloads'
  <2>1. CASE next.st # "DownloadingFile"
    BY <1>1, <2>1 DEF Downloads
  <2>2. ASSUME GetsChunk(frame, next), dev.slots[Slot] = next.file, dev.task.state # "pending",
               next.bytes = SubSeq(Content(next.file), 1, Len(next.bytes))
        PROVE  Downloads'
    BY <1>1, <1>2, <2>2 DEF Downloads, GetsChunk
  <2>3. CASE /\ Response.typ = "strx" /\ next.file = Response.file /\ next.bytes = <<>>
             /\ GetsChunk(frame, next)
    <3>1. dev.slots[Slot] = next.file /\ dev.task.state # "pending"
      BY <1>1, <1>3, <2>3 DEF Smooth, Downloads
    <3>2. next.bytes = SubSeq(Content(next.file), 1, Len(next.bytes))
      <4>1. Content(next.file) \in Seq(Units) /\ Len(next.bytes) = 0
        BY <2>3, ContentTypes DEF Calls
      <4>2. SubSeq(Content(next.file), 1, 0) = <<>>
        <5>1. \A q \in Seq(Units) : SubSeq(q, 1, 0) = <<>>
          OBVIOUS
        <5>2. QED
          BY <4>1, <5>1, Zenon
      <4>3. QED
        BY <2>3, <4>1, <4>2
    <3>3. QED
      BY <2>2, <2>3, <3>1, <3>2
  <2>4. CASE /\ call.st = "DownloadingFile" /\ next.file = call.file
             /\ next.bytes = call.bytes \o Response.data /\ GetsChunk(frame, next)
    <3>1. dev.slots[Slot] = next.file /\ dev.task.state # "pending"
      BY <2>4 DEF Smooth, Downloads
    <3>2. PICK end \in (Len(call.bytes) + 1)..Length[call.file.doc] :
            /\ call.bytes \o Response.data = SubSeq(Content(call.file), 1, end)
            /\ Len(call.bytes \o Response.data) = end
      BY <1>1, <1>2, <2>4, Gathering
    <3>3. QED
      BY <2>2, <2>4, <3>1, <3>2
  <2>5. next.st = "DownloadingFile" =>
          \/ Response.typ = "strx" /\ next.file = Response.file /\ next.bytes = <<>>
             /\ GetsChunk(frame, next)
          \/ call.st = "DownloadingFile" /\ next.file = call.file
             /\ next.bytes = call.bytes \o Response.data /\ GetsChunk(frame, next)
    BY DEF GoesOn, PutsChunk
  <2>6. QED
    BY <2>1, <2>3, <2>4, <2>5
<1>9. next.st # "Query"
  BY DEF GoesOn, PutsChunk, GetsChunk
<1>10. QED
  BY <1>1, <1>4, <1>7, <1>8, <1>9, ConstantTypes DEF Smooth

\* What a call in step asks is understood.
LEMMA AsksInStep ==
  ASSUME TypeInv, Lockstep, Smooth, past = {}, Asking, Asked = Head(out), Asked.op # "ncry"
  PROVE  /\ engine.key # 0 /\ engine.key = dev.key /\ Understood
         /\ engine.enc = dev.dec + 1 /\ engine.dec = dev.enc
<1>1. call.st # "StartEncryption" /\ call.st # "New"
  BY DEF Lockstep, Asking
<1>2. engine.key # 0
  BY <1>1, TypeParts
<1>3. QED
  BY <1>2 DEF Lockstep, Smooth, Streams, Understood

\* What the device answers to a call in step.
LEMMA ExpectedReply ==
  ASSUME TypeInv, Commanded, Lockstep, Matched, Smooth, past = {}, past' = {}, Asking,
         Asked = Head(out), Asked.op \in OpsOf(call.st), call.st # "New",
         NEW reply \in Replies, NEW next \in Devices, Outcome(reply, next), Understood
  PROVE  /\ call.st = "Query" => reply.typ = call.cmd
         /\ call.st = "SignMessage" => reply.typ \in {"okay", "busy", "smrx"}
         /\ call.st \in {"Backup", "SigningPsbt", "EnrollingWallet"} => reply.typ = "okay"
         /\ call.st = "UploadingFile" =>
              reply.typ = "int1" /\ reply.offset = call.offset /\ Uploaded(reply, next)
         /\ call.st = "VerifyingFileUpload" => reply.typ = "biny" /\ reply.data = <<Hash(Doc)>>
         /\ call.st \in {"PollingSignedPsbt", "PollingBackupFile"} => reply.typ \in {"busy", "strx"}
         /\ call.st = "DownloadingFile" => PieceRead(reply, next)
<1>1. ~Garbled(reply, next)
  BY DEF Garbled
<1>2. Asked.op \in Polls => Mine
  BY DEF Matched
<1>3. CASE call.st = "Query"
  <2>1. Asked.op \in Queries /\ Asked.op = call.cmd
    BY <1>3, SMTT(60) DEF OpsOf, Smooth
  <2>2. Answered(reply, next)
    BY <1>1, <2>1, SMTT(60) DEF Outcome, Answered, UserAsked, Uploaded, Hashed, Polled, PieceRead, Queries, Polls
  <2>3. QED
    BY <1>3, <2>1, <2>2, SMTT(60) DEF Answered
<1>4. CASE call.st \in {"SignMessage", "PollingSignedPsbt", "PollingBackupFile"} /\ Asked.op \in Polls
  <2>1. Polled(reply, next) /\ Mine
    BY <1>1, <1>2, <1>4, SMTT(60) DEF Outcome, Answered, UserAsked, Uploaded, Hashed, Polled, PieceRead, Queries, Polls
  <2>2. /\ call.st = "SignMessage" => dev.task.kind = "message"
        /\ call.st # "SignMessage" => dev.task.kind # "message"
        /\ dev.task.state # "none"
    BY <1>4, <2>1, SMTT(60) DEF Mine, KindFor
  <2>3. QED
    BY <1>4, <2>1, <2>2, SMTT(60) DEF Polled
<1>5. CASE call.st \in {"SignMessage", "Backup", "SigningPsbt", "EnrollingWallet"} /\ Asked.op \notin Polls
  <2>1. Asked.op \in {"smsg", "back", "stxn", "enrl"}
    BY <1>5, SMTT(60) DEF OpsOf, Polls
  <2>2. UserAsked(reply, next)
    BY <1>1, <2>1 DEF Outcome, Answered, UserAsked, Uploaded, Hashed, Polled, PieceRead, Queries, Polls
  <2>3. Asked.op \in {"stxn", "enrl"} => dev.buffer = Content(Sent(Asked.doc))
    <3>1. Asked.op \in {"stxn", "enrl"} => call.st \in {"SigningPsbt", "EnrollingWallet"}
      BY <1>5 DEF OpsOf
    <3>2. QED
      BY <3>1 DEF Smooth, Uploads, Doc
  <2>4. reply.typ = "okay"
    BY <2>2, <2>3 DEF UserAsked
  <2>5. QED
    BY <1>5, <2>4, SMTT(60)
<1>6. CASE call.st = "UploadingFile"
  <2>1. Asked.op = "upld" /\ Asked.offset = call.offset
    BY <1>6, SMTT(60) DEF OpsOf, Smooth, Uploads
  <2>2. Uploaded(reply, next)
    BY <1>1, <2>1, ZenonT(60) DEF Outcome, Answered, UserAsked, Uploaded, Hashed, Polled, PieceRead, Queries, Polls
  <2>3. QED
    BY <1>6, <2>1, <2>2, ZenonT(60) DEF Uploaded
<1>7. CASE call.st = "VerifyingFileUpload"
  <2>1. Asked.op = "sha2" /\ dev.buffer = Doc
    BY <1>7, SMTT(60) DEF OpsOf, Smooth, Uploads
  <2>2. Hashed(reply, next)
    BY <1>1, <2>1, SMTT(60) DEF Outcome, Answered, UserAsked, Uploaded, Hashed, Polled, PieceRead, Queries, Polls
  <2>3. QED
    BY <1>7, <2>1, <2>2, SMTT(60) DEF Hashed
<1>8. CASE call.st = "DownloadingFile"
  <2>1. Asked.op = "dwld"
    BY <1>8, SMTT(60) DEF OpsOf
  <2>2. PieceRead(reply, next)
    BY <1>1, <2>1 DEF Outcome, Answered, UserAsked, Uploaded, Hashed, Polled, PieceRead, Queries, Polls
  <2>3. QED
    BY <1>8, <2>2, SMTT(60)
<1>9. call.st \in {"PollingSignedPsbt", "PollingBackupFile"} => Asked.op \in Polls
  BY DEF OpsOf, Polls
<1>10. call.st \in {"Backup", "SigningPsbt", "EnrollingWallet"} => Asked.op \notin Polls
  BY DEF OpsOf, Polls
<1>11. QED
  BY <1>3, <1>4, <1>5, <1>6, <1>7, <1>8, <1>9, <1>10

\* The piece that is read is the next of the file, and there is one.
LEMMA ExpectedPiece ==
  ASSUME TypeInv, Commanded, Matched, Smooth, past = {}, Asking, Asked = Head(out),
         call.st = "DownloadingFile", NEW reply \in Replies, NEW next \in Devices,
         PieceRead(reply, next)
  PROVE  /\ reply.typ = "biny"
         /\ \E end \in (Len(call.bytes) + 1)..Length[call.file.doc] :
              reply.data = SubSeq(Content(call.file), Len(call.bytes) + 1, end)
<1> DEFINE total == Length[call.file.doc]
           offset == Len(call.bytes)
<1>1. call.file \in Files /\ call.bytes \in Seq(Units) /\ offset < total
  BY TypeParts DEF Calls, Gathers
<1>2. total \in Nat /\ offset \in Nat
  BY <1>1, ContentTypes, LengthTypes
<1>3. /\ Asked.slot = Slot /\ Asked.offset = offset /\ Asked.length = ChunkEnd(total, offset) - offset
      /\ dev.slots[Slot] = call.file
  BY DEF Smooth, Downloads
<1> HIDE DEF offset
<1>4. ChunkEnd(total, offset) \in Nat /\ ChunkEnd(total, offset) <= total /\ ChunkEnd(total, offset) > offset
  BY <1>1, <1>2, ChunkEndTypes
<1>5. PieceEnd = ChunkEnd(total, offset)
  <2>1. offset + (ChunkEnd(total, offset) - offset) = ChunkEnd(total, offset)
    BY <1>2, <1>4
  <2>2. PieceEnd = Least(offset + (ChunkEnd(total, offset) - offset), total)
    BY <1>3 DEF PieceEnd
  <2>3. Least(ChunkEnd(total, offset), total) = ChunkEnd(total, offset)
    BY <1>2, <1>4 DEF Least
  <2>4. QED
    BY <2>1, <2>2, <2>3
<1>6. call.file # NoFile
  BY DEF Matched, Wanted, Commanded, Signed, Sent, NoFile
<1>7. ~(dev.slots[Asked.slot] = NoFile \/ Asked.offset + 1 > PieceEnd)
  BY <1>2, <1>3, <1>4, <1>5, <1>6
<1>8. PICK end \in (Asked.offset + 1)..PieceEnd :
        reply.typ = "biny" /\ reply.data = SubSeq(Content(call.file), Asked.offset + 1, end)
  BY <1>3, <1>7 DEF PieceRead
<1>9. end \in (offset + 1)..total
  BY <1>2, <1>3, <1>4, <1>5, <1>8
<1>10. QED
  BY <1>3, <1>8, <1>9 DEF offset

LEMMA SmoothReplied ==
  ASSUME TypeInv, Commanded, Made, Lockstep, Matched, Smooth, past = {}, past' = {},
         NEW reply \in Replies, NEW next \in Devices, Replied(reply, next), Outcome(reply, next)
  PROVE  Smooth'
<1>1. /\ Asking /\ Answering' /\ ~Asking' /\ ~Quiet' /\ Head(in') = reply /\ Asked = Head(out)
      /\ out # <<>> /\ call.st # "New"
  BY RepliedFrame DEF Replied, Asking
<1>2. UNCHANGED <<call, result, engine, calls>> /\ dev' = next
  BY DEF Replied
<1>3. Asked.op # "ncry"
  BY DEF Outcome, Garbled, Answered, UserAsked, Uploaded, Hashed, Polled, PieceRead, Queries, Polls
<1>4. /\ engine.key # 0 /\ engine.key = dev.key /\ Understood
      /\ engine.enc = dev.dec + 1 /\ engine.dec = dev.enc
  BY <1>1, <1>3, AsksInStep
<1>5. Asked.op \in OpsOf(call.st) /\ call.st # "StartEncryption"
  BY <1>1, <1>3 DEF Matched, Lockstep
<1>6. Streams'
  BY <1>1, <1>2, <1>4 DEF Streams, Replied
<1>7. /\ call.st = "Query" => reply.typ = call.cmd
      /\ call.st = "SignMessage" => reply.typ \in {"okay", "busy", "smrx"}
      /\ call.st \in {"Backup", "SigningPsbt", "EnrollingWallet"} => reply.typ = "okay"
      /\ call.st = "UploadingFile" =>
           reply.typ = "int1" /\ reply.offset = call.offset /\ Uploaded(reply, next)
      /\ call.st = "VerifyingFileUpload" => reply.typ = "biny" /\ reply.data = <<Hash(Doc)>>
      /\ call.st \in {"PollingSignedPsbt", "PollingBackupFile"} => reply.typ \in {"busy", "strx"}
      /\ call.st = "DownloadingFile" => PieceRead(reply, next)
  BY <1>1, <1>4, <1>5, ExpectedReply
<1>8. Doc' = Doc /\ NextOffset' = NextOffset /\ Slot' = Slot
  BY <1>2 DEF Doc, NextOffset, Slot
<1>9. Expected'
  <2>1. call.st = "DownloadingFile" =>
          /\ reply.typ = "biny"
          /\ \E end \in (Len(call.bytes) + 1)..Length[call.file.doc] :
               reply.data = SubSeq(Content(call.file), Len(call.bytes) + 1, end)
    BY <1>1, <1>7, ExpectedPiece
  <2>2. QED
    BY <1>1, <1>2, <1>5, <1>7, <1>8, <2>1 DEF Expected
<1>10. Uploads'
  <2>1. CASE call.st = "UploadingFile"
    <3>1. /\ Asked.offset = call.offset /\ Asked.data = SubSeq(Doc, call.offset + 1, NextOffset)
          /\ SubSeq(dev.buffer, 1, Least(call.offset, Len(dev.buffer))) = SubSeq(Doc, 1, call.offset)
          /\ call.offset <= Length[call.doc]
      BY <1>1, <2>1 DEF Smooth, Uploads
    <3>2. next.buffer = SubSeq(Doc, 1, call.offset) \o SubSeq(Doc, call.offset + 1, NextOffset)
      BY <1>7, <2>1, <3>1 DEF Uploaded
    <3>3. call.offset \in Nat /\ call.doc \in Docs \cup {Backup} /\ Length[call.doc] \in Nat
      BY TypeParts, LengthTypes DEF Calls
    <3>4. Doc \in Seq(Units) /\ Len(Doc) = Length[call.doc]
      BY <3>3, SentTypes, ContentTypes DEF Doc
    <3>5. NextOffset \in Nat /\ NextOffset <= Len(Doc) /\ call.offset <= NextOffset
      BY <3>1, <3>3, <3>4, ChunkAssumption, SMTT(60) DEF NextOffset, ChunkEnd, Least
    <3>6. SubSeq(Doc, 1, call.offset) \o SubSeq(Doc, call.offset + 1, NextOffset) =
            SubSeq(Doc, 1, NextOffset)
      BY <3>3, <3>4, <3>5, PiecesFacts, ZenonT(60)
    <3>7. QED
      BY <1>1, <1>2, <1>8, <2>1, <3>1, <3>2, <3>6 DEF Uploads
  <2>2. CASE call.st \in {"VerifyingFileUpload", "SigningPsbt", "EnrollingWallet"}
    <3>1. Asked.op \in {"sha2", "stxn", "enrl"}
      BY <1>5, <2>2 DEF OpsOf
    <3>2. next.buffer = dev.buffer
      BY <3>1 DEF Outcome, Garbled, Answered, UserAsked, Uploaded, Hashed, Polled, PieceRead, Keeps
    <3>3. dev.buffer = Doc
      BY <2>2 DEF Smooth, Uploads
    <3>4. QED
      BY <1>1, <1>2, <1>8, <2>2, <3>2, <3>3 DEF Uploads
  <2>3. CASE call.st \notin {"UploadingFile", "VerifyingFileUpload", "SigningPsbt", "EnrollingWallet"}
    BY <1>2, <2>3 DEF Uploads
  <2>4. QED
    BY <2>1, <2>2, <2>3
<1>11. Downloads'
  <2>1. call.st = "DownloadingFile" =>
          /\ next.slots[Slot] = call.file /\ next.task.state # "pending"
          /\ call.bytes = SubSeq(Content(call.file), 1, Len(call.bytes))
    BY <1>7 DEF Smooth, Downloads, PieceRead, Keeps
  <2>2. ASSUME reply.typ = "strx"
        PROVE  next.slots[Slot] = reply.file /\ next.task.state # "pending"
    <3>1. Asked.op \in Polls /\ Polled(reply, next)
      BY <2>2 DEF Outcome, Garbled, Answered, UserAsked, Uploaded, Hashed, Polled, PieceRead, Queries
    <3>2. Mine
      BY <1>1, <3>1 DEF Matched
    <3>3. /\ dev.task.kind \in {"backup", "stxn"} /\ next.slots = dev.slots /\ next.task = NoTask
          /\ reply.file = dev.slots[IF dev.task.kind = "stxn" THEN 1 ELSE 0]
      BY <2>2, <3>1 DEF Polled
    <3>4. dev.task.kind = "stxn" <=> call.cmd = "SignPsbt"
      BY <3>2, <3>3 DEF Mine, KindFor, Commanded
    <3>5. QED
      BY <3>3, <3>4 DEF Slot, NoTask
  <2>3. QED
    BY <1>1, <1>2, <1>8, <2>1, <2>2 DEF Downloads
<1>12. result'.status # "err"
  BY <1>2 DEF Smooth
<1>13. QED
  BY <1>1, <1>6, <1>9, <1>10, <1>11, <1>12 DEF Smooth

LEMMA SmoothKeyExchange ==
  ASSUME TypeInv, Lockstep, Smooth, past = {}, past' = {}, DeviceKeyExchange
  PROVE  Smooth'
<1>1. PICK reply \in Replies :
        /\ in' = Append(in, reply)
        /\ \/ reply.typ = "mypub" /\ dev'.enc = 0 /\ dev'.dec = 0
           \/ past' = past \cup {"declined"}
  BY KeyExchangeSteps
<1>2. /\ out # <<>> /\ out' = Tail(out) /\ Asked.op = "ncry"
      /\ UNCHANGED <<engine, call, result>>
  BY KeyExchangeSteps
<1>3. Asking /\ Answering' /\ ~Asking' /\ ~Quiet' /\ Head(in') = reply /\ Asked = Head(out)
  BY <1>1, <1>2, RepliedFrame
<1>4. call.st = "StartEncryption" /\ engine.key = 0
  BY <1>2, <1>3 DEF Lockstep
<1>5. reply.typ = "mypub" /\ dev'.enc = 0 /\ dev'.dec = 0
  BY <1>1
<1>6. Streams' /\ Uploads' /\ Downloads' /\ Expected'
  BY <1>2, <1>3, <1>4, <1>5 DEF Streams, Uploads, Downloads, Expected
<1>7. QED
  BY <1>2, <1>3, <1>6 DEF Smooth

LEMMA SmoothUser ==
  ASSUME TypeInv, Smooth, past = {}, UserDecides
  PROVE  Smooth'
<1>1. /\ UNCHANGED <<engine, call, result, out, in, calls>> /\ dev.task.state = "pending"
      /\ dev'.key = dev.key /\ dev'.enc = dev.enc /\ dev'.dec = dev.dec /\ dev'.buffer = dev.buffer
  BY UserSteps
<1>2. /\ Doc' = Doc /\ NextOffset' = NextOffset /\ Slot' = Slot /\ (Asking <=> Asking')
      /\ (Answering <=> Answering') /\ (Quiet <=> Quiet')
  BY <1>1 DEF Doc, NextOffset, Slot, Asking, Answering, Quiet
<1>3. Streams'
  BY <1>1, <1>2 DEF Smooth, Streams
<1>4. Uploads'
  BY <1>1, <1>2 DEF Smooth, Uploads
<1>5. Downloads'
  BY <1>1, <1>2 DEF Smooth, Downloads
<1>6. Answering => Expected'
  BY <1>1, <1>2 DEF Smooth, Expected
<1>7. QED
  BY <1>1, <1>2, <1>3, <1>4, <1>5, <1>6 DEF Smooth

LEMMA SmoothNext ==
  ASSUME TypeInv, Commanded, Made, Lockstep, Matched, Smooth, [Next]_vars
  PROVE  Smooth'
<1>1. CASE past' # {}
  BY <1>1 DEF Smooth
<1>2. CASE Start
  <2>1. past \subseteq past'
    BY <1>2, StartSteps DEF Refused, Lost, Begins, Writes
  <2>2. QED
    BY <1>1, <1>2, <2>1, StartSteps, SmoothBegins, SmoothRefused
<1>3. CASE HostReceive
  <2>1. past \subseteq past'
    BY <1>3, HostSteps DEF Ends, Lost, GoesOn, Writes
  <2>2. QED
    BY <1>1, <1>3, <2>1, HostSteps, SmoothGoesOn, SmoothEnds
<1>4. CASE DeviceStep
  <2>1. past \subseteq past'
    BY <1>4, DeviceSteps, KeyExchangeSteps DEF Replied
  <2>2. QED
    BY <1>1, <1>4, <2>1, DeviceSteps, SmoothReplied, SmoothKeyExchange
<1>5. CASE Abandon \/ LoseReply \/ Reconnect
  <2>1. CASE engine' = NewEngine /\ out' = <<>> /\ in' = <<>>
    <3>1. call' = NewCall /\ result' = NoResult /\ engine'.key = 0
      BY <1>5, <2>1, FaultSteps, ConstantTypes
    <3>2. QED
      BY <2>1, <3>1, FreshFrame, SmoothQuiet, ConstantTypes
  <2>2. QED
    BY <1>1, <1>5, <2>1, FaultSteps
<1>6. CASE UserDecides
  BY <1>1, <1>6, UserSteps, SmoothUser
<1>7. CASE UNCHANGED vars
  <2>1. UNCHANGED <<engine, call, result, out, in, past, calls, dev>>
    BY <1>7 DEF vars
  <2>2. /\ Doc' = Doc /\ NextOffset' = NextOffset /\ Slot' = Slot /\ (Asking <=> Asking')
        /\ (Answering <=> Answering') /\ (Quiet <=> Quiet')
    BY <2>1 DEF Doc, NextOffset, Slot, Asking, Answering, Quiet
  <2>3. (Streams => Streams') /\ (Uploads => Uploads')
    BY <2>1, <2>2 DEF Streams, Uploads
  <2>4. (Downloads => Downloads') /\ (Expected => Expected')
    BY <2>1, <2>2 DEF Downloads, Expected
  <2>5. QED
    BY <2>1, <2>2, <2>3, <2>4 DEF Smooth
<1>8. QED
  BY <1>2, <1>3, <1>4, <1>5, <1>6, <1>7 DEF Next

\* A call fails only if its connection has lost a frame or a reply, a call on it was
\* abandoned, the device was busy, or it or its user declined: as long as none of these
\* happened, both streams are in step, the device holds what was sent of an upload and
\* the host what it asked for of a download, and so every reply is one the call goes on
\* with, for files and chunks of every length.
THEOREM FailuresHaveReasons == Spec => []FailsForAReason
<1> DEFINE Inv == TypeInv /\ Commanded /\ Made /\ Lockstep /\ Matched /\ Smooth
<1>1. Init => Inv
  <2>1. Init => Matched
    BY HoldsAtFirst DEF Matched, Init, NewCall, NoResult
  <2>2. Init => Smooth
    BY HoldsAtFirst DEF Smooth, Streams, Uploads, Downloads, Init, NewCall, NewEngine, NoResult
  <2>3. QED
    BY <2>1, <2>2, HoldsAtFirst
<1>2. Inv /\ [Next]_vars => Inv'
  BY TypesNext, CommandedNext, MadeNext, LockstepNext, MatchedNext, SmoothNext
<1>3. Inv => FailsForAReason
  BY DEF Smooth, FailsForAReason
<1>4. QED
  BY <1>1, <1>2, <1>3, PTL DEF Spec
=============================================================================
