-------------------------- MODULE ColdcardSession --------------------------
(***************************************************************************)
(* One Coldcard client of the library: the per-call interpreter            *)
(* (bhwi/src/coldcard/mod.rs), the AES-CTR engine that outlives the calls  *)
(* (bhwi/src/coldcard/encrypt.rs) and the transport                        *)
(* (bhwi-async/src/transport/coldcard/hid.rs), against a device and its    *)
(* user, modelled from how that code uses them.                            *)
(*                                                                         *)
(* A PSBT or a wallet description is uploaded in chunks and checked by its *)
(* hash; what needs the user's approval is asked for and then polled; a    *)
(* file that results is downloaded in chunks and checked by its hash.  The *)
(* device approves one thing at a time and is busy meanwhile, also for a   *)
(* client that comes after the one that asked.                             *)
(*                                                                         *)
(* Both directions are encrypted with a stream of their own, whose         *)
(* positions only ever advance: a message can be read by the other side    *)
(* only if everything before it was read.                                  *)
(*                                                                         *)
(* Abstracted: a session key is the number of the key exchange; a stream   *)
(* position is the number of messages before it; a file is a sequence of   *)
(* units, each of which knows its file and place, and its hash knows the   *)
(* file.                                                                   *)
(***************************************************************************)
EXTENDS Naturals, Sequences

CONSTANTS
  Docs,       \* PSBTs and wallet descriptions to upload
  Backup,     \* the content of a backup
  Length,     \* their lengths
  MaxChunk,   \* MAX_UPLOAD_CHUNK_LEN
  MaxCalls,   \* bound: calls of the client
  MaxFaults,  \* bound: abandoned calls, lost frames and reconnections
  MaxPolls    \* bound: polls answered before the user has decided

ASSUME LengthAssumption ==
  Backup \notin Docs /\ Length \in [Docs \cup {Backup} -> Nat \ {0}]
ASSUME ChunkAssumption == MaxChunk \in Nat \ {0}
ASSUME BoundsAssumption == MaxCalls \in Nat /\ MaxFaults \in Nat /\ MaxPolls \in Nat

VARIABLES
  engine,  \* encrypt::Engine: its key, or 0 while it is New, and two positions
  call,    \* ColdcardInterpreter: its state, command and file, and the call whose
           \* file it downloads
  result,  \* how the last call ended
  out, in, \* frames the device has not read, replies the host has not
  dev,     \* the device: key and positions, upload buffer, results, request to the user
  keys,    \* key exchanges so far
  past,    \* what this connection has seen go wrong
  calls, faults, polls

vars == <<engine, call, result, out, in, dev, keys, past, calls, faults, polls>>

-----------------------------------------------------------------------------
(* Files, requests and replies.                                            *)

\* A file as it is sent, or signed by the device.
Files == [doc : Docs \cup {Backup}, signed : BOOLEAN]
NoFile == [doc |-> Backup, signed |-> TRUE]
Sent(doc) == [doc |-> doc, signed |-> FALSE]
Signed(doc) == [doc |-> doc, signed |-> TRUE]

\* Unit 0 is the file's hash, which may come where a chunk is expected.
Units == Files \X Nat
Content(file) == [i \in 1..Length[file.doc] |-> <<file, i>>]
Hash(bytes) == <<IF \E f \in Files : bytes = Content(f)
                 THEN CHOOSE f \in Files : bytes = Content(f) ELSE NoFile, 0>>

Least(a, b) == IF a < b THEN a ELSE b

\* The chunk of a file of this length that starts at offset ends here.
ChunkEnd(length, offset) == Least(offset + MaxChunk, length)

\* file_number: 0 is the backup, 1 the signed PSBT.
Slots == {0, 1}

Queries == {"GetVersion", "GetXpub", "ShowAddress"}
Commands == Queries \cup {"SignMessage", "Backup", "SignPsbt", "RegisterWallet"}
Polls == {"smok", "bkok", "stok"}
Ops == Queries \cup Polls \cup {"ncry", "smsg", "back", "upld", "sha2", "stxn", "enrl", "dwld"}

Request(op, id) ==
  [key |-> 0, n |-> 0, op |-> op, id |-> id, doc |-> Backup, offset |-> 0, length |-> 0,
   slot |-> 0, data |-> <<>>]
Requests ==
  [key : Nat, n : Nat, op : Ops, id : Nat, doc : Docs \cup {Backup}, offset : Nat, length : Nat,
   slot : Slots, data : Seq(Units)]

\* file_upload_request
UploadRequest(id, doc, offset) ==
  [Request("upld", id) EXCEPT
     !.offset = offset,
     !.data = SubSeq(Content(Sent(doc)), offset + 1, ChunkEnd(Length[doc], offset))]

\* What a reply that is not a status carries: the id of the call that asked, an
\* offset, a piece of a file, or the hash and length of one.
Texts == {"GetVersion", "GetXpub", "ShowAddress"}
Replies ==
  [key : Nat, n : Nat, typ : Texts \cup {"mypub", "refu", "okay", "busy", "err", "int1", "biny",
                                         "strx", "smrx", "garbled"},
   id : Nat, offset : Nat, data : Seq(Units), file : Files]
Reply(typ) ==
  [key |-> 0, n |-> 0, typ |-> typ, id |-> 0, offset |-> 0, data |-> <<>>, file |-> NoFile]

NewEngine == [key |-> 0, enc |-> 0, dec |-> 0]
NewCall == [st |-> "New", cmd |-> "none", doc |-> Backup, offset |-> 0, file |-> NoFile,
            of |-> 0, bytes |-> <<>>]
NoResult == [status |-> "none", cmd |-> "none", doc |-> Backup, id |-> 0, bytes |-> <<>>]
NoTask == [kind |-> "none", state |-> "none", id |-> 0, doc |-> Backup]
NewDevice == [key |-> 0, enc |-> 0, dec |-> 0, buffer |-> <<>>, slots |-> [s \in Slots |-> NoFile],
              task |-> NoTask]

Init ==
  /\ engine = NewEngine
  /\ call = NewCall
  /\ result = NoResult
  /\ out = <<>> /\ in = <<>>
  /\ dev = NewDevice
  /\ keys = 0
  /\ past = {}
  /\ calls = 0 /\ faults = 0 /\ polls = 0

-----------------------------------------------------------------------------
(* The host.                                                               *)

\* A frame is written, or the call ends; its stretch of the stream is used up
\* in either case.
Transmit(frame, next) ==
  \/ /\ out' = Append(out, frame)
     /\ call' = next
     /\ result' = NoResult
     /\ UNCHANGED <<past, faults>>
  \/ /\ faults < MaxFaults
     /\ faults' = faults + 1
     /\ past' = past \cup {"lost"}
     /\ call' = NewCall
     /\ result' = [NoResult EXCEPT !.status = "err"]
     /\ UNCHANGED out

Encrypted(request) == [request EXCEPT !.key = engine.key, !.n = engine.enc]

Return(res) ==
  /\ call' = NewCall
  /\ result' = [res EXCEPT !.cmd = call.cmd, !.doc = call.doc]
  /\ UNCHANGED <<out, past, faults>>

\* MUTANT: a response that was not expected is skipped.
Fail_Waits == UNCHANGED <<call, result, out, past, faults>>

Fail == Return([NoResult EXCEPT !.status = "err"])

Succeed(id) == Return([NoResult EXCEPT !.status = "ok", !.id = id])

StartCall ==
  /\ call = NewCall
  /\ calls < MaxCalls
  /\ calls' = calls + 1
  /\ UNCHANGED <<in, dev, keys, polls>>

\* A command that the engine is not in the right state for.
NotReady ==
  /\ call' = NewCall
  /\ result' = [NoResult EXCEPT !.status = "notready"]
  /\ UNCHANGED <<engine, out, past, faults>>

\* MUTANT: a public key is handed out in every state.
HasPubKey_Always == TRUE

\* Engine::pub_key: the key exchange is done once.
HasPubKey == engine.key = 0

Unlock ==
  /\ StartCall
  /\ \/ /\ HasPubKey
        /\ Transmit(Request("ncry", calls'), [NewCall EXCEPT !.st = "StartEncryption"])
        /\ UNCHANGED engine
     \/ ~HasPubKey /\ NotReady

\* MUTANT: the streams start when the key exchange does.
Ready_Always == TRUE

Ready == engine.key # 0

StartEncrypted(cmd, doc, request, st) ==
  /\ StartCall
  /\ \/ /\ Ready
        /\ engine' = [engine EXCEPT !.enc = @ + 1]
        /\ Transmit(Encrypted(request), [NewCall EXCEPT !.st = st, !.cmd = cmd, !.doc = doc])
     \/ ~Ready /\ NotReady

\* GetVersion, GetMasterFingerprint and GetXpub, ShowAddress and its variants.
Query == \E cmd \in Queries : StartEncrypted(cmd, Backup, Request(cmd, calls'), "Query")

SignMessage == StartEncrypted("SignMessage", Backup, Request("smsg", calls'), "SignMessage")

StartBackup == StartEncrypted("Backup", Backup, Request("back", calls'), "Backup")

StartUpload ==
  \E cmd \in {"SignPsbt", "RegisterWallet"}, doc \in Docs :
    StartEncrypted(cmd, doc, UploadRequest(calls', doc, 0), "UploadingFile")

Start == Unlock \/ Query \/ SignMessage \/ StartBackup \/ StartUpload

-----------------------------------------------------------------------------
(* exchange, state by state.                                               *)

Receive(st) ==
  /\ call.st = st
  /\ in # <<>>
  /\ in' = Tail(in)
  /\ UNCHANGED <<dev, keys, calls, polls>>

\* Engine::decrypt applies the stream to whatever came: out of step, the result
\* is no response.
Response ==
  IF Head(in).key = engine.key /\ Head(in).n = engine.dec THEN Head(in) ELSE Reply("garbled")

Decrypt == engine' = [engine EXCEPT !.dec = @ + 1]

\* The reply is decrypted and the next request encrypted.
Send(request, next) ==
  /\ engine' = [engine EXCEPT !.dec = @ + 1, !.enc = @ + 1]
  /\ Transmit(Encrypted(request), next)

\* mypub, and on_unlock once the call is over: the key is installed.
OnStartEncryption ==
  /\ Receive("StartEncryption")
  /\ \/ /\ Head(in).typ = "mypub"
        /\ engine' = [NewEngine EXCEPT !.key = Head(in).offset]
        /\ Succeed(Head(in).id)
     \/ Head(in).typ # "mypub" /\ Fail /\ UNCHANGED engine

\* An answer is recognised by its form only: a version and an address are any
\* text, an extended key is a text that parses.
Accepts(cmd) ==
  CASE cmd = "GetXpub" -> {"GetXpub"}
    [] cmd \in {"GetVersion", "ShowAddress"} -> Texts

\* The user's refusal to show an address is no error here, but display_address
\* makes it one.
OnQuery ==
  /\ Receive("Query")
  /\ Decrypt
  /\ \/ Response.typ \in Accepts(call.cmd) /\ Succeed(Response.id)
     \/ Response.typ \notin Accepts(call.cmd) /\ Fail

\* Busy counts as okay.
Pending == Response.typ \in {"okay", "busy"}

OnSignMessage ==
  /\ Receive("SignMessage")
  /\ \/ Pending /\ Send(Request("smok", calls), call)
     \/ Response.typ = "smrx" /\ Decrypt /\ Succeed(Response.id)
     \/ ~Pending /\ Response.typ # "smrx" /\ Decrypt /\ Fail

OnBackup ==
  /\ Receive("Backup")
  /\ \/ Pending /\ Send(Request("bkok", calls), [call EXCEPT !.st = "PollingBackupFile"])
     \/ ~Pending /\ Decrypt /\ Fail

NextOffset == ChunkEnd(Length[call.doc], call.offset)

\* The acknowledgement carries the offset of the chunk.
OnUploadAcknowledged ==
  /\ Receive("UploadingFile")
  /\ LET acknowledged == Response.typ = "int1" /\ Response.offset = call.offset IN
     \/ /\ acknowledged
        /\ NextOffset < Length[call.doc]
        /\ Send(UploadRequest(calls, call.doc, NextOffset), [call EXCEPT !.offset = NextOffset])
     \/ /\ acknowledged
        /\ NextOffset >= Length[call.doc]
        /\ Send(Request("sha2", calls), [call EXCEPT !.st = "VerifyingFileUpload"])
     \/ ~acknowledged /\ Decrypt /\ Fail

AfterEnroll == [call EXCEPT !.st = "EnrollingWallet"]

OnUploadVerified ==
  /\ Receive("VerifyingFileUpload")
  /\ LET verified == Response.typ = "biny" /\ Response.data = <<Hash(Content(Sent(call.doc)))>> IN
     \/ /\ verified
        /\ call.cmd = "SignPsbt"
        /\ Send([Request("stxn", calls) EXCEPT !.doc = call.doc], [call EXCEPT !.st = "SigningPsbt"])
     \/ /\ verified
        /\ call.cmd = "RegisterWallet"
        /\ Send([Request("enrl", calls) EXCEPT !.doc = call.doc], AfterEnroll)
     \/ ~verified /\ Decrypt /\ Fail

\* MUTANT: any response that is one will do.
SigningStarted_AnyResponse == Response.typ # "garbled"

SigningStarted == Pending

OnSigningPsbt ==
  /\ Receive("SigningPsbt")
  /\ \/ /\ SigningStarted
        /\ Send(Request("stok", calls), [call EXCEPT !.st = "PollingSignedPsbt"])
     \/ ~SigningStarted /\ Decrypt /\ Fail

\* WalletRegistrationPending: the user decides after the call is over.
OnEnrollingWallet ==
  /\ Receive("EnrollingWallet")
  /\ Decrypt
  /\ \/ Response.typ = "okay" /\ Succeed(Response.id)
     \/ Response.typ # "okay" /\ Fail

Slot == IF call.cmd = "SignPsbt" THEN 1 ELSE 0

\* download_request
DownloadRequest(file, offset) ==
  [Request("dwld", calls) EXCEPT
     !.offset = offset,
     !.length = ChunkEnd(Length[file.doc], offset) - offset,
     !.slot = Slot]

\* PollingSignedPsbt, PollingBackupFile
OnPoll ==
  \E st \in {"PollingSignedPsbt", "PollingBackupFile"} :
    /\ Receive(st)
    /\ \/ /\ Pending
          /\ Send(Request(IF Slot = 1 THEN "stok" ELSE "bkok", calls), call)
       \/ /\ Response.typ = "strx"
          /\ Send(DownloadRequest(Response.file, 0),
                  [call EXCEPT !.st = "DownloadingFile", !.file = Response.file,
                               !.of = Response.id])
       \/ ~Pending /\ Response.typ # "strx" /\ Decrypt /\ Fail

\* MUTANT: what was asked for counts as received.
Downloaded_AsAsked == ChunkEnd(Length[call.file.doc], Len(call.bytes))

Downloaded == Len(call.bytes) + Len(Response.data)

OnDownload ==
  /\ Receive("DownloadingFile")
  /\ LET bytes == call.bytes \o Response.data
         total == Length[call.file.doc]
         chunk == Response.typ = "biny" /\ Response.data # <<>>
         whole == /\ Downloaded = total
                  /\ Hash(bytes) = Hash(Content(call.file))
                  /\ call.cmd = "SignPsbt" => call.file.doc # Backup IN
     \/ /\ chunk
        /\ Downloaded < total
        /\ Send(DownloadRequest(call.file, Downloaded), [call EXCEPT !.bytes = bytes])
     \/ /\ chunk /\ whole
        /\ Decrypt
        /\ Return([NoResult EXCEPT !.status = "ok", !.id = call.of, !.bytes = bytes])
     \/ /\ ~chunk \/ (Downloaded >= total /\ ~whole)
        /\ Decrypt
        /\ Fail

HostReceive ==
  \/ OnStartEncryption \/ OnQuery \/ OnSignMessage \/ OnBackup
  \/ OnUploadAcknowledged \/ OnUploadVerified \/ OnSigningPsbt \/ OnEnrollingWallet
  \/ OnPoll \/ OnDownload

-----------------------------------------------------------------------------
(* Faults.                                                                 *)

StopWaiting(what) ==
  /\ call # NewCall
  /\ faults < MaxFaults
  /\ faults' = faults + 1
  /\ past' = past \cup {what}
  /\ call' = NewCall
  /\ result' = NoResult
  /\ UNCHANGED <<engine, out, dev, keys, calls, polls>>

\* A timeout, or a dropped future: the reply is still to come.
Abandon == StopWaiting("abandoned") /\ UNCHANGED in

\* A packet is read short or not at all, and the reply is lost with it.
LoseReply == in # <<>> /\ StopWaiting("lost") /\ in' = Tail(in)

\* A new client, with an engine of its own, over a new channel, to the device as
\* it was left or restarted.
Reconnect ==
  /\ call = NewCall
  /\ faults < MaxFaults
  /\ faults' = faults + 1
  /\ engine' = NewEngine
  /\ result' = NoResult
  /\ out' = <<>> /\ in' = <<>>
  /\ dev' \in {dev, NewDevice}
  /\ past' = {}
  /\ UNCHANGED <<call, keys, calls, polls>>

-----------------------------------------------------------------------------
(* The device and its user.                                                *)

Asked == Head(out)

DeviceReads ==
  /\ out # <<>>
  /\ out' = Tail(out)
  /\ UNCHANGED <<engine, call, result, calls, faults>>

Understood == Asked.key = dev.key /\ Asked.n = dev.dec

DeviceDoes(op) ==
  /\ DeviceReads
  /\ dev.key # 0 /\ Understood
  /\ Asked.op = op
  /\ UNCHANGED keys

Answer(reply, next) ==
  /\ in' = Append(in, [reply EXCEPT !.key = dev.key, !.n = dev.enc])
  /\ dev' = [next EXCEPT !.enc = @ + 1, !.dec = @ + 1]

\* Every key exchange makes a new key and starts both streams again.
DeviceKeyExchange ==
  /\ DeviceReads
  /\ Asked.op = "ncry"
  /\ UNCHANGED polls
  /\ \/ /\ keys' = keys + 1
        /\ dev' = [dev EXCEPT !.key = keys', !.enc = 0, !.dec = 0]
        /\ in' = Append(in, [Reply("mypub") EXCEPT !.id = Asked.id, !.offset = keys'])
        /\ UNCHANGED past
     \/ /\ in' = Append(in, Reply("err"))
        /\ past' = past \cup {"declined"}
        /\ UNCHANGED <<dev, keys>>

DeviceGarbled ==
  /\ DeviceReads
  /\ Asked.op # "ncry" /\ ~Understood
  /\ Answer(Reply("err"), dev)
  /\ UNCHANGED <<keys, past, polls>>

\* An address may be refused.
DeviceQuery ==
  \E op \in Queries :
    /\ DeviceDoes(op)
    /\ UNCHANGED polls
    /\ \/ Answer([Reply(op) EXCEPT !.id = Asked.id], dev) /\ UNCHANGED past
       \/ /\ op = "ShowAddress"
          /\ Answer(Reply("refu"), dev)
          /\ past' = past \cup {"declined"}

\* The user is asked, unless the user is being asked something else.
AskUser(kind, valid) ==
  \/ /\ valid /\ dev.task.state # "pending"
     /\ Answer([Reply("okay") EXCEPT !.id = Asked.id],
               [dev EXCEPT !.task = [kind |-> kind, state |-> "pending", id |-> Asked.id,
                                     doc |-> Asked.doc]])
     /\ UNCHANGED past
  \/ /\ dev.task.state = "pending"
     /\ Answer(Reply("busy"), dev)
     /\ past' = past \cup {"busy"}
  \/ /\ Answer(Reply("err"), dev)
     /\ past' = IF valid THEN past \cup {"declined"} ELSE past

\* A file is only taken with the hash the request gives.
DeviceAsksUser ==
  /\ UNCHANGED polls
  /\ \/ DeviceDoes("smsg") /\ AskUser("message", TRUE)
     \/ DeviceDoes("back") /\ AskUser("backup", TRUE)
     \/ \E op \in {"stxn", "enrl"} :
          DeviceDoes(op) /\ AskUser(op, dev.buffer = Content(Sent(Asked.doc)))

DeviceUpload ==
  /\ DeviceDoes("upld")
  /\ Answer([Reply("int1") EXCEPT !.offset = Asked.offset],
            [dev EXCEPT !.buffer = SubSeq(@, 1, Least(Asked.offset, Len(@))) \o Asked.data])
  /\ UNCHANGED <<past, polls>>

DeviceHash ==
  /\ DeviceDoes("sha2")
  /\ Answer([Reply("biny") EXCEPT !.data = <<Hash(dev.buffer)>>], dev)
  /\ UNCHANGED <<past, polls>>

\* The outcome is told once.
DevicePolled ==
  /\ \E op \in Polls : DeviceDoes(op)
  /\ \/ /\ dev.task.state = "pending" /\ polls < MaxPolls
        /\ polls' = polls + 1
        /\ Answer(Reply("busy"), dev)
        /\ UNCHANGED past
     \/ /\ dev.task.state = "approved" /\ dev.task.kind = "message"
        /\ Answer([Reply("smrx") EXCEPT !.id = dev.task.id], [dev EXCEPT !.task = NoTask])
        /\ UNCHANGED <<past, polls>>
     \/ /\ dev.task.state = "approved" /\ dev.task.kind \in {"backup", "stxn"}
        /\ Answer([Reply("strx") EXCEPT
                     !.id = dev.task.id,
                     !.file = dev.slots[IF dev.task.kind = "stxn" THEN 1 ELSE 0]],
                  [dev EXCEPT !.task = NoTask])
        /\ UNCHANGED <<past, polls>>
     \/ /\ dev.task.state = "refused"
        /\ Answer(Reply("refu"), [dev EXCEPT !.task = NoTask])
        /\ past' = past \cup {"declined"}
        /\ UNCHANGED polls
     \/ /\ dev.task.state = "none"
        /\ Answer(Reply("err"), dev)
        /\ UNCHANGED <<past, polls>>

\* A chunk may be shorter than asked for.
DeviceDownload ==
  /\ DeviceDoes("dwld")
  /\ LET file == dev.slots[Asked.slot]
         end == Least(Asked.offset + Asked.length, Length[file.doc])
         chunks == {SubSeq(Content(file), Asked.offset + 1, e) : e \in Asked.offset + 1 .. end} IN
     \E reply \in IF file = NoFile \/ chunks = {} THEN {Reply("err")}
                 ELSE {[Reply("biny") EXCEPT !.data = chunk] : chunk \in chunks} :
       Answer(reply, dev)
  /\ UNCHANGED <<past, polls>>

DeviceStep ==
  \/ DeviceKeyExchange \/ DeviceGarbled \/ DeviceQuery \/ DeviceAsksUser \/ DeviceUpload
  \/ DeviceHash \/ DevicePolled \/ DeviceDownload

\* A wallet is enrolled, or a result made, when the user approves.
UserDecides ==
  /\ dev.task.state = "pending"
  /\ \E approved \in BOOLEAN :
       LET decided == [dev EXCEPT !.task.state = IF approved THEN "approved" ELSE "refused"] IN
       dev' = CASE dev.task.kind = "enrl"              -> [dev EXCEPT !.task = NoTask]
                [] approved /\ dev.task.kind = "stxn"   ->
                     [decided EXCEPT !.slots[1] = Signed(dev.task.doc)]
                [] approved /\ dev.task.kind = "backup" ->
                     [decided EXCEPT !.slots[0] = Sent(Backup)]
                [] OTHER                                -> decided
  /\ UNCHANGED <<engine, call, result, out, in, keys, past, calls, faults, polls>>

Next == Start \/ HostReceive \/ Abandon \/ LoseReply \/ Reconnect \/ DeviceStep \/ UserDecides

\* A call that waits is polled, and a connected device answers.  The user owes
\* nobody a decision.
Spec == Init /\ [][Next]_vars /\ WF_vars(HostReceive) /\ WF_vars(DeviceStep)

-----------------------------------------------------------------------------
(* Properties.                                                             *)

States ==
  {"New", "StartEncryption", "Query", "SignMessage", "Backup", "UploadingFile",
   "VerifyingFileUpload", "SigningPsbt", "EnrollingWallet", "PollingSignedPsbt",
   "PollingBackupFile", "DownloadingFile"}

Tasks ==
  [kind : {"none", "message", "backup", "stxn", "enrl"},
   state : {"none", "pending", "approved", "refused"}, id : Nat, doc : Docs \cup {Backup}]

\* The variables have their types; a call past the key exchange has an engine
\* that is ready, and a download is never longer than announced before its end.
TypeOK ==
  /\ engine \in [key : Nat, enc : Nat, dec : Nat]
  /\ call \in [st : States, cmd : Commands \cup {"none"}, doc : Docs \cup {Backup}, offset : Nat,
               file : Files, of : Nat, bytes : Seq(Units)]
  /\ call.st \notin {"New", "StartEncryption"} => engine.key # 0
  /\ call.st = "DownloadingFile" => Len(call.bytes) < Length[call.file.doc]
  /\ result \in [status : {"none", "ok", "err", "notready"}, cmd : Commands \cup {"none"},
                 doc : Docs \cup {Backup}, id : Nat, bytes : Seq(Units)]
  /\ out \in Seq(Requests) /\ in \in Seq(Replies)
  /\ dev \in [key : Nat, enc : Nat, dec : Nat, buffer : Seq(Units), slots : [Slots -> Files],
              task : Tasks]
  /\ past \subseteq {"lost", "abandoned", "busy", "declined"}
  /\ {keys, calls, faults, polls} \subseteq Nat

\* Host and device hold the same key, unless a key exchange was abandoned: its
\* reply is then read by the next one, for which the device has made another key.
KeysAgree == engine.key # 0 /\ "abandoned" \notin past => engine.key = dev.key

\* What a call returns was made for it, unless an earlier one was abandoned or
\* the device was busy with a request it had before.  And a signed PSBT is the one
\* that was given to be signed, all of it, also after abandoned calls while they
\* are fewer than five: the upload is acknowledged by offset and confirmed by hash,
\* so that a signing that reads late replies is ended by one.  Five are a whole
\* signing of one chunk, and no reply in it says for which request it is.
OwnAnswer ==
  result.status = "ok" /\ "busy" \notin past =>
    /\ "abandoned" \notin past => result.id = calls
    /\ result.cmd = "SignPsbt" /\ faults < 5 => result.bytes = Content(Signed(result.doc))

\* A call fails only for a reason: its connection has lost something, the device
\* was busy, or it or its user declined.  Chunks of every length add up.
FailsForAReason == result.status = "err" => past # {}

\* A call ends, or the user is being asked.
CallReturns == (call.st # "New") ~> (call.st = "New" \/ dev.task.state = "pending")

-----------------------------------------------------------------------------
(* What a comment of the code says, which the code does not do.            *)

\* "Sign a PSBT with the selected device" (bhwi-cli/src/bin/bhwi.rs:85): the
\* signed PSBT is the one that was given.
SignsWhatIsGiven ==
  result.status = "ok" /\ result.cmd = "SignPsbt" => result.bytes = Content(Signed(result.doc))
=============================================================================
