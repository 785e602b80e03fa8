------------------------ MODULE LedgerClient_proofs ------------------------
(* What TLAPS proves of LedgerClient, for every value of its constants.     *)
EXTENDS LedgerClient, SequenceFacts, TLAPS

-----------------------------------------------------------------------------
(* The inductive invariant: of a call, the command or the reply under way  *)
(* and the task of the device.                                             *)

\* The fields of a store, of a command, of a reply and of a task.
IsStore(store) ==
  store = [yielded |-> store.yielded, queue |-> store.queue, preimages |-> store.preimages,
           trees |-> store.trees]
IsApdu(apdu) ==
  apdu = [ins |-> apdu.ins, of |-> apdu.of, job |-> apdu.job, display |-> apdu.display,
          roots |-> apdu.roots, answer |-> apdu.answer]
IsReply(reply) ==
  reply = [of |-> reply.of, sw |-> reply.sw, what |-> reply.what, arg |-> reply.arg,
           command |-> reply.command]
IsTask(task) ==
  /\ task = [st |-> task.st, apdu |-> task.apdu, goals |-> task.goals, first |-> task.first,
             got |-> task.got, view |-> task.view, approved |-> task.approved,
             signs |-> task.signs]
  /\ IsApdu(task.apdu)
  /\ task.approved \in BOOLEAN

ByAddress(cmd) == cmd \in {"ByPath", "ByDescriptor"}

\* A call under way: only an address is asked for in steps.
IsCall(c) ==
  /\ c = [st |-> c.st, n |-> c.n, job |-> c.job, store |-> c.store, display |-> c.display,
          read |-> c.read]
  /\ IsStore(c.store)
  /\ c.job \in Jobs
  /\ c.st \in (IF ByAddress(c.job.cmd) THEN {"Fingerprint", "Xpub", "WalletAddress"}
               ELSE {"Running"})

\* The instruction whose reply a call waits for.
Needed(c) ==
  CASE c.st = "Fingerprint" -> "get_master_fingerprint"
    [] c.st = "Xpub" -> "get_extended_pubkey"
    [] c.st = "WalletAddress" -> "get_wallet_address"
    [] OTHER -> InstructionOf(c.job.cmd)

\* What a call has been yielded, and what the device has still to yield, is all the
\* device signs the PSBT of the call with.
Signing(c) == c.job.cmd = "SignTx"
Signed(c) == Psbt[c.job.arg].signs
Made(c) == {Signed(c)[i] : i \in DOMAIN Signed(c)}
Remaining(c, rest) ==
  Signing(c) =>
    /\ c.store.yielded \in Seq(Made(c)) /\ rest \in Seq(Made(c))
    /\ c.store.yielded \o rest = Signed(c)

\* The device is at the command of the call, and yields nothing before its user
\* has agreed.
AtCommand(c, task) ==
  /\ IsTask(task)
  /\ task.apdu.ins = Needed(c) /\ task.apdu.job = c.job
  /\ Needed(c) # "get_master_fingerprint"
  /\ ~task.approved /\ Signing(c) => c.store.yielded = <<>>

\* A new command, or the answer to what the device has asked: if that is that a
\* signature is taken, the call has it.
New(c, ins) ==
  /\ ins = Needed(c)
  /\ Signing(c) => c.store.yielded = <<>>
Further(c, ins, task) ==
  /\ ins = "continue"
  /\ task.st = "interrupted" /\ AtCommand(c, task)
  /\ task.approved =>
       /\ Signing(c) => task.signs \in Seq(Made(c)) /\ task.signs # <<>>
       /\ Remaining(c, Tail(task.signs))

\* What the device asks, and how it ends a command.
Interruption(c, task, reply) ==
  /\ task.st = "interrupted" /\ AtCommand(c, task)
  /\ reply.command.code \in ClientCommands
  /\ task.approved <=> reply.command.code = "Yield"
  /\ task.approved =>
       /\ reply.command.yield = Head(task.signs)
       /\ Signing(c) => task.signs # <<>>
       /\ Remaining(c, task.signs)
End(c, reply) ==
  /\ reply.command = NoClientCommand
  /\ Needed(c) = "get_master_fingerprint" => reply.what \in {"none", "fingerprint"}
  /\ reply.sw = "OK" =>
       /\ Needed(c) = "get_wallet_address" => reply.what = "address"
       /\ Signing(c) => c.store.yielded = Signed(c)
Good(c, task, reply) ==
  /\ IsReply(reply)
  /\ reply.of = c.n /\ reply.arg = c.job.arg
  /\ task.st # "user"
  /\ IF reply.sw = "Interrupted" THEN Interruption(c, task, reply) ELSE End(c, reply)

\* No call: no packet either.  The device may be at a command that was given up.
Between == ~Calling /\ out = <<>> /\ in = <<>> /\ dev.st # "user"

\* The call that was started last is under way.
InCall == Calling /\ IsCall(call) /\ call.n = calls

\* The device has a command of the call to read.
Requested ==
  /\ InCall /\ call.read = 0
  /\ in = <<>> /\ out # <<>> /\ out = <<out[1]>>
  /\ IsApdu(out[1]) /\ out[1].of = call.n /\ out[1].job = call.job
  /\ dev.st # "user"
  /\ New(call, out[1].ins) \/ Further(call, out[1].ins, dev)

\* It is the turn of the device's user.
AtUser ==
  /\ InCall /\ call.read = 0
  /\ in = <<>> /\ out = <<>>
  /\ dev.st = "user" /\ AtCommand(call, dev) /\ ~dev.approved
  /\ dev.apdu.of = call.n

\* The packets of one reply to the call, but for the first if that has been read.
Packet(reply, index) == [reply |-> reply, index |-> index]
Unread(reply) ==
  \/ call.read = 0 /\ Packets(reply) = 1 /\ in = <<Packet(reply, 0)>>
  \/ call.read = 0 /\ Packets(reply) = 2 /\ in = <<Packet(reply, 0), Packet(reply, 1)>>
  \/ call.read = 1 /\ Packets(reply) = 2 /\ in = <<Packet(reply, 1)>>
Answering ==
  /\ InCall /\ out = <<>>
  /\ in # <<>> /\ Good(call, dev, in[1].reply) /\ Unread(in[1].reply)

\* What a call that ended well has returned.
Owned(res, n) ==
  res.status = "ok" =>
    /\ res.of = n
    /\ res.what = Kind(res.job.cmd)
    /\ res.arg = res.job.arg
    /\ res.job.cmd = "SignTx" => res.sigs = Signs(res.job.arg)

Phases == Between \/ Requested \/ AtUser \/ Answering
InOrder == DroppedCalls = {} => Phases /\ Owned(result, calls)

-----------------------------------------------------------------------------
(* The store.                                                              *)

\* What has been yielded is not touched by what is added to a store.
LEMMA AddFacts ==
  ASSUME NEW store, IsStore(store), NEW element, NEW lists
  PROVE  /\ IsStore(AddKnownPreimage(store, element))
         /\ AddKnownPreimage(store, element).yielded = store.yielded
         /\ IsStore(AddKnownLists(store, lists))
         /\ AddKnownLists(store, lists).yielded = store.yielded
<1>1. PICK p : p = store.preimages \cup {element}  OBVIOUS
<1>2. AddKnownPreimage(store, element) = [store EXCEPT !.preimages = p]
  BY <1>1 DEF AddKnownPreimage
<1>3. PICK q : q = store.preimages \cup UNION {{list[i] : i \in DOMAIN list} : list \in lists}
  OBVIOUS
<1>4. PICK t : t = store.trees \cup lists  OBVIOUS
<1>5. AddKnownLists(store, lists) = [[store EXCEPT !.preimages = q] EXCEPT !.trees = t]
  BY <1>3, <1>4 DEF AddKnownLists, IsStore
<1>6. IsStore([store EXCEPT !.preimages = p]) /\ [store EXCEPT !.preimages = p].yielded = store.yielded
  BY DEF IsStore
<1>7. PICK s : s = [store EXCEPT !.preimages = q]  OBVIOUS
<1>8. IsStore(s) /\ s.yielded = store.yielded  BY <1>7 DEF IsStore
<1>9. IsStore([s EXCEPT !.trees = t]) /\ [s EXCEPT !.trees = t].yielded = s.yielded
  BY <1>8 DEF IsStore
<1>10. QED  BY <1>2, <1>5, <1>6, <1>7, <1>8, <1>9

LEMMA ListFacts ==
  ASSUME NEW store, IsStore(store), NEW elements
  PROVE  /\ IsStore(AddKnownList(store, elements))
         /\ AddKnownList(store, elements).yielded = store.yielded
BY AddFacts DEF AddKnownList

LEMMA NewFacts == IsStore(NewStore) /\ NewStore.yielded = <<>>
BY DEF IsStore, NewStore

LEMMA PolicyFacts ==
  ASSUME NEW w
  PROVE  IsStore(ToStore(w)) /\ ToStore(w).yielded = <<>>
<1>1. PICK a : a = AddKnownPreimage(NewStore, PolicyElement(w))  OBVIOUS
<1>2. IsStore(a) /\ a.yielded = <<>>  BY <1>1, NewFacts, AddFacts
<1>3. PICK b : b = AddKnownList(a, Wallet[w].keys)  OBVIOUS
<1>4. IsStore(b) /\ b.yielded = <<>>  BY <1>2, <1>3, ListFacts
<1>5. ToStore(w) = AddKnownPreimage(b, Wallet[w].template)  BY <1>1, <1>3 DEF ToStore
<1>6. QED  BY <1>4, <1>5, AddFacts

\* The store of a new call has been yielded nothing.
LEMMA StoreFacts ==
  ASSUME NEW job
  PROVE  IsStore(StoreOf(job)) /\ StoreOf(job).yielded = <<>>
<1>1. IsStore(PsbtStore(job.arg, job.ctx)) /\ PsbtStore(job.arg, job.ctx).yielded = <<>>
  <2>1. PICK lists : PsbtStore(job.arg, job.ctx) = AddKnownLists(ToStore(job.ctx), lists)
    BY DEF PsbtStore
  <2>2. QED  BY <2>1, PolicyFacts, AddFacts
<1>2. IsStore(AddKnownList(NewStore, Chunks[job.arg]))
        /\ AddKnownList(NewStore, Chunks[job.arg]).yielded = <<>>
  BY NewFacts, ListFacts
<1>3. QED  BY <1>1, <1>2, PolicyFacts, NewFacts DEF StoreOf

\* Only a yield adds to what has been yielded.
LEMMA ExecuteFacts ==
  ASSUME NEW store, IsStore(store), NEW command, command.code \in ClientCommands
  PROVE  LET asked == Execute(store, command)
         IN  /\ IsStore(asked.store)
             /\ command.code = "Yield" => asked.store.yielded = Append(store.yielded, command.yield)
             /\ command.code # "Yield" => asked.store.yielded = store.yielded
<1>1. ASSUME NEW s, NEW answer
      PROVE  Answered(s, answer).store = s /\ Refused(s).store = s
  BY DEF Answered, Refused
<1>2. ASSUME NEW q
      PROVE  /\ IsStore([store EXCEPT !.queue = q])
             /\ [store EXCEPT !.queue = q].yielded = store.yielded
  BY DEF IsStore
<1>3. ASSUME NEW asked,
             \/ asked = Refused(store)
             \/ \E q, answer : asked = Answered([store EXCEPT !.queue = q], answer)
      PROVE  IsStore(asked.store) /\ asked.store.yielded = store.yielded
  <2>1. CASE asked = Refused(store)
    BY <1>1, <2>1
  <2>2. ASSUME NEW q, NEW answer, asked = Answered([store EXCEPT !.queue = q], answer)
        PROVE  IsStore(asked.store) /\ asked.store.yielded = store.yielded
    <3>1. PICK s : s = [store EXCEPT !.queue = q]  OBVIOUS
    <3>2. asked.store = s  BY <1>1, <2>2, <3>1
    <3>3. QED  BY <1>2, <3>1, <3>2
  <2>3. QED  BY <1>3, <2>1, <2>2
<1>4. CASE command.code = "Yield"
  <2>1. PICK s : s = [store EXCEPT !.yielded = Append(store.yielded, command.yield)]  OBVIOUS
  <2>2. IsStore(s) /\ s.yielded = Append(store.yielded, command.yield)  BY <2>1 DEF IsStore
  <2>3. Execute(store, command) = Answered(s, NoAnswer)  BY <1>4, <2>1 DEF Execute
  <2>4. QED  BY <1>1, <1>4, <2>2, <2>3
<1>5. CASE command.code = "GetPreimage"
  <2>1. Execute(store, command) = GetPreimage(store, command.leaf)  BY <1>5 DEF Execute
  <2>2. \/ GetPreimage(store, command.leaf) = Refused(store)
        \/ \E q, answer : GetPreimage(store, command.leaf) = Answered([store EXCEPT !.queue = q], answer)
    BY DEF GetPreimage
  <2>3. QED  BY <1>3, <1>5, <2>1, <2>2
<1>6. CASE command.code = "GetMerkleLeafProof"
  <2>. DEFINE asked == GetMerkleLeafProof(store, command.root, Len(command.root), command.index)
  <2>1. Execute(store, command) = asked  BY <1>6 DEF Execute
  <2>2. asked = Refused(store) \/ \E q, answer : asked = Answered([store EXCEPT !.queue = q], answer)
    BY DEF GetMerkleLeafProof
  <2>. HIDE DEF asked
  <2>3. QED  BY <1>3, <1>6, <2>1, <2>2
<1>7. CASE command.code = "GetMerkleLeafIndex"
  <2>. DEFINE asked == GetMerkleLeafIndex(store, command.root, command.leaf)
  <2>1. Execute(store, command) = asked  BY <1>7 DEF Execute
  <2>2. asked = Refused(store) \/ \E answer : asked = Answered(store, answer)
    BY DEF GetMerkleLeafIndex
  <2>. HIDE DEF asked
  <2>3. QED  BY <1>1, <1>7, <2>1, <2>2
<1>8. CASE command.code = "GetMoreElements"
  <2>1. Execute(store, command) = GetMoreElements(store)  BY <1>8 DEF Execute
  <2>2. \/ GetMoreElements(store) = Refused(store)
        \/ \E q, answer : GetMoreElements(store) = Answered([store EXCEPT !.queue = q], answer)
    BY DEF GetMoreElements
  <2>3. QED  BY <1>3, <1>8, <2>1, <2>2
<1>9. QED  BY <1>4, <1>5, <1>6, <1>7, <1>8 DEF ClientCommands

-----------------------------------------------------------------------------
(* What the device does for a call.                                        *)

LEMMA ReplyFacts ==
  ASSUME NEW apdu, NEW sw, NEW what
  PROVE  /\ IsReply(Reply(apdu, sw, what))
         /\ Reply(apdu, sw, what).of = apdu.of /\ Reply(apdu, sw, what).arg = apdu.job.arg
         /\ Reply(apdu, sw, what).sw = sw /\ Reply(apdu, sw, what).what = what
         /\ Reply(apdu, sw, what).command = NoClientCommand
BY DEF IsReply, Reply

\* Before its user has agreed a device asks for data, then for a yield.
LEMMA CommandFacts ==
  ASSUME NEW task, task.approved \in BOOLEAN
  PROVE  /\ ClientCommand(task).code \in ClientCommands
         /\ task.approved <=> ClientCommand(task).code = "Yield"
         /\ task.approved => ClientCommand(task).yield = Head(task.signs)
<1>1. CASE task.approved
  <2>1. ClientCommand(task) = [NoClientCommand EXCEPT !.code = "Yield", !.yield = Head(task.signs)]
    BY <1>1 DEF ClientCommand
  <2>2. QED  BY <1>1, <2>1 DEF ClientCommands, NoClientCommand
<1>2. CASE ~task.approved
  <2>1. PICK code \in ClientCommands \ {"Yield"} :
          ClientCommand(task) =
            [NoClientCommand EXCEPT !.code = code, !.root = Head(task.goals).root,
                                    !.leaf = Head(task.goals).leaf, !.index = Head(task.goals).index]
    BY <1>2 DEF ClientCommand, ClientCommands
  <2>2. ClientCommand(task).code = code  BY <2>1 DEF NoClientCommand
  <2>3. QED  BY <1>2, <2>2
<1>3. QED  BY <1>1, <1>2

\* A task that goes on is at the same command.
LEMMA TaskFacts ==
  ASSUME NEW c, NEW task, NEW st, AtCommand(c, task), NEW d, d = [task EXCEPT !.st = st]
  PROVE  /\ AtCommand(c, d)
         /\ d.st = st /\ d.apdu = task.apdu
         /\ (d.approved <=> task.approved) /\ d.signs = task.signs
BY DEF AtCommand, IsTask

\* A reply comes in one packet or two.
LEMMA PutFacts ==
  ASSUME NEW reply, in = <<>>, Put(reply), call' = call, call.read = 0
  PROVE  in' # <<>> /\ in'[1].reply = reply /\ Unread(reply)'
<1>. DEFINE packets == [i \in 1..Packets(reply) |-> Packet(reply, i - 1)]
            S == {Packet(reply, i) : i \in Nat}
<1>1. Packets(reply) = 1 \/ Packets(reply) = 2  BY DEF Packets
<1>2. packets \in Seq(S)  BY <1>1
<1>3. in' = packets
  <2>1. in' = in \o packets  BY DEF Put, Packet
  <2>2. QED  BY <1>2, <2>1
<1>4. CASE Packets(reply) = 1
  <2>1. packets = <<Packet(reply, 0)>>  BY <1>4
  <2>2. QED  BY <1>3, <1>4, <2>1 DEF Unread, Packet
<1>5. CASE Packets(reply) = 2
  <2>1. packets = <<Packet(reply, 0), Packet(reply, 1)>>  BY <1>5
  <2>2. QED  BY <1>3, <1>5, <2>1 DEF Unread, Packet
<1>6. QED  BY <1>1, <1>4, <1>5

\* A good reply is an answer to the call.
LEMMA AnswerFacts ==
  ASSUME NEW c, c = call, NEW task, NEW reply,
         InCall, call.read = 0, in = <<>>, out' = <<>>, UNCHANGED <<call, calls>>,
         dev' = task, Put(reply), Good(c, task, reply)
  PROVE  Answering'
<1>1. in' # <<>> /\ in'[1].reply = reply /\ Unread(reply)'  BY PutFacts
<1>2. InCall'  BY DEF InCall, Calling
<1>3. Good(call', dev', in'[1].reply)  BY <1>1
<1>4. Unread(in[1].reply)'
  <2>1. PICK r : r = in'[1].reply  OBVIOUS
  <2>2. r = reply  BY <1>1, <2>1
  <2>3. QED  BY <1>1, <2>2 DEF Unread
<1>5. QED  BY <1>1, <1>2, <1>3, <1>4 DEF Answering

\* The last signature taken, all are.
LEMMA AllFacts ==
  ASSUME NEW c, Remaining(c, <<>>), Signing(c)
  PROVE  c.store.yielded = Signed(c)
BY DEF Remaining

\* What a task does next leaves the call with an answer or the user with a choice.
LEMMA GoOnFacts ==
  ASSUME NEW c, c = call, NEW task,
         InCall, call.read = 0, in = <<>>, out' = <<>>, UNCHANGED <<call, calls>>,
         AtCommand(c, task), task.apdu.of = c.n,
         task.approved => Remaining(c, task.signs),
         GoOn(task)
  PROVE  Answering' \/ AtUser'
<1>1. task.approved \in BOOLEAN /\ task.apdu.job = c.job  BY DEF AtCommand, IsTask
<1>2. ASSUME NEW reply, reply = [Reply(task.apdu, "Interrupted", "none") EXCEPT
                                   !.command = ClientCommand(task)],
             task.approved => task.signs # <<>>,
             dev' = [task EXCEPT !.st = "interrupted"], Put(reply)
      PROVE  Answering'
  <2>1. /\ IsReply(reply) /\ reply.of = c.n /\ reply.arg = c.job.arg /\ reply.sw = "Interrupted"
        /\ reply.command = ClientCommand(task)
    BY <1>1, <1>2, ReplyFacts DEF IsReply
  <2>2. PICK d : d = [task EXCEPT !.st = "interrupted"]  OBVIOUS
  <2>3. /\ AtCommand(c, d) /\ d.st = "interrupted" /\ (d.approved <=> task.approved)
        /\ d.signs = task.signs
    <3>1. AtCommand(c, d)  BY <2>2, TaskFacts
    <3>2. d.st = "interrupted" /\ d.signs = task.signs  BY <2>2 DEF AtCommand, IsTask
    <3>3. d.approved <=> task.approved  BY <2>2, TaskFacts
    <3>4. QED  BY <3>1, <3>2, <3>3
  <2>4. Interruption(c, d, reply)
    BY <1>1, <1>2, <2>1, <2>3, CommandFacts DEF Interruption
  <2>5. Good(c, d, reply)  BY <2>1, <2>3, <2>4 DEF Good
  <2>6. QED  BY <1>2, <2>2, <2>5, AnswerFacts
<1>3. ASSUME ~task.approved, dev' = [task EXCEPT !.st = "user"], UNCHANGED in
      PROVE  AtUser'
  <2>1. PICK d : d = [task EXCEPT !.st = "user"]  OBVIOUS
  <2>2. AtCommand(c, d) /\ d.st = "user" /\ ~d.approved /\ d.apdu = task.apdu
    <3>1. AtCommand(c, d)  BY <2>1, TaskFacts
    <3>2. d.st = "user" /\ d.apdu = task.apdu  BY <2>1 DEF AtCommand, IsTask
    <3>3. ~d.approved  BY <1>3, <2>1, TaskFacts
    <3>4. QED  BY <3>1, <3>2, <3>3
  <2>3. dev' = d /\ call' = c /\ calls' = calls /\ in' = <<>>  BY <1>3, <2>1
  <2>4. InCall'  BY DEF InCall, Calling
  <2>5. QED  BY <2>2, <2>3, <2>4 DEF AtUser
<1>4. ASSUME task.approved, task.signs = <<>>, dev' = Idle, Put(Outcome(task.apdu))
      PROVE  Answering'
  <2>1. PICK reply : reply = Outcome(task.apdu)  OBVIOUS
  <2>2. PICK what : /\ reply = Reply(task.apdu, "OK", what)
                    /\ task.apdu.ins = "get_wallet_address" => what = "address"
    BY <2>1 DEF Outcome
  <2>3. /\ IsReply(reply) /\ reply.of = c.n /\ reply.arg = c.job.arg /\ reply.sw = "OK"
        /\ reply.command = NoClientCommand /\ reply.what = what
    BY <1>1, <2>2, ReplyFacts
  <2>4. Signing(c) => c.store.yielded = Signed(c)  BY <1>4, AllFacts
  <2>5. Needed(c) # "get_master_fingerprint" /\ task.apdu.ins = Needed(c)  BY DEF AtCommand
  <2>6. End(c, reply)  BY <2>2, <2>3, <2>4, <2>5 DEF End
  <2>7. Good(c, Idle, reply)  BY <2>3, <2>6 DEF Good, Idle
  <2>8. QED  BY <1>4, <2>1, <2>7, AnswerFacts
<1>5. CASE task.approved
  BY <1>1, <1>2, <1>4, <1>5 DEF GoOn
<1>6. CASE ~task.approved
  BY <1>1, <1>2, <1>3, <1>6 DEF GoOn
<1>7. QED  BY <1>1, <1>5, <1>6

\* A task given up is answered.
LEMMA GiveUpFacts ==
  ASSUME NEW c, c = call, NEW apdu, NEW sw, sw \notin {"OK", "Interrupted"},
         InCall, call.read = 0, in = <<>>, out' = <<>>, UNCHANGED <<call, calls>>,
         apdu.of = c.n, apdu.job = c.job,
         GiveUp(apdu, sw)
  PROVE  Answering'
<1>1. PICK reply : reply = Reply(apdu, sw, "none")  OBVIOUS
<1>2. /\ IsReply(reply) /\ reply.of = c.n /\ reply.arg = c.job.arg /\ reply.sw = sw
      /\ reply.command = NoClientCommand /\ reply.what = "none"
  BY <1>1, ReplyFacts
<1>3. End(c, reply)  BY <1>2 DEF End
<1>4. Good(c, Idle, reply)  BY <1>2, <1>3 DEF Good, Idle
<1>5. dev' = Idle /\ Put(reply)  BY <1>1 DEF GiveUp
<1>6. QED  BY <1>4, <1>5, AnswerFacts

LEMMA NeededFacts ==
  ASSUME NEW c, IsCall(c)
  PROVE  Needed(c) # "continue" /\ (Signing(c) => Needed(c) = "sign_psbt")
BY DEF Needed, IsCall, Signing, InstructionOf, ByAddress

\* A new command of the call is answered, or is under way.
LEMMA BeginFacts ==
  ASSUME NEW c, c = call, NEW apdu,
         InCall, call.read = 0, in = <<>>, out' = <<>>, UNCHANGED <<call, calls>>,
         IsApdu(apdu), apdu.of = c.n, apdu.job = c.job, New(c, apdu.ins),
         Begin(apdu)
  PROVE  Answering' \/ AtUser'
<1>1. /\ apdu.ins = Needed(c) /\ apdu.ins # "continue"
      /\ Signing(c) => apdu.ins = "sign_psbt" /\ c.store.yielded = <<>>
  BY NeededFacts DEF New, InCall
<1>2. ASSUME NEW sw, NEW what, sw # "Interrupted",
             apdu.ins \notin {"get_wallet_address", "sign_psbt"},
             apdu.ins = "get_master_fingerprint" => what = "fingerprint",
             dev' = Idle, Put(Reply(apdu, sw, what))
      PROVE  Answering'
  <2>1. PICK reply : reply = Reply(apdu, sw, what)  OBVIOUS
  <2>2. /\ IsReply(reply) /\ reply.of = c.n /\ reply.arg = c.job.arg /\ reply.sw = sw
        /\ reply.command = NoClientCommand /\ reply.what = what
    BY <2>1, ReplyFacts
  <2>3. End(c, reply)  BY <1>1, <1>2, <2>2 DEF End
  <2>4. Good(c, Idle, reply)  BY <1>2, <2>2, <2>3 DEF Good, Idle
  <2>5. QED  BY <1>2, <2>1, <2>4, AnswerFacts
<1>3. ASSUME NEW task, NEW goals,
             task = [[Idle EXCEPT !.apdu = apdu] EXCEPT !.goals = goals] \/ task = [Idle EXCEPT !.apdu = apdu],
             apdu.ins # "get_master_fingerprint", GoOn(task)
      PROVE  Answering' \/ AtUser'
  <2>1. IsTask(task) /\ task.apdu = apdu /\ ~task.approved
    BY <1>3 DEF IsTask, Idle
  <2>2. AtCommand(c, task)  BY <1>1, <1>3, <2>1 DEF AtCommand
  <2>3. QED  BY <1>3, <2>1, <2>2, GoOnFacts
<1>4. PICK task : task = [Idle EXCEPT !.apdu = apdu]  OBVIOUS
<1>5. \/ /\ apdu.ins = "open_app"
         /\ \E sw \in {"OK", "ClaNotSupported"} : dev' = Idle /\ Put(Reply(apdu, sw, "none"))
      \/ /\ apdu.ins = "get_version"
         /\ dev' = Idle /\ Put(Reply(apdu, "OK", "version"))
      \/ /\ apdu.ins = "get_master_fingerprint"
         /\ dev' = Idle /\ Put(Reply(apdu, "OK", "fingerprint"))
      \/ /\ apdu.ins = "get_extended_pubkey"
         /\ dev' = Idle
         /\ Put(Reply(apdu, "NotSupported", "none")) \/ Put(Reply(apdu, "OK", "xpub"))
      \/ apdu.ins = "get_extended_pubkey" /\ GoOn(task)
      \/ /\ apdu.ins \notin {"open_app", "get_version", "get_master_fingerprint"}
         /\ GoOn([task EXCEPT !.goals = GoalsOf(apdu)])
  BY <1>1, <1>4 DEF Begin
<1>6. CASE apdu.ins \in {"open_app", "get_version", "get_master_fingerprint"}
  BY <1>2, <1>5, <1>6
<1>7. CASE apdu.ins = "get_extended_pubkey"
  BY <1>2, <1>3, <1>4, <1>5, <1>7
<1>8. CASE apdu.ins \notin {"open_app", "get_version", "get_master_fingerprint", "get_extended_pubkey"}
  <2>1. GoOn([task EXCEPT !.goals = GoalsOf(apdu)])  BY <1>5, <1>8
  <2>2. QED  BY <1>3, <1>4, <1>8, <2>1
<1>9. QED  BY <1>6, <1>7, <1>8

\* So is a command whose question has been answered.
LEMMA ContinueFacts ==
  ASSUME NEW c, c = call, NEW d, d = dev, NEW apdu,
         InCall, call.read = 0, in = <<>>, out' = <<>>, UNCHANGED <<call, calls>>,
         IsApdu(apdu), apdu.of = c.n, apdu.job = c.job, Further(c, apdu.ins, d),
         LET task == [d EXCEPT !.apdu.of = apdu.of]
         IN  IF d.approved THEN TakeSignature(task, apdu.answer) ELSE Consume(task, apdu.answer)
  PROVE  Answering' \/ AtUser'
<1>1. PICK task : task = [d EXCEPT !.apdu.of = apdu.of]  OBVIOUS
<1>2. AtCommand(c, d) /\ IsTask(d) /\ IsApdu(d.apdu)  BY DEF Further, AtCommand, IsTask
<1>3. /\ IsTask(task) /\ task.apdu.of = c.n /\ task.apdu.ins = d.apdu.ins
      /\ task.apdu.job = d.apdu.job
  BY <1>1, <1>2 DEF IsTask, IsApdu
<1>4. (task.approved <=> d.approved) /\ task.signs = d.signs  BY <1>1, <1>2 DEF IsTask
<1>5. AtCommand(c, task)  BY <1>2, <1>3, <1>4 DEF AtCommand
<1>6. ASSUME NEW sw, sw \notin {"OK", "Interrupted"}, GiveUp(task.apdu, sw)
      PROVE  Answering'
  <2>1. task.apdu.job = c.job  BY <1>5 DEF AtCommand
  <2>2. QED  BY <1>3, <1>6, <2>1, GiveUpFacts
<1>7. ASSUME d.approved, TakeSignature(task, apdu.answer)
      PROVE  Answering' \/ AtUser'
  <2>1. CASE GiveUp(task.apdu, "IncorrectData")  BY <1>6, <2>1
  <2>2. ASSUME GoOn([task EXCEPT !.signs = Tail(task.signs)])
        PROVE  Answering' \/ AtUser'
    <3>1. PICK rest : rest = Tail(task.signs)  OBVIOUS
    <3>2. PICK next : next = [task EXCEPT !.signs = rest]  OBVIOUS
    <3>3. /\ IsTask(next) /\ next.apdu = task.apdu /\ next.signs = rest
          /\ next.approved
      BY <1>3, <1>4, <1>7, <3>2 DEF IsTask
    <3>4. AtCommand(c, next)  BY <1>5, <3>3 DEF AtCommand
    <3>5. Remaining(c, rest)  BY <1>4, <1>7, <3>1 DEF Further
    <3>6. QED  BY <1>3, <2>2, <3>1, <3>2, <3>3, <3>4, <3>5, GoOnFacts, ZenonT(60)
  <2>3. QED  BY <1>7, <2>1, <2>2 DEF TakeSignature
<1>8. ASSUME ~d.approved, Consume(task, apdu.answer)
      PROVE  Answering' \/ AtUser'
  <2>1. ASSUME NEW next, NEW goals, NEW first, NEW got, NEW view,
               next = [task EXCEPT !.goals = goals, !.first = first, !.got = got, !.view = view],
               GoOn(next)
        PROVE  Answering' \/ AtUser'
    <3>1. IsTask(next) /\ next.apdu = task.apdu /\ ~next.approved
      BY <1>3, <1>4, <1>8, <2>1, ZenonT(60) DEF IsTask
    <3>2. AtCommand(c, next)  BY <1>2, <1>5, <1>8, <3>1, SMTT(60) DEF AtCommand
    <3>3. QED  BY <1>3, <2>1, <3>1, <3>2, GoOnFacts, ZenonT(60)
  <2>2. \/ GiveUp(task.apdu, "IncorrectData")
        \/ \E first, got : GoOn([task EXCEPT !.first = first, !.got = got])
        \/ \E goals, view : GoOn([task EXCEPT !.goals = goals, !.first = NoAnswer, !.got = <<>>,
                                              !.view = view])
    BY <1>8, ZenonT(60) DEF Consume
  <2>3. ASSUME NEW first, NEW got, GoOn([task EXCEPT !.first = first, !.got = got])
        PROVE  Answering' \/ AtUser'
    <3>1. [task EXCEPT !.first = first, !.got = got]
            = [task EXCEPT !.goals = task.goals, !.first = first, !.got = got, !.view = task.view]
      BY <1>3, ZenonT(60) DEF IsTask
    <3>2. QED  BY <2>1, <2>3, <3>1
  <2>4. QED  BY <1>6, <2>1, <2>2, <2>3
<1>9. QED  BY <1>1, <1>7, <1>8

\* The device reads a command of the call.
LEMMA DeviceReadsFacts ==
  ASSUME Phases, DeviceReads
  PROVE  Phases'
<1>1. PICK c : c = call  OBVIOUS
<1>2. PICK d : d = dev  OBVIOUS
<1>3. PICK apdu : apdu = out[1]  OBVIOUS
<1>4. Requested  BY DEF Phases, DeviceReads, Between, AtUser, Answering
<1>5. out = <<apdu>>  BY <1>3, <1>4 DEF Requested
<1>6. Head(out) = apdu /\ Tail(out) = <<>>  BY <1>5
<1>7. /\ InCall /\ call.read = 0 /\ in = <<>> /\ out' = <<>> /\ UNCHANGED <<call, calls>>
      /\ IsApdu(apdu) /\ apdu.of = c.n /\ apdu.job = c.job
      /\ New(c, apdu.ins) \/ Further(c, apdu.ins, d)
  BY <1>1, <1>2, <1>3, <1>4, <1>6 DEF Requested, DeviceReads
<1>8. IsCall(c) /\ Needed(c) # "continue"  BY <1>1, <1>7, NeededFacts DEF InCall
<1>9. CASE d.st = "idle"
  <2>1. Begin(apdu)  BY <1>2, <1>6, <1>9 DEF DeviceReads
  <2>2. New(c, apdu.ins)  BY <1>7, <1>9 DEF Further
  <2>3. QED  BY <1>1, <1>7, <2>1, <2>2, BeginFacts DEF Phases
<1>10. CASE d.st = "interrupted" /\ apdu.ins = "continue"
  <2>1. LET task == [d EXCEPT !.apdu.of = apdu.of]
        IN  IF d.approved THEN TakeSignature(task, apdu.answer) ELSE Consume(task, apdu.answer)
    BY <1>2, <1>6, <1>10 DEF DeviceReads
  <2>2. Further(c, apdu.ins, d)  BY <1>7, <1>8, <1>10 DEF New
  <2>3. QED  BY <1>1, <1>2, <1>7, <2>1, <2>2, ContinueFacts, SMTT(60) DEF Phases
<1>11. CASE ~(d.st = "idle") /\ ~(d.st = "interrupted" /\ apdu.ins = "continue")
  <2>1. GiveUp(apdu, "BadState")  BY <1>2, <1>6, <1>11, SMTT(60) DEF DeviceReads
  <2>2. QED  BY <1>1, <1>7, <2>1, GiveUpFacts, SMTT(60) DEF Phases
<1>12. QED  BY <1>9, <1>10, <1>11

\* The user agrees, and the device has all signatures to yield, or declines.
LEMMA UserDecidesFacts ==
  ASSUME Phases, UserDecides
  PROVE  Phases'
<1>1. PICK c : c = call  OBVIOUS
<1>2. PICK d : d = dev  OBVIOUS
<1>3. AtUser  BY DEF Phases, UserDecides, Between, Requested, Answering, Good
<1>4. /\ InCall /\ call.read = 0 /\ in = <<>> /\ out' = <<>> /\ UNCHANGED <<call, calls>>
      /\ AtCommand(c, d) /\ ~d.approved /\ d.apdu.of = c.n
  BY <1>1, <1>2, <1>3 DEF AtUser, UserDecides
<1>5. IsTask(d) /\ d.apdu.ins = Needed(c) /\ d.apdu.job = c.job  BY <1>4 DEF AtCommand
<1>6. CASE GiveUp(d.apdu, "Deny")
  BY <1>1, <1>4, <1>5, <1>6, GiveUpFacts DEF Phases
<1>7. ASSUME NEW signs,
             signs = IF d.apdu.ins = "sign_psbt" THEN Psbt[d.apdu.job.arg].signs ELSE <<>>,
             GoOn([d EXCEPT !.approved = TRUE, !.signs = signs])
      PROVE  Answering' \/ AtUser'
  <2>1. PICK task : task = [d EXCEPT !.approved = TRUE, !.signs = signs]  OBVIOUS
  <2>2. IsTask(task) /\ task.apdu = d.apdu /\ task.approved /\ task.signs = signs
    BY <1>5, <2>1 DEF IsTask
  <2>3. AtCommand(c, task)  BY <1>4, <2>2 DEF AtCommand
  <2>4. ASSUME Signing(c)
        PROVE  Remaining(c, signs)
    <3>1. signs = Signed(c)  BY <1>1, <1>4, <1>5, <1>7, <2>4, NeededFacts DEF Signed, InCall
    <3>2. Signed(c) \in Seq(Made(c))
      BY <1>1, <1>4, <2>4, PsbtAssumption DEF InCall, IsCall, Signing, Signed, Made
    <3>3. c.store.yielded = <<>>  BY <1>4, <2>4 DEF AtCommand
    <3>4. <<>> \in Seq(Made(c)) /\ <<>> \o Signed(c) = Signed(c)  BY <3>2
    <3>5. QED  BY <3>1, <3>2, <3>3, <3>4 DEF Remaining
  <2>5. Remaining(c, signs)  BY <2>4 DEF Remaining
  <2>6. QED  BY <1>1, <1>4, <1>7, <2>1, <2>2, <2>3, <2>5, GoOnFacts
<1>8. PICK signs : signs = IF d.apdu.ins = "sign_psbt" THEN Psbt[d.apdu.job.arg].signs ELSE <<>>
  OBVIOUS
<1>9. GiveUp(d.apdu, "Deny") \/ GoOn([d EXCEPT !.approved = TRUE, !.signs = signs])
  BY <1>2, <1>8 DEF UserDecides
<1>10. QED  BY <1>6, <1>7, <1>8, <1>9 DEF Phases

-----------------------------------------------------------------------------
(* What the host does.                                                     *)

\* The step a call is at, and the packets it has read, are no part of these.
LEMMA SameFacts ==
  ASSUME NEW c, NEW d, d.job = c.job, d.store = c.store
  PROVE  /\ Signing(d) <=> Signing(c)
         /\ Signed(d) = Signed(c) /\ Made(d) = Made(c)
         /\ \A rest : Remaining(d, rest) <=> Remaining(c, rest)
BY DEF Signing, Signed, Made, Remaining

LEMMA ReadFacts ==
  ASSUME NEW c, IsCall(c), NEW read, NEW d, d = [c EXCEPT !.read = read]
  PROVE  /\ IsCall(d) /\ d.n = c.n /\ d.job = c.job /\ d.read = read /\ d.st # "none"
         /\ \A ins : New(c, ins) => New(d, ins)
         /\ \A ins, task : Further(c, ins, task) => Further(d, ins, task)
         /\ \A task, reply : Good(c, task, reply) => Good(d, task, reply)
<1>1. /\ IsCall(d) /\ d.st = c.st /\ d.n = c.n /\ d.job = c.job /\ d.store = c.store
      /\ d.read = read /\ d.st # "none"
  BY DEF IsCall
<1>2. Needed(d) = Needed(c)  BY <1>1 DEF Needed
<1>3. /\ Signing(d) <=> Signing(c)
      /\ Signed(d) = Signed(c) /\ Made(d) = Made(c)
      /\ \A rest : Remaining(d, rest) <=> Remaining(c, rest)
  BY <1>1, SameFacts
<1>4. \A ins : New(c, ins) => New(d, ins)  BY <1>1, <1>2, <1>3 DEF New
<1>5. \A task : AtCommand(c, task) => AtCommand(d, task)  BY <1>1, <1>2, <1>3 DEF AtCommand
<1>6. \A ins, task : Further(c, ins, task) => Further(d, ins, task)  BY <1>3, <1>5 DEF Further
<1>7. \A task, reply : Interruption(c, task, reply) => Interruption(d, task, reply)
  BY <1>3, <1>5 DEF Interruption
<1>8. \A reply : End(c, reply) => End(d, reply)  BY <1>1, <1>2, <1>3 DEF End
<1>9. \A task, reply : Good(c, task, reply) => Good(d, task, reply)  BY <1>1, <1>7, <1>8 DEF Good
<1>10. QED  BY <1>1, <1>4, <1>6, <1>9

\* A command of the call is sent, or the call fails.
LEMMA TransmitFacts ==
  ASSUME NEW c, NEW apdu,
         IsCall(c), c.n = calls', out = <<>>, in' = <<>>, dev' = dev, dev.st # "user",
         IsApdu(apdu), apdu.job = c.job, New(c, apdu.ins) \/ Further(c, apdu.ins, dev),
         Transmit(apdu, c)
  PROVE  Phases' /\ Owned(result', calls')
<1>1. ASSUME out' = Append(out, [apdu EXCEPT !.of = c.n]), call' = [c EXCEPT !.read = 0],
             result' = NoResult
      PROVE  Requested' /\ result'.status # "ok"
  <2>1. PICK d : d = [c EXCEPT !.read = 0]  OBVIOUS
  <2>2. PICK sent : sent = [apdu EXCEPT !.of = c.n]  OBVIOUS
  <2>3. PICK task : task = dev  OBVIOUS
  <2>4. IsApdu(sent) /\ sent.of = c.n /\ sent.ins = apdu.ins /\ sent.job = apdu.job
    BY <2>2 DEF IsApdu
  <2>5. out' = <<sent>> /\ out'[1] = sent /\ out' # <<>>  BY <1>1, <2>2
  <2>6. /\ IsCall(d) /\ d.n = c.n /\ d.job = c.job /\ d.read = 0 /\ d.st # "none"
        /\ New(d, sent.ins) \/ Further(d, sent.ins, task)
    <3>1. PICK ins : ins = apdu.ins  OBVIOUS
    <3>2. New(c, ins) \/ Further(c, ins, task)  BY <2>3, <3>1
    <3>3. IsCall(d) /\ d.n = c.n /\ d.job = c.job /\ d.read = 0 /\ d.st # "none"
      BY <2>1 DEF IsCall
    <3>4. New(c, ins) => New(d, ins)  BY <2>1, ReadFacts
    <3>5. Further(c, ins, task) => Further(d, ins, task)  BY <2>1, ReadFacts
    <3>6. QED  BY <2>4, <3>1, <3>2, <3>3, <3>4, <3>5
  <2>7. call' = d /\ dev' = task  BY <1>1, <2>1, <2>3
  <2>8. result'.status # "ok"  BY <1>1 DEF NoResult
  <2>9. InCall'  BY <2>6, <2>7 DEF InCall, Calling
  <2>10. QED  BY <2>3, <2>4, <2>5, <2>6, <2>7, <2>8, <2>9 DEF Requested
<1>2. ASSUME call' = NoCall, UNCHANGED out,
             result' = [NoResult EXCEPT !.status = "err", !.why = "transport", !.job = c.job]
      PROVE  Between' /\ result'.status # "ok"
  BY <1>2 DEF Between, Calling, NoCall, NoResult
<1>3. QED  BY <1>1, <1>2 DEF Transmit, Phases, Owned

\* A call ends, well or not.
LEMMA ReturnFacts ==
  ASSUME NEW res, out = <<>>, in' = <<>>, UNCHANGED <<dev, calls>>, dev.st # "user",
         Return(res), Owned([res EXCEPT !.job = call.job], calls)
  PROVE  Phases' /\ Owned(result', calls')
<1>1. call' = NoCall /\ result' = [res EXCEPT !.job = call.job] /\ out' = <<>>  BY DEF Return
<1>2. Between'  BY <1>1 DEF Between, Calling, NoCall
<1>3. PICK end : end = [res EXCEPT !.job = call.job]  OBVIOUS
<1>4. result' = end /\ Owned(end, calls) /\ calls' = calls  BY <1>1, <1>3
<1>5. QED  BY <1>2, <1>4 DEF Phases

LEMMA FailFacts ==
  ASSUME NEW why, out = <<>>, in' = <<>>, UNCHANGED <<dev, calls>>, dev.st # "user",
         Fail(why) \/ Panic
  PROVE  Phases' /\ Owned(result', calls')
<1>1. PICK res : Return(res) /\ res \in {[NoResult EXCEPT !.status = "err", !.why = why],
                                         [NoResult EXCEPT !.status = "panic", !.why = "index"]}
  BY DEF Fail, Panic
<1>2. [res EXCEPT !.job = call.job].status # "ok"  BY <1>1, ZenonT(60) DEF NoResult
<1>3. Owned([res EXCEPT !.job = call.job], calls)  BY <1>2 DEF Owned
<1>4. QED  BY <1>1, <1>3, ReturnFacts

\* It is the turn of the host: a reply to the call has been read to its end.
Turn(c, reply) ==
  /\ c = call /\ InCall
  /\ out = <<>> /\ in' = <<>> /\ UNCHANGED <<dev, calls>>
  /\ Good(c, dev, reply)

\* What is done is what the reply says, if it is of the kind asked for.
LEMMA DoneFacts ==
  ASSUME NEW c, NEW reply, Turn(c, reply), c.job.cmd # "SignTx",
         \/ Done(reply) /\ reply.what = Kind(c.job.cmd)
         \/ TaskDone(reply)
  PROVE  Phases' /\ Owned(result', calls')
<1>1. /\ reply.of = calls /\ reply.arg = c.job.arg /\ dev.st # "user" /\ c = call
      /\ out = <<>> /\ in' = <<>> /\ UNCHANGED <<dev, calls>>
  BY DEF Turn, Good, InCall
<1>2. ASSUME NEW what, NEW res, what = Kind(c.job.cmd), Return(res),
             res = [NoResult EXCEPT !.status = "ok", !.of = reply.of, !.what = what,
                                    !.arg = reply.arg]
      PROVE  Phases' /\ Owned(result', calls')
  <2>1. PICK end : end = [res EXCEPT !.job = call.job]  OBVIOUS
  <2>2. end.job = c.job /\ end.of = calls /\ end.what = what /\ end.arg = c.job.arg
    BY <1>1, <1>2, <2>1 DEF NoResult
  <2>3. Owned(end, calls)  BY <1>2, <2>2 DEF Owned
  <2>4. QED  BY <1>1, <1>2, <2>1, <2>3, ReturnFacts
<1>3. ASSUME NEW why, Fail(why)
      PROVE  Phases' /\ Owned(result', calls')
  BY <1>1, <1>3, FailFacts
<1>4. CASE Done(reply) /\ reply.what = Kind(c.job.cmd)
  BY <1>2, <1>4, ZenonT(60) DEF Done
<1>5. CASE TaskDone(reply)
  BY <1>1, <1>2, <1>3, <1>5 DEF TaskDone, Kind
<1>6. QED  BY <1>4, <1>5

\* A signature taken moves from what remains to what has been yielded.
LEMMA YieldFacts ==
  ASSUME NEW S, NEW p \in Seq(S), NEW q \in Seq(S), q # <<>>
  PROVE  /\ Append(p, Head(q)) \in Seq(S) /\ Tail(q) \in Seq(S)
         /\ Append(p, Head(q)) \o Tail(q) = p \o q
<1>1. Head(q) \in S /\ Tail(q) \in Seq(S)  BY TailFacts
<1>2. <<Head(q)>> \in Seq(S) /\ Append(p, Head(q)) = p \o <<Head(q)>>  BY <1>1
<1>3. q = <<Head(q)>> \o Tail(q)  BY <1>1
<1>4. p \o (<<Head(q)>> \o Tail(q)) = (p \o <<Head(q)>>) \o Tail(q)
  BY <1>1, <1>2, JoinFacts, SMTT(60)
<1>5. Append(p, Head(q)) \in Seq(S)  BY <1>1
<1>6. QED  BY <1>1, <1>2, <1>3, <1>4, <1>5, Zenon

\* The device is answered, or the call fails.
LEMMA OnInterruptionFacts ==
  ASSUME NEW c, NEW reply, Turn(c, reply), reply.sw = "Interrupted", OnInterruption(reply)
  PROVE  Phases' /\ Owned(result', calls')
<1>1. PICK task : task = dev  OBVIOUS
<1>2. /\ dev.st # "user" /\ c = call /\ IsCall(c) /\ c.n = calls
      /\ out = <<>> /\ in' = <<>> /\ UNCHANGED <<dev, calls>> /\ Interruption(c, task, reply)
  BY <1>1 DEF Turn, Good, InCall
<1>3. PICK asked : asked = Execute(c.store, reply.command)  OBVIOUS
<1>4. PICK store : store = asked.store  OBVIOUS
<1>5. PICK next : next = [c EXCEPT !.store = store]  OBVIOUS
<1>6. /\ IsStore(store)
      /\ reply.command.code = "Yield" =>
           store.yielded = Append(c.store.yielded, reply.command.yield)
      /\ reply.command.code # "Yield" => store.yielded = c.store.yielded
  BY <1>2, <1>3, <1>4, ExecuteFacts, SMTT(60) DEF IsCall, Interruption
<1>7. /\ IsCall(next) /\ next.n = c.n /\ next.job = c.job /\ next.st = c.st /\ next.store = store
  BY <1>2, <1>5, <1>6 DEF IsCall
<1>8. Needed(next) = Needed(c) /\ Signed(next) = Signed(c) /\ Made(next) = Made(c)
        /\ (Signing(next) <=> Signing(c))
  BY <1>7 DEF Needed, Signed, Made, Signing
<1>9. Further(next, "continue", task)
  <2>1. AtCommand(c, task) /\ task.st = "interrupted"  BY <1>2 DEF Interruption
  <2>2. AtCommand(next, task)
    <3>1. ~task.approved => store.yielded = c.store.yielded
      BY <1>2, <1>6 DEF Interruption
    <3>2. QED  BY <1>7, <1>8, <2>1, <3>1 DEF AtCommand
  <2>3. ASSUME task.approved, Signing(c)
        PROVE  /\ task.signs \in Seq(Made(c)) /\ task.signs # <<>>
               /\ store.yielded \in Seq(Made(c)) /\ Tail(task.signs) \in Seq(Made(c))
               /\ store.yielded \o Tail(task.signs) = Signed(c)
    <3>1. store.yielded = Append(c.store.yielded, Head(task.signs))
      BY <1>2, <1>6, <2>3 DEF Interruption
    <3>2. /\ task.signs # <<>> /\ task.signs \in Seq(Made(c)) /\ c.store.yielded \in Seq(Made(c))
          /\ c.store.yielded \o task.signs = Signed(c)
      BY <1>2, <2>3 DEF Interruption, Remaining
    <3>3. PICK S : S = Made(c)  OBVIOUS
    <3>4. PICK p : p = c.store.yielded  OBVIOUS
    <3>5. PICK q : q = task.signs  OBVIOUS
    <3>6. p \in Seq(S) /\ q \in Seq(S) /\ q # <<>>  BY <3>2, <3>3, <3>4, <3>5
    <3>7. /\ Append(p, Head(q)) \in Seq(S) /\ Tail(q) \in Seq(S)
          /\ Append(p, Head(q)) \o Tail(q) = p \o q
      BY <3>6, YieldFacts
    <3>8. QED  BY <3>1, <3>2, <3>3, <3>4, <3>5, <3>7
  <2>4. task.approved => Remaining(next, Tail(task.signs))
    BY <1>7, <1>8, <2>3 DEF Remaining
  <2>5. QED  BY <1>8, <2>1, <2>2, <2>3, <2>4 DEF Further
<1>10. ASSUME Transmit(Continue(c.job, asked.answer), next)
       PROVE  Phases' /\ Owned(result', calls')
  <2>1. PICK apdu : apdu = Continue(c.job, asked.answer)  OBVIOUS
  <2>2. IsApdu(apdu) /\ apdu.job = c.job /\ apdu.ins = "continue"
    BY <2>1 DEF Continue, Apdu, IsApdu
  <2>3. QED  BY <1>1, <1>2, <1>7, <1>9, <1>10, <2>1, <2>2, TransmitFacts
<1>11. CASE Fail("store")
  BY <1>2, <1>11, FailFacts
<1>12. QED  BY <1>2, <1>3, <1>4, <1>5, <1>10, <1>11 DEF OnInterruption

\* An address is asked for: nothing is signed.
LEMMA GetWalletAddressFacts ==
  ASSUME NEW c, NEW reply, Turn(c, reply), ByAddress(c.job.cmd), NEW w, GetWalletAddress(w)
  PROVE  Phases' /\ Owned(result', calls')
<1>1. /\ dev.st # "user" /\ c = call /\ IsCall(c) /\ c.n = calls
      /\ out = <<>> /\ in' = <<>> /\ UNCHANGED <<dev, calls>>
  BY DEF Turn, Good, InCall
<1>2. PICK store : store = ToStore(w)  OBVIOUS
<1>3. PICK next : next = [c EXCEPT !.st = "WalletAddress", !.store = store]  OBVIOUS
<1>4. IsStore(store)  BY <1>2, PolicyFacts
<1>5. IsCall(next) /\ next.n = c.n /\ next.job = c.job /\ next.st = "WalletAddress"
  BY <1>1, <1>3, <1>4 DEF IsCall
<1>6. PICK apdu : apdu = [Apdu("get_wallet_address", call.job) EXCEPT !.roots = <<<<PolicyElement(w)>>>>]
  OBVIOUS
<1>7. IsApdu(apdu) /\ apdu.job = c.job /\ apdu.ins = "get_wallet_address"
  BY <1>1, <1>6 DEF Apdu, IsApdu
<1>8. New(next, apdu.ins)  BY <1>5, <1>7 DEF New, Needed, Signing, ByAddress
<1>9. Transmit(apdu, next)  BY <1>1, <1>2, <1>3, <1>6 DEF GetWalletAddress
<1>10. QED  BY <1>1, <1>5, <1>7, <1>8, <1>9, TransmitFacts

LEMMA OnFingerprintFacts ==
  ASSUME NEW c, NEW reply, Turn(c, reply), ByAddress(c.job.cmd), OnFingerprint(reply)
  PROVE  Phases' /\ Owned(result', calls')
<1>1. /\ dev.st # "user" /\ c = call /\ IsCall(c) /\ c.n = calls
      /\ out = <<>> /\ in' = <<>> /\ UNCHANGED <<dev, calls>>
  BY DEF Turn, Good, InCall
<1>2. ASSUME NEW why, Fail(why)
      PROVE  Phases' /\ Owned(result', calls')
  BY <1>1, <1>2, FailFacts
<1>3. ASSUME Transmit(Apdu("get_extended_pubkey", call.job), [call EXCEPT !.st = "Xpub"])
      PROVE  Phases' /\ Owned(result', calls')
  <2>1. PICK next : next = [c EXCEPT !.st = "Xpub"]  OBVIOUS
  <2>2. PICK apdu : apdu = Apdu("get_extended_pubkey", call.job)  OBVIOUS
  <2>3. IsCall(next) /\ next.n = c.n /\ next.job = c.job /\ next.st = "Xpub"
    BY <1>1, <2>1 DEF IsCall
  <2>4. IsApdu(apdu) /\ apdu.job = c.job /\ apdu.ins = "get_extended_pubkey"
    BY <1>1, <2>2 DEF Apdu, IsApdu
  <2>5. New(next, apdu.ins)  BY <2>3, <2>4 DEF New, Needed, Signing, ByAddress
  <2>6. Transmit(apdu, next)  BY <1>1, <1>3, <2>1, <2>2
  <2>7. QED  BY <1>1, <2>3, <2>4, <2>5, <2>6, TransmitFacts
<1>4. ASSUME NEW w, GetWalletAddress(w)
      PROVE  Phases' /\ Owned(result', calls')
  BY <1>4, GetWalletAddressFacts
<1>5. \/ \E why : Fail(why)
      \/ Transmit(Apdu("get_extended_pubkey", call.job), [call EXCEPT !.st = "Xpub"])
      \/ \E w : GetWalletAddress(w)
  <2>1. CASE ~LongEnough(reply)
    BY <2>1 DEF OnFingerprint
  <2>2. CASE LongEnough(reply)
    BY <2>2 DEF OnFingerprint
  <2>3. QED  BY <2>1, <2>2
<1>6. QED  BY <1>2, <1>3, <1>4, <1>5

LEMMA OnXpubFacts ==
  ASSUME NEW c, NEW reply, Turn(c, reply), ByAddress(c.job.cmd), OnXpub(reply)
  PROVE  Phases' /\ Owned(result', calls')
<1>1. /\ dev.st # "user" /\ out = <<>> /\ in' = <<>> /\ UNCHANGED <<dev, calls>>
  BY DEF Turn, Good
<1>2. ASSUME NEW why, Fail(why)
      PROVE  Phases' /\ Owned(result', calls')
  BY <1>1, <1>2, FailFacts
<1>3. ASSUME NEW w, GetWalletAddress(w)
      PROVE  Phases' /\ Owned(result', calls')
  BY <1>3, GetWalletAddressFacts
<1>4. QED  BY <1>2, <1>3 DEF OnXpub

\* Only the device's reply to the last step is returned.
LEMMA OnWalletAddressFacts ==
  ASSUME NEW c, NEW reply, Turn(c, reply), ByAddress(c.job.cmd), c.st = "WalletAddress",
         OnWalletAddress(reply)
  PROVE  Phases' /\ Owned(result', calls')
<1>1. /\ dev.st # "user" /\ out = <<>> /\ in' = <<>> /\ UNCHANGED <<dev, calls>>
      /\ reply.sw # "Interrupted" => End(c, reply)
  BY DEF Turn, Good
<1>2. ASSUME NEW why, Fail(why)
      PROVE  Phases' /\ Owned(result', calls')
  BY <1>1, <1>2, FailFacts
<1>3. c.job.cmd # "SignTx" /\ Kind(c.job.cmd) = "address"  BY DEF ByAddress, Kind
<1>4. ASSUME reply.sw = "OK", Done(reply)
      PROVE  Phases' /\ Owned(result', calls')
  <2>1. reply.what = "address"  BY <1>1, <1>4 DEF End, Needed
  <2>2. QED  BY <1>3, <1>4, <2>1, DoneFacts
<1>5. ASSUME TaskDone(reply)
      PROVE  Phases' /\ Owned(result', calls')
  BY <1>3, <1>5, DoneFacts
<1>6. ASSUME reply.sw = "Interrupted", OnInterruption(reply)
      PROVE  Phases' /\ Owned(result', calls')
  BY <1>6, OnInterruptionFacts
<1>7. ASSUME reply.sw = "OK", OnAddress(reply)
      PROVE  Phases' /\ Owned(result', calls')
  BY <1>2, <1>4, <1>7 DEF OnAddress
<1>8. QED  BY <1>2, <1>5, <1>6, <1>7 DEF OnWalletAddress

\* A signed PSBT has what the call has been yielded, which is all.
LEMMA OnSignPsbtFacts ==
  ASSUME NEW c, NEW reply, Turn(c, reply), c.job.cmd = "SignTx", reply.sw # "Interrupted",
         OnSignPsbt(reply)
  PROVE  Phases' /\ Owned(result', calls')
<1>1. /\ reply.of = calls /\ dev.st # "user" /\ c = call /\ End(c, reply)
      /\ out = <<>> /\ in' = <<>> /\ UNCHANGED <<dev, calls>>
  BY DEF Turn, Good, InCall
<1>2. ASSUME NEW why, Fail(why)
      PROVE  Phases' /\ Owned(result', calls')
  BY <1>1, <1>2, FailFacts
<1>3. ASSUME TaskDone(reply)
      PROVE  Phases' /\ Owned(result', calls')
  BY <1>1, <1>2, <1>3 DEF TaskDone
<1>4. ASSUME NEW res, reply.sw = "OK", Return(res),
             res = [NoResult EXCEPT !.status = "ok", !.of = reply.of, !.what = "psbt",
                                    !.arg = call.job.arg, !.sigs = Signatures(call.store.yielded)]
      PROVE  Phases' /\ Owned(result', calls')
  <2>1. PICK sigs : sigs = Signatures(c.store.yielded)  OBVIOUS
  <2>2. PICK end : end = [res EXCEPT !.job = call.job]  OBVIOUS
  <2>3. /\ end.job = c.job /\ end.of = calls /\ end.what = "psbt" /\ end.arg = c.job.arg
        /\ end.sigs = sigs
    BY <1>1, <1>4, <2>1, <2>2 DEF NoResult
  <2>4. c.store.yielded = Signed(c)  BY <1>1, <1>4 DEF End, Signing
  <2>5. sigs = Signs(c.job.arg)  BY <2>1, <2>4 DEF Signatures, Signs, Signed
  <2>6. Kind(c.job.cmd) = "psbt"  BY DEF Kind
  <2>7. Owned(end, calls)  BY <2>3, <2>5, <2>6 DEF Owned
  <2>8. QED  BY <1>1, <1>4, <2>2, <2>7, ReturnFacts
<1>5. QED  BY <1>2, <1>3, <1>4 DEF OnSignPsbt

LEMMA ExpectsFacts ==
  ASSUME NEW c, NEW reply, Turn(c, reply), c.job.cmd # "SignTx",
         NEW what, what = Kind(c.job.cmd), Expects(reply, what)
  PROVE  Phases' /\ Owned(result', calls')
<1>1. /\ dev.st # "user" /\ out = <<>> /\ in' = <<>> /\ UNCHANGED <<dev, calls>>
  BY DEF Turn, Good
<1>2. CASE reply.sw = "OK" /\ reply.what = what
  BY <1>2, DoneFacts DEF Expects
<1>3. CASE ~(reply.sw = "OK" /\ reply.what = what)
  BY <1>1, <1>3, FailFacts DEF Expects
<1>4. QED  BY <1>2, <1>3

LEMMA OnGetXpubFacts ==
  ASSUME NEW c, NEW reply, Turn(c, reply), c.job.cmd = "GetXpub", OnGetXpub(reply)
  PROVE  Phases' /\ Owned(result', calls')
<1>1. /\ dev.st # "user" /\ c = call /\ IsCall(c) /\ c.n = calls
      /\ out = <<>> /\ in' = <<>> /\ UNCHANGED <<dev, calls>>
  BY DEF Turn, Good, InCall
<1>2. CASE Expects(reply, "xpub")
  <2>1. Kind(c.job.cmd) = "xpub"  BY DEF Kind
  <2>2. QED  BY <1>2, <2>1, ExpectsFacts
<1>3. ASSUME Transmit([Apdu("get_extended_pubkey", call.job) EXCEPT !.display = TRUE],
                      [call EXCEPT !.display = TRUE])
      PROVE  Phases' /\ Owned(result', calls')
  <2>1. PICK next : next = [c EXCEPT !.display = TRUE]  OBVIOUS
  <2>2. PICK apdu : apdu = [Apdu("get_extended_pubkey", call.job) EXCEPT !.display = TRUE]  OBVIOUS
  <2>3. IsCall(next) /\ next.n = c.n /\ next.job = c.job /\ next.st = c.st
    BY <1>1, <2>1 DEF IsCall
  <2>4. IsApdu(apdu) /\ apdu.job = c.job /\ apdu.ins = "get_extended_pubkey"
    BY <1>1, <2>2 DEF Apdu, IsApdu
  <2>5. c.st = "Running"  BY <1>1 DEF IsCall, ByAddress
  <2>6. New(next, apdu.ins)  BY <2>3, <2>4, <2>5 DEF New, Needed, InstructionOf, Signing
  <2>7. Transmit(apdu, next)  BY <1>1, <1>3, <2>1, <2>2
  <2>8. QED  BY <1>1, <2>3, <2>4, <2>6, <2>7, TransmitFacts
<1>4. QED  BY <1>2, <1>3 DEF OnGetXpub

LEMMA OnGetFingerprintFacts ==
  ASSUME NEW c, NEW reply, Turn(c, reply), c.job.cmd = "GetFingerprint",
         reply.sw # "Interrupted", OnGetFingerprint(reply)
  PROVE  Phases' /\ Owned(result', calls')
<1>1. /\ dev.st # "user" /\ IsCall(c) /\ End(c, reply)
      /\ out = <<>> /\ in' = <<>> /\ UNCHANGED <<dev, calls>>
  BY DEF Turn, Good, InCall
<1>2. c.st = "Running"  BY <1>1 DEF IsCall, ByAddress
<1>3. reply.what \in {"none", "fingerprint"} /\ reply.command.code = "none"
  BY <1>1, <1>2 DEF End, Needed, InstructionOf, NoClientCommand
<1>4. CASE LongEnough(reply)
  <2>1. reply.what = "fingerprint"  BY <1>3, <1>4 DEF LongEnough
  <2>2. Kind(c.job.cmd) = "fingerprint"  BY DEF Kind
  <2>3. QED  BY <1>4, <2>1, <2>2, DoneFacts DEF OnGetFingerprint
<1>5. CASE ~LongEnough(reply)
  BY <1>1, <1>5, FailFacts DEF OnGetFingerprint
<1>6. QED  BY <1>4, <1>5

LEMMA OnRunningFacts ==
  ASSUME NEW c, NEW reply, Turn(c, reply), OnRunning(reply)
  PROVE  Phases' /\ Owned(result', calls')
<1>1. /\ dev.st # "user" /\ c = call
      /\ out = <<>> /\ in' = <<>> /\ UNCHANGED <<dev, calls>>
  BY DEF Turn, Good
<1>2. ASSUME NEW why, Fail(why) \/ Panic
      PROVE  Phases' /\ Owned(result', calls')
  BY <1>1, <1>2, FailFacts
<1>3. CASE reply.sw = "Interrupted"
  <2>1. OnInterruption(reply) \/ Fail("interrupted")  BY <1>3 DEF OnRunning
  <2>2. QED  BY <1>2, <1>3, <2>1, OnInterruptionFacts
<1>4. CASE reply.sw # "Interrupted" /\ c.job.cmd = "GetFingerprint"
  <2>1. OnGetFingerprint(reply)  BY <1>1, <1>4 DEF OnRunning
  <2>2. QED  BY <1>4, <2>1, OnGetFingerprintFacts
<1>5. CASE reply.sw # "Interrupted" /\ c.job.cmd = "GetXpub"
  <2>1. OnGetXpub(reply)  BY <1>1, <1>5 DEF OnRunning
  <2>2. QED  BY <1>5, <2>1, OnGetXpubFacts
<1>6. CASE reply.sw # "Interrupted" /\ c.job.cmd = "SignMessage"
  <2>1. OnSignMessage(reply)  BY <1>1, <1>6 DEF OnRunning
  <2>2. Kind(c.job.cmd) = "signature"  BY <1>6 DEF Kind
  <2>3. TaskDone(reply) \/ Panic \/ Fail("unexpected") \/ (Done(reply) /\ reply.what = "signature")
    BY <2>1 DEF OnSignMessage
  <2>4. QED  BY <1>2, <1>6, <2>2, <2>3, DoneFacts
<1>7. CASE reply.sw # "Interrupted" /\ c.job.cmd = "SignTx"
  <2>1. OnSignPsbt(reply)  BY <1>1, <1>7 DEF OnRunning
  <2>2. QED  BY <1>7, <2>1, OnSignPsbtFacts
<1>8. CASE reply.sw # "Interrupted" /\ c.job.cmd \in {"RegisterWallet", "GetInfo"}
  <2>1. Expects(reply, Kind(c.job.cmd))  BY <1>1, <1>8 DEF OnRunning, Kind
  <2>2. PICK what : what = Kind(c.job.cmd)  OBVIOUS
  <2>3. QED  BY <1>8, <2>1, <2>2, ExpectsFacts
<1>9. CASE /\ reply.sw # "Interrupted"
           /\ c.job.cmd \notin {"GetFingerprint", "GetXpub", "SignMessage", "SignTx",
                                "RegisterWallet", "GetInfo"}
  <2>1. TaskDone(reply) \/ Fail("unexpected")  BY <1>1, <1>9 DEF OnRunning
  <2>2. QED  BY <1>2, <1>9, <2>1, DoneFacts
<1>10. QED  BY <1>3, <1>4, <1>5, <1>6, <1>7, <1>8, <1>9

\* A reply read to its end is an answer to what the call waits for.
LEMMA ExchangeFacts ==
  ASSUME NEW c, NEW reply, Turn(c, reply), Exchange(reply)
  PROVE  Phases' /\ Owned(result', calls')
<1>1. c = call /\ IsCall(c)  BY DEF Turn, InCall
<1>2. ByAddress(c.job.cmd) \/ c.st = "Running"  BY <1>1 DEF IsCall
<1>3. CASE c.st = "Fingerprint"
  BY <1>1, <1>2, <1>3, OnFingerprintFacts DEF Exchange
<1>4. CASE c.st = "Xpub"
  BY <1>1, <1>2, <1>4, OnXpubFacts DEF Exchange
<1>5. CASE c.st = "WalletAddress"
  BY <1>1, <1>2, <1>5, OnWalletAddressFacts DEF Exchange
<1>6. CASE c.st \notin {"Fingerprint", "Xpub", "WalletAddress"}
  BY <1>1, <1>6, OnRunningFacts DEF Exchange
<1>7. QED  BY <1>3, <1>4, <1>5, <1>6

LEMMA ReadPacketFacts ==
  ASSUME Phases, Owned(result, calls), ReadPacket
  PROVE  Phases' /\ Owned(result', calls')
<1>1. PICK c : c = call  OBVIOUS
<1>2. PICK reply : reply = in[1].reply  OBVIOUS
<1>3. PICK task : task = dev  OBVIOUS
<1>4. Answering  BY DEF Phases, ReadPacket, Between, Requested, AtUser
<1>5. InCall /\ out = <<>> /\ Good(c, task, reply) /\ Unread(reply)
  BY <1>1, <1>2, <1>3, <1>4 DEF Answering
<1>6. in' = Tail(in) /\ UNCHANGED <<dev, calls>>  BY DEF ReadPacket
<1>7. ASSUME NEW index, index \in {0, 1}, in = <<Packet(reply, index)>>, call.read = index,
             Packets(reply) = index + 1
      PROVE  Phases' /\ Owned(result', calls')
  <2>1. Head(in) = Packet(reply, index) /\ in' = <<>>  BY <1>6, <1>7
  <2>2. Head(in).reply = reply /\ Head(in).index = index  BY <2>1 DEF Packet
  <2>3. Exchange(reply)  BY <1>7, <2>2 DEF ReadPacket
  <2>4. Turn(c, reply)  BY <1>1, <1>3, <1>5, <1>6, <2>1 DEF Turn
  <2>5. QED  BY <2>3, <2>4, ExchangeFacts
<1>8. ASSUME in = <<Packet(reply, 0), Packet(reply, 1)>>, call.read = 0, Packets(reply) = 2
      PROVE  Phases' /\ Owned(result', calls')
  <2>1. Head(in) = Packet(reply, 0) /\ in' = <<Packet(reply, 1)>>  BY <1>6, <1>8
  <2>2. Head(in).reply = reply /\ Head(in).index = 0  BY <2>1 DEF Packet
  <2>3. call' = [call EXCEPT !.read = call.read + 1] /\ UNCHANGED <<result, out>>
    BY <1>8, <2>2 DEF ReadPacket
  <2>4. PICK d : d = [c EXCEPT !.read = 1]  OBVIOUS
  <2>5. call' = d  BY <1>1, <1>8, <2>3, <2>4
  <2>6. IsCall(c) /\ c.n = calls  BY <1>1, <1>5 DEF InCall
  <2>7. IsCall(d) /\ d.n = c.n /\ d.read = 1 /\ d.st # "none"  BY <2>4, <2>6 DEF IsCall
  <2>8. Good(d, task, reply)  BY <1>5, <2>4, <2>6, ReadFacts
  <2>9. InCall'  BY <1>6, <2>5, <2>6, <2>7 DEF InCall, Calling
  <2>10. in' # <<>> /\ in'[1].reply = reply  BY <2>1 DEF Packet
  <2>11. PICK r : r = in'[1].reply  OBVIOUS
  <2>12. r = reply  BY <2>10, <2>11
  <2>13. Unread(in[1].reply)'  BY <1>8, <2>1, <2>5, <2>7, <2>11, <2>12 DEF Unread
  <2>14. Answering'
    BY <1>3, <1>5, <1>6, <2>3, <2>5, <2>8, <2>9, <2>10, <2>13 DEF Answering
  <2>15. Owned(result', calls')  BY <1>6, <2>3
  <2>16. QED  BY <2>14, <2>15 DEF Phases
<1>9. QED  BY <1>5, <1>7, <1>8 DEF Unread

\* A call starts when there is nothing left of the one before.
LEMMA StartCallFacts ==
  ASSUME Phases, NEW job \in Jobs, StartCall(job)
  PROVE  Phases' /\ Owned(result', calls')
<1>1. Between  BY DEF Phases, StartCall, Requested, AtUser, Answering, InCall
<1>2. /\ out = <<>> /\ in = <<>> /\ in' = <<>> /\ dev' = dev /\ dev.st # "user"
      /\ calls' = calls + 1
  BY <1>1 DEF Between, StartCall
<1>3. ASSUME NEW status, NEW why, status # "ok", UNCHANGED <<call, out>>,
             result' = [NoResult EXCEPT !.status = status, !.why = why, !.job = job]
      PROVE  Phases' /\ Owned(result', calls')
  <2>1. Between'  BY <1>1, <1>2, <1>3 DEF Between, Calling
  <2>2. result'.status # "ok"  BY <1>3 DEF NoResult
  <2>3. QED  BY <2>1, <2>2 DEF Phases, Owned
<1>4. ASSUME NEW apdu, NEW next, Transmit(apdu, next),
             apdu = [Apdu(InstructionOf(job.cmd), job) EXCEPT
                       !.roots = Roots(job), !.display = (job.ctx = "display")],
             next = [NoCall EXCEPT
                       !.n = calls + 1, !.job = job, !.store = StoreOf(job),
                       !.display = (job.ctx = "display"),
                       !.st = IF job.cmd \in {"ByPath", "ByDescriptor"} THEN "Fingerprint"
                              ELSE "Running"]
      PROVE  Phases' /\ Owned(result', calls')
  <2>1. PICK store : store = StoreOf(job)  OBVIOUS
  <2>2. PICK st : st = IF ByAddress(job.cmd) THEN "Fingerprint" ELSE "Running"  OBVIOUS
  <2>3. PICK roots : roots = Roots(job)  OBVIOUS
  <2>4. PICK ins : ins = InstructionOf(job.cmd)  OBVIOUS
  <2>5. IsStore(store) /\ store.yielded = <<>>  BY <2>1, StoreFacts
  <2>6. /\ IsCall(next) /\ next.n = calls' /\ next.job = job /\ next.st = st /\ next.store = store
    <3>1. next = [st |-> st, n |-> calls + 1, job |-> job, store |-> store,
                  display |-> (job.ctx = "display"), read |-> 0]
      BY <1>4, <2>1, <2>2 DEF NoCall, ByAddress
    <3>2. QED  BY <1>2, <2>2, <2>5, <3>1 DEF IsCall
  <2>7. IsApdu(apdu) /\ apdu.job = job /\ apdu.ins = ins
    BY <1>4, <2>3, <2>4 DEF Apdu, IsApdu
  <2>8. Needed(next) = ins  BY <2>2, <2>4, <2>6 DEF Needed, ByAddress, InstructionOf
  <2>9. New(next, apdu.ins)  BY <2>5, <2>6, <2>7, <2>8 DEF New
  <2>10. QED  BY <1>2, <1>4, <2>6, <2>7, <2>9, TransmitFacts, ZenonT(60)
<1>5. QED  BY <1>3, <1>4 DEF StartCall

\* A step that is not told to forget it remembers what has gone wrong.
LEMMA PastFacts ==
  ASSUME [Next]_vars
  PROVE  past \subseteq past'
<1>1. ASSUME NEW apdu, NEW next, Transmit(apdu, next)
      PROVE  past \subseteq past'
  BY <1>1 DEF Transmit
<1>2. ASSUME NEW res, Return(res)
      PROVE  past \subseteq past'
  BY <1>2 DEF Return
<1>3. ASSUME NEW reply, OnInterruption(reply) \/ OnFingerprint(reply) \/ OnXpub(reply)
      PROVE  past \subseteq past'
  BY <1>1, <1>2, <1>3 DEF OnInterruption, OnFingerprint, OnXpub, GetWalletAddress, Fail
<1>4. ASSUME NEW reply, OnWalletAddress(reply)
      PROVE  past \subseteq past'
  BY <1>2, <1>3, <1>4 DEF OnWalletAddress, OnAddress, Done, TaskDone, Fail
<1>5. ASSUME NEW reply, OnSignPsbt(reply) \/ OnSignMessage(reply)
      PROVE  past \subseteq past'
  BY <1>2, <1>5 DEF OnSignPsbt, OnSignMessage, Done, TaskDone, Fail, Panic
<1>6. ASSUME NEW reply, OnGetXpub(reply) \/ OnGetFingerprint(reply) \/ Expects(reply, "hmac")
                          \/ Expects(reply, "version")
      PROVE  past \subseteq past'
  BY <1>1, <1>2, <1>6 DEF OnGetXpub, OnGetFingerprint, Expects, Done, Fail
<1>7. ASSUME NEW reply, OnRunning(reply)
      PROVE  past \subseteq past'
  BY <1>2, <1>3, <1>5, <1>6, <1>7 DEF OnRunning, TaskDone, Fail
<1>8. ASSUME NEW reply, Exchange(reply)
      PROVE  past \subseteq past'
  BY <1>3, <1>4, <1>7, <1>8 DEF Exchange
<1>9. CASE ReadPacket
  BY <1>2, <1>8, <1>9 DEF ReadPacket, Fail
<1>10. ASSUME NEW job \in Jobs, StartCall(job)
       PROVE  past \subseteq past'
  BY <1>1, <1>10 DEF StartCall
<1>11. CASE Abandon \/ DeviceReads \/ UserDecides \/ UNCHANGED vars
  BY <1>11 DEF Abandon, DeviceReads, UserDecides, vars
<1>12. QED  BY <1>9, <1>10, <1>11 DEF Next, HostNext

-----------------------------------------------------------------------------
(* The theorem.                                                            *)

\* As long as no call is dropped, what a call returns was made by the device for
\* this call, is of the kind and the argument asked for, and a signed PSBT has
\* every signature the device gave: whatever the device asks between them, however
\* often a user declines or a write fails, and whatever command it was at before.
THEOREM OwnAnswers == Spec => [](DroppedCalls = {} => OwnAnswer)
<1>1. Init => InOrder
  BY DEF Init, InOrder, Phases, Between, Calling, NoCall, Idle, Owned, NoResult
<1>2. InOrder /\ [Next]_vars => InOrder'
  <2>. SUFFICES ASSUME InOrder, [Next]_vars, DroppedCalls' = {}
                PROVE  Phases' /\ Owned(result', calls')
    BY DEF InOrder
  <2>1. past \subseteq past'  BY PastFacts
  <2>2. Phases /\ Owned(result, calls)  BY <2>1 DEF InOrder, DroppedCalls
  <2>3. CASE UNCHANGED vars
    <3>1. UNCHANGED <<call, result, out, in, dev, calls>>  BY <2>3 DEF vars
    <3>2. InCall' <=> InCall  BY <3>1 DEF InCall, Calling
    <3>3. Between => Between'  BY <3>1 DEF Between, Calling
    <3>4. Requested => Requested'  BY <3>1, <3>2 DEF Requested
    <3>5. AtUser => AtUser'  BY <3>1, <3>2 DEF AtUser
    <3>6. Answering => Answering'  BY <3>1, <3>2 DEF Answering, Unread
    <3>7. QED  BY <2>2, <3>1, <3>3, <3>4, <3>5, <3>6 DEF Phases
  <2>4. ASSUME NEW job \in Jobs, StartCall(job)
        PROVE  Phases' /\ Owned(result', calls')
    BY <2>2, <2>4, StartCallFacts
  <2>5. CASE ReadPacket
    BY <2>2, <2>5, ReadPacketFacts
  <2>6. CASE Abandon
    <3>1. <<"dropped", calls>> \in past'  BY <2>6 DEF Abandon
    <3>2. <<"dropped", calls>>[1] = "dropped"  OBVIOUS
    <3>3. DroppedCalls' # {}  BY <3>1, <3>2 DEF DroppedCalls
    <3>4. QED  BY <3>3
  <2>7. CASE DeviceReads
    BY <2>2, <2>7, DeviceReadsFacts DEF DeviceReads
  <2>8. CASE UserDecides
    BY <2>2, <2>8, UserDecidesFacts DEF UserDecides
  <2>9. QED  BY <2>3, <2>4, <2>5, <2>6, <2>7, <2>8 DEF Next, HostNext
<1>3. InOrder => (DroppedCalls = {} => OwnAnswer)
  BY DEF InOrder, Owned, OwnAnswer
<1>4. QED  BY <1>1, <1>2, <1>3, PTL DEF Spec
=============================================================================
