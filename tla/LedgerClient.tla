---------------------------- MODULE LedgerClient ----------------------------
(***************************************************************************)
(* One Ledger client of the library: the per-call interpreter              *)
(* (bhwi/src/ledger/mod.rs), the store it answers the device from          *)
(* (MerkleStore) and the USB transport                                     *)
(* (bhwi-async/src/transport/ledger/hid.rs), against a device and its      *)
(* user, modelled from how that code uses them.                            *)
(*                                                                         *)
(* A command that needs more than fits an APDU sends commitments only: the *)
(* device interrupts it, again and again, to ask for a preimage, a proof   *)
(* or what is left of either, and checks what it gets against them.  It    *)
(* yields one signature at a time, the interpreter keeps them and applies  *)
(* them to the PSBT when the command ends.                                 *)
(*                                                                         *)
(* The packets of a reply outlive the call that asked for it: a later call *)
(* reads them first, and takes them for answers to what it sent.           *)
(*                                                                         *)
(* Abstracted: what a device yields can be parsed and is for an input that *)
(* the PSBT has.                                                           *)
(***************************************************************************)
EXTENDS MerkleStore, FiniteSets

CONSTANTS
  Psbt,      \* PSBTs: their maps of keys and values, and what the device signs
  Wallet,    \* wallet policies: their keys and template
  Chunks,    \* messages, in chunks of 64 bytes
  Jobs,      \* the calls of the client: a command, its argument and a wallet
  MaxCalls,  \* bound: calls
  MaxFaults  \* bound: dropped calls and failed writes

ASSUME BoundsAssumption == MaxCalls \in Nat /\ MaxFaults \in Nat

\* A call to sign names a PSBT, and what a device signs it with comes in order.
ASSUME PsbtAssumption ==
  \A job \in Jobs : job.cmd = "SignTx" =>
    /\ job.arg \in DOMAIN Psbt
    /\ LET signs == Psbt[job.arg].signs IN signs \in Seq({signs[i] : i \in DOMAIN signs})

VARIABLES
  call,     \* LedgerInterpreter, its store, and the packets read so far
  result,   \* how the last call ended
  out, in,  \* commands the device has not read, packets of replies the host has not
  dev,      \* the command the device is at, and what it has learned
  past,     \* what has gone wrong so far
  calls, faults

vars == <<call, result, out, in, dev, past, calls, faults>>

-----------------------------------------------------------------------------
(* What a command commits to.                                              *)

Element(tag, len) == [tag |-> tag, len |-> len, keys |-> <<>>, values |-> <<>>]

\* LedgerWalletPolicy::serialize: the root of the keys, the hash of the template.
PolicyElement(w) ==
  [tag |-> Wallet[w].tag, len |-> 2 * HashLen + VarLen,
   keys |-> Wallet[w].keys, values |-> <<Wallet[w].template>>]

\* LedgerWalletPolicy::to_store.
ToStore(w) ==
  AddKnownPreimage(AddKnownList(AddKnownPreimage(NewStore, PolicyElement(w)), Wallet[w].keys),
                   Wallet[w].template)

Commitments(maps) == [i \in DOMAIN maps |-> Commitment(maps[i])]

\* start, SignPsbt: a store of the policy, of the maps and of the lists of their
\* commitments.
PsbtStore(p, w) ==
  LET In(list) == {list[i] : i \in DOMAIN list}
      maps == {Psbt[p].global} \cup In(Psbt[p].inputs) \cup In(Psbt[p].outputs)
  IN  AddKnownLists(ToStore(w), UNION {MappingLists(map) : map \in maps}
                                  \cup {Commitments(Psbt[p].inputs), Commitments(Psbt[p].outputs)})

StoreOf(job) ==
  CASE job.cmd = "SignTx" -> PsbtStore(job.arg, job.ctx)
    [] job.cmd = "SignMessage" -> AddKnownList(NewStore, Chunks[job.arg])
    [] job.cmd = "RegisterWallet" -> ToStore(job.arg)
    [] OTHER -> NewStore

\* MUTANT: the inputs' commitments stand where the outputs' should.
Roots_Swapped(job) ==
  CASE job.cmd = "SignTx" ->
         <<<<PolicyElement(job.ctx)>>, <<Commitment(Psbt[job.arg].global)>>,
           Commitments(Psbt[job.arg].outputs), Commitments(Psbt[job.arg].inputs)>>
    [] job.cmd = "SignMessage" -> <<Chunks[job.arg]>>
    [] job.cmd = "RegisterWallet" -> <<<<PolicyElement(job.arg)>>>>
    [] OTHER -> <<>>

\* The roots a command names.
Roots(job) ==
  CASE job.cmd = "SignTx" ->
         <<<<PolicyElement(job.ctx)>>, <<Commitment(Psbt[job.arg].global)>>,
           Commitments(Psbt[job.arg].inputs), Commitments(Psbt[job.arg].outputs)>>
    [] job.cmd = "SignMessage" -> <<Chunks[job.arg]>>
    [] job.cmd = "RegisterWallet" -> <<<<PolicyElement(job.arg)>>>>
    [] OTHER -> <<>>

\* The tree of an empty list is an assertion that fails.
EmptyList(job) ==
  \/ job.cmd = "SignMessage" /\ Chunks[job.arg] = <<>>
  \/ job.cmd = "SignTx" /\ (Psbt[job.arg].inputs = <<>> \/ Psbt[job.arg].outputs = <<>>)

-----------------------------------------------------------------------------
(* Commands and replies.                                                   *)

Unsupported == {"Setup", "Wipe", "Restore", "TogglePassphrase", "Backup", "ByMultisig"}

\* Commands that cannot be converted, or whose first message cannot be built.
Rejected(job) ==
  \/ job.cmd \in Unsupported
  \/ job.cmd = "Unlock" /\ job.arg = "none"
  \/ job.cmd = "SignTx" /\ (job.ctx = "none" \/ ~Psbt[job.arg].countsMatch)

InstructionOf(cmd) ==
  CASE cmd = "Unlock" -> "open_app"
    [] cmd = "GetInfo" -> "get_version"
    [] cmd \in {"GetFingerprint", "ByPath", "ByDescriptor"} -> "get_master_fingerprint"
    [] cmd = "GetXpub" -> "get_extended_pubkey"
    [] cmd = "SignMessage" -> "sign_message"
    [] cmd = "RegisterWallet" -> "register_wallet"
    [] OTHER -> "sign_psbt"

\* of is the call that sent it, which the device does not see.
Apdu(ins, job) ==
  [ins |-> ins, of |-> 0, job |-> job, display |-> FALSE, roots |-> <<>>, answer |-> NoAnswer]

Continue(job, answer) == [Apdu("continue", job) EXCEPT !.answer = answer]

NoClientCommand ==
  [code |-> "none", root |-> <<>>, leaf |-> Element(0, 0), index |-> 0, yield |-> <<>>]

\* what is what the data of a reply can be parsed as; of an interruption, it is a
\* command for the client.
Reply(apdu, sw, what) ==
  [of |-> apdu.of, sw |-> sw, what |-> what, arg |-> apdu.job.arg, command |-> NoClientCommand]

\* What does not fit a packet takes two.
Packets(reply) ==
  IF reply.what \in {"xpub", "address", "hmac", "signature"}
     \/ reply.command.code \in {"Yield", "GetMerkleLeafIndex"}
  THEN 2 ELSE 1

\* At least the four bytes of a fingerprint.
LongEnough(reply) ==
  reply.what # "none" \/ reply.command.code \notin {"none", "GetMoreElements"}

NoJob == [cmd |-> "none", arg |-> "none", ctx |-> "none"]
NoCall == [st |-> "none", n |-> 0, job |-> NoJob, store |-> NewStore, display |-> FALSE, read |-> 0]
NoResult == [status |-> "none", why |-> "none", job |-> NoJob, of |-> 0, what |-> "none",
             arg |-> "none", sigs |-> {}]
Idle == [st |-> "idle", apdu |-> Apdu("none", NoJob), goals |-> <<>>, first |-> NoAnswer,
         got |-> <<>>, view |-> {}, approved |-> FALSE, signs |-> <<>>]

Init ==
  /\ call = NoCall
  /\ result = NoResult
  /\ out = <<>> /\ in = <<>>
  /\ dev = Idle
  /\ past = {}
  /\ calls = 0 /\ faults = 0

-----------------------------------------------------------------------------
(* The host.                                                               *)

Calling == call.st # "none"

\* The packets of a command are written, or one of them cannot be and the call
\* ends; the device gets all of a command or nothing.
Transmit(apdu, next) ==
  \/ /\ out' = Append(out, [apdu EXCEPT !.of = next.n])
     /\ call' = [next EXCEPT !.read = 0]
     /\ result' = NoResult
     /\ UNCHANGED <<past, faults>>
  \/ /\ faults < MaxFaults
     /\ faults' = faults + 1
     /\ past' = past \cup {<<"failed", 0>>}
     /\ call' = NoCall
     /\ result' = [NoResult EXCEPT !.status = "err", !.why = "transport", !.job = next.job]
     /\ UNCHANGED out

Return(res) ==
  /\ call' = NoCall
  /\ result' = [res EXCEPT !.job = call.job]
  /\ UNCHANGED <<out, past, faults>>

Fail(why) == Return([NoResult EXCEPT !.status = "err", !.why = why])
Panic == Return([NoResult EXCEPT !.status = "panic", !.why = "index"])

\* TaskDone is not what HWI's methods but unlock wait for: an error without a cause.
TaskDone(reply) ==
  IF call.job.cmd = "Unlock"
  THEN Return([NoResult EXCEPT !.status = "ok", !.of = reply.of, !.what = "done", !.arg = reply.arg])
  ELSE Fail("none")

Done(reply) ==
  Return([NoResult EXCEPT !.status = "ok", !.of = reply.of, !.what = reply.what, !.arg = reply.arg])

\* run_command: a new interpreter converts the command, fills a store for what it
\* may be asked, and sends the command.
StartCall(job) ==
  /\ ~Calling
  /\ calls < MaxCalls
  /\ calls' = calls + 1
  /\ IF Rejected(job) \/ EmptyList(job)
     THEN /\ result' = [NoResult EXCEPT !.status = IF Rejected(job) THEN "err" ELSE "panic",
                                        !.why = IF Rejected(job) THEN "rejected" ELSE "assertion",
                                        !.job = job]
          /\ UNCHANGED <<call, out, past, faults>>
     ELSE Transmit([Apdu(InstructionOf(job.cmd), job) EXCEPT
                      !.roots = Roots(job), !.display = (job.ctx = "display")],
                   [NoCall EXCEPT
                      !.n = calls + 1, !.job = job, !.store = StoreOf(job),
                      !.display = (job.ctx = "display"),
                      !.st = IF job.cmd \in {"ByPath", "ByDescriptor"} THEN "Fingerprint" ELSE "Running"])
  /\ UNCHANGED <<in, dev>>

\* MUTANT: a call that is interrupted waits for another reply.
OnInterruption_Waits(reply) ==
  /\ call' = [call EXCEPT !.store = Execute(@, reply.command).store, !.read = 0]
  /\ UNCHANGED <<result, out, past, faults>>

\* An interruption is answered from the store, if the command has one.
OnInterruption(reply) ==
  LET asked == Execute(call.store, reply.command)
  IN  IF ~asked.ok THEN Fail("store")
      ELSE Transmit(Continue(call.job, asked.answer), [call EXCEPT !.store = asked.store])

\* get_wallet_address: the policy of the context, or the one made from the key.
GetWalletAddress(w) ==
  Transmit([Apdu("get_wallet_address", call.job) EXCEPT !.roots = <<<<PolicyElement(w)>>>>],
           [call EXCEPT !.st = "WalletAddress", !.store = ToStore(w)])

\* GetWalletAddressStep::Fingerprint: the status is not looked at.  A path of less
\* than five levels and a descriptor without a context are refused only now.
OnFingerprint(reply) ==
  CASE ~LongEnough(reply) -> Fail("unexpected")
    [] LongEnough(reply) /\ call.job.cmd = "ByPath" ->
         IF call.job.arg = "short" THEN Fail("unsupported")
         ELSE Transmit(Apdu("get_extended_pubkey", call.job), [call EXCEPT !.st = "Xpub"])
    [] OTHER -> IF call.job.ctx = "none" THEN Fail("unsupported") ELSE GetWalletAddress(call.job.ctx)

\* GetWalletAddressStep::Xpub: a policy for the purpose of the path.
OnXpub(reply) ==
  CASE reply.what # "xpub" -> Fail("unexpected")
    [] reply.what = "xpub" /\ call.job.arg = "odd" -> Fail("unsupported")
    [] OTHER -> GetWalletAddress(call.job.arg)

\* Any text is an address, none at all too; other bytes may be text.
OnAddress(reply) ==
  \/ Done(reply)
  \/ reply.what \notin {"none", "version", "xpub", "address"} /\ Fail("unexpected")

\* GetWalletAddressStep::WalletAddress.
OnWalletAddress(reply) ==
  CASE reply.sw = "Deny" -> TaskDone(reply)
    [] reply.sw = "Interrupted" -> OnInterruption(reply)
    [] reply.sw = "OK" -> OnAddress(reply)
    [] OTHER -> Fail("unexpected")

\* apply_psbt_signature, for each yield in turn: what a MuSig2 signer yields is
\* left out.
Signatures(yielded) ==
  {yielded[i].sig : i \in {j \in DOMAIN yielded : yielded[j].kind = "partial"}}

\* MUTANT: the status is not looked at, as it is not for a fingerprint.
OnSignPsbt_AnyStatus(reply) ==
  Return([NoResult EXCEPT !.status = "ok", !.of = reply.of, !.what = "psbt",
                          !.arg = call.job.arg, !.sigs = Signatures(call.store.yielded)])

\* The end of sign_psbt: the PSBT of the call with what its store was given.
OnSignPsbt(reply) ==
  CASE reply.sw \in {"Deny", "ClaNotSupported", "SignatureFail"} -> TaskDone(reply)
    [] reply.sw = "OK" ->
         Return([NoResult EXCEPT !.status = "ok", !.of = reply.of, !.what = "psbt",
                                 !.arg = call.job.arg, !.sigs = Signatures(call.store.yielded)])
    [] OTHER -> Fail("unexpected")

\* The end of sign_message: the first byte is taken whether there is one or not.
OnSignMessage(reply) ==
  CASE reply.sw \in {"Deny", "ClaNotSupported", "SignatureFail"} -> TaskDone(reply)
    [] reply.sw = "OK" /\ reply.what = "none" -> Panic
    [] reply.sw = "OK" /\ reply.what = "signature" -> Done(reply)
    [] OTHER -> Fail("unexpected")

Expects(reply, what) ==
  IF reply.sw = "OK" /\ reply.what = what THEN Done(reply) ELSE Fail("unexpected")

\* What is refused silently is asked for again with the user's consent.
OnGetXpub(reply) ==
  IF ~call.display /\ reply.sw = "NotSupported"
  THEN Transmit([Apdu("get_extended_pubkey", call.job) EXCEPT !.display = TRUE],
                [call EXCEPT !.display = TRUE])
  ELSE Expects(reply, "xpub")

\* GetMasterFingerprint: four bytes of any reply that is not an interruption.
OnGetFingerprint(reply) == IF LongEnough(reply) THEN Done(reply) ELSE Fail("unexpected")

HasStore(cmd) == cmd \in {"SignMessage", "RegisterWallet", "SignTx"}

\* State::Running.
OnRunning(reply) ==
  LET cmd == call.job.cmd
  IN  CASE reply.sw = "Interrupted" /\ HasStore(cmd) -> OnInterruption(reply)
        [] reply.sw = "Interrupted" /\ ~HasStore(cmd) -> Fail("interrupted")
        [] reply.sw # "Interrupted" /\ cmd = "GetFingerprint" -> OnGetFingerprint(reply)
        [] reply.sw # "Interrupted" /\ cmd = "GetXpub" -> OnGetXpub(reply)
        [] reply.sw # "Interrupted" /\ cmd = "SignMessage" -> OnSignMessage(reply)
        [] reply.sw # "Interrupted" /\ cmd = "SignTx" -> OnSignPsbt(reply)
        [] reply.sw # "Interrupted" /\ cmd = "RegisterWallet" -> Expects(reply, "hmac")
        [] reply.sw # "Interrupted" /\ cmd = "GetInfo" -> Expects(reply, "version")
        [] OTHER -> IF reply.sw \in {"OK", "ClaNotSupported"} THEN TaskDone(reply)
                    ELSE Fail("unexpected")

\* LedgerInterpreter::exchange.
Exchange(reply) ==
  CASE call.st = "Fingerprint" -> OnFingerprint(reply)
    [] call.st = "Xpub" -> OnXpub(reply)
    [] call.st = "WalletAddress" -> OnWalletAddress(reply)
    [] OTHER -> OnRunning(reply)

\* LedgerTransportHID::exchange: the packets of a reply are numbered from 0.  One
\* with another number ends the call, and is gone.
ReadPacket ==
  /\ Calling /\ in # <<>>
  /\ in' = Tail(in)
  /\ LET packet == Head(in)
     IN  CASE packet.index # call.read -> Fail("sequence")
           [] packet.index = call.read /\ packet.index + 1 = Packets(packet.reply) ->
                Exchange(packet.reply)
           [] OTHER -> /\ call' = [call EXCEPT !.read = @ + 1]
                       /\ UNCHANGED <<result, out, past, faults>>
  /\ UNCHANGED <<dev, calls>>

\* The caller drops the future of a call, or a read fails.
Abandon ==
  /\ Calling
  /\ faults < MaxFaults
  /\ faults' = faults + 1
  /\ past' = past \cup {<<"dropped", calls>>}
  /\ call' = NoCall
  /\ result' = NoResult
  /\ UNCHANGED <<out, in, dev, calls>>

HostNext == (\E job \in Jobs : StartCall(job)) \/ ReadPacket \/ Abandon

-----------------------------------------------------------------------------
(* The device and its user.                                                *)

Put(reply) == in' = in \o [i \in 1..Packets(reply) |-> [reply |-> reply, index |-> i - 1]]

\* What the device has to find out, one thing at a time: an item of a list, the
\* preimage of a hash, or the index of a key.
Goal(kind, root, index, leaf, at) ==
  [kind |-> kind, root |-> root, index |-> index, leaf |-> leaf, at |-> at, values |-> <<>>]

Preimage(leaf, at) == Goal("preimage", <<>>, 0, leaf, at)
Item(root, index, at) == Goal("item", root, index, Element(0, 0), at)
Items(root, where) == [i \in DOMAIN root |-> Item(root, i - 1, <<where, i, 0>>)]

\* A policy is read with its keys and template, a map by its keys; what else is
\* read is what it is.
Within(leaf, at) ==
  CASE leaf.keys = <<>> -> <<>>
    [] leaf.keys # <<>> /\ leaf.tag = 0 ->
         [i \in DOMAIN leaf.keys |->
            [Goal("index", leaf.keys, 0, leaf.keys[i], <<at[1], at[2], leaf.keys[i].tag>>)
               EXCEPT !.values = leaf.values]]
    [] OTHER -> <<Preimage(leaf.values[1], <<1, 0, 0>>)>> \o Items(leaf.keys, 1)

GoalsOf(apdu) ==
  CASE apdu.ins = "sign_psbt" ->
         <<Preimage(apdu.roots[1][1], <<1, 0, 0>>)>> \o Within(apdu.roots[2][1], <<2, 0, 0>>)
           \o Items(apdu.roots[3], 3) \o Items(apdu.roots[4], 4)
    [] apdu.ins = "sign_message" -> Items(apdu.roots[1], 5)
    [] OTHER -> <<Preimage(apdu.roots[1][1], <<1, 0, 0>>)>>

\* The root a leaf and its proof lead to.
LeftSize(size) == CHOOSE p \in 1..(size - 1) : (\E r \in 0..size : p = 2 ^ r) /\ 2 * p >= size
RootOf(leaf, proof, index, size) ==
  LET Climb[n \in 1..size, i \in 0..(size - 1), k \in 0..Len(proof)] ==
        CASE n = 1 -> IF k = 0 THEN <<leaf>> ELSE <<>>
          [] n > 1 /\ k = 0 -> <<>>
          [] n > 1 /\ k > 0 /\ i < LeftSize(n) -> Climb[LeftSize(n), i, k - 1] \o proof[k]
          [] OTHER -> proof[k] \o Climb[n - LeftSize(n), i - LeftSize(n), k - 1]
  IN  Climb[size, index, Len(proof)]

\* What the device asks for next: the goal, or what is left of its answer; once its
\* user has agreed, that a signature is taken.
ClientCommand(task) ==
  LET goal == Head(task.goals)
      Ask(code) == [NoClientCommand EXCEPT !.code = code, !.root = goal.root, !.leaf = goal.leaf,
                                           !.index = goal.index]
  IN  CASE task.approved -> [NoClientCommand EXCEPT !.code = "Yield", !.yield = Head(task.signs)]
        [] ~task.approved /\ task.first.kind # "none" -> Ask("GetMoreElements")
        [] ~task.approved /\ task.first.kind = "none" /\ goal.kind = "preimage" ->
             Ask("GetPreimage")
        [] ~task.approved /\ task.first.kind = "none" /\ goal.kind = "index" ->
             Ask("GetMerkleLeafIndex")
        [] OTHER -> Ask("GetMerkleLeafProof")

\* What the device replies at the end.
Outcome(apdu) ==
  CASE apdu.ins = "get_extended_pubkey" -> Reply(apdu, "OK", "xpub")
    [] apdu.ins = "get_wallet_address" -> Reply(apdu, "OK", "address")
    [] apdu.ins = "register_wallet" -> Reply(apdu, "OK", "hmac")
    [] apdu.ins = "sign_message" -> Reply(apdu, "OK", "signature")
    [] OTHER -> Reply(apdu, "OK", "none")

\* The next interruption, the user's turn, or the end.
GoOn(task) ==
  CASE IF task.approved THEN task.signs # <<>> ELSE task.goals # <<>> ->
         /\ dev' = [task EXCEPT !.st = "interrupted"]
         /\ Put([Reply(task.apdu, "Interrupted", "none") EXCEPT !.command = ClientCommand(task)])
    [] ~task.approved /\ task.goals = <<>> ->
         /\ dev' = [task EXCEPT !.st = "user"]
         /\ UNCHANGED in
    [] OTHER ->
         /\ dev' = Idle
         /\ Put(Outcome(task.apdu))

GiveUp(apdu, sw) == dev' = Idle /\ Put(Reply(apdu, sw, "none"))

\* A signature is taken: the answer has no data.
TakeSignature(task, answer) ==
  IF answer.kind = "none" THEN GoOn([task EXCEPT !.signs = Tail(@)])
  ELSE GiveUp(task.apdu, "IncorrectData")

\* A goal is reached once its answer is whole and is what the hash commits to.
Consume(task, answer) ==
  LET goal == Head(task.goals)
      first == IF task.first.kind = "none" THEN answer ELSE task.first
      got == task.got \o answer.items
      Is(answered, kinds) ==
        first.kind = answered /\ goal.kind \in kinds /\ (answered = "index" \/ Len(got) = first.total)
      Proved ==
        RootOf(first.of[1], [i \in DOMAIN got |-> got[i].hash], goal.index, Len(goal.root)) = goal.root
      Reached(goals, seen) ==
        GoOn([task EXCEPT !.goals = goals \o Tail(@), !.first = NoAnswer, !.got = <<>>,
                          !.view = @ \cup seen])
  IN  CASE first.kind \in {"preimage", "proof"} /\ Len(got) < first.total ->
             GoOn([task EXCEPT !.first = first, !.got = got])
        [] /\ Is("preimage", {"preimage"})
           /\ got = [n \in 1..goal.leaf.len |-> ByteItem(goal.leaf, n)] ->
             Reached(Within(goal.leaf, goal.at),
                     IF goal.leaf.keys # <<>> THEN {}
                     ELSE {<<goal.at[1], goal.at[2], goal.at[3], goal.leaf.tag>>})
        [] Is("proof", {"item"}) /\ Proved ->
             Reached(<<Preimage(first.of[1], goal.at)>>, {})
        [] Is("proof", {"key"}) /\ Proved /\ first.of[1] = goal.leaf ->
             Reached(<<>>, {})
        [] Is("index", {"index"}) /\ first.total < Len(goal.root) ->
             Reached(<<Goal("key", goal.root, first.total, goal.leaf, goal.at),
                       Item(goal.values, first.total, goal.at)>>, {})
        [] OTHER -> GiveUp(task.apdu, "IncorrectData")

\* A path is known or asks for the user; odd and short ones are not known.
Silent(apdu) == apdu.job.arg \notin {"odd", "short"} \/ apdu.display

\* A new command.
Begin(apdu) ==
  LET task == [Idle EXCEPT !.apdu = apdu]
      Answers(reply) == dev' = Idle /\ Put(reply)
  IN  CASE apdu.ins = "open_app" ->
             \E sw \in {"OK", "ClaNotSupported"} : Answers(Reply(apdu, sw, "none"))
        [] apdu.ins = "get_version" -> Answers(Reply(apdu, "OK", "version"))
        [] apdu.ins = "get_master_fingerprint" -> Answers(Reply(apdu, "OK", "fingerprint"))
        [] apdu.ins = "get_extended_pubkey" /\ ~Silent(apdu) -> Answers(Reply(apdu, "NotSupported", "none"))
        [] apdu.ins = "get_extended_pubkey" /\ Silent(apdu) /\ ~apdu.display ->
             Answers(Reply(apdu, "OK", "xpub"))
        [] apdu.ins = "get_extended_pubkey" /\ apdu.display -> GoOn(task)
        [] apdu.ins = "continue" -> Answers(Reply(apdu, "BadState", "none"))
        [] OTHER -> GoOn([task EXCEPT !.goals = GoalsOf(apdu)])

\* A command that is interrupted is given up when another comes.
DeviceReads ==
  /\ out # <<>> /\ dev.st # "user"
  /\ out' = Tail(out)
  /\ LET apdu == Head(out)
     IN  CASE dev.st = "idle" -> Begin(apdu)
           [] dev.st = "interrupted" /\ apdu.ins = "continue" ->
                LET task == [dev EXCEPT !.apdu.of = apdu.of]
                IN  IF dev.approved THEN TakeSignature(task, apdu.answer)
                    ELSE Consume(task, apdu.answer)
           [] OTHER -> GiveUp(apdu, "BadState")
  /\ UNCHANGED <<call, result, past, calls, faults>>

\* What a PSBT is signed with is yielded one by one.
UserDecides ==
  /\ dev.st = "user"
  /\ \/ /\ GoOn([dev EXCEPT !.approved = TRUE,
                   !.signs = IF dev.apdu.ins = "sign_psbt" THEN Psbt[dev.apdu.job.arg].signs
                             ELSE <<>>])
        /\ UNCHANGED past
     \/ /\ GiveUp(dev.apdu, "Deny")
        /\ past' = past \cup {<<"declined", dev.apdu.of>>}
  /\ UNCHANGED <<call, result, out, calls, faults>>

Next == HostNext \/ DeviceReads \/ UserDecides

\* The executor polls the call, the device answers and the user decides: nothing
\* obliges anybody to drop a call or to start another.
Fairness == WF_vars(ReadPacket) /\ WF_vars(DeviceReads) /\ WF_vars(UserDecides)

Spec == Init /\ [][Next]_vars /\ Fairness

-----------------------------------------------------------------------------
(* Properties.                                                             *)

\* The variables have their types; of an answer too long for the command that
\* carries it, what does not fit is in the queue.
TypeOK ==
  /\ call.st \in {"none", "Running", "Fingerprint", "Xpub", "WalletAddress"}
  /\ call.n \in 0..MaxCalls /\ call.job \in Jobs \cup {NoJob}
  /\ ~Calling => call = NoCall
  /\ call.display \in BOOLEAN /\ call.read \in {0, 1}
  /\ \A i \in DOMAIN call.store.queue : call.store.queue[i].size \in {1, HashLen}
  /\ result.status \in {"none", "ok", "err", "panic"} /\ result.job \in Jobs \cup {NoJob}
  /\ \A i \in DOMAIN out : out[i].of \in 1..MaxCalls /\ AnswerLength(out[i].answer) <= MaxData
  /\ \A i \in DOMAIN in : in[i].index < Packets(in[i].reply)
  /\ dev.st \in {"idle", "interrupted", "user"} /\ \A v \in dev.view : Len(v) = 4
  /\ past \subseteq {"failed", "dropped", "declined"} \X (0..MaxCalls)
  /\ calls \in 0..MaxCalls /\ faults \in 0..MaxFaults

DroppedCalls == {x \in past : x[1] = "dropped"}

Kind(cmd) ==
  CASE cmd = "Unlock" -> "done"
    [] cmd = "GetInfo" -> "version"
    [] cmd = "GetFingerprint" -> "fingerprint"
    [] cmd = "GetXpub" -> "xpub"
    [] cmd \in {"ByPath", "ByDescriptor"} -> "address"
    [] cmd = "RegisterWallet" -> "hmac"
    [] cmd = "SignMessage" -> "signature"
    [] OTHER -> "psbt"

\* The signatures a device makes that a PSBT has a place for.
Signs(p) == {Psbt[p].signs[i].sig : i \in {j \in DOMAIN Psbt[p].signs : Psbt[p].signs[j].kind = "partial"}}

\* The least a device asks for a PSBT: the policy, a proof and a preimage for each
\* of an input and an output, and that a signature is taken.
LeastQuestions == 6

\* What a call returns was made by the device for this call, is of the kind and
\* the argument asked for, and a signed PSBT has every signature the device gave,
\* although they came one by one among questions about the PSBT.  A dropped call
\* leaves a reply to the next, and the PSBT then may lack signatures.  That it has
\* those of another PSBT takes more dropped calls than a device has questions: a
\* yield that is read late is followed by a refusal, unless the replies of as many
\* calls have answered the device in their place.
OwnAnswer ==
  result.status = "ok" =>
    /\ result.job.cmd = "SignTx" /\ Cardinality(DroppedCalls) <= LeastQuestions =>
         result.sigs \subseteq Signs(result.job.arg)
    /\ DroppedCalls = {} =>
         /\ result.of = calls
         /\ result.what = Kind(result.job.cmd)
         /\ result.arg = result.job.arg
         /\ result.job.cmd = "SignTx" => result.sigs = Signs(result.job.arg)

Pairs(where, i, mapping) == {<<where, i, mapping[n][1].tag, mapping[n][2].tag>> : n \in DOMAIN mapping}
Policy(w) ==
  {<<1, 0, 0, Wallet[w].template.tag>>}
    \cup {<<1, i, 0, Wallet[w].keys[i].tag>> : i \in DOMAIN Wallet[w].keys}

\* What a command is about.
Given(apdu) ==
  LET psbt == Psbt[apdu.job.arg]
  IN  CASE apdu.ins = "sign_psbt" ->
             Policy(apdu.job.ctx) \cup Pairs(2, 0, psbt.global)
               \cup UNION {Pairs(3, i, psbt.inputs[i]) : i \in DOMAIN psbt.inputs}
               \cup UNION {Pairs(4, i, psbt.outputs[i]) : i \in DOMAIN psbt.outputs}
        [] apdu.ins = "sign_message" ->
             {<<5, i, 0, Chunks[apdu.job.arg][i].tag>> : i \in DOMAIN Chunks[apdu.job.arg]}
        [] apdu.ins = "register_wallet" -> Policy(apdu.job.arg)
        [] apdu.ins = "get_wallet_address" ->
             Policy(IF apdu.job.cmd = "ByPath" THEN apdu.job.arg ELSE apdu.job.ctx)
        [] OTHER -> {}

\* What the device shows its user is what the caller gave: every pair of every
\* map, under its key, in the input or output it belongs to, although the device
\* got it in pieces by hash and index, and had the rest of some answers later.
DeviceSees == dev.st = "user" => dev.view = Given(dev.apdu)

\* What a call may be refused for: a command that cannot be converted, a path
\* that is too short or not known, a descriptor without its wallet.
Refusable(job) ==
  \/ Rejected(job)
  \/ job.cmd = "ByPath" /\ job.arg \in {"short", "odd"}
  \/ job.cmd = "ByDescriptor" /\ job.ctx = "none"

\* A call nothing interferes with fails only if it is refused so or by the user:
\* each question of the device finds its answer in the store, each proof leads to
\* its root, and the queue holds what is left of the answer the device is at.  It
\* panics at a list without elements, and otherwise only after a dropped call.
FailsForAReason ==
  /\ result.status = "err" =>
       \/ Refusable(result.job)
       \/ <<"declined", calls>> \in past
       \/ \E x \in past : x[1] \in {"dropped", "failed"}
  /\ result.status = "panic" => EmptyList(result.job) \/ DroppedCalls # {}

\* Every call ends: whatever the device asks and however often.  (A reply of which
\* a dropped call read the first packet makes the next call fail, not wait.)
CallReturns == Calling ~> ~Calling
=============================================================================
