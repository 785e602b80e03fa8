----------------------------- MODULE CliDevices -----------------------------
(***************************************************************************)
(* How a process of bhwi-cli gets at its device: the enumerators of the    *)
(* four types (bhwi-cli/src/{bitbox,coldcard,jade,ledger}.rs), the search  *)
(* of DeviceManager and the two listings (bhwi-cli/src/lib.rs, hwi.rs and  *)
(* bin/bhwi.rs), over the HWI trait (bhwi-async/src/lib.rs).  The commands *)
(* are those of CliCommands.                                               *)
(*                                                                         *)
(* A process opens the devices that fit its selector, in the order of the  *)
(* types, unlocks them one after another until one has the fingerprint     *)
(* asked for, and reads its state.  Devices are unplugged, refuse, or are  *)
(* open in another program.                                                *)
(*                                                                         *)
(* Abstracted: a call of the HWI trait is one step, as its interpreter     *)
(* promises (BitBoxSession, BitBoxManage, ColdcardSession, JadeSession and *)
(* LedgerClient); what is printed; the pairing of a BitBox02 is part of    *)
(* its unlocking.  "bhwi" ends every error with one exit code, "exit".     *)
(***************************************************************************)
EXTENDS Descriptors
LOCAL INSTANCE SequencesExt

CONSTANTS
  Catalogue,   \* the devices: [device -> type, paths, model and whether it is emulated]
  MaxFaults    \* devices unplugged, keypresses and files lost

VARIABLES
  bus,      \* the devices plugged in, in the order the system lists them
  world,    \* the state of each device: seed, whether it is ready, locked or blank,
            \* and whether it can be opened
  run,      \* the process
  log,      \* the calls its devices have answered
  faults

DeviceTypes == <<"bitbox02", "coldcard", "jade", "ledger">>

NoAnswer == [kind |-> "none", code |-> "none", value |-> <<>>]
Error(code) == [kind |-> "error", code |-> code, value |-> <<>>]
Answer(value) == [kind |-> "ok", code |-> "none", value |-> value]
\* bhwi ends without a word and without an error when no device fits.
Silent == [kind |-> "silent", code |-> "none", value |-> <<>>]

\* A process: what it does next, its request, the devices it opened and those
\* it has still to try, the one it works on with what it knows of it, the
\* calls it has still to make, what they gave, and what it changed on the host.
NewRun(request) ==
  [pc |-> "enumerate", req |-> request, found |-> <<>>, left |-> <<>>, dev |-> "none",
   fingerprint |-> "none", initialized |-> "unknown", todo |-> <<>>, got |-> <<>>,
   written |-> {}, answer |-> NoAnswer]

IsHwi(r) == r.req.bin = "hwi"
End(r, answer) == [r EXCEPT !.pc = "done", !.answer = answer]
\* An error: hwi has codes, bhwi one.
Fail(r, code) == End(r, Error(IF IsHwi(r) THEN code ELSE "exit"))
At(r, pc) == [r EXCEPT !.pc = pc]

TypeOf(d) == Catalogue[d].type

-----------------------------------------------------------------------------
(* The HWI trait: what each method may give.  Every call may also fail.    *)

Plugged(d) == d \in ToSet(bus)
Seeded(d) == world[d].state = "ready"
OfSeeded(d, values) == IF Seeded(d) THEN values ELSE {}
OfBitBox(d, values) == IF TypeOf(d) = "bitbox02" THEN values ELSE {}

UnlockReplies(d) == IF world[d].state = "locked" THEN {} ELSE {TRUE}

\* Only a BitBox02 tells whether it is initialized.
InfoReplies(d) ==
  {IF TypeOf(d) # "bitbox02" THEN "unknown" ELSE IF world[d].state = "blank" THEN "no" ELSE "yes"}

FingerprintReplies(d) == OfSeeded(d, {world[d].seed})
XpubReplies(d, path) == OfSeeded(d, {<<world[d].seed, path>>})
MessageReplies(d, path) == OfSeeded(d, {<<world[d].seed, path>>})

\* The address of a path, of a registered policy or of a multisig.  A BitBox02
\* shows no legacy addresses, a Ledger needs the registered policy.
AddressReplies(d, ask) ==
  IF \/ ask.how = "path" /\ TypeOf(d) = "bitbox02" /\ ask.type = "legacy"
     \/ ask.how = "descriptor" /\ TypeOf(d) \in {"ledger", "bitbox02"} /\ ~ask.context
     \/ ask.how = "multisig" /\ TypeOf(d) \notin {"coldcard", "jade"}
  THEN {} ELSE OfSeeded(d, {[seed |-> world[d].seed, of |-> ask]})

NoMulti == [type |-> "none", threshold |-> 0, keys |-> <<>>]
NoHmac == [seed |-> "none", multi |-> NoMulti]
NoPolicy == [kind |-> "none", account |-> <<>>, key |-> <<>>, multi |-> NoMulti, hmac |-> NoHmac]

\* A Ledger keeps no wallet: it gives the caller a code for it.
RegisterReplies(d, multi) ==
  OfSeeded(d, {IF TypeOf(d) = "ledger" THEN [seed |-> world[d].seed, multi |-> multi] ELSE NoHmac})

AllSources(input) == Sources(input) \cup {input.tap[k] : k \in DOMAIN input.tap}
OwnInput(input, seed) == \E s \in AllSources(input) : s.fingerprint = seed

\* The inputs a policy of a Ledger stands for.
InputOfAccount(input, policy, seed) ==
  /\ input.type = CASE policy.account[1] = H(44) -> "legacy" [] policy.account[1] = H(49) -> "sh_wit"
                    [] policy.account[1] = H(84) -> "wit" [] policy.account[1] = H(86) -> "tap"
  /\ \E s \in AllSources(input) : s.fingerprint = seed /\ IsPrefix(policy.account, s.path)
InputOfWallet(psbt, input, policy, seed) ==
  /\ DescribesMultisig(psbt, input, seed)
  /\ LET multi == MultisigPolicyDescriptor(psbt, input) IN
       /\ multi.type = policy.multi.type /\ multi.threshold = policy.multi.threshold
       /\ ToSet(multi.keys) = ToSet(policy.multi.keys)

Signs(d, psbt, policy) ==
  {i \in DOMAIN psbt.inputs :
     LET input == psbt.inputs[i] seed == world[d].seed IN
     CASE TypeOf(d) # "ledger" -> OwnInput(input, seed)
       [] policy.kind = "single" -> InputOfAccount(input, policy, seed)
       [] policy.kind = "multi" -> InputOfWallet(psbt, input, policy, seed)}

\* A Ledger signs for one policy, a registered one with its code; a Coldcard takes none.
SignReplies(d, ask) ==
  IF \/ TypeOf(d) = "coldcard" /\ ask.policy.kind # "none"
     \/ TypeOf(d) = "ledger" /\ ask.policy.kind = "none"
     \/ TypeOf(d) = "ledger" /\ ask.policy.kind = "multi"
          /\ ask.policy.hmac # [seed |-> world[d].seed, multi |-> ask.policy.multi]
  THEN {} ELSE OfSeeded(d, {Signs(d, ask.psbt, ask.policy)})

BackupReplies(d) ==
  CASE TypeOf(d) = "bitbox02" -> OfSeeded(d, {"complete"})
    [] TypeOf(d) = "coldcard" -> OfSeeded(d, {"file"})
    [] OTHER -> {}

\* Setting up is declined at the password or at the backup, wiping on the screen.
SetupReplies(d) == IF world[d].state = "blank" THEN OfBitBox(d, {TRUE, FALSE}) ELSE {}
RestoreReplies(d) == IF world[d].state = "blank" THEN OfBitBox(d, {TRUE}) ELSE {}
WipeReplies(d) == OfBitBox(d, OfSeeded(d, {TRUE, FALSE}))
ToggleReplies(d) == OfBitBox(d, OfSeeded(d, {TRUE}))

Replies(d, op, arg) ==
  CASE ~Plugged(d) -> {}
    [] op = "unlock" -> UnlockReplies(d)
    [] op = "info" -> InfoReplies(d)
    [] op = "fingerprint" -> FingerprintReplies(d)
    [] op = "xpub" -> XpubReplies(d, arg)
    [] op = "message" -> MessageReplies(d, arg)
    [] op = "address" -> AddressReplies(d, arg)
    [] op = "register" -> RegisterReplies(d, arg)
    [] op = "sign" -> SignReplies(d, arg)
    [] op = "backup" -> BackupReplies(d)
    [] op = "setup" -> SetupReplies(d)
    [] op = "restore" -> RestoreReplies(d)
    [] op = "wipe" -> WipeReplies(d)
    [] op = "toggle" -> ToggleReplies(d)

\* What a call leaves of the devices.  One that is declined late or whose
\* answer is lost may have taken effect: a set up is done before its backup.
Outcomes(d, op, full, success) ==
  LET Becomes(state, seed) == [world EXCEPT ![d].state = state, ![d].seed = seed]
      Either(w) == IF full THEN {w} ELSE {world, w}
  IN  CASE ~Plugged(d) \/ TypeOf(d) # "bitbox02" -> {world}
        [] op = "setup" /\ world[d].state = "blank" -> Either(Becomes("ready", "fresh"))
        [] op = "restore" /\ world[d].state = "blank" -> Either(Becomes("ready", "restored"))
        [] op = "wipe" /\ Seeded(d) /\ success -> Either(Becomes("blank", "none"))
        [] OTHER -> {world}

Entry(d, op, arg, ok, value) ==
  [dev |-> d, op |-> op, arg |-> arg, ok |-> ok, value |-> value, seed |-> world[d].seed]

\* The methods that change a device report whether they did.
Reported(op, v) == op \in {"setup", "restore", "wipe", "toggle"} => v

\* run_command, as its caller sees it: it gives a value, or fails, having done
\* something or nothing.
CallGives(d, op, arg, v) ==
  /\ log' = Append(log, Entry(d, op, arg, TRUE, v))
  /\ world' \in Outcomes(d, op, Reported(op, v), Reported(op, v))

CallFails(d, op, arg) ==
  /\ log' = Append(log, Entry(d, op, arg, FALSE, <<>>))
  /\ world' \in Outcomes(d, op, FALSE, TRUE)

\* The run goes on with the value, or in one of the ways of Else without.
Call(d, op, arg, Then(_), Else) ==
  \/ \E v \in Replies(d, op, arg) : CallGives(d, op, arg, v) /\ run' = Then(v)
  \/ CallFails(d, op, arg) /\ run' \in Else

-----------------------------------------------------------------------------
(* The devices that fit.                                                   *)

\* hwi takes the path of a known emulator for the flag, bhwi always looks.
IncludeEmulators(req) ==
  \/ req.bin = "bhwi" \/ req.sel.emulators
  \/ \E d \in DOMAIN Catalogue :
       Catalogue[d].emulated /\ TypeOf(d) = req.sel.type /\ req.sel.path \in Catalogue[d].paths

Matches(req, d) ==
  /\ req.sel.type \in {"none", TypeOf(d)}
  /\ req.sel.path = "none" \/ req.sel.path \in Catalogue[d].paths

Fits(req, d) == Matches(req, d) /\ (Catalogue[d].emulated => IncludeEmulators(req))

Types(req) == IF req.sel.type = "none" THEN DeviceTypes ELSE <<req.sel.type>>

\* The hardware of a type, then its emulator if it can be connected to.
OfType(req, type) ==
  LET Hardware(d) == TypeOf(d) = type /\ Fits(req, d) /\ ~Catalogue[d].emulated
      Emulator(d) == TypeOf(d) = type /\ Fits(req, d) /\ Catalogue[d].emulated /\ world[d].openable
  IN  SelectSeq(bus, Hardware) \o SelectSeq(bus, Emulator)

Found(req) == FlattenSeq([i \in DOMAIN Types(req) |-> OfType(req, Types(req)[i])])

\* Hardware that cannot be opened fails the whole enumeration.
CannotOpen(req) == \E i \in DOMAIN Found(req) : ~world[Found(req)[i]].openable

Listing(req) == req.cmd \in {"enumerate", "list"}

Enumerate ==
  /\ run.pc = "enumerate"
  /\ run' = IF CannotOpen(run.req) THEN Fail(run, "DeviceConnectionError")
            ELSE [run EXCEPT !.found = Found(run.req), !.left = Found(run.req),
                             !.pc = IF Listing(run.req) THEN "list" ELSE "search"]
  /\ UNCHANGED <<bus, world, log, faults>>

-----------------------------------------------------------------------------
(* The search.                                                             *)

ConnectionError == Fail(run, "DeviceConnectionError")

NothingFits ==
  /\ run.pc = "search" /\ run.left = <<>>
  /\ run' = IF IsHwi(run) THEN ConnectionError ELSE End(run, Silent)
  /\ UNCHANGED <<bus, world, log, faults>>

\* Mutant: a device that refuses is passed over.
UnlockNext_SkipsRefusing ==
  /\ run.pc = "search" /\ run.left # <<>>
  /\ LET Unlocked(v) ==
           [run EXCEPT !.dev = Head(run.left),
                       !.pc = IF run.req.sel.fingerprint = "none" THEN "info" ELSE "compare"]
         Passed == [run EXCEPT !.left = Tail(run.left)]
     IN  Call(Head(run.left), "unlock", run.req.sel.network, Unlocked, {Passed})
  /\ UNCHANGED <<bus, faults>>

\* The next device is unlocked; one that refuses ends the search.
UnlockNext ==
  /\ run.pc = "search" /\ run.left # <<>>
  /\ LET Unlocked(v) ==
           [run EXCEPT !.dev = Head(run.left),
                       !.pc = IF run.req.sel.fingerprint = "none" THEN "info" ELSE "compare"]
     IN  Call(Head(run.left), "unlock", run.req.sel.network, Unlocked, {ConnectionError})
  /\ UNCHANGED <<bus, faults>>

\* Mutant: the fingerprint is read and not compared.
Compare_TakesAny ==
  /\ run.pc = "compare"
  /\ LET Compared(v) == [run EXCEPT !.fingerprint = v, !.pc = "info"]
     IN  Call(run.dev, "fingerprint", "none", Compared, {ConnectionError})
  /\ UNCHANGED <<bus, faults>>

Compare ==
  /\ run.pc = "compare"
  /\ LET Compared(v) ==
           IF v = run.req.sel.fingerprint THEN [run EXCEPT !.fingerprint = v, !.pc = "info"]
           ELSE [run EXCEPT !.dev = "none", !.left = Tail(run.left), !.pc = "search"]
     IN  Call(run.dev, "fingerprint", "none", Compared, {ConnectionError})
  /\ UNCHANGED <<bus, faults>>

ReadInfo ==
  /\ run.pc = "info"
  /\ LET Told(v) == [run EXCEPT !.initialized = v, !.pc = "check"]
     IN  Call(run.dev, "info", "none", Told, {ConnectionError})
  /\ UNCHANGED <<bus, faults>>

-----------------------------------------------------------------------------
(* The listings.                                                           *)

\* hwi keeps the error of a device in its entry, bhwi ends with it.
Listed(fingerprint, error) ==
  [run EXCEPT !.pc = "list", !.left = Tail(run.left), !.dev = "none",
              !.got = Append(run.got, [dev |-> Head(run.left), fingerprint |-> fingerprint,
                                       error |-> error])]
NotListed == IF IsHwi(run) THEN Listed("none", TRUE) ELSE Fail(run, "exit")

ListEnds ==
  /\ run.pc = "list" /\ run.left = <<>>
  /\ run' = End(run, Answer(run.got))
  /\ UNCHANGED <<bus, world, log, faults>>

ListUnlock ==
  /\ run.pc = "list" /\ run.left # <<>>
  /\ LET Unlocked(v) == [run EXCEPT !.dev = Head(run.left),
                                    !.pc = IF IsHwi(run) THEN "listfingerprint" ELSE "listinfo"]
     IN  Call(Head(run.left), "unlock", run.req.sel.network, Unlocked, {NotListed})
  /\ UNCHANGED <<bus, faults>>

\* bhwi asks a device that is not initialized for nothing more.
ListInfo ==
  /\ run.pc = "listinfo"
  /\ LET Told(v) == IF v = "no" THEN Listed("none", FALSE) ELSE At(run, "listfingerprint")
     IN  Call(run.dev, "info", "none", Told, {NotListed})
  /\ UNCHANGED <<bus, faults>>

ListFingerprint ==
  /\ run.pc = "listfingerprint"
  /\ LET Told(v) == Listed(v, FALSE)
     IN  Call(run.dev, "fingerprint", "none", Told, {NotListed})
  /\ UNCHANGED <<bus, faults>>

-----------------------------------------------------------------------------
Unplug ==
  /\ faults < MaxFaults /\ run.pc # "done"
  /\ \E i \in DOMAIN bus : bus' = RemoveAt(bus, i)
  /\ faults' = faults + 1
  /\ UNCHANGED <<world, run, log>>

SearchNext ==
  \/ Enumerate \/ NothingFits \/ UnlockNext \/ Compare \/ ReadInfo
  \/ ListEnds \/ ListUnlock \/ ListInfo \/ ListFingerprint
  \/ Unplug
=============================================================================
