----------------------------- MODULE CliCommands -----------------------------
(***************************************************************************)
(* The commands of bhwi-cli's two binaries, hwi (bhwi-cli/src/hwi.rs) and  *)
(* bhwi (bhwi-cli/src/bin/bhwi.rs): what each refuses, the calls it makes  *)
(* on the device that CliDevices found for it, and the answer it gives.    *)
(*                                                                         *)
(* Abstracted: account numbers and indexes are in range, the clock gives a *)
(* date that fits its field, so that setting up and restoring have their   *)
(* context, a descriptor has only characters that its checksum takes, and  *)
(* the temporary sockets of the Coldcard's keypresses are free.            *)
(***************************************************************************)
EXTENDS CliDevices
LOCAL INSTANCE SequencesExt

CONSTANTS
  Scenarios,   \* what is plugged in, and the state of the devices
  Requests,    \* the command lines
  MaxRuns      \* processes started one after another

VARIABLE runs

vars == <<bus, world, run, log, faults, runs>>

-----------------------------------------------------------------------------
(* The command line.                                                       *)

Targeted == {"getmasterxpub", "getxpub", "signtx", "signmessage", "displayaddress",
             "getdescriptors", "getkeypool", "backup", "setup", "wipe", "restore",
             "togglepassphrase", "promptpin", "sendpin"}

HasTarget(req) == req.sel.type # "none" \/ req.sel.fingerprint # "none"

\* request_from_cli, and what each command of hwi refuses before it looks for
\* a device.
RefusedByHwi(req) ==
  CASE req.sel.type \notin ToSet(DeviceTypes) \cup {"none"} -> "UnknownDevice"
    [] req.cmd = "displayaddress" /\ req.target = "none" -> "BadArgument"
    [] req.cmd \notin Targeted \cup {"enumerate", "installudevrules"} -> "UnsupportedCommand"
    [] req.cmd \in Targeted /\ ~HasTarget(req) -> "NoDeviceType"
    [] req.cmd = "signtx" /\ ~req.psbt.parses -> "BadArgument"
    [] req.cmd = "getkeypool" /\ req.start > req.end -> "BadArgument"
    [] OTHER -> "none"

\* The same for bhwi: an address of a path or of a descriptor, a transaction
\* with a wallet's name and descriptor or neither, targets or all of them.
RefusedByBhwi(req) ==
  \/ req.cmd = "address" /\ req.target = "none"
  \/ req.cmd = "signpsbt" /\ (~req.psbt.parses \/ req.partial)
  \/ req.cmd = "installudevrules" /\ (req.all <=> req.targets # {})

\* The rules a selection stands for.  hwi installs all of them; those of
\* other makers and of the BitBox02 belong to no type.
TypesWithRules == {"coldcard", "jade", "ledger"}
RulesForSelection(req) ==
  CASE req.bin = "hwi" -> TypesWithRules \cup {"others"}
    [] req.all -> TypesWithRules
    [] OTHER -> TypesWithRules \cap req.targets

UdevSteps == <<"user", "copy", "trigger", "reload", "groupadd", "usermod">>

Started(req) ==
  CASE req.bin = "hwi" /\ RefusedByHwi(req) # "none" -> Fail(NewRun(req), RefusedByHwi(req))
    [] req.bin = "bhwi" /\ RefusedByBhwi(req) -> Fail(NewRun(req), "exit")
    [] req.cmd = "installudevrules" -> [NewRun(req) EXCEPT !.pc = "udev", !.todo = UdevSteps]
    [] OTHER -> NewRun(req)

StartRun ==
  /\ runs < MaxRuns /\ run.pc \in {"idle", "done"}
  /\ \E req \in Requests : run' = Started(req)
  /\ runs' = runs + 1 /\ log' = <<>>
  /\ UNCHANGED <<bus, world, faults>>

-----------------------------------------------------------------------------
(* The calls of a command.                                                 *)

Do(op, arg) == [op |-> op, arg |-> arg, of |-> <<>>]
Ask(r, calls) == [r EXCEPT !.pc = "call", !.todo = calls]

GetXpub(r) ==
  Ask(r, <<Do("xpub", IF r.req.cmd = "getmasterxpub"
                      THEN MasterXpubPath(r.req.type, r.req.sel.network, r.req.account)
                      ELSE r.req.path)>>)

SignMessage(r) == Ask(r, <<Do("message", r.req.path)>>)

UnsupportedDeviceAction(r) == Fail(r, "UnsupportedCommand")

\* What hwi refuses of a device it knows the state of; bhwi leaves it to the device.
SetupDevice(r) ==
  IF \/ ~r.req.interactive \/ TypeOf(r.dev) # "bitbox02"
     \/ r.req.passphrase \/ r.initialized = "yes"
  THEN Fail(r, "UnsupportedCommand") ELSE Ask(r, <<Do("setup", "none")>>)

RestoreDevice(r) ==
  IF ~r.req.interactive \/ TypeOf(r.dev) # "bitbox02" \/ r.initialized = "yes"
  THEN Fail(r, "UnsupportedCommand") ELSE Ask(r, <<Do("restore", "none")>>)

WipeDevice(r) ==
  CASE TypeOf(r.dev) # "bitbox02" -> Fail(r, "UnsupportedCommand")
    [] r.initialized = "no" -> Fail(r, "DeviceNotInitialized")
    [] OTHER -> Ask(r, <<Do("wipe", "none")>>)

TogglePassphraseDevice(r) ==
  CASE TypeOf(r.dev) # "bitbox02" -> Fail(r, "UnsupportedCommand")
    [] r.initialized = "no" -> Fail(r, "DeviceNotInitialized")
    [] OTHER -> Ask(r, <<Do("toggle", "none")>>)

ManageDevice(r, op) ==
  IF TypeOf(r.dev) # "bitbox02" THEN Fail(r, "exit") ELSE Ask(r, <<Do(op, "none")>>)

BackupDevice(r) ==
  IF /\ IsHwi(r)
     /\ \/ TypeOf(r.dev) = "bitbox02" /\ (r.req.label \/ r.req.passphrase)
        \/ TypeOf(r.dev) \in {"ledger", "jade"}
  THEN Fail(r, "UnsupportedCommand") ELSE Ask(r, <<Do("backup", "none")>>)

-----------------------------------------------------------------------------
(* Descriptors.                                                            *)

\* The pairs of two lists, the second running faster.
Pairs(outer, inner) ==
  FlattenSeq([i \in DOMAIN outer |-> [j \in DOMAIN inner |-> <<outer[i], inner[j]>>]])

\* A descriptor is asked for by the key of its origin.
DescriptorCall(type, internal, path) ==
  [op |-> "xpub", arg |-> Origin(path),
   of |-> [type |-> type, internal |-> internal, path |-> path]]

AccountCall(r, type, internal) ==
  DescriptorCall(type, internal, AccountTarget(type, r.req.sel.network, r.req.account, internal))

GetDescriptors(r) ==
  LET pairs == Pairs(<<FALSE, TRUE>>, DescriptorTypes(Catalogue[r.dev]))
  IN  Ask(r, [i \in DOMAIN pairs |-> AccountCall(r, pairs[i][2], pairs[i][1])])

GetKeypool(r) ==
  LET pairs == Pairs(KeypoolTypes(r.req, Catalogue[r.dev]), KeypoolBranches(r.req)) IN
  CASE ~r.req.all /\ r.req.type = "tap" /\ ~CanSignTaproot(Catalogue[r.dev]) ->
         Fail(r, "UnsupportedCommand")
    [] r.req.path # <<>> /\ ~r.req.wellFormed -> Fail(r, "BadArgument")
    [] OTHER -> Ask(r, [i \in DOMAIN pairs |->
                          IF r.req.path = <<>> THEN AccountCall(r, pairs[i][1], pairs[i][2])
                          ELSE DescriptorCall(pairs[i][1], pairs[i][2], r.req.path)])

\* bhwi's: every type, and one keypool of a path.
GetPubkeyDescriptors(r) ==
  LET pairs == Pairs(<<"legacy", "wit", "sh_wit", "tap">>, <<FALSE, TRUE>>)
  IN  Ask(r, [i \in DOMAIN pairs |-> AccountCall(r, pairs[i][1], pairs[i][2])])

GetKeypoolOfPath(r) ==
  IF r.req.start > r.req.end \/ HasHardenedAfterUnhardened(r.req.path) THEN Fail(r, "exit")
  ELSE Ask(r, <<DescriptorCall(r.req.type, r.req.internal,
                               KeypoolDescriptorPath(r.req.path, r.req.internal))>>)

\* Mutant: the last key does not end the command.
OnDescriptorKey_NoEnd(r, xpub) ==
  LET of == Head(r.todo).of
  IN  [r EXCEPT !.todo = Tail(r.todo),
                !.got = Append(r.got, [internal |-> of.internal,
                                       desc |-> Descriptor(of.type, r.fingerprint, of.path, xpub)])]

OnDescriptorKey(r, xpub) ==
  LET of == Head(r.todo).of
      next == [r EXCEPT !.todo = Tail(r.todo),
                        !.got = Append(r.got, [internal |-> of.internal,
                                               desc |-> Descriptor(of.type, r.fingerprint,
                                                                   of.path, xpub)])]
  IN  IF next.todo = <<>> THEN End(next, Answer(next.got)) ELSE next

-----------------------------------------------------------------------------
(* Transactions.                                                           *)

Sign(r, policy) == Ask(r, <<Do("sign", [psbt |-> r.req.psbt, policy |-> policy])>>)

\* Mutant: a transaction the device was asked to sign counts as signed.
Result_Sent(psbt, signatures) ==
  [signed |-> TRUE, signatures |-> signatures \cup psbt.signed]

Result(psbt, signatures) == [signed |-> ~(signatures \subseteq psbt.signed),
                             signatures |-> signatures \cup psbt.signed]

\* Mutant: the first of several accounts is taken.
LedgerSigningContext_FirstAccount(r) ==
  LET accounts == LedgerSinglesigAccounts(r.req.psbt, r.fingerprint)
      wallets == LedgerMultisigPolicies(r.req.psbt, r.fingerprint)
  IN  CASE accounts # {} -> Ask(r, <<Do("xpub", CHOOSE a \in accounts : TRUE)>>)
        [] accounts = {} /\ wallets # {} -> Ask(r, <<Do("register", CHOOSE w \in wallets : TRUE)>>)
        [] OTHER -> End(r, Answer(Result(r.req.psbt, {})))

\* The wallet a Ledger is to sign for: the account of its single keys, else
\* the multisig it has a key of, registered first; a transaction with neither
\* is given back as it is.
LedgerSigningContext(r) ==
  LET accounts == LedgerSinglesigAccounts(r.req.psbt, r.fingerprint)
      wallets == LedgerMultisigPolicies(r.req.psbt, r.fingerprint)
  IN  CASE Cardinality(accounts) = 1 -> Ask(r, <<Do("xpub", CHOOSE a \in accounts : TRUE)>>)
        [] Cardinality(accounts) > 1 -> Fail(r, "BadArgument")
        [] HasGarbledScript(r.req.psbt) \/ Cardinality(wallets) > 1 -> Fail(r, "BadArgument")
        [] Cardinality(wallets) = 1 -> Ask(r, <<Do("register", CHOOSE w \in wallets : TRUE)>>)
        [] OTHER -> End(r, Answer(Result(r.req.psbt, {})))

SignTx(r) == IF TypeOf(r.dev) = "ledger" THEN LedgerSigningContext(r) ELSE Sign(r, NoPolicy)

SinglesigPolicy(account, xpub) ==
  [kind |-> "single", account |-> account, key |-> xpub, multi |-> NoMulti, hmac |-> NoHmac]

MultisigPolicy(multi, hmac) ==
  [kind |-> "multi", account |-> <<>>, key |-> <<>>, multi |-> multi, hmac |-> hmac]

OnAccountKey(r, xpub) == Sign(r, SinglesigPolicy(Head(r.todo).arg, xpub))

OnWalletRegistered(r, hmac) ==
  IF hmac = NoHmac THEN Fail(r, "BadArgument") ELSE Sign(r, MultisigPolicy(Head(r.todo).arg, hmac))

\* bhwi takes the wallet from its caller.
SignPsbt(r) == Sign(r, r.req.policy)

-----------------------------------------------------------------------------
(* Addresses.                                                              *)

Address(how, type, path, wallet, context) ==
  [how |-> how, type |-> type, path |-> path, wallet |-> wallet, context |-> context]
ShowPath(r, type, path) ==
  Ask(r, <<Do("address", Address("path", type, path, r.req.descriptor, FALSE))>>)

SinglesigDisplayAddress(r) ==
  IF r.req.descriptor.fingerprint # r.fingerprint THEN Fail(r, "BadArgument")
  ELSE Ask(r, <<Do("xpub", r.req.descriptor.origin)>>)

\* A descriptor that is no single key is tried as a multisig, where devices show those.
MultisigDisplayAddress(r) ==
  IF TypeOf(r.dev) \in {"coldcard", "jade"} /\ ParsesAsMultisigDescriptor(r.req.descriptor)
  THEN Ask(r, <<Do("address", Address("multisig", "none", <<>>, r.req.descriptor, FALSE))>>)
  ELSE Fail(r, "BadArgument")

DisplayAddress(r) ==
  CASE r.req.target = "path" /\ r.req.type = "tap" /\ TypeOf(r.dev) = "coldcard" ->
         Fail(r, "UnsupportedCommand")
    [] r.req.target = "path" /\ r.req.type = "tap" /\ TypeOf(r.dev) = "jade" ->
         Fail(r, "DeviceFailure")
    [] r.req.target = "path" -> ShowPath(r, r.req.type, r.req.path)
    [] ParsesAsSinglesig(r.req.descriptor) -> SinglesigDisplayAddress(r)
    [] OTHER -> MultisigDisplayAddress(r)

\* The key of the descriptor is the device's, or it is not shown.
OnDescriptorOwner(r, xpub) ==
  IF r.req.descriptor.key = xpub THEN ShowPath(r, r.req.descriptor.type, FullPath(r.req.descriptor))
  ELSE Fail(r, "BadArgument")

\* The errors of the device by what their text contains.
DisplayAddressErrors(r) ==
  {Fail(r, "DeviceConnectionError")}
  \cup (IF TypeOf(r.dev) \in {"bitbox02", "jade", "ledger"} THEN {Fail(r, "UnsupportedCommand")}
        ELSE {Fail(r, "BadArgument")})

\* bhwi: a BitBox02 is given the wallet again, a Ledger with its code or not at all.
GetAddress(r) ==
  LET type == TypeOf(r.dev) IN
  CASE r.req.target = "path" -> ShowPath(r, r.req.type, r.req.path)
    [] type = "bitbox02" /\ ~r.req.wallet -> Fail(r, "exit")
    [] type = "ledger" /\ r.req.wallet # r.req.hmac -> Fail(r, "exit")
    [] OTHER -> Ask(r, <<Do("address",
                            Address("descriptor", "none", <<>>, r.req.descriptor,
                                    type \in {"bitbox02", "ledger"} /\ r.req.wallet))>>)

-----------------------------------------------------------------------------
(* The command on the device that was found.                               *)

NeedsFingerprint(r) ==
  \/ r.req.cmd \in {"getdescriptors", "getkeypool", "pubkeys", "keypool"}
  \/ r.req.cmd = "signtx" /\ TypeOf(r.dev) = "ledger"
  \/ r.req.cmd = "displayaddress" /\ r.req.target = "descriptor" /\ ParsesAsSinglesig(r.req.descriptor)

Planned(r) ==
  CASE r.req.cmd \in {"getmasterxpub", "getxpub", "xpub"} -> GetXpub(r)
    [] r.req.cmd \in {"signmessage", "message"} -> SignMessage(r)
    [] r.req.cmd = "signtx" -> SignTx(r)
    [] r.req.cmd = "signpsbt" -> SignPsbt(r)
    [] r.req.cmd = "displayaddress" -> DisplayAddress(r)
    [] r.req.cmd = "address" -> GetAddress(r)
    [] r.req.cmd = "getdescriptors" -> GetDescriptors(r)
    [] r.req.cmd = "pubkeys" -> GetPubkeyDescriptors(r)
    [] r.req.cmd = "getkeypool" -> GetKeypool(r)
    [] r.req.cmd = "keypool" -> GetKeypoolOfPath(r)
    [] r.req.cmd = "backup" -> BackupDevice(r)
    [] r.req.cmd = "setup" -> IF IsHwi(r) THEN SetupDevice(r) ELSE ManageDevice(r, "setup")
    [] r.req.cmd = "restore" -> IF IsHwi(r) THEN RestoreDevice(r) ELSE ManageDevice(r, "restore")
    [] r.req.cmd = "wipe" -> IF IsHwi(r) THEN WipeDevice(r) ELSE ManageDevice(r, "wipe")
    [] r.req.cmd = "togglepassphrase" ->
         IF IsHwi(r) THEN TogglePassphraseDevice(r) ELSE ManageDevice(r, "toggle")
    [] r.req.cmd = "registerwallet" -> Ask(r, <<Do("register", r.req.multi)>>)
    [] r.req.cmd \in {"promptpin", "sendpin"} -> UnsupportedDeviceAction(r)

Plan ==
  /\ run.pc = "check"
  /\ run' = IF NeedsFingerprint(run) /\ run.fingerprint = "none" THEN At(run, "identify")
            ELSE Planned(run)
  /\ UNCHANGED <<bus, world, log, faults, runs>>

Identify ==
  /\ run.pc = "identify"
  /\ LET Identified(v) == Planned([run EXCEPT !.fingerprint = v])
         Not == Fail(run, IF run.req.cmd = "signtx" THEN "BadArgument" ELSE "DeviceConnectionError")
     IN  Call(run.dev, "fingerprint", "none", Identified, {Not})
  /\ UNCHANGED <<bus, faults, runs>>

\* Results that go to a file, if one is named; hwi names that of a backup.
Written(r, value) == [r EXCEPT !.pc = "write", !.got = <<value>>]
Output(r, value) == IF r.req.output THEN Written(r, value) ELSE End(r, Answer(value))

OnManaged(r, success) == IF IsHwi(r) \/ success THEN End(r, Answer(success)) ELSE Fail(r, "exit")

OnBackup(r, backup) ==
  CASE backup = "complete" -> End(r, Answer(backup))
    [] IsHwi(r) \/ r.req.output -> Written(r, backup)
    [] OTHER -> Fail(r, "exit")

After(r, v) ==
  LET op == Head(r.todo).op cmd == r.req.cmd IN
  CASE op = "xpub" /\ cmd \in {"getdescriptors", "getkeypool", "pubkeys", "keypool"} ->
         OnDescriptorKey(r, v)
    [] op = "xpub" /\ cmd = "signtx" -> OnAccountKey(r, v)
    [] op = "xpub" /\ cmd = "displayaddress" -> OnDescriptorOwner(r, v)
    [] op = "register" /\ cmd = "signtx" -> OnWalletRegistered(r, v)
    [] op = "sign" -> LET result == Result(r.req.psbt, v)
                      IN  IF IsHwi(r) THEN End(r, Answer(result)) ELSE Output(r, result)
    [] op = "message" -> IF IsHwi(r) THEN End(r, Answer(v)) ELSE Output(r, v)
    [] op = "backup" -> OnBackup(r, v)
    [] op \in {"setup", "restore", "wipe", "toggle"} -> OnManaged(r, v)
    [] OTHER -> End(r, Answer(v))

\* A failed call ends the command; those that prepare a Ledger count as its arguments.
Failed(r) ==
  CASE r.req.cmd = "signtx" /\ Head(r.todo).op # "sign" -> {Fail(r, "BadArgument")}
    [] Head(r.todo).op = "address" -> DisplayAddressErrors(r)
    [] OTHER -> {Fail(r, "DeviceConnectionError")}

CallDevice ==
  /\ run.pc = "call"
  /\ LET OnReply(v) == After(run, v)
     IN  Call(run.dev, Head(run.todo).op, Head(run.todo).arg, OnReply, Failed(run))
  /\ UNCHANGED <<bus, faults, runs>>

\* hwi presses the keys of a Coldcard emulator while the call is under way.  If
\* it cannot, the call is waited for and what it gave is dropped.
NeedsKeypress(r) ==
  /\ IsHwi(r) /\ r.pc = "call" /\ TypeOf(r.dev) = "coldcard" /\ Catalogue[r.dev].emulated
  /\ Head(r.todo).op \in {"backup", "message", "address"}

LoseKeypress ==
  /\ NeedsKeypress(run) /\ faults < MaxFaults
  /\ LET Dropped(v) == ConnectionError
     IN  Call(run.dev, Head(run.todo).op, Head(run.todo).arg, Dropped, {ConnectionError})
  /\ faults' = faults + 1
  /\ UNCHANGED <<bus, runs>>

WriteFile ==
  /\ run.pc = "write"
  /\ \/ run' = End([run EXCEPT !.written = {"file"}], Answer(Head(run.got))) /\ faults' = faults
     \/ run' = Fail(run, "DeviceFailure") /\ faults < MaxFaults /\ faults' = faults + 1
  /\ UNCHANGED <<bus, world, log, runs>>

-----------------------------------------------------------------------------
(* The udev rules.                                                         *)

\* One step: the user is known; the files of the rules are written, some of
\* them if one cannot be; a command succeeds, fails, or cannot be run.
\* groupadd may say that there is such a group.
InstallStep ==
  /\ run.pc = "udev"
  /\ LET step == Head(run.todo)
         rules == RulesForSelection(run.req)
         next == [run EXCEPT !.todo = Tail(run.todo),
                             !.written = run.written \cup IF step = "copy" THEN rules ELSE {step}]
         partly == IF step = "copy" THEN {[run EXCEPT !.written = run.written \cup some] : some \in SUBSET rules}
                   ELSE {run}
         denied == IF step = "user" THEN {} ELSE {Fail(r, "NeedToBeRoot") : r \in partly}
     IN  run' \in {IF next.todo = <<>> THEN End(next, Answer(TRUE)) ELSE next}
                 \cup denied \cup {Fail(r, "DeviceFailure") : r \in partly}
  /\ UNCHANGED <<bus, world, log, faults, runs>>

-----------------------------------------------------------------------------
NoRequest == [bin |-> "hwi", cmd |-> "none"]

Init ==
  /\ \E s \in Scenarios : bus = s.bus /\ world = s.world
  /\ run = [NewRun(NoRequest) EXCEPT !.pc = "idle"]
  /\ log = <<>> /\ faults = 0 /\ runs = 0

Next ==
  \/ StartRun
  \/ SearchNext /\ UNCHANGED runs
  \/ Plan \/ Identify \/ CallDevice \/ LoseKeypress \/ WriteFile
  \/ InstallStep

Spec == Init /\ [][Next]_vars

-----------------------------------------------------------------------------
(* The properties.                                                         *)

Devices == DOMAIN Catalogue
Codes == {"NoDeviceType", "UnknownDevice", "BadArgument", "UnsupportedCommand", "DeviceFailure",
          "DeviceConnectionError", "NeedToBeRoot", "DeviceNotInitialized", "exit"}

\* Type correctness: a process that has ended has an answer and no other has,
\* one that makes calls has its device and a call to make, and the devices it
\* has still to try are the last of those it found.
TypeOK ==
  /\ ToSet(bus) \subseteq Devices /\ faults \in 0..MaxFaults /\ runs \in 0..MaxRuns
  /\ \A d \in Devices : world[d].state \in {"ready", "locked", "blank"}
                        /\ ((world[d].seed = "none") <=> (world[d].state = "blank"))
  /\ run.pc \in {"idle", "enumerate", "search", "compare", "info", "list", "listinfo",
                 "listfingerprint", "check", "identify", "call", "write", "udev", "done"}
  /\ run.answer.kind \in (IF run.pc = "done" THEN {"ok", "error", "silent"} ELSE {"none"})
  /\ run.answer.code \in (IF run.answer.kind = "error" THEN Codes ELSE {"none"})
  /\ run.pc \in {"check", "identify", "call", "write"} => run.dev \in ToSet(run.found)
  /\ run.pc = "call" => run.todo # <<>>
  /\ IsSuffix(run.left, run.found)
  /\ \A i \in DOMAIN log : log[i].dev \in ToSet(run.found)

Probes == {"unlock", "info", "fingerprint"}

\* What a selector asks of a device; an emulator is asked for, by hwi.
Asked(req, d) ==
  /\ req.sel.type = "none" \/ TypeOf(d) = req.sel.type
  /\ req.sel.path = "none" \/ req.sel.path \in Catalogue[d].paths
  /\ Catalogue[d].emulated /\ req.bin = "hwi" =>
       req.sel.emulators \/ (req.sel.type = TypeOf(d) /\ req.sel.path \in Catalogue[d].paths)

\* The process touches no device but those its selector asks for, and the
\* calls of its command go to one of them only: the first, in the order they
\* are listed, whose seed has the fingerprint asked for, all before it having
\* told another one.
RightDevice ==
  /\ \A i \in DOMAIN log : Asked(run.req, log[i].dev)
  /\ \A i \in DOMAIN log : log[i].op \notin Probes =>
       /\ log[i].dev = run.dev
       /\ run.req.sel.fingerprint \in {"none", log[i].seed}
       /\ \A j \in 1..(SelectInSeq(run.found, LAMBDA d : d = run.dev) - 1) :
            \E k \in 1..(i - 1) : log[k].dev = run.found[j] /\ log[k].op = "fingerprint"
                                   /\ log[k].ok /\ log[k].value # run.req.sel.fingerprint

Acts == {"sign", "message", "backup", "setup", "restore", "wipe", "toggle"}
AllCallsAnswered == \A i \in DOMAIN log : log[i].ok
\* Every device that was found told another fingerprint.
NoneFits ==
  \A i \in DOMAIN run.found : \E k \in DOMAIN log :
    log[k].dev = run.found[i] /\ log[k].op = "fingerprint" /\ log[k].ok
    /\ log[k].value # run.req.sel.fingerprint

\* No failed call is lost: a command that succeeds, or that finds no device,
\* had an answer to every call, but for the entries of hwi enumerate that say
\* so.  A connection error has a call that failed, a device that cannot be
\* opened, no device that fits, or a keypress lost; and what a process refuses
\* of its command or its device it refuses before the device has done anything.
FailsForAReason ==
  /\ run.answer.kind \in {"ok", "silent"} => AllCallsAnswered \/ run.req.cmd = "enumerate"
  /\ run.answer.kind = "silent" => NoneFits
  /\ run.answer.code = "DeviceConnectionError" =>
       \/ ~AllCallsAnswered
       \/ \E d \in Devices : Asked(run.req, d) /\ ~world[d].openable
       \/ NoneFits
       \/ faults > 0 /\ TypeOf(run.dev) = "coldcard" /\ Catalogue[run.dev].emulated
  /\ run.answer.code \in {"BadArgument", "UnsupportedCommand", "NoDeviceType", "UnknownDevice",
                          "DeviceNotInitialized"} =>
       \A i \in DOMAIN log : log[i].op \notin Acts

Ended(cmds) == run.answer.kind = "ok" /\ run.req.cmd \in cmds
LastCall == log[Len(log)]
Value == run.answer.value

DescriptorTypesAsked ==
  CASE run.req.cmd = "pubkeys" -> {"legacy", "wit", "sh_wit", "tap"}
    [] run.req.cmd = "getdescriptors" \/ (run.req.cmd = "getkeypool" /\ run.req.all) ->
         {"legacy", "wit", "sh_wit"} \cup (IF CanSignTaproot(Catalogue[run.dev]) THEN {"tap"} ELSE {})
    [] OTHER -> {run.req.type}
BranchesAsked ==
  IF run.req.cmd \in {"getkeypool", "keypool"} /\ (run.req.internal \/ run.req.path # <<>>)
  THEN {run.req.internal} ELSE BOOLEAN

\* Descriptors are whole: one of each type and branch, each of a key of the
\* device with its own fingerprint and path, of the branch it stands under.
DescriptorsAreTrue ==
  Ended({"getdescriptors", "getkeypool", "pubkeys", "keypool"}) =>
    /\ {<<Value[i].desc.type, Value[i].internal>> : i \in DOMAIN Value}
         = DescriptorTypesAsked \X BranchesAsked
    /\ \A i \in DOMAIN Value :
         LET desc == Value[i].desc path == desc.origin \o desc.suffix IN
         /\ desc.key = <<LastCall.seed, desc.origin>> /\ desc.fingerprint = LastCall.seed
         /\ \A j \in DOMAIN desc.suffix : ~Hardened(desc.suffix[j])
         /\ run.req.path = <<>> =>
              path = AccountTarget(desc.type, run.req.sel.network, run.req.account, Value[i].internal)

\* A device of a listing has its own fingerprint, or an error it met.
ListingIsTrue ==
  Ended({"enumerate", "list"}) =>
    /\ [i \in DOMAIN Value |-> Value[i].dev] = run.found
    /\ \A i \in DOMAIN Value :
         /\ Value[i].error <=> \E k \in DOMAIN log : log[k].dev = Value[i].dev /\ ~log[k].ok
         /\ Value[i].fingerprint # "none" => Value[i].fingerprint = world[Value[i].dev].seed

\* What a process reports is so: a transaction is "signed" if and only if the
\* device put a signature of its own in it; a backup is on the device or on the
\* disk; a device is reported set up, restored or wiped when it is; the address
\* of a descriptor is that of its key, which is the device's; descriptors and
\* listings are those of the devices; the rules are in place and in force.
ReportIsTrue ==
  /\ Ended({"signtx", "signpsbt"}) =>
       /\ Value.signed <=> log # <<>> /\ LastCall.op = "sign"
                           /\ ~(LastCall.value \subseteq run.req.psbt.signed)
       /\ \A i \in Value.signatures \ run.req.psbt.signed :
            OwnInput(run.req.psbt.inputs[i], world[run.dev].seed)
  /\ Ended({"backup"}) => Value = "complete" \/ "file" \in run.written
  /\ Ended({"wipe"}) /\ Value => world[run.dev].state = "blank"
  /\ Ended({"setup", "restore"}) /\ Value => world[run.dev].state = "ready"
  /\ Ended({"displayaddress"}) /\ run.req.target = "descriptor" /\ Value.of.how = "path" =>
       /\ run.req.descriptor.key = <<Value.seed, run.req.descriptor.origin>>
       /\ Value.of.path = FullPath(run.req.descriptor)
       /\ Value.of.type = run.req.descriptor.type
  /\ DescriptorsAreTrue /\ ListingIsTrue
  /\ Ended({"installudevrules"}) =>
       run.written = RulesForSelection(run.req) \cup {"user", "trigger", "reload", "groupadd", "usermod"}

\* The accounts of standard purposes an input is of, as the device sees it: by
\* any of its keys, whatever its scripts.
StandardAccounts(input, seed) ==
  {account \in {AccountPathFromFullPath(s.path) :
                  s \in {s \in AllSources(input) : s.fingerprint = seed /\ IsStandardSinglesigPath(s.path)}} :
     InputOfAccount(input, [account |-> account], seed)}

\* What hwi takes for the device's: an input of an account that has no script and
\* names its key outside of Taproot, and an input of a multisig it can describe.
PlainAccount(input, seed) ==
  /\ StandardAccounts(input, seed) # {} /\ ~HasScript(input)
  /\ \E s \in Sources(input) : s.fingerprint = seed
Recognized(psbt, input, seed) == PlainAccount(input, seed) \/ DescribesMultisig(psbt, input, seed)

\* The wallet hwi has a Ledger sign for is the device's and has all the inputs of
\* its kind.  It is one account, under its own key, and every plain input of an
\* account is then signed; or one multisig, with the code this process registered
\* it for, and then nothing hwi takes for the device's is left unsigned.  An
\* account goes before a multisig: beside a plain account, inputs of a multisig,
\* of a nested and of a Taproot account stay unsigned, and no error says so.  A
\* transaction that is not sent has no input hwi takes for the device's.
LedgerPolicyFits ==
  run.req.bin = "hwi" /\ run.req.cmd = "signtx" =>
    /\ \A i \in DOMAIN log : log[i].op = "sign" /\ TypeOf(log[i].dev) = "ledger" =>
         LET policy == log[i].arg.policy
             psbt == run.req.psbt
             seed == log[i].seed
             left == IF log[i].ok
                     THEN {psbt.inputs[n] : n \in DOMAIN psbt.inputs \ log[i].value} ELSE {}
         IN  /\ policy.kind = "single" =>
                  /\ policy.key = <<seed, policy.account>>
                  /\ \A input \in left : ~PlainAccount(input, seed)
             /\ policy.kind = "multi" =>
                  /\ policy.hmac = [seed |-> seed, multi |-> policy.multi]
                  /\ \E k \in 1..(i - 1) : log[k].op = "register" /\ log[k].arg = policy.multi
                  /\ \A input \in left : ~Recognized(psbt, input, seed)
    /\ run.answer.kind = "ok" /\ LastCall.op # "sign" =>
         \A input \in Inputs(run.req.psbt) : ~Recognized(run.req.psbt, input, run.fingerprint)

\* The accounts of a Ledger by their purposes are signed for: "This creates a
\* standard BIP-44/49/84/86 wallet policy" (bhwi/src/ledger/wallet.rs:131).  A
\* transaction of one account is not given back as one with nothing to sign.
StandardAccountIsSigned ==
  Ended({"signtx"}) /\ run.req.bin = "hwi" /\ TypeOf(run.dev) = "ledger" /\ ~Value.signed =>
    ~\E purpose \in {44, 49, 84, 86} :
       LET account == <<H(purpose), H(Chain(run.req.sel.network)), H(0)>> IN
       \A input \in Inputs(run.req.psbt) :
         InputOfAccount(input, [account |-> account], run.fingerprint)
=============================================================================
