---------------------------- MODULE BitBoxManage ----------------------------
(***************************************************************************)
(* The commands that change a BitBox02 itself: setup, wipe, restore and    *)
(* the passphrase switch (bhwi/src/bitbox/interpreter.rs), run by the      *)
(* driver (run_command_inner, bhwi-async/src/lib.rs), which takes a read   *)
(* error after the reset request of a wipe for success.                    *)
(*                                                                         *)
(* Every command first asks for the device's state and decides on the      *)
(* answer, then changes it in one to three requests.  The calls run over   *)
(* an open session, which delivers requests and replies in order           *)
(* (BitBoxSession); a call that stops waiting leaves its reply to the next.*)
(*                                                                         *)
(* Abstracted: the label is empty or not; the entropy, the time and the    *)
(* backup are left out.                                                    *)
(***************************************************************************)
EXTENDS Naturals, Sequences

CONSTANTS
  MaxCalls,  \* bound: calls of the client
  MaxFaults  \* bound: calls that stop waiting

ASSUME BoundsAssumption == MaxCalls \in Nat /\ MaxFaults \in Nat

VARIABLES
  call,        \* the interpreter: its state and the command's parameters
  result,      \* how the last call ended
  out, in,     \* requests the device has not read, replies the host has not
  device,      \* the device's state
  done,        \* what the device did: <<call, operation>>
  before,      \* the device's state when the call started
  calls, lost  \* calls started; calls that stopped waiting

vars == <<call, result, out, in, device, done, before, calls, lost>>

-----------------------------------------------------------------------------
Operations == {"name", "password", "backup", "restore", "reset", "passphrase"}
Commands ==
  [cmd : {"Setup"}, label : BOOLEAN, mode : {"NewWallet", "RestoreFromMnemonic"}]
    \cup [cmd : {"Restore"}, label : BOOLEAN, mode : {"none"}]
    \cup [cmd : {"Wipe", "TogglePassphrase"}, label : {FALSE}, mode : {"none"}]

NoCommand == [cmd |-> "none", label |-> FALSE, mode |-> "none"]
NewCall == [st |-> "New", of |-> NoCommand]
NoResult == [status |-> "none", of |-> NoCommand, disconnected |-> FALSE]

\* arg is the passphrase setting asked for.
Request(op, arg) == [op |-> op, id |-> calls, arg |-> arg]

\* Generic is the device error a user's refusal comes as.
Reply(typ) == [typ |-> typ, initialized |-> device.initialized, passphrase |-> device.passphrase]

Init ==
  /\ call = NewCall
  /\ result = NoResult
  /\ out = <<>> /\ in = <<>>
  /\ \E initialized, passphrase \in BOOLEAN :
       device = [on |-> TRUE, initialized |-> initialized, seeded |-> initialized,
                 passphrase |-> initialized /\ passphrase]
  /\ done = {}
  /\ before = device
  /\ calls = 0 /\ lost = 0

-----------------------------------------------------------------------------
(* The interpreter and the driver.                                         *)

Start ==
  /\ call = NewCall
  /\ calls < MaxCalls
  /\ device.on
  /\ calls' = calls + 1
  /\ \E of \in Commands : call' = [st |-> "WaitInfo", of |-> of]
  /\ out' = Append(out, [Request("info", FALSE) EXCEPT !.id = calls'])
  /\ before' = device
  /\ result' = NoResult
  /\ UNCHANGED <<in, device, done, lost>>

Response == Head(in)

Receive(st) ==
  /\ call.st = st
  /\ in # <<>>
  /\ in' = Tail(in)
  /\ UNCHANGED <<device, done, before, calls, lost>>

Send(op, arg, st) ==
  /\ out' = Append(out, Request(op, arg))
  /\ call' = [call EXCEPT !.st = st]
  /\ UNCHANGED result

Return(status) ==
  /\ call' = NewCall
  /\ result' = [status |-> status, of |-> call.of, disconnected |-> FALSE]
  /\ UNCHANGED out

\* MUTANT: a restore, too, starts with a password.
Initialize_Password == Send("password", FALSE, "SetupWaitPassword")

\* start_setup_initialization, and the last step of a restore.
Initialize ==
  IF call.of.mode = "NewWallet" THEN Send("password", FALSE, "SetupWaitPassword")
  ELSE Send("restore", FALSE, "WaitRestore")

NameOrInitialize == IF call.of.label THEN Send("name", FALSE, "WaitName") ELSE Initialize

\* MUTANT: the device's state is not looked at.
Allowed_Always == TRUE

\* A wallet is set up or restored on a blank device, wiped or switched on a
\* device that has one.
Allowed ==
  IF call.of.cmd \in {"Setup", "Restore"} THEN ~Response.initialized ELSE Response.initialized

Toggled == ~Response.passphrase

\* SetupWaitInfo, WipeWaitInfo, RestoreWaitInfo, TogglePassphraseWaitInfo
OnInfo ==
  /\ Receive("WaitInfo")
  /\ \/ /\ Response.typ = "DeviceInfo" /\ Allowed
        /\ CASE call.of.cmd \in {"Setup", "Restore"} -> NameOrInitialize
             [] call.of.cmd = "Wipe" -> Send("reset", FALSE, "WipeWaitReset")
             [] call.of.cmd = "TogglePassphrase" -> Send("passphrase", Toggled, "TogglePassphraseWaitSet")
     \/ ~(Response.typ = "DeviceInfo" /\ Allowed) /\ Return("err")

\* SetupWaitName, RestoreWaitName
OnName ==
  /\ Receive("WaitName")
  /\ \/ Response.typ = "Success" /\ Initialize
     \/ Response.typ # "Success" /\ Return("err")

\* decode_device_action_response: the user's refusal is an answer, not an error.
OnAction(st, next) ==
  /\ Receive(st)
  /\ \/ Response.typ = "Success" /\ next
     \/ Response.typ = "Generic" /\ Return("false")
     \/ Response.typ \notin {"Success", "Generic"} /\ Return("err")

\* MUTANT: the wallet counts as set up before it is backed up.
AfterPassword_Done == Return("true")

AfterPassword == Send("backup", FALSE, "SetupWaitBackup")

OnPassword == OnAction("SetupWaitPassword", AfterPassword)

OnActionDone == \E st \in {"SetupWaitBackup", "WipeWaitReset"} : OnAction(st, Return("true"))

\* SetupWaitRestore, RestoreWaitMnemonic, TogglePassphraseWaitSet
OnDone ==
  \E st \in {"WaitRestore", "TogglePassphraseWaitSet"} :
    /\ Receive(st)
    /\ \/ Response.typ = "Success" /\ Return("true")
       \/ Response.typ # "Success" /\ Return("err")

HostReceive == OnInfo \/ OnName \/ OnPassword \/ OnActionDone \/ OnDone

\* The wait for a reply ends in a read error: the device is gone, or did not
\* answer in time.  The reset of a wipe is the one request that allows it.
ReadFails ==
  /\ call # NewCall
  /\ ~device.on \/ lost < MaxFaults
  /\ lost' = lost + 1
  /\ call' = NewCall
  /\ result' = IF call.st = "WipeWaitReset"
               THEN [status |-> "true", of |-> call.of, disconnected |-> TRUE]
               ELSE [status |-> "err", of |-> call.of, disconnected |-> FALSE]
  /\ UNCHANGED <<out, in, device, done, before, calls>>

\* The caller drops the future.
Dropped ==
  /\ call # NewCall
  /\ lost < MaxFaults
  /\ lost' = lost + 1
  /\ call' = NewCall
  /\ result' = NoResult
  /\ UNCHANGED <<out, in, device, done, before, calls>>

-----------------------------------------------------------------------------
(* The device and its user.                                                *)

Asked == Head(out)

Answer(typ) == in' = Append(in, Reply(typ))

DeviceReads ==
  /\ device.on /\ out # <<>>
  /\ out' = Tail(out)
  /\ UNCHANGED <<call, result, before, calls, lost>>

DeviceInfo ==
  /\ DeviceReads /\ Asked.op = "info"
  /\ Answer("DeviceInfo")
  /\ UNCHANGED <<device, done>>

\* A new wallet exists once it is backed up.
Effect ==
  CASE Asked.op = "password"   -> [device EXCEPT !.seeded = TRUE]
    [] Asked.op = "backup"     -> [device EXCEPT !.initialized = device.seeded]
    [] Asked.op = "restore"    -> [device EXCEPT !.initialized = TRUE, !.seeded = TRUE]
    [] Asked.op = "reset"      -> [device EXCEPT !.initialized = FALSE, !.seeded = FALSE,
                                                 !.passphrase = FALSE]
    [] Asked.op = "passphrase" -> [device EXCEPT !.passphrase = Asked.arg]
    [] Asked.op = "name"       -> device

\* The device restarts after a reset, before or after it answered.
DeviceDoes ==
  /\ DeviceReads /\ Asked.op # "info"
  /\ done' = done \cup {<<Asked.id, Asked.op>>}
  /\ \/ device' = Effect /\ Answer("Success")
     \/ Asked.op = "reset" /\ device' = [Effect EXCEPT !.on = FALSE] /\ UNCHANGED in

DeviceRefuses ==
  /\ DeviceReads /\ Asked.op # "info"
  /\ \E typ \in {"Generic", "Error"} : Answer(typ)
  /\ UNCHANGED <<device, done>>

DeviceStep == DeviceInfo \/ DeviceDoes \/ DeviceRefuses

Unplugged ==
  /\ device.on /\ lost < MaxFaults
  /\ device' = [device EXCEPT !.on = FALSE]
  /\ UNCHANGED <<call, result, out, in, done, before, calls, lost>>

Next == Start \/ HostReceive \/ ReadFails \/ Dropped \/ DeviceStep \/ Unplugged

Spec == Init /\ [][Next]_vars

-----------------------------------------------------------------------------
(* Properties.                                                             *)

\* The variables have their types; a call has a command, and a password is only
\* set for a new wallet.
TypeOK ==
  /\ call \in [st : {"New", "WaitInfo", "WaitName", "SetupWaitPassword", "SetupWaitBackup",
                    "WaitRestore", "WipeWaitReset", "TogglePassphraseWaitSet"},
               of : Commands \cup {NoCommand}]
  /\ IF call.st = "New" THEN call = NewCall ELSE call.of \in Commands
  /\ call.st \in {"SetupWaitPassword", "SetupWaitBackup"} => call.of.mode = "NewWallet"
  /\ result \in [status : {"none", "true", "false", "err"}, of : Commands \cup {NoCommand},
                 disconnected : BOOLEAN]
  /\ out \in Seq([op : Operations \cup {"info"}, id : Nat, arg : BOOLEAN])
  /\ in \in Seq([typ : {"DeviceInfo", "Success", "Generic", "Error"},
                 initialized : BOOLEAN, passphrase : BOOLEAN])
  /\ {device, before} \subseteq
       [on : BOOLEAN, initialized : BOOLEAN, seeded : BOOLEAN, passphrase : BOOLEAN]
  /\ done \subseteq Nat \X Operations
  /\ calls \in Nat /\ lost \in Nat

\* What a command has to get done.
Required(of) ==
  (IF of.label THEN {"name"} ELSE {}) \cup
  CASE of.cmd = "Setup" /\ of.mode = "NewWallet" -> {"password", "backup"}
    [] of.cmd \in {"Setup", "Restore"} /\ of.mode # "NewWallet" -> {"restore"}
    [] of.cmd = "Wipe" -> {"reset"}
    [] of.cmd = "TogglePassphrase" -> {"passphrase"}

\* A command that reports success had every one of its steps done by the device,
\* and done for this call; one the user declined, at whatever step, leaves the
\* device with a wallet or without, as it was.  And a switch of the passphrase
\* leaves the setting opposite to what it was when the call started, though it is
\* computed from an answer that may be stale.  The reply left by one call that
\* stopped waiting always has the wrong type where it is read; two of them can
\* pass, here and below.
ReportedDone ==
  lost <= 1 =>
    /\ result.status = "true" /\ ~result.disconnected =>
         \A op \in Required(result.of) : <<calls, op>> \in done
    /\ result.status = "true" /\ result.of.cmd = "TogglePassphrase" =>
         device.passphrase # before.passphrase
    /\ result.status = "false" => device.initialized = before.initialized

\* The device is never asked to replace the wallet it has, nor to change one it
\* has not, on the word of a stale answer.
WalletUntouched ==
  [][lost <= 1 /\ done' # done =>
       (Asked.op \in {"reset", "passphrase"} <=> device.initialized)]_vars

-----------------------------------------------------------------------------
(* What the documents of the code say, which the code does not do.         *)

\* docs/HWI_PARITY.md:91: "only a read-side disconnect after the reset request"
\* is treated as success.
OnlyDisconnectIsSuccess == result.disconnected => ~device.on
=============================================================================
