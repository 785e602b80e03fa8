------------------------ MODULE BitBoxManage_proofs ------------------------
(* What TLAPS proves of BitBoxManage, for every value of its constants: the *)
(* types, that what is reported done was done (ReportedDone), and that no   *)
(* wallet is replaced or missed on a stale answer (WalletUntouched).        *)
EXTENDS BitBoxManage, SequenceFacts, TLAPS

Asks == [op : Operations \cup {"info"}, id : Nat, arg : BOOLEAN]
Answers == [typ : {"DeviceInfo", "Success", "Generic", "Error"},
            initialized : BOOLEAN, passphrase : BOOLEAN]
Devices == [on : BOOLEAN, initialized : BOOLEAN, seeded : BOOLEAN, passphrase : BOOLEAN]

-----------------------------------------------------------------------------
(* What is on its way.                                                     *)

\* An answer about the device as it is; a request that fits it.
Snapshot(r) == r.initialized = device.initialized /\ r.passphrase = device.passphrase
Fits(q) == q.op \in {"reset", "passphrase"} <=> device.initialized

\* What a call that stopped waiting left behind: a request for the state, one
\* that fits the device, or the answer to either.
OldAsk(q) == q.op # "info" => Fits(q)
OldAnswer(r) == r.typ = "DeviceInfo" => Snapshot(r)

\* Between calls it is all there is, unless the device is gone.
LateBetween ==
  call = NewCall /\ device.on =>
    \/ in = <<>> /\ \E q \in Asks : out = <<q>> /\ OldAsk(q)
    \/ out = <<>> /\ \E r \in Answers : in = <<r>> /\ OldAnswer(r)

\* A call that asks for the state gets it one reply late.
LateAsking ==
  call.st = "WaitInfo" =>
    \/ ~device.on /\ in = <<>>
    \/ in = <<>> /\ \E q1, q2 \in Asks : out = <<q1, q2>> /\ OldAsk(q1) /\ q2.op = "info"
    \/ \E r \in Answers, q \in Asks : in = <<r>> /\ out = <<q>> /\ OldAnswer(r) /\ q.op = "info"
    \/ out = <<>> /\ \E r1, r2 \in Answers :
                       in = <<r1, r2>> /\ OldAnswer(r1) /\ r2.typ = "DeviceInfo" /\ Snapshot(r2)

\* A call that took an old answer for its own finds its own where that of its
\* next request should be.
LateActing ==
  call.st \notin {"New", "WaitInfo"} =>
    \/ in = <<>> /\ \E q1, q2 \in Asks :
                      out = <<q1, q2>> /\ q1.op = "info" /\ q2.op # "info" /\ Fits(q2)
    \/ \E r \in Answers, q \in Asks :
         in = <<r>> /\ out = <<q>> /\ r.typ = "DeviceInfo" /\ q.op # "info" /\ Fits(q)
    \/ out = <<>> /\ \E r1, r2 \in Answers :
                       in = <<r1, r2>> /\ r1.typ = "DeviceInfo" /\ r2.typ # "DeviceInfo"
    \/ ~device.on /\ \E r \in Answers : in = <<r>> /\ r.typ = "DeviceInfo"

\* It ends in an error: so does every call after one that stopped waiting, but
\* a wipe whose own answer was the one not waited for.
LateResult ==
  \/ result.status \in {"none", "err"}
  \/ result.status = "true" /\ result.disconnected /\ result.of.cmd = "Wipe"

Late == LateBetween /\ LateAsking /\ LateActing /\ LateResult

-----------------------------------------------------------------------------
(* How far a call is, as long as none stopped waiting.                     *)

OpOf(st) ==
  CASE st = "WaitInfo" -> "info"
    [] st = "WaitName" -> "name"
    [] st = "SetupWaitPassword" -> "password"
    [] st = "SetupWaitBackup" -> "backup"
    [] st = "WaitRestore" -> "restore"
    [] st = "WipeWaitReset" -> "reset"
    [] OTHER -> "passphrase"

\* The state belongs to the command, which the device was found fit for.
Suited ==
  /\ call.st = "WaitName" => call.of.label
  /\ call.st = "WaitRestore" => call.of.mode # "NewWallet"
  /\ call.st \in {"WaitName", "SetupWaitPassword", "SetupWaitBackup", "WaitRestore"} =>
       call.of.cmd \in {"Setup", "Restore"} /\ ~before.initialized
  /\ call.st = "WipeWaitReset" => call.of.cmd = "Wipe" /\ before.initialized
  /\ call.st = "TogglePassphraseWaitSet" => call.of.cmd = "TogglePassphrase" /\ before.initialized

\* What it had done before.
DoneSoFar ==
  /\ call.st \in {"SetupWaitPassword", "SetupWaitBackup", "WaitRestore"} /\ call.of.label =>
       <<calls, "name">> \in done
  /\ call.st = "SetupWaitBackup" => <<calls, "password">> \in done

Same == device.initialized = before.initialized /\ device.passphrase = before.passphrase

OwnAsk(q) ==
  /\ q.op = OpOf(call.st) /\ q.id = calls /\ Same
  /\ q.op = "passphrase" => q.arg = ~before.passphrase

OwnReply(r) ==
  IF call.st = "WaitInfo" THEN r.typ = "DeviceInfo" /\ Snapshot(r) /\ Same
  ELSE /\ r.typ # "DeviceInfo"
       /\ r.typ = "Success" =>
            /\ <<calls, OpOf(call.st)>> \in done
            /\ call.st = "TogglePassphraseWaitSet" => device.passphrase # before.passphrase
       /\ r.typ # "Success" \/ call.st \in {"WaitName", "SetupWaitPassword"} => Same

Waiting ==
  call.st # "New" =>
    /\ Suited /\ DoneSoFar
    /\ \/ ~device.on /\ in = <<>>
       \/ in = <<>> /\ \E q \in Asks : out = <<q>> /\ OwnAsk(q)
       \/ out = <<>> /\ \E r \in Answers : in = <<r>> /\ OwnReply(r)

\* What is reported is so.
Reported ==
  /\ result.status = "true" /\ ~result.disconnected =>
       \A op \in Required(result.of) : <<calls, op>> \in done
  /\ result.status = "true" /\ result.of.cmd = "TogglePassphrase" =>
       device.passphrase # before.passphrase
  /\ result.status = "false" => device.initialized = before.initialized

Clean ==
  /\ call.st = "New" => in = <<>> /\ out = <<>>
  /\ Waiting
  /\ call.st # "New" => result = NoResult
  /\ Reported

\* At most one reply is late.
OneLate == (lost = 0 => Clean) /\ (lost = 1 => Late)

-----------------------------------------------------------------------------
(* What a step of the host can be.                                         *)

States == {"WaitInfo", "WaitName", "SetupWaitPassword", "SetupWaitBackup", "WaitRestore",
           "WipeWaitReset", "TogglePassphraseWaitSet"}

\* The call goes on to st, with a request that has the argument arg.
GoesOn(arg, st) ==
  \/ /\ call.st = "WaitInfo" /\ Response.typ = "DeviceInfo" /\ Allowed
     /\ \/ st = "WaitName" /\ call.of.cmd \in {"Setup", "Restore"} /\ call.of.label
        \/ /\ st \in {"SetupWaitPassword", "WaitRestore"} /\ call.of.cmd \in {"Setup", "Restore"}
           /\ ~call.of.label
           /\ st = "SetupWaitPassword" <=> call.of.mode = "NewWallet"
        \/ st = "WipeWaitReset" /\ call.of.cmd = "Wipe"
        \/ st = "TogglePassphraseWaitSet" /\ call.of.cmd = "TogglePassphrase"
           /\ arg = ~Response.passphrase
  \/ /\ call.st = "WaitName" /\ Response.typ = "Success"
     /\ st \in {"SetupWaitPassword", "WaitRestore"}
     /\ st = "SetupWaitPassword" <=> call.of.mode = "NewWallet"
  \/ call.st = "SetupWaitPassword" /\ Response.typ = "Success" /\ st = "SetupWaitBackup"

LEMMA TupleFacts ==
  ASSUME NEW a, NEW b
  PROVE  /\ <<a>> # <<>> /\ Head(<<a>>) = a /\ Tail(<<a>>) = <<>> /\ Append(<<>>, a) = <<a>>
         /\ <<a, b>> # <<>> /\ Head(<<a, b>>) = a /\ Tail(<<a, b>>) = <<b>>
         /\ Append(<<a>>, b) = <<a, b>>
<1>1. <<a>> # <<>> /\ Head(<<a>>) = a /\ Tail(<<a>>) = <<>> /\ Append(<<>>, a) = <<a>>
  OBVIOUS
<1>2. <<a, b>> # <<>> /\ Head(<<a, b>>) = a
  OBVIOUS
<1>3. Tail(<<a, b>>) = <<b>>
  <2>1. <<a, b>> \in Seq({a, b}) /\ <<b>> \in Seq({a, b}) /\ Len(<<a, b>>) = 2 /\ Len(<<b>>) = 1
    OBVIOUS
  <2>2. <<a, b>>[2] = b /\ <<b>>[1] = b
    OBVIOUS
  <2>3. /\ Tail(<<a, b>>) \in Seq({a, b}) /\ Len(Tail(<<a, b>>)) = 1
        /\ Tail(<<a, b>>)[1] = b
    BY <2>1, <2>2, TailFacts
  <2>4. QED
    BY <2>1, <2>2, <2>3, EqualFacts
<1>4. Append(<<a>>, b) = <<a, b>>
  <2>1. <<a>> \in Seq({a, b}) /\ <<a, b>> \in Seq({a, b}) /\ Len(<<a, b>>) = 2 /\ Len(<<a>>) = 1
    OBVIOUS
  <2>2. <<a, b>>[2] = b /\ <<a, b>>[1] = a /\ <<a>>[1] = a
    OBVIOUS
  <2>3. /\ Append(<<a>>, b) \in Seq({a, b}) /\ Len(Append(<<a>>, b)) = 2
        /\ Append(<<a>>, b)[1] = a /\ Append(<<a>>, b)[2] = b
    BY <2>1, <2>2, AppendFacts
  <2>4. PICK q : q = Append(<<a>>, b)
    OBVIOUS
  <2>5. PICK r : r = <<a, b>>
    OBVIOUS
  <2>6. /\ q \in Seq({a, b}) /\ r \in Seq({a, b}) /\ Len(q) = 2 /\ Len(r) = 2
        /\ q[1] = r[1] /\ q[2] = r[2]
    BY <2>1, <2>2, <2>3, <2>4, <2>5
  <2>7. \A j \in 1..Len(q) : q[j] = r[j]
    <3>1. \A j \in 1..2 : j = 1 \/ j = 2
      OBVIOUS
    <3>2. QED
      BY <2>6, <3>1
  <2>8. q = r
    BY <2>6, <2>7, EqualFacts
  <2>9. QED
    BY <2>4, <2>5, <2>8
<1>5. QED
  BY <1>1, <1>2, <1>3, <1>4

LEMMA CommandFacts ==
  ASSUME NEW of \in Commands
  PROVE  /\ of.cmd \in {"Setup", "Restore", "Wipe", "TogglePassphrase"}
         /\ of.label \in BOOLEAN /\ of.mode \in {"none", "NewWallet", "RestoreFromMnemonic"}
         /\ of.mode = "NewWallet" => of.cmd = "Setup"
         /\ of.cmd \in {"Wipe", "TogglePassphrase"} => ~of.label
         /\ of.cmd = "Restore" => of.mode = "none"
  BY DEF Commands

\* What TypeOK says of a call and of the channel.
LEMMA Types ==
  ASSUME TypeOK
  PROVE  /\ out \in Seq(Asks) /\ in \in Seq(Answers)
         /\ device \in Devices /\ before \in Devices
         /\ call.st \in States \cup {"New"} /\ call = [st |-> call.st, of |-> call.of]
         /\ call.st # "New" => call.of \in Commands
         /\ call.st = "New" => call = NewCall
         /\ call.of \in Commands \cup {NoCommand}
         /\ calls \in Nat /\ lost \in Nat
         /\ in # <<>> => Response \in Answers
         /\ out # <<>> => Asked \in Asks
<1>1. out \in Seq(Asks) /\ in \in Seq(Answers)
  BY DEF TypeOK, Asks, Answers
<1>2. (in # <<>> => Response \in Answers) /\ (out # <<>> => Asked \in Asks)
  BY <1>1, TailFacts DEF Response, Asked
<1>3. QED
  BY <1>1, <1>2 DEF TypeOK, Devices, States, NewCall

LEMMA SendsInitialize ==
  ASSUME Initialize
  PROVE  \E st \in {"SetupWaitPassword", "WaitRestore"} :
           Send(OpOf(st), FALSE, st) /\ (st = "SetupWaitPassword" <=> call.of.mode = "NewWallet")
  BY DEF Initialize, OpOf

LEMMA HostMoves ==
  ASSUME TypeOK, HostReceive
  PROVE  /\ call.st # "New" /\ in # <<>> /\ in' = Tail(in)
         /\ UNCHANGED <<device, done, before, calls, lost>>
         /\ \/ Return("err")
            \/ /\ Return("false") /\ Response.typ = "Generic"
               /\ call.st \in {"SetupWaitPassword", "SetupWaitBackup", "WipeWaitReset"}
            \/ /\ Return("true") /\ Response.typ = "Success"
               /\ call.st \in {"SetupWaitBackup", "WipeWaitReset", "WaitRestore",
                               "TogglePassphraseWaitSet"}
            \/ \E arg \in BOOLEAN, st \in States :
                 Send(OpOf(st), arg, st) /\ GoesOn(arg, st)
<1>1. CASE OnInfo
  <2>1. /\ call.st = "WaitInfo" /\ in # <<>> /\ in' = Tail(in)
        /\ UNCHANGED <<device, done, before, calls, lost>>
    BY <1>1 DEF OnInfo, Receive
  <2>2. call.of \in Commands /\ Response \in Answers
    BY <2>1, Types
  <2>3. CASE Return("err")
    BY <2>1, <2>3
  <2>4. ASSUME Response.typ = "DeviceInfo", Allowed,
               CASE call.of.cmd \in {"Setup", "Restore"} -> NameOrInitialize
                 [] call.of.cmd = "Wipe" -> Send("reset", FALSE, "WipeWaitReset")
                 [] call.of.cmd = "TogglePassphrase" ->
                      Send("passphrase", Toggled, "TogglePassphraseWaitSet")
        PROVE  \E arg \in BOOLEAN, st \in States : Send(OpOf(st), arg, st) /\ GoesOn(arg, st)
    <3>1. CASE call.of.cmd \in {"Setup", "Restore"} /\ call.of.label
      <4>1. Send("name", FALSE, "WaitName")
        BY <2>4, <3>1 DEF NameOrInitialize
      <4>2. OpOf("WaitName") = "name" /\ "WaitName" \in States
        BY DEF OpOf, States
      <4>3. GoesOn(FALSE, "WaitName")
        BY <2>1, <2>4, <3>1 DEF GoesOn
      <4>4. QED
        BY <4>1, <4>2, <4>3
    <3>2. CASE call.of.cmd \in {"Setup", "Restore"} /\ ~call.of.label
      <4>1. Initialize
        BY <2>4, <3>2 DEF NameOrInitialize
      <4>2. PICK st \in {"SetupWaitPassword", "WaitRestore"} :
              Send(OpOf(st), FALSE, st) /\ (st = "SetupWaitPassword" <=> call.of.mode = "NewWallet")
        BY <4>1, SendsInitialize
      <4>3. GoesOn(FALSE, st) /\ st \in States
        BY <2>1, <2>4, <3>2, <4>2 DEF GoesOn, States
      <4>4. QED
        BY <4>2, <4>3
    <3>3. CASE call.of.cmd = "Wipe"
      <4>1. Send("reset", FALSE, "WipeWaitReset")
        BY <2>4, <3>3
      <4>2. OpOf("WipeWaitReset") = "reset" /\ "WipeWaitReset" \in States
        BY DEF OpOf, States
      <4>3. GoesOn(FALSE, "WipeWaitReset")
        BY <2>1, <2>4, <3>3 DEF GoesOn
      <4>4. QED
        BY <4>1, <4>2, <4>3
    <3>4. CASE call.of.cmd = "TogglePassphrase"
      <4>1. Send("passphrase", Toggled, "TogglePassphraseWaitSet")
        BY <2>4, <3>4
      <4>2. OpOf("TogglePassphraseWaitSet") = "passphrase" /\ "TogglePassphraseWaitSet" \in States
        BY DEF OpOf, States
      <4>3. PICK arg \in BOOLEAN : arg = Toggled
        BY <2>2 DEF Toggled, Answers
      <4>4. GoesOn(arg, "TogglePassphraseWaitSet")
        BY <2>1, <2>4, <3>4, <4>3 DEF GoesOn, Toggled
      <4>5. QED
        BY <4>1, <4>2, <4>3, <4>4
    <3>5. QED
      BY <2>2, <3>1, <3>2, <3>3, <3>4, CommandFacts
  <2>5. QED
    BY <1>1, <2>1, <2>3, <2>4 DEF OnInfo
<1>2. CASE OnName
  <2>1. /\ call.st = "WaitName" /\ in # <<>> /\ in' = Tail(in)
        /\ UNCHANGED <<device, done, before, calls, lost>>
    BY <1>2 DEF OnName, Receive
  <2>2. CASE Response.typ = "Success" /\ Initialize
    <3>1. PICK st \in {"SetupWaitPassword", "WaitRestore"} :
            Send(OpOf(st), FALSE, st) /\ (st = "SetupWaitPassword" <=> call.of.mode = "NewWallet")
      BY <2>2, SendsInitialize
    <3>2. GoesOn(FALSE, st) /\ st \in States
      BY <2>1, <2>2, <3>1 DEF GoesOn, States
    <3>3. QED
      BY <2>1, <3>1, <3>2
  <2>3. QED
    BY <1>2, <2>1, <2>2 DEF OnName
<1>3. CASE OnPassword
  <2>1. /\ call.st = "SetupWaitPassword" /\ in # <<>> /\ in' = Tail(in)
        /\ UNCHANGED <<device, done, before, calls, lost>>
    BY <1>3 DEF OnPassword, OnAction, Receive
  <2>2. CASE Response.typ = "Success" /\ AfterPassword
    <3>1. Send("backup", FALSE, "SetupWaitBackup")
      BY <2>2 DEF AfterPassword
    <3>2. OpOf("SetupWaitBackup") = "backup" /\ "SetupWaitBackup" \in States
      BY DEF OpOf, States
    <3>3. GoesOn(FALSE, "SetupWaitBackup")
      BY <2>1, <2>2 DEF GoesOn
    <3>4. QED
      BY <2>1, <3>1, <3>2, <3>3
  <2>3. CASE Response.typ = "Generic" /\ Return("false")
    BY <2>1, <2>3
  <2>4. CASE Return("err")
    BY <2>1, <2>4
  <2>5. QED
    BY <1>3, <2>2, <2>3, <2>4 DEF OnPassword, OnAction
<1>4. CASE OnActionDone
  BY <1>4 DEF OnActionDone, OnAction, Receive
<1>5. CASE OnDone
  BY <1>5 DEF OnDone, Receive
<1>6. QED
  BY <1>1, <1>2, <1>3, <1>4, <1>5 DEF HostReceive

\* What a step of the device can be.
LEMMA DeviceMoves ==
  ASSUME TypeOK, DeviceStep
  PROVE  /\ device.on /\ out # <<>> /\ out' = Tail(out)
         /\ UNCHANGED <<call, result, before, calls, lost>>
         /\ \/ /\ Asked.op = "info" /\ Answer("DeviceInfo")
               /\ UNCHANGED <<device, done>>
            \/ /\ Asked.op # "info" /\ done' = done \cup {<<Asked.id, Asked.op>>}
               /\ \/ device' = Effect /\ Answer("Success")
                  \/ Asked.op = "reset" /\ device' = [Effect EXCEPT !.on = FALSE] /\ UNCHANGED in
            \/ /\ Asked.op # "info" /\ UNCHANGED <<device, done>>
               /\ \E typ \in {"Generic", "Error"} : Answer(typ)
  BY DEF DeviceStep, DeviceInfo, DeviceDoes, DeviceRefuses, DeviceReads

LEMMA ReplyTypes ==
  ASSUME TypeOK, NEW typ \in {"DeviceInfo", "Success", "Generic", "Error"}
  PROVE  Reply(typ) \in Answers /\ Reply(typ).typ = typ /\ Snapshot(Reply(typ))
  BY Types DEF Reply, Answers, Devices, Snapshot

LEMMA EffectTypes ==
  ASSUME TypeOK, out # <<>>, Asked.op # "info"
  PROVE  /\ Effect \in Devices /\ [Effect EXCEPT !.on = FALSE] \in Devices
         /\ Asked.op \in {"name", "password"} =>
              Effect.initialized = device.initialized /\ Effect.passphrase = device.passphrase
         /\ Asked.op = "passphrase" => Effect.passphrase = Asked.arg
<1>1. device \in Devices /\ Asked \in Asks
  BY Types
<1>2. Asked.op \in Operations /\ Asked.arg \in BOOLEAN
  BY <1>1 DEF Asks
<1>3. Effect \in Devices
  BY <1>1, <1>2, ZenonT(60) DEF Effect, Operations, Devices
<1>4. [Effect EXCEPT !.on = FALSE] \in Devices
  BY <1>3 DEF Devices
<1>5. Asked.op \in {"name", "password"} =>
        Effect.initialized = device.initialized /\ Effect.passphrase = device.passphrase
  BY <1>1 DEF Effect, Devices
<1>6. Asked.op = "passphrase" => Effect.passphrase = Asked.arg
  BY <1>1 DEF Effect, Devices
<1>7. QED
  BY <1>3, <1>4, <1>5, <1>6

-----------------------------------------------------------------------------
(* The types.                                                              *)

\* What has to be shown of a step.
LEMMA TypesBack ==
  ASSUME out' \in Seq(Asks), in' \in Seq(Answers), device' \in Devices, before' \in Devices,
         call'.st \in States \cup {"New"}, call'.of \in Commands \cup {NoCommand},
         call' = [st |-> call'.st, of |-> call'.of],
         IF call'.st = "New" THEN call' = NewCall ELSE call'.of \in Commands,
         call'.st \in {"SetupWaitPassword", "SetupWaitBackup"} => call'.of.mode = "NewWallet",
         result' \in [status : {"none", "true", "false", "err"}, of : Commands \cup {NoCommand},
                      disconnected : BOOLEAN],
         done' \subseteq Nat \X Operations, calls' \in Nat, lost' \in Nat
  PROVE  TypeOK'
<1>1. call' \in [st : {"New"} \cup States, of : Commands \cup {NoCommand}]
  OBVIOUS
<1>2. {device', before'} \subseteq Devices
  OBVIOUS
<1>3. QED
  BY <1>1, <1>2 DEF TypeOK, Asks, Answers, Devices, States

LEMMA TypeOKInit == Init => TypeOK
<1> SUFFICES ASSUME Init PROVE TypeOK
  OBVIOUS
<1>1. out \in Seq([op : Operations \cup {"info"}, id : Nat, arg : BOOLEAN])
      /\ in \in Seq([typ : {"DeviceInfo", "Success", "Generic", "Error"},
                     initialized : BOOLEAN, passphrase : BOOLEAN])
  BY EmptyFacts DEF Init
<1>2. device \in [on : BOOLEAN, initialized : BOOLEAN, seeded : BOOLEAN, passphrase : BOOLEAN]
  BY DEF Init
<1>3. QED
  BY <1>1, <1>2 DEF Init, TypeOK, NewCall, NoResult, NoCommand

LEMMA TypeOKStep == TypeOK /\ [Next]_vars => TypeOK'
<1> SUFFICES ASSUME TypeOK, [Next]_vars PROVE TypeOK'
  OBVIOUS
<1> DEFINE Results == [status : {"none", "true", "false", "err"}, of : Commands \cup {NoCommand},
                       disconnected : BOOLEAN]
<1>a. /\ out \in Seq(Asks) /\ in \in Seq(Answers) /\ device \in Devices /\ before \in Devices
      /\ call.st \in States \cup {"New"} /\ call.of \in Commands \cup {NoCommand}
      /\ call = [st |-> call.st, of |-> call.of]
      /\ IF call.st = "New" THEN call = NewCall ELSE call.of \in Commands
      /\ calls \in Nat /\ lost \in Nat
  BY Types
<1>b. /\ call.st \in {"SetupWaitPassword", "SetupWaitBackup"} => call.of.mode = "NewWallet"
      /\ result \in Results /\ done \subseteq Nat \X Operations
  BY DEF TypeOK
<1>c. NewCall.st = "New" /\ NewCall.of = NoCommand /\ NewCall = [st |-> "New", of |-> NoCommand]
  BY DEF NewCall
<1>1. CASE Start
  <2>1. PICK of \in Commands : call' = [st |-> "WaitInfo", of |-> of]
    BY <1>1 DEF Start
  <2>2. call'.st = "WaitInfo" /\ call'.of = of /\ "WaitInfo" \in States
    BY <2>1 DEF States
  <2>3. calls' \in Nat /\ out' = Append(out, [Request("info", FALSE) EXCEPT !.id = calls'])
    BY <1>1, <1>a DEF Start
  <2>4. [Request("info", FALSE) EXCEPT !.id = calls'] \in Asks
    BY <2>3, <1>a DEF Request, Asks
  <2>5. out' \in Seq(Asks)
    BY <2>3, <2>4, <1>a, AppendFacts
  <2>6. NoResult \in Results
    BY DEF NoResult, NoCommand
  <2>7. /\ in' = in /\ device' = device /\ before' = device /\ done' = done /\ lost' = lost
        /\ result' = NoResult
    BY <1>1 DEF Start
  <2>8. QED
    BY <1>a, <1>b, <2>1, <2>2, <2>3, <2>5, <2>6, <2>7, TypesBack
<1>2. CASE HostReceive
  <2>1. /\ call.st # "New" /\ in # <<>> /\ in' = Tail(in)
        /\ UNCHANGED <<device, done, before, calls, lost>>
    BY <1>2, HostMoves
  <2>2. in' \in Seq(Answers)
    BY <2>1, <1>a, TailFacts
  <2>3. ASSUME NEW status \in {"true", "false", "err"}, Return(status)
        PROVE  TypeOK'
    <3>1. call' = NewCall /\ out' = out
      BY <2>3 DEF Return
    <3>2. result' \in Results
      BY <2>3, <1>a DEF Return
    <3>3. QED
      BY <1>a, <1>b, <1>c, <2>1, <2>2, <3>1, <3>2, TypesBack
  <2>4. ASSUME NEW arg \in BOOLEAN, NEW st \in States, Send(OpOf(st), arg, st), GoesOn(arg, st)
        PROVE  TypeOK'
    <3>1. call' = [st |-> st, of |-> call.of] /\ result' = result
      BY <2>4, <1>a DEF Send
    <3>2. call'.st = st /\ call'.of = call.of /\ st # "New" /\ call.of \in Commands
      BY <3>1, <2>1, <1>a DEF States
    <3>3. Request(OpOf(st), arg) \in Asks
      BY <1>a DEF Request, Asks, OpOf, Operations
    <3>4. out' \in Seq(Asks)
      BY <2>4, <3>3, <1>a, AppendFacts DEF Send
    <3>5. st \in {"SetupWaitPassword", "SetupWaitBackup"} => call.of.mode = "NewWallet"
      BY <2>4, <1>b DEF GoesOn
    <3>6. QED
      BY <1>a, <1>b, <2>1, <2>2, <3>1, <3>2, <3>4, <3>5, TypesBack
  <2>5. QED
    BY <1>2, <2>3, <2>4, HostMoves
<1>3. CASE ReadFails \/ Dropped
  <2>1. /\ call' = NewCall /\ lost' = lost + 1
        /\ UNCHANGED <<out, in, device, done, before, calls>>
    BY <1>3 DEF ReadFails, Dropped
  <2>2. result' \in Results
    <3>1. CASE ReadFails
      BY <3>1, <1>a DEF ReadFails
    <3>2. CASE Dropped
      BY <3>2 DEF Dropped, NoResult
    <3>3. QED
      BY <1>3, <3>1, <3>2
  <2>3. QED
    BY <1>a, <1>b, <1>c, <2>1, <2>2, TypesBack
<1>4. CASE DeviceStep
  <2>1. /\ out # <<>> /\ out' = Tail(out)
        /\ UNCHANGED <<call, result, before, calls, lost>>
    BY <1>4, DeviceMoves
  <2>2. out' \in Seq(Asks) /\ Asked \in Asks
    BY <2>1, <1>a, TailFacts, Types
  <2>3. ASSUME NEW typ \in {"DeviceInfo", "Success", "Generic", "Error"}, Answer(typ)
        PROVE  in' \in Seq(Answers)
    BY <2>3, <1>a, ReplyTypes, AppendFacts DEF Answer
  <2>4. in' \in Seq(Answers)
    BY <1>4, <1>a, <2>3, DeviceMoves
  <2>5. device' \in Devices
    BY <1>4, <1>a, <2>1, DeviceMoves, EffectTypes
  <2>6. done' \subseteq Nat \X Operations
    BY <1>4, <1>b, <2>2, DeviceMoves DEF Asks
  <2>7. QED
    BY <1>a, <1>b, <2>1, <2>2, <2>4, <2>5, <2>6, TypesBack
<1>5. CASE Unplugged
  <2>1. device' \in Devices
    BY <1>5, <1>a DEF Unplugged, Devices
  <2>2. QED
    BY <1>5, <2>1, <1>a, <1>b, TypesBack DEF Unplugged
<1>6. CASE UNCHANGED vars
  BY <1>6, <1>a, <1>b, TypesBack DEF vars
<1>7. QED
  BY <1>1, <1>2, <1>3, <1>4, <1>5, <1>6 DEF Next

\* Every variable has its type.
THEOREM TypeCorrect == Spec => []TypeOK
<1>1. QED
  BY TypeOKInit, TypeOKStep, PTL DEF Spec

-----------------------------------------------------------------------------
(* What is reported done was done.                                         *)

\* A request of a call that the device was found fit for fits it.
LEMMA OwnAskFits ==
  ASSUME TypeOK, call.st # "New", Suited, NEW q \in Asks, OwnAsk(q), q.op # "info"
  PROVE  Fits(q)
<1>1. call.st \in States /\ call.st # "WaitInfo"
  BY Types DEF OwnAsk, OpOf
<1>2. device.initialized \in BOOLEAN /\ before.initialized \in BOOLEAN
      /\ device.initialized = before.initialized
  BY Types DEF OwnAsk, Same, Devices
<1>3. call.st \in {"SetupWaitPassword", "SetupWaitBackup", "WaitName", "WaitRestore"} =>
        ~before.initialized /\ q.op \notin {"reset", "passphrase"}
  BY DEF Suited, OwnAsk, OpOf
<1>4. call.st \in {"WipeWaitReset", "TogglePassphraseWaitSet"} =>
        before.initialized /\ q.op \in {"reset", "passphrase"}
  BY DEF Suited, OwnAsk, OpOf
<1>5. QED
  BY <1>1, <1>2, <1>3, <1>4 DEF Fits, States

\* A call that waits has no result yet.
LEMMA NoneReported ==
  NoResult.status = "none"
  BY DEF NoResult

LEMMA StartOneLate ==
  ASSUME TypeOK, OneLate, Start
  PROVE  OneLate'
<1>1. /\ call = NewCall /\ device.on /\ in' = in /\ device' = device /\ done' = done /\ lost' = lost
      /\ before' = device /\ result' = NoResult /\ calls' = calls + 1
  BY DEF Start
<1>2. PICK of \in Commands : call' = [st |-> "WaitInfo", of |-> of]
  BY DEF Start
<1>3. call'.st = "WaitInfo" /\ call.st = "New"
  BY <1>1, <1>2 DEF NewCall
<1>4. PICK q : q = [Request("info", FALSE) EXCEPT !.id = calls']
  OBVIOUS
<1>5. q \in Asks /\ q.op = "info" /\ q.id = calls' /\ out' = Append(out, q)
  <2>1. calls' \in Nat
    BY <1>1, Types
  <2>2. q \in Asks /\ q.op = "info" /\ q.id = calls'
    BY <1>4, <2>1 DEF Request, Asks
  <2>3. QED
    BY <1>4, <2>2 DEF Start
<1>6. CASE lost = 0
  <2>1. in' = <<>> /\ out' = <<q>>
    BY <1>1, <1>3, <1>5, <1>6, TupleFacts DEF OneLate, Clean
  <2>2. OwnAsk(q)'
    BY <1>1, <1>3, <1>5 DEF OwnAsk, OpOf, Same
  <2>3. Suited' /\ DoneSoFar'
    BY <1>3 DEF Suited, DoneSoFar
  <2>4. Reported'
    BY <1>1, NoneReported DEF Reported
  <2>5. Clean'
    BY <1>1, <1>3, <1>5, <2>1, <2>2, <2>3, <2>4 DEF Clean, Waiting
  <2>6. QED
    BY <1>1, <1>6, <2>5 DEF OneLate
<1>7. CASE lost = 1
  <2>1. LateBetween
    BY <1>7 DEF OneLate, Late
  <2>2. ASSUME in = <<>> /\ \E q1 \in Asks : out = <<q1>> /\ OldAsk(q1)
        PROVE  LateAsking'
    <3>1. PICK q1 \in Asks : out = <<q1>> /\ OldAsk(q1)
      BY <2>2
    <3>2. out' = <<q1, q>>
      BY <1>5, <3>1, TupleFacts
    <3>3. OldAsk(q1)'
      BY <1>1, <3>1 DEF OldAsk, Fits
    <3>4. in' = <<>> /\ \E q0, q2 \in Asks : out' = <<q0, q2>> /\ OldAsk(q0)' /\ q2.op = "info"
      BY <1>1, <1>5, <2>2, <3>2, <3>3
    <3>5. QED
      BY <3>4 DEF LateAsking
  <2>3. ASSUME out = <<>> /\ \E r \in Answers : in = <<r>> /\ OldAnswer(r)
        PROVE  LateAsking'
    <3>1. PICK r \in Answers : in = <<r>> /\ OldAnswer(r)
      BY <2>3
    <3>2. out' = <<q>>
      BY <1>5, <2>3, TupleFacts
    <3>3. OldAnswer(r)'
      BY <1>1, <3>1 DEF OldAnswer, Snapshot
    <3>4. \E r1 \in Answers, q2 \in Asks :
            in' = <<r1>> /\ out' = <<q2>> /\ OldAnswer(r1)' /\ q2.op = "info"
      BY <1>1, <1>5, <3>1, <3>2, <3>3
    <3>5. QED
      BY <3>4 DEF LateAsking
  <2>4. LateAsking'
    <3>1. call = NewCall /\ device.on
      BY <1>1
    <3>2. QED
      BY <2>1, <2>2, <2>3, <3>1 DEF LateBetween
  <2>5. LateBetween' /\ LateActing' /\ LateResult'
    BY <1>1, <1>3, NoneReported DEF LateBetween, LateActing, LateResult, NewCall
  <2>6. QED
    BY <1>1, <1>7, <2>4, <2>5 DEF OneLate, Late
<1>8. CASE lost \notin {0, 1}
  BY <1>1, <1>8 DEF OneLate
<1>9. QED
  BY <1>6, <1>7, <1>8

\* What a command needs done, by the state in which it returns.
LEMMA RequiredFacts ==
  ASSUME TypeOK, call.st \in {"SetupWaitBackup", "WipeWaitReset", "WaitRestore",
                              "TogglePassphraseWaitSet"},
         Suited, DoneSoFar, <<calls, OpOf(call.st)>> \in done
  PROVE  \A op \in Required(call.of) : <<calls, op>> \in done
<1>1. call.of \in Commands
  BY Types
<1>2. CASE call.st = "SetupWaitBackup"
  <2>1. call.of.mode = "NewWallet"
    BY <1>2 DEF TypeOK
  <2>2. call.of.cmd = "Setup"
    BY <1>1, <2>1, CommandFacts
  <2>3. Required(call.of) \subseteq {"password", "backup"} \cup (IF call.of.label THEN {"name"} ELSE {})
    BY <2>1, <2>2 DEF Required
  <2>4. QED
    BY <1>2, <2>3 DEF DoneSoFar, OpOf
<1>3. CASE call.st = "WaitRestore"
  <2>1. call.of.cmd \in {"Setup", "Restore"} /\ call.of.mode # "NewWallet"
    BY <1>3 DEF Suited
  <2>2. Required(call.of) \subseteq {"restore"} \cup (IF call.of.label THEN {"name"} ELSE {})
    BY <2>1 DEF Required
  <2>3. QED
    BY <1>3, <2>2 DEF DoneSoFar, OpOf
<1>4. CASE call.st = "WipeWaitReset"
  <2>1. call.of.cmd = "Wipe" /\ ~call.of.label
    BY <1>1, <1>4, CommandFacts DEF Suited
  <2>2. Required(call.of) \subseteq {"reset"}
    BY <2>1 DEF Required
  <2>3. QED
    BY <1>4, <2>2 DEF OpOf
<1>5. CASE call.st = "TogglePassphraseWaitSet"
  <2>1. call.of.cmd = "TogglePassphrase" /\ ~call.of.label
    BY <1>1, <1>5, CommandFacts DEF Suited
  <2>2. Required(call.of) \subseteq {"passphrase"}
    BY <2>1 DEF Required
  <2>3. QED
    BY <1>5, <2>2 DEF OpOf
<1>6. QED
  BY <1>2, <1>3, <1>4, <1>5

\* A call reads its own reply.
LEMMA HostClean ==
  ASSUME TypeOK, Clean, HostReceive
  PROVE  Clean'
<1>1. /\ call.st # "New" /\ in # <<>> /\ in' = Tail(in)
      /\ device' = device /\ done' = done /\ before' = before /\ calls' = calls
  BY HostMoves
<1>2. PICK r \in Answers : out = <<>> /\ in = <<r>> /\ OwnReply(r)
  BY <1>1, TupleFacts DEF Clean, Waiting
<1>3. in' = <<>> /\ Response = r
  BY <1>1, <1>2, TupleFacts DEF Response
<1>4. Suited /\ DoneSoFar /\ result = NoResult
  BY <1>1 DEF Clean, Waiting
<1>5. ASSUME NEW status \in {"true", "false", "err"}, Return(status),
             status = "true" =>
               /\ \A op \in Required(call.of) : <<calls, op>> \in done
               /\ call.of.cmd = "TogglePassphrase" => device.passphrase # before.passphrase,
             status = "false" => device.initialized = before.initialized
      PROVE  Clean'
  <2>1. call' = NewCall /\ out' = <<>> /\ result'.status = status /\ result'.of = call.of
    BY <1>2, <1>5 DEF Return
  <2>2. Reported'
    BY <1>1, <1>5, <2>1 DEF Reported
  <2>3. QED
    BY <1>3, <2>1, <2>2 DEF Clean, Waiting, NewCall
<1>6. CASE Return("err")
  BY <1>5, <1>6
<1>7. CASE /\ Return("false") /\ Response.typ = "Generic"
           /\ call.st \in {"SetupWaitPassword", "SetupWaitBackup", "WipeWaitReset"}
  <2>1. Same
    BY <1>2, <1>3, <1>7 DEF OwnReply
  <2>2. QED
    BY <1>5, <1>7, <2>1 DEF Same
<1>8. CASE /\ Return("true") /\ Response.typ = "Success"
           /\ call.st \in {"SetupWaitBackup", "WipeWaitReset", "WaitRestore",
                           "TogglePassphraseWaitSet"}
  <2>1. <<calls, OpOf(call.st)>> \in done
    BY <1>2, <1>3, <1>8 DEF OwnReply
  <2>2. call.st = "TogglePassphraseWaitSet" => device.passphrase # before.passphrase
    BY <1>2, <1>3, <1>8 DEF OwnReply
  <2>3. call.of.cmd = "TogglePassphrase" => call.st = "TogglePassphraseWaitSet"
    <3>1. call.st = "SetupWaitBackup" => call.of.cmd = "Setup"
      BY <1>1, Types, CommandFacts DEF TypeOK
    <3>2. QED
      BY <1>4, <1>8, <3>1 DEF Suited
  <2>4. QED
    BY <1>4, <1>5, <1>8, <2>1, <2>2, <2>3, RequiredFacts
<1>9. ASSUME NEW arg \in BOOLEAN, NEW st \in States, Send(OpOf(st), arg, st), GoesOn(arg, st)
      PROVE  Clean'
  <2>1. PICK q : q = Request(OpOf(st), arg)
    OBVIOUS
  <2>2. q \in Asks /\ q.op = OpOf(st) /\ q.id = calls /\ q.arg = arg
    BY <2>1, Types DEF Request, Asks, OpOf, Operations
  <2>3. out' = <<q>> /\ result' = NoResult
    BY <1>2, <1>4, <1>9, <2>1, TupleFacts DEF Send
  <2>4. call' = [st |-> st, of |-> call.of]
    BY <1>9, Types DEF Send
  <2>5. call'.st = st /\ call'.of = call.of /\ st # "New" /\ call.of \in Commands
    BY <1>1, <2>4, Types DEF States
  <2>6. device.initialized \in BOOLEAN /\ before.initialized \in BOOLEAN
    BY Types DEF Devices
  <2>7. Same /\ (call.st = "WaitInfo" => Snapshot(r))
    BY <1>2, <1>3, <1>9 DEF OwnReply, GoesOn
  <2>8. call.st = "WaitInfo" => Allowed /\ (Allowed <=> IF call.of.cmd \in {"Setup", "Restore"}
                                                        THEN ~before.initialized
                                                        ELSE before.initialized)
    BY <1>3, <1>9, <2>7 DEF GoesOn, Allowed, Snapshot, Same
  <2>9. Suited'
    <3>1. CASE call.st = "WaitInfo"
      BY <1>1, <1>9, <2>5, <2>8, <3>1 DEF GoesOn, Suited
    <3>2. CASE call.st = "WaitName"
      BY <1>1, <1>4, <1>9, <2>5, <3>2 DEF GoesOn, Suited
    <3>3. CASE call.st = "SetupWaitPassword"
      BY <1>1, <1>4, <1>9, <2>5, <3>3 DEF GoesOn, Suited
    <3>4. QED
      BY <1>9, <3>1, <3>2, <3>3 DEF GoesOn
  <2>10. call.st \in {"WaitName", "SetupWaitPassword"} => <<calls, OpOf(call.st)>> \in done
    BY <1>2, <1>3, <1>9 DEF OwnReply, GoesOn
  <2>11. DoneSoFar'
    <3>1. CASE call.st = "WaitInfo"
      BY <1>1, <1>9, <2>5, <3>1 DEF GoesOn, DoneSoFar
    <3>2. CASE call.st = "WaitName"
      BY <1>1, <1>9, <2>5, <2>10, <3>2 DEF GoesOn, DoneSoFar, OpOf
    <3>3. CASE call.st = "SetupWaitPassword"
      BY <1>1, <1>4, <1>9, <2>5, <2>10, <3>3 DEF GoesOn, DoneSoFar, OpOf
    <3>4. QED
      BY <1>9, <3>1, <3>2, <3>3 DEF GoesOn
  <2>12. q.op = "passphrase" => q.arg = ~before.passphrase
    <3>1. q.op = "passphrase" => st = "TogglePassphraseWaitSet"
      BY <2>2 DEF OpOf, States
    <3>2. st = "TogglePassphraseWaitSet" => arg = ~r.passphrase /\ call.st = "WaitInfo"
      BY <1>3, <1>9 DEF GoesOn
    <3>3. QED
      BY <2>2, <2>7, <3>1, <3>2 DEF Snapshot, Same
  <2>13. OwnAsk(q)'
    BY <1>1, <2>2, <2>5, <2>7, <2>12 DEF OwnAsk, Same
  <2>14. Reported'
    BY <2>3, NoneReported DEF Reported
  <2>15. QED
    BY <1>3, <2>2, <2>3, <2>5, <2>9, <2>11, <2>13, <2>14 DEF Clean, Waiting
<1>10. QED
  BY <1>6, <1>7, <1>8, <1>9, HostMoves

\* A call reads the reply before its own.
LEMMA HostLate ==
  ASSUME TypeOK, Late, HostReceive
  PROVE  Late'
<1>1. /\ call.st # "New" /\ in # <<>> /\ in' = Tail(in)
      /\ device' = device /\ done' = done /\ before' = before /\ calls' = calls
  BY HostMoves
<1>2. call.st \in States /\ call # NewCall
  BY <1>1, Types DEF NewCall
<1>3. ASSUME Return("err"), call' = NewCall /\ device.on => LateBetween'
      PROVE  Late'
  <2>1. call' = NewCall /\ result'.status = "err" /\ call'.st = "New"
    BY <1>3 DEF Return, NewCall
  <2>2. LateBetween'
    BY <1>1, <1>3, <2>1 DEF LateBetween
  <2>3. QED
    BY <2>1, <2>2 DEF Late, LateAsking, LateActing, LateResult
<1>4. CASE call.st = "WaitInfo"
  <2>1. PICK r \in Answers :
          /\ OldAnswer(r)
          /\ \/ \E q \in Asks : in = <<r>> /\ out = <<q>> /\ q.op = "info"
             \/ out = <<>> /\ \E r2 \in Answers :
                                in = <<r, r2>> /\ r2.typ = "DeviceInfo" /\ Snapshot(r2)
    BY <1>1, <1>4 DEF Late, LateAsking
  <2>2. Response = r
    BY <2>1, TupleFacts DEF Response
  <2>3. CASE Return("err")
    <3>1. out' = out
      BY <2>3 DEF Return
    <3>2. CASE \E q \in Asks : in = <<r>> /\ out = <<q>> /\ q.op = "info"
      <4>1. PICK q \in Asks : in = <<r>> /\ out = <<q>> /\ q.op = "info"
        BY <3>2
      <4>2. in' = <<>> /\ out' = <<q>> /\ OldAsk(q)'
        BY <1>1, <3>1, <4>1, TupleFacts DEF OldAsk
      <4>3. QED
        BY <1>3, <2>3, <4>2 DEF LateBetween
    <3>3. CASE out = <<>> /\ \E r2 \in Answers :
                               in = <<r, r2>> /\ r2.typ = "DeviceInfo" /\ Snapshot(r2)
      <4>1. PICK r2 \in Answers : in = <<r, r2>> /\ r2.typ = "DeviceInfo" /\ Snapshot(r2)
        BY <3>3
      <4>2. in' = <<r2>> /\ out' = <<>>
        BY <1>1, <3>1, <3>3, <4>1, TupleFacts
      <4>3. OldAnswer(r2)'
        BY <1>1, <4>1 DEF OldAnswer, Snapshot
      <4>4. QED
        BY <1>3, <2>3, <4>2, <4>3 DEF LateBetween
    <3>4. QED
      BY <2>1, <3>2, <3>3
  <2>4. ASSUME NEW arg \in BOOLEAN, NEW st \in States, Send(OpOf(st), arg, st), GoesOn(arg, st)
        PROVE  Late'
    <3>1. PICK q : q = Request(OpOf(st), arg)
      OBVIOUS
    <3>2. /\ r.typ = "DeviceInfo" /\ Allowed /\ Snapshot(r)
          /\ st \in {"WaitName", "SetupWaitPassword", "WaitRestore", "WipeWaitReset",
                     "TogglePassphraseWaitSet"}
          /\ st \in {"WaitName", "SetupWaitPassword", "WaitRestore"} <=>
               call.of.cmd \in {"Setup", "Restore"}
      BY <1>4, <2>1, <2>2, <2>4 DEF GoesOn, OldAnswer
    <3>3. q \in Asks /\ q.op = OpOf(st) /\ q.op # "info"
      BY <3>1, <3>2, Types DEF Request, Asks, OpOf, Operations
    <3>4. device.initialized \in BOOLEAN
      BY Types DEF Devices
    <3>5. Fits(q)'
      <4>1. q.op \in {"reset", "passphrase"} <=> ~(call.of.cmd \in {"Setup", "Restore"})
        BY <3>2, <3>3 DEF OpOf
      <4>2. device.initialized <=> ~(call.of.cmd \in {"Setup", "Restore"})
        BY <2>2, <3>2, <3>4 DEF Allowed, Snapshot
      <4>3. QED
        BY <1>1, <4>1, <4>2 DEF Fits
    <3>6. out' = Append(out, q) /\ result' = result
      BY <2>4, <3>1 DEF Send
    <3>7. call' = [st |-> st, of |-> call.of]
      BY <2>4, Types DEF Send
    <3>8. call'.st = st /\ st \notin {"New", "WaitInfo"}
      BY <3>2, <3>7
    <3>9. LateActing'
      <4>1. CASE \E q1 \in Asks : in = <<r>> /\ out = <<q1>> /\ q1.op = "info"
        <5>1. PICK q1 \in Asks : in = <<r>> /\ out = <<q1>> /\ q1.op = "info"
          BY <4>1
        <5>2. in' = <<>> /\ out' = <<q1, q>>
          BY <1>1, <3>6, <5>1, TupleFacts
        <5>3. QED
          BY <3>3, <3>5, <5>1, <5>2 DEF LateActing
      <4>2. CASE out = <<>> /\ \E r2 \in Answers :
                                 in = <<r, r2>> /\ r2.typ = "DeviceInfo" /\ Snapshot(r2)
        <5>1. PICK r2 \in Answers : in = <<r, r2>> /\ r2.typ = "DeviceInfo"
          BY <4>2
        <5>2. in' = <<r2>> /\ out' = <<q>>
          BY <1>1, <3>6, <4>2, <5>1, TupleFacts
        <5>3. QED
          BY <3>3, <3>5, <5>1, <5>2 DEF LateActing
      <4>3. QED
        BY <2>1, <4>1, <4>2
    <3>10. LateBetween' /\ LateAsking' /\ LateResult'
      <4>1. call' # NewCall /\ LateResult
        BY <3>8 DEF NewCall, Late
      <4>2. QED
        BY <3>6, <3>8, <4>1 DEF LateBetween, LateAsking, LateResult
    <3>11. QED
      BY <3>9, <3>10 DEF Late
  <2>5. QED
    BY <1>4, <2>3, <2>4, HostMoves
<1>5. CASE call.st # "WaitInfo"
  <2>1. PICK r \in Answers :
          /\ r.typ = "DeviceInfo"
          /\ \/ \E q \in Asks : in = <<r>> /\ out = <<q>> /\ q.op # "info" /\ Fits(q)
             \/ out = <<>> /\ \E r2 \in Answers : in = <<r, r2>> /\ r2.typ # "DeviceInfo"
             \/ ~device.on /\ in = <<r>>
    BY <1>1, <1>5 DEF Late, LateActing
  <2>2. Response = r
    BY <2>1, TupleFacts DEF Response
  <2>3. Return("err")
    BY <1>5, <2>1, <2>2, HostMoves DEF GoesOn
  <2>4. out' = out
    BY <2>3 DEF Return
  <2>5. CASE \E q \in Asks : in = <<r>> /\ out = <<q>> /\ q.op # "info" /\ Fits(q)
    <3>1. PICK q \in Asks : in = <<r>> /\ out = <<q>> /\ Fits(q)
      BY <2>5
    <3>2. in' = <<>> /\ out' = <<q>> /\ OldAsk(q)'
      BY <1>1, <2>4, <3>1, TupleFacts DEF OldAsk, Fits
    <3>3. QED
      BY <1>3, <2>3, <3>2 DEF LateBetween
  <2>6. CASE out = <<>> /\ \E r2 \in Answers : in = <<r, r2>> /\ r2.typ # "DeviceInfo"
    <3>1. PICK r2 \in Answers : in = <<r, r2>> /\ r2.typ # "DeviceInfo"
      BY <2>6
    <3>2. in' = <<r2>> /\ out' = <<>> /\ OldAnswer(r2)'
      BY <1>1, <2>4, <2>6, <3>1, TupleFacts DEF OldAnswer
    <3>3. QED
      BY <1>3, <2>3, <3>2 DEF LateBetween
  <2>7. CASE ~device.on /\ in = <<r>>
    BY <1>3, <2>3, <2>7
  <2>8. QED
    BY <2>1, <2>5, <2>6, <2>7
<1>6. QED
  BY <1>4, <1>5

\* A call stops waiting: what it waited for is what the next ones find.
LEMMA FailOneLate ==
  ASSUME TypeOK, OneLate, ReadFails \/ Dropped
  PROVE  OneLate'
<1>1. /\ call # NewCall /\ call' = NewCall /\ lost' = lost + 1
      /\ out' = out /\ in' = in /\ device' = device
  BY DEF ReadFails, Dropped
<1>2. call.st \in States /\ call.st # "New" /\ lost \in Nat
  BY <1>1, Types
<1>3. CASE lost = 0
  <2>1. Clean /\ Suited
    BY <1>2, <1>3 DEF OneLate, Clean, Waiting
  <2>2. LateBetween'
    <3>1. SUFFICES ASSUME device.on PROVE LateBetween'
      BY <1>1 DEF LateBetween
    <3>2. CASE in = <<>> /\ \E q \in Asks : out = <<q>> /\ OwnAsk(q)
      <4>1. PICK q \in Asks : out = <<q>> /\ OwnAsk(q)
        BY <3>2
      <4>2. q.op # "info" => Fits(q)
        BY <1>2, <2>1, <4>1, OwnAskFits
      <4>3. OldAsk(q)'
        BY <1>1, <4>2 DEF OldAsk, Fits
      <4>4. QED
        BY <1>1, <3>2, <4>1, <4>3 DEF LateBetween
    <3>3. CASE out = <<>> /\ \E r \in Answers : in = <<r>> /\ OwnReply(r)
      <4>1. PICK r \in Answers : in = <<r>> /\ OwnReply(r)
        BY <3>3
      <4>2. OldAnswer(r)'
        BY <1>1, <4>1 DEF OwnReply, OldAnswer, Snapshot
      <4>3. QED
        BY <1>1, <3>3, <4>1, <4>2 DEF LateBetween
    <3>4. QED
      BY <1>2, <2>1, <3>1, <3>2, <3>3 DEF Clean, Waiting
  <2>3. LateAsking' /\ LateActing'
    BY <1>1 DEF LateAsking, LateActing, NewCall
  <2>4. LateResult'
    <3>1. CASE Dropped
      BY <3>1, NoneReported DEF Dropped, LateResult
    <3>2. CASE ReadFails /\ call.st # "WipeWaitReset"
      BY <3>2 DEF ReadFails, LateResult
    <3>3. CASE ReadFails /\ call.st = "WipeWaitReset"
      BY <2>1, <3>3 DEF ReadFails, LateResult, Suited
    <3>4. QED
      BY <3>1, <3>2, <3>3
  <2>5. QED
    BY <1>1, <1>3, <2>2, <2>3, <2>4 DEF OneLate, Late
<1>4. CASE lost # 0
  BY <1>1, <1>2, <1>4 DEF OneLate
<1>5. QED
  BY <1>3, <1>4

\* The device gets what the call asks for.
LEMMA DeviceClean ==
  ASSUME TypeOK, Clean, DeviceStep
  PROVE  Clean'
<1>1. /\ device.on /\ out # <<>> /\ out' = Tail(out)
      /\ call' = call /\ result' = result /\ before' = before /\ calls' = calls
  BY DeviceMoves
<1>2. call.st # "New" /\ Suited /\ DoneSoFar /\ result = NoResult
  BY <1>1 DEF Clean, Waiting
<1>3. PICK q \in Asks : in = <<>> /\ out = <<q>> /\ OwnAsk(q)
  BY <1>1, <1>2 DEF Clean, Waiting
<1>4. out' = <<>> /\ Asked = q /\ call.st \in States
  BY <1>1, <1>2, <1>3, TupleFacts, Types DEF Asked
<1>5. ASSUME done \subseteq done', (~device'.on /\ in' = <<>>) \/ \E r \in Answers : in' = <<r>> /\ OwnReply(r)'
      PROVE  Clean'
  <2>1. Suited' /\ DoneSoFar'
    BY <1>1, <1>2, <1>5 DEF Suited, DoneSoFar
  <2>2. Reported'
    BY <1>1, <1>2, NoneReported DEF Reported
  <2>3. QED
    BY <1>1, <1>2, <1>4, <1>5, <2>1, <2>2 DEF Clean, Waiting
<1>6. ASSUME NEW typ \in {"DeviceInfo", "Success", "Generic", "Error"}, Answer(typ)
      PROVE  \E r \in Answers : in' = <<r>> /\ r.typ = typ /\ Snapshot(r)
  BY <1>3, <1>6, ReplyTypes, TupleFacts DEF Answer
<1>7. CASE Asked.op = "info" /\ Answer("DeviceInfo") /\ UNCHANGED <<device, done>>
  <2>1. PICK r \in Answers : in' = <<r>> /\ r.typ = "DeviceInfo" /\ Snapshot(r)
    BY <1>6, <1>7
  <2>2. call.st = "WaitInfo" /\ Same
    BY <1>3, <1>4, <1>7 DEF OwnAsk, OpOf, States
  <2>3. OwnReply(r)'
    BY <1>1, <1>7, <2>1, <2>2 DEF OwnReply, Snapshot, Same
  <2>4. QED
    BY <1>5, <1>7, <2>1, <2>3
<1>8. CASE Asked.op # "info" /\ done' = done \cup {<<Asked.id, Asked.op>>}
           /\ device' = Effect /\ Answer("Success")
  <2>1. PICK r \in Answers : in' = <<r>> /\ r.typ = "Success"
    BY <1>6, <1>8
  <2>2. call.st # "WaitInfo" /\ <<calls, OpOf(call.st)>> \in done'
    BY <1>3, <1>4, <1>8 DEF OwnAsk, OpOf
  <2>3. call.st = "TogglePassphraseWaitSet" => device'.passphrase # before.passphrase
    <3>1. SUFFICES ASSUME call.st = "TogglePassphraseWaitSet"
                   PROVE  device'.passphrase # before.passphrase
      OBVIOUS
    <3>2. q.op = "passphrase" /\ q.arg = ~before.passphrase
      BY <1>3, <3>1 DEF OwnAsk, OpOf
    <3>3. device'.passphrase = q.arg
      BY <1>1, <1>4, <1>8, <3>2, EffectTypes
    <3>4. before.passphrase \in BOOLEAN
      BY Types DEF Devices
    <3>5. QED
      BY <3>2, <3>3, <3>4
  <2>4. call.st \in {"WaitName", "SetupWaitPassword"} => Same'
    <3>1. SUFFICES ASSUME call.st \in {"WaitName", "SetupWaitPassword"} PROVE Same'
      OBVIOUS
    <3>2. q.op \in {"name", "password"} /\ Same
      BY <1>3, <3>1 DEF OwnAsk, OpOf
    <3>3. device'.initialized = device.initialized /\ device'.passphrase = device.passphrase
      BY <1>1, <1>4, <1>8, <3>2, EffectTypes
    <3>4. QED
      BY <1>1, <3>2, <3>3 DEF Same
  <2>5. OwnReply(r)'
    BY <1>1, <2>1, <2>2, <2>3, <2>4 DEF OwnReply
  <2>6. QED
    BY <1>5, <1>8, <2>1, <2>5
<1>9. CASE Asked.op # "info" /\ done' = done \cup {<<Asked.id, Asked.op>>}
           /\ Asked.op = "reset" /\ device' = [Effect EXCEPT !.on = FALSE] /\ UNCHANGED in
  <2>1. ~device'.on
    BY <1>1, <1>9, EffectTypes DEF Devices
  <2>2. QED
    BY <1>3, <1>5, <1>9, <2>1
<1>10. CASE Asked.op # "info" /\ UNCHANGED <<device, done>>
            /\ \E typ \in {"Generic", "Error"} : Answer(typ)
  <2>1. PICK r \in Answers : in' = <<r>> /\ r.typ \in {"Generic", "Error"}
    BY <1>6, <1>10
  <2>2. call.st # "WaitInfo" /\ Same
    BY <1>3, <1>4, <1>10 DEF OwnAsk, OpOf
  <2>3. OwnReply(r)'
    BY <1>1, <1>10, <2>1, <2>2 DEF OwnReply, Same
  <2>4. QED
    BY <1>5, <1>10, <2>1, <2>3
<1>11. QED
  BY <1>7, <1>8, <1>9, <1>10, DeviceMoves

\* The device gets what an earlier call asks for, or this one after it.
LEMMA DeviceLate ==
  ASSUME TypeOK, Late, DeviceStep
  PROVE  Late'
<1>1. /\ device.on /\ out # <<>> /\ out' = Tail(out)
      /\ call' = call /\ result' = result /\ before' = before /\ calls' = calls
  BY DeviceMoves
<1>2. ASSUME NEW typ \in {"DeviceInfo", "Success", "Generic", "Error"}, Answer(typ)
      PROVE  \E r \in Answers : in' = Append(in, r) /\ r.typ = typ /\ Snapshot(r)
  BY <1>2, ReplyTypes DEF Answer
<1>3. \/ Asked.op = "info" /\ UNCHANGED device
         /\ \E r \in Answers : in' = Append(in, r) /\ r.typ = "DeviceInfo" /\ Snapshot(r)
      \/ Asked.op # "info" /\ \E r \in Answers : in' = Append(in, r) /\ r.typ # "DeviceInfo"
      \/ Asked.op # "info" /\ in' = in /\ ~device'.on
  <2>1. CASE Asked.op = "info" /\ Answer("DeviceInfo") /\ UNCHANGED <<device, done>>
    BY <1>2, <2>1
  <2>2. CASE Asked.op # "info" /\ \E typ \in {"Success", "Generic", "Error"} : Answer(typ)
    BY <1>2, <2>2
  <2>3. CASE Asked.op # "info" /\ device' = [Effect EXCEPT !.on = FALSE] /\ UNCHANGED in
    <3>1. ~device'.on
      BY <1>1, <2>3, EffectTypes DEF Devices
    <3>2. QED
      BY <2>3, <3>1
  <2>4. QED
    BY <2>1, <2>2, <2>3, DeviceMoves
<1>4. LateBetween'
  <2>1. SUFFICES ASSUME call = NewCall, device'.on PROVE LateBetween'
    BY <1>1 DEF LateBetween
  <2>2. PICK q \in Asks : in = <<>> /\ out = <<q>>
    BY <1>1, <2>1 DEF Late, LateBetween
  <2>3. out' = <<>>
    BY <1>1, <2>2, TupleFacts
  <2>4. \E r \in Answers : in' = <<r>> /\ OldAnswer(r)'
    <3>1. CASE UNCHANGED device
               /\ \E r \in Answers : in' = Append(in, r) /\ r.typ = "DeviceInfo" /\ Snapshot(r)
      BY <2>2, <3>1, TupleFacts DEF OldAnswer, Snapshot
    <3>2. CASE \E r \in Answers : in' = Append(in, r) /\ r.typ # "DeviceInfo"
      BY <2>2, <3>2, TupleFacts DEF OldAnswer
    <3>3. QED
      BY <1>3, <2>1, <3>1, <3>2
  <2>5. QED
    BY <2>3, <2>4 DEF LateBetween
<1>5. LateAsking'
  <2>1. SUFFICES ASSUME call.st = "WaitInfo" PROVE LateAsking'
    BY <1>1 DEF LateAsking
  <2>2. CASE in = <<>> /\ \E q1, q2 \in Asks : out = <<q1, q2>> /\ OldAsk(q1) /\ q2.op = "info"
    <3>1. PICK q1, q2 \in Asks : out = <<q1, q2>> /\ q2.op = "info"
      BY <2>2
    <3>2. out' = <<q2>>
      BY <1>1, <3>1, TupleFacts
    <3>3. CASE in' = in /\ ~device'.on
      BY <2>2, <3>3 DEF LateAsking
    <3>4. ASSUME NEW r \in Answers, in' = Append(in, r), OldAnswer(r)'
          PROVE  LateAsking'
      <4>1. in' = <<r>>
        BY <2>2, <3>4, TupleFacts
      <4>2. QED
        BY <3>1, <3>2, <3>4, <4>1 DEF LateAsking
    <3>5. CASE UNCHANGED device
               /\ \E r \in Answers : in' = Append(in, r) /\ r.typ = "DeviceInfo" /\ Snapshot(r)
      BY <3>4, <3>5 DEF OldAnswer, Snapshot
    <3>6. CASE \E r \in Answers : in' = Append(in, r) /\ r.typ # "DeviceInfo"
      BY <3>4, <3>6 DEF OldAnswer
    <3>7. QED
      BY <1>3, <3>3, <3>5, <3>6
  <2>3. CASE \E r \in Answers, q \in Asks : in = <<r>> /\ out = <<q>> /\ OldAnswer(r) /\ q.op = "info"
    <3>1. PICK r \in Answers, q \in Asks : in = <<r>> /\ out = <<q>> /\ OldAnswer(r) /\ q.op = "info"
      BY <2>3
    <3>2. out' = <<>> /\ Asked = q
      BY <1>1, <3>1, TupleFacts DEF Asked
    <3>3. PICK r2 \in Answers :
            device' = device /\ in' = Append(in, r2) /\ r2.typ = "DeviceInfo" /\ Snapshot(r2)
      BY <1>3, <3>1, <3>2
    <3>4. in' = <<r, r2>> /\ OldAnswer(r)' /\ Snapshot(r2)'
      BY <3>1, <3>3, TupleFacts DEF OldAnswer, Snapshot
    <3>5. QED
      BY <3>2, <3>3, <3>4 DEF LateAsking
  <2>4. QED
    BY <1>1, <2>1, <2>2, <2>3 DEF Late, LateAsking
<1>6. LateActing'
  <2>1. SUFFICES ASSUME call.st \notin {"New", "WaitInfo"} PROVE LateActing'
    BY <1>1 DEF LateActing
  <2>2. CASE in = <<>> /\ \E q1, q2 \in Asks :
                            out = <<q1, q2>> /\ q1.op = "info" /\ q2.op # "info" /\ Fits(q2)
    <3>1. PICK q1, q2 \in Asks : out = <<q1, q2>> /\ q1.op = "info" /\ q2.op # "info" /\ Fits(q2)
      BY <2>2
    <3>2. out' = <<q2>> /\ Asked = q1
      BY <1>1, <3>1, TupleFacts DEF Asked
    <3>3. PICK r \in Answers : device' = device /\ in' = Append(in, r) /\ r.typ = "DeviceInfo"
      BY <1>3, <3>1, <3>2
    <3>4. in' = <<r>> /\ Fits(q2)'
      BY <2>2, <3>1, <3>3, TupleFacts DEF Fits
    <3>5. QED
      BY <3>1, <3>2, <3>3, <3>4 DEF LateActing
  <2>3. CASE \E r \in Answers, q \in Asks :
               in = <<r>> /\ out = <<q>> /\ r.typ = "DeviceInfo" /\ q.op # "info" /\ Fits(q)
    <3>1. PICK r \in Answers, q \in Asks :
            in = <<r>> /\ out = <<q>> /\ r.typ = "DeviceInfo" /\ q.op # "info"
      BY <2>3
    <3>2. out' = <<>> /\ Asked = q
      BY <1>1, <3>1, TupleFacts DEF Asked
    <3>3. CASE in' = in /\ ~device'.on
      BY <3>1, <3>3 DEF LateActing
    <3>4. CASE \E r2 \in Answers : in' = Append(in, r2) /\ r2.typ # "DeviceInfo"
      <4>1. PICK r2 \in Answers : in' = Append(in, r2) /\ r2.typ # "DeviceInfo"
        BY <3>4
      <4>2. in' = <<r, r2>>
        BY <3>1, <4>1, TupleFacts
      <4>3. QED
        BY <3>1, <3>2, <4>1, <4>2 DEF LateActing
    <3>5. QED
      BY <1>3, <3>1, <3>2, <3>3, <3>4
  <2>4. QED
    BY <1>1, <2>1, <2>2, <2>3 DEF Late, LateActing
<1>7. LateResult'
  BY <1>1 DEF Late, LateResult
<1>8. QED
  BY <1>4, <1>5, <1>6, <1>7 DEF Late

\* What is known of the device's state stays so when it is gone.
LEMMA UnplugOneLate ==
  ASSUME TypeOK, OneLate, Unplugged
  PROVE  OneLate'
<1>1. /\ device' = [device EXCEPT !.on = FALSE]
      /\ UNCHANGED <<call, result, out, in, done, before, calls, lost>>
  BY DEF Unplugged
<1>2. /\ device'.initialized = device.initialized /\ device'.passphrase = device.passphrase
      /\ ~device'.on
  BY <1>1, Types DEF Devices
<1>3. \A q : (Fits(q) <=> Fits(q)') /\ (OldAsk(q) <=> OldAsk(q)') /\ (OwnAsk(q) <=> OwnAsk(q)')
  BY <1>1, <1>2 DEF Fits, OldAsk, OwnAsk, Same
<1>4. \A r : /\ (Snapshot(r) <=> Snapshot(r)') /\ (OldAnswer(r) <=> OldAnswer(r)')
             /\ (OwnReply(r) <=> OwnReply(r)')
  BY <1>1, <1>2 DEF Snapshot, OldAnswer, OwnReply, Same
<1>5. CASE lost = 0
  <2>1. Clean
    BY <1>5 DEF OneLate
  <2>2. Waiting'
    BY <1>1, <1>2, <1>3, <1>4, <2>1 DEF Clean, Waiting, Suited, DoneSoFar
  <2>3. Reported'
    BY <1>1, <1>2, <2>1 DEF Clean, Reported
  <2>4. QED
    BY <1>1, <1>5, <2>1, <2>2, <2>3 DEF OneLate, Clean
<1>6. CASE lost = 1
  <2>1. Late
    BY <1>6 DEF OneLate
  <2>2. LateBetween'
    BY <1>2 DEF LateBetween
  <2>3. LateAsking'
    BY <1>1, <1>2, <1>3, <1>4, <2>1 DEF Late, LateAsking
  <2>4. LateActing'
    BY <1>1, <1>2, <1>3, <1>4, <2>1 DEF Late, LateActing
  <2>5. LateResult'
    BY <1>1, <2>1 DEF Late, LateResult
  <2>6. QED
    BY <1>1, <1>6, <2>2, <2>3, <2>4, <2>5 DEF OneLate, Late
<1>7. QED
  BY <1>1, <1>5, <1>6 DEF OneLate

LEMMA OneLateInit == Init => OneLate
  BY NoneReported DEF Init, OneLate, Clean, Waiting, Reported, NewCall

LEMMA OneLateStep == TypeOK /\ OneLate /\ [Next]_vars => OneLate'
<1> SUFFICES ASSUME TypeOK, OneLate, [Next]_vars PROVE OneLate'
  OBVIOUS
<1>1. CASE HostReceive
  <2>1. lost' = lost
    BY <1>1, HostMoves
  <2>2. QED
    BY <1>1, <2>1, HostClean, HostLate DEF OneLate
<1>2. CASE DeviceStep
  <2>1. lost' = lost
    BY <1>2, DeviceMoves
  <2>2. QED
    BY <1>2, <2>1, DeviceClean, DeviceLate DEF OneLate
<1>3. CASE UNCHANGED vars
  BY <1>3 DEF vars, OneLate, Clean, Waiting, Suited, DoneSoFar, OwnAsk, OwnReply, Same, Snapshot,
              Reported, Late, LateBetween, LateAsking, LateActing, LateResult, OldAsk, OldAnswer, Fits
<1>4. QED
  BY <1>1, <1>2, <1>3, StartOneLate, FailOneLate, UnplugOneLate DEF Next

LEMMA LateInvariant == Spec => []OneLate
<1>1. QED
  BY OneLateInit, OneLateStep, TypeCorrect, PTL DEF Spec

\* A command that reports success had all of it done by the device for this call,
\* one that was declined left the device with a wallet or without as it was, and a
\* passphrase was switched, unless two calls or more stopped waiting.
THEOREM WhatIsReportedWasDone == Spec => []ReportedDone
<1>1. TypeOK /\ OneLate => ReportedDone
  <2> SUFFICES ASSUME TypeOK, OneLate PROVE ReportedDone
    OBVIOUS
  <2>1. CASE lost = 0
    BY <2>1 DEF OneLate, Clean, Reported, ReportedDone
  <2>2. CASE lost = 1
    BY <2>2 DEF OneLate, Late, LateResult, ReportedDone
  <2>3. CASE ~(lost <= 1)
    BY <2>3 DEF ReportedDone
  <2>4. lost \in Nat
    BY Types
  <2>5. QED
    BY <2>1, <2>2, <2>3, <2>4
<1>2. QED
  BY <1>1, LateInvariant, TypeCorrect, PTL

\* A device is asked to replace its wallet, or to change the one it has, only as
\* it is now, also on a stale answer, unless two calls or more stopped waiting.
THEOREM WalletsAreKept == Spec => WalletUntouched
<1>1. TypeOK /\ OneLate /\ [Next]_vars =>
        [lost <= 1 /\ done' # done => (Asked.op \in {"reset", "passphrase"} <=> device.initialized)]_vars
  <2> SUFFICES ASSUME TypeOK, OneLate, [Next]_vars, lost <= 1, done' # done
               PROVE  Asked.op \in {"reset", "passphrase"} <=> device.initialized
    OBVIOUS
  <2>1. DeviceStep
    <3>1. CASE HostReceive
      BY <3>1, HostMoves
    <3>2. QED
      BY <3>1 DEF Next, Start, ReadFails, Dropped, Unplugged, vars
  <2>2. device.on /\ out # <<>> /\ Asked.op # "info"
    BY <2>1, DeviceMoves
  <2>3. lost = 0 \/ lost = 1
    BY Types
  <2>4. CASE lost = 0
    <3>1. call.st # "New" /\ Suited
      BY <2>2, <2>4 DEF OneLate, Clean, Waiting
    <3>2. PICK q \in Asks : out = <<q>> /\ OwnAsk(q)
      BY <2>2, <2>4, <3>1 DEF OneLate, Clean, Waiting
    <3>3. Asked = q
      BY <3>2, TupleFacts DEF Asked
    <3>4. QED
      BY <2>2, <3>1, <3>2, <3>3, OwnAskFits DEF Fits
  <2>5. CASE lost = 1
    <3>1. Late
      BY <2>5 DEF OneLate
    <3>2. CASE call.st = "New"
      <4>1. PICK q \in Asks : out = <<q>> /\ OldAsk(q)
        BY <2>2, <3>1, <3>2, Types DEF Late, LateBetween
      <4>2. Asked = q
        BY <4>1, TupleFacts DEF Asked
      <4>3. QED
        BY <2>2, <4>1, <4>2 DEF OldAsk, Fits
    <3>3. CASE call.st = "WaitInfo"
      <4>1. CASE \E q1, q2 \in Asks : out = <<q1, q2>> /\ OldAsk(q1)
        <5>1. PICK q1, q2 \in Asks : out = <<q1, q2>> /\ OldAsk(q1)
          BY <4>1
        <5>2. Asked = q1
          BY <5>1, TupleFacts DEF Asked
        <5>3. QED
          BY <2>2, <5>1, <5>2 DEF OldAsk, Fits
      <4>2. CASE \E q \in Asks : out = <<q>> /\ q.op = "info"
        BY <2>2, <4>2, TupleFacts DEF Asked
      <4>3. QED
        BY <2>2, <3>1, <3>3, <4>1, <4>2 DEF Late, LateAsking
    <3>4. CASE call.st \notin {"New", "WaitInfo"}
      <4>1. CASE \E q1, q2 \in Asks : out = <<q1, q2>> /\ q1.op = "info"
        BY <2>2, <4>1, TupleFacts DEF Asked
      <4>2. CASE \E q \in Asks : out = <<q>> /\ Fits(q)
        BY <4>2, TupleFacts DEF Asked, Fits
      <4>3. QED
        BY <2>2, <3>1, <3>4, <4>1, <4>2 DEF Late, LateActing
    <3>5. QED
      BY <3>2, <3>3, <3>4
  <2>6. QED
    BY <2>3, <2>4, <2>5
<1>2. QED
  BY <1>1, LateInvariant, TypeCorrect, PTL DEF Spec, WalletUntouched
=============================================================================
