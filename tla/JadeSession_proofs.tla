------------------------- MODULE JadeSession_proofs -------------------------
(* What TLAPS proves of JadeSession, for every value of its constants.     *)
EXTENDS JadeSession, SequenceFacts, TLAPS

\* A reply, in two pieces.
Whole(reply) == <<<<reply, "head">>, <<reply, "rest">>>>

\* What the host has read of a reply, and what is left for it to read.
Stream == call.buf \o in

\* A reply with a fragment of a PSBT, and one that is followed by another.
Genuine(reply) ==
  IF reply.typ = "bytes"
  THEN /\ reply.arg \in Psbts
       /\ \/ /\ reply.seqnum \in 1..Fragments[reply.arg] /\ reply.seqlen = Fragments[reply.arg]
             /\ reply.data = <<<<reply.arg, reply.seqnum>>>>
          \/ /\ Fragments[reply.arg] = 1 /\ reply.seqnum = 0 /\ reply.seqlen = 0
             /\ reply.data = <<<<reply.arg, 1>>>>
  ELSE reply.what # "psbt"

Unfinished(reply) == reply.typ = "bytes" /\ reply.seqnum < reply.seqlen

\* What comes after n - 1 fragments of a PSBT: the n-th one, or an error.
Follows(reply, psbt, n) ==
  \/ reply.typ = "error"
  \/ reply.typ = "bytes" /\ reply.arg = psbt /\ reply.seqnum = n

Linked(a, b) ==
  IF a[2] = "head" THEN b = <<a[1], "rest">>
  ELSE /\ b[2] = "head"
       /\ Unfinished(a[1]) => Follows(b[1], a[1].arg, a[1].seqnum + 1)

\* The device is about to answer with the n-th fragment of a PSBT.
Fetching(psbt, n) ==
  dev.task.kind = "fetch" /\ dev.task.request.arg = psbt /\ dev.task.next = n

\* The replies on their way, the last of which is the device's last one.
Chain(q) ==
  /\ \A i \in 1..Len(q) : Genuine(q[i][1])
  /\ \A i \in 1..Len(q) : i < Len(q) => Linked(q[i], q[i + 1])
LastOf(q) ==
  q # <<>> =>
    /\ q[Len(q)][2] = "rest"
    /\ LET reply == q[Len(q)][1]
       IN  Unfinished(reply) => Fetching(reply.arg, reply.seqnum + 1)

\* What a call has gathered, and what is to come.
GathersOf(psbt, q) ==
  /\ call.next \in 2..Fragments[psbt] /\ call.seqlen = Fragments[psbt]
  /\ call.chunks = SubSeq(Content(psbt), 1, call.next - 1)
  /\ IF q = <<>> THEN Fetching(psbt, call.next)
     ELSE q[1][2] = "head" /\ Follows(q[1][1], psbt, call.next)
Gathers(q) == call.st = "GettingExtendedData" => \E p \in Psbts : GathersOf(p, q)

Sequel == Chain(Stream) /\ LastOf(Stream) /\ Gathers(Stream) /\ SignedWhole

-----------------------------------------------------------------------------
(* Calls none of which was abandoned.                                      *)

\* The multisig registered under a wallet's name is that wallet.
Latest(m) == Registered(m) = {m}

Expected ==
  CASE call.st = "Running" -> call.wants
    [] call.st = "WaitingFinalHandshake" -> "pin"
    [] OTHER -> "get_extended_data"

\* The request of a call.
Asked(request) ==
  /\ request.method = Expected
  /\ request.of = call.n /\ request.by = call.job.cmd /\ request.arg = call.job.arg
  /\ call.st = "GettingExtendedData" =>
       request.origid = call.origid /\ request.seqnum = call.next

\* What the device is doing when it reads it.
Ready ==
  CASE call.st = "Running" -> dev.task.kind # "user" /\ (past = {} => dev.task.kind = "idle")
    [] call.st = "WaitingFinalHandshake" -> dev.task.kind = "pin"
    [] OTHER -> /\ Fetching(call.job.arg, call.next)
                /\ dev.task.request.id = call.origid

\* The content of an answer that is not an error, by what was asked.
Fits(reply) ==
  CASE Expected = "auth_user" ->
         \/ reply.typ = "http"
         \/ reply.typ = "bool" /\ reply.ok /\ reply.what = "done" /\ dev.unlocked
    [] Expected = "pin" ->
         /\ reply.typ = "bool"
         /\ IF reply.ok THEN reply.what = "done" /\ dev.unlocked ELSE reply.what = "wrong pin"
    [] Expected = "get_xpub" -> reply.typ = "string" /\ reply.what = "xpub"
    [] Expected = "sign_message" -> reply.typ = "string" /\ reply.what = "signature"
    [] Expected = "get_receive_address" -> reply.typ = "string" /\ reply.what = "address"
    [] Expected \in {"register_descriptor", "register_multisig"} ->
         /\ reply.typ = "bool"
         /\ IF reply.ok
            THEN /\ reply.what = "registered"
                 /\ Expected = "register_multisig" => Latest(call.job.arg)
            ELSE reply.what = "declined"
    [] Expected = "sign_psbt" -> reply.typ = "bytes" /\ reply.seqnum \in {0, 1}
    [] Expected = "get_extended_data" -> reply.typ = "bytes" /\ reply.seqnum = call.next
    [] OTHER -> reply.typ = "info" /\ reply.what = "info"

\* The answer to a call's request, and what the device is doing once it is given.
Answers(reply) ==
  /\ reply.of = call.n
  /\ IF reply.typ = "error" THEN past = {} => reply.what \in Refusals
     ELSE /\ Fits(reply)
          /\ reply.typ # "http" /\ (reply.typ = "bool" => reply.ok) => reply.arg = call.job.arg
  /\ CASE reply.typ = "http" -> dev.task.kind = "pin"
       [] Unfinished(reply) ->
            dev.task.kind = "fetch"
            /\ dev.task.request.id = IF call.st = "Running" THEN reply.id ELSE call.origid
       [] OTHER -> dev.task.kind = "idle"

Waits == Reading /\ out = <<>>

\* Where a call is, and all there is on its way then.
Between ==
  /\ ~Calling /\ out = <<>> /\ Stream = <<>>
  /\ dev.task.kind # "user" /\ (past = {} => dev.task.kind = "idle")
AtServer == call.st = "WaitingPinServer" /\ out = <<>> /\ Stream = <<>> /\ dev.task.kind = "pin"
Requested == Reading /\ Stream = <<>> /\ Len(out) = 1 /\ Asked(out[1]) /\ Ready
AtUser ==
  /\ Waits /\ call.st = "Running" /\ Stream = <<>>
  /\ dev.task.kind = "user" /\ Asked(dev.task.request)
Answered ==
  /\ Waits /\ Stream # <<>>
  /\ Stream = Whole(Stream[1][1]) /\ Answers(Stream[1][1])

Phase == Between \/ AtServer \/ Requested \/ AtUser \/ Answered

\* A call knows what it asked for, and why.
Purpose ==
  Calling =>
    /\ call.n = calls /\ call.job \in Jobs /\ call.job.cmd \in Commands
    /\ result.status = "none"
    /\ CASE call.st = "GettingExtendedData" -> call.job.cmd = "SignTx"
         [] call.st \in {"WaitingPinServer", "WaitingFinalHandshake"} -> call.job.cmd = "Unlock"
         [] OTHER -> \/ call.wants = MethodOf(call.job.cmd)
                     \/ /\ call.job.cmd = "ByMultisig" /\ call.wants = "get_receive_address"
                        /\ Latest(call.job.arg)

Lockstep == "abandoned" \notin past => Purpose /\ Phase /\ OwnAnswer

-----------------------------------------------------------------------------
(* Types.                                                                  *)

Calls ==
  [st : States, n : Nat, job : Jobs \cup {NoJob}, wants : Wanted, buf : Seq(Pieces),
   origid : Nat, next : Nat, seqlen : Nat, chunks : Seq(Parts)]

Tasks == [kind : {"idle", "user", "pin", "fetch"}, request : Requests, next : Nat]
Devices == [unlocked : BOOLEAN, multisigs : SUBSET Multisigs, wallets : SUBSET Args, task : Tasks]

\* A task a device may have.
Proper(task) ==
  /\ Legal(task.request)
  /\ task.kind = "user" => task.request.method \in Confirmed
  /\ task.kind = "fetch" =>
       task.request.arg \in Psbts /\ task.next \in 2..Fragments[task.request.arg]

Orders == {request \in Requests : Legal(request)}
Statuses == {"none", "ok", "err", "panic"}

LEMMA OrdersTypes ==
  /\ \A q \in Seq(Orders) : q \in Seq(Requests) /\ \A i \in DOMAIN q : Legal(q[i])
  /\ \A q \in Seq(Requests) : (\A i \in DOMAIN q : Legal(q[i])) => q \in Seq(Orders)
<1>1. ASSUME NEW q \in Seq(Orders) PROVE q \in Seq(Requests) /\ \A i \in DOMAIN q : Legal(q[i])
  <2>1. \A i \in 1..Len(q) : q[i] \in Requests /\ Legal(q[i])
    BY DEF Orders
  <2>2. QED
    BY <2>1
<1>2. ASSUME NEW q \in Seq(Requests), \A i \in DOMAIN q : Legal(q[i]) PROVE q \in Seq(Orders)
  <2>1. \A i \in 1..Len(q) : q[i] \in Orders
    BY <1>2 DEF Orders
  <2>2. QED
    BY <2>1
<1>3. QED
  BY <1>1, <1>2

LEMMA TypeParts ==
  ASSUME TypeOK
  PROVE  /\ browser \in Browsers /\ call \in Calls
         /\ result.status \in Statuses /\ result.job \in Jobs \cup {NoJob}
         /\ ids \in Nat \ {0} /\ out \in Seq(Orders) /\ in \in Seq(Pieces)
         /\ dev \in Devices /\ dev.task \in Tasks /\ Proper(dev.task)
         /\ past \subseteq {"failed", "abandoned"}
         /\ calls \in 0..MaxCalls /\ faults \in 0..MaxFaults
<1>1. dev \in Devices
  BY DEF TypeOK, Devices, Tasks
<1>2. dev.task \in Tasks
  BY <1>1 DEF Devices
<1>3. Proper(dev.task)
  BY DEF TypeOK, Proper
<1>4. out \in Seq(Orders)
  BY OrdersTypes DEF TypeOK
<1>5. QED
  BY <1>1, <1>2, <1>3, <1>4 DEF TypeOK, Calls, Statuses

LEMMA TypePartsNext ==
  ASSUME browser' \in Browsers, call' \in Calls, result'.status \in Statuses,
         result'.job \in Jobs \cup {NoJob}, ids' \in Nat \ {0}, out' \in Seq(Orders),
         in' \in Seq(Pieces), dev' \in Devices, Proper(dev'.task),
         past' \subseteq {"failed", "abandoned"}, calls' \in 0..MaxCalls, faults' \in 0..MaxFaults
  PROVE  TypeOK'
<1>1. out' \in Seq(Requests) /\ \A i \in DOMAIN out' : Legal(out'[i])
  BY OrdersTypes
<1>2. dev' \in [unlocked : BOOLEAN, multisigs : SUBSET Multisigs, wallets : SUBSET Args,
                task : [kind : {"idle", "user", "pin", "fetch"}, request : Requests, next : Nat]]
  BY DEF Devices, Tasks
<1>3. call' \in [st : States, n : Nat, job : Jobs \cup {NoJob}, wants : Wanted,
                 buf : Seq(Pieces), origid : Nat, next : Nat, seqlen : Nat, chunks : Seq(Parts)]
  BY DEF Calls
<1>4. QED
  BY <1>1, <1>2, <1>3 DEF TypeOK, Proper, Statuses

LEMMA JobTypes ==
  ASSUME NEW job \in Jobs \cup {NoJob}
  PROVE  /\ job.cmd \in Commands \cup {"none"} \cup Unsupported /\ job.arg \in Args
         /\ job.cmd = "SignTx" => job.arg \in Psbts
         /\ job.cmd = "ByMultisig" => job.arg \in Multisigs
<1>1. CASE job \in Jobs
  BY <1>1, JobsAssumption DEF Args
<1>2. CASE job = NoJob
  BY <1>2 DEF NoJob, Args
<1>3. QED
  BY <1>1, <1>2

LEMMA RequestTypes ==
  ASSUME NEW method \in Methods, NEW job \in Jobs \cup {NoJob}
  PROVE  /\ Request(method, job) \in Requests
         /\ Request(method, job).method = method /\ Request(method, job).by = job.cmd
         /\ Request(method, job).arg = job.arg
  BY JobTypes DEF Request, Requests

\* A request a call may send: a PSBT to sign is one, and so is a multisig to register.
LEMMA OrderTypes ==
  ASSUME NEW method \in Methods, NEW job \in Jobs \cup {NoJob},
         method = "sign_psbt" => job.cmd = "SignTx",
         method = "register_multisig" => job.cmd = "ByMultisig"
  PROVE  Request(method, job) \in Orders
  BY RequestTypes, JobTypes DEF Orders, Legal

LEMMA ExtendedDataTypes ==
  ASSUME NEW job \in Jobs \cup {NoJob}, NEW origid \in Nat, NEW seqnum \in Nat, NEW seqlen \in Nat
  PROVE  LET request == ExtendedDataRequest(job, origid, seqnum, seqlen)
         IN  /\ request \in Orders /\ request.method = "get_extended_data"
             /\ request.by = job.cmd /\ request.arg = job.arg
             /\ request.origid = origid /\ request.seqnum = seqnum
<1> DEFINE base == Request("get_extended_data", job)
           request == ExtendedDataRequest(job, origid, seqnum, seqlen)
<1>1. "get_extended_data" \in Methods
  BY DEF Methods
<1>2. base \in Requests /\ base.method = "get_extended_data" /\ base.by = job.cmd
      /\ base.arg = job.arg
  BY <1>1, RequestTypes
<1>3. request = [base EXCEPT !.origid = origid, !.seqnum = seqnum, !.seqlen = seqlen]
  BY DEF ExtendedDataRequest
<1> HIDE DEF base, request
<1>4. /\ request \in Requests /\ request.method = "get_extended_data" /\ request.by = job.cmd
      /\ request.arg = job.arg /\ request.origid = origid /\ request.seqnum = seqnum
  BY <1>2, <1>3 DEF Requests
<1>5. request \in Orders
  BY <1>4 DEF Orders, Legal
<1>6. QED
  BY <1>4, <1>5 DEF request

LEMMA ReplyTypes ==
  ASSUME NEW request \in Requests, NEW typ \in Types
  PROVE  /\ Reply(request, typ) \in Replies
         /\ Reply(request, typ).id = request.id /\ Reply(request, typ).of = request.of
         /\ Reply(request, typ).typ = typ /\ Reply(request, typ).ok
         /\ Reply(request, typ).what = "none"
<1>1. <<>> \in Seq(Parts) /\ "none" \in Contents /\ "none" \in Args
  BY EmptyFacts DEF Contents, Args
<1>2. request.id \in Nat /\ request.of \in Nat
  BY DEF Requests
<1>3. QED
  BY <1>1, <1>2 DEF Reply, Replies

\* A reply with its content.
Filled(request, typ, what, arg) == [Reply(request, typ) EXCEPT !.what = what, !.arg = arg]

LEMMA FilledTypes ==
  ASSUME NEW request \in Requests, NEW typ \in Types, NEW what \in Contents, NEW arg \in Args
  PROVE  LET reply == Filled(request, typ, what, arg)
         IN  /\ reply \in Replies /\ reply.id = request.id /\ reply.of = request.of
             /\ reply.typ = typ /\ reply.ok /\ reply.what = what /\ reply.arg = arg
<1> DEFINE base == Reply(request, typ)
           reply == [base EXCEPT !.what = what, !.arg = arg]
<1>1. base \in Replies /\ base.id = request.id /\ base.of = request.of /\ base.typ = typ /\ base.ok
  BY ReplyTypes
<1> HIDE DEF base
<1>2. /\ reply \in Replies /\ reply.id = request.id /\ reply.of = request.of
      /\ reply.typ = typ /\ reply.ok /\ reply.what = what /\ reply.arg = arg
  BY <1>1 DEF Replies
<1>3. QED
  BY <1>2 DEF base, Filled

LEMMA RejectionTypes ==
  ASSUME NEW request \in Requests, NEW what \in Contents
  PROVE  /\ Rejection(request, what) \in Replies /\ Rejection(request, what).typ = "error"
         /\ Rejection(request, what).of = request.of /\ Rejection(request, what).what = what
<1> DEFINE base == Reply(request, "error")
           reply == Rejection(request, what)
<1>1. base \in Replies /\ base.of = request.of /\ base.typ = "error"
  BY ReplyTypes DEF Types
<1>2. reply = [base EXCEPT !.what = what]
  BY DEF Rejection
<1> HIDE DEF base, reply
<1>3. reply \in Replies /\ reply.typ = "error" /\ reply.of = request.of /\ reply.what = what
  BY <1>1, <1>2 DEF Replies
<1>4. QED
  BY <1>3 DEF reply

LEMMA FragmentTypes ==
  ASSUME NEW psbt \in Psbts
  PROVE  /\ Fragments[psbt] \in Nat /\ Fragments[psbt] > 0
         /\ Content(psbt) \in Seq(Parts) /\ Len(Content(psbt)) = Fragments[psbt]
         /\ \A n \in 1..Fragments[psbt] : Content(psbt)[n] = <<psbt, n>> /\ <<psbt, n>> \in Parts
<1>1. Fragments[psbt] \in Nat /\ Fragments[psbt] > 0
  BY FragmentsAssumption
<1>2. \A n \in 1..Fragments[psbt] : <<psbt, n>> \in Parts
  BY <1>1 DEF Parts
<1>3. Content(psbt) \in Seq(Parts) /\ Len(Content(psbt)) = Fragments[psbt]
  BY <1>1, <1>2 DEF Content
<1>4. QED
  BY <1>1, <1>2, <1>3 DEF Content

LEMMA ConstantTypes ==
  /\ NoCall \in Calls /\ NoCall.st = "none" /\ NoCall.buf = <<>>
  /\ NoResult.status = "none" /\ NoResult.job = NoJob
  /\ Idle \in Tasks /\ Idle.kind = "idle" /\ Proper(Idle) /\ NewDevice \in Devices
<1>1. <<>> \in Seq(Pieces) /\ <<>> \in Seq(Parts)
  BY EmptyFacts
<1>2. NoCall \in Calls /\ NoCall.st = "none" /\ NoCall.buf = <<>>
  BY <1>1 DEF NoCall, Calls, States, Wanted
<1>3. "auth_user" \in Methods
  BY DEF Methods
<1>4. Request("auth_user", NoJob) \in Orders
  BY <1>3, OrderTypes
<1>5. Idle \in Tasks /\ Idle.kind = "idle" /\ Proper(Idle)
  BY <1>4 DEF Idle, Tasks, Proper, Orders
<1>6. NewDevice \in Devices
  BY <1>5 DEF NewDevice, Devices
<1>7. QED
  BY <1>2, <1>5, <1>6 DEF NoResult

-----------------------------------------------------------------------------
(* What a reply makes the host do.                                         *)

\* A request is sent: a write that succeeds, and one that fails.
Sends(request, next) ==
  /\ ids' = ids + 1
  /\ out' = Append(out, [request EXCEPT !.id = ids, !.of = next.n])
  /\ call' = [next EXCEPT !.buf = <<>>] /\ result' = NoResult
  /\ UNCHANGED <<past, faults>>
Breaks ==
  /\ faults < MaxFaults /\ faults' = faults + 1 /\ past' = past \cup {"failed"}
  /\ call' = NoCall /\ result'.status = "err" /\ result'.job = NoJob
  /\ ids' \in {ids, ids + 1} /\ UNCHANGED out

Fails(what) ==
  /\ call' = NoCall /\ result'.status = "err" /\ result'.job = NoJob /\ result'.what = what
  /\ UNCHANGED <<ids, out, past, faults>>
Succeeds(of, what, arg, data) ==
  /\ call' = NoCall /\ result'.status = "ok" /\ result'.job = call.job
  /\ result'.of = of /\ result'.what = what /\ result'.arg = arg /\ result'.data = data
  /\ UNCHANGED <<ids, out, past, faults>>

\* The replies that give all of a signed PSBT.
Completes(reply, data) ==
  /\ reply.typ = "bytes"
  /\ \/ /\ call.st = "Running" /\ call.wants = "sign_psbt"
        /\ reply.seqnum \in {0, 1} /\ reply.seqlen <= 1 /\ data = reply.data
     \/ /\ call.st = "GettingExtendedData" /\ data = call.chunks \o reply.data
        /\ \/ reply.seqnum = 0 /\ call.next >= call.seqlen
           \/ reply.seqnum = call.next /\ reply.seqnum >= call.seqlen

\* The requests that follow a reply, and the call that sends them.
Second(reply) ==
  [call EXCEPT !.st = "GettingExtendedData", !.origid = reply.id, !.next = 2,
               !.seqlen = reply.seqlen, !.chunks = reply.data]
Further(reply) == [call EXCEPT !.next = call.next + 1, !.chunks = call.chunks \o reply.data]

SendsSecond(reply) ==
  /\ call.st = "Running" /\ call.wants = "sign_psbt" /\ reply.typ = "bytes"
  /\ reply.seqnum \in {0, 1} /\ reply.seqlen > 1
  /\ Transmit(ExtendedDataRequest(call.job, reply.id, 2, reply.seqlen), Second(reply))
SendsFurther(reply) ==
  /\ call.st = "GettingExtendedData" /\ reply.typ = "bytes" /\ reply.seqnum \in {0, call.next}
  /\ call.next < call.seqlen
  /\ Transmit(ExtendedDataRequest(call.job, call.origid, call.next + 1, call.seqlen),
              Further(reply))
SendsAddress(reply) ==
  /\ call.st = "Running" /\ call.wants = "register_multisig" /\ reply.typ = "bool" /\ reply.ok
  /\ Transmit(Request("get_receive_address", call.job), [call EXCEPT !.wants = "get_receive_address"])
AsksServer(reply) ==
  /\ call.st = "Running" /\ call.wants = "auth_user" /\ reply.typ = "http"
  /\ call' = [call EXCEPT !.st = "WaitingPinServer", !.buf = <<>>]
  /\ UNCHANGED <<result, ids, out, past, faults>>

\* Replies a call ends with, that are no PSBT.
Accepted(reply) ==
  /\ reply.typ \notin {"error", "bytes", "http"}
  /\ Expected \notin {"register_multisig", "sign_psbt", "get_extended_data"}
  /\ Expected # "auth_user" => reply.ok \/ reply.typ # "bool"

\* Why a reply makes a call fail: it says so, is not what was asked for, or
\* completes what is no PSBT.
Objected(reply, what) ==
  \/ reply.typ = "error" /\ what = reply.what
  \/ reply.typ = "bool" /\ ~reply.ok /\ Expected # "auth_user" /\ what = reply.what
  \/ reply.typ # "error" /\ ~Fits(reply)
  \/ \E data : Completes(reply, data) /\ \A p \in Psbts : data # Content(p)

ReplySteps(reply) ==
  \/ \E what : Fails(what) /\ Objected(reply, what)
  \/ Succeeds(reply.of, reply.what, reply.arg, <<>>) /\ Accepted(reply)
  \/ \E data : Completes(reply, data) /\ Succeeds(reply.of, "psbt", "none", data)
  \/ SendsSecond(reply) \/ SendsFurther(reply) \/ SendsAddress(reply) \/ AsksServer(reply)

LEMMA FailSteps ==
  ASSUME NEW why, NEW what, Fail(why, what)
  PROVE  Fails(what)
  BY DEF Fail, Return, Fails, NoResult

LEMMA DoneSteps ==
  ASSUME NEW reply, Done(reply)
  PROVE  Succeeds(reply.of, reply.what, reply.arg, <<>>)
  BY DEF Done, Return, Succeeds, NoResult

LEMMA SignedSteps ==
  ASSUME NEW reply, NEW data, Completes(reply, data), SignedPsbt(reply, data)
  PROVE  ReplySteps(reply)
<1>1. CASE Return([NoResult EXCEPT !.status = "ok", !.of = reply.of, !.what = "psbt", !.data = data])
  <2>1. Succeeds(reply.of, "psbt", "none", data)
    BY <1>1 DEF Return, Succeeds, NoResult
  <2>2. QED
    BY <2>1 DEF ReplySteps
<1>2. CASE (\A p \in Psbts : data # Content(p)) /\ Fail("cbor", "none")
  BY <1>2, FailSteps DEF ReplySteps, Objected
<1>3. QED
  BY <1>1, <1>2 DEF SignedPsbt

LEMMA TransmitSteps ==
  ASSUME NEW request, NEW next, Transmit(request, next)
  PROVE  Sends(request, next) \/ Breaks
  BY DEF Transmit, Sends, Breaks, NoResult

\* An error, or a reply of another type than the one expected.
LEMMA WrongType ==
  ASSUME NEW reply, reply.typ = "error" \/ ~Fits(reply),
         \/ reply.typ = "error" /\ Fail("rpc", reply.what)
         \/ reply.typ # "error" /\ Fail("cbor", "none")
         \/ Fail("cbor", reply.what)
  PROVE  ReplySteps(reply)
<1>1. CASE reply.typ = "error"
  <2>1. \E why : Fail(why, reply.what)
    BY <1>1
  <2>2. QED
    BY <1>1, <2>1, FailSteps DEF ReplySteps, Objected
<1>2. CASE reply.typ # "error"
  <2>1. \E why, what : Fail(why, what)
    BY <1>2
  <2>2. QED
    BY <1>2, <2>1, FailSteps DEF ReplySteps, Objected
<1>3. QED
  BY <1>1, <1>2

LEMMA ExpectedStates ==
  ASSUME TypeOK, Reading
  PROVE  /\ call.st = "Running" => Expected = call.wants /\ call.wants \in Wanted
         /\ call.st = "WaitingFinalHandshake" => Expected = "pin"
         /\ call.st = "GettingExtendedData" => Expected = "get_extended_data"
         /\ call.st \in {"Running", "WaitingFinalHandshake", "GettingExtendedData"}
  BY TypeParts DEF Reading, Calling, Calls, States, Expected

LEMMA AuthSteps ==
  ASSUME TypeOK, Reading, NEW reply \in Replies, OnAuth(reply),
         call.st = "Running", call.wants = "auth_user"
  PROVE  ReplySteps(reply)
<1>1. Expected = "auth_user"
  BY ExpectedStates
<1>2. CASE reply.typ \notin {"bool", "http"}
  <2>1. IF reply.typ = "error" THEN Fail("rpc", reply.what) ELSE Fail("cbor", "none")
    BY <1>2 DEF OnAuth
  <2>2. ~Fits(reply)
    BY <1>1, <1>2 DEF Fits
  <2>3. QED
    BY <2>1, <2>2, WrongType
<1>3. CASE reply.typ = "bool"
  <2>1. Done(reply)
    BY <1>3 DEF OnAuth
  <2>2. Accepted(reply)
    BY <1>1, <1>3 DEF Accepted
  <2>3. QED
    BY <2>1, <2>2, DoneSteps DEF ReplySteps
<1>4. CASE reply.typ = "http"
  BY <1>4 DEF OnAuth, AsksServer, ReplySteps
<1>5. QED
  BY <1>2, <1>3, <1>4

LEMMA FinalSteps ==
  ASSUME TypeOK, Reading, NEW reply \in Replies, OnFinalHandshake(reply),
         call.st = "WaitingFinalHandshake"
  PROVE  ReplySteps(reply)
<1>1. Expected = "pin"
  BY ExpectedStates
<1>2. CASE reply.typ # "bool"
  <2>1. IF reply.typ = "error" THEN Fail("rpc", reply.what) ELSE Fail("cbor", "none")
    BY <1>2 DEF OnFinalHandshake, Expects
  <2>2. ~Fits(reply)
    BY <1>1, <1>2 DEF Fits
  <2>3. QED
    BY <2>1, <2>2, WrongType
<1>3. CASE reply.typ = "bool"
  <2>1. IF reply.ok THEN Done(reply) ELSE Fail("refused", reply.what)
    BY <1>3 DEF OnFinalHandshake, Expects
  <2>2. CASE reply.ok
    <3>1. Accepted(reply)
      BY <1>1, <1>3, <2>2 DEF Accepted
    <3>2. QED
      BY <2>1, <2>2, <3>1, DoneSteps DEF ReplySteps
  <2>3. CASE ~reply.ok
    BY <1>1, <1>3, <2>1, <2>3, FailSteps DEF ReplySteps, Objected
  <2>4. QED
    BY <2>2, <2>3
<1>4. QED
  BY <1>2, <1>3

LEMMA DescriptorSteps ==
  ASSUME TypeOK, Reading, NEW reply \in Replies, OnRegisterDescriptor(reply),
         call.st = "Running", call.wants = "register_descriptor"
  PROVE  ReplySteps(reply)
<1>1. Expected = "register_descriptor"
  BY ExpectedStates
<1>2. CASE reply.typ # "bool"
  <2>1. IF reply.typ = "error" THEN Fail("rpc", reply.what) ELSE Fail("cbor", "none")
    BY <1>2 DEF OnRegisterDescriptor, Expects
  <2>2. ~Fits(reply)
    BY <1>1, <1>2 DEF Fits
  <2>3. QED
    BY <2>1, <2>2, WrongType
<1>3. CASE reply.typ = "bool"
  <2>1. IF reply.ok THEN Done(reply) ELSE Fail("unexpected", reply.what)
    BY <1>3 DEF OnRegisterDescriptor, Expects
  <2>2. CASE reply.ok
    <3>1. Accepted(reply)
      BY <1>1, <1>3, <2>2 DEF Accepted
    <3>2. QED
      BY <2>1, <2>2, <3>1, DoneSteps DEF ReplySteps
  <2>3. CASE ~reply.ok
    BY <1>1, <1>3, <2>1, <2>3, FailSteps DEF ReplySteps, Objected
  <2>4. QED
    BY <2>2, <2>3
<1>4. QED
  BY <1>2, <1>3

LEMMA MultisigSteps ==
  ASSUME TypeOK, Reading, NEW reply \in Replies, OnRegisterMultisig(reply),
         call.st = "Running", call.wants = "register_multisig"
  PROVE  ReplySteps(reply)
<1>1. Expected = "register_multisig"
  BY ExpectedStates
<1>2. CASE reply.typ # "bool"
  <2>1. IF reply.typ = "error" THEN Fail("rpc", reply.what) ELSE Fail("cbor", "none")
    BY <1>2 DEF OnRegisterMultisig, Expects
  <2>2. ~Fits(reply)
    BY <1>1, <1>2 DEF Fits
  <2>3. QED
    BY <2>1, <2>2, WrongType
<1>3. CASE reply.typ = "bool"
  <2>1. reply.ok => SendsAddress(reply)
    BY <1>3 DEF OnRegisterMultisig, Expects, SendsAddress
  <2>2. ~reply.ok => Fail("unexpected", reply.what)
    BY <1>3 DEF OnRegisterMultisig, Expects
  <2>3. CASE reply.ok
    BY <2>1, <2>3 DEF ReplySteps
  <2>4. CASE ~reply.ok
    BY <1>1, <1>3, <2>2, <2>4, FailSteps DEF ReplySteps, Objected
  <2>5. QED
    BY <2>3, <2>4
<1>4. QED
  BY <1>2, <1>3

LEMMA XpubSteps ==
  ASSUME TypeOK, Reading, NEW reply \in Replies, OnXpub(reply),
         call.st = "Running", call.wants = "get_xpub"
  PROVE  ReplySteps(reply)
<1>1. Expected = "get_xpub"
  BY ExpectedStates
<1>2. CASE reply.typ # "string"
  <2>1. IF reply.typ = "error" THEN Fail("rpc", reply.what) ELSE Fail("cbor", "none")
    BY <1>2 DEF OnXpub, Expects
  <2>2. ~Fits(reply)
    BY <1>1, <1>2 DEF Fits
  <2>3. QED
    BY <2>1, <2>2, WrongType
<1>3. CASE reply.typ = "string"
  <2>1. IF reply.what = "xpub" THEN Done(reply) ELSE Fail("cbor", "none")
    BY <1>3 DEF OnXpub, Expects
  <2>2. CASE reply.what = "xpub"
    <3>1. Accepted(reply)
      BY <1>1, <1>3 DEF Accepted
    <3>2. QED
      BY <2>1, <2>2, <3>1, DoneSteps DEF ReplySteps
  <2>3. CASE reply.what # "xpub"
    <3>1. ~Fits(reply)
      BY <1>1, <2>3 DEF Fits
    <3>2. QED
      BY <1>3, <2>1, <2>3, <3>1, WrongType
  <2>4. QED
    BY <2>2, <2>3
<1>4. QED
  BY <1>2, <1>3

LEMMA SignatureSteps ==
  ASSUME TypeOK, Reading, NEW reply \in Replies, OnSignature(reply),
         call.st = "Running", call.wants = "sign_message"
  PROVE  ReplySteps(reply)
<1>1. Expected = "sign_message"
  BY ExpectedStates
<1>2. CASE reply.typ # "string"
  <2>1. IF reply.typ = "error" THEN Fail("rpc", reply.what) ELSE Fail("cbor", "none")
    BY <1>2 DEF OnSignature, Expects
  <2>2. ~Fits(reply)
    BY <1>1, <1>2 DEF Fits
  <2>3. QED
    BY <2>1, <2>2, WrongType
<1>3. CASE reply.typ = "string"
  <2>1. IF reply.what = "signature" THEN Done(reply) ELSE Fail("cbor", "none")
    BY <1>3 DEF OnSignature, Expects
  <2>2. CASE reply.what = "signature"
    <3>1. Accepted(reply)
      BY <1>1, <1>3 DEF Accepted
    <3>2. QED
      BY <2>1, <2>2, <3>1, DoneSteps DEF ReplySteps
  <2>3. CASE reply.what # "signature"
    <3>1. ~Fits(reply)
      BY <1>1, <2>3 DEF Fits
    <3>2. QED
      BY <1>3, <2>1, <2>3, <3>1, WrongType
  <2>4. QED
    BY <2>2, <2>3
<1>4. QED
  BY <1>2, <1>3

LEMMA AddressSteps ==
  ASSUME TypeOK, Reading, NEW reply \in Replies, OnAddress(reply),
         call.st = "Running", call.wants = "get_receive_address"
  PROVE  ReplySteps(reply)
<1>1. Expected = "get_receive_address"
  BY ExpectedStates
<1>2. CASE reply.typ # "string"
  <2>1. IF reply.typ = "error" THEN Fail("rpc", reply.what) ELSE Fail("cbor", "none")
    BY <1>2 DEF OnAddress, Expects
  <2>2. ~Fits(reply)
    BY <1>1, <1>2 DEF Fits
  <2>3. QED
    BY <2>1, <2>2, WrongType
<1>3. CASE reply.typ = "string"
  <2>1. Done(reply)
    BY <1>3 DEF OnAddress, Expects
  <2>2. Accepted(reply)
    BY <1>1, <1>3 DEF Accepted
  <2>3. QED
    BY <2>1, <2>2, DoneSteps DEF ReplySteps
<1>4. QED
  BY <1>2, <1>3

LEMMA SignSteps ==
  ASSUME TypeOK, Reading, NEW reply \in Replies, ExpectsBytes(reply, OnSignPsbt(reply)),
         call.st = "Running", call.wants = "sign_psbt"
  PROVE  ReplySteps(reply)
<1> DEFINE seqnum == IF reply.seqnum = 0 THEN 1 ELSE reply.seqnum
           seqlen == IF reply.seqlen = 0 THEN 1 ELSE reply.seqlen
<1>1. Expected = "sign_psbt"
  BY ExpectedStates
<1>2. reply.seqnum \in Nat /\ reply.seqlen \in Nat
  BY DEF Replies
<1>3. CASE reply.typ # "bytes"
  <2>1. Fail("cbor", reply.what)
    BY <1>3 DEF ExpectsBytes
  <2>2. ~Fits(reply)
    BY <1>1, <1>3 DEF Fits
  <2>3. QED
    BY <2>1, <2>2, WrongType
<1>4. CASE reply.typ = "bytes" /\ reply.seqnum \notin {0, 1}
  <2>1. Fail("unexpected", "none")
    BY <1>4 DEF ExpectsBytes, OnSignPsbt
  <2>2. ~Fits(reply)
    BY <1>1, <1>4 DEF Fits
  <2>3. QED
    BY <1>4, <2>1, <2>2, FailSteps DEF ReplySteps, Objected
<1>5. CASE reply.typ = "bytes" /\ reply.seqnum \in {0, 1} /\ reply.seqlen <= 1
  <2>1. SignedPsbt(reply, reply.data)
    <3>1. seqnum = 1 /\ seqlen <= 1
      BY <1>2, <1>5
    <3>2. QED
      BY <1>5, <3>1 DEF ExpectsBytes, OnSignPsbt
  <2>2. Completes(reply, reply.data)
    BY <1>5 DEF Completes
  <2>3. QED
    BY <2>1, <2>2, SignedSteps
<1>6. CASE reply.typ = "bytes" /\ reply.seqnum \in {0, 1} /\ reply.seqlen > 1
  <2>1. seqnum = 1 /\ seqlen = reply.seqlen /\ ~(seqlen <= 1) /\ seqnum + 1 = 2
    BY <1>2, <1>6
  <2>2. Transmit(ExtendedDataRequest(call.job, reply.id, seqnum + 1, seqlen),
                 [call EXCEPT !.st = "GettingExtendedData", !.origid = reply.id,
                              !.next = seqnum + 1, !.seqlen = seqlen, !.chunks = reply.data])
    BY <1>6, <2>1 DEF ExpectsBytes, OnSignPsbt
  <2>3. SendsSecond(reply)
    BY <1>6, <2>1, <2>2 DEF SendsSecond, Second
  <2>4. QED
    BY <2>3 DEF ReplySteps
<1>7. QED
  BY <1>2, <1>3, <1>4, <1>5, <1>6

LEMMA FragmentSteps ==
  ASSUME TypeOK, Reading, NEW reply \in Replies, ExpectsBytes(reply, OnExtendedData(reply)),
         call.st = "GettingExtendedData"
  PROVE  ReplySteps(reply)
<1> DEFINE seqnum == IF reply.seqnum = 0 THEN call.next ELSE reply.seqnum
           chunks == call.chunks \o reply.data
<1>1. Expected = "get_extended_data"
  BY ExpectedStates
<1>2. reply.seqnum \in Nat /\ call.next \in Nat /\ call.seqlen \in Nat
  BY TypeParts DEF Replies, Calls
<1>3. CASE reply.typ # "bytes"
  <2>1. Fail("cbor", reply.what)
    BY <1>3 DEF ExpectsBytes
  <2>2. ~Fits(reply)
    BY <1>1, <1>3 DEF Fits
  <2>3. QED
    BY <2>1, <2>2, WrongType
<1>4. CASE reply.typ = "bytes" /\ reply.seqnum \notin {0, call.next}
  <2>1. Fail("unexpected", "none")
    BY <1>4 DEF ExpectsBytes, OnExtendedData
  <2>2. ~Fits(reply)
    BY <1>1, <1>4 DEF Fits
  <2>3. QED
    BY <1>4, <2>1, <2>2, FailSteps DEF ReplySteps, Objected
<1>5. CASE reply.typ = "bytes" /\ reply.seqnum \in {0, call.next} /\ call.next >= call.seqlen
  <2>1. seqnum = call.next /\ LastFragment(seqnum)
    BY <1>2, <1>5 DEF LastFragment
  <2>2. SignedPsbt(reply, chunks)
    BY <1>5, <2>1 DEF ExpectsBytes, OnExtendedData
  <2>3. Completes(reply, chunks)
    BY <1>5 DEF Completes
  <2>4. QED
    BY <2>2, <2>3, SignedSteps
<1>6. CASE reply.typ = "bytes" /\ reply.seqnum \in {0, call.next} /\ call.next < call.seqlen
  <2>1. seqnum = call.next /\ ~LastFragment(seqnum)
    BY <1>2, <1>6 DEF LastFragment
  <2>2. Transmit(ExtendedDataRequest(call.job, call.origid, seqnum + 1, call.seqlen),
                 [call EXCEPT !.next = seqnum + 1, !.chunks = chunks])
    BY <1>6, <2>1 DEF ExpectsBytes, OnExtendedData
  <2>3. SendsFurther(reply)
    BY <1>6, <2>1, <2>2 DEF SendsFurther, Further
  <2>4. QED
    BY <2>3 DEF ReplySteps
<1>7. QED
  BY <1>2, <1>3, <1>4, <1>5, <1>6

LEMMA InfoSteps ==
  ASSUME TypeOK, Reading, NEW reply \in Replies, Expects(reply, "info", Done(reply)),
         call.st = "Running",
         call.wants \notin {"auth_user", "get_xpub", "sign_message", "sign_psbt",
                            "get_receive_address", "register_descriptor", "register_multisig"}
  PROVE  ReplySteps(reply)
<1>1. Expected \in {"none", "get_version_info"}
  BY ExpectedStates DEF Wanted, Methods
<1>2. CASE reply.typ # "info"
  <2>1. IF reply.typ = "error" THEN Fail("rpc", reply.what) ELSE Fail("cbor", "none")
    BY <1>2 DEF Expects
  <2>2. ~Fits(reply)
    BY <1>1, <1>2 DEF Fits
  <2>3. QED
    BY <2>1, <2>2, WrongType
<1>3. CASE reply.typ = "info"
  <2>1. Done(reply)
    BY <1>3 DEF Expects
  <2>2. Accepted(reply)
    BY <1>1, <1>3 DEF Accepted
  <2>3. QED
    BY <2>1, <2>2, DoneSteps DEF ReplySteps
<1>4. QED
  BY <1>2, <1>3

\* What JadeInterpreter::exchange does with a reply.
LEMMA OnReplySteps ==
  ASSUME TypeOK, Reading, NEW reply \in Replies, OnReply(reply)
  PROVE  ReplySteps(reply)
<1>1. CASE call.st = "GettingExtendedData"
  BY <1>1, FragmentSteps DEF OnReply
<1>2. CASE call.st = "WaitingFinalHandshake"
  BY <1>2, FinalSteps DEF OnReply
<1>3. CASE call.st = "Running" /\ call.wants = "auth_user"
  BY <1>3, AuthSteps DEF OnReply
<1>4. CASE call.st = "Running" /\ call.wants = "get_xpub"
  BY <1>4, XpubSteps DEF OnReply
<1>5. CASE call.st = "Running" /\ call.wants = "sign_message"
  BY <1>5, SignatureSteps DEF OnReply
<1>6. CASE call.st = "Running" /\ call.wants = "sign_psbt"
  BY <1>6, SignSteps DEF OnReply
<1>7. CASE call.st = "Running" /\ call.wants = "get_receive_address"
  BY <1>7, AddressSteps DEF OnReply
<1>8. CASE call.st = "Running" /\ call.wants = "register_descriptor"
  BY <1>8, DescriptorSteps DEF OnReply
<1>9. CASE call.st = "Running" /\ call.wants = "register_multisig"
  BY <1>9, MultisigSteps DEF OnReply
<1>10. CASE /\ call.st = "Running"
            /\ call.wants \notin {"auth_user", "get_xpub", "sign_message", "sign_psbt",
                                  "get_receive_address", "register_descriptor",
                                  "register_multisig"}
  BY <1>10, InfoSteps DEF OnReply
<1>11. QED
  BY <1>1, <1>2, <1>3, <1>4, <1>5, <1>6, <1>7, <1>8, <1>9, <1>10, ExpectedStates

-----------------------------------------------------------------------------
(* What a read makes of the stream: it keeps what has come, gives up what   *)
(* is not one whole reply, or takes a reply and leaves what is behind it.   *)

StreamFrom(n) == SubSeq(Stream, n + 1, Len(Stream))

Keeps ==
  /\ \E buf \in Seq(Pieces) : call' = [call EXCEPT !.buf = buf] /\ buf \o in' = Stream
  /\ in' \in Seq(Pieces)
  /\ UNCHANGED <<result, ids, out, past, faults>>
Discards ==
  /\ Stream # <<>>
  /\ \E n \in 0..Len(Stream) : in' = StreamFrom(n)
  /\ \A reply : Stream # Whole(reply)
  /\ \E what : Fails(what)
Takes(reply) ==
  /\ reply \in Replies /\ Len(Stream) >= 2
  /\ Stream[1] = <<reply, "head">> /\ in' = StreamFrom(2)
  /\ ReplySteps(reply)

ReadSteps ==
  /\ Reading /\ UNCHANGED <<browser, dev, calls>>
  /\ Keeps \/ Discards \/ \E reply : Takes(reply)

LEMMA StreamTypes ==
  ASSUME TypeOK
  PROVE  /\ call.buf \in Seq(Pieces) /\ in \in Seq(Pieces) /\ Stream \in Seq(Pieces)
         /\ Len(call.buf) \in Nat /\ Len(Stream) \in Nat /\ Len(call.buf) <= Len(Stream)
         /\ \A j \in 1..Len(call.buf) : Stream[j] = call.buf[j]
         /\ in = StreamFrom(Len(call.buf))
         /\ call.buf = <<>> => Stream = in
<1>1. call.buf \in Seq(Pieces) /\ in \in Seq(Pieces)
  BY TypeParts DEF Calls
<1>2. /\ Len(call.buf) \in Nat /\ Len(Stream) \in Nat /\ Len(call.buf) <= Len(Stream)
      /\ in = StreamFrom(Len(call.buf))
  BY <1>1, RestFacts DEF Stream, StreamFrom
<1>3. Stream \in Seq(Pieces) /\ \A j \in 1..Len(call.buf) : Stream[j] = call.buf[j]
  BY <1>1, ConcatFacts DEF Stream
<1>4. call.buf = <<>> => Stream = in
  BY <1>1 DEF Stream
<1>5. QED
  BY <1>1, <1>2, <1>3, <1>4

LEMMA WholeFacts ==
  ASSUME NEW reply \in Replies
  PROVE  /\ Whole(reply) \in Seq(Pieces) /\ Len(Whole(reply)) = 2
         /\ Whole(reply)[1] = <<reply, "head">> /\ Whole(reply)[2] = <<reply, "rest">>
  BY DEF Whole, Pieces

\* What has been read, when it is the beginning of the stream.
LEMMA MessageSteps ==
  ASSUME TypeOK, NEW buf \in Seq(Pieces), buf # <<>>, in' \in Seq(Pieces), buf \o in' = Stream,
         Reading, UNCHANGED <<browser, dev, calls>>, Message(buf)
  PROVE  ReadSteps
<1>1. /\ Len(buf) \in Nat /\ Len(buf) > 0 /\ Len(Stream) \in Nat /\ Len(buf) <= Len(Stream)
      /\ in' = StreamFrom(Len(buf)) /\ Head(buf) = buf[1] /\ buf[1] \in Pieces
  <2>1. Len(buf) \in Nat /\ Len(buf) > 0 /\ Head(buf) = buf[1] /\ buf[1] \in Pieces
    BY TailFacts
  <2>2. QED
    BY <2>1, RestFacts DEF StreamFrom
<1>2. buf[1] = Stream[1]
  BY <1>1, ConcatFacts
<1>3. ASSUME ReadOn(buf) PROVE Keeps
  BY <1>3 DEF ReadOn, Keeps
<1>4. ASSUME NEW why, NEW what, Fail(why, what), \A reply : Stream # Whole(reply)
      PROVE  Discards
  <2>1. \E n \in 0..Len(Stream) : in' = StreamFrom(n)
    BY <1>1
  <2>2. Stream # <<>>
    <3>1. Len(Stream) > 0
      BY <1>1
    <3>2. QED
      BY <3>1
  <2>3. QED
    BY <1>4, <2>1, <2>2, FailSteps DEF Discards
<1>5. CASE Head(buf)[2] = "rest"
  <2>1. \A reply : Stream # Whole(reply)
    BY <1>1, <1>2, <1>5 DEF Whole
  <2>2. Fail("transport", "none") \/ ReadOn(buf)
    BY <1>5 DEF Message
  <2>3. QED
    BY <1>3, <1>4, <2>1, <2>2 DEF ReadSteps
<1>6. CASE Head(buf)[2] = "head" /\ Len(buf) = 1
  BY <1>3, <1>6 DEF Message, ReadSteps
<1>7. CASE Head(buf)[2] = "head" /\ Len(buf) = 2
  <2> DEFINE reply == buf[1][1]
  <2>1. reply \in Replies /\ buf[1] = <<reply, "head">>
    BY <1>1, <1>7 DEF Pieces
  <2>2. OnReply(reply)
    BY <1>1, <1>7 DEF Message
  <2>3. Takes(reply)
    BY <1>1, <1>2, <1>7, <2>1, <2>2, OnReplySteps DEF Takes
  <2>4. QED
    BY <2>3 DEF ReadSteps
<1>8. CASE Head(buf)[2] = "head" /\ Len(buf) > 2
  <2>1. ASSUME NEW reply, Stream = Whole(reply) PROVE FALSE
    <3>1. Len(Stream) = 2
      BY <2>1 DEF Whole
    <3>2. QED
      BY <1>1, <1>8, <3>1
  <2>2. Fail("cbor", "none")
    <3>1. Len(buf) # 1 /\ Len(buf) # 2 /\ Head(buf)[2] # "rest"
      BY <1>1, <1>8
    <3>2. QED
      BY <3>1 DEF Message
  <2>3. QED
    BY <1>4, <2>1, <2>2 DEF ReadSteps
<1>9. Head(buf)[2] \in {"head", "rest"}
  BY <1>1 DEF Pieces
<1>10. Len(buf) = 1 \/ Len(buf) = 2 \/ Len(buf) > 2
  <2>1. \A n \in Nat : n > 0 => n = 1 \/ n = 2 \/ n > 2
    OBVIOUS
  <2>2. QED
    BY <1>1, <2>1, Zenon
<1>11. QED
  BY <1>5, <1>6, <1>7, <1>8, <1>9, <1>10

LEMMA ReadReads ==
  ASSUME TypeOK, Read
  PROVE  ReadSteps
<1>1. PICK n \in 1..Len(in) : in' = SubSeq(in, n + 1, Len(in)) /\ Message(call.buf \o SubSeq(in, 1, n))
  BY DEF Read
<1> DEFINE front == SubSeq(in, 1, n)
           buf == call.buf \o front
<1>2. n \in Nat /\ n > 0 /\ n <= Len(in) /\ Len(in) \in Nat
  BY StreamTypes
<1>3. front \in Seq(Pieces) /\ Len(front) = n
  <2>1. 0 + 1 = 1 /\ 0 \in Nat
    OBVIOUS
  <2>2. SubSeq(in, 0 + 1, n) \in Seq(Pieces) /\ Len(SubSeq(in, 0 + 1, n)) = n
    BY <1>2, <2>1, StreamTypes, PieceFacts
  <2>3. QED
    BY <2>1, <2>2
<1>4. in' \in Seq(Pieces)
  BY <1>1, <1>2, StreamTypes, PieceFacts
<1>5. buf \o in' = Stream
  BY <1>1, <1>2, StreamTypes, ShiftFacts, ZenonT(60) DEF Stream
<1> HIDE DEF front
<1>6. buf \in Seq(Pieces) /\ buf # <<>>
  <2>1. buf \in Seq(Pieces) /\ Len(buf) = Len(call.buf) + n
    BY <1>3, StreamTypes, ConcatFacts, ZenonT(60)
  <2>2. QED
    BY <1>2, <2>1, StreamTypes
<1> HIDE DEF buf
<1>7. Message(buf)
  BY <1>1 DEF buf, front
<1>8. QED
  BY <1>4, <1>5, <1>6, <1>7, MessageSteps DEF Read

LEMMA GatherReads ==
  ASSUME TypeOK, Gather
  PROVE  ReadSteps
<1> DEFINE buf == Append(call.buf, Head(in))
<1>1. in # <<>> /\ in \in Seq(Pieces) /\ call.buf \in Seq(Pieces)
  BY StreamTypes DEF Gather
<1>2. Head(in) \in Pieces /\ Tail(in) \in Seq(Pieces)
  BY <1>1, TailFacts
<1>3. buf \in Seq(Pieces)
  BY <1>1, <1>2, AppendFacts
<1>4. buf \o Tail(in) = Stream
  <2> DEFINE n == 1
  <2>1. n \in Nat /\ n <= Len(in) /\ SubSeq(in, n + 1, Len(in)) = Tail(in)
        /\ SubSeq(in, 1, n) = <<Head(in)>>
    <3>1. Len(in) \in Nat /\ Len(in) > 0
      BY <1>1, TailFacts
    <3>2. SubSeq(in, 2, Len(in)) = Tail(in) /\ SubSeq(in, 1, 1) = <<Head(in)>>
      BY <1>1, FirstFacts
    <3>3. QED
      BY <3>1, <3>2
  <2> HIDE DEF n
  <2>2. (call.buf \o <<Head(in)>>) \o Tail(in) = Stream
    BY <1>1, <2>1, ShiftFacts, SMTT(60) DEF Stream
  <2>3. call.buf \o <<Head(in)>> = buf
    BY <1>1, <1>2
  <2>4. QED
    BY <2>2, <2>3
<1> HIDE DEF buf
<1>5. ReadOn(buf) /\ in' = Tail(in)
  BY DEF Gather, buf
<1>6. Keeps
  BY <1>2, <1>3, <1>4, <1>5 DEF ReadOn, Keeps
<1>7. QED
  BY <1>6 DEF Gather, ReadSteps

LEMMA QuietReads ==
  ASSUME TypeOK, Quiet
  PROVE  ReadSteps
<1> DEFINE buf == call.buf
<1>1. /\ buf \in Seq(Pieces) /\ buf # <<>> /\ buf[Len(buf)][2] = "rest" /\ Gathered(buf)
      /\ in' = in /\ Reading /\ UNCHANGED <<browser, dev, calls>>
  BY StreamTypes DEF Quiet
<1>2. /\ Len(buf) \in Nat /\ Len(buf) > 0 /\ Len(Stream) \in Nat /\ Len(buf) <= Len(Stream)
      /\ in' = StreamFrom(Len(buf)) /\ \A j \in 1..Len(buf) : Stream[j] = buf[j]
      /\ \A j \in 1..Len(buf) : buf[j] \in Pieces
  BY <1>1, StreamTypes, TailFacts
<1>3. CASE Len(buf) = 2 /\ buf[1][2] = "head"
  <2> DEFINE reply == buf[1][1]
  <2>1. reply \in Replies /\ buf[1] = <<reply, "head">> /\ buf[1] = Stream[1]
    BY <1>2, <1>3 DEF Pieces
  <2>2. OnReply(reply)
    BY <1>1, <1>3 DEF Gathered
  <2>3. Takes(reply)
    BY <1>1, <1>2, <1>3, <2>1, <2>2, OnReplySteps DEF Takes
  <2>4. QED
    BY <1>1, <2>3 DEF ReadSteps
<1>4. CASE ~(Len(buf) = 2 /\ buf[1][2] = "head")
  <2>1. ASSUME NEW reply, Stream = Whole(reply) PROVE FALSE
    <3>1. Len(Stream) = 2 /\ Stream[1][2] = "head" /\ Stream[2][2] = "rest"
      BY <2>1 DEF Whole
    <3>2. Len(buf) = 1 \/ Len(buf) = 2
      <4>1. Len(buf) \in Nat /\ Len(buf) > 0 /\ Len(buf) <= 2
        BY <1>2, <3>1
      <4>2. \A n \in Nat : n > 0 /\ n <= 2 => n = 1 \/ n = 2
        OBVIOUS
      <4>3. QED
        BY <4>1, <4>2, Zenon
    <3>3. CASE Len(buf) = 1
      BY <1>1, <1>2, <3>1, <3>3
    <3>4. CASE Len(buf) = 2
      BY <1>2, <1>4, <3>1, <3>4
    <3>5. QED
      BY <3>2, <3>3, <3>4
  <2>2. Fail("cbor", "none")
    BY <1>1, <1>4 DEF Gathered
  <2>3. \E n \in 0..Len(Stream) : in' = StreamFrom(n)
    BY <1>2
  <2>4. Stream # <<>>
    <3>1. Len(Stream) > 0
      BY <1>2
    <3>2. QED
      BY <3>1
  <2>5. Discards
    BY <2>1, <2>2, <2>3, <2>4, FailSteps DEF Discards
  <2>6. QED
    BY <1>1, <2>5 DEF ReadSteps
<1>5. QED
  BY <1>3, <1>4

-----------------------------------------------------------------------------
(* What the device does: it answers, or asks its user first.               *)

Gives(reply) ==
  /\ reply \in Replies /\ Put(reply) /\ Genuine(reply)
  /\ dev.task.kind = "fetch" => Follows(reply, dev.task.request.arg, dev.task.next)
  /\ Unfinished(reply) =>
       /\ dev'.task.kind = "fetch" /\ dev'.task.request.arg = reply.arg
       /\ dev'.task.next = reply.seqnum + 1

DeviceSteps ==
  /\ UNCHANGED <<browser, call, result, ids, past, calls, faults>>
  /\ out' \in Seq(Orders) /\ dev' \in Devices /\ Proper(dev'.task)
  /\ \/ UNCHANGED in /\ dev.task.kind = "idle"
     \/ \E reply : Gives(reply)

LEMMA RejectionGives ==
  ASSUME NEW request \in Requests, NEW what \in Contents, what # "psbt",
         Put(Rejection(request, what))
  PROVE  Gives(Rejection(request, what))
<1> DEFINE reply == Rejection(request, what)
<1>1. reply \in Replies /\ reply.typ = "error" /\ reply.what = what
  BY RejectionTypes
<1> HIDE DEF reply
<1>2. Genuine(reply) /\ ~Unfinished(reply)
  BY <1>1 DEF Genuine, Unfinished
<1>3. \A psbt, n : Follows(reply, psbt, n)
  BY <1>1 DEF Follows
<1>4. Put(reply)
  BY DEF reply
<1>5. Gives(reply)
  BY <1>1, <1>2, <1>3, <1>4 DEF Gives
<1>6. QED
  BY <1>5 DEF reply

LEMMA OtherGives ==
  ASSUME NEW reply \in Replies, reply.typ # "bytes", reply.what # "psbt", Put(reply),
         dev.task.kind # "fetch"
  PROVE  Gives(reply)
  BY DEF Gives, Genuine, Unfinished

LEMMA PieceTypes ==
  ASSUME NEW request \in Requests, NEW origin \in Requests, origin.arg \in Psbts,
         NEW n \in 1..Fragments[origin.arg]
  PROVE  LET reply == Fragment(request, origin, n)
         IN  /\ reply \in Replies /\ Genuine(reply)
             /\ reply.id = request.id /\ reply.of = request.of /\ reply.typ = "bytes"
             /\ reply.arg = origin.arg
             /\ reply.seqnum = n /\ reply.seqlen = Fragments[origin.arg] /\ reply.ok
             /\ reply.data = <<<<origin.arg, n>>>> /\ reply.what = "psbt"
<1> DEFINE base == Reply(request, "bytes")
           psbt == origin.arg
           reply == Fragment(request, origin, n)
<1>1. base \in Replies /\ base.id = request.id /\ base.of = request.of /\ base.typ = "bytes" /\ base.ok
  BY ReplyTypes DEF Types
<1>2. /\ psbt \in Args /\ n \in Nat /\ Fragments[psbt] \in Nat /\ Content(psbt)[n] = <<psbt, n>>
      /\ <<<<psbt, n>>>> \in Seq(Parts)
  BY FragmentTypes, SMTT(60) DEF Requests
<1>3. reply = [base EXCEPT !.what = "psbt", !.arg = psbt, !.data = <<Content(psbt)[n]>>,
                           !.seqnum = n, !.seqlen = Fragments[psbt]]
  BY DEF Fragment
<1>4. psbt \in Psbts /\ n \in 1..Fragments[psbt] /\ "psbt" \in Contents
  BY DEF Contents
<1> HIDE DEF base, psbt, reply
<1>5. /\ reply \in Replies /\ reply.id = request.id /\ reply.of = request.of
      /\ reply.typ = "bytes" /\ reply.arg = psbt /\ reply.seqnum = n
      /\ reply.seqlen = Fragments[psbt] /\ reply.data = <<<<psbt, n>>>> /\ reply.what = "psbt"
      /\ reply.ok
  BY <1>1, <1>2, <1>3, <1>4 DEF Replies
<1>6. Genuine(reply)
  BY <1>4, <1>5 DEF Genuine
<1>7. QED
  BY <1>5, <1>6 DEF psbt, reply

\* A device whose task changes, and one that has nothing more to do.
LEMMA TaskTypes ==
  ASSUME TypeOK, NEW task \in Tasks, dev' = [dev EXCEPT !.task = task]
  PROVE  /\ dev' \in Devices /\ dev'.task = task /\ dev'.unlocked = dev.unlocked
         /\ dev'.multisigs = dev.multisigs
  BY TypeParts DEF Devices

LEMMA NewTaskTypes ==
  ASSUME NEW request \in Orders, NEW kind \in {"user", "pin"},
         kind = "user" => request.method \in Confirmed
  PROVE  LET task == [Idle EXCEPT !.kind = kind, !.request = request]
         IN  task \in Tasks /\ Proper(task) /\ task.kind = kind /\ task.request = request
<1> DEFINE task == [Idle EXCEPT !.kind = kind, !.request = request]
<1>1. Idle \in Tasks
  BY ConstantTypes
<1>2. request \in Requests /\ Legal(request)
  BY DEF Orders
<1>3. task \in Tasks /\ task.kind = kind /\ task.request = request
  BY <1>1, <1>2 DEF Tasks
<1> HIDE DEF task
<1>4. Proper(task)
  BY <1>2, <1>3 DEF Proper
<1>5. QED
  BY <1>3, <1>4 DEF task

LEMMA FetchTaskTypes ==
  ASSUME NEW request \in Orders, request.arg \in Psbts, NEW next \in 2..Fragments[request.arg]
  PROVE  LET task == [Idle EXCEPT !.kind = "fetch", !.request = request, !.next = next]
         IN  /\ task \in Tasks /\ Proper(task) /\ task.kind = "fetch" /\ task.request = request
             /\ task.next = next
<1> DEFINE task == [Idle EXCEPT !.kind = "fetch", !.request = request, !.next = next]
<1>1. Idle \in Tasks
  BY ConstantTypes
<1>2. request \in Requests /\ Legal(request) /\ next \in Nat
  BY FragmentTypes DEF Orders
<1>3. task \in Tasks /\ task.kind = "fetch" /\ task.request = request /\ task.next = next
  BY <1>1, <1>2 DEF Tasks
<1> HIDE DEF task
<1>4. Proper(task)
  BY <1>2, <1>3 DEF Proper
<1>5. QED
  BY <1>3, <1>4 DEF task

\* What the device does with a request when it has nothing to do.
IdleAnswers(request) ==
  \/ /\ \/ Unexpected(request) /\ Put(Rejection(request, "protocol"))
        \/ Put(Rejection(request, "locked")) \/ Put(Rejection(request, "unknown"))
     /\ UNCHANGED dev
  \/ /\ request.method = "get_version_info" /\ UNCHANGED dev
     /\ Put([Reply(request, "info") EXCEPT !.what = "info", !.arg = request.arg])
  \/ /\ request.method = "get_xpub" /\ UNCHANGED dev
     /\ Put([Reply(request, "string") EXCEPT !.what = "xpub", !.arg = request.arg])
  \/ /\ request.method = "auth_user" /\ dev.unlocked /\ UNCHANGED dev
     /\ Put([Reply(request, "bool") EXCEPT !.what = "done", !.arg = request.arg])
  \/ /\ request.method = "auth_user" /\ Put(Reply(request, "http"))
     /\ dev' = [dev EXCEPT !.task = [Idle EXCEPT !.kind = "pin", !.request = request]]
  \/ /\ request.method \in Confirmed /\ UNCHANGED in
     /\ dev' = [dev EXCEPT !.task = [Idle EXCEPT !.kind = "user", !.request = request]]

LEMMA IdleSteps ==
  ASSUME TypeOK, NEW request \in Orders, DeviceIdle(request)
  PROVE  dev.task.kind = "idle" /\ IdleAnswers(request)
<1> DEFINE method == request.method
<1>1. dev.task.kind = "idle" /\ dev.unlocked \in BOOLEAN /\ method \in Methods
  BY TypeParts DEF DeviceIdle, Devices, Orders, Requests
<1>2. CASE Unexpected(request)
  BY <1>1, <1>2 DEF DeviceIdle, IdleAnswers
<1>3. CASE ~Unexpected(request) /\ Locked(request)
  BY <1>1, <1>3 DEF DeviceIdle, IdleAnswers
<1>4. CASE dev.unlocked /\ ~Unexpected(request) /\ Unknown(request)
  <2>1. ~Locked(request)
    BY <1>4 DEF Locked
  <2>2. QED
    BY <1>1, <1>4, <2>1 DEF DeviceIdle, IdleAnswers
<1>5. CASE method = "get_version_info"
  <2>1. ~Unexpected(request) /\ ~Locked(request) /\ ~Unknown(request)
    BY <1>5 DEF Unexpected, Locked, Unknown
  <2>2. QED
    BY <1>1, <1>5, <2>1 DEF DeviceIdle, IdleAnswers
<1>6. CASE method = "get_xpub" /\ dev.unlocked
  <2>1. ~Unexpected(request) /\ ~Locked(request) /\ ~Unknown(request)
    BY <1>6 DEF Unexpected, Locked, Unknown
  <2>2. QED
    BY <1>1, <1>6, <2>1 DEF DeviceIdle, IdleAnswers
<1>7. CASE method = "auth_user" /\ dev.unlocked
  <2>1. ~Unexpected(request) /\ ~Locked(request) /\ ~Unknown(request)
    BY <1>7 DEF Unexpected, Locked, Unknown
  <2>2. QED
    BY <1>1, <1>7, <2>1 DEF DeviceIdle, IdleAnswers
<1>8. CASE method = "auth_user" /\ ~dev.unlocked
  <2>1. ~Unexpected(request) /\ ~Locked(request) /\ ~Unknown(request)
    BY <1>8 DEF Unexpected, Locked, Unknown
  <2>2. QED
    BY <1>1, <1>8, <2>1 DEF DeviceIdle, IdleAnswers
<1>9. CASE method \in Confirmed /\ dev.unlocked /\ ~Unknown(request)
  <2>1. ~Unexpected(request) /\ ~Locked(request)
    BY <1>9 DEF Unexpected, Locked, Confirmed
  <2>2. method \notin {"get_version_info", "get_xpub", "auth_user"}
    BY <1>9 DEF Confirmed
  <2>3. /\ dev' = [dev EXCEPT !.task = [Idle EXCEPT !.kind = "user", !.request = request]]
        /\ UNCHANGED in
    BY <1>1, <1>9, <2>1, <2>2 DEF DeviceIdle
  <2>4. request.method \in Confirmed
    BY <1>9
  <2>5. QED
    BY <1>1, <2>3, <2>4, Zenon DEF IdleAnswers
<1>10. \/ Unexpected(request)
       \/ ~Unexpected(request) /\ Locked(request)
       \/ dev.unlocked /\ ~Unexpected(request) /\ Unknown(request)
       \/ method = "get_version_info"
       \/ method = "get_xpub" /\ dev.unlocked
       \/ method = "auth_user"
       \/ method \in Confirmed /\ dev.unlocked /\ ~Unknown(request)
  <2>1. \/ method \in {"pin", "get_extended_data"} \/ method \in Confirmed
        \/ method = "get_version_info" \/ method = "get_xpub" \/ method = "auth_user"
    BY <1>1 DEF Methods, Confirmed
  <2>2. method \in {"pin", "get_extended_data"} => Unexpected(request)
    BY DEF Unexpected
  <2>3. /\ method \in Confirmed => method \notin {"auth_user", "get_version_info"}
        /\ method = "get_xpub" => method \notin {"auth_user", "get_version_info"}
    BY DEF Confirmed
  <2>4. ~dev.unlocked /\ method \notin {"auth_user", "get_version_info"} =>
          Unexpected(request) \/ Locked(request)
    BY DEF Locked
  <2>5. CASE method \in {"pin", "get_extended_data"}
    BY <2>2, <2>5
  <2>6. CASE method \in Confirmed
    BY <1>1, <2>3, <2>4, <2>6
  <2>7. CASE method = "get_xpub"
    BY <1>1, <2>3, <2>4, <2>7
  <2>8. QED
    BY <2>1, <2>5, <2>6, <2>7
<1>11. QED
  BY <1>1, <1>2, <1>3, <1>4, <1>5, <1>6, <1>7, <1>8, <1>9, <1>10

LEMMA ArgTypes ==
  ASSUME NEW request \in Orders
  PROVE  request \in Requests /\ request.arg \in Args /\ request.method \in Methods /\ Legal(request)
  BY DEF Orders, Requests

\* The answer of the PIN server, by whether the PIN was right.
LEMMA PinReplyTypes ==
  ASSUME NEW request \in Requests, NEW right \in BOOLEAN
  PROVE  LET reply == [Reply(request, "bool") EXCEPT
                         !.ok = right, !.what = IF right THEN "done" ELSE "wrong pin",
                         !.arg = request.arg]
         IN  /\ reply \in Replies /\ reply.of = request.of /\ reply.typ = "bool" /\ reply.ok = right
             /\ reply.what = IF right THEN "done" ELSE "wrong pin"
             /\ reply.arg = request.arg
<1> DEFINE base == Reply(request, "bool")
           what == IF right THEN "done" ELSE "wrong pin"
           arg == request.arg
           reply == [base EXCEPT !.ok = right, !.what = what, !.arg = arg]
<1>1. base \in Replies /\ base.of = request.of /\ base.typ = "bool"
  BY ReplyTypes DEF Types
<1>2. arg \in Args /\ what \in Contents
  BY DEF Requests, Contents
<1> HIDE DEF base, what, arg
<1>3. /\ reply \in Replies /\ reply.of = request.of /\ reply.typ = "bool" /\ reply.ok = right
      /\ reply.what = what /\ reply.arg = arg
  BY <1>1, <1>2 DEF Replies
<1>4. QED
  BY <1>3 DEF base, what, arg

LEMMA DeclinedTypes ==
  ASSUME NEW request \in Requests
  PROVE  LET reply == [Reply(request, "bool") EXCEPT !.ok = FALSE, !.what = "declined"]
         IN  /\ reply \in Replies /\ reply.of = request.of /\ reply.typ = "bool" /\ ~reply.ok
             /\ reply.what = "declined"
<1> DEFINE base == Reply(request, "bool")
           reply == [base EXCEPT !.ok = FALSE, !.what = "declined"]
<1>1. base \in Replies /\ base.of = request.of /\ base.typ = "bool" /\ "declined" \in Contents
  BY ReplyTypes DEF Types, Contents
<1> HIDE DEF base
<1>2. reply \in Replies /\ reply.of = request.of /\ reply.typ = "bool" /\ ~reply.ok /\ reply.what = "declined"
  BY <1>1 DEF Replies
<1>3. QED
  BY <1>2 DEF base

\* A PSBT returned in one piece may leave the numbers out.
LEMMA BareTypes ==
  ASSUME NEW request \in Requests, request.arg \in Psbts, Fragments[request.arg] = 1
  PROVE  LET reply == [Fragment(request, request, 1) EXCEPT !.seqnum = 0, !.seqlen = 0]
         IN  /\ reply \in Replies /\ Genuine(reply) /\ reply.id = request.id
             /\ reply.of = request.of /\ reply.typ = "bytes" /\ reply.arg = request.arg
             /\ reply.seqnum = 0 /\ reply.seqlen = 0
<1> DEFINE base == Fragment(request, request, 1)
           reply == [base EXCEPT !.seqnum = 0, !.seqlen = 0]
<1>1. 1 \in 1..Fragments[request.arg]
  BY FragmentTypes
<1>2. /\ base \in Replies /\ base.id = request.id /\ base.of = request.of /\ base.typ = "bytes"
      /\ base.arg = request.arg /\ base.data = <<<<request.arg, 1>>>>
  BY <1>1, PieceTypes
<1> HIDE DEF base
<1>3. /\ reply \in Replies /\ reply.id = request.id /\ reply.of = request.of
      /\ reply.typ = "bytes" /\ reply.arg = request.arg /\ reply.data = <<<<request.arg, 1>>>>
      /\ reply.seqnum = 0 /\ reply.seqlen = 0
  BY <1>2 DEF Replies
<1> HIDE DEF reply
<1>4. Genuine(reply)
  BY <1>3 DEF Genuine
<1>5. QED
  BY <1>3, <1>4 DEF base, reply

\* What a device does when it is idle.
LEMMA IdleGives ==
  ASSUME TypeOK, NEW request \in Orders, dev.task.kind = "idle", IdleAnswers(request)
  PROVE  /\ dev' \in Devices /\ Proper(dev'.task)
         /\ UNCHANGED in \/ \E reply : Gives(reply)
<1>1. request \in Requests /\ request.arg \in Args /\ dev \in Devices /\ Proper(dev.task)
  BY ArgTypes, TypeParts
<1>2. dev.task.kind # "fetch"
  OBVIOUS
<1>3. CASE /\ \/ Unexpected(request) /\ Put(Rejection(request, "protocol"))
              \/ Put(Rejection(request, "locked")) \/ Put(Rejection(request, "unknown"))
           /\ UNCHANGED dev
  <2>1. PICK what \in {"protocol", "locked", "unknown"} : Put(Rejection(request, what))
    BY <1>3
  <2>2. Gives(Rejection(request, what))
    BY <1>1, <2>1, RejectionGives DEF Contents
  <2>3. QED
    BY <1>1, <1>3, <2>2
<1>4. ASSUME NEW typ \in {"info", "string", "bool"}, NEW what \in {"info", "xpub", "done"},
             Put([Reply(request, typ) EXCEPT !.what = what, !.arg = request.arg])
      PROVE  \E reply : Gives(reply)
  <2> DEFINE arg == request.arg
             reply == Filled(request, typ, what, arg)
  <2>1. typ \in Types /\ what \in Contents /\ arg \in Args
    BY <1>1 DEF Types, Contents
  <2> HIDE DEF arg
  <2>2. reply \in Replies /\ reply.typ = typ /\ reply.what = what
    BY <1>1, <2>1, FilledTypes
  <2> HIDE DEF reply
  <2>3. Put(reply)
    BY <1>4 DEF reply, arg, Filled
  <2>4. reply.typ # "bytes" /\ reply.what # "psbt"
    BY <2>2
  <2>5. Gives(reply)
    BY <1>2, <2>2, <2>3, <2>4, OtherGives
  <2>6. QED
    BY <2>5
<1>5. CASE /\ request.method = "get_version_info" /\ UNCHANGED dev
           /\ Put([Reply(request, "info") EXCEPT !.what = "info", !.arg = request.arg])
  BY <1>1, <1>4, <1>5, SMTT(60)
<1>6. CASE /\ request.method = "get_xpub" /\ UNCHANGED dev
           /\ Put([Reply(request, "string") EXCEPT !.what = "xpub", !.arg = request.arg])
  BY <1>1, <1>4, <1>6, SMTT(60)
<1>7. CASE /\ request.method = "auth_user" /\ dev.unlocked /\ UNCHANGED dev
           /\ Put([Reply(request, "bool") EXCEPT !.what = "done", !.arg = request.arg])
  BY <1>1, <1>4, <1>7, SMTT(60)
<1>8. CASE /\ request.method = "auth_user" /\ Put(Reply(request, "http"))
           /\ dev' = [dev EXCEPT !.task = [Idle EXCEPT !.kind = "pin", !.request = request]]
  <2> DEFINE reply == Reply(request, "http")
             task == [Idle EXCEPT !.kind = "pin", !.request = request]
  <2>1. reply \in Replies /\ reply.typ = "http" /\ reply.what = "none"
    BY <1>1, ReplyTypes, SMTT(60) DEF Types
  <2>2. task \in Tasks /\ Proper(task)
    BY NewTaskTypes, ZenonT(60)
  <2> HIDE DEF reply, task
  <2>3. dev' \in Devices /\ dev'.task = task
    BY <1>8, <2>2, TaskTypes, SMTT(60) DEF task
  <2>4. reply.typ # "bytes" /\ reply.what # "psbt" /\ Put(reply)
    BY <1>8, <2>1, SMTT(60) DEF reply
  <2>5. Gives(reply)
    BY <1>2, <2>1, <2>4, OtherGives, SMTT(60)
  <2>6. QED
    BY <2>2, <2>3, <2>5, SMTT(60)
<1>9. CASE /\ request.method \in Confirmed /\ UNCHANGED in
           /\ dev' = [dev EXCEPT !.task = [Idle EXCEPT !.kind = "user", !.request = request]]
  <2> DEFINE task == [Idle EXCEPT !.kind = "user", !.request = request]
  <2>1. task \in Tasks /\ Proper(task)
    BY <1>9, NewTaskTypes
  <2> HIDE DEF task
  <2>2. dev' \in Devices /\ dev'.task = task
    BY <1>9, <2>1, TaskTypes DEF task
  <2>3. QED
    BY <1>9, <2>1, <2>2, SMTT(60)
<1>10. QED
  BY <1>3, <1>5, <1>6, <1>7, <1>8, <1>9 DEF IdleAnswers

\* A device that ends what it was doing.
LEMMA EndsTypes ==
  ASSUME TypeOK, dev' = [dev EXCEPT !.task = Idle]
  PROVE  /\ dev' \in Devices /\ Proper(dev'.task) /\ dev'.task = Idle /\ dev'.task.kind = "idle"
         /\ dev'.unlocked = dev.unlocked
<1>1. Idle \in Tasks /\ Proper(Idle) /\ Idle.kind = "idle"
  BY ConstantTypes
<1>2. dev' \in Devices /\ dev'.task = Idle /\ dev'.unlocked = dev.unlocked
  BY <1>1, TaskTypes
<1>3. QED
  BY <1>1, <1>2

LEMMA PinGives ==
  ASSUME TypeOK, NEW request \in Orders, DevicePin(request)
  PROVE  dev' \in Devices /\ Proper(dev'.task) /\ \E reply : Gives(reply)
<1>1. request \in Requests /\ dev \in Devices /\ dev.task.kind # "fetch"
  BY ArgTypes, TypeParts, ZenonT(60) DEF DevicePin
<1>2. CASE request.method = "pin"
  <2>1. PICK right \in BOOLEAN :
          /\ Put([Reply(request, "bool") EXCEPT
                    !.ok = right, !.what = IF right THEN "done" ELSE "wrong pin", !.arg = request.arg])
          /\ dev' = [dev EXCEPT !.task = Idle, !.unlocked = right]
    BY <1>2 DEF DevicePin
  <2> DEFINE reply == [Reply(request, "bool") EXCEPT
                         !.ok = right, !.what = IF right THEN "done" ELSE "wrong pin",
                         !.arg = request.arg]
  <2>2. /\ reply \in Replies /\ reply.typ = "bool"
        /\ reply.what = IF right THEN "done" ELSE "wrong pin"
    BY <1>1, PinReplyTypes, ZenonT(60)
  <2> HIDE DEF reply
  <2>3. Put(reply)
    BY <2>1 DEF reply
  <2>4. Gives(reply)
    BY <1>1, <2>2, <2>3, OtherGives
  <2>5. dev' \in Devices /\ dev'.task = Idle
    BY <1>1, <2>1, ConstantTypes DEF Devices
  <2>6. QED
    BY <2>4, <2>5, ConstantTypes, SMTT(60)
<1>3. CASE request.method # "pin"
  <2>1. Put(Rejection(request, "protocol")) /\ dev' = [dev EXCEPT !.task = Idle]
    BY <1>3 DEF DevicePin
  <2>2. Gives(Rejection(request, "protocol"))
    BY <1>1, <2>1, RejectionGives DEF Contents
  <2>3. QED
    BY <2>1, <2>2, EndsTypes
<1>4. QED
  BY <1>2, <1>3, SMTT(60)

LEMMA FetchGives ==
  ASSUME TypeOK, NEW request \in Orders, DeviceFragment(request)
  PROVE  dev' \in Devices /\ Proper(dev'.task) /\ \E reply : Gives(reply)
<1> DEFINE task == dev.task
           psbt == task.request.arg
           n == request.seqnum
<1>1. /\ request \in Requests /\ task \in Tasks /\ task.kind = "fetch" /\ Proper(task)
      /\ task.request \in Requests /\ task.next \in Nat /\ n \in Nat
  BY ArgTypes, TypeParts DEF DeviceFragment, Tasks, Requests
<1>2. psbt \in Psbts /\ task.next \in 2..Fragments[psbt] /\ Fragments[psbt] \in Nat
  BY <1>1, FragmentTypes DEF Proper
<1>3. CASE /\ request.method = "get_extended_data" /\ request.origid = task.request.id
           /\ n = task.next
  <2> DEFINE reply == Fragment(request, task.request, n)
             further == [task EXCEPT !.next = n + 1]
  <2>1. /\ Put(reply)
        /\ dev' = [dev EXCEPT !.task = IF n = Fragments[psbt] THEN Idle ELSE further]
    BY <1>1, <1>3 DEF DeviceFragment
  <2>2. n \in 2..Fragments[psbt] /\ n \in 1..Fragments[psbt]
    BY <1>2, <1>3
  <2>3. /\ reply \in Replies /\ Genuine(reply) /\ reply.typ = "bytes" /\ reply.arg = psbt
        /\ reply.seqnum = n /\ reply.seqlen = Fragments[psbt]
    BY <1>1, <1>2, <2>2, PieceTypes
  <2> HIDE DEF reply
  <2>4. Follows(reply, psbt, task.next)
    BY <1>3, <2>3 DEF Follows
  <2>5. CASE n = Fragments[psbt]
    <3>1. ~Unfinished(reply)
      BY <1>2, <2>3, <2>5 DEF Unfinished
    <3>2. Gives(reply)
      BY <1>1, <2>1, <2>3, <2>4, <3>1 DEF Gives
    <3>3. QED
      BY <2>1, <2>5, <3>2, EndsTypes
  <2>6. CASE n # Fragments[psbt]
    <3>1. /\ further \in Tasks /\ further.kind = "fetch" /\ further.request = task.request
          /\ further.next = n + 1
      BY <1>1 DEF Tasks
    <3>2. n + 1 \in 2..Fragments[psbt]
      BY <1>2, <2>2, <2>6
    <3>3. dev' = [dev EXCEPT !.task = further]
      BY <2>1, <2>6
    <3> HIDE DEF further
    <3>4. dev' \in Devices /\ dev'.task = further
      BY <3>1, <3>3, TaskTypes
    <3>5. Proper(further)
      BY <1>1, <1>2, <3>1, <3>2 DEF Proper
    <3>6. Gives(reply)
      BY <1>1, <2>1, <2>3, <2>4, <3>1, <3>4 DEF Gives
    <3>7. QED
      BY <3>4, <3>5, <3>6
  <2>7. QED
    BY <2>5, <2>6
<1>4. CASE ~(/\ request.method = "get_extended_data" /\ request.origid = task.request.id
             /\ n = task.next)
  <2>1. Put(Rejection(request, "protocol")) /\ dev' = [dev EXCEPT !.task = Idle]
    BY <1>4 DEF DeviceFragment
  <2>2. Gives(Rejection(request, "protocol"))
    BY <1>1, <2>1, RejectionGives DEF Contents
  <2>3. QED
    BY <2>1, <2>2, EndsTypes
<1>5. QED
  BY <1>3, <1>4

\* The first fragment of a PSBT the user signs.
LEMMA SignGives ==
  ASSUME TypeOK, dev.task.kind = "user", NEW request \in Orders, request.method = "sign_psbt",
         Approve(request)
  PROVE  dev' \in Devices /\ Proper(dev'.task) /\ \E reply : Gives(reply)
<1> DEFINE psbt == request.arg
           task == [Idle EXCEPT !.kind = "fetch", !.request = request, !.next = 2]
<1>1. psbt \in Psbts /\ request \in Requests /\ dev.task.kind # "fetch"
  BY ArgTypes DEF Legal
<1>2. Fragments[psbt] \in Nat /\ Fragments[psbt] > 0 /\ 1 \in 1..Fragments[psbt]
  BY <1>1, FragmentTypes
<1>3. /\ dev' = [dev EXCEPT !.task = IF Fragments[psbt] = 1 THEN Idle ELSE task]
      /\ \/ Put(Fragment(request, request, 1))
         \/ /\ Fragments[psbt] = 1
            /\ Put([Fragment(request, request, 1) EXCEPT !.seqnum = 0, !.seqlen = 0])
  BY DEF Approve
<1>4. CASE Put(Fragment(request, request, 1))
  <2> DEFINE reply == Fragment(request, request, 1)
  <2>1. /\ reply \in Replies /\ Genuine(reply) /\ reply.arg = psbt /\ reply.seqnum = 1
        /\ reply.seqlen = Fragments[psbt]
    BY <1>1, <1>2, PieceTypes
  <2>2. Put(reply)
    BY <1>4
  <2> HIDE DEF reply
  <2>3. CASE Fragments[psbt] = 1
    <3>1. ~Unfinished(reply)
      BY <2>1, <2>3 DEF Unfinished
    <3>2. dev' = [dev EXCEPT !.task = Idle]
      BY <1>3, <2>3
    <3>3. Gives(reply)
      BY <1>1, <2>1, <2>2, <3>1 DEF Gives
    <3>4. QED
      BY <3>2, <3>3, EndsTypes
  <2>4. CASE Fragments[psbt] # 1
    <3>1. 2 \in 2..Fragments[psbt]
      BY <1>2, <2>4
    <3>2. /\ task \in Tasks /\ Proper(task) /\ task.kind = "fetch" /\ task.request = request
          /\ task.next = 2
      BY <1>1, <3>1, FetchTaskTypes
    <3>3. dev' = [dev EXCEPT !.task = task]
      BY <1>3, <2>4
    <3> HIDE DEF task
    <3>4. dev' \in Devices /\ dev'.task = task
      BY <3>2, <3>3, TaskTypes
    <3>5. Gives(reply)
      BY <1>1, <2>1, <2>2, <3>2, <3>4 DEF Gives
    <3>6. QED
      BY <3>2, <3>4, <3>5
  <2>5. QED
    BY <2>3, <2>4
<1>5. CASE /\ Fragments[psbt] = 1
           /\ Put([Fragment(request, request, 1) EXCEPT !.seqnum = 0, !.seqlen = 0])
  <2> DEFINE reply == [Fragment(request, request, 1) EXCEPT !.seqnum = 0, !.seqlen = 0]
  <2>1. reply \in Replies /\ Genuine(reply) /\ reply.seqnum = 0 /\ reply.seqlen = 0
    BY <1>1, <1>5, BareTypes
  <2>2. Put(reply)
    BY <1>5
  <2> HIDE DEF reply
  <2>3. ~Unfinished(reply)
    BY <2>1 DEF Unfinished
  <2>4. Gives(reply)
    BY <1>1, <2>1, <2>2, <2>3 DEF Gives
  <2>5. dev' = [dev EXCEPT !.task = Idle]
    BY <1>3, <1>5
  <2>6. QED
    BY <2>4, <2>5, EndsTypes
<1>6. QED
  BY <1>3, <1>4, <1>5

\* The other things a user approves: the reply, and what is registered by it.
Approved(request) ==
  \/ /\ request.method = "sign_message" /\ dev' = [dev EXCEPT !.task = Idle]
     /\ Put(Filled(request, "string", "signature", request.arg))
  \/ /\ request.method = "register_descriptor"
     /\ dev' = [dev EXCEPT !.task = Idle, !.wallets = @ \cup {request.arg}]
     /\ Put(Filled(request, "bool", "registered", request.arg))
  \/ /\ request.method = "register_multisig"
     /\ dev' = [dev EXCEPT !.task = Idle,
                           !.multisigs = (@ \ Registered(request.arg)) \cup {request.arg}]
     /\ Put(Filled(request, "bool", "registered", request.arg))
  \/ /\ request.method \notin {"sign_psbt", "sign_message", "register_descriptor",
                               "register_multisig"}
     /\ dev' = [dev EXCEPT !.task = Idle]
     /\ \E shown \in IF request.by = "ByMultisig" THEN Registered(request.arg) ELSE {request.arg} :
          Put(Filled(request, "string", "address", shown))

LEMMA ApproveSteps ==
  ASSUME NEW request, Approve(request), request.method # "sign_psbt"
  PROVE  Approved(request)
<1>1. CASE request.method = "sign_message"
  BY <1>1 DEF Approve, Approved, Filled
<1>2. CASE request.method = "register_descriptor"
  BY <1>2 DEF Approve, Approved, Filled
<1>3. CASE request.method = "register_multisig"
  BY <1>3 DEF Approve, Approved, Filled
<1>4. CASE request.method \notin {"sign_psbt", "sign_message", "register_descriptor",
                                  "register_multisig"}
  BY <1>4 DEF Approve, Approved, Filled
<1>5. QED
  BY <1>1, <1>2, <1>3, <1>4

LEMMA ApprovedGives ==
  ASSUME TypeOK, dev.task.kind = "user", NEW request \in Orders, Approved(request)
  PROVE  dev' \in Devices /\ Proper(dev'.task) /\ \E reply : Gives(reply)
<1>1. /\ request \in Requests /\ request.arg \in Args /\ Legal(request)
      /\ dev.task.kind # "fetch" /\ dev \in Devices
  BY ArgTypes, TypeParts
<1>2. ASSUME NEW typ \in {"string", "bool"}, NEW what \in {"signature", "registered", "address"},
             NEW arg \in Args, Put(Filled(request, typ, what, arg))
      PROVE  \E reply : Gives(reply)
  <2> DEFINE reply == Filled(request, typ, what, arg)
  <2>1. typ \in Types /\ what \in Contents
    BY DEF Types, Contents
  <2>2. reply \in Replies /\ reply.typ = typ /\ reply.what = what
    BY <1>1, <2>1, FilledTypes
  <2>3. Put(reply)
    BY <1>2
  <2> HIDE DEF reply
  <2>4. Gives(reply)
    BY <1>1, <2>2, <2>3, OtherGives
  <2>5. QED
    BY <2>4
<1>3. CASE /\ request.method = "sign_message" /\ dev' = [dev EXCEPT !.task = Idle]
           /\ Put(Filled(request, "string", "signature", request.arg))
  BY <1>1, <1>2, <1>3, EndsTypes
<1>4. CASE /\ request.method = "register_descriptor"
           /\ dev' = [dev EXCEPT !.task = Idle, !.wallets = @ \cup {request.arg}]
           /\ Put(Filled(request, "bool", "registered", request.arg))
  <2>1. dev' \in Devices /\ dev'.task = Idle
    BY <1>1, <1>4, ConstantTypes DEF Devices
  <2>2. QED
    BY <1>1, <1>2, <1>4, <2>1, ConstantTypes
<1>5. CASE /\ request.method = "register_multisig"
           /\ dev' = [dev EXCEPT !.task = Idle,
                                 !.multisigs = (@ \ Registered(request.arg)) \cup {request.arg}]
           /\ Put(Filled(request, "bool", "registered", request.arg))
  <2>1. request.arg \in Multisigs
    BY <1>1, <1>5 DEF Legal
  <2>2. dev' \in Devices /\ dev'.task = Idle
    BY <1>1, <1>5, <2>1, ConstantTypes DEF Devices
  <2>3. QED
    BY <1>1, <1>2, <1>5, <2>2, ConstantTypes
<1>6. CASE /\ request.method \notin {"sign_psbt", "sign_message", "register_descriptor",
                                     "register_multisig"}
           /\ dev' = [dev EXCEPT !.task = Idle]
           /\ \E shown \in IF request.by = "ByMultisig" THEN Registered(request.arg)
                           ELSE {request.arg} :
                Put(Filled(request, "string", "address", shown))
  <2>1. PICK shown \in IF request.by = "ByMultisig" THEN Registered(request.arg) ELSE {request.arg} :
          Put(Filled(request, "string", "address", shown))
    BY <1>6
  <2>2. shown \in Args
    BY <1>1, <2>1 DEF Registered, Devices, Args
  <2>3. QED
    BY <1>2, <1>6, <2>1, <2>2, EndsTypes
<1>7. QED
  BY <1>3, <1>4, <1>5, <1>6 DEF Approved

LEMMA DeclineGives ==
  ASSUME TypeOK, dev.task.kind = "user", NEW request \in Orders, Decline(request)
  PROVE  dev' \in Devices /\ Proper(dev'.task) /\ \E reply : Gives(reply)
<1>1. request \in Requests /\ dev.task.kind # "fetch" /\ dev' = [dev EXCEPT !.task = Idle]
  BY ArgTypes DEF Decline
<1>2. CASE Put(Rejection(request, "declined"))
  <2>1. Gives(Rejection(request, "declined"))
    BY <1>1, <1>2, RejectionGives DEF Contents
  <2>2. QED
    BY <1>1, <2>1, EndsTypes
<1>3. CASE Put([Reply(request, "bool") EXCEPT !.ok = FALSE, !.what = "declined"])
  <2> DEFINE reply == [Reply(request, "bool") EXCEPT !.ok = FALSE, !.what = "declined"]
  <2>1. reply \in Replies /\ reply.typ = "bool" /\ reply.what = "declined"
    BY <1>1, DeclinedTypes
  <2>2. Put(reply)
    BY <1>3
  <2> HIDE DEF reply
  <2>3. Gives(reply)
    BY <1>1, <2>1, <2>2, OtherGives
  <2>4. QED
    BY <1>1, <2>3, EndsTypes
<1>4. QED
  BY <1>2, <1>3 DEF Decline

\* A step of the device or of its user.
LEMMA DeviceGives ==
  ASSUME TypeOK, DeviceReads \/ UserDecides
  PROVE  DeviceSteps
<1>1. /\ out \in Seq(Orders) /\ dev.task.request \in Orders
  BY TypeParts DEF Tasks, Proper, Orders
<1>2. CASE DeviceReads
  <2> DEFINE request == Head(out)
  <2>1. /\ out # <<>> /\ out' = Tail(out)
        /\ DeviceIdle(request) \/ DevicePin(request) \/ DeviceFragment(request)
        /\ UNCHANGED <<browser, call, result, ids, past, calls, faults>>
    BY <1>2 DEF DeviceReads
  <2>2. request \in Orders /\ out' \in Seq(Orders)
    BY <1>1, <2>1, TailFacts
  <2> HIDE DEF request
  <2>3. CASE DeviceIdle(request)
    BY <2>1, <2>2, <2>3, IdleSteps, IdleGives DEF DeviceSteps
  <2>4. CASE DevicePin(request)
    BY <2>1, <2>2, <2>4, PinGives DEF DeviceSteps
  <2>5. CASE DeviceFragment(request)
    BY <2>1, <2>2, <2>5, FetchGives DEF DeviceSteps
  <2>6. QED
    BY <2>1, <2>3, <2>4, <2>5
<1>3. CASE UserDecides
  <2> DEFINE request == dev.task.request
  <2>1. /\ dev.task.kind = "user" /\ request \in Orders
        /\ Approve(request) \/ Decline(request)
        /\ UNCHANGED <<browser, call, result, ids, out, past, calls, faults>>
    BY <1>1, <1>3 DEF UserDecides
  <2> HIDE DEF request
  <2>2. dev' \in Devices /\ Proper(dev'.task) /\ \E reply : Gives(reply)
    BY <2>1, SignGives, ApproveSteps, ApprovedGives, DeclineGives
  <2>3. QED
    BY <1>1, <2>1, <2>2 DEF DeviceSteps
<1>4. QED
  BY <1>2, <1>3

-----------------------------------------------------------------------------
(* Type correctness.                                                       *)

HostTyped ==
  /\ call' \in Calls /\ result'.status \in Statuses /\ result'.job \in Jobs \cup {NoJob}
  /\ ids' \in Nat \ {0} /\ out' \in Seq(Orders)
  /\ past' \subseteq {"failed", "abandoned"} /\ faults' \in 0..MaxFaults

LEMMA NumberedTypes ==
  ASSUME NEW request \in Orders, NEW id \in Nat, NEW of \in Nat
  PROVE  LET r == [request EXCEPT !.id = id, !.of = of]
         IN  /\ r \in Orders /\ r.id = id /\ r.of = of /\ r.method = request.method
             /\ r.by = request.by /\ r.arg = request.arg /\ r.origid = request.origid
             /\ r.seqnum = request.seqnum
<1> DEFINE r == [request EXCEPT !.id = id, !.of = of]
<1>1. request \in Requests /\ Legal(request)
  BY DEF Orders
<1>2. /\ r \in Requests /\ r.id = id /\ r.of = of /\ r.method = request.method
      /\ r.by = request.by /\ r.arg = request.arg /\ r.origid = request.origid
      /\ r.seqnum = request.seqnum
  BY <1>1 DEF Requests
<1> HIDE DEF r
<1>3. r \in Orders
  BY <1>1, <1>2 DEF Orders, Legal
<1>4. QED
  BY <1>2, <1>3 DEF r

LEMMA SendsTypes ==
  ASSUME TypeOK, NEW request \in Orders, NEW next \in Calls, Transmit(request, next)
  PROVE  HostTyped
<1>1. /\ ids \in Nat \ {0} /\ out \in Seq(Orders) /\ faults \in 0..MaxFaults /\ MaxFaults \in Nat
      /\ past \subseteq {"failed", "abandoned"} /\ next.n \in Nat
  BY TypeParts, BoundsAssumption DEF Calls
<1>2. CASE Sends(request, next)
  <2> DEFINE r == [request EXCEPT !.id = ids, !.of = next.n]
  <2>1. r \in Orders
    BY <1>1, NumberedTypes
  <2> HIDE DEF r
  <2>2. out' = Append(out, r)
    BY <1>2 DEF Sends, r
  <2>3. out' \in Seq(Orders)
    BY <1>1, <2>1, <2>2, AppendFacts
  <2>4. call' \in Calls
    BY <1>2, EmptyFacts DEF Sends, Calls
  <2>5. QED
    BY <1>1, <1>2, <2>3, <2>4, ConstantTypes DEF Sends, HostTyped, Statuses
<1>3. CASE Breaks
  BY <1>1, <1>3, ConstantTypes DEF Breaks, HostTyped, Statuses
<1>4. QED
  BY <1>2, <1>3, TransmitSteps

LEMMA SecondTypes ==
  ASSUME TypeOK, NEW reply \in Replies
  PROVE  /\ Second(reply) \in Calls /\ Further(reply) \in Calls
         /\ ExtendedDataRequest(call.job, reply.id, 2, reply.seqlen) \in Orders
         /\ ExtendedDataRequest(call.job, call.origid, call.next + 1, call.seqlen) \in Orders
<1>1. /\ call \in Calls /\ call.chunks \in Seq(Parts) /\ call.origid \in Nat /\ call.next \in Nat
      /\ call.seqlen \in Nat /\ call.job \in Jobs \cup {NoJob}
  BY TypeParts DEF Calls
<1>2. reply.id \in Nat /\ reply.seqlen \in Nat /\ reply.data \in Seq(Parts)
  BY DEF Replies
<1>3. Second(reply) \in Calls
  BY <1>1, <1>2 DEF Second, Calls, States
<1>4. Further(reply) \in Calls
  <2> DEFINE chunks == call.chunks \o reply.data
             next == call.next + 1
  <2>1. chunks \in Seq(Parts) /\ next \in Nat
    BY <1>1, <1>2, ConcatFacts
  <2> HIDE DEF chunks, next
  <2>2. [call EXCEPT !.next = next, !.chunks = chunks] \in Calls
    BY <1>1, <2>1 DEF Calls
  <2>3. QED
    BY <2>2 DEF Further, chunks, next
<1>5. ExtendedDataRequest(call.job, reply.id, 2, reply.seqlen) \in Orders
  BY <1>1, <1>2, ExtendedDataTypes
<1>6. call.next + 1 \in Nat
  BY <1>1
<1>7. ExtendedDataRequest(call.job, call.origid, call.next + 1, call.seqlen) \in Orders
  BY <1>1, <1>6, ExtendedDataTypes
<1>8. QED
  BY <1>3, <1>4, <1>5, <1>7

LEMMA ReplyHostTypes ==
  ASSUME TypeOK, NEW reply \in Replies, ReplySteps(reply)
  PROVE  HostTyped
<1>1. /\ ids \in Nat \ {0} /\ out \in Seq(Orders) /\ faults \in 0..MaxFaults
      /\ past \subseteq {"failed", "abandoned"} /\ call \in Calls /\ call.job \in Jobs \cup {NoJob}
      /\ result.status \in Statuses /\ result.job \in Jobs \cup {NoJob}
  BY TypeParts DEF Calls
<1>2. ASSUME NEW what, Fails(what) PROVE HostTyped
  BY <1>1, <1>2, ConstantTypes DEF Fails, HostTyped, Statuses
<1>3. ASSUME NEW of, NEW what, NEW arg, NEW data, Succeeds(of, what, arg, data) PROVE HostTyped
  BY <1>1, <1>3, ConstantTypes DEF Succeeds, HostTyped, Statuses
<1>4. CASE SendsSecond(reply)
  BY <1>4, SecondTypes, SendsTypes DEF SendsSecond
<1>5. CASE SendsFurther(reply)
  BY <1>5, SecondTypes, SendsTypes DEF SendsFurther
<1>6. CASE SendsAddress(reply)
  <2> DEFINE next == [call EXCEPT !.wants = "get_receive_address"]
             request == Request("get_receive_address", call.job)
  <2>1. "get_receive_address" \in Methods /\ "get_receive_address" \in Wanted
    BY DEF Methods, Wanted
  <2>2. next \in Calls
    BY <1>1, <2>1 DEF Calls
  <2>3. request \in Orders
    BY <1>1, <2>1, OrderTypes
  <2> HIDE DEF next, request
  <2>4. Transmit(request, next)
    BY <1>6 DEF SendsAddress, next, request
  <2>5. QED
    BY <2>2, <2>3, <2>4, SendsTypes
<1>7. CASE AsksServer(reply)
  <2>1. call' \in Calls
    BY <1>1, <1>7, EmptyFacts DEF AsksServer, Calls, States
  <2>2. QED
    BY <1>1, <1>7, <2>1 DEF AsksServer, HostTyped
<1>8. QED
  BY <1>2, <1>3, <1>4, <1>5, <1>6, <1>7 DEF ReplySteps

LEMMA StreamFromTypes ==
  ASSUME TypeOK, NEW n \in 0..Len(Stream)
  PROVE  /\ StreamFrom(n) \in Seq(Pieces) /\ Len(StreamFrom(n)) = Len(Stream) - n
         /\ \A j \in 1..Len(StreamFrom(n)) :
              n + j \in 1..Len(Stream) /\ StreamFrom(n)[j] = Stream[n + j]
<1>1. Stream \in Seq(Pieces) /\ Len(Stream) \in Nat /\ n \in Nat /\ n <= Len(Stream)
  BY StreamTypes
<1> DEFINE len == Len(Stream)
<1>2. len \in Nat /\ len = Len(Stream)
  BY <1>1
<1> HIDE DEF len
<1>3. /\ SubSeq(Stream, n + 1, len) \in Seq(Pieces) /\ Len(SubSeq(Stream, n + 1, len)) = len - n
      /\ \A j \in 1..(len - n) : n + j \in 1..len /\ SubSeq(Stream, n + 1, len)[j] = Stream[n + j]
  BY <1>1, <1>2, PieceFacts
<1>4. QED
  BY <1>2, <1>3 DEF StreamFrom

LEMMA ReadTypes ==
  ASSUME TypeOK, ReadSteps
  PROVE  TypeOK'
<1>1. /\ ids \in Nat \ {0} /\ out \in Seq(Orders) /\ faults \in 0..MaxFaults
      /\ past \subseteq {"failed", "abandoned"} /\ call \in Calls
      /\ result.status \in Statuses /\ result.job \in Jobs \cup {NoJob}
      /\ browser' \in Browsers /\ dev' \in Devices /\ Proper(dev'.task) /\ calls' \in 0..MaxCalls
  BY TypeParts DEF ReadSteps
<1>2. CASE Keeps
  <2>1. call' \in Calls
    BY <1>1, <1>2 DEF Keeps, Calls
  <2>2. QED
    BY <1>1, <1>2, <2>1, TypePartsNext DEF Keeps
<1>3. CASE Discards
  <2>1. in' \in Seq(Pieces)
    BY <1>3, StreamFromTypes DEF Discards
  <2>2. HostTyped
    BY <1>1, <1>3, ConstantTypes DEF Discards, Fails, HostTyped, Statuses
  <2>3. QED
    BY <1>1, <2>1, <2>2, TypePartsNext DEF HostTyped
<1>4. ASSUME NEW reply, Takes(reply) PROVE TypeOK'
  <2>1. 2 \in 0..Len(Stream)
    BY <1>4, StreamTypes DEF Takes
  <2>2. in' \in Seq(Pieces)
    BY <1>4, <2>1, StreamFromTypes DEF Takes
  <2>3. HostTyped
    BY <1>4, ReplyHostTypes DEF Takes
  <2>4. QED
    BY <1>1, <2>2, <2>3, TypePartsNext DEF HostTyped
<1>5. QED
  BY <1>2, <1>3, <1>4 DEF ReadSteps

\* A call that starts: the request it sends, or its rejection.
Fresh(job) ==
  [NoCall EXCEPT !.st = "Running", !.n = calls + 1, !.job = job, !.wants = MethodOf(job.cmd)]

LEMMA FreshTypes ==
  ASSUME TypeOK, NEW job \in Jobs, calls < MaxCalls
  PROVE  /\ Fresh(job) \in Calls /\ Fresh(job).st = "Running" /\ Fresh(job).n = calls + 1
         /\ Fresh(job).job = job /\ Fresh(job).wants = MethodOf(job.cmd)
         /\ MethodOf(job.cmd) \in Methods /\ Request(MethodOf(job.cmd), job) \in Orders
<1> DEFINE method == MethodOf(job.cmd)
           n == calls + 1
<1>1. method \in Methods /\ method \notin {"pin", "get_extended_data"}
  BY DEF MethodOf, Methods
<1>2. method \in Wanted
  BY <1>1 DEF Wanted
<1>3. n \in Nat
  BY TypeParts, BoundsAssumption
<1>4. Request(method, job) \in Orders
  <2>1. method = "sign_psbt" => job.cmd = "SignTx"
    BY DEF MethodOf
  <2>2. method = "register_multisig" => job.cmd = "ByMultisig"
    BY DEF MethodOf
  <2> HIDE DEF method
  <2>3. QED
    BY <1>1, <2>1, <2>2, OrderTypes
<1> HIDE DEF method, n
<1>5. Fresh(job) = [NoCall EXCEPT !.st = "Running", !.n = n, !.job = job, !.wants = method]
  BY DEF Fresh, method, n
<1>6. /\ Fresh(job) \in Calls /\ Fresh(job).st = "Running" /\ Fresh(job).n = n
      /\ Fresh(job).job = job /\ Fresh(job).wants = method
  BY <1>2, <1>3, <1>5, ConstantTypes, ZenonT(60) DEF Calls, States
<1>7. QED
  BY <1>1, <1>4, <1>6 DEF method, n

LEMMA StartTypes ==
  ASSUME TypeOK, NEW job \in Jobs, StartCall(job)
  PROVE  TypeOK'
<1>1. /\ ids \in Nat \ {0} /\ out \in Seq(Orders) /\ faults \in 0..MaxFaults
      /\ past \subseteq {"failed", "abandoned"} /\ call \in Calls
      /\ browser' \in Browsers /\ dev' \in Devices /\ Proper(dev'.task) /\ in' \in Seq(Pieces)
      /\ calls < MaxCalls /\ calls' = calls + 1 /\ calls' \in 0..MaxCalls
  BY TypeParts, BoundsAssumption DEF StartCall
<1>2. CASE Rejected(job)
  <2>1. HostTyped
    BY <1>1, <1>2, ConstantTypes DEF StartCall, HostTyped, Statuses, NoResult
  <2>2. QED
    BY <1>1, <2>1, TypePartsNext DEF HostTyped
<1>3. CASE ~Rejected(job)
  <2>1. Transmit(Request(MethodOf(job.cmd), job), Fresh(job))
    BY <1>3 DEF StartCall, Fresh
  <2>2. HostTyped
    BY <1>1, <2>1, FreshTypes, SendsTypes
  <2>3. QED
    BY <1>1, <2>2, TypePartsNext DEF HostTyped
<1>4. QED
  BY <1>2, <1>3

\* A call that is given up: with it, what it has read.
GivesUp ==
  /\ faults < MaxFaults /\ faults' = faults + 1 /\ past' = past \cup {"abandoned"}
  /\ call' = NoCall /\ result'.status # "ok" /\ result'.status \in Statuses /\ result'.job = NoJob
  /\ ids' \in Nat \ {0} /\ in' \in {in, <<>>}
  /\ UNCHANGED <<browser, out, dev, calls>>

LEMMA GivesUpSteps ==
  ASSUME TypeOK, QuietEarly \/ ReadPanics \/ Abandon \/ Restart
  PROVE  GivesUp
<1>1. ids \in Nat \ {0} /\ 1 \in Nat \ {0}
  BY TypeParts
<1>2. CASE QuietEarly
  BY <1>1, <1>2 DEF QuietEarly, GivesUp, NoResult, Statuses
<1>3. CASE ReadPanics
  BY <1>1, <1>3 DEF ReadPanics, GivesUp, NoResult, Statuses
<1>4. CASE Abandon
  BY <1>1, <1>4 DEF Abandon, GivesUp, NoResult, Statuses
<1>5. CASE Restart
  BY <1>1, <1>5 DEF Restart, GivesUp, NoResult, Statuses
<1>6. QED
  BY <1>2, <1>3, <1>4, <1>5

LEMMA GivesUpTypes ==
  ASSUME TypeOK, GivesUp
  PROVE  TypeOK'
<1>1. /\ out \in Seq(Orders) /\ faults \in 0..MaxFaults /\ MaxFaults \in Nat
      /\ past \subseteq {"failed", "abandoned"} /\ browser' \in Browsers
      /\ dev' \in Devices /\ Proper(dev'.task) /\ calls' \in 0..MaxCalls
  BY TypeParts, BoundsAssumption DEF GivesUp
<1>2. in' \in Seq(Pieces)
  BY TypeParts, EmptyFacts DEF GivesUp
<1>3. faults' \in 0..MaxFaults /\ past' \subseteq {"failed", "abandoned"}
  BY <1>1 DEF GivesUp
<1>4. QED
  BY <1>1, <1>2, <1>3, ConstantTypes, TypePartsNext DEF GivesUp

LEMMA ServerTypes ==
  ASSUME TypeOK, OnPinServer
  PROVE  TypeOK'
<1>1. /\ ids \in Nat \ {0} /\ out \in Seq(Orders) /\ faults \in 0..MaxFaults /\ MaxFaults \in Nat
      /\ past \subseteq {"failed", "abandoned"} /\ call \in Calls /\ call.job \in Jobs \cup {NoJob}
      /\ browser' \in Browsers /\ dev' \in Devices /\ Proper(dev'.task) /\ in' \in Seq(Pieces)
      /\ calls' \in 0..MaxCalls
  BY TypeParts, BoundsAssumption DEF OnPinServer, Calls
<1>2. CASE Transmit(Request("pin", call.job), [call EXCEPT !.st = "WaitingFinalHandshake"])
  <2> DEFINE next == [call EXCEPT !.st = "WaitingFinalHandshake"]
             request == Request("pin", call.job)
  <2>1. next \in Calls
    BY <1>1 DEF Calls, States
  <2>2. "pin" \in Methods
    BY DEF Methods
  <2>3. request \in Orders
    BY <1>1, <2>2, OrderTypes
  <2> HIDE DEF next, request
  <2>4. Transmit(request, next)
    BY <1>2 DEF next, request
  <2>5. HostTyped
    BY <2>1, <2>3, <2>4, SendsTypes
  <2>6. QED
    BY <1>1, <2>5, TypePartsNext DEF HostTyped
<1>3. CASE /\ faults < MaxFaults /\ faults' = faults + 1 /\ past' = past \cup {"failed"}
           /\ call' = NoCall /\ result' = [NoResult EXCEPT !.status = "err", !.why = "http"]
           /\ UNCHANGED <<ids, out>>
  <2>1. HostTyped
    BY <1>1, <1>3, ConstantTypes DEF HostTyped, Statuses, NoResult
  <2>2. QED
    BY <1>1, <2>1, TypePartsNext DEF HostTyped
<1>4. QED
  BY <1>2, <1>3 DEF OnPinServer

LEMMA PutTypes ==
  ASSUME TypeOK, NEW reply \in Replies, Put(reply)
  PROVE  in' = in \o Whole(reply) /\ in' \in Seq(Pieces)
<1>1. in' = in \o Whole(reply)
  BY DEF Put, Whole
<1>2. in \in Seq(Pieces) /\ Whole(reply) \in Seq(Pieces)
  BY TypeParts, WholeFacts
<1>3. QED
  BY <1>1, <1>2, ConcatFacts

LEMMA DeviceTypes ==
  ASSUME TypeOK, DeviceSteps
  PROVE  TypeOK'
<1>1. in' \in Seq(Pieces)
  BY TypeParts, PutTypes DEF DeviceSteps, Gives
<1>2. QED
  BY <1>1, TypeParts, TypePartsNext DEF DeviceSteps

\* The steps of a client, by what they do.
LEMMA NextSteps ==
  ASSUME TypeOK, Next
  PROVE  \/ \E job \in Jobs : StartCall(job)
         \/ ReadSteps \/ GivesUp \/ OnPinServer
         \/ DeviceSteps /\ (DeviceReads \/ UserDecides)
<1>1. CASE HostNext
  BY <1>1, ReadReads, GatherReads, QuietReads, GivesUpSteps DEF HostNext
<1>2. CASE DeviceReads \/ UserDecides
  BY <1>2, DeviceGives
<1>3. QED
  BY <1>1, <1>2 DEF Next

LEMMA TypeNext ==
  ASSUME TypeOK, [Next]_vars
  PROVE  TypeOK'
<1>1. CASE Next
  BY <1>1, NextSteps, StartTypes, ReadTypes, GivesUpTypes, ServerTypes, DeviceTypes
<1>2. CASE UNCHANGED vars
  BY <1>2 DEF vars, TypeOK
<1>3. QED
  BY <1>1, <1>2

LEMMA TypeInit ==
  ASSUME Init
  PROVE  TypeOK
<1>1. /\ <<>> \in Seq(Requests) /\ <<>> \in Seq(Pieces) /\ DOMAIN <<>> = {}
  BY EmptyFacts
<1>2. call \in Calls
  BY ConstantTypes DEF Init
<1>3. dev \in Devices /\ dev.task = Idle
  <2>1. NewDevice \in Devices /\ NewDevice.task = Idle
    BY ConstantTypes DEF NewDevice
  <2>2. /\ [NewDevice EXCEPT !.unlocked = TRUE] \in Devices
        /\ [NewDevice EXCEPT !.unlocked = TRUE].task = Idle
    BY <2>1 DEF Devices
  <2>3. QED
    BY <2>1, <2>2 DEF Init
<1>4. Proper(dev.task) /\ dev.task.kind = "idle"
  BY <1>3, ConstantTypes
<1>5. calls \in 0..MaxCalls /\ faults \in 0..MaxFaults
  BY BoundsAssumption DEF Init
<1>6. QED
  BY <1>1, <1>2, <1>3, <1>4, <1>5 DEF Init, TypeOK, Calls, Devices, Tasks, Proper, NoResult

\* Every state of a client, its stream and its device is well formed: what a device asks its
\* user is something to confirm, and the next fragment it waits to be asked for is one that
\* its PSBT has.
THEOREM TypeCorrect == Spec => []TypeOK
<1>1. Init => TypeOK
  BY TypeInit
<1>2. TypeOK /\ [Next]_vars => TypeOK'
  BY TypeNext
<1>3. QED
  BY <1>1, <1>2, PTL DEF Spec

-----------------------------------------------------------------------------
(* Signed PSBTs are whole: the chain of the replies.                       *)

LEMMA ChainShrinks ==
  ASSUME TypeOK, Chain(Stream), LastOf(Stream), NEW n \in 0..Len(Stream), Stream' = StreamFrom(n),
         UNCHANGED dev
  PROVE  Chain(Stream)' /\ LastOf(Stream)'
<1> DEFINE q == StreamFrom(n)
           len == Len(Stream)
<1>1. /\ q \in Seq(Pieces) /\ Len(q) = len - n /\ len \in Nat /\ n \in Nat /\ n <= len
      /\ Stream \in Seq(Pieces)
      /\ \A j \in 1..Len(q) : n + j \in 1..len /\ q[j] = Stream[n + j]
  <2>1. Stream \in Seq(Pieces) /\ len \in Nat
    BY StreamTypes
  <2>2. n \in Nat /\ n <= len
    BY <2>1
  <2>3. /\ q \in Seq(Pieces) /\ Len(q) = len - n
        /\ \A j \in 1..Len(q) : n + j \in 1..len /\ q[j] = Stream[n + j]
    BY StreamFromTypes
  <2>4. QED
    BY <2>1, <2>2, <2>3
<1> HIDE DEF q
<1>2. ASSUME NEW j \in 1..Len(q) PROVE Genuine(q[j][1])
  BY <1>1 DEF Chain
<1>3. ASSUME NEW j \in 1..Len(q), j < Len(q) PROVE Linked(q[j], q[j + 1])
  <2>1. j + 1 \in 1..Len(q) /\ n + (j + 1) = (n + j) + 1 /\ n + j < len
    BY <1>1, <1>3
  <2>2. q[j] = Stream[n + j] /\ q[j + 1] = Stream[(n + j) + 1] /\ n + j \in 1..len
    BY <1>1, <2>1
  <2>3. QED
    BY <2>1, <2>2 DEF Chain
<1>4. Chain(q)
  BY <1>2, <1>3 DEF Chain
<1>5. ASSUME q # <<>> PROVE Stream # <<>> /\ q[Len(q)] = Stream[len]
  <2>1. Len(q) \in Nat /\ Len(q) > 0
    BY <1>1, <1>5, TailFacts
  <2>2. Len(q) \in 1..Len(q) /\ n + Len(q) = len /\ len > 0
    BY <1>1, <2>1
  <2>3. q[Len(q)] = Stream[len]
    BY <1>1, <2>2
  <2>4. Stream # <<>>
    BY <2>2
  <2>5. QED
    BY <2>3, <2>4
<1>6. Stream' = q
  BY DEF q
<1>7. Chain(Stream)'
  <2>1. Chain(Stream') <=> Chain(Stream)'
    BY DEF Chain
  <2>2. QED
    BY <1>4, <1>6, <2>1
<1>8. LastOf(Stream)'
  BY <1>5, <1>6 DEF LastOf, Fetching
<1>9. QED
  BY <1>7, <1>8

\* The device's last reply and the one before it.
LEMMA ChainGrows ==
  ASSUME TypeOK, Chain(Stream), LastOf(Stream), NEW reply, Gives(reply), UNCHANGED call
  PROVE  /\ Chain(Stream)' /\ LastOf(Stream)' /\ Stream' # <<>>
         /\ Stream = <<>> => Stream'[1] = <<reply, "head">>
         /\ Stream # <<>> => Stream'[1] = Stream[1]
<1> DEFINE q == Stream \o Whole(reply)
           n == Len(Stream)
<1>1. reply \in Replies /\ Put(reply) /\ Genuine(reply)
  BY DEF Gives
<1>2. /\ Whole(reply) \in Seq(Pieces) /\ Len(Whole(reply)) = 2
      /\ Whole(reply)[1] = <<reply, "head">> /\ Whole(reply)[2] = <<reply, "rest">>
  BY <1>1, WholeFacts
<1>3. Stream \in Seq(Pieces) /\ n \in Nat /\ call.buf \in Seq(Pieces) /\ in \in Seq(Pieces)
  BY StreamTypes
<1>4. Stream' = q
  <2>1. in' = in \o Whole(reply)
    BY <1>1, PutTypes
  <2>2. Stream' = call.buf \o (in \o Whole(reply))
    BY <2>1 DEF Stream
  <2>3. \A a \in Seq(Pieces), b \in Seq(Pieces), c \in Seq(Pieces) : a \o (b \o c) = (a \o b) \o c
    BY JoinFacts
  <2>4. QED
    BY <1>2, <1>3, <2>2, <2>3, ZenonT(60) DEF Stream
<1>5. /\ q \in Seq(Pieces) /\ Len(q) = n + 2
      /\ \A j \in 1..n : q[j] = Stream[j]
      /\ q[n + 1] = <<reply, "head">> /\ q[n + 2] = <<reply, "rest">>
  <2> DEFINE w == Whole(reply)
  <2>1. w \in Seq(Pieces) /\ Len(w) = 2 /\ 1 \in 1..Len(w) /\ 2 \in 1..Len(w)
    BY <1>2
  <2> HIDE DEF w
  <2>2. /\ Stream \o w \in Seq(Pieces) /\ Len(Stream \o w) = n + 2
        /\ \A j \in 1..n : (Stream \o w)[j] = Stream[j]
        /\ (Stream \o w)[n + 1] = w[1] /\ (Stream \o w)[n + 2] = w[2]
    BY <1>3, <2>1, ConcatFacts, SMTT(60)
  <2>3. QED
    BY <1>2, <2>2 DEF w
<1> HIDE DEF q
<1>6. ASSUME NEW j \in 1..Len(q) PROVE Genuine(q[j][1])
  <2>1. j \in 1..n \/ j = n + 1 \/ j = n + 2
    BY <1>3, <1>5
  <2>2. q[n + 1][1] = reply /\ q[n + 2][1] = reply
    BY <1>5
  <2>3. QED
    BY <1>1, <1>5, <2>1, <2>2 DEF Chain
<1>7. ASSUME NEW j \in 1..Len(q), j < Len(q) PROVE Linked(q[j], q[j + 1])
  <2>1. CASE j < n
    <3>1. j \in 1..n /\ j + 1 \in 1..n
      BY <1>3, <1>7, <2>1
    <3>2. q[j] = Stream[j] /\ q[j + 1] = Stream[j + 1]
      BY <1>5, <3>1
    <3>3. QED
      BY <2>1, <3>1, <3>2 DEF Chain
  <2>2. CASE j = n
    <3>1. n \in 1..n /\ Stream # <<>>
      BY <1>3, <2>2
    <3>2. q[n] = Stream[n] /\ q[n + 1] = <<reply, "head">>
      BY <1>5, <3>1
    <3> DEFINE last == Stream[n]
    <3>3. /\ last[2] = "rest"
          /\ Unfinished(last[1]) => Fetching(last[1].arg, last[1].seqnum + 1)
      BY <3>1 DEF LastOf
    <3>4. Unfinished(last[1]) => Follows(reply, last[1].arg, last[1].seqnum + 1)
      BY <3>3 DEF Fetching, Gives
    <3> HIDE DEF last
    <3>5. Linked(last, <<reply, "head">>)
      BY <3>3, <3>4 DEF Linked
    <3>6. QED
      BY <2>2, <3>2, <3>5 DEF last
  <2>3. CASE j = n + 1
    <3>1. q[j] = <<reply, "head">> /\ q[j + 1] = <<reply, "rest">>
      <4>1. j + 1 = n + 2
        BY <1>3, <2>3
      <4>2. QED
        BY <1>5, <2>3, <4>1
    <3>2. QED
      BY <3>1 DEF Linked
  <2>4. j < n \/ j = n \/ j = n + 1
    BY <1>3, <1>5, <1>7
  <2>5. QED
    BY <2>1, <2>2, <2>3, <2>4
<1>8. Chain(q)
  BY <1>6, <1>7 DEF Chain
<1>9. Chain(Stream)'
  <2>1. Chain(Stream') <=> Chain(Stream)'
    BY DEF Chain
  <2>2. QED
    BY <1>4, <1>8, <2>1
<1>10. LastOf(Stream)'
  <2>1. q[Len(q)] = <<reply, "rest">>
    BY <1>5
  <2>2. Unfinished(reply) => Fetching(reply.arg, reply.seqnum + 1)'
    BY DEF Gives, Fetching
  <2>3. QED
    BY <1>4, <2>1, <2>2 DEF LastOf
<1>11. Stream' # <<>>
  BY <1>3, <1>4, <1>5
<1>12. ASSUME Stream = <<>> PROVE Stream'[1] = <<reply, "head">>
  <2>1. n + 1 = 1
    BY <1>12
  <2>2. QED
    BY <1>4, <1>5, <2>1
<1>13. ASSUME Stream # <<>> PROVE Stream'[1] = Stream[1]
  <2>1. 1 \in 1..n
    BY <1>3, <1>13, TailFacts
  <2>2. QED
    BY <1>4, <1>5, <2>1
<1>14. QED
  BY <1>9, <1>10, <1>11, <1>12, <1>13

\* A fragment more.
LEMMA OneMore ==
  ASSUME NEW psbt \in Psbts, NEW n \in 1..Fragments[psbt]
  PROVE  SubSeq(Content(psbt), 1, n - 1) \o <<<<psbt, n>>>> = SubSeq(Content(psbt), 1, n)
<1> DEFINE all == Content(psbt)
           m == n - 1
           one == <<<<psbt, n>>>>
           piece == SubSeq(all, m + 1, n)
<1>1. /\ all \in Seq(Parts) /\ Len(all) \in Nat /\ n \in Nat /\ m \in Nat /\ m <= n /\ n <= Len(all)
      /\ m + 1 = n /\ n - m = 1 /\ all[n] = <<psbt, n>> /\ <<psbt, n>> \in Parts
  BY FragmentTypes
<1> HIDE DEF all, m
<1>2. piece \in Seq(Parts) /\ Len(piece) = 1 /\ piece[1] = <<psbt, n>>
  <2>1. /\ piece \in Seq(Parts) /\ Len(piece) = n - m
        /\ \A j \in 1..(n - m) : piece[j] = all[m + j]
    BY <1>1, PieceFacts
  <2>2. 1 \in 1..(n - m)
    BY <1>1
  <2>3. QED
    BY <1>1, <2>1, <2>2
<1> HIDE DEF piece
<1>3. one \in Seq(Parts) /\ Len(one) = 1 /\ one[1] = <<psbt, n>>
  BY <1>1
<1> HIDE DEF one
<1>4. piece = one
  BY <1>2, <1>3, EqualFacts
<1>5. SubSeq(all, 1, m) \o piece = SubSeq(all, 1, n)
  BY <1>1, PiecesFacts DEF piece
<1>6. SubSeq(all, 1, m) \o one = SubSeq(all, 1, n)
  BY <1>4, <1>5
<1>7. QED
  BY <1>6 DEF all, m, one

\* A step that drops the beginning of the stream, by a call that gathers nothing then.
LEMMA DropsSequel ==
  ASSUME TypeOK, Sequel, NEW n \in 0..Len(Stream), Stream' = StreamFrom(n), UNCHANGED dev,
         call'.st # "GettingExtendedData", SignedWhole'
  PROVE  Sequel'
<1>1. Chain(Stream)' /\ LastOf(Stream)'
  BY ChainShrinks DEF Sequel
<1>2. Gathers(Stream)'
  BY DEF Gathers
<1>3. QED
  BY <1>1, <1>2 DEF Sequel

LEMMA NewStream ==
  ASSUME TypeOK, call'.buf = <<>>, in' \in Seq(Pieces)
  PROVE  Stream' = in'
  BY DEF Stream

\* What comes behind a reply that has been taken.
LEMMA Taken ==
  ASSUME TypeOK, Sequel, NEW reply \in Replies, Len(Stream) >= 2, Stream[1] = <<reply, "head">>
  PROVE  /\ 2 \in 0..Len(Stream) /\ Genuine(reply)
         /\ Stream[2] = <<reply, "rest">>
         /\ Unfinished(reply) =>
              IF StreamFrom(2) = <<>> THEN Fetching(reply.arg, reply.seqnum + 1)
              ELSE /\ StreamFrom(2)[1][2] = "head"
                   /\ Follows(StreamFrom(2)[1][1], reply.arg, reply.seqnum + 1)
<1> DEFINE n == Len(Stream)
<1>1. Stream \in Seq(Pieces) /\ n \in Nat /\ n >= 2
  BY StreamTypes
<1>2. 1 \in 1..n /\ 2 \in 1..n /\ 1 < n /\ 2 \in 0..n
  BY <1>1
<1>3. Genuine(reply)
  BY <1>2 DEF Sequel, Chain
<1>4. Linked(Stream[1], Stream[2])
  BY <1>2, SMTT(60) DEF Sequel, Chain
<1>5. Stream[2] = <<reply, "rest">>
  BY <1>4 DEF Linked
<1>6. ASSUME Unfinished(reply), StreamFrom(2) = <<>> PROVE Fetching(reply.arg, reply.seqnum + 1)
  <2>1. n = 2
    <3>1. Len(StreamFrom(2)) = n - 2 /\ Len(StreamFrom(2)) = 0
      BY <1>2, <1>6, StreamFromTypes, EmptyFacts
    <3>2. QED
      BY <1>1, <3>1
  <2>2. Stream[n] = <<reply, "rest">> /\ Stream # <<>>
    BY <1>1, <1>5, <2>1
  <2>3. QED
    BY <1>6, <2>2 DEF Sequel, LastOf
<1>7. ASSUME Unfinished(reply), StreamFrom(2) # <<>>
      PROVE  /\ StreamFrom(2)[1][2] = "head"
             /\ Follows(StreamFrom(2)[1][1], reply.arg, reply.seqnum + 1)
  <2> DEFINE q == StreamFrom(2)
  <2>1. q \in Seq(Pieces) /\ Len(q) = n - 2 /\ Len(q) > 0
    BY <1>2, <1>7, StreamFromTypes, TailFacts
  <2>2. 1 \in 1..Len(q) /\ 2 + 1 = 3 /\ n >= 3
    BY <1>1, <2>1
  <2>3. q[1] = Stream[3]
    BY <1>2, <2>2, StreamFromTypes
  <2>4. Linked(Stream[2], Stream[3])
    <3>1. 2 \in 1..n /\ 2 < n /\ 2 + 1 = 3
      BY <1>1, <2>2
    <3>2. QED
      BY <3>1 DEF Sequel, Chain
  <2>5. QED
    BY <1>5, <1>7, <2>3, <2>4 DEF Linked
<1>8. QED
  BY <1>2, <1>3, <1>5, <1>6, <1>7

\* The fragments that complete a PSBT are all of its fragments.
LEMMA CompletesWhole ==
  ASSUME TypeOK, Sequel, Reading, NEW reply \in Replies, Len(Stream) >= 2,
         Stream[1] = <<reply, "head">>, NEW data, Completes(reply, data)
  PROVE  reply.arg \in Psbts /\ data = Content(reply.arg) /\ ~Unfinished(reply)
<1> DEFINE psbt == reply.arg
           count == Fragments[psbt]
<1>1. Genuine(reply) /\ reply.typ = "bytes"
  BY Taken DEF Completes
<1>2. /\ psbt \in Psbts /\ count \in Nat /\ count > 0
      /\ Content(psbt) \in Seq(Parts) /\ Len(Content(psbt)) = count
      /\ \A n \in 1..count : Content(psbt)[n] = <<psbt, n>>
  BY <1>1, FragmentTypes DEF Genuine
<1>3. CASE /\ call.st = "Running" /\ call.wants = "sign_psbt"
           /\ reply.seqnum \in {0, 1} /\ reply.seqlen <= 1 /\ data = reply.data
  <2>1. count = 1 /\ data = <<<<psbt, 1>>>>
    BY <1>1, <1>2, <1>3 DEF Genuine
  <2>2. Content(psbt) = <<<<psbt, 1>>>>
    <3> DEFINE all == Content(psbt)
               one == <<<<psbt, 1>>>>
    <3>1. all \in Seq(Parts) /\ all[1] = <<psbt, 1>> /\ Len(all) = 1
      BY <1>2, <2>1
    <3>2. <<psbt, 1>> \in Parts
      BY <1>2, <2>1, FragmentTypes
    <3>3. one \in Seq(Parts) /\ one[1] = <<psbt, 1>> /\ Len(one) = 1
      BY <3>2
    <3> HIDE DEF all, one
    <3>4. all = one
      BY <3>1, <3>3, EqualFacts
    <3>5. QED
      BY <3>4 DEF all, one
  <2>3. ~Unfinished(reply)
    BY <1>1, <1>3, <2>1 DEF Genuine, Unfinished
  <2>4. QED
    BY <1>2, <2>1, <2>2, <2>3
<1>4. CASE /\ call.st = "GettingExtendedData" /\ data = call.chunks \o reply.data
           /\ \/ reply.seqnum = 0 /\ call.next >= call.seqlen
              \/ reply.seqnum = call.next /\ reply.seqnum >= call.seqlen
  <2>1. PICK p \in Psbts : GathersOf(p, Stream)
    BY <1>4 DEF Sequel, Gathers
  <2>2. p = psbt /\ reply.seqnum = call.next
    <3>1. Stream # <<>>
      BY StreamTypes
    <3>2. Stream[1][1] = reply
      OBVIOUS
    <3>3. Follows(reply, p, call.next)
      BY <2>1, <3>1, <3>2, SMTT(60) DEF GathersOf
    <3>4. QED
      BY <1>1, <3>3 DEF Follows
  <2>3. /\ call.next \in 2..count /\ call.seqlen = count
        /\ call.chunks = SubSeq(Content(psbt), 1, call.next - 1)
    BY <2>1, <2>2, SMTT(60) DEF GathersOf
  <2>4. call.next = count /\ reply.data = <<<<psbt, count>>>>
    BY <1>1, <1>2, <1>4, <2>2, <2>3, SMTT(60) DEF Genuine
  <2>5. data = SubSeq(Content(psbt), 1, count)
    <3>1. count \in 1..Fragments[psbt]
      BY <1>2
    <3>2. SubSeq(Content(psbt), 1, count - 1) \o <<<<psbt, count>>>> = SubSeq(Content(psbt), 1, count)
      BY <1>2, <3>1, OneMore
    <3>3. data = SubSeq(Content(psbt), 1, count - 1) \o <<<<psbt, count>>>>
      BY <1>4, <2>3, <2>4
    <3>4. QED
      BY <3>2, <3>3
  <2>6. ~Unfinished(reply)
    BY <1>1, <1>2, <2>2, <2>4 DEF Genuine, Unfinished
  <2>7. QED
    BY <1>2, <2>5, <2>6, PiecesFacts
<1>5. QED
  BY <1>3, <1>4 DEF Completes

LEMMA NoResultWhole ==
  ASSUME result'.status # "ok"
  PROVE  SignedWhole'
  BY DEF SignedWhole

LEMMA SecondFields ==
  ASSUME TypeOK, NEW reply \in Replies
  PROVE  /\ Second(reply).st = "GettingExtendedData" /\ Second(reply).next = 2
         /\ Second(reply).seqlen = reply.seqlen /\ Second(reply).chunks = reply.data
         /\ Second(reply).n = call.n /\ Second(reply).job = call.job
         /\ Second(reply).origid = reply.id /\ Second(reply).wants = call.wants
         /\ Further(reply).st = call.st /\ Further(reply).next = call.next + 1
         /\ Further(reply).seqlen = call.seqlen
         /\ Further(reply).chunks = call.chunks \o reply.data
         /\ Further(reply).n = call.n /\ Further(reply).job = call.job
         /\ Further(reply).origid = call.origid /\ Further(reply).wants = call.wants
<1>1. call \in Calls
  BY TypeParts
<1>2. /\ Second(reply).st = "GettingExtendedData" /\ Second(reply).next = 2
      /\ Second(reply).seqlen = reply.seqlen /\ Second(reply).chunks = reply.data
      /\ Second(reply).n = call.n /\ Second(reply).job = call.job
      /\ Second(reply).origid = reply.id /\ Second(reply).wants = call.wants
  BY <1>1 DEF Second, Calls
<1> DEFINE next == call.next + 1
           chunks == call.chunks \o reply.data
           further == [call EXCEPT !.next = next, !.chunks = chunks]
<1>3. further = Further(reply)
  BY DEF Further
<1> HIDE DEF next, chunks
<1>4. /\ further.st = call.st /\ further.next = next /\ further.seqlen = call.seqlen
      /\ further.chunks = chunks /\ further.n = call.n /\ further.job = call.job
      /\ further.origid = call.origid /\ further.wants = call.wants
  BY <1>1 DEF Calls
<1>5. QED
  BY <1>2, <1>3, <1>4 DEF next, chunks

\* A call that has sent a request, and the call it was.
LEMMA SendsFields ==
  ASSUME NEW request, NEW next \in Calls, Sends(request, next)
  PROVE  /\ call'.st = next.st /\ call'.next = next.next /\ call'.seqlen = next.seqlen
         /\ call'.chunks = next.chunks /\ call'.buf = <<>> /\ call'.n = next.n
         /\ call'.job = next.job /\ call'.origid = next.origid /\ call'.wants = next.wants
         /\ result'.status = "none"
  BY ConstantTypes DEF Sends, Calls

LEMMA SecondGathers ==
  ASSUME TypeOK, Sequel, NEW reply \in Replies, Len(Stream) >= 2, Stream[1] = <<reply, "head">>,
         SendsSecond(reply), Stream' = StreamFrom(2), UNCHANGED dev,
         Sends(ExtendedDataRequest(call.job, reply.id, 2, reply.seqlen), Second(reply))
  PROVE  Gathers(Stream)'
<1> DEFINE psbt == reply.arg
           count == Fragments[psbt]
<1>1. Genuine(reply) /\ reply.typ = "bytes" /\ reply.seqnum \in {0, 1} /\ reply.seqlen > 1
  BY Taken DEF SendsSecond
<1>2. psbt \in Psbts /\ count \in Nat /\ Len(Content(psbt)) = count /\ Content(psbt) \in Seq(Parts)
  BY <1>1, FragmentTypes DEF Genuine
<1>3. reply.seqnum = 1 /\ reply.seqlen = count /\ reply.data = <<<<psbt, 1>>>> /\ count >= 2
  BY <1>1, <1>2 DEF Genuine
<1>4. reply.data = SubSeq(Content(psbt), 1, 1)
  <2>1. 1 \in 1..Fragments[psbt] /\ 1 - 1 = 0
    BY <1>2, <1>3
  <2>2. SubSeq(Content(psbt), 1, 1 - 1) \o <<<<psbt, 1>>>> = SubSeq(Content(psbt), 1, 1)
    BY <1>2, <2>1, OneMore
  <2>3. SubSeq(Content(psbt), 1, 1 - 1) = <<>>
    <3>1. \A q \in Seq(Parts) : SubSeq(q, 1, 0) = <<>>
      OBVIOUS
    <3>2. QED
      BY <1>2, <2>1, <3>1, Zenon
  <2>4. <<>> \o <<<<psbt, 1>>>> = <<<<psbt, 1>>>>
    <3>1. <<psbt, 1>> \in Parts
      BY <1>2 DEF Parts
    <3>2. QED
      BY <3>1
  <2>5. QED
    BY <1>3, <2>2, <2>3, <2>4
<1>5. /\ call'.st = "GettingExtendedData" /\ call'.next = 2 /\ call'.seqlen = reply.seqlen
      /\ call'.chunks = reply.data
  BY SecondTypes, SecondFields, SendsFields, ZenonT(60)
<1>6. /\ call'.next \in 2..count /\ call'.seqlen = count
      /\ call'.chunks = SubSeq(Content(psbt), 1, call'.next - 1)
  <2>1. 2 - 1 = 1
    OBVIOUS
  <2>2. QED
    BY <1>2, <1>3, <1>4, <1>5, <2>1
<1>7. IF Stream' = <<>> THEN Fetching(psbt, call.next)'
      ELSE Stream'[1][2] = "head" /\ Follows(Stream'[1][1], psbt, call'.next)
  <2>1. Unfinished(reply)
    BY <1>1, <1>3 DEF Unfinished
  <2>2. 1 + 1 = 2
    OBVIOUS
  <2>3. IF StreamFrom(2) = <<>> THEN Fetching(psbt, 2)
        ELSE StreamFrom(2)[1][2] = "head" /\ Follows(StreamFrom(2)[1][1], psbt, 2)
    BY <1>3, <2>1, <2>2, Taken
  <2>4. Fetching(psbt, 2) => Fetching(psbt, call.next)'
    BY <1>5 DEF Fetching
  <2>5. QED
    BY <1>5, <2>3, <2>4
<1>8. GathersOf(psbt, Stream)'
  BY <1>6, <1>7 DEF GathersOf
<1>9. QED
  BY <1>2, <1>8 DEF Gathers

LEMMA FurtherGathers ==
  ASSUME TypeOK, Sequel, NEW reply \in Replies, Len(Stream) >= 2, Stream[1] = <<reply, "head">>,
         SendsFurther(reply), Stream' = StreamFrom(2), UNCHANGED dev,
         Sends(ExtendedDataRequest(call.job, call.origid, call.next + 1, call.seqlen), Further(reply))
  PROVE  Gathers(Stream)'
<1>1. /\ Genuine(reply) /\ reply.typ = "bytes" /\ call.st = "GettingExtendedData"
      /\ call.next < call.seqlen
  BY Taken DEF SendsFurther
<1>2. PICK psbt \in Psbts : GathersOf(psbt, Stream)
  BY <1>1 DEF Sequel, Gathers
<1> DEFINE count == Fragments[psbt]
           n == call.next
<1>3. reply.arg = psbt /\ reply.seqnum = n
  <2>1. Stream # <<>> /\ Stream[1][1] = reply
    BY StreamTypes
  <2>2. Follows(reply, psbt, n)
    BY <1>2, <2>1 DEF GathersOf
  <2>3. QED
    BY <1>1, <2>2 DEF Follows
<1>4. /\ n \in 2..count /\ call.seqlen = count /\ call.chunks = SubSeq(Content(psbt), 1, n - 1)
      /\ count \in Nat /\ n \in Nat /\ n \in 1..count
  BY <1>2, FragmentTypes, SMTT(60) DEF GathersOf
<1>5. reply.data = <<<<psbt, n>>>> /\ reply.seqlen = count
  BY <1>1, <1>3, <1>4 DEF Genuine
<1>6. call.chunks \o reply.data = SubSeq(Content(psbt), 1, n)
  <2>1. SubSeq(Content(psbt), 1, n - 1) \o <<<<psbt, n>>>> = SubSeq(Content(psbt), 1, n)
    BY <1>4, OneMore
  <2>2. QED
    BY <1>4, <1>5, <2>1
<1>7. /\ call'.st = "GettingExtendedData" /\ call'.next = n + 1 /\ call'.seqlen = call.seqlen
      /\ call'.chunks = call.chunks \o reply.data
  BY <1>1, SecondTypes, SecondFields, SendsFields, ZenonT(60)
<1>8. /\ call'.next \in 2..count /\ call'.seqlen = count
      /\ call'.chunks = SubSeq(Content(psbt), 1, call'.next - 1)
  <2>1. (n + 1) - 1 = n /\ n + 1 \in 2..count
    BY <1>1, <1>4, SMTT(60)
  <2>2. QED
    BY <1>4, <1>6, <1>7, <2>1
<1>9. IF Stream' = <<>> THEN Fetching(psbt, call.next)'
      ELSE Stream'[1][2] = "head" /\ Follows(Stream'[1][1], psbt, call'.next)
  <2>1. Unfinished(reply)
    BY <1>1, <1>3, <1>4, <1>5 DEF Unfinished
  <2>2. IF StreamFrom(2) = <<>> THEN Fetching(psbt, n + 1)
        ELSE StreamFrom(2)[1][2] = "head" /\ Follows(StreamFrom(2)[1][1], psbt, n + 1)
    BY <1>3, <2>1, Taken
  <2>3. Fetching(psbt, n + 1) => Fetching(psbt, call.next)'
    BY <1>7 DEF Fetching
  <2>4. QED
    BY <1>7, <2>2, <2>3
<1>10. GathersOf(psbt, Stream)'
  BY <1>8, <1>9 DEF GathersOf
<1>11. QED
  BY <1>10 DEF Gathers

LEMMA BreaksSequel ==
  ASSUME TypeOK, Sequel, NEW n \in 0..Len(Stream), Stream' = StreamFrom(n), UNCHANGED dev, Breaks
  PROVE  Sequel'
<1>1. call'.st # "GettingExtendedData"
  BY ConstantTypes DEF Breaks
<1>2. SignedWhole'
  BY NoResultWhole DEF Breaks
<1>3. QED
  BY <1>1, <1>2, DropsSequel

LEMMA TakesSequel ==
  ASSUME TypeOK, TypeOK', Sequel, Reading, NEW reply, Takes(reply), UNCHANGED <<browser, dev, calls>>
  PROVE  Sequel'
<1>1. /\ reply \in Replies /\ Len(Stream) >= 2 /\ Stream[1] = <<reply, "head">>
      /\ in' = StreamFrom(2) /\ ReplySteps(reply) /\ UNCHANGED dev
  BY DEF Takes
<1>2. 2 \in 0..Len(Stream) /\ Genuine(reply)
  BY <1>1, Taken
<1>3. in' \in Seq(Pieces)
  BY <1>1, <1>2, StreamFromTypes
<1>4. ASSUME call'.buf = <<>> PROVE Stream' = StreamFrom(2)
  BY <1>1, <1>3, <1>4, NewStream
<1>5. ASSUME call' = NoCall, SignedWhole' PROVE Sequel'
  <2>1. call'.buf = <<>> /\ call'.st # "GettingExtendedData"
    BY <1>5, ConstantTypes
  <2>2. QED
    BY <1>1, <1>2, <1>4, <1>5, <2>1, DropsSequel
<1>6. ASSUME Breaks PROVE Sequel'
  BY <1>5, <1>6, NoResultWhole DEF Breaks
<1>7. ASSUME call'.buf = <<>>, Gathers(Stream)', result'.status = "none" PROVE Sequel'
  <2>1. Chain(Stream)' /\ LastOf(Stream)'
    BY <1>1, <1>2, <1>4, <1>7, ChainShrinks DEF Sequel
  <2>2. QED
    BY <1>7, <2>1, NoResultWhole DEF Sequel
<1>8. ASSUME NEW what, Fails(what) PROVE Sequel'
  BY <1>5, <1>8, NoResultWhole DEF Fails
<1>9. CASE Succeeds(reply.of, reply.what, reply.arg, <<>>) /\ Accepted(reply)
  <2>1. reply.what # "psbt"
    BY <1>2, <1>9 DEF Genuine, Accepted
  <2>2. SignedWhole'
    BY <1>9, <2>1 DEF SignedWhole, Succeeds
  <2>3. QED
    BY <1>5, <1>9, <2>2 DEF Succeeds
<1>10. ASSUME NEW data, Completes(reply, data), Succeeds(reply.of, "psbt", "none", data)
       PROVE  Sequel'
  <2>1. reply.arg \in Psbts /\ data = Content(reply.arg)
    BY <1>1, <1>10, CompletesWhole
  <2>2. SignedWhole'
    BY <1>10, <2>1 DEF SignedWhole, Succeeds
  <2>3. QED
    BY <1>5, <1>10, <2>2 DEF Succeeds
<1>11. CASE SendsSecond(reply)
  <2> DEFINE request == ExtendedDataRequest(call.job, reply.id, 2, reply.seqlen)
  <2>1. Transmit(request, Second(reply)) /\ Second(reply) \in Calls
    BY <1>1, <1>11, SecondTypes DEF SendsSecond
  <2>2. CASE Sends(request, Second(reply))
    <3>1. call'.buf = <<>> /\ result'.status = "none"
      BY <2>1, <2>2, SendsFields
    <3>2. Gathers(Stream)'
      BY <1>1, <1>4, <1>11, <2>2, <3>1, SecondGathers
    <3>3. QED
      BY <1>7, <3>1, <3>2
  <2>3. QED
    BY <1>6, <2>1, <2>2, TransmitSteps
<1>12. CASE SendsFurther(reply)
  <2> DEFINE request == ExtendedDataRequest(call.job, call.origid, call.next + 1, call.seqlen)
  <2>1. Transmit(request, Further(reply)) /\ Further(reply) \in Calls
    BY <1>1, <1>12, SecondTypes DEF SendsFurther
  <2>2. CASE Sends(request, Further(reply))
    <3>1. call'.buf = <<>> /\ result'.status = "none"
      BY <2>1, <2>2, SendsFields
    <3>2. Gathers(Stream)'
      BY <1>1, <1>4, <1>12, <2>2, <3>1, FurtherGathers
    <3>3. QED
      BY <1>7, <3>1, <3>2
  <2>3. QED
    BY <1>6, <2>1, <2>2, TransmitSteps
<1>13. CASE SendsAddress(reply)
  <2> DEFINE next == [call EXCEPT !.wants = "get_receive_address"]
             request == Request("get_receive_address", call.job)
  <2>1. next \in Calls /\ next.st = "Running"
    BY <1>13, TypeParts DEF SendsAddress, Calls, Wanted, Methods
  <2>2. Transmit(request, next)
    BY <1>13 DEF SendsAddress
  <2> HIDE DEF next, request
  <2>3. CASE Sends(request, next)
    <3>1. call'.buf = <<>> /\ result'.status = "none" /\ call'.st = "Running"
      BY <2>1, <2>3, SendsFields
    <3>2. Gathers(Stream)'
      BY <3>1 DEF Gathers
    <3>3. QED
      BY <1>7, <3>1, <3>2
  <2>4. QED
    BY <1>6, <2>2, <2>3, TransmitSteps
<1>14. CASE AsksServer(reply)
  <2>1. call'.buf = <<>> /\ call'.st = "WaitingPinServer" /\ result' = result
    BY <1>14, TypeParts DEF AsksServer, Calls
  <2>2. SignedWhole'
    BY <2>1 DEF Sequel, SignedWhole
  <2>3. QED
    BY <1>1, <1>2, <1>4, <2>1, <2>2, DropsSequel
<1>15. QED
  BY <1>1, <1>8, <1>9, <1>10, <1>11, <1>12, <1>13, <1>14 DEF ReplySteps

LEMMA ReadSequel ==
  ASSUME TypeOK, TypeOK', Sequel, ReadSteps
  PROVE  Sequel'
<1>1. Reading /\ UNCHANGED <<browser, dev, calls>>
  BY DEF ReadSteps
<1>2. CASE Keeps
  <2>1. PICK buf \in Seq(Pieces) : call' = [call EXCEPT !.buf = buf] /\ buf \o in' = Stream
    BY <1>2 DEF Keeps
  <2>2. /\ call'.buf = buf /\ call'.st = call.st /\ call'.next = call.next
        /\ call'.seqlen = call.seqlen /\ call'.chunks = call.chunks
    BY <2>1, TypeParts DEF Calls
  <2>3. Stream' = Stream
    BY <2>1, <2>2 DEF Stream
  <2>4. Chain(Stream)' /\ LastOf(Stream)'
    BY <1>1, <2>3 DEF Sequel, Chain, LastOf, Fetching
  <2>5. Gathers(Stream)'
    BY <1>1, <2>2, <2>3 DEF Sequel, Gathers, GathersOf, Fetching
  <2>6. SignedWhole'
    BY <1>2 DEF Keeps, Sequel, SignedWhole
  <2>7. QED
    BY <2>4, <2>5, <2>6 DEF Sequel
<1>3. CASE Discards
  <2>1. PICK n \in 0..Len(Stream) : in' = StreamFrom(n)
    BY <1>3 DEF Discards
  <2>2. call' = NoCall /\ result'.status = "err"
    BY <1>3 DEF Discards, Fails
  <2>3. Stream' = StreamFrom(n)
    BY <2>1, <2>2, ConstantTypes, StreamFromTypes, NewStream
  <2>4. QED
    BY <1>1, <2>2, <2>3, ConstantTypes, NoResultWhole, DropsSequel
<1>4. ASSUME NEW reply, Takes(reply) PROVE Sequel'
  BY <1>1, <1>4, TakesSequel
<1>5. QED
  BY <1>2, <1>3, <1>4 DEF ReadSteps

\* A call that starts, or is given up, or waits for the PIN server, keeps what it has read
\* or drops it.
LEMMA InSuffix ==
  ASSUME TypeOK, call'.buf = <<>>, in' = in
  PROVE  Len(call.buf) \in 0..Len(Stream) /\ Stream' = StreamFrom(Len(call.buf))
<1>1. /\ Len(call.buf) \in Nat /\ Len(Stream) \in Nat /\ Len(call.buf) <= Len(Stream)
      /\ in = StreamFrom(Len(call.buf)) /\ in' \in Seq(Pieces)
  BY StreamTypes
<1>2. QED
  BY <1>1, NewStream

LEMMA StartSequel ==
  ASSUME TypeOK, TypeOK', Sequel, NEW job \in Jobs, StartCall(job)
  PROVE  Sequel'
<1>1. ~Calling /\ UNCHANGED <<browser, in, dev>> /\ calls < MaxCalls
  BY DEF StartCall
<1>2. CASE Rejected(job)
  <2>1. UNCHANGED call /\ result'.status = "err"
    BY <1>2 DEF StartCall, NoResult
  <2>2. Stream' = Stream
    BY <1>1, <2>1 DEF Stream
  <2>3. Chain(Stream)' /\ LastOf(Stream)'
    BY <1>1, <2>2 DEF Sequel, Chain, LastOf, Fetching
  <2>4. Gathers(Stream)'
    BY <1>1, <2>1 DEF Gathers, Calling
  <2>5. QED
    BY <2>1, <2>3, <2>4, NoResultWhole DEF Sequel
<1>3. CASE ~Rejected(job)
  <2> DEFINE request == Request(MethodOf(job.cmd), job)
  <2>1. Transmit(request, Fresh(job)) /\ Fresh(job) \in Calls /\ Fresh(job).st = "Running"
    BY <1>1, <1>3, FreshTypes DEF StartCall, Fresh
  <2> HIDE DEF request
  <2>2. CASE Sends(request, Fresh(job))
    <3>1. call'.buf = <<>> /\ result'.status = "none" /\ call'.st # "GettingExtendedData"
      BY <2>1, <2>2, SendsFields
    <3>2. QED
      BY <1>1, <3>1, InSuffix, NoResultWhole, DropsSequel
  <2>3. CASE Breaks
    <3>1. call'.buf = <<>>
      BY <2>3, ConstantTypes DEF Breaks
    <3>2. QED
      BY <1>1, <2>3, <3>1, InSuffix, BreaksSequel
  <2>4. QED
    BY <2>1, <2>2, <2>3, TransmitSteps
<1>4. QED
  BY <1>2, <1>3

LEMMA GivesUpSequel ==
  ASSUME TypeOK, TypeOK', Sequel, GivesUp
  PROVE  Sequel'
<1>1. /\ call'.buf = <<>> /\ call'.st # "GettingExtendedData" /\ result'.status # "ok"
      /\ UNCHANGED dev /\ in' \in {in, <<>>}
  BY ConstantTypes DEF GivesUp
<1>2. CASE in' = in
  BY <1>1, <1>2, InSuffix, NoResultWhole, DropsSequel
<1>3. CASE in' = <<>>
  <2> DEFINE n == Len(Stream)
  <2>1. n \in Nat /\ n \in 0..Len(Stream)
    BY StreamTypes
  <2>2. StreamFrom(n) \in Seq(Pieces) /\ Len(StreamFrom(n)) = 0
    BY <2>1, StreamFromTypes
  <2>3. StreamFrom(n) = <<>>
    BY <2>2, EmptyFacts
  <2>4. Stream' = StreamFrom(n)
    BY <1>1, <1>3, <2>3, EmptyFacts, NewStream
  <2>5. QED
    BY <1>1, <2>1, <2>4, NoResultWhole, DropsSequel
<1>4. QED
  BY <1>1, <1>2, <1>3

LEMMA ServerSequel ==
  ASSUME TypeOK, TypeOK', Sequel, OnPinServer
  PROVE  Sequel'
<1>1. UNCHANGED <<browser, in, dev, calls>>
  BY DEF OnPinServer
<1>2. CASE Transmit(Request("pin", call.job), [call EXCEPT !.st = "WaitingFinalHandshake"])
  <2> DEFINE request == Request("pin", call.job)
             next == [call EXCEPT !.st = "WaitingFinalHandshake"]
  <2>1. next \in Calls /\ next.st = "WaitingFinalHandshake"
    BY TypeParts DEF Calls, States
  <2>2. Transmit(request, next)
    BY <1>2
  <2> HIDE DEF request, next
  <2>3. CASE Sends(request, next)
    <3>1. call'.buf = <<>> /\ result'.status = "none" /\ call'.st # "GettingExtendedData"
      BY <2>1, <2>3, SendsFields
    <3>2. QED
      BY <1>1, <3>1, InSuffix, NoResultWhole, DropsSequel
  <2>4. CASE Breaks
    <3>1. call'.buf = <<>>
      BY <2>4, ConstantTypes DEF Breaks
    <3>2. QED
      BY <1>1, <2>4, <3>1, InSuffix, BreaksSequel
  <2>5. QED
    BY <2>2, <2>3, <2>4, TransmitSteps
<1>3. CASE call' = NoCall /\ result' = [NoResult EXCEPT !.status = "err", !.why = "http"]
  <2>1. /\ call'.buf = <<>> /\ call'.st # "GettingExtendedData" /\ result'.status # "ok"
    BY <1>3, ConstantTypes DEF NoResult
  <2>2. QED
    BY <1>1, <2>1, InSuffix, NoResultWhole, DropsSequel
<1>4. QED
  BY <1>2, <1>3 DEF OnPinServer

LEMMA DeviceSequel ==
  ASSUME TypeOK, TypeOK', Sequel, DeviceSteps
  PROVE  Sequel'
<1>1. UNCHANGED <<browser, call, result, ids, past, calls, faults>>
  BY DEF DeviceSteps
<1>2. SignedWhole'
  BY <1>1 DEF Sequel, SignedWhole
<1>3. CASE UNCHANGED in /\ dev.task.kind = "idle"
  <2>1. Stream' = Stream
    BY <1>1, <1>3 DEF Stream
  <2>2. \A psbt, n : ~Fetching(psbt, n)
    BY <1>3 DEF Fetching
  <2>3. Chain(Stream)' /\ LastOf(Stream)'
    BY <2>1, <2>2 DEF Sequel, Chain, LastOf
  <2>4. Gathers(Stream)'
    BY <1>1, <2>1, <2>2 DEF Sequel, Gathers, GathersOf
  <2>5. QED
    BY <1>2, <2>3, <2>4 DEF Sequel
<1>4. ASSUME NEW reply, Gives(reply) PROVE Sequel'
  <2>1. /\ Chain(Stream)' /\ LastOf(Stream)' /\ Stream' # <<>>
        /\ Stream = <<>> => Stream'[1] = <<reply, "head">>
        /\ Stream # <<>> => Stream'[1] = Stream[1]
    BY <1>1, <1>4, ChainGrows DEF Sequel
  <2>2. ASSUME NEW psbt \in Psbts, GathersOf(psbt, Stream) PROVE GathersOf(psbt, Stream)'
    <3>1. Stream'[1][2] = "head" /\ Follows(Stream'[1][1], psbt, call.next)
      <4>1. CASE Stream = <<>>
        <5>1. Follows(reply, psbt, call.next)
          BY <1>4, <2>2, <4>1 DEF GathersOf, Fetching, Gives
        <5>2. QED
          BY <2>1, <4>1, <5>1
      <4>2. CASE Stream # <<>>
        BY <2>1, <2>2, <4>2 DEF GathersOf
      <4>3. QED
        BY <4>1, <4>2
    <3>2. QED
      BY <1>1, <2>1, <2>2, <3>1 DEF GathersOf
  <2>3. Gathers(Stream)'
    BY <1>1, <2>2 DEF Sequel, Gathers
  <2>4. QED
    BY <1>2, <2>1, <2>3 DEF Sequel
<1>5. QED
  BY <1>3, <1>4 DEF DeviceSteps

LEMMA SequelNext ==
  ASSUME TypeOK, Sequel, [Next]_vars
  PROVE  Sequel'
<1>1. TypeOK'
  BY TypeNext
<1>2. CASE Next
  BY <1>1, <1>2, NextSteps, StartSequel, ReadSequel, GivesUpSequel, ServerSequel, DeviceSequel
<1>3. CASE UNCHANGED vars
  BY <1>3 DEF vars, Sequel, Stream, Chain, LastOf, Gathers, GathersOf, Fetching, SignedWhole
<1>4. QED
  BY <1>2, <1>3

LEMMA SequelInit ==
  ASSUME Init
  PROVE  Sequel
<1>1. call.buf = <<>> /\ in = <<>> /\ call.st = "none" /\ result.status = "none"
  BY ConstantTypes DEF Init
<1>2. Stream = <<>>
  BY <1>1 DEF Stream
<1>3. QED
  BY <1>1, <1>2 DEF Sequel, Chain, LastOf, Gathers, SignedWhole

\* A signed PSBT is one of those that were given, with all of its fragments in order, for
\* PSBTs of any number of fragments and whatever the calls before left in the stream: behind
\* a fragment the device only ever puts the next one of the same PSBT, or an error, so a call
\* that gathers fragments is never handed another one.
THEOREM SignedPsbtsAreWhole == Spec => []SignedWhole
<1> DEFINE Inv == TypeOK /\ Sequel
<1>1. Init => Inv
  BY TypeInit, SequelInit
<1>2. Inv /\ [Next]_vars => Inv'
  BY TypeNext, SequelNext
<1>3. Inv => SignedWhole
  BY DEF Sequel
<1>4. QED
  BY <1>1, <1>2, <1>3, PTL DEF Spec

-----------------------------------------------------------------------------
(* Calls get their own answers.                                            *)

LEMMA PastGrows ==
  ASSUME TypeOK, Next
  PROVE  past \subseteq past'
<1>1. CASE \E job \in Jobs : StartCall(job)
  BY <1>1 DEF StartCall, Transmit
<1>2. CASE ReadSteps
  <2>1. ASSUME NEW request, NEW next, Transmit(request, next) PROVE past \subseteq past'
    BY <2>1 DEF Transmit
  <2>2. ASSUME NEW reply, Takes(reply) PROVE past \subseteq past'
    BY <2>1, <2>2
       DEF Takes, ReplySteps, Fails, Succeeds, SendsSecond, SendsFurther, SendsAddress, AsksServer
  <2>3. QED
    BY <1>2, <2>2 DEF ReadSteps, Keeps, Discards, Fails
<1>3. CASE GivesUp
  BY <1>3 DEF GivesUp
<1>4. CASE OnPinServer
  BY <1>4 DEF OnPinServer, Transmit
<1>5. CASE DeviceSteps
  BY <1>5 DEF DeviceSteps
<1>6. QED
  BY <1>1, <1>2, <1>3, <1>4, <1>5, NextSteps

\* A call that has ended, and the result it may have.
LEMMA EndsLockstep ==
  ASSUME call' = NoCall, out' = <<>>, Stream' = <<>>, UNCHANGED dev, dev.task.kind # "user",
         past' = {} => dev.task.kind = "idle", OwnAnswer'
  PROVE  Lockstep'
<1>1. ~Calling'
  BY ConstantTypes DEF Calling
<1>2. Between'
  BY <1>1 DEF Between
<1>3. QED
  BY <1>1, <1>2 DEF Lockstep, Phase, Purpose

LEMMA NotOkOwn ==
  ASSUME result'.status # "ok"
  PROVE  OwnAnswer'
  BY DEF OwnAnswer

LEMMA BreaksLockstep ==
  ASSUME Breaks, out = <<>>, Stream' = <<>>, UNCHANGED dev, dev.task.kind # "user"
  PROVE  Lockstep'
  BY NotOkOwn, EndsLockstep DEF Breaks

\* A call that has sent a request to a device that is ready for it.
LEMMA SendsLockstep ==
  ASSUME TypeOK, NEW request \in Orders, NEW next \in Calls, Sends(request, next),
         out = <<>>, Stream' = <<>>, UNCHANGED dev,
         next.st \in {"Running", "WaitingFinalHandshake", "GettingExtendedData"},
         next.n = calls', next.job \in Jobs, next.job.cmd \in Commands,
         request.by = next.job.cmd, request.arg = next.job.arg,
         CASE next.st = "Running" ->
                /\ request.method = next.wants
                /\ \/ next.wants = MethodOf(next.job.cmd)
                   \/ /\ next.job.cmd = "ByMultisig" /\ next.wants = "get_receive_address"
                      /\ Latest(next.job.arg)
                /\ dev.task.kind # "user" /\ (past = {} => dev.task.kind = "idle")
           [] next.st = "WaitingFinalHandshake" ->
                /\ request.method = "pin" /\ next.job.cmd = "Unlock" /\ dev.task.kind = "pin"
           [] OTHER ->
                /\ request.method = "get_extended_data" /\ next.job.cmd = "SignTx"
                /\ request.origid = next.origid /\ request.seqnum = next.next
                /\ Fetching(next.job.arg, next.next) /\ dev.task.request.id = next.origid
  PROVE  Lockstep'
<1> DEFINE r == [request EXCEPT !.id = ids, !.of = next.n]
<1>1. /\ r.of = next.n /\ r.method = request.method /\ r.by = request.by /\ r.arg = request.arg
      /\ r.origid = request.origid /\ r.seqnum = request.seqnum /\ r \in Orders
  <2>1. ids \in Nat /\ next.n \in Nat /\ request \in Requests
    BY TypeParts DEF Calls, Orders
  <2>2. r \in Orders
    BY <2>1, NumberedTypes
  <2>3. QED
    BY <2>1, <2>2 DEF Requests
<1>2. out' = Append(out, r) /\ past' = past
  BY DEF Sends
<1> HIDE DEF r
<1>3. Len(out') = 1 /\ out'[1] = r
  BY <1>1, <1>2
<1>4. /\ call'.st = next.st /\ call'.next = next.next /\ call'.n = next.n /\ call'.job = next.job
      /\ call'.origid = next.origid /\ call'.wants = next.wants /\ result'.status = "none"
  BY SendsFields
<1>5. Reading' /\ Calling'
  BY <1>4 DEF Reading, Calling
<1>6. CASE next.st = "Running"
  <2>1. Asked(out[1])'
    BY <1>1, <1>3, <1>4, <1>6 DEF Asked, Expected
  <2>2. Ready'
    BY <1>2, <1>4, <1>6 DEF Ready
  <2>3. Purpose'
    BY <1>4, <1>6 DEF Purpose, Latest, Registered
  <2>4. QED
    BY <1>3, <1>4, <1>5, <2>1, <2>2, <2>3, NotOkOwn DEF Lockstep, Phase, Requested
<1>7. CASE next.st = "WaitingFinalHandshake"
  <2>1. Asked(out[1])'
    BY <1>1, <1>3, <1>4, <1>7 DEF Asked, Expected
  <2>2. Ready'
    BY <1>2, <1>4, <1>7 DEF Ready
  <2>3. Purpose'
    BY <1>4, <1>7 DEF Purpose
  <2>4. QED
    BY <1>3, <1>4, <1>5, <2>1, <2>2, <2>3, NotOkOwn DEF Lockstep, Phase, Requested
<1>8. CASE next.st = "GettingExtendedData"
  <2>1. Asked(out[1])'
    BY <1>1, <1>3, <1>4, <1>8 DEF Asked, Expected
  <2>2. Ready'
    BY <1>2, <1>4, <1>8 DEF Ready, Fetching
  <2>3. Purpose'
    BY <1>4, <1>8 DEF Purpose
  <2>4. QED
    BY <1>3, <1>4, <1>5, <2>1, <2>2, <2>3, NotOkOwn DEF Lockstep, Phase, Requested
<1>9. QED
  BY <1>6, <1>7, <1>8

LEMMA EmptyStream ==
  ASSUME TypeOK, Stream = <<>>
  PROVE  call.buf = <<>> /\ in = <<>>
<1>1. call.buf \in Seq(Pieces) /\ in \in Seq(Pieces) /\ Len(call.buf) <= Len(Stream)
  BY StreamTypes
<1>2. Len(call.buf) = 0
  BY <1>1
<1>3. call.buf = <<>>
  BY <1>1, <1>2, EmptyFacts
<1>4. QED
  BY <1>1, <1>3, StreamTypes

LEMMA StartLockstep ==
  ASSUME TypeOK, Purpose, Phase, NEW job \in Jobs, StartCall(job)
  PROVE  Lockstep'
<1>1. /\ ~Calling /\ UNCHANGED <<browser, in, dev>> /\ calls < MaxCalls /\ calls' = calls + 1
  BY DEF StartCall
<1>2. Between
  BY <1>1 DEF Phase, AtServer, Requested, AtUser, Answered, Waits, Reading, Calling
<1>3. in = <<>> /\ out = <<>>
  BY <1>2, EmptyStream DEF Between
<1>4. ASSUME call'.buf = <<>> PROVE Stream' = <<>>
  BY <1>1, <1>3, <1>4 DEF Stream
<1>5. CASE Rejected(job)
  <2>1. UNCHANGED <<call, out, past>> /\ result'.status = "err"
    BY <1>5 DEF StartCall, NoResult
  <2>2. Between'
    BY <1>1, <1>2, <2>1 DEF Between, Calling, Stream
  <2>3. ~Calling'
    BY <1>1, <2>1 DEF Calling
  <2>4. QED
    BY <2>1, <2>2, <2>3, NotOkOwn DEF Lockstep, Phase, Purpose
<1>6. CASE ~Rejected(job)
  <2> DEFINE method == MethodOf(job.cmd)
             request == Request(method, job)
             next == Fresh(job)
  <2>1. /\ Transmit(request, next)
        /\ next \in Calls /\ next.st = "Running" /\ next.n = calls'
        /\ next.job = job /\ next.wants = method /\ request \in Orders
    BY <1>1, <1>6, FreshTypes DEF StartCall, Fresh
  <2>2. request.method = method /\ request.by = job.cmd /\ request.arg = job.arg
    <3>1. method \in Methods
      BY <1>1, FreshTypes
    <3>2. QED
      BY <3>1, RequestTypes
  <2>3. job.cmd \in Commands
    BY <1>6, JobsAssumption DEF Rejected
  <2> HIDE DEF request, next
  <2>4. CASE Sends(request, next)
    <3>1. Stream' = <<>>
      BY <1>4, <2>1, <2>4, SendsFields
    <3>2. dev.task.kind # "user" /\ (past = {} => dev.task.kind = "idle")
      BY <1>2 DEF Between
    <3>3. QED
      BY <1>1, <1>3, <2>1, <2>2, <2>3, <2>4, <3>1, <3>2, SendsLockstep
  <2>5. CASE Breaks
    BY <1>1, <1>2, <1>3, <1>4, <2>5, ConstantTypes, BreaksLockstep DEF Breaks, Between
  <2>6. QED
    BY <2>1, <2>4, <2>5, TransmitSteps
<1>7. QED
  BY <1>5, <1>6

LEMMA ServerLockstep ==
  ASSUME TypeOK, Purpose, Phase, OnPinServer
  PROVE  Lockstep'
<1>1. UNCHANGED <<browser, in, dev, calls>> /\ call.st = "WaitingPinServer"
  BY DEF OnPinServer
<1>2. AtServer /\ Calling
  BY <1>1 DEF Phase, Between, Requested, AtUser, Answered, Waits, Reading, Calling
<1>3. in = <<>> /\ out = <<>> /\ dev.task.kind = "pin"
  BY <1>2, EmptyStream DEF AtServer
<1>4. ASSUME call'.buf = <<>> PROVE Stream' = <<>>
  BY <1>1, <1>3, <1>4 DEF Stream
<1>5. call.n = calls /\ call.job \in Jobs /\ call.job.cmd = "Unlock" /\ "Unlock" \in Commands
  BY <1>1, <1>2 DEF Purpose, Commands
<1>6. CASE Transmit(Request("pin", call.job), [call EXCEPT !.st = "WaitingFinalHandshake"])
  <2> DEFINE request == Request("pin", call.job)
             next == [call EXCEPT !.st = "WaitingFinalHandshake"]
  <2>1. /\ next \in Calls /\ next.st = "WaitingFinalHandshake" /\ next.n = call.n
        /\ next.job = call.job
    BY TypeParts DEF Calls, States
  <2>2. /\ request \in Orders /\ request.method = "pin" /\ request.by = call.job.cmd
        /\ request.arg = call.job.arg
    <3>1. "pin" \in Methods
      BY DEF Methods
    <3>2. QED
      BY <1>5, <3>1, OrderTypes, RequestTypes
  <2>3. Transmit(request, next)
    BY <1>6
  <2> HIDE DEF request, next
  <2>4. CASE Sends(request, next)
    <3>1. Stream' = <<>>
      BY <1>4, <2>1, <2>4, SendsFields
    <3>2. QED
      BY <1>1, <1>3, <1>5, <2>1, <2>2, <2>4, <3>1, SendsLockstep
  <2>5. CASE Breaks
    BY <1>1, <1>3, <1>4, <2>5, ConstantTypes, BreaksLockstep DEF Breaks
  <2>6. QED
    BY <2>3, <2>4, <2>5, TransmitSteps
<1>7. CASE /\ past' = past \cup {"failed"} /\ call' = NoCall
           /\ result' = [NoResult EXCEPT !.status = "err", !.why = "http"]
           /\ UNCHANGED <<ids, out>>
  <2>1. result'.status # "ok" /\ past' # {}
    BY <1>7 DEF NoResult
  <2>2. QED
    BY <1>1, <1>3, <1>4, <1>7, <2>1, ConstantTypes, NotOkOwn, EndsLockstep
<1>8. QED
  BY <1>6, <1>7 DEF OnPinServer

LEMMA KeepsLockstep ==
  ASSUME TypeOK, Purpose, Phase, Reading, Keeps, UNCHANGED <<browser, dev, calls>>
  PROVE  Lockstep'
<1>1. PICK buf \in Seq(Pieces) : call' = [call EXCEPT !.buf = buf] /\ buf \o in' = Stream
  BY DEF Keeps
<1>2. /\ call'.buf = buf /\ call'.st = call.st /\ call'.n = call.n /\ call'.job = call.job
      /\ call'.wants = call.wants /\ call'.origid = call.origid /\ call'.next = call.next
  BY <1>1, TypeParts DEF Calls
<1>3. Stream' = Stream
  BY <1>1, <1>2 DEF Stream
<1>4. UNCHANGED <<browser, dev, calls, result, out, past>>
  BY DEF Keeps
<1>5. Reading' /\ Calling' /\ Calling
  BY <1>2 DEF Reading, Calling
<1>6. Expected' = Expected
  BY <1>2 DEF Expected
<1>7. Purpose'
  BY <1>2, <1>4, <1>5 DEF Purpose, Latest, Registered
<1>8. ASSUME Requested PROVE Phase'
  <2>1. Asked(out[1])'
    BY <1>2, <1>4, <1>6, <1>8 DEF Requested, Asked
  <2>2. Ready'
    BY <1>2, <1>4, <1>8 DEF Requested, Ready, Fetching
  <2>3. QED
    BY <1>3, <1>4, <1>5, <1>8, <2>1, <2>2 DEF Requested, Phase
<1>9. ASSUME AtUser PROVE Phase'
  <2>1. Asked(dev.task.request)'
    BY <1>2, <1>4, <1>6, <1>9 DEF AtUser, Asked
  <2>2. QED
    BY <1>2, <1>3, <1>4, <1>5, <1>9, <2>1 DEF AtUser, Waits, Phase
<1>10. ASSUME Answered PROVE Phase'
  <2> DEFINE reply == Stream[1][1]
  <2>1. Stream'[1][1] = reply /\ Answers(reply)
    BY <1>3, <1>10 DEF Answered
  <2> HIDE DEF reply
  <2>2. Fits(reply) => Fits(Stream[1][1])'
    BY <1>2, <1>4, <1>6, <2>1 DEF Fits, Latest, Registered
  <2>3. Answers(Stream[1][1])'
    BY <1>2, <1>4, <2>1, <2>2 DEF Answers, Unfinished
  <2>4. QED
    BY <1>3, <1>4, <1>5, <1>10, <2>3 DEF Answered, Waits, Phase
<1>11. Requested \/ AtUser \/ Answered
  BY <1>5 DEF Phase, Between, AtServer, Reading
<1>12. Phase'
  BY <1>8, <1>9, <1>10, <1>11
<1>13. OwnAnswer'
  BY <1>4, <1>5, NotOkOwn DEF Purpose
<1>14. QED
  BY <1>7, <1>12, <1>13 DEF Lockstep

\* The reply a call takes answers its request, and nothing comes behind it.
LEMMA TakesAnswer ==
  ASSUME TypeOK, Phase, Reading, NEW reply \in Replies, Len(Stream) >= 2,
         Stream[1] = <<reply, "head">>
  PROVE  /\ out = <<>> /\ Answers(reply) /\ dev.task.kind # "user" /\ StreamFrom(2) = <<>>
         /\ reply.typ # "http" /\ ~Unfinished(reply) => dev.task.kind = "idle"
<1>1. Stream # <<>>
  BY StreamTypes
<1>2. Answered
  BY <1>1 DEF Phase, Between, AtServer, Requested, AtUser, Reading
<1>3. Stream[1][1] = reply
  OBVIOUS
<1>4. Stream = Whole(reply) /\ Answers(reply) /\ out = <<>>
  BY <1>2, <1>3 DEF Answered, Waits
<1>5. Len(Stream) = 2 /\ 2 \in 0..Len(Stream)
  BY <1>4 DEF Whole
<1>6. StreamFrom(2) \in Seq(Pieces) /\ Len(StreamFrom(2)) = 0
  BY <1>5, StreamFromTypes
<1>7. StreamFrom(2) = <<>>
  BY <1>6, EmptyFacts
<1>8. /\ dev.task.kind # "user"
      /\ reply.typ # "http" /\ ~Unfinished(reply) => dev.task.kind = "idle"
  BY <1>4 DEF Answers
<1>9. QED
  BY <1>4, <1>7, <1>8

\* What an answer is, by the command of the call.
LEMMA AnswerFits ==
  ASSUME TypeOK, Purpose, Reading, NEW reply \in Replies, Answers(reply), Accepted(reply)
  PROVE  /\ reply.of = calls /\ reply.what = Kind(call.job.cmd) /\ reply.what # "psbt"
         /\ reply.arg = call.job.arg /\ (call.job.cmd = "Unlock" => dev.unlocked)
<1> DEFINE cmd == call.job.cmd
<1>1. /\ reply.typ # "error" /\ reply.typ # "http" /\ Fits(reply) /\ reply.of = calls
      /\ (reply.typ = "bool" => reply.ok) => reply.arg = call.job.arg
  BY DEF Answers, Accepted, Purpose, Reading
<1>2. /\ cmd \in Commands
      /\ call.st = "Running" =>
           \/ Expected = MethodOf(cmd)
           \/ cmd = "ByMultisig" /\ Expected = "get_receive_address"
      /\ call.st = "WaitingFinalHandshake" => cmd = "Unlock" /\ Expected = "pin"
      /\ call.st = "Running" \/ call.st = "WaitingFinalHandshake"
  BY ExpectedStates DEF Purpose, Reading, Accepted
<1>3. CASE Expected = "auth_user"
  <2>1. reply.typ = "bool" /\ reply.ok /\ reply.what = "done" /\ dev.unlocked
    BY <1>1, <1>3 DEF Fits
  <2>2. cmd = "Unlock"
    BY <1>2, <1>3 DEF MethodOf
  <2>3. QED
    BY <1>1, <2>1, <2>2 DEF Kind, Displays
<1>4. CASE Expected = "pin"
  <2>1. reply.typ = "bool" /\ reply.ok /\ reply.what = "done" /\ dev.unlocked
    BY <1>1, <1>4 DEF Fits, Accepted
  <2>2. cmd = "Unlock"
    BY <1>2, <1>4 DEF MethodOf
  <2>3. QED
    BY <1>1, <2>1, <2>2 DEF Kind, Displays
<1>5. CASE Expected = "get_xpub"
  <2>1. reply.typ = "string" /\ reply.what = "xpub"
    BY <1>1, <1>5 DEF Fits
  <2>2. cmd \in {"GetFingerprint", "GetXpub"}
    BY <1>2, <1>5 DEF MethodOf
  <2>3. QED
    BY <1>1, <2>1, <2>2 DEF Kind, Displays
<1>6. CASE Expected = "sign_message"
  <2>1. reply.typ = "string" /\ reply.what = "signature"
    BY <1>1, <1>6 DEF Fits
  <2>2. cmd = "SignMessage"
    BY <1>2, <1>6 DEF MethodOf
  <2>3. QED
    BY <1>1, <2>1, <2>2 DEF Kind, Displays
<1>7. CASE Expected = "get_receive_address"
  <2>1. reply.typ = "string" /\ reply.what = "address"
    BY <1>1, <1>7 DEF Fits
  <2>2. cmd \in Displays
    BY <1>2, <1>7 DEF MethodOf, Displays
  <2>3. QED
    BY <1>1, <2>1, <2>2 DEF Kind, Displays
<1>8. CASE Expected = "register_descriptor"
  <2>1. reply.typ = "bool" /\ reply.ok /\ reply.what = "registered"
    BY <1>1, <1>8 DEF Fits, Accepted
  <2>2. cmd = "RegisterWallet"
    BY <1>2, <1>8 DEF MethodOf
  <2>3. QED
    BY <1>1, <2>1, <2>2 DEF Kind, Displays
<1>9. CASE Expected \notin {"auth_user", "pin", "get_xpub", "sign_message", "get_receive_address",
                            "register_descriptor"}
  <2>1. reply.typ = "info" /\ reply.what = "info"
    BY <1>1, <1>9 DEF Fits, Accepted
  <2>2. cmd = "GetInfo"
    BY <1>2, <1>9 DEF MethodOf, Commands, Displays, Accepted
  <2>3. QED
    BY <1>1, <2>1, <2>2 DEF Kind, Displays
<1>10. QED
  BY <1>3, <1>4, <1>5, <1>6, <1>7, <1>8, <1>9

\* An objection to an answer, by a call nothing went wrong for, is the device's refusal.
LEMMA ObjectionFits ==
  ASSUME TypeOK, Sequel, Reading, NEW reply \in Replies, Len(Stream) >= 2,
         Stream[1] = <<reply, "head">>, Answers(reply), NEW what, Objected(reply, what)
  PROVE  /\ reply.typ # "http" /\ ~Unfinished(reply)
         /\ past = {} => what \in Refusals
<1>1. CASE reply.typ = "error" /\ what = reply.what
  BY <1>1 DEF Answers, Unfinished
<1>2. CASE reply.typ = "bool" /\ ~reply.ok /\ Expected # "auth_user" /\ what = reply.what
  <2>1. Fits(reply)
    BY <1>2 DEF Answers
  <2>2. reply.what \in {"wrong pin", "declined"}
    BY <1>2, <2>1 DEF Fits
  <2>3. QED
    BY <1>2, <2>2 DEF Unfinished, Refusals
<1>3. CASE reply.typ # "error" /\ ~Fits(reply)
  BY <1>3 DEF Answers
<1>4. ASSUME NEW data, Completes(reply, data), \A p \in Psbts : data # Content(p)
      PROVE  FALSE
  BY <1>4, CompletesWhole
<1>5. QED
  BY <1>1, <1>2, <1>3, <1>4 DEF Objected

LEMMA SecondLockstep ==
  ASSUME TypeOK, Sequel, Purpose, Phase, Reading, NEW reply \in Replies, Len(Stream) >= 2,
         Stream[1] = <<reply, "head">>, SendsSecond(reply), Stream' = <<>>,
         UNCHANGED <<dev, calls>>,
         Sends(ExtendedDataRequest(call.job, reply.id, 2, reply.seqlen), Second(reply))
  PROVE  Lockstep'
<1> DEFINE request == ExtendedDataRequest(call.job, reply.id, 2, reply.seqlen)
           next == Second(reply)
<1>1. /\ out = <<>> /\ Answers(reply) /\ StreamFrom(2) = <<>> /\ Genuine(reply)
      /\ Unfinished(reply) => Fetching(reply.arg, reply.seqnum + 1)
  BY Taken, TakesAnswer
<1>2. /\ call.st = "Running" /\ call.wants = "sign_psbt" /\ reply.typ = "bytes"
      /\ reply.seqnum \in {0, 1} /\ reply.seqlen > 1
  BY DEF SendsSecond
<1>3. /\ Unfinished(reply) /\ reply.seqnum = 1 /\ reply.arg = call.job.arg /\ 1 + 1 = 2
      /\ dev.task.request.id = reply.id
  BY <1>1, <1>2 DEF Genuine, Unfinished, Answers
<1>4. Fetching(call.job.arg, 2)
  BY <1>1, <1>3
<1>5. call.n = calls /\ call.job \in Jobs /\ call.job.cmd = "SignTx" /\ "SignTx" \in Commands
  <2>1. "sign_psbt" = MethodOf(call.job.cmd) /\ call.n = calls /\ call.job \in Jobs
    BY <1>2 DEF Purpose, Reading
  <2>2. QED
    BY <2>1 DEF MethodOf, Commands
<1>6. /\ next \in Calls /\ next.st = "GettingExtendedData" /\ next.n = call.n
      /\ next.job = call.job /\ next.origid = reply.id /\ next.next = 2
  BY SecondTypes, SecondFields
<1>7. /\ request \in Orders /\ request.method = "get_extended_data" /\ request.by = call.job.cmd
      /\ request.arg = call.job.arg /\ request.origid = reply.id /\ request.seqnum = 2
  <2>1. reply.id \in Nat /\ reply.seqlen \in Nat /\ 2 \in Nat
    BY DEF Replies
  <2>2. QED
    BY <1>5, <2>1, ExtendedDataTypes, SMTT(60)
<1> HIDE DEF request, next
<1>8. Sends(request, next)
  BY DEF request, next
<1>9. QED
  BY <1>1, <1>3, <1>4, <1>5, <1>6, <1>7, <1>8, SendsLockstep

LEMMA FurtherLockstep ==
  ASSUME TypeOK, Sequel, Purpose, Phase, Reading, NEW reply \in Replies, Len(Stream) >= 2,
         Stream[1] = <<reply, "head">>, SendsFurther(reply), Stream' = <<>>,
         UNCHANGED <<dev, calls>>,
         Sends(ExtendedDataRequest(call.job, call.origid, call.next + 1, call.seqlen), Further(reply))
  PROVE  Lockstep'
<1> DEFINE request == ExtendedDataRequest(call.job, call.origid, call.next + 1, call.seqlen)
           next == Further(reply)
           n == call.next
<1>1. /\ out = <<>> /\ Answers(reply) /\ StreamFrom(2) = <<>> /\ Genuine(reply)
      /\ Unfinished(reply) => Fetching(reply.arg, reply.seqnum + 1)
  BY Taken, TakesAnswer
<1>2. call.st = "GettingExtendedData" /\ reply.typ = "bytes" /\ n < call.seqlen
  BY DEF SendsFurther
<1>3. /\ reply.arg = call.job.arg /\ reply.seqnum = n
      /\ Unfinished(reply) => dev.task.request.id = call.origid
  <2>1. Expected = "get_extended_data"
    BY <1>2, ExpectedStates
  <2>2. QED
    BY <1>1, <1>2, <2>1 DEF Answers, Fits
<1>4. Unfinished(reply)
  <2>1. PICK psbt \in Psbts : GathersOf(psbt, Stream)
    BY <1>2 DEF Sequel, Gathers
  <2>2. Stream # <<>> /\ Stream[1][1] = reply
    BY StreamTypes
  <2>3. reply.arg = psbt
    BY <1>2, <2>1, <2>2 DEF GathersOf, Follows
  <2>4. n \in 2..Fragments[psbt] /\ call.seqlen = Fragments[psbt]
    BY <2>1 DEF GathersOf
  <2>5. reply.seqlen = Fragments[psbt]
    BY <1>1, <1>2, <1>3, <2>3, <2>4 DEF Genuine
  <2>6. QED
    BY <1>2, <1>3, <2>4, <2>5 DEF Unfinished
<1>5. Fetching(call.job.arg, n + 1)
  BY <1>1, <1>3, <1>4
<1>6. call.n = calls /\ call.job \in Jobs /\ call.job.cmd = "SignTx" /\ "SignTx" \in Commands
  BY <1>2 DEF Purpose, Reading, Commands
<1>7. /\ next \in Calls /\ next.st = "GettingExtendedData" /\ next.n = call.n
      /\ next.job = call.job /\ next.origid = call.origid /\ next.next = n + 1
  BY <1>2, SecondTypes, SecondFields
<1>8. /\ request \in Orders /\ request.method = "get_extended_data" /\ request.by = call.job.cmd
      /\ request.arg = call.job.arg /\ request.origid = call.origid /\ request.seqnum = n + 1
  <2>1. call.origid \in Nat /\ call.seqlen \in Nat /\ n + 1 \in Nat
    BY TypeParts, SMTT(60) DEF Calls
  <2>2. QED
    BY <1>6, <2>1, ExtendedDataTypes
<1> HIDE DEF request, next, n
<1>9. Sends(request, next)
  BY DEF request, next, n
<1>10. QED
  BY <1>1, <1>3, <1>4, <1>5, <1>6, <1>7, <1>8, <1>9, SendsLockstep

LEMMA AddressLockstep ==
  ASSUME TypeOK, Purpose, Phase, Reading, NEW reply \in Replies, Len(Stream) >= 2,
         Stream[1] = <<reply, "head">>, SendsAddress(reply), Stream' = <<>>,
         UNCHANGED <<dev, calls>>,
         Sends(Request("get_receive_address", call.job), [call EXCEPT !.wants = "get_receive_address"])
  PROVE  Lockstep'
<1> DEFINE request == Request("get_receive_address", call.job)
           next == [call EXCEPT !.wants = "get_receive_address"]
<1>1. /\ out = <<>> /\ Answers(reply)
      /\ reply.typ # "http" /\ ~Unfinished(reply) => dev.task.kind = "idle"
  BY TakesAnswer
<1>2. /\ call.st = "Running" /\ call.wants = "register_multisig" /\ reply.typ = "bool" /\ reply.ok
  BY DEF SendsAddress
<1>3. dev.task.kind = "idle"
  BY <1>1, <1>2 DEF Unfinished
<1>4. Latest(call.job.arg)
  <2>1. Expected = "register_multisig"
    BY <1>2, ExpectedStates
  <2>2. QED
    BY <1>1, <1>2, <2>1 DEF Answers, Fits
<1>5. call.n = calls /\ call.job \in Jobs /\ call.job.cmd = "ByMultisig" /\ "ByMultisig" \in Commands
  <2>1. /\ "register_multisig" = MethodOf(call.job.cmd) /\ call.n = calls /\ call.job \in Jobs
    BY <1>2 DEF Purpose, Reading
  <2>2. QED
    BY <2>1 DEF MethodOf, Commands, Displays
<1>6. /\ next \in Calls /\ next.st = "Running" /\ next.n = call.n /\ next.job = call.job
      /\ next.wants = "get_receive_address"
  BY <1>2, TypeParts DEF Calls, Wanted, Methods
<1>7. /\ request \in Orders /\ request.method = "get_receive_address"
      /\ request.by = call.job.cmd /\ request.arg = call.job.arg
  <2>1. "get_receive_address" \in Methods
    BY DEF Methods
  <2>2. QED
    BY <1>5, <2>1, OrderTypes, RequestTypes
<1> HIDE DEF request, next
<1>8. Sends(request, next)
  BY DEF request, next
<1>9. QED
  BY <1>1, <1>3, <1>4, <1>5, <1>6, <1>7, <1>8, SendsLockstep

\* What a call nobody gave up does with a reply.
LEMMA TakesLockstep ==
  ASSUME TypeOK, TypeOK', Sequel, Purpose, Phase, Reading, NEW reply, Takes(reply),
         UNCHANGED <<browser, dev, calls>>
  PROVE  Lockstep'
<1>1. /\ reply \in Replies /\ Len(Stream) >= 2 /\ Stream[1] = <<reply, "head">>
      /\ in' = StreamFrom(2) /\ ReplySteps(reply) /\ UNCHANGED <<dev, calls>>
  BY DEF Takes
<1>2. /\ out = <<>> /\ Answers(reply) /\ dev.task.kind # "user" /\ StreamFrom(2) = <<>>
      /\ reply.typ # "http" /\ ~Unfinished(reply) => dev.task.kind = "idle"
  BY <1>1, TakesAnswer
<1>3. ASSUME call'.buf = <<>> PROVE Stream' = <<>>
  BY <1>1, <1>2, <1>3 DEF Stream
<1>4. ASSUME call' = NoCall, UNCHANGED out, OwnAnswer', dev.task.kind = "idle" PROVE Lockstep'
  <2>1. Stream' = <<>>
    BY <1>3, <1>4, ConstantTypes
  <2>2. QED
    BY <1>1, <1>2, <1>4, <2>1, EndsLockstep
<1>5. ASSUME Breaks PROVE Lockstep'
  <2>1. Stream' = <<>>
    BY <1>3, <1>5, ConstantTypes DEF Breaks
  <2>2. QED
    BY <1>1, <1>2, <1>5, <2>1, BreaksLockstep
<1>6. ASSUME NEW what, Fails(what), Objected(reply, what) PROVE Lockstep'
  BY <1>1, <1>2, <1>4, <1>6, ObjectionFits, NotOkOwn DEF Fails
<1>7. CASE Succeeds(reply.of, reply.what, reply.arg, <<>>) /\ Accepted(reply)
  <2>1. /\ reply.of = calls /\ reply.what = Kind(call.job.cmd) /\ reply.what # "psbt"
        /\ reply.arg = call.job.arg /\ (call.job.cmd = "Unlock" => dev.unlocked)
    BY <1>1, <1>2, <1>7, AnswerFits
  <2>2. OwnAnswer'
    BY <1>1, <1>7, <2>1 DEF OwnAnswer, Succeeds
  <2>3. dev.task.kind = "idle"
    BY <1>2, <1>7 DEF Accepted, Unfinished
  <2>4. QED
    BY <1>4, <1>7, <2>2, <2>3 DEF Succeeds
<1>8. ASSUME NEW data, Completes(reply, data), Succeeds(reply.of, "psbt", "none", data)
      PROVE  Lockstep'
  <2>1. data = Content(reply.arg) /\ ~Unfinished(reply) /\ reply.typ = "bytes"
    BY <1>1, <1>8, CompletesWhole DEF Completes
  <2>2. reply.of = calls /\ reply.arg = call.job.arg
    BY <1>2, <2>1 DEF Answers, Purpose, Reading
  <2>3. call.job.cmd = "SignTx"
    <3>1. CASE call.st = "Running" /\ call.wants = "sign_psbt"
      <4>1. "sign_psbt" = MethodOf(call.job.cmd)
        BY <3>1 DEF Purpose, Reading
      <4>2. QED
        BY <4>1 DEF MethodOf
    <3>2. CASE call.st = "GettingExtendedData"
      BY <3>2 DEF Purpose, Reading
    <3>3. QED
      BY <1>8, <3>1, <3>2 DEF Completes
  <2>4. Kind("SignTx") = "psbt"
    BY DEF Kind, Displays
  <2>5. OwnAnswer'
    BY <1>1, <1>8, <2>1, <2>2, <2>3, <2>4 DEF OwnAnswer, Succeeds
  <2>6. QED
    BY <1>2, <1>4, <1>8, <2>1, <2>5 DEF Succeeds
<1>9. CASE SendsSecond(reply)
  <2> DEFINE request == ExtendedDataRequest(call.job, reply.id, 2, reply.seqlen)
  <2>1. Transmit(request, Second(reply)) /\ Second(reply) \in Calls
    BY <1>1, <1>9, SecondTypes DEF SendsSecond
  <2>2. CASE Sends(request, Second(reply))
    BY <1>1, <1>3, <1>9, <2>1, <2>2, SendsFields, SecondLockstep
  <2>3. QED
    BY <1>5, <2>1, <2>2, TransmitSteps
<1>10. CASE SendsFurther(reply)
  <2> DEFINE request == ExtendedDataRequest(call.job, call.origid, call.next + 1, call.seqlen)
  <2>1. Transmit(request, Further(reply)) /\ Further(reply) \in Calls
    BY <1>1, <1>10, SecondTypes DEF SendsFurther
  <2>2. CASE Sends(request, Further(reply))
    BY <1>1, <1>3, <1>10, <2>1, <2>2, SendsFields, FurtherLockstep
  <2>3. QED
    BY <1>5, <2>1, <2>2, TransmitSteps
<1>11. CASE SendsAddress(reply)
  <2> DEFINE next == [call EXCEPT !.wants = "get_receive_address"]
             request == Request("get_receive_address", call.job)
  <2>1. next \in Calls
    BY TypeParts DEF Calls, Wanted, Methods
  <2>2. Transmit(request, next)
    BY <1>11 DEF SendsAddress
  <2> HIDE DEF next, request
  <2>3. CASE Sends(request, next)
    <3>1. Stream' = <<>>
      BY <1>3, <2>1, <2>3, SendsFields
    <3>2. QED
      BY <1>1, <1>11, <2>3, <3>1, AddressLockstep DEF next, request
  <2>4. QED
    BY <1>5, <2>2, <2>3, TransmitSteps
<1>12. CASE AsksServer(reply)
  <2>1. /\ call'.buf = <<>> /\ call'.st = "WaitingPinServer" /\ UNCHANGED <<result, out, past>>
        /\ call'.n = call.n /\ call'.job = call.job
    BY <1>12, TypeParts DEF AsksServer, Calls
  <2>2. Stream' = <<>>
    BY <1>3, <2>1
  <2>3. dev.task.kind = "pin"
    BY <1>2, <1>12 DEF AsksServer, Answers, Unfinished
  <2>4. Calling' /\ Calling
    BY <2>1 DEF Calling, Reading
  <2>5. call.job.cmd = "Unlock"
    <3>1. "auth_user" = MethodOf(call.job.cmd)
      BY <1>12, <2>4 DEF AsksServer, Purpose
    <3>2. QED
      BY <3>1 DEF MethodOf
  <2>6. Purpose'
    BY <1>1, <2>1, <2>4, <2>5 DEF Purpose
  <2>7. AtServer'
    BY <1>1, <1>2, <2>1, <2>2, <2>3 DEF AtServer
  <2>8. OwnAnswer'
    BY <2>1, <2>4, NotOkOwn DEF Purpose
  <2>9. QED
    BY <2>6, <2>7, <2>8 DEF Lockstep, Phase
<1>13. QED
  BY <1>1, <1>6, <1>7, <1>8, <1>9, <1>10, <1>11, <1>12 DEF ReplySteps

\* Nothing that is not one whole reply comes while no call was given up.
LEMMA NothingDiscarded ==
  ASSUME Phase, Reading
  PROVE  ~Discards
  BY DEF Phase, Between, AtServer, Requested, AtUser, Answered, Reading, Discards

LEMMA ReadLockstep ==
  ASSUME TypeOK, TypeOK', Sequel, Purpose, Phase, ReadSteps
  PROVE  Lockstep'
<1>1. Reading /\ UNCHANGED <<browser, dev, calls>>
  BY DEF ReadSteps
<1>2. QED
  BY <1>1, KeepsLockstep, NothingDiscarded, TakesLockstep DEF ReadSteps

\* The device has read a request, or its user decides on it: nothing else is on its way.
Answering(request) ==
  /\ Reading /\ Stream = <<>> /\ out' = <<>> /\ Asked(request)
  /\ UNCHANGED <<browser, call, result, ids, past, calls, faults>>

LEMMA AnswersLockstep ==
  ASSUME TypeOK, Purpose, NEW request, Answering(request), NEW reply \in Replies, Put(reply),
         reply.of = request.of,
         dev'.multisigs = dev.multisigs \/ call.wants = MethodOf(call.job.cmd),
         IF reply.typ = "error" THEN past = {} => reply.what \in Refusals
         ELSE /\ Fits(reply)'
              /\ reply.typ # "http" /\ (reply.typ = "bool" => reply.ok) => reply.arg = request.arg,
         reply.typ = "http" => dev'.task.kind = "pin",
         Unfinished(reply) =>
           /\ dev'.task.kind = "fetch"
           /\ dev'.task.request.id = IF call.st = "Running" THEN reply.id ELSE call.origid,
         reply.typ # "http" /\ ~Unfinished(reply) => dev'.task.kind = "idle"
  PROVE  Lockstep'
<1>1. /\ Reading /\ Stream = <<>> /\ out' = <<>> /\ Asked(request)
      /\ UNCHANGED <<browser, call, result, ids, past, calls, faults>>
  BY DEF Answering
<1>2. Stream' = Whole(reply)
  <2>1. call.buf = <<>> /\ in = <<>> /\ in' = in \o Whole(reply)
    BY <1>1, EmptyStream, PutTypes
  <2>2. Whole(reply) \in Seq(Pieces)
    BY WholeFacts
  <2>3. QED
    BY <1>1, <2>1, <2>2 DEF Stream
<1>3. Stream' # <<>> /\ Stream'[1][1] = reply
  BY <1>2 DEF Whole
<1>4. Reading' /\ Calling' /\ Calling
  BY <1>1 DEF Reading, Calling
<1>5. Purpose'
  BY <1>1, <1>4 DEF Purpose, Latest, Registered
<1>6. Answers(reply)'
  <2>1. reply.of = call.n /\ request.arg = call.job.arg
    BY <1>1 DEF Asked
  <2>2. reply.typ = "http" => ~Unfinished(reply)
    BY DEF Unfinished
  <2>3. Unfinished(reply)' <=> Unfinished(reply)
    BY DEF Unfinished
  <2>4. QED
    BY <1>1, <2>1, <2>2, <2>3 DEF Answers
<1>7. Answered'
  BY <1>1, <1>2, <1>3, <1>4, <1>6 DEF Answered, Waits
<1>8. OwnAnswer'
  BY <1>1, <1>4, NotOkOwn DEF Purpose
<1>9. QED
  BY <1>5, <1>7, <1>8 DEF Lockstep, Phase

LEMMA RejectionLockstep ==
  ASSUME TypeOK, Purpose, NEW request \in Orders, Answering(request), NEW what \in Contents,
         Put(Rejection(request, what)), past = {} => what \in Refusals,
         dev'.task.kind = "idle", dev'.multisigs = dev.multisigs
  PROVE  Lockstep'
<1> DEFINE reply == Rejection(request, what)
<1>1. request \in Requests
  BY ArgTypes
<1>2. reply \in Replies /\ reply.typ = "error" /\ reply.of = request.of /\ reply.what = what
  BY <1>1, RejectionTypes
<1>3. Put(reply)
  OBVIOUS
<1> HIDE DEF reply
<1>4. ~Unfinished(reply)
  BY <1>2 DEF Unfinished
<1>5. QED
  BY <1>2, <1>3, <1>4, AnswersLockstep

\* A reply with what was asked for, from a device that has nothing more to do.
LEMMA FilledLockstep ==
  ASSUME TypeOK, Purpose, NEW request \in Orders, Answering(request),
         NEW typ \in {"info", "string", "bool"}, NEW what \in Contents,
         Put(Filled(request, typ, what, request.arg)),
         dev'.multisigs = dev.multisigs \/ call.wants = MethodOf(call.job.cmd),
         dev'.task.kind = "idle", Fits(Filled(request, typ, what, request.arg))'
  PROVE  Lockstep'
<1> DEFINE reply == Filled(request, typ, what, request.arg)
<1>1. request \in Requests /\ request.arg \in Args /\ typ \in Types
  BY ArgTypes DEF Types
<1>2. reply \in Replies /\ reply.typ = typ /\ reply.of = request.of /\ reply.arg = request.arg
  BY <1>1, FilledTypes
<1>3. Put(reply) /\ Fits(reply)'
  OBVIOUS
<1> HIDE DEF reply
<1>4. ~Unfinished(reply) /\ reply.typ # "http" /\ reply.typ # "error"
  BY <1>2 DEF Unfinished
<1>5. QED
  BY <1>2, <1>3, <1>4, AnswersLockstep

\* What a call that runs asks for is what it wants.
LEMMA AskedRunning ==
  ASSUME TypeOK, NEW request, Asked(request), Reading, call.st = "Running"
  PROVE  /\ request.method = call.wants /\ Expected = call.wants
         /\ call.wants \in Wanted /\ call.wants \notin {"pin", "get_extended_data"}
  BY ExpectedStates DEF Asked, Wanted

LEMMA IdleLockstep ==
  ASSUME TypeOK, Purpose, Ready, NEW request \in Orders, Answering(request),
         DeviceIdle(request)
  PROVE  Lockstep'
<1>1. dev.task.kind = "idle" /\ IdleAnswers(request)
  BY IdleSteps
<1>2. /\ Reading /\ Stream = <<>> /\ out' = <<>> /\ Asked(request)
      /\ UNCHANGED <<browser, call, result, ids, past, calls, faults>>
  BY DEF Answering
<1>3. call.st = "Running"
  BY <1>1, <1>2, ExpectedStates DEF Ready, Fetching
<1>4. /\ request.method = call.wants /\ Expected = call.wants
      /\ call.wants \in Wanted /\ call.wants \notin {"pin", "get_extended_data"}
  BY <1>2, <1>3, AskedRunning
<1>5. Expected' = request.method
  BY <1>2, <1>4 DEF Expected
<1>6. request \in Requests /\ request.arg \in Args
  BY ArgTypes
<1>7. ASSUME NEW typ \in {"info", "string", "bool"}, NEW what \in {"info", "xpub", "done"}, UNCHANGED dev,
             Put([Reply(request, typ) EXCEPT !.what = what, !.arg = request.arg]),
             \/ request.method = "get_version_info" /\ typ = "info" /\ what = "info"
             \/ request.method = "get_xpub" /\ typ = "string" /\ what = "xpub"
             \/ request.method = "auth_user" /\ typ = "bool" /\ what = "done" /\ dev.unlocked
      PROVE  Lockstep'
  <2> DEFINE reply == Filled(request, typ, what, request.arg)
  <2>1. typ \in Types /\ what \in Contents
    BY DEF Types, Contents
  <2>2. reply.typ = typ /\ reply.what = what /\ reply.ok
    BY <1>6, <2>1, FilledTypes
  <2>3. Put(reply)
    BY <1>7 DEF Filled
  <2> HIDE DEF reply
  <2>4. Fits(reply)'
    BY <1>5, <1>7, <2>2 DEF Fits
  <2>5. QED
    BY <1>1, <1>7, <2>1, <2>3, <2>4, FilledLockstep DEF reply
<1>8. CASE /\ \/ Unexpected(request) /\ Put(Rejection(request, "protocol"))
              \/ Put(Rejection(request, "locked")) \/ Put(Rejection(request, "unknown"))
           /\ UNCHANGED dev
  <2>1. ~Unexpected(request)
    BY <1>4 DEF Unexpected
  <2>2. \E what \in {"locked", "unknown"} : Put(Rejection(request, what))
    BY <1>8, <2>1
  <2>3. PICK what \in {"locked", "unknown"} : Put(Rejection(request, what))
    BY <2>2
  <2>4. what \in Contents /\ what \in Refusals
    BY DEF Contents, Refusals
  <2>5. QED
    BY <1>1, <1>8, <2>3, <2>4, RejectionLockstep
<1>9. CASE /\ request.method = "get_version_info" /\ UNCHANGED dev
           /\ Put([Reply(request, "info") EXCEPT !.what = "info", !.arg = request.arg])
  BY <1>7, <1>9
<1>10. CASE /\ request.method = "get_xpub" /\ UNCHANGED dev
            /\ Put([Reply(request, "string") EXCEPT !.what = "xpub", !.arg = request.arg])
  BY <1>7, <1>10, SMTT(60)
<1>11. CASE /\ request.method = "auth_user" /\ dev.unlocked /\ UNCHANGED dev
            /\ Put([Reply(request, "bool") EXCEPT !.what = "done", !.arg = request.arg])
  BY <1>7, <1>11, SMTT(60)
<1>12. CASE /\ request.method = "auth_user" /\ Put(Reply(request, "http"))
            /\ dev' = [dev EXCEPT !.task = [Idle EXCEPT !.kind = "pin", !.request = request]]
  <2> DEFINE reply == Reply(request, "http")
             task == [Idle EXCEPT !.kind = "pin", !.request = request]
  <2>1. reply \in Replies /\ reply.typ = "http" /\ reply.of = request.of
    BY <1>6, ReplyTypes, SMTT(60) DEF Types
  <2>2. task \in Tasks /\ task.kind = "pin"
    BY NewTaskTypes, ZenonT(60)
  <2>3. Put(reply) /\ dev' = [dev EXCEPT !.task = task]
    BY <1>12, SMTT(60)
  <2> HIDE DEF reply, task
  <2>4. dev'.task.kind = "pin" /\ dev'.multisigs = dev.multisigs
    BY <2>2, <2>3, TaskTypes, SMTT(60)
  <2>5. Fits(reply)' /\ ~Unfinished(reply)
    BY <1>5, <1>12, <2>1, SMTT(60) DEF Fits, Unfinished
  <2>6. QED
    BY <2>1, <2>3, <2>4, <2>5, AnswersLockstep, SMTT(60)
<1>13. CASE /\ request.method \in Confirmed /\ UNCHANGED in
            /\ dev' = [dev EXCEPT !.task = [Idle EXCEPT !.kind = "user", !.request = request]]
  <2> DEFINE task == [Idle EXCEPT !.kind = "user", !.request = request]
  <2>1. task \in Tasks /\ task.kind = "user" /\ task.request = request
    BY <1>13, NewTaskTypes
  <2>2. dev' = [dev EXCEPT !.task = task]
    BY <1>13
  <2> HIDE DEF task
  <2>3. dev'.task.kind = "user" /\ dev'.task.request = request /\ dev'.multisigs = dev.multisigs
    BY <2>1, <2>2, TaskTypes
  <2>4. Stream' = <<>>
    BY <1>2, <1>13 DEF Stream
  <2>5. Reading' /\ Calling' /\ Calling
    BY <1>2 DEF Reading, Calling
  <2>6. Asked(dev.task.request)'
    BY <1>2, <1>3, <1>4, <1>5, <2>3 DEF Asked
  <2>7. AtUser'
    BY <1>2, <1>3, <2>3, <2>4, <2>5, <2>6 DEF AtUser, Waits
  <2>8. Purpose'
    BY <1>2, <2>3, <2>5 DEF Purpose, Latest, Registered
  <2>9. OwnAnswer'
    BY <1>2, <2>5, NotOkOwn DEF Purpose
  <2>10. QED
    BY <2>7, <2>8, <2>9, SMTT(60) DEF Lockstep, Phase
<1>14. QED
  BY <1>1, <1>8, <1>9, <1>10, <1>11, <1>12, <1>13 DEF IdleAnswers

LEMMA PinLockstep ==
  ASSUME TypeOK, Purpose, Ready, NEW request \in Orders, Answering(request), DevicePin(request)
  PROVE  Lockstep'
<1>1. /\ Reading /\ Stream = <<>> /\ out' = <<>> /\ Asked(request)
      /\ UNCHANGED <<browser, call, result, ids, past, calls, faults>>
  BY SMTT(60) DEF Answering
<1>2. dev.task.kind = "pin" /\ request \in Requests /\ dev \in Devices
  BY ArgTypes, TypeParts, ZenonT(60) DEF DevicePin
<1>3. CASE request.method = "pin"
  <2>1. PICK right \in BOOLEAN :
          /\ Put([Reply(request, "bool") EXCEPT
                    !.ok = right, !.what = IF right THEN "done" ELSE "wrong pin", !.arg = request.arg])
          /\ dev' = [dev EXCEPT !.task = Idle, !.unlocked = right]
    BY <1>3 DEF DevicePin
  <2> DEFINE reply == [Reply(request, "bool") EXCEPT
                         !.ok = right, !.what = IF right THEN "done" ELSE "wrong pin",
                         !.arg = request.arg]
  <2>2. /\ reply \in Replies /\ reply.of = request.of /\ reply.typ = "bool" /\ reply.ok = right
        /\ reply.what = (IF right THEN "done" ELSE "wrong pin") /\ reply.arg = request.arg
    BY <1>2, PinReplyTypes, ZenonT(60)
  <2> HIDE DEF reply
  <2>3. Put(reply)
    BY <2>1 DEF reply
  <2>4. dev'.task.kind = "idle" /\ dev'.unlocked = right /\ dev'.multisigs = dev.multisigs
    BY <1>2, <2>1, ConstantTypes DEF Devices
  <2>5. Expected = "pin"
    BY <1>1, <1>3 DEF Asked
  <2>6. Expected' = "pin"
    BY <1>1, <2>5 DEF Expected
  <2>7. Fits(reply)' /\ ~Unfinished(reply)
    BY <2>2, <2>4, <2>6 DEF Fits, Unfinished
  <2>8. QED
    BY <2>2, <2>3, <2>4, <2>7, AnswersLockstep, ZenonT(60)
<1>4. CASE request.method # "pin"
  <2>1. call.st = "Running" /\ past # {}
    BY <1>1, <1>2, <1>4, ExpectedStates DEF Ready, Fetching, Asked
  <2>2. Put(Rejection(request, "protocol")) /\ dev' = [dev EXCEPT !.task = Idle]
    BY <1>2, <1>4 DEF DevicePin
  <2>3. dev'.task.kind = "idle" /\ dev'.multisigs = dev.multisigs
    BY <1>2, <2>2, ConstantTypes DEF Devices
  <2>4. QED
    BY <2>1, <2>2, <2>3, RejectionLockstep DEF Contents
<1>5. QED
  BY <1>3, <1>4

LEMMA FragmentLockstep ==
  ASSUME TypeOK, Purpose, Ready, NEW request \in Orders, Answering(request),
         DeviceFragment(request)
  PROVE  Lockstep'
<1> DEFINE task == dev.task
           psbt == task.request.arg
           n == request.seqnum
<1>1. /\ Reading /\ Stream = <<>> /\ out' = <<>> /\ Asked(request)
      /\ UNCHANGED <<browser, call, result, ids, past, calls, faults>>
  BY DEF Answering
<1>2. /\ request \in Requests /\ task \in Tasks /\ task.kind = "fetch" /\ Proper(task)
      /\ task.request \in Requests /\ task.next \in Nat /\ n \in Nat /\ dev \in Devices
  BY ArgTypes, TypeParts DEF DeviceFragment, Tasks, Requests
<1>3. psbt \in Psbts /\ task.next \in 2..Fragments[psbt] /\ Fragments[psbt] \in Nat
  BY <1>2, FragmentTypes DEF Proper
<1>4. PICK origin \in Requests : origin = task.request
  BY <1>2
<1>5. CASE /\ request.method = "get_extended_data" /\ request.origid = task.request.id
           /\ n = task.next
  <2> DEFINE reply == Fragment(request, origin, n)
             further == [task EXCEPT !.next = n + 1]
  <2>1. /\ Put(reply)
        /\ dev' = [dev EXCEPT !.task = IF n = Fragments[psbt] THEN Idle ELSE further]
    BY <1>2, <1>4, <1>5 DEF DeviceFragment
  <2>2. n \in 1..Fragments[psbt]
    BY <1>3, <1>5
  <2>3. /\ reply \in Replies /\ reply.of = request.of /\ reply.typ = "bytes" /\ reply.arg = psbt
        /\ reply.seqnum = n /\ reply.seqlen = Fragments[psbt]
    BY <1>2, <1>3, <1>4, <2>2, PieceTypes
  <2> HIDE DEF reply
  <2>4. call.st = "GettingExtendedData"
    BY <1>1, <1>5, AskedRunning, ExpectedStates DEF Asked
  <2>5. /\ call.job.arg = psbt /\ call.next = n /\ task.request.id = call.origid
        /\ request.arg = call.job.arg
    BY <1>1, <1>5, <2>4 DEF Ready, Fetching, Asked
  <2>6. Fits(reply)'
    <3>1. Expected' = "get_extended_data" /\ call'.next = n
      BY <1>1, <2>4, <2>5 DEF Expected
    <3>2. reply.typ = "bytes" /\ reply.seqnum = n
      BY <2>3
    <3>3. QED
      BY <3>1, <3>2 DEF Fits
  <2>7. CASE n = Fragments[psbt]
    <3>1. ~Unfinished(reply)
      BY <1>3, <2>3, <2>7 DEF Unfinished
    <3>2. dev' = [dev EXCEPT !.task = Idle]
      BY <2>1, <2>7
    <3>3. dev'.task.kind = "idle" /\ dev'.multisigs = dev.multisigs
      BY <3>2, TaskTypes, ConstantTypes
    <3>4. QED
      BY <2>1, <2>3, <2>5, <2>6, <3>1, <3>3, AnswersLockstep
  <2>8. CASE n # Fragments[psbt]
    <3>1. /\ further \in Tasks /\ further.kind = "fetch" /\ further.request = task.request
      BY <1>2 DEF Tasks
    <3>2. dev' = [dev EXCEPT !.task = further]
      BY <2>1, <2>8
    <3> HIDE DEF further
    <3>3. dev'.task = further /\ dev'.multisigs = dev.multisigs
      BY <3>1, <3>2, TaskTypes
    <3>4. Unfinished(reply)
      BY <1>3, <2>2, <2>3, <2>8 DEF Unfinished
    <3>5. dev'.task.kind = "fetch" /\ dev'.task.request.id = call.origid /\ call.st # "Running"
      BY <2>4, <2>5, <3>1, <3>3
    <3>6. QED
      BY <2>1, <2>3, <2>5, <2>6, <3>3, <3>4, <3>5, AnswersLockstep
  <2>9. QED
    BY <2>7, <2>8
<1>6. CASE ~(/\ request.method = "get_extended_data" /\ request.origid = task.request.id
             /\ n = task.next)
  <2>1. call.st = "Running" /\ past # {}
    <3>1. CASE call.st = "GettingExtendedData"
      BY <1>1, <1>6, <3>1, ExpectedStates DEF Ready, Fetching, Asked
    <3>2. CASE call.st = "WaitingFinalHandshake"
      BY <1>2, <3>2 DEF Ready
    <3>3. CASE call.st = "Running"
      BY <1>2, <3>3 DEF Ready
    <3>4. QED
      BY <1>1, <3>1, <3>2, <3>3, ExpectedStates
  <2>2. Put(Rejection(request, "protocol")) /\ dev' = [dev EXCEPT !.task = Idle]
    BY <1>2, <1>6 DEF DeviceFragment
  <2>3. dev'.task.kind = "idle" /\ dev'.multisigs = dev.multisigs
    BY <2>2, TaskTypes, ConstantTypes
  <2>4. QED
    BY <2>1, <2>2, <2>3, RejectionLockstep DEF Contents
<1>7. QED
  BY <1>5, <1>6

LEMMA SignLockstep ==
  ASSUME TypeOK, Purpose, NEW request \in Orders, Answering(request), call.st = "Running",
         request.method = "sign_psbt", Approve(request)
  PROVE  Lockstep'
<1> DEFINE psbt == request.arg
           task == [Idle EXCEPT !.kind = "fetch", !.request = request, !.next = 2]
<1>1. /\ Reading /\ Stream = <<>> /\ out' = <<>> /\ Asked(request)
      /\ UNCHANGED <<browser, call, result, ids, past, calls, faults>>
  BY DEF Answering
<1>2. psbt \in Psbts /\ request \in Requests
  BY ArgTypes DEF Legal
<1>3. Fragments[psbt] \in Nat /\ Fragments[psbt] > 0 /\ 1 \in 1..Fragments[psbt]
  BY <1>2, FragmentTypes
<1>4. /\ dev' = [dev EXCEPT !.task = IF Fragments[psbt] = 1 THEN Idle ELSE task]
      /\ \/ Put(Fragment(request, request, 1))
         \/ /\ Fragments[psbt] = 1
            /\ Put([Fragment(request, request, 1) EXCEPT !.seqnum = 0, !.seqlen = 0])
  BY DEF Approve
<1>5. Expected' = "sign_psbt"
  BY <1>1, AskedRunning DEF Expected
<1>6. ASSUME Fragments[psbt] = 1 PROVE dev'.task.kind = "idle" /\ dev'.multisigs = dev.multisigs
  <2>1. dev' = [dev EXCEPT !.task = Idle]
    BY <1>4, <1>6
  <2>2. QED
    BY <2>1, TaskTypes, ConstantTypes
<1>7. CASE Put(Fragment(request, request, 1))
  <2> DEFINE reply == Fragment(request, request, 1)
  <2>1. /\ reply \in Replies /\ reply.arg = psbt /\ reply.seqnum = 1 /\ reply.typ = "bytes"
        /\ reply.seqlen = Fragments[psbt] /\ reply.of = request.of /\ reply.id = request.id
    BY <1>2, <1>3, PieceTypes
  <2>2. Put(reply)
    BY <1>7
  <2> HIDE DEF reply
  <2>3. Fits(reply)'
    BY <1>5, <2>1 DEF Fits
  <2>4. CASE Fragments[psbt] = 1
    <3>1. ~Unfinished(reply)
      BY <2>1, <2>4 DEF Unfinished
    <3>2. QED
      BY <1>6, <2>1, <2>2, <2>3, <2>4, <3>1, AnswersLockstep
  <2>5. CASE Fragments[psbt] # 1
    <3>1. 2 \in 2..Fragments[psbt]
      BY <1>3, <2>5
    <3>2. task \in Tasks /\ task.kind = "fetch" /\ task.request = request
      BY <1>2, <3>1, FetchTaskTypes, ZenonT(90)
    <3>3. dev' = [dev EXCEPT !.task = task]
      BY <1>4, <2>5
    <3> HIDE DEF task
    <3>4. dev'.task = task /\ dev'.multisigs = dev.multisigs
      BY <3>2, <3>3, TaskTypes
    <3>5. Unfinished(reply)
      BY <1>3, <2>1, <2>5 DEF Unfinished
    <3>6. dev'.task.kind = "fetch" /\ dev'.task.request.id = reply.id
      BY <2>1, <3>2, <3>4
    <3>7. QED
      BY <2>1, <2>2, <2>3, <3>4, <3>5, <3>6, AnswersLockstep
  <2>6. QED
    BY <2>4, <2>5
<1>8. CASE /\ Fragments[psbt] = 1
           /\ Put([Fragment(request, request, 1) EXCEPT !.seqnum = 0, !.seqlen = 0])
  <2> DEFINE reply == [Fragment(request, request, 1) EXCEPT !.seqnum = 0, !.seqlen = 0]
  <2>1. /\ reply \in Replies /\ reply.seqnum = 0 /\ reply.seqlen = 0 /\ reply.typ = "bytes"
        /\ reply.arg = psbt /\ reply.of = request.of
    BY <1>2, <1>8, BareTypes
  <2>2. Put(reply)
    BY <1>8
  <2> HIDE DEF reply
  <2>3. Fits(reply)' /\ ~Unfinished(reply)
    BY <1>5, <2>1 DEF Fits, Unfinished
  <2>4. QED
    BY <1>6, <1>8, <2>1, <2>2, <2>3, AnswersLockstep
<1>9. QED
  BY <1>4, <1>7, <1>8

LEMMA ApprovedLockstep ==
  ASSUME TypeOK, Purpose, NEW request \in Orders, Answering(request), call.st = "Running",
         request.method \in Confirmed, Approved(request)
  PROVE  Lockstep'
<1>1. /\ Reading /\ Stream = <<>> /\ out' = <<>> /\ Asked(request)
      /\ UNCHANGED <<browser, call, result, ids, past, calls, faults>>
  BY DEF Answering
<1>2. /\ request \in Requests /\ request.arg \in Args /\ Legal(request) /\ dev \in Devices
      /\ Idle \in Tasks /\ Idle.kind = "idle"
  BY ArgTypes, TypeParts, ConstantTypes
<1>3. /\ request.method = call.wants /\ Expected' = request.method
      /\ request.arg = call.job.arg /\ call'.job.arg = request.arg
      /\ request.by = call.job.cmd
      /\ \/ call.wants = MethodOf(call.job.cmd)
         \/ /\ call.job.cmd = "ByMultisig" /\ call.wants = "get_receive_address"
            /\ Latest(call.job.arg)
  BY <1>1, AskedRunning DEF Expected, Asked, Purpose, Reading
<1>4. ASSUME NEW typ \in {"string", "bool"}, NEW what \in {"signature", "registered", "address"},
             Put(Filled(request, typ, what, request.arg)),
             dev'.multisigs = dev.multisigs \/ call.wants = MethodOf(call.job.cmd),
             dev'.task.kind = "idle",
             \/ request.method = "sign_message" /\ typ = "string" /\ what = "signature"
             \/ request.method = "register_descriptor" /\ typ = "bool" /\ what = "registered"
             \/ request.method = "register_multisig" /\ typ = "bool" /\ what = "registered"
                /\ Latest(request.arg)'
             \/ request.method = "get_receive_address" /\ typ = "string" /\ what = "address"
      PROVE  Lockstep'
  <2> DEFINE reply == Filled(request, typ, what, request.arg)
  <2>1. typ \in Types /\ what \in Contents
    BY DEF Types, Contents
  <2>2. reply.typ = typ /\ reply.what = what /\ reply.ok
    BY <1>2, <2>1, FilledTypes
  <2>3. Put(reply)
    BY <1>4
  <2> HIDE DEF reply
  <2>4. Fits(reply)'
    BY <1>3, <1>4, <2>2 DEF Fits, Latest
  <2>5. QED
    BY <1>4, <2>1, <2>3, <2>4, FilledLockstep DEF reply
<1>5. CASE /\ request.method = "sign_message" /\ dev' = [dev EXCEPT !.task = Idle]
           /\ Put(Filled(request, "string", "signature", request.arg))
  <2>1. dev'.task.kind = "idle" /\ dev'.multisigs = dev.multisigs
    BY <1>2, <1>5, TaskTypes
  <2>2. QED
    BY <1>4, <1>5, <2>1
<1>6. CASE /\ request.method = "register_descriptor"
           /\ dev' = [dev EXCEPT !.task = Idle, !.wallets = @ \cup {request.arg}]
           /\ Put(Filled(request, "bool", "registered", request.arg))
  <2>1. dev'.task.kind = "idle" /\ dev'.multisigs = dev.multisigs
    BY <1>2, <1>6 DEF Devices
  <2>2. QED
    BY <1>4, <1>6, <2>1
<1>7. CASE /\ request.method = "register_multisig"
           /\ dev' = [dev EXCEPT !.task = Idle,
                                 !.multisigs = (@ \ Registered(request.arg)) \cup {request.arg}]
           /\ Put(Filled(request, "bool", "registered", request.arg))
  <2>1. /\ dev'.task.kind = "idle"
        /\ dev'.multisigs = (dev.multisigs \ Registered(request.arg)) \cup {request.arg}
    BY <1>2, <1>7 DEF Devices
  <2>2. Latest(request.arg)'
    BY <2>1 DEF Latest, Registered
  <2>3. call.wants = MethodOf(call.job.cmd)
    BY <1>3, <1>7
  <2>4. QED
    BY <1>4, <1>7, <2>1, <2>2, <2>3
<1>8. CASE /\ request.method \notin {"sign_psbt", "sign_message", "register_descriptor",
                                     "register_multisig"}
           /\ dev' = [dev EXCEPT !.task = Idle]
           /\ \E shown \in IF request.by = "ByMultisig" THEN Registered(request.arg)
                           ELSE {request.arg} :
                Put(Filled(request, "string", "address", shown))
  <2>1. request.method = "get_receive_address"
    BY <1>8 DEF Confirmed
  <2>2. request.by = "ByMultisig" => Registered(request.arg) = {request.arg}
    <3>1. MethodOf("ByMultisig") = "register_multisig"
      BY DEF MethodOf
    <3>2. QED
      BY <1>3, <2>1, <3>1 DEF Latest
  <2>3. Put(Filled(request, "string", "address", request.arg))
    BY <1>8, <2>2
  <2>4. dev'.task.kind = "idle" /\ dev'.multisigs = dev.multisigs
    BY <1>2, <1>8, TaskTypes
  <2>5. QED
    BY <1>4, <2>1, <2>3, <2>4
<1>9. QED
  BY <1>5, <1>6, <1>7, <1>8 DEF Approved

LEMMA DeclineLockstep ==
  ASSUME TypeOK, Purpose, NEW request \in Orders, Answering(request), call.st = "Running",
         Decline(request)
  PROVE  Lockstep'
<1>1. /\ Reading /\ Stream = <<>> /\ out' = <<>> /\ Asked(request)
      /\ UNCHANGED <<browser, call, result, ids, past, calls, faults>>
  BY DEF Answering
<1>2. dev' = [dev EXCEPT !.task = Idle] /\ request \in Requests
  BY ArgTypes DEF Decline
<1>3. dev'.task.kind = "idle" /\ dev'.multisigs = dev.multisigs
  BY <1>2, TaskTypes, ConstantTypes
<1>4. CASE Put(Rejection(request, "declined"))
  BY <1>3, <1>4, RejectionLockstep DEF Contents, Refusals
<1>5. CASE /\ request.method \in {"register_descriptor", "register_multisig"}
           /\ Put([Reply(request, "bool") EXCEPT !.ok = FALSE, !.what = "declined"])
  <2> DEFINE reply == [Reply(request, "bool") EXCEPT !.ok = FALSE, !.what = "declined"]
  <2>1. /\ reply \in Replies /\ reply.typ = "bool" /\ ~reply.ok /\ reply.what = "declined"
        /\ reply.of = request.of
    BY <1>2, DeclinedTypes
  <2>2. Put(reply)
    BY <1>5
  <2> HIDE DEF reply
  <2>3. Expected' = request.method
    BY <1>1, AskedRunning DEF Expected
  <2>4. Fits(reply)' /\ ~Unfinished(reply)
    BY <1>5, <2>1, <2>3 DEF Fits, Unfinished
  <2>5. QED
    BY <1>3, <2>1, <2>2, <2>4, AnswersLockstep
<1>6. QED
  BY <1>4, <1>5 DEF Decline

LEMMA DeviceLockstep ==
  ASSUME TypeOK, Purpose, Phase, DeviceReads \/ UserDecides
  PROVE  Lockstep'
<1>1. out \in Seq(Orders) /\ dev.task.request \in Orders /\ Proper(dev.task)
  BY TypeParts DEF Tasks, Proper, Orders
<1>2. CASE DeviceReads
  <2> DEFINE request == Head(out)
  <2>1. /\ out # <<>> /\ out' = Tail(out)
        /\ DeviceIdle(request) \/ DevicePin(request) \/ DeviceFragment(request)
        /\ UNCHANGED <<browser, call, result, ids, past, calls, faults>>
    BY <1>2 DEF DeviceReads
  <2>2. Requested
    BY <2>1 DEF Phase, Between, AtServer, AtUser, Answered, Waits
  <2>3. request = out[1] /\ request \in Orders /\ out' = <<>>
    <3>1. request = out[1] /\ request \in Orders /\ out' \in Seq(Orders) /\ Len(out') = Len(out) - 1
      BY <1>1, <2>1, TailFacts
    <3>2. Len(out) = 1
      BY <2>2 DEF Requested
    <3>3. QED
      BY <3>1, <3>2, EmptyFacts
  <2>4. Answering(request) /\ Ready
    BY <2>1, <2>2, <2>3 DEF Requested, Answering
  <2> HIDE DEF request
  <2>5. QED
    BY <2>1, <2>3, <2>4, IdleLockstep, PinLockstep, FragmentLockstep
<1>3. CASE UserDecides
  <2> DEFINE request == dev.task.request
  <2>1. /\ dev.task.kind = "user"
        /\ Approve(request) \/ Decline(request)
        /\ UNCHANGED <<browser, call, result, ids, out, past, calls, faults>>
    BY <1>3 DEF UserDecides
  <2>2. AtUser
    <3>1. ~Requested
      BY <2>1, ExpectedStates DEF Requested, Ready, Fetching
    <3>2. ~Answered
      BY <2>1 DEF Answered, Answers
    <3>3. QED
      BY <2>1, <3>1, <3>2 DEF Phase, Between, AtServer
  <2>3. Answering(request) /\ call.st = "Running"
    BY <2>1, <2>2 DEF AtUser, Waits, Answering
  <2>4. request \in Orders /\ request.method \in Confirmed
    BY <1>1, <2>1 DEF Proper
  <2> HIDE DEF request
  <2>5. QED
    BY <2>1, <2>3, <2>4, SignLockstep, ApproveSteps, ApprovedLockstep, DeclineLockstep
<1>4. QED
  BY <1>2, <1>3

LEMMA LockstepNext ==
  ASSUME TypeOK, Sequel, Lockstep, [Next]_vars
  PROVE  Lockstep'
<1>1. TypeOK'
  BY TypeNext
<1>2. CASE Next /\ "abandoned" \in past'
  BY <1>2 DEF Lockstep
<1>3. CASE Next /\ "abandoned" \notin past'
  <2>1. Purpose /\ Phase
    BY <1>3, PastGrows DEF Lockstep
  <2>2. ~GivesUp
    BY <1>3 DEF GivesUp
  <2>3. QED
    BY <1>1, <1>3, <2>1, <2>2, NextSteps, StartLockstep, ReadLockstep, ServerLockstep,
       DeviceLockstep
<1>4. CASE UNCHANGED vars
  <2>1. UNCHANGED <<browser, call, result, ids, out, in, dev, past, calls, faults>>
    BY <1>4 DEF vars
  <2>2. Purpose => Purpose'
    BY <2>1 DEF Purpose, Calling, Latest, Registered
  <2>3. Phase => Phase'
    <3>1. Stream' = Stream /\ Expected' = Expected
      BY <2>1 DEF Stream, Expected
    <3>2. Ready => Ready'
      BY <2>1 DEF Ready, Fetching
    <3>3. \A request : Asked(request) => Asked(request)'
      BY <2>1, <3>1 DEF Asked
    <3>4. \A reply : Fits(reply) => Fits(reply)'
      BY <2>1, <3>1 DEF Fits, Latest, Registered
    <3>5. \A reply : Answers(reply) => Answers(reply)'
      BY <2>1, <3>4 DEF Answers, Unfinished
    <3>6. QED
      BY <2>1, <3>1, <3>2, <3>3, <3>5
         DEF Phase, Between, AtServer, Requested, AtUser, Answered, Waits, Reading, Calling
  <2>4. OwnAnswer => OwnAnswer'
    BY <2>1 DEF OwnAnswer
  <2>5. QED
    BY <2>1, <2>2, <2>3, <2>4 DEF Lockstep
<1>5. QED
  BY <1>2, <1>3, <1>4

LEMMA LockstepInit ==
  ASSUME Init
  PROVE  Lockstep
<1>1. /\ call = NoCall /\ in = <<>> /\ out = <<>> /\ result.status = "none" /\ dev.task.kind = "idle"
  <2>1. NewDevice.task = Idle /\ [NewDevice EXCEPT !.unlocked = TRUE].task = Idle
    BY ConstantTypes DEF NewDevice
  <2>2. QED
    BY <2>1, ConstantTypes DEF Init
<1>2. ~Calling /\ Stream = <<>>
  BY <1>1, ConstantTypes DEF Calling, Stream
<1>3. Between
  BY <1>1, <1>2 DEF Between
<1>4. QED
  BY <1>1, <1>2, <1>3 DEF Lockstep, Purpose, Phase, OwnAnswer

\* What a call returns was made for its own request and is what was asked for, however many
\* calls, whatever the PSBTs and wallets, and however a read cuts the stream, as long as no
\* call was given up before: of a call, its request, its user's decision and its answer there
\* is only ever one at a time, and nothing is left for the next call.
THEOREM OwnAnswers == Spec => []OwnAnswer
<1> DEFINE Inv == TypeOK /\ Sequel /\ Lockstep
<1>1. Init => Inv
  BY TypeInit, SequelInit, LockstepInit
<1>2. Inv /\ [Next]_vars => Inv'
  BY TypeNext, SequelNext, LockstepNext
<1>3. Inv => OwnAnswer
  BY DEF Lockstep, OwnAnswer
<1>4. QED
  BY <1>1, <1>2, <1>3, PTL DEF Spec

LEMMA TransmitReason ==
  ASSUME NEW request, NEW next, Transmit(request, next)
  PROVE  FailsForAReason'
<1>1. CASE Sends(request, next)
  <2>1. result'.status = "none"
    BY <1>1, ConstantTypes DEF Sends
  <2>2. QED
    BY <2>1 DEF FailsForAReason
<1>2. CASE Breaks
  <2>1. past' # {}
    BY <1>2 DEF Breaks
  <2>2. QED
    BY <2>1 DEF FailsForAReason
<1>3. QED
  BY <1>1, <1>2, TransmitSteps

LEMMA TakesReason ==
  ASSUME TypeOK, Sequel, Purpose, Phase, Reading, NEW reply, Takes(reply)
  PROVE  FailsForAReason'
<1>1. /\ reply \in Replies /\ Len(Stream) >= 2 /\ Stream[1] = <<reply, "head">>
      /\ ReplySteps(reply)
  BY DEF Takes
<1>2. Answers(reply)
  BY <1>1, TakesAnswer
<1>3. ASSUME NEW request, NEW next, Transmit(request, next) PROVE FailsForAReason'
  BY <1>3, TransmitReason
<1>4. ASSUME NEW what, Fails(what), Objected(reply, what) PROVE FailsForAReason'
  BY <1>1, <1>2, <1>4, ObjectionFits DEF Fails, FailsForAReason
<1>5. ASSUME NEW of, NEW what, NEW arg, NEW data, Succeeds(of, what, arg, data)
      PROVE  FailsForAReason'
  BY <1>5 DEF Succeeds, FailsForAReason
<1>6. CASE AsksServer(reply)
  <2>1. UNCHANGED result /\ result.status = "none"
    BY <1>6 DEF AsksServer, Purpose, Reading
  <2>2. QED
    BY <2>1 DEF FailsForAReason
<1>7. QED
  BY <1>1, <1>3, <1>4, <1>5, <1>6 DEF ReplySteps, SendsSecond, SendsFurther, SendsAddress

LEMMA ReasonNext ==
  ASSUME TypeOK, Sequel, Lockstep, FailsForAReason, [Next]_vars
  PROVE  FailsForAReason'
<1>1. ASSUME past' # {} PROVE FailsForAReason'
  BY <1>1 DEF FailsForAReason
<1>2. ASSUME UNCHANGED <<result, past>> PROVE FailsForAReason'
  BY <1>2 DEF FailsForAReason
<1>3. ASSUME NEW request, NEW next, Transmit(request, next) PROVE FailsForAReason'
  BY <1>3, TransmitReason
<1>4. CASE Next /\ past' = {}
  <2>1. Purpose /\ Phase
    BY <1>4, PastGrows DEF Lockstep
  <2>2. ASSUME NEW job \in Jobs, StartCall(job) PROVE FailsForAReason'
    BY <1>3, <2>2 DEF StartCall, FailsForAReason, NoResult
  <2>3. CASE ReadSteps
    <3>1. Reading
      BY <2>3 DEF ReadSteps
    <3>2. QED
      BY <1>2, <2>1, <2>3, <3>1, NothingDiscarded, TakesReason DEF ReadSteps, Keeps
  <2>4. CASE GivesUp
    BY <1>4, <2>4 DEF GivesUp
  <2>5. CASE OnPinServer
    BY <1>3, <1>4, <2>5 DEF OnPinServer
  <2>6. CASE DeviceSteps
    BY <1>2, <2>6 DEF DeviceSteps
  <2>7. QED
    BY <1>4, <2>2, <2>3, <2>4, <2>5, <2>6, NextSteps
<1>5. CASE UNCHANGED vars
  BY <1>2, <1>5 DEF vars
<1>6. QED
  BY <1>1, <1>4, <1>5

\* A call of a client nothing went wrong for fails only because its command has no request,
\* or because the device or its user refused.
THEOREM FailuresHaveReasons == Spec => []FailsForAReason
<1> DEFINE Inv == TypeOK /\ Sequel /\ Lockstep /\ FailsForAReason
<1>1. Init => Inv
  BY TypeInit, SequelInit, LockstepInit DEF Init, FailsForAReason, NoResult
<1>2. Inv /\ [Next]_vars => Inv'
  BY TypeNext, SequelNext, LockstepNext, ReasonNext
<1>3. QED
  BY <1>1, <1>2, PTL DEF Spec
=============================================================================
