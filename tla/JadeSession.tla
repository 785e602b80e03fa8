----------------------------- MODULE JadeSession -----------------------------
(***************************************************************************)
(* One Jade client of the library: the per-call interpreter                *)
(* (bhwi/src/jade/mod.rs), the driver that routes what it transmits to the *)
(* device or to the PIN server (bhwi-async/src/lib.rs), and the stream of  *)
(* CBOR messages over TCP or a serial port                                 *)
(* (bhwi-async/src/transport/jade/mod.rs), or a browser's serial port      *)
(* (bhwi-wasm/src/webserial.rs), against a device, its user and a PIN      *)
(* server, modelled from how that code uses them.                          *)
(*                                                                         *)
(* The stream outlives the calls, the buffer of a read does not: a reply   *)
(* whose call was dropped waits for the next call, which takes whatever    *)
(* has the type it expects, since a reply's id is never compared with the  *)
(* request's.  A read that gets two replies at once loses both, and one    *)
(* that is dropped in the middle leaves the rest of a reply behind.  A     *)
(* browser's read does not look for the end of a reply: it returns what    *)
(* has come when the stream falls silent.                                  *)
(*                                                                         *)
(* Abstracted: a reply is two pieces of the stream; a signed PSBT is a     *)
(* sequence of fragments; a multisig's name is what it is hashed from; a   *)
(* device that asks for its PIN server names at least one URL of it.       *)
(***************************************************************************)
EXTENDS Naturals, Sequences, FiniteSets

CONSTANTS
  Psbts,      \* PSBTs to sign
  Fragments,  \* in how many fragments each is returned once signed
  Multisig,   \* multisig wallets to show an address of: their MultisigDisplayAddress
  Jobs,       \* the calls of the client: a command and its argument
  Browsers,   \* whether the client may run in a browser, or not in one
  MaxCalls,   \* bound: calls
  MaxFaults,  \* bound: dropped calls, failed writes, PIN server failures, restarts
  ReadMax     \* bound: pieces one read returns

ASSUME FragmentsAssumption == Fragments \in [Psbts -> Nat \ {0}]
ASSUME BrowsersAssumption == Browsers \subseteq BOOLEAN
ASSUME BoundsAssumption == MaxCalls \in Nat /\ MaxFaults \in Nat /\ ReadMax \in Nat \ {0}

VARIABLES
  browser,  \* where the client runs, once and for all
  call,     \* JadeInterpreter and the read in progress
  result,   \* how the last call ended
  ids,      \* REQUEST_COUNTER
  out, in,  \* requests the device has not read, pieces of replies the host has not
  dev,      \* the device: unlocked, what it is doing, what is registered
  past,     \* what has gone wrong so far
  calls, faults

vars == <<browser, call, result, ids, out, in, dev, past, calls, faults>>

-----------------------------------------------------------------------------
(* Commands, requests and replies.                                         *)

Unsupported == {"Setup", "Wipe", "Restore", "TogglePassphrase", "Backup"}
Displays == {"ByDescriptor", "ByPath", "ByMultisig"}
Commands == {"Unlock", "GetInfo", "GetFingerprint", "GetXpub", "RegisterWallet", "SignMessage",
             "SignTx"} \cup Displays

Multisigs == DOMAIN Multisig

ASSUME JobsAssumption ==
  \A job \in Jobs :
    /\ job.cmd \in Commands \cup Unsupported
    /\ job.cmd = "SignTx" => job.arg \in Psbts
    /\ job.cmd = "ByMultisig" => job.arg \in Multisigs

\* The name a multisig is registered under: a hash of the script type, the
\* threshold and the sorted origins, not of the keys nor of their order.
MultisigName(m) ==
  LET keys == Multisig[m].keys
      Origins == {keys[i].origin : i \in DOMAIN keys}
  IN  <<Multisig[m].type, Multisig[m].threshold,
        {<<o, Cardinality({i \in DOMAIN keys : keys[i].origin = o})>> : o \in Origins}>>

\* jade_multisig_command takes extended keys with an origin and a concrete path.
ValidKey(key) == key.kind = "xpub" /\ key.wildcard = "none" /\ key.origin # "none"

\* Jade shows an address of these formats by path.
PathFormats == {"default", "p2pkh", "p2sh", "p2wpkh"}

\* Calls whose command cannot be converted, or whose request cannot be built.
Rejected(job) ==
  \/ job.cmd \in Unsupported
  \/ job.cmd = "ByPath" /\ job.arg \notin PathFormats
  \/ /\ job.cmd = "ByMultisig"
     /\ LET keys == Multisig[job.arg].keys IN \E i \in DOMAIN keys : ~ValidKey(keys[i])
  \/ job.cmd = "SignMessage" /\ job.arg = "not utf8"

Methods == {"auth_user", "pin", "get_xpub", "sign_message", "sign_psbt", "get_extended_data",
            "get_receive_address", "register_descriptor", "register_multisig", "get_version_info"}

\* The request start sends for a command.
MethodOf(cmd) ==
  CASE cmd = "Unlock" -> "auth_user"
    [] cmd \in {"GetFingerprint", "GetXpub"} -> "get_xpub"
    [] cmd = "SignMessage" -> "sign_message"
    [] cmd = "SignTx" -> "sign_psbt"
    [] cmd \in {"ByDescriptor", "ByPath"} -> "get_receive_address"
    [] cmd = "RegisterWallet" -> "register_descriptor"
    [] cmd = "ByMultisig" -> "register_multisig"
    [] OTHER -> "get_version_info"

\* of is the call that sent it, which the device does not see.
Request(method, job) ==
  [method |-> method, id |-> 0, of |-> 0, by |-> job.cmd, arg |-> job.arg, origid |-> 0,
   seqnum |-> 0, seqlen |-> 0]

\* typ is what the reply's result can be parsed as; what and arg are its
\* content; 0 stands for a sequence number that is left out.
Types == {"bool", "string", "bytes", "info", "http", "error"}
Reply(request, typ) ==
  [id |-> request.id, of |-> request.of, typ |-> typ, ok |-> TRUE, what |-> "none",
   arg |-> "none", data |-> <<>>, seqnum |-> 0, seqlen |-> 0]

Content(psbt) == [i \in 1..Fragments[psbt] |-> <<psbt, i>>]

States == {"none", "Running", "WaitingPinServer", "WaitingFinalHandshake", "GettingExtendedData"}
NoJob == [cmd |-> "none", arg |-> "none"]
NoCall == [st |-> "none", n |-> 0, job |-> NoJob, wants |-> "none", buf |-> <<>>, origid |-> 0,
           next |-> 0, seqlen |-> 0, chunks |-> <<>>]
NoResult == [status |-> "none", why |-> "none", job |-> NoJob, of |-> 0, what |-> "none",
             arg |-> "none", data |-> <<>>]

\* The device does one thing at a time: it waits for its user, for the next
\* request of a PSBT's fragments, or for the PIN server's answer.
Idle == [kind |-> "idle", request |-> Request("auth_user", NoJob), next |-> 0]
NewDevice == [unlocked |-> FALSE, task |-> Idle, multisigs |-> {}, wallets |-> {}]

Init ==
  /\ browser \in Browsers
  /\ call = NoCall
  /\ result = NoResult
  /\ ids = 1
  /\ out = <<>> /\ in = <<>>
  /\ dev \in {NewDevice, [NewDevice EXCEPT !.unlocked = TRUE]}
  /\ past = {}
  /\ calls = 0 /\ faults = 0

-----------------------------------------------------------------------------
(* The host.                                                               *)

Calling == call.st # "none"

\* request: a new id and a write, which may fail and end the call.
Transmit(request, next) ==
  /\ ids' = ids + 1
  /\ \/ /\ out' = Append(out, [request EXCEPT !.id = ids, !.of = next.n])
        /\ call' = [next EXCEPT !.buf = <<>>]
        /\ result' = NoResult
        /\ UNCHANGED <<past, faults>>
     \/ /\ faults < MaxFaults
        /\ faults' = faults + 1
        /\ past' = past \cup {"failed"}
        /\ call' = NoCall
        /\ result' = [NoResult EXCEPT !.status = "err", !.why = "transport"]
        /\ UNCHANGED out

\* The call ends; its interpreter and what it has read go with it.
Return(res) ==
  /\ call' = NoCall
  /\ result' = [res EXCEPT !.job = IF res.status = "ok" THEN call.job ELSE NoJob]
  /\ UNCHANGED <<ids, out, past, faults>>

\* MUTANT: an error is skipped and the next reply waited for.
Fail_Waits(why, what) ==
  /\ call' = [call EXCEPT !.buf = <<>>]
  /\ UNCHANGED <<result, ids, out, past, faults>>

\* what says what the device objected to, if it is the device that did.
Fail(why, what) == Return([NoResult EXCEPT !.status = "err", !.why = why, !.what = what])

Done(reply) ==
  Return([NoResult EXCEPT !.status = "ok", !.of = reply.of, !.what = reply.what, !.arg = reply.arg])

\* run_command: a new interpreter converts the command and sends its request.
StartCall(job) ==
  /\ ~Calling /\ result.status # "panic"
  /\ calls < MaxCalls
  /\ calls' = calls + 1
  /\ IF Rejected(job)
     THEN /\ result' = [NoResult EXCEPT !.status = "err", !.why = "rejected"]
          /\ UNCHANGED <<call, ids, out, past, faults>>
     ELSE Transmit(Request(MethodOf(job.cmd), job),
                   [NoCall EXCEPT !.st = "Running", !.n = calls + 1, !.job = job,
                                  !.wants = MethodOf(job.cmd)])
  /\ UNCHANGED <<browser, in, dev>>

\* parse_signed_psbt: what is not a whole PSBT may still parse.
SignedPsbt(reply, data) ==
  \/ Return([NoResult EXCEPT !.status = "ok", !.of = reply.of, !.what = "psbt", !.data = data])
  \/ (\A p \in Psbts : data # Content(p)) /\ Fail("cbor", "none")

\* from_response, into_result: the type expected, and the error or the result.
Expects(reply, typ, Then) ==
  CASE reply.typ = "error" -> Fail("rpc", reply.what)
    [] reply.typ = typ -> Then
    [] OTHER -> Fail("cbor", "none")

\* from_response_bytes: a reply without a result, as an error is, is not
\* accepted by the parser: its result field is read by serde_bytes and has no
\* default.  A string is taken for bytes, which are no PSBT.
ExpectsBytes(reply, Then) == IF reply.typ = "bytes" THEN Then ELSE Fail("cbor", reply.what)

ExtendedDataRequest(job, origid, seqnum, seqlen) ==
  [Request("get_extended_data", job) EXCEPT !.origid = origid, !.seqnum = seqnum, !.seqlen = seqlen]

\* MUTANT: the first fragment's number is not looked at.
OnSignPsbt_AnyFirst(reply) ==
  LET seqlen == IF reply.seqlen = 0 THEN 1 ELSE reply.seqlen
  IN  IF seqlen <= 1 THEN SignedPsbt(reply, reply.data)
      ELSE Transmit(ExtendedDataRequest(call.job, reply.id, 2, seqlen),
                    [call EXCEPT !.st = "GettingExtendedData", !.origid = reply.id,
                                 !.next = 2, !.seqlen = seqlen, !.chunks = reply.data])

\* The first fragment, or the only one.
OnSignPsbt(reply) ==
  LET seqnum == IF reply.seqnum = 0 THEN 1 ELSE reply.seqnum
      seqlen == IF reply.seqlen = 0 THEN 1 ELSE reply.seqlen
  IN  CASE seqnum # 1 -> Fail("unexpected", "none")
        [] seqnum = 1 /\ seqlen <= 1 -> SignedPsbt(reply, reply.data)
        [] OTHER ->
             Transmit(ExtendedDataRequest(call.job, reply.id, seqnum + 1, seqlen),
                      [call EXCEPT !.st = "GettingExtendedData", !.origid = reply.id,
                                   !.next = seqnum + 1, !.seqlen = seqlen, !.chunks = reply.data])

\* MUTANT: the last fragment is asked for once more.
LastFragment_OneMore(seqnum) == seqnum > call.seqlen

LastFragment(seqnum) == seqnum >= call.seqlen

\* The fragments that follow, each asked for by its number.
OnExtendedData(reply) ==
  LET seqnum == IF reply.seqnum = 0 THEN call.next ELSE reply.seqnum
      chunks == call.chunks \o reply.data
  IN  CASE seqnum # call.next -> Fail("unexpected", "none")
        [] seqnum = call.next /\ LastFragment(seqnum) -> SignedPsbt(reply, chunks)
        [] OTHER ->
             Transmit(ExtendedDataRequest(call.job, call.origid, seqnum + 1, call.seqlen),
                      [call EXCEPT !.next = seqnum + 1, !.chunks = chunks])

\* auth_user is answered by true, or by what to ask the PIN server.  Whatever
\* the answer, a bool ends the call.
OnAuth(reply) ==
  CASE reply.typ = "error" -> Fail("rpc", reply.what)
    [] reply.typ = "bool" -> Done(reply)
    [] reply.typ = "http" -> /\ call' = [call EXCEPT !.st = "WaitingPinServer", !.buf = <<>>]
                             /\ UNCHANGED <<result, ids, out, past, faults>>
    [] OTHER -> Fail("cbor", "none")

OnFinalHandshake(reply) ==
  Expects(reply, "bool", IF reply.ok THEN Done(reply) ELSE Fail("refused", reply.what))

\* MUTANT: the address is asked for whether the wallet was registered or not.
OnRegisterMultisig_Unchecked(reply) ==
  Expects(reply, "bool",
    Transmit(Request("get_receive_address", call.job), [call EXCEPT !.wants = "get_receive_address"]))

\* RegisterMultisig: once registered, its address is asked for by its name.
OnRegisterMultisig(reply) ==
  Expects(reply, "bool",
    IF reply.ok
    THEN Transmit(Request("get_receive_address", call.job),
                  [call EXCEPT !.wants = "get_receive_address"])
    ELSE Fail("unexpected", reply.what))

OnRegisterDescriptor(reply) ==
  Expects(reply, "bool", IF reply.ok THEN Done(reply) ELSE Fail("unexpected", reply.what))

\* get_xpub: the string has to be an extended key.
OnXpub(reply) == Expects(reply, "string", IF reply.what = "xpub" THEN Done(reply) ELSE Fail("cbor", "none"))

\* sign_message: the string has to be a signature in base64.  It is taken not to
\* be empty, which the code does not check: sig_bytes[1..] would panic.
OnSignature(reply) ==
  Expects(reply, "string", IF reply.what = "signature" THEN Done(reply) ELSE Fail("cbor", "none"))

\* get_receive_address: any string is an address.
OnAddress(reply) == Expects(reply, "string", Done(reply))

\* JadeInterpreter::exchange with a reply of the device.
OnReply(reply) ==
  CASE call.st = "GettingExtendedData" -> ExpectsBytes(reply, OnExtendedData(reply))
    [] call.st = "WaitingFinalHandshake" -> OnFinalHandshake(reply)
    [] call.st = "Running" /\ call.wants = "auth_user" -> OnAuth(reply)
    [] call.st = "Running" /\ call.wants = "get_xpub" -> OnXpub(reply)
    [] call.st = "Running" /\ call.wants = "sign_message" -> OnSignature(reply)
    [] call.st = "Running" /\ call.wants = "sign_psbt" -> ExpectsBytes(reply, OnSignPsbt(reply))
    [] call.st = "Running" /\ call.wants = "get_receive_address" -> OnAddress(reply)
    [] call.st = "Running" /\ call.wants = "register_descriptor" -> OnRegisterDescriptor(reply)
    [] call.st = "Running" /\ call.wants = "register_multisig" -> OnRegisterMultisig(reply)
    [] OTHER -> Expects(reply, "info", Done(reply))

ReadOn(buf) ==
  /\ call' = [call EXCEPT !.buf = buf]
  /\ UNCHANGED <<result, ids, out, past, faults>>

\* read_cbor_message: everything that has been read is handed over once a
\* whole value is there, with what follows it; from_slice then refuses that.
\* The rest of a reply read by nobody is not CBOR, or the start of a longer
\* value that is waited for.
Message(buf) ==
  CASE Head(buf)[2] = "rest" -> Fail("transport", "none") \/ ReadOn(buf)
    [] Head(buf)[2] = "head" /\ Len(buf) = 1 -> ReadOn(buf)
    [] Head(buf)[2] = "head" /\ Len(buf) = 2 -> OnReply(Head(buf)[1])
    [] OTHER -> Fail("cbor", "none")

Reading == Calling /\ call.st # "WaitingPinServer"

Read ==
  /\ ~browser /\ Reading
  /\ \E n \in 1..Len(in) :
       /\ n <= ReadMax
       /\ in' = SubSeq(in, n + 1, Len(in))
       /\ Message(call.buf \o SubSeq(in, 1, n))
  /\ UNCHANGED <<browser, dev, calls>>

\* WebSerialDevice::read: whatever comes is kept.
Gather ==
  /\ browser /\ Reading
  /\ in # <<>>
  /\ in' = Tail(in)
  /\ ReadOn(Append(call.buf, Head(in)))
  /\ UNCHANGED <<browser, dev, calls>>

\* exchange: from_slice takes one reply, no less and no more.
Gathered(buf) ==
  IF Len(buf) = 2 /\ buf[1][2] = "head" THEN OnReply(buf[1][1]) ELSE Fail("cbor", "none")

\* Nothing comes for half a second after a reply: the read is over, with all that
\* has come by then.
Quiet ==
  /\ browser /\ Reading
  /\ call.buf # <<>> /\ call.buf[Len(call.buf)][2] = "rest"
  /\ Gathered(call.buf)
  /\ UNCHANGED <<browser, in, dev, calls>>

\* Half a second passes in the middle of a reply, or a later read fails: what has
\* come is taken for the reply, and the rest is for the next call.
QuietEarly ==
  /\ browser /\ Reading
  /\ call.buf # <<>> /\ call.buf[Len(call.buf)][2] = "head"
  /\ faults < MaxFaults
  /\ faults' = faults + 1
  /\ past' = past \cup {"abandoned"}
  /\ call' = NoCall
  /\ result' = [NoResult EXCEPT !.status = "err", !.why = "cbor"]
  /\ UNCHANGED <<browser, ids, out, in, dev, calls>>

\* A first read that fails has no result, and exchange unwraps it: the client is
\* of no more use.
ReadPanics ==
  /\ browser /\ Reading /\ call.buf = <<>>
  /\ faults < MaxFaults
  /\ faults' = faults + 1
  /\ past' = past \cup {"abandoned"}
  /\ call' = NoCall
  /\ result' = [NoResult EXCEPT !.status = "panic"]
  /\ UNCHANGED <<browser, ids, out, in, dev, calls>>

\* The PIN server's answer goes to the device as it is; a failed request, or an
\* answer that is not one, ends the call.
OnPinServer ==
  /\ call.st = "WaitingPinServer"
  /\ \/ Transmit(Request("pin", call.job), [call EXCEPT !.st = "WaitingFinalHandshake"])
     \/ /\ faults < MaxFaults
        /\ faults' = faults + 1
        /\ past' = past \cup {"failed"}
        /\ call' = NoCall
        /\ result' = [NoResult EXCEPT !.status = "err", !.why = "http"]
        /\ UNCHANGED <<ids, out>>
  /\ UNCHANGED <<browser, in, dev, calls>>

\* The caller drops the future of a call, or a read fails.  A browser runs every
\* call to its end.
Abandon ==
  /\ ~browser /\ Calling
  /\ calls < MaxCalls /\ faults < MaxFaults
  /\ faults' = faults + 1
  /\ past' = past \cup {"abandoned"}
  /\ call' = NoCall
  /\ result' = NoResult
  /\ UNCHANGED <<browser, ids, out, in, dev, calls>>

\* MUTANT: ids start from 0.
Restart_FromZero ==
  /\ calls < MaxCalls /\ faults < MaxFaults
  /\ faults' = faults + 1
  /\ past' = past \cup {"abandoned"}
  /\ ids' = 0
  /\ call' = NoCall
  /\ result' = NoResult
  /\ in' \in {in, <<>>}
  /\ UNCHANGED <<browser, out, dev, calls>>

\* The process dies, or the page is loaded again, and another opens the port: ids
\* start again, and what the system had buffered may be gone.  (After the last call
\* there is nothing to see.)
Restart ==
  /\ calls < MaxCalls /\ faults < MaxFaults
  /\ faults' = faults + 1
  /\ past' = past \cup {"abandoned"}
  /\ ids' = 1
  /\ call' = NoCall
  /\ result' = NoResult
  /\ in' \in {in, <<>>}
  /\ UNCHANGED <<browser, out, dev, calls>>

HostNext ==
  \/ \E job \in Jobs : StartCall(job)
  \/ Read \/ Gather \/ Quiet \/ QuietEarly \/ ReadPanics
  \/ OnPinServer \/ Abandon \/ Restart

-----------------------------------------------------------------------------
(* The device, its user and the PIN server.                                *)

Put(reply) == in' = in \o <<<<reply, "head">>, <<reply, "rest">>>>

Rejection(request, what) == [Reply(request, "error") EXCEPT !.what = what]

\* The n-th fragment of a signed PSBT.
Fragment(request, origin, n) ==
  [Reply(request, "bytes") EXCEPT
     !.what = "psbt", !.arg = origin.arg, !.data = <<Content(origin.arg)[n]>>,
     !.seqnum = n, !.seqlen = Fragments[origin.arg]]

Registered(m) == {x \in dev.multisigs : MultisigName(x) = MultisigName(m)}

\* What the device refuses without asking its user.
Unexpected(request) == request.method \in {"pin", "get_extended_data"}
Locked(request) ==
  ~dev.unlocked /\ ~Unexpected(request) /\ request.method \notin {"auth_user", "get_version_info"}
Unknown(request) ==
  /\ request.method = "get_receive_address"
  /\ \/ request.by = "ByMultisig" /\ Registered(request.arg) = {}
     \/ request.by = "ByDescriptor" /\ request.arg \notin dev.wallets

DeviceIdle(request) ==
  /\ dev.task.kind = "idle"
  /\ CASE Unexpected(request) -> Put(Rejection(request, "protocol")) /\ UNCHANGED dev
       [] Locked(request) -> Put(Rejection(request, "locked")) /\ UNCHANGED dev
       [] dev.unlocked /\ ~Unexpected(request) /\ Unknown(request) ->
            Put(Rejection(request, "unknown")) /\ UNCHANGED dev
       [] request.method = "get_version_info" ->
            /\ Put([Reply(request, "info") EXCEPT !.what = "info", !.arg = request.arg])
            /\ UNCHANGED dev
       [] request.method = "get_xpub" /\ dev.unlocked ->
            /\ Put([Reply(request, "string") EXCEPT !.what = "xpub", !.arg = request.arg])
            /\ UNCHANGED dev
       [] request.method = "auth_user" /\ dev.unlocked ->
            /\ Put([Reply(request, "bool") EXCEPT !.what = "done", !.arg = request.arg])
            /\ UNCHANGED dev
       [] request.method = "auth_user" /\ ~dev.unlocked ->
            /\ Put(Reply(request, "http"))
            /\ dev' = [dev EXCEPT !.task = [Idle EXCEPT !.kind = "pin", !.request = request]]
       [] OTHER ->
            /\ dev' = [dev EXCEPT !.task = [Idle EXCEPT !.kind = "user", !.request = request]]
            /\ UNCHANGED in

\* The PIN server's answer opens the key, or shows that the PIN was wrong.
DevicePin(request) ==
  /\ dev.task.kind = "pin"
  /\ IF request.method = "pin"
     THEN \E right \in BOOLEAN :
            /\ Put([Reply(request, "bool") EXCEPT
                      !.ok = right, !.what = IF right THEN "done" ELSE "wrong pin", !.arg = request.arg])
            /\ dev' = [dev EXCEPT !.task = Idle, !.unlocked = right]
     ELSE /\ Put(Rejection(request, "protocol"))
          /\ dev' = [dev EXCEPT !.task = Idle]

\* The next fragment is for who asks for it by the id of the request that was
\* signed; anything else ends it.
DeviceFragment(request) ==
  /\ dev.task.kind = "fetch"
  /\ IF /\ request.method = "get_extended_data"
        /\ request.origid = dev.task.request.id
        /\ request.seqnum = dev.task.next
     THEN /\ Put(Fragment(request, dev.task.request, request.seqnum))
          /\ dev' = [dev EXCEPT !.task = IF request.seqnum = Fragments[dev.task.request.arg] THEN Idle
                                         ELSE [dev.task EXCEPT !.next = request.seqnum + 1]]
     ELSE /\ Put(Rejection(request, "protocol"))
          /\ dev' = [dev EXCEPT !.task = Idle]

DeviceReads ==
  /\ out # <<>>
  /\ out' = Tail(out)
  /\ LET request == Head(out) IN DeviceIdle(request) \/ DevicePin(request) \/ DeviceFragment(request)
  /\ UNCHANGED <<browser, call, result, ids, past, calls, faults>>

\* What the user approved is done.
Approve(request) ==
  CASE request.method = "sign_psbt" ->
         /\ \/ Put(Fragment(request, request, 1))
            \/ Fragments[request.arg] = 1
               /\ Put([Fragment(request, request, 1) EXCEPT !.seqnum = 0, !.seqlen = 0])
         /\ dev' = [dev EXCEPT !.task = IF Fragments[request.arg] = 1 THEN Idle
                                        ELSE [Idle EXCEPT !.kind = "fetch", !.request = request, !.next = 2]]
    [] request.method = "sign_message" ->
         /\ Put([Reply(request, "string") EXCEPT !.what = "signature", !.arg = request.arg])
         /\ dev' = [dev EXCEPT !.task = Idle]
    [] request.method = "register_descriptor" ->
         /\ Put([Reply(request, "bool") EXCEPT !.what = "registered", !.arg = request.arg])
         /\ dev' = [dev EXCEPT !.task = Idle, !.wallets = @ \cup {request.arg}]
    [] request.method = "register_multisig" ->
         /\ Put([Reply(request, "bool") EXCEPT !.what = "registered", !.arg = request.arg])
         /\ dev' = [dev EXCEPT !.task = Idle, !.multisigs = (@ \ Registered(request.arg)) \cup {request.arg}]
    [] OTHER ->
         \* The keys and their order are those registered, the paths the request's.
         /\ \E shown \in IF request.by = "ByMultisig" THEN Registered(request.arg) ELSE {request.arg} :
              Put([Reply(request, "string") EXCEPT !.what = "address", !.arg = shown])
         /\ dev' = [dev EXCEPT !.task = Idle]

\* What the user declined is an error, or a registration that is not made.
Decline(request) ==
  /\ \/ Put(Rejection(request, "declined"))
     \/ /\ request.method \in {"register_descriptor", "register_multisig"}
        /\ Put([Reply(request, "bool") EXCEPT !.ok = FALSE, !.what = "declined"])
  /\ dev' = [dev EXCEPT !.task = Idle]

UserDecides ==
  /\ dev.task.kind = "user"
  /\ Approve(dev.task.request) \/ Decline(dev.task.request)
  /\ UNCHANGED <<browser, call, result, ids, out, past, calls, faults>>

Next == HostNext \/ DeviceReads \/ UserDecides

\* The executor polls the call, the device and the PIN server answer and the
\* user decides: nothing obliges anybody to drop a call or start another.
Fairness ==
  /\ WF_vars(Read) /\ WF_vars(Gather) /\ WF_vars(Quiet)
  /\ WF_vars(OnPinServer) /\ WF_vars(DeviceReads) /\ WF_vars(UserDecides)

Spec == Init /\ [][Next]_vars /\ Fairness

-----------------------------------------------------------------------------
(* Properties.                                                             *)

Args == {job.arg : job \in Jobs} \cup Multisigs \cup {"none"}
Parts == Psbts \X Nat

Legal(request) ==
  /\ request.method = "sign_psbt" => request.arg \in Psbts
  /\ request.method = "register_multisig" => request.arg \in Multisigs

Requests ==
  [method : Methods, id : Nat, of : Nat, by : Commands \cup {"none"} \cup Unsupported, arg : Args,
   origid : Nat, seqnum : Nat, seqlen : Nat]

Contents == {"none", "done", "wrong pin", "xpub", "signature", "address", "registered", "psbt", "info",
             "protocol", "locked", "unknown", "declined"}
Replies ==
  [id : Nat, of : Nat, typ : Types, ok : BOOLEAN, what : Contents, arg : Args, data : Seq(Parts),
   seqnum : Nat, seqlen : Nat]
Pieces == Replies \X {"head", "rest"}

\* What the user of a device is asked to confirm.
Confirmed == {"sign_message", "sign_psbt", "get_receive_address", "register_descriptor",
              "register_multisig"}

\* What a call may be waiting for a reply to, when it has just sent its request.
Wanted == {"none"} \cup (Methods \ {"pin", "get_extended_data"})

TypeOK ==
  /\ browser \in Browsers
  /\ call \in [st : States, n : Nat, job : Jobs \cup {NoJob}, wants : Wanted,
              buf : Seq(Pieces), origid : Nat, next : Nat, seqlen : Nat, chunks : Seq(Parts)]
  /\ result.status \in {"none", "ok", "err", "panic"} /\ result.job \in Jobs \cup {NoJob}
  /\ ids \in Nat \ {0}
  /\ out \in Seq(Requests) /\ \A i \in DOMAIN out : Legal(out[i])
  /\ in \in Seq(Pieces)
  /\ dev \in [unlocked : BOOLEAN, multisigs : SUBSET Multisigs, wallets : SUBSET Args,
             task : [kind : {"idle", "user", "pin", "fetch"}, request : Requests, next : Nat]]
  /\ Legal(dev.task.request)
  /\ dev.task.kind = "user" => dev.task.request.method \in Confirmed
  /\ LET task == dev.task
     IN  task.kind = "fetch" =>
           task.request.arg \in Psbts /\ task.next \in 2..Fragments[task.request.arg]
  /\ past \subseteq {"failed", "abandoned"}
  /\ calls \in 0..MaxCalls /\ faults \in 0..MaxFaults

Kind(cmd) ==
  CASE cmd = "Unlock" -> "done"
    [] cmd = "GetInfo" -> "info"
    [] cmd \in {"GetFingerprint", "GetXpub"} -> "xpub"
    [] cmd \in Displays -> "address"
    [] cmd = "RegisterWallet" -> "registered"
    [] cmd = "SignMessage" -> "signature"
    [] OTHER -> "psbt"

\* What a call returns was made by the device for a request of this call, and
\* is what was asked for: the key of its path, the address of its wallet (also
\* when another wallet is registered under the same name), the whole of its
\* PSBT.  An unlock that succeeds leaves the device unlocked: a wrong PIN is an
\* error, at whichever of its requests.  Replies carry an id nobody compares, and
\* only a call that was dropped can make it wrong: OnAuth takes the refusal such a
\* call did not read for an answer to its own request.
OwnAnswer ==
  result.status = "ok" /\ "abandoned" \notin past =>
    /\ result.of = calls
    /\ result.what = Kind(result.job.cmd)
    /\ IF result.what = "psbt" THEN result.data = Content(result.job.arg)
       ELSE result.arg = result.job.arg
    /\ result.job.cmd = "Unlock" => dev.unlocked

\* A signed PSBT is never put together from fragments of two, or in another
\* order, whatever was left behind by the calls before: a first fragment is only
\* taken by a call that starts, and the device goes on with one request only.
SignedWhole ==
  result.status = "ok" /\ result.what = "psbt" => \E p \in Psbts : result.data = Content(p)

Refusals == {"locked", "unknown", "declined", "wrong pin"}

\* A call nothing interferes with fails only if its command cannot be converted
\* or the device refuses it: locked, not knowing the wallet, or declined by its
\* user.  The fragments asked for are those the device has, and each reply has
\* the type its request calls for.
FailsForAReason ==
  result.status = "err" /\ past = {} => result.why = "rejected" \/ result.what \in Refusals

\* Every call ends: the sequence numbers run up to the number of fragments, and
\* each request is answered.  A stream left in the middle of a reply may make
\* the next call wait for bytes that do not come, but not in a browser, which does
\* not look for the end of a reply.
CallReturns ==
  LET Sound == browser \/ "abandoned" \notin past
  IN  (Calling /\ Sound) ~> (~Calling \/ ~Sound)
=============================================================================
