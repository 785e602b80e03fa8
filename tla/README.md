# A formal model of bhwi

`bhwi` (Bitcoin hardware wallet interface) talks to four families of hardware
wallets through one driver. This directory holds TLA+ modules that model its
protocol code, TLC configurations that check them on small instances, and proofs
that TLAPS checks for every value of the constants. Paths below are relative to
the repository (`src/` is left out).

## The system

| component | code | state | operations |
|---|---|---|---|
| Command driver | `bhwi-async/src/lib.rs` | none of its own; owns a device, a transport and an HTTP client | `run_command_inner`: `start`, then send/receive and `exchange` until no transmit is left, then `end`; one command may treat a failed read as success |
| BitBox02 session | `bhwi/src/bitbox/{interpreter,noise}.rs`, `bhwi-async/src/bitbox.rs`, `bhwi-async/src/transport/bitbox/hid.rs` | `NoiseState` (handshake, two ciphers, pairing code, persisted keys), one interpreter per call | unlock, Noise XX handshake, pairing, encrypted queries, HWW NEW/RETRY loop |
| BitBox02 signing | `bhwi/src/bitbox/{interpreter,sign,antiklepto}.rs` | the sign-loop context: phase, pass, nonce, commitment, signatures | `btc_sign`: the device asks, the host answers; message signing; antiklepto |
| BitBox02 management | `bhwi/src/bitbox/interpreter.rs` | the interpreter | setup, wipe, restore, passphrase |
| BitBox02 conversions | `bhwi/src/bitbox/{api,error,policy,proto}.rs` | none | encoding and decoding |
| Framing | `bhwi/src/bitbox/u2f.rs`, `bhwi-async/src/transport/{bitbox,coldcard,ledger}/hid.rs`, `bhwi-cli/src/hid.rs`, `bhwi-wasm/src/{webhid,ledger}.rs` | none between calls; unread packets stay in the channel | frames to 64-byte packets and back |
| Coldcard | `bhwi/src/coldcard/`, `bhwi-async/src/coldcard.rs`, `.../transport/coldcard/hid.rs` | one AES-CTR engine (two stream positions), one interpreter per call | unlock, queries, upload, poll, download |
| Jade | `bhwi/src/jade/`, `bhwi-async/src/jade.rs`, `.../transport/jade/`, `bhwi-wasm/src/webserial.rs` | one interpreter per call, a request counter for the process, a byte stream | PIN-server authentication, queries, registration, signing in fragments |
| Ledger | `bhwi/src/ledger/`, `bhwi-async/src/ledger.rs` | one interpreter per call, with a delegated store and its queue | APDUs, interrupted execution, Merkle-tree proofs, yielded signatures |
| CLI | `bhwi-cli/src/` | the devices a process opened; files | discovery by type, path and fingerprint, the commands of `hwi` and `bhwi`, descriptors, udev rules |
| WASM | `bhwi-wasm/src/` | browser queues | the same driver in a browser |

How they interact. A method of the `HWI` trait builds a command and hands it to
`run_command_inner`, which owns the device for the duration of the call
(`&mut self`). The interpreter of the device is a state machine without I/O: it
says what to transmit and is given what was received. The transport turns one
transmit into frames and waits for one reply. Between calls only the *session*
survives (`NoiseState`, the Coldcard's `Engine`), and so do replies nobody read:
the channel to the device is a queue.

What is hard. Nothing matches a reply with its request, except the order. A
call is a future: it can be dropped at any `.await`, and a read can fail or time
out (`bhwi-async/src/transport/bitbox/hid.rs:113`). Session state has advanced
by then. The next call reads the reply of the previous one; that reply may be a
status byte that means "the user agreed", an answer of the right type to another
question, a signature over another transaction, a device setting that has changed
since. What the code has against it are nonces, phases, types and checks of
indices. The properties here are about whether these are enough.

What makes each component correct:

- *session*: no session without a pairing the user confirmed; the two sides'
  ciphers stay in step; a call gets its own answer or an error; every call ends.
- *signing*: each input gets its own signature, made with a nonce the host took
  part in; a host nonce is revealed once; the loop ends.
- *management*: success means done, refusal means nothing changed, a wallet is
  never replaced on a stale answer.
- *Coldcard*: the CTR streams stay in step, a file is whole, polling ends.
- *Jade*: an answer is the call's own although ids are not compared, an address is
  that of the wallet just registered, a signed PSBT has its fragments in order.
- *Ledger*: the store answers what the device asked, so that what the device shows
  is what was given; every signature yielded reaches its PSBT.
- *framing*: what is read is one whole frame, also after calls that stopped in
  the middle of one.
- *CLI*: the chosen device is the one asked for, no failure is lost, and what a
  command reports is so.

`PROJECT.json` lists every hazard of this kind at its line.

## The modules

| module | models |
|---|---|
| `OrderedCalls` | abstract specification: what an encrypted session promises to the calls made over it |
| `BitBoxSession` | the BitBox02 session, with the driver's loop and the HWW retry loop |
| `BitBoxSign` | the signing commands, over an open session |
| `BitBoxManage` | setup, wipe, restore, passphrase, over an open session |
| `ColdcardSession` | the Coldcard client: engine, interpreter, uploads, polling, downloads |
| `JadeSession` | the Jade client: interpreter, PIN server, the stream of CBOR messages, or a browser's serial port |
| `MerkleStore` | the Ledger's delegated store: trees, proofs, the five client commands, the queue |
| `LedgerClient` | the Ledger client over that store, and the device that interrupts its commands |
| `Framing` | frames in packets: U2F-HID, Coldcard and Ledger, over the system's HID or a browser's |
| `Descriptors` | what the CLI makes of keys: accounts, descriptors, a Ledger's wallet for a PSBT |
| `CliDevices` | a process of the CLI finding its device, over the HWI trait |
| `CliCommands` | the commands of `hwi` and `bhwi` on that device |
| `MC...` | their instances for TLC (`BitBoxManage` is its own) |
| `..._proofs` | the theorems about `BitBoxSession`, `BitBoxSign`, `BitBoxManage`, `ColdcardSession`, `JadeSession`, `LedgerClient` and `Framing` |
| `SequenceFacts` | lemmas about sequences that those proofs share |

`Framing` is under the sessions of the BitBox02, the Coldcard and the Ledger, which
are about whole frames; `LedgerClient` has its packets too, as an answer and an
interruption are told apart by what a first packet says. `CliDevices` is above all
of them: a call of the HWI trait is one step there. `LedgerClient` extends
`MerkleStore`, and `CliCommands` extends `CliDevices`, which extends `Descriptors`.

### BitBoxSession

`noise` is `NoiseState`: the number of the handshake that made the session, the
two nonces, the peer and whether the pairing code is kept. `pubkeys` is
`NoiseConfigData.device_static_pubkeys`. `call` is the interpreter of the call in
progress, with the names of its states. `out` and `in` are the frames in the
channel. `dev` and `job` are the device, which is not in this repository and is
modelled from what the host expects of it: it keeps one handshake, counts its
nonce, executes a request once, and may delay a reply (`NOTREADY`).

Each action is one whole step of the code, from a frame received to the next
frame written: `OnHandshake2`, for example, is the transport's match on the ACK,
`exchange` in `WaitHandshake2`, the pairing-code hook, and the write of the
verification request or the end of the call. A write may fail (`Transmit`): the
call ends, and the nonce it consumed stays consumed, as in the code
(`interpreter.rs:603`). `Abandon` is a read error, a timeout or a dropped future;
`Reconnect` is a new client over a new channel, with the persisted pairings or
without, to any device.

Abstracted: a ciphertext is the pair (handshake, nonce) and decrypts only with the
same pair, which is what the AEAD guarantees; a protobuf message is its type.

`OrderedCalls` is shown to be implemented with the nonces as its counters:
`INSTANCE OrderedCalls WITH sent <- noise.send, served <- served, got <- noise.recv`.

### BitBoxSign

`call` carries the context of `SignPsbtWaitNext`: phase, pass, signatures, nonce
and commitment. `OnSignNext` is the whole match: what the previous round allows,
the signature it may carry, then one disjunct per request type. A PSBT is the
number of the call that signs it with the kinds of its inputs; a signature says
what it signs and which host nonce is in it, which is what `verify_ecdsa` can
establish. The session below delivers requests and replies in order
(`BitBoxSession`), so the channel is a pair of queues, and `Abandon` leaves
replies in it.

### BitBoxManage

One action per shape of step, with the interpreter's states as parameters:
`OnInfo` checks the device's state for each command, `OnName`, `OnPassword`,
`OnActionDone` and `OnDone` the requests that follow. `ReadFails` is the driver's
final-disconnect rule: a failed read in `WipeWaitReset` is reported as success.

### ColdcardSession

`engine` is `Engine`: its key, 0 while it is `New`, and the positions of its two
AES-CTR streams, counted in messages. `call` is `ColdcardInterpreter` with the
names of its states. Each action is again a whole step: decrypt what came, match
on it, encrypt the next request and write it. The positions advance whether or
not the write succeeds, or what was decrypted makes sense; the engine cannot be
given another key (`encrypt.rs:45`), so a lost frame is final until a new client
is made. A ciphertext is its key and position: out of step it decrypts to no
response at all.

`dev` is the device, external: key and positions, the upload buffer, the two
files it can hand out (`file_number`), and the one thing its user is being asked.
It is `busy` while that is undecided, also towards a client that came later.
The user decides in `UserDecides`, at any time or never. Faults are `Abandon` (the
reply is still to come), `LoseReply` (a report that is short or late is lost with
the frame), a failed write in `Transmit`, which leaves nothing of the frame with
the device, and `Reconnect`, a new client with a new engine.

A file is a sequence of units that know their file and place, so that two files
never share a piece, and `Hash` is injective: what SHA-256 gives. Chunks are cut
as in the code, and the device may answer a download with less than was asked.

### JadeSession

`call` is `JadeInterpreter` with the names of its states, `wants` the method of the
request that is out, and `buf` the pieces of the read in progress: a reply is two
pieces (`head`, `rest`), so that a read can get half a reply, or two replies at
once, of which `read_cbor_message` keeps neither. `ids` is `REQUEST_COUNTER`; the
ids are carried and never compared, as in the code. One operator per state
(`OnAuth`, `OnFinalHandshake`, `OnRegisterMultisig`, `OnSignPsbt`, ...) is the match
of `exchange`, and `Read` is the transport's loop with the one that applies.
`browser` says which transport, once and for all. `WebSerialDevice::read` does not look
for the end of a reply: `Gather` adds what comes, `Quiet` is the half second of silence
after which `exchange` has what was gathered (`Gathered`), `QuietEarly` such a silence in
the middle of a reply, and `ReadPanics` the `unwrap` of a first read that failed.
`OnPinServer` is the driver's other recipient. A multisig is registered under a
name that is a hash of its script type, threshold and sorted origins
(`MultisigName`), so that two wallets can have one name. The device is external:
locked until a PIN is right, one task at a time, and its user accepts or declines.

### MerkleStore and LedgerClient

`MerkleStore` is pure: `GetProof` follows `Tree::new` and `get_proof` (the split at
the largest power of two), and the five client commands return an answer and a new
store. An element is its own hash and a list's root its leaves, which is what a
collision-free hash gives. The sizes of the protocol are constants, so that a few
elements fill an answer and the queue of `GET_MORE_ELEMENTS` is used.

`LedgerClient`'s `dev` is the device's side of the protocol, external but not
trivial: it asks for the policy, its keys, the maps of a PSBT by hash and index,
and for the rest of what did not fit; checks each against the commitment it has;
keeps what it has learned in `view`; shows it to the user; and yields one
signature at a time. On the host, `OnInterruption` answers from the store (`Execute`),
`OnRunning` has the end of each command, and `OnFingerprint`, `OnXpub` and
`OnWalletAddress` are the chain of requests of an address.

### Framing

`link` says which protocol and which channel, once and for all. A packet knows its
frame, its number and how many the frame has; each protocol reads of that only what
its code reads: U2F-HID that it is a first one and how many follow (`DecodeU2f`
skips over the continuation headers), the Coldcard the flag of the last one, or
`fram` in a first one (`IsFram`), the Ledger the number. `FailWrite` ends the call,
but in a browser, where `WebHidDevice::write` logs the error and `send` returns the
length. `ShortRead` ends it with an error, and in a browser with a panic
(`copy_from_slice`). `Abandon` leaves the rest of a frame in the channel.

### Descriptors, CliDevices, CliCommands

`bus` and `world` are the devices plugged in, their seeds and states; `run` is one
process: where it is, its request, the devices it opened, the calls it has still to
make and what they gave. `Enumerate`, `UnlockNext`, `Compare` and
`ReadInfo` are the steps of `DeviceManager`, `ListUnlock` and its kind those of a listing; from there a command is a list of calls (`todo`) and
what it makes of their answers. `log` has every call a device answered or failed,
for the properties. Keypresses, backup files and the steps of the udev installation
can fail. `Descriptors` has no state: paths, the descriptors of an account or a
keypool, and `LedgerSigningContext`, which infers the wallet a Ledger is to sign for
from the inputs of a transaction.

## The runs

| run | shows | bounds |
|---|---|---|
| `bitbox_session` | all properties of the session, its refinement and that calls end | 2 keys, 2 queries and the two-request command, 3 calls, 2 faults, 1 delayed reply |
| `bitbox_sign` | signatures in place, own nonces, nonces revealed once, the loop ends | a transaction of three inputs (ECDSA, Schnorr, ECDSA) and one of a single Schnorr input, 6 calls, 5 lost |
| `bitbox_manage` | success is done, refusal changes nothing, a switch switches, no wallet replaced | 4 calls, 2 lost or unplugged |
| `coldcard_session` | keys agree, answers are own, what is signed is what was given, failures have reasons, calls end | files of 1 and 3 units in chunks of 2, 4 calls, 2 faults, 1 early poll |
| `jade_session` | answers are own, an unlock unlocks, a signed PSBT is whole, failures have reasons, calls end | 15 jobs: PSBTs of 1 and 3 fragments, two multisigs of one name; 3 calls, 2 faults, 2 pieces a read; over a stream and in a browser |
| `ledger_client` | the device sees what was given, all its signatures and no others are returned unless a call was dropped, failures have reasons, calls end | 20 jobs; sizes divided by about 32 (`MaxData` 8, `HashLen` 2, `MaxProof` 2, `MaxMore` 6); 3 calls, 2 faults |
| `framing` | a call returns one whole frame, its own on a clean channel; calls end | 3 protocols over 2 channels; frames of 1, 2 and 4 packets, 3 of which U2F-HID can number; 4 calls, 2 faults |
| `cli_commands` | the right device, no failure lost, true reports, what a Ledger signs and leaves unsigned | 6 devices of 3 seeds in 5 settings, every command of both binaries; 2 processes, 1 fault |
| `bitbox_pairing_code_doc` | a disagreement with a comment | as `bitbox_session` |
| `bitbox_disconnect_doc` | a disagreement with a document | as `bitbox_manage` |
| `coldcard_busy` | a signature over another PSBT | as `coldcard_session` |
| `cli_standard_accounts` | accounts a Ledger is not asked to sign for | the requests of `cli_commands` that sign with a Ledger, and four more transactions |

Why the bounds are enough. In `bitbox_session` three calls let an unlock, a query
abandoned in it and the query that reads its reply, or an unlock, a second unlock
over the open session that fails half way, and a query, all happen; two faults
let an abandoned call meet a failed write or a reconnection. The proofs need no
bound. In `bitbox_sign` six calls with five lost are just enough for the replies
of a whole earlier signing to be waiting when a call starts, and that is what
bounds `SignaturesInPlace` (see below); three inputs give a first, a middle and a
last one, and both kinds of neighbour. In `bitbox_manage` every pair of commands
can be abandoned before a third one reads their replies. In `coldcard_session`
the first of the four calls is an unlock; the other three can be an abandoned
one, one that reads its late reply and one after that, or a signing, a second
unlock from a new client and another signing. Files of one and of three units
give an upload of one short chunk and one of a full and a short chunk.

In `jade_session` three calls let one be dropped, one read what it left and one
come after, or an unlock come before two others, and two faults let a
dropped call meet a failed write or a new client; a PSBT of three fragments has a
first, a middle and a last one, and two pieces a read are half a reply, a whole one, or the end of one with the start of the next. In `ledger_client` the sizes keep the order the
code's have (`SizesAssumption`): a value that fits an answer and one that does not, a
list of five with a proof that does not fit (as that of a list of 65 does not in the
code), and empty lists. In `framing` a
frame of four packets is one more than U2F-HID can number, and four calls with two
faults let two cut frames be read by two calls. In `cli_commands` the settings have
the type asked for twice, the fingerprint asked for behind another device, a blank,
a locked device, one that cannot be opened, and an emulator; a second process meets what the first
one changed.

`CHECK_DEADLOCK FALSE` is in every configuration: calls are bounded, and a client
that has made its calls owes nothing.

Limits that the runs established, and that their properties state:

- `OwnAnswerUnlessAbandoned`: once a call on a connection was abandoned, a later
  one of the same type can be given its answer. The nonces do not help: the stale
  answer is the next one in order.
- `SignaturesInPlace` is stated for fewer than five calls that stopped waiting.
  With five, a whole stale signing of a one-input Taproot transaction can be in
  the channel, each reply in its place, and the signature of an earlier PSBT is
  handed back for the present one. With an ECDSA input this cannot happen at any
  number (`EcdsaIsOwn`): the nonce is this call's.
- The properties of `BitBoxManage` are stated for at most one reply that was left
  unread; with two, each of them fails.
- The Coldcard's `OwnAnswer` is stated for a device that was not busy, and for
  connections on which no call was abandoned. Of a signed PSBT it says more: that it
  is the one given, also after fewer than five faults; five late replies of the
  right types (an acknowledgement, the hash, `okay`, the file's hash and length, its
  content) make up a whole signing of one chunk. The run, with two, shows that late
  replies end a signing; it does not reach five.
- The Jade's `OwnAnswer` and `CallReturns` are stated for connections on which no
  call was dropped: the next call of the same type takes its reply, `OnAuth` takes a
  refusal for an answer, and a stream left in the middle of a reply can make a call
  wait. In a browser it cannot, and `CallReturns` holds there without the condition. `SignedWhole` needs no such condition: fragments of two PSBTs are never mixed.
- The Ledger's `OwnAnswer` needs it too, but for one part: that a signed PSBT has no
  signature of another one holds with up to six dropped calls. Each of them leaves one
  reply in the channel, and a yield that is read late is followed by a refusal, unless
  six questions in a row that a device asked of one signing have been answered by calls
  that were themselves behind. With seven dropped and enough other calls in between (19
  in all) a whole earlier signing can be waiting: its signatures are applied to the
  present PSBT. The run has two faults; the counterexample was found with a longer one.
- `LedgerPolicyFits` is about what `hwi` takes for the Ledger's own: inputs of a
  standard account without a script and with a key in `bip32_derivation`, and inputs of
  a multisig whose keys the transaction has. All inputs of the chosen kind are signed,
  and nothing so taken is left where a multisig is chosen or nothing is sent. But an
  account goes before a multisig (`bhwi-cli/src/hwi.rs:1550`): of a transaction that
  spends from both only the account's inputs are signed, as beside a nested or Taproot
  account (finding 4), and the answer is `signed: true`, which means that there is a
  new signature (`ReportIsTrue`), not that there are all.
- `FailsForAReason` of `LedgerClient` grants that a call panics at a list without
  elements (see the smaller disagreements), and says that it otherwise does so only
  after a dropped call, when a reply without a signature is taken for one.
- After a U2F-HID or Ledger frame was cut, each packet of it that is left costs a
  call, which fails. What is left of a cut Coldcard frame is taken for a frame
  (`OwnFrame`): in an encrypted session it decrypts to no response. A browser's call whose
  write failed waits for ever. These are the abandoned calls of the sessions,
  with one difference: there the reply of an abandoned call stays whole.

## Findings

1. `bhwi-async/src/bitbox.rs:48` says that `pairing_code()` returns `None` once
   the pairing is confirmed. It returns `None` until then and the code from then
   on (`bhwi/src/bitbox/noise.rs:191`).
2. `docs/HWI_PARITY.md:91` says that only a disconnect after the reset request is
   a success. Every failed read is, a timeout included
   (`bhwi-async/src/transport/bitbox/hid.rs:142`).
3. `SigningPsbt` takes `busy` for acceptance (`bhwi/src/coldcard/mod.rs:440`) and
   nobody compares the PSBT that is downloaded with the one that was given. When a
   signing was interrupted before the user decided, the next client that signs
   another PSBT is given the first one. This rests on what
   `bhwi/src/coldcard/api.rs:278` says of `busy`, and on the device answering so
   also to a request of the same kind, which this repository does not show.
4. `hwi signtx` on a Ledger hands a transaction of its BIP-49 or BIP-86 account back
   unsigned and without an error (`bhwi-cli/src/hwi.rs:1610`): inputs with a redeem
   script are passed over, and keys are looked for in `bip32_derivation` only. Purposes
   49 and 86 are meant to be signed for (`bhwi/src/ledger/wallet.rs:131`). Beside a
   plain input of a BIP-84 account, one of BIP-49 or BIP-86 stays unsigned and the answer
   is `signed: true`, although a PSBT of two accounts is meant to be refused (the test of
   `bhwi-cli/src/hwi.rs:3531`); an input of the Ledger's own multisig goes the same way,
   of which no document speaks.

Smaller disagreements met while modelling, which the modules follow as the code has
them and no run is about:

- `bhwi-async/src/bitbox.rs:59`: the hook "is never called" for a device that is
  already paired. It is when the device asks for verification
  (`bhwi/src/bitbox/interpreter.rs:1008`).
- `U2fHid::encode` refuses a message that fills its 129th packet, for which `MAX_LEN`
  has room (`bhwi/src/bitbox/u2f.rs:11,111`).
- `ledger_multisig_policy` compares policies as strings in the order of the keys of a
  script: inputs of one sorted multisig conflict when their keys sort differently
  (`bhwi-cli/src/hwi.rs:1630`).
- `bhwi install-udev-rules --all` leaves the BitBox02's rules out
  (`bhwi-cli/src/bin/bhwi.rs:465`, `bhwi-cli/src/udev.rs:230`).
- `bhwi` ends without an error when no device fits, and `bhwi backup` without
  `--output` makes the backup before it complains (`bhwi-cli/src/bin/bhwi.rs:352`).
- `assert!(n > 1)` (`bhwi/src/ledger/merkle.rs:161`) fails for the tree of an empty
  list, and no caller sees to it that there is none: signing an empty message with a
  Ledger (`bhwi/src/ledger/mod.rs:336`), or a PSBT without inputs or outputs, panics.
- A keypress that fails discards an answer that the device has given
  (`bhwi-cli/src/hwi.rs:1197`).

## Fairness

`WF(HostReceive)`: a call that waits and has a reply in the channel is polled by
the executor of the async runtime. `WF(DeviceStep)`: a connected device reads its
requests in its main loop. Nothing is assumed of the user beyond deciding, and
nothing makes a client start, abandon or reconnect. `CallReturns` and
`SigningEnds` need no more than this. The Coldcard's polling has no end without
the user, and no fairness is assumed of the user there: its `CallReturns` says that a call
ends or the user is being asked. The delays (`NOTREADY`) are bounded by
`MaxWaits`: the code polls without a limit of its own, and ends because the
device's answer is eventually ready.

The same holds of `JadeSession`, `LedgerClient` and `Framing`: weak fairness of the
host's reading (and, in `Framing`, writing), of the device, of the PIN server and of the
user's decision, on each of which a call of theirs waits without a timeout. None of a
fault, a new call or a new client. `CliCommands` states no fairness: its properties
are about what a process reports if it ends.

## The proofs

For every value of the constants: every bound, length, file, transaction, PSBT and set
of keys, queries or jobs, assuming only the named assumptions on the constants.
What is assumed of `Jobs` in `JadeSession` is what the types of `Command` say:
a `SignTx` has a PSBT, and `ByMultisig` a registration; `PsbtAssumption` in
`LedgerClient` says the same of its `SignTx`.
The listed theorems are these. Each is `Spec => []P` for the property in
parentheses or of like name, with three exceptions: the refinement, and two
`OwnAnswers` that are about connections on which no call was dropped: the Coldcard's
(`Spec => []("abandoned" \notin past => OwnAnswer)`) and the Ledger's
(`Spec => [](DroppedCalls = {} => OwnAnswer)`).

| module | theorems |
|---|---|
| `BitBoxSession_proofs` | `TypeCorrect`; `SessionInvariant`; `SessionIsOrdered` (the refinement); `SessionsAreTrusted` (`SessionPeerTrusted`); `PairingInvariant`; `TrustIsConfirmed` (`TrustNeedsConfirmation`); `ShownBeforeAsked` (`CodeShownBeforeAsked`); `OwnAnswers` (`OwnAnswerUnlessAbandoned`) |
| `BitBoxSign_proofs` | `TypeCorrect`; `EcdsaSignaturesAreOwn` (`EcdsaIsOwn`); `NoncesRevealedOnce` (`RevealedOnce`); `SignaturesAreInPlace` (`SignaturesInPlace`) |
| `BitBoxManage_proofs` | `TypeCorrect`; `WhatIsReportedWasDone` (`ReportedDone`); `WalletsAreKept` (`WalletUntouched`) |
| `ColdcardSession_proofs` | `TypeCorrect`; `KeysAlwaysAgree`; `OwnAnswers`; `FailuresHaveReasons` |
| `JadeSession_proofs` | `TypeCorrect`; `SignedPsbtsAreWhole` (`SignedWhole`); `OwnAnswers`; `FailuresHaveReasons` |
| `LedgerClient_proofs` | `OwnAnswers` |
| `Framing_proofs` | `TypeCorrect`; `OneWholeFrame` (`OwnFrame`) |

The inductive invariants, each of which TLC also checked on the instance of its run:

**BitBoxSession.**

- `TypeCorrect`: `Calls` and `Replies` are more than types:
  a state of the interpreter that carries a handshake or a key has one.
- `SessionInvariant`: a session is known by its handshake,
  so the argument is about handshake numbers: `FreshHandshake` (the handshake in
  progress is newer than the session and than everything encrypted so far),
  `OneHandshake1` (its first message is in one place, so the device cannot be
  brought back to it twice) and `NoncesInStep` (which needs both: when the host
  opens a session, the device has executed none of its requests, and none is in
  the channel).
- `SessionIsOrdered`: `Spec => OrderedCallsSpec`, from it: every step maps to a
  step of `OrderedCalls` or to a stutter.
- `SessionsAreTrusted`: inductive with the types.
- `PairingInvariant`: what has to be shown is that a late
  status byte cannot stand for the user's consent. Reading the device's first
  handshake message, which carries this handshake's number, is what makes the
  channel clean: in a FIFO channel everything older has been read
  (`Handshake1IsLast`), so that from then on the only success the device can
  report is consent to this pairing (`OnlyConsentSucceeds`). `AskedAboutShown`
  keeps the verification request and the code that was shown together.
  `TrustIsConfirmed` and `ShownBeforeAsked` follow from it.
- `OwnAnswers`: `OwnAnswerInv`. Unless a call was abandoned, the channel is empty
  between calls and has one frame while a call waits, which asks for that call or
  answers it. A write of a retry that fails leaves the device with a reply nobody will
  ask for; it makes the device busy and is not in the way (`OneFrameOnItsWay`
  therefore says nothing of a job when no call waits).

**BitBoxSign.** `SignInv`. Nonces are numbered as they are drawn, and `NonceIsOwn`
says that whatever carries the nonce of the call in progress belongs to it. That is
not enough for `EcdsaIsOwn`: a call that waits for a Schnorr signature looks at no nonce,
and must not be given a stale ECDSA one. It is not, because such a
reply always comes right after a commitment (`AfterCommitment`), which the call
would have read first, and refused. No bound on lost replies is needed.
`SignaturesAreInPlace` needs one, and an invariant of its own, `PlaceInv`. A call that
starts with nothing else on its way is in step with the device to the end (`Lockstep`,
with what is asked and answered in `Asking` and `Replied`). Any other reads replies to
earlier requests first, and reaches the reply to its own first request only behind all
of them (`Behind`): that one fails it. Before, it would have to read the end of a
signing, which is at least four replies behind a fingerprint (`Spaced`, by what the device
has to be asked to get there, `Depth`), and there are at most as many as calls that
stopped waiting (`Backlog`): with four, one too few.

**BitBoxManage.** `OneLate`: as long as no call stopped waiting (`Clean`), the one frame
on its way is the call's, and what it was told so far was done; with one that did
(`Late`), every later call reads one reply behind, finds a `DeviceInfo` where it expects
another type or the other way round, and ends in an error. What it asks the device for on
the word of a stale `DeviceInfo` fits the device all the same, because the device has not
changed since it was sent (`Snapshot`): this is what `WalletUntouched` rests on.

**ColdcardSession.** Layers, each assuming that less has gone wrong: `Lockstep` (no
call abandoned: one frame under way, the keys agree or the public key that will make
them agree is on its way), `Commanded` and `Made` (always), `Matched` (and never busy: the
request, the reply and the user's task are this call's) and `Smooth` (nothing went
wrong: both positions of the AES-CTR streams, the part of a file that the device holds
and the part that the host holds are where the other side expects them, and the
reply is one the call goes on with). `OwnAnswers` follows from `Matched`, and
`FailuresHaveReasons` from `Smooth`: the invariant says what the only possible replies are,
and none of them is an error.

**JadeSession.** `SignedPsbtsAreWhole` from `Sequel`, with no condition on what was
dropped: in the stream a reply with a fragment that is not the last is followed by the
next fragment of the same PSBT or by an error (`Chain`), after the last of them the device
is asked for exactly that (`LastOf`), and what the call has gathered continues in the
stream (`Gathers`). `OwnAnswers` and `FailuresHaveReasons` from `Lockstep`: unless a call
was dropped, a call is in one of five phases (`Between`, `AtServer`, `Requested`,
`AtUser`, `Answered`), each of which says what all of the channel holds; `Purpose` says
why it asked.

**LedgerClient.** `InOrder`: unless a call was dropped, the protocol is in one of four
phases (`Between`, `Requested`, `AtUser`, `Answering`), each of which says what all of the
channel holds. A reply is for the instruction the call waits for (`Needed`), so that the
three requests of an address cannot be taken for each other. While a PSBT is signed, what
the store has been yielded and what the device has still to yield are, one after the other,
all the device signs it with (`Remaining`); before its user agreed nothing was yielded
(`AtCommand`), and it ends with success when nothing is left (`End`). What the device asks
of the store, and what the store answers, need not be known for this.

**Framing.** `FramingInv`: the channel is whole frames one after another, the first of
which may lack its beginning (`WholeFrames`), the packets read continue in it
(`PartOfFrame`), and a call that started on a clean channel finds only its own
(`FreshIsOwn`).

### Only model-checked

- Liveness (`CallReturns`, `SigningEnds`): fairness and `ENABLED` are out of this prover's reach.
- The part of the Coldcard's `OwnAnswer` about connections on which calls were
  abandoned, whose condition is a number of faults: its proof would count the replies a
  stale signing has left, as `PlaceInv` does for the BitBox02, over two sessions of keys. The
  run, which has two faults, does not get to that number.
- The part of the Ledger's `OwnAnswer` about connections on which up to six calls were
  dropped, for the same reason again.
- `DeviceSees`, `FailsForAReason` and `TypeOK` of `LedgerClient`. The first two rest on what
  `GetProof` and the root of a tree compute for a list of any length, and `TypeOK`
  on what `GetProof` returns: induction over data.
- `CliDevices`, `CliCommands` and `Descriptors`: their state space is finite, and the run
  covers every command of both binaries on its devices.

## Not modelled

Cryptography, encodings and the conversion of a PSBT or policy to requests are
data: the models say what they establish, not how. That leaves out the BitBox02's
protobuf conversions and its policies (`bhwi/src/bitbox/{api,policy,proto}.rs`), the
parsing of policies and identifiers (`bhwi/src/{policy,device}.rs`), and the CLI's
parsing of arguments, its JSON and its texts. Of `bhwi-wasm` both channels are modelled (in
`Framing` and `JadeSession`); its fetch to the PIN server and its conversions to
JavaScript are not: they call the same driver. The serial and TCP channels of the CLI are in
`JadeSession` as a stream. The end-to-end tests, the build and the website are no part
of the program. The devices are modelled as the host expects them, so that nothing is
said about one that lies.

## Plan

What is left to prove, in this order.

1. Lemmas of `MerkleStore` about the queue.
2. `CliCommands`: `RightDevice` and `FailsForAReason`, from what `todo` and `log` say of
   each other.
