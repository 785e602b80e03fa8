----------------------------- MODULE Descriptors -----------------------------
(***************************************************************************)
(* What bhwi-cli makes of keys: the descriptors of an account or a path    *)
(* (bhwi-cli/src/get_descriptors.rs), the types of address of a device,    *)
(* the wallet a Ledger is to sign a transaction for and the address a      *)
(* descriptor stands for (bhwi-cli/src/hwi.rs).                            *)
(*                                                                         *)
(* Abstracted: a path is a sequence of <<index, hardened>>, a fingerprint  *)
(* the name of a seed, an extended key <<seed, path>>.  An input of a      *)
(* transaction is the type of its output, its two scripts and the origin   *)
(* of each key; a script of the form of a multisig is its threshold and    *)
(* keys.                                                                   *)
(***************************************************************************)
EXTENDS Naturals, Sequences, FiniteSets
LOCAL INSTANCE SequencesExt

H(index) == <<index, TRUE>>
U(index) == <<index, FALSE>>
Hardened(child) == child[2]

-----------------------------------------------------------------------------
(* Accounts and descriptors.                                               *)

Purpose(type) ==
  CASE type = "legacy" -> 44 [] type = "sh_wit" -> 49 [] type = "wit" -> 84 [] type = "tap" -> 86

Chain(network) == IF network = "main" THEN 0 ELSE 1

MasterXpubPath(type, network, account) == <<H(Purpose(type)), H(Chain(network)), H(account)>>

\* The target of a descriptor: the receive branch of an account is 0.
AccountTarget(type, network, account, change) ==
  Append(MasterXpubPath(type, network, account), U(IF change THEN 1 ELSE 0))

\* The key is asked for up to the last hardened child.
Origin(path) ==
  LET Split == {i \in DOMAIN path : Hardened(path[i])}
  IN  SubSeq(path, 1, IF Split = {} THEN 0 ELSE CHOOSE i \in Split : \A j \in Split : j <= i)

Descriptor(type, fingerprint, path, xpub) ==
  [type |-> type, fingerprint |-> fingerprint, origin |-> Origin(path), key |-> xpub,
   suffix |-> SubSeq(path, Len(Origin(path)) + 1, Len(path))]

HasHardenedAfterUnhardened(path) ==
  \E i, j \in DOMAIN path : i < j /\ ~Hardened(path[i]) /\ Hardened(path[j])

KeypoolDescriptorPath(path, internal) == Append(path, U(IF internal THEN 1 ELSE 0))

CanSignTaproot(device) ==
  device.type = "ledger" \/ (device.type = "coldcard" /\ device.model = "edge")

DescriptorTypes(device) ==
  <<"legacy", "wit", "sh_wit">> \o IF CanSignTaproot(device) THEN <<"tap">> ELSE <<>>

\* The types and the branches of a keypool; with a path the caller gave the
\* branch, and `internal' is only a label.
KeypoolTypes(ask, device) == IF ask.all THEN DescriptorTypes(device) ELSE <<ask.type>>
KeypoolBranches(ask) ==
  IF ask.path = <<>> /\ ~ask.internal THEN <<FALSE, TRUE>> ELSE <<ask.internal>>

-----------------------------------------------------------------------------
(* The wallet a Ledger signs for.                                          *)

IsStandardSinglesigPath(path) ==
  /\ Len(path) >= 5
  /\ path[1] \in {H(44), H(49), H(84), H(86)} /\ Hardened(path[2]) /\ Hardened(path[3])
  /\ ~Hardened(path[4]) /\ ~Hardened(path[5])

AccountPathFromFullPath(path) == SubSeq(path, 1, 3)

\* Any redeem script counts, that of a nested single key included.
HasScript(input) == input.witness.form # "none" \/ input.redeem.form # "none"

MultisigScript(input) ==
  IF input.witness.form # "none"
  THEN [type |-> IF input.redeem.form = "wsh" THEN "sh_wit" ELSE "wit", script |-> input.witness]
  ELSE [type |-> "legacy", script |-> input.redeem]

\* OP_m, keys, OP_n, OP_CHECKMULTISIG.
ParsesAsMultisig(script) ==
  /\ script.form = "multisig"
  /\ script.threshold \in 1..15 /\ script.threshold <= Len(script.keys) /\ Len(script.keys) <= 16

Inputs(psbt) == {psbt.inputs[i] : i \in DOMAIN psbt.inputs}
Sources(input) == {input.derivation[k] : k \in DOMAIN input.derivation}

\* The accounts named by the inputs without a script: more than one conflict.
LedgerSinglesigAccounts(psbt, fingerprint) ==
  {AccountPathFromFullPath(s.path) :
     s \in {s \in UNION {Sources(input) : input \in {i \in Inputs(psbt) : ~HasScript(i)}} :
              s.fingerprint = fingerprint /\ IsStandardSinglesigPath(s.path)}}

\* The extended keys of the transaction that a key descends from.
GlobalXpubs(psbt, source) ==
  {x \in psbt.xpubs : x.fingerprint = source.fingerprint /\ IsPrefix(x.path, source.path)}
GlobalXpub(psbt, source) == CHOOSE x \in GlobalXpubs(psbt, source) : TRUE

\* The device has a key of the script, and every key has its extended key.
DescribesMultisig(psbt, input, fingerprint) ==
  LET keys == ToSet(MultisigScript(input).script.keys) IN
  /\ HasScript(input) /\ ParsesAsMultisig(MultisigScript(input).script)
  /\ \E k \in keys \cap DOMAIN input.derivation : input.derivation[k].fingerprint = fingerprint
  /\ \A k \in keys : k \in DOMAIN input.derivation /\ GlobalXpubs(psbt, input.derivation[k]) # {}

\* sortedmulti of the extended keys, in the order of the keys in the script.
MultisigPolicyDescriptor(psbt, input) ==
  LET script == MultisigScript(input).script IN
  [type |-> MultisigScript(input).type, threshold |-> script.threshold,
   keys |-> [i \in DOMAIN script.keys |-> GlobalXpub(psbt, input.derivation[script.keys[i]])]]

\* The policies of the inputs: more than one conflict.
LedgerMultisigPolicies(psbt, fingerprint) ==
  {MultisigPolicyDescriptor(psbt, input) :
     input \in {i \in Inputs(psbt) : DescribesMultisig(psbt, i, fingerprint)}}

\* A script that is no sequence of instructions, or with bytes that are no key.
HasGarbledScript(psbt) ==
  \E input \in Inputs(psbt) : HasScript(input) /\ MultisigScript(input).script.form = "garbled"

-----------------------------------------------------------------------------
(* The address a descriptor stands for.                                    *)

\* wpkh, pkh, sh(wpkh) or tr of one key with its origin.
ParsesAsSinglesig(descriptor) == descriptor.form = "single" /\ descriptor.hasOrigin

FullPath(descriptor) == descriptor.origin \o descriptor.suffix

\* multi or sortedmulti of at least as many keys as the threshold.
ParsesAsMultisigDescriptor(descriptor) ==
  /\ descriptor.form = "multi"
  /\ descriptor.threshold \in 1..Len(descriptor.keys)
=============================================================================
