---------------------------- MODULE MCCliCommands ----------------------------
(* Six devices of three seeds, what may be plugged in, and command lines.  *)
EXTENDS CliCommands

Device(type, paths, emulated) ==
  [type |-> type, paths |-> paths, model |-> type, emulated |-> emulated]

MCCatalogue ==
  [bitbox |-> Device("bitbox02", {"hid:bitbox"}, FALSE),
   ckcc |-> Device("coldcard", {"ckcc.sock"}, TRUE),
   jade |-> Device("jade", {"ttyACM0"}, FALSE),
   nano |-> Device("ledger", {"hid:nano"}, FALSE),
   stax |-> Device("ledger", {"hid:stax"}, FALSE),
   speculos |-> Device("ledger", {"9999", "tcp:9999"}, TRUE)]

Is(state, seed) == [state |-> state, seed |-> seed, openable |-> TRUE]
World ==
  [bitbox |-> Is("ready", "A"), ckcc |-> Is("ready", "C"), jade |-> Is("ready", "B"),
   nano |-> Is("ready", "A"), stax |-> Is("ready", "B"), speculos |-> Is("ready", "A")]

MCScenarios ==
  {[bus |-> <<"stax", "nano", "ckcc">>, world |-> World],
   [bus |-> <<"bitbox", "jade", "speculos">>, world |-> World],
   [bus |-> <<"bitbox", "ckcc">>, world |-> [World EXCEPT !.bitbox = Is("blank", "none")]],
   [bus |-> <<"jade", "nano">>, world |-> [World EXCEPT !.jade = Is("locked", "B")]],
   [bus |-> <<"bitbox", "jade">>, world |-> [World EXCEPT !.bitbox.openable = FALSE]]}

-----------------------------------------------------------------------------
NoScript == [form |-> "none", threshold |-> 0, keys |-> <<>>]
Garbled == [NoScript EXCEPT !.form = "garbled"]
NestedKey == [NoScript EXCEPT !.form = "wpkh"]
TwoOf(k1, k2) == [form |-> "multisig", threshold |-> 2, keys |-> <<k1, k2>>]

\* A key of a seed: what the derivation of an input says of it.
From(seed, path) == [fingerprint |-> seed, path |-> path]
Account(purpose, n) == <<H(purpose), H(0), H(n)>>
Key(seed, purpose, n) == From(seed, Account(purpose, n) \o <<U(0), U(7)>>)
NoKeys == [k \in {} |-> From("none", <<>>)]

Spend(type, redeem, witness, derivation, tap) ==
  [type |-> type, redeem |-> redeem, witness |-> witness, derivation |-> derivation, tap |-> tap]
Single(type, source) == Spend(type, NoScript, NoScript, [k1 |-> source], NoKeys)
Nested(source) == Spend("sh_wit", NestedKey, NoScript, [k1 |-> source], NoKeys)
Taproot(source) == Spend("tap", NoScript, NoScript, NoKeys, [k1 |-> source])
Multi(k1, k2, seed) ==
  Spend("wit", NoScript, TwoOf(k1, k2), [k1 |-> Key(seed, 48, 0), k2 |-> Key("C", 48, 0)], NoKeys)

Psbt(inputs, xpubs) == [parses |-> TRUE, inputs |-> inputs, xpubs |-> xpubs, signed |-> {}]
NoPsbt == [Psbt(<<>>, {}) EXCEPT !.parses = FALSE]
Xpubs(seed) == {From(seed, Account(48, 0)), From("C", Account(48, 0))}

Psbts ==
  {NoPsbt,
   Psbt(<<Single("wit", Key("A", 84, 0)), Single("wit", Key("A", 84, 0))>>, {}),
   Psbt(<<Single("wit", Key("A", 84, 0)), Single("wit", Key("A", 84, 1))>>, {}),
   Psbt(<<Single("wit", Key("A", 84, 0)), Single("legacy", Key("A", 44, 0))>>, {}),
   Psbt(<<Multi("k1", "k2", "A"), Multi("k1", "k2", "A")>>, Xpubs("A")),
   Psbt(<<Multi("k1", "k2", "A"), Multi("k2", "k1", "A")>>, Xpubs("A")),
   Psbt(<<Multi("k1", "k2", "A")>>, {}),
   Psbt(<<Single("wit", Key("A", 84, 0)), Multi("k1", "k2", "A")>>, Xpubs("A")),
   Psbt(<<Single("wit", Key("B", 84, 0))>>, {}),
   Psbt(<<Spend("wit", NoScript, Garbled, NoKeys, NoKeys)>>, {}),
   [Psbt(<<Single("wit", Key("A", 84, 0))>>, {}) EXCEPT !.signed = {1}]}

\* Accounts of the standard purposes that carry a script, or no plain key, alone
\* and beside a plain one.
OtherPsbts ==
  {Psbt(<<Nested(Key("A", 49, 0))>>, {}), Psbt(<<Taproot(Key("A", 86, 0))>>, {}),
   Psbt(<<Single("wit", Key("A", 84, 0)), Nested(Key("A", 49, 0))>>, {}),
   Psbt(<<Single("wit", Key("A", 84, 0)), Taproot(Key("A", 86, 0))>>, {})}

-----------------------------------------------------------------------------
NoDescriptor ==
  [form |-> "other", type |-> "none", hasOrigin |-> FALSE, fingerprint |-> "none", origin |-> <<>>,
   suffix |-> <<>>, key |-> <<>>, threshold |-> 0, keys |-> <<>>]
OneKey(fingerprint, seed) ==
  [NoDescriptor EXCEPT !.form = "single", !.type = "wit", !.hasOrigin = TRUE,
     !.fingerprint = fingerprint, !.origin = Account(84, 0), !.suffix = <<U(0), U(3)>>,
     !.key = <<seed, Account(84, 0)>>]
ManyKeys == [NoDescriptor EXCEPT !.form = "multi", !.threshold = 2, !.keys = <<"k1", "k2">>]

AnyDevice == [type |-> "none", path |-> "none", fingerprint |-> "none", emulators |-> TRUE,
              network |-> "main"]
OfKind(type) == [AnyDevice EXCEPT !.type = type]
WithFingerprint(seed) == [AnyDevice EXCEPT !.fingerprint = seed]
HardwareOnly == [OfKind("ledger") EXCEPT !.emulators = FALSE]
AtPath(type, path) == [HardwareOnly EXCEPT !.type = type, !.path = path]

Request(bin, cmd, sel) ==
  [bin |-> bin, cmd |-> cmd, sel |-> sel, type |-> "wit", account |-> 0, path |-> <<>>,
   wellFormed |-> TRUE, internal |-> FALSE, all |-> FALSE, start |-> 0, end |-> 9,
   interactive |-> TRUE, passphrase |-> FALSE, label |-> FALSE, psbt |-> NoPsbt,
   partial |-> FALSE, policy |-> NoPolicy, multi |-> NoMulti, target |-> "none",
   descriptor |-> NoDescriptor, wallet |-> FALSE, hmac |-> FALSE, output |-> FALSE,
   targets |-> {}]
Hwi(cmd, sel) == Request("hwi", cmd, sel)
Bhwi(cmd, sel) == Request("bhwi", cmd, sel)

Selectors ==
  {AnyDevice, WithFingerprint("A"), WithFingerprint("C"), HardwareOnly,
   AtPath("ledger", "9999"), AtPath("ledger", "hid:nano"), OfKind("trezor")}
ByType == {OfKind("bitbox02"), OfKind("coldcard"), OfKind("jade"), OfKind("ledger")}

Searches ==
  UNION {{Hwi("enumerate", s), Hwi("getmasterxpub", s)} : s \in Selectors}
  \cup UNION {{Bhwi("list", s), Bhwi("xpub", s)} : s \in Selectors \ {OfKind("trezor")}}

Management ==
  UNION {{Hwi("setup", s), Hwi("restore", s), Hwi("wipe", s), Hwi("togglepassphrase", s),
          Hwi("backup", s), Hwi("promptpin", s), [Hwi("setup", s) EXCEPT !.interactive = FALSE],
          [Hwi("backup", s) EXCEPT !.label = TRUE],
          Bhwi("setup", s), Bhwi("restore", s), Bhwi("wipe", s), Bhwi("togglepassphrase", s),
          Bhwi("backup", s), [Bhwi("backup", s) EXCEPT !.output = TRUE]} : s \in ByType}

Addresses ==
  UNION {{[Hwi("displayaddress", s) EXCEPT !.target = "path", !.type = type] : type \in {"legacy", "tap"}}
         \cup {[Hwi("displayaddress", s) EXCEPT !.target = "descriptor", !.descriptor = d] :
                 d \in {OneKey("A", "A"), OneKey("A", "B"), ManyKeys}}
         \cup {[Bhwi("address", s) EXCEPT !.target = "descriptor", !.descriptor = ManyKeys,
                  !.wallet = w, !.hmac = h] : w \in BOOLEAN, h \in BOOLEAN}
         \cup {Hwi("signmessage", s), [Bhwi("message", s) EXCEPT !.output = TRUE],
               [Bhwi("address", s) EXCEPT !.target = "path"]} : s \in ByType}
  \cup {Hwi("displayaddress", AnyDevice), Bhwi("address", AnyDevice)}

Keys ==
  UNION {{Hwi("getdescriptors", s), Bhwi("pubkeys", s), Hwi("getkeypool", s),
          [Hwi("getkeypool", s) EXCEPT !.all = TRUE, !.internal = TRUE],
          [Hwi("getkeypool", s) EXCEPT !.type = "tap"],
          [Hwi("getkeypool", s) EXCEPT !.path = <<H(84), U(1), H(2), U(3)>>],
          [Hwi("getkeypool", s) EXCEPT !.path = <<H(84)>>, !.wellFormed = FALSE],
          [Bhwi("keypool", s) EXCEPT !.path = <<H(84), U(1), H(2), U(3)>>],
          [Bhwi("keypool", s) EXCEPT !.path = Account(84, 0), !.internal = TRUE]} :
           s \in {OfKind("jade"), OfKind("ledger")}}
  \cup {[Hwi("getkeypool", OfKind("ledger")) EXCEPT !.start = 10],
        [Bhwi("keypool", OfKind("ledger")) EXCEPT !.path = Account(84, 0), !.start = 10]}

LedgerOfA == [OfKind("ledger") EXCEPT !.fingerprint = "A"]
Wallet == [type |-> "wit", threshold |-> 2,
           keys |-> <<From("A", Account(48, 0)), From("C", Account(48, 0))>>]
Transactions ==
  {[Hwi("signtx", s) EXCEPT !.psbt = p] :
     s \in {LedgerOfA, OfKind("ledger"), OfKind("jade"), OfKind("coldcard")},
     p \in Psbts \cup OtherPsbts}
  \cup {[Bhwi("signpsbt", s) EXCEPT !.psbt = p, !.output = TRUE] :
          s \in {OfKind("jade"), LedgerOfA}, p \in Psbts}
  \cup {[Bhwi("signpsbt", LedgerOfA) EXCEPT !.psbt = p,
           !.policy = MultisigPolicy(Wallet, [seed |-> "A", multi |-> Wallet])] : p \in Psbts}
  \cup {[Bhwi("registerwallet", s) EXCEPT !.multi = Wallet] : s \in ByType}

Rules ==
  {Hwi("installudevrules", AnyDevice), Hwi("nonsense", AnyDevice),
   [Bhwi("installudevrules", AnyDevice) EXCEPT !.all = TRUE],
   [Bhwi("installudevrules", AnyDevice) EXCEPT !.targets = {"bitbox02", "jade"}],
   Bhwi("installudevrules", AnyDevice)}

MCRequests == Searches \cup Management \cup Addresses \cup Keys \cup Transactions \cup Rules
LedgerRequests == {[Hwi("signtx", LedgerOfA) EXCEPT !.psbt = p] : p \in Psbts \cup OtherPsbts}
=============================================================================
