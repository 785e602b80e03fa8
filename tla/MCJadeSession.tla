---------------------------- MODULE MCJadeSession ----------------------------
(* JadeSession for TLC.                                                    *)
EXTENDS JadeSession

\* A PSBT returned in one piece and one in three.
MCFragments == [p \in Psbts |-> IF p = "small" THEN 1 ELSE 3]

Key(origin) == [kind |-> "xpub", wildcard |-> "none", origin |-> origin]

\* a and b differ in the order of their keys only and have the same name; d has a
\* key without an origin.
MCMultisig ==
  [m \in {"a", "b", "d"} |->
     [type |-> "wsh(multi(k))", threshold |-> 2,
      keys |-> CASE m = "a" -> <<Key("k1"), Key("k2")>>
                 [] m = "b" -> <<Key("k2"), Key("k1")>>
                 [] OTHER -> <<Key("k1"), Key("none")>>]]

Job(cmd, arg) == [cmd |-> cmd, arg |-> arg]

MCJobs ==
  {Job("Unlock", "none"), Job("GetInfo", "none"), Job("GetXpub", "m/1"),
   Job("RegisterWallet", "w"), Job("ByDescriptor", "w"), Job("ByPath", "p2wpkh"),
   Job("ByPath", "p2tr"), Job("ByMultisig", "a"), Job("ByMultisig", "b"), Job("ByMultisig", "d"),
   Job("SignMessage", "text"), Job("SignMessage", "not utf8"), Job("SignTx", "small"),
   Job("SignTx", "large"), Job("Wipe", "none")}
=============================================================================
