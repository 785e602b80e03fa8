--------------------------- MODULE MCLedgerClient ---------------------------
(* LedgerClient for TLC.  The sizes are those of the protocol divided by    *)
(* about 32: an element of 8 bytes does not fit an answer, and neither does *)
(* the proof of a leaf of a list of five.                                   *)
EXTENDS LedgerClient

E(tag, len) == Element(tag, len)
Pair(key, value, len) == <<E(key, 1), E(value, len)>>

MCWallet ==
  [w \in {"multi", "m/84"} |->
     IF w = "multi"
     THEN [tag |-> 90, keys |-> <<E(91, 2), E(92, 2)>>, template |-> E(94, 9)]
     ELSE [tag |-> 95, keys |-> <<E(96, 2)>>, template |-> E(97, 3)]]

\* The pairs of a map come in the order the library lists them, by kind.
\* "empty" has no inputs, as "none" is a message without a byte.
MCPsbt ==
  [p \in {"p", "q", "empty", "wrong"} |->
     [global |-> <<Pair(12, 20, 1), Pair(11, 21, 2)>>,
      inputs |-> CASE p = "p" ->
                        <<<<Pair(32, 40, 14), Pair(31, 41, 1)>>, <<Pair(31, 42, 1)>>>>
                   [] p = "empty" -> <<>>
                   [] OTHER -> <<<<Pair(32, 43, 1), Pair(31, 41, 1)>>>>,
      outputs |-> <<<<Pair(52, 60, 1), Pair(51, IF p = "p" THEN 61 ELSE 62, 1)>>>>,
      countsMatch |-> p # "wrong",
      signs |-> IF p = "p"
                THEN <<[kind |-> "partial", sig |-> <<"p", 1>>], [kind |-> "musig", sig |-> <<"p", 0>>],
                       [kind |-> "partial", sig |-> <<"p", 2>>]>>
                ELSE <<[kind |-> "partial", sig |-> <<p, 1>>]>>]]

MCChunks ==
  [m \in {"long", "none"} |->
     IF m = "none" THEN <<>> ELSE [i \in 1..5 |-> E(70 + i, IF i = 5 THEN 1 ELSE 8)]]

Job(cmd, arg, ctx) == [cmd |-> cmd, arg |-> arg, ctx |-> ctx]

MCJobs ==
  {Job("Unlock", "network", "none"), Job("Unlock", "none", "none"), Job("GetInfo", "none", "none"),
   Job("GetFingerprint", "none", "none"), Job("GetXpub", "m/84", "none"), Job("GetXpub", "odd", "none"),
   Job("ByPath", "m/84", "none"), Job("ByPath", "odd", "none"), Job("ByPath", "short", "none"),
   Job("ByDescriptor", "d", "multi"), Job("ByDescriptor", "d", "none"),
   Job("RegisterWallet", "multi", "none"), Job("SignMessage", "long", "none"),
   Job("SignTx", "p", "multi"), Job("SignTx", "q", "multi"), Job("SignTx", "q", "none"),
   Job("SignTx", "wrong", "multi"), Job("SignMessage", "none", "none"),
   Job("SignTx", "empty", "multi"), Job("Wipe", "none", "none")}
=============================================================================
