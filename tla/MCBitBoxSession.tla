-------------------------- MODULE MCBitBoxSession --------------------------
(* BitBoxSession for TLC.                                                  *)
EXTENDS BitBoxSession

CONSTANTS k1, k2

MCKeys == {k1, k2}
MCContexts == {"MasterFingerprint", "Xpub"}
=============================================================================
