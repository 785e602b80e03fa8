---------------------------- MODULE MCBitBoxSign ----------------------------
(* BitBoxSign for TLC.                                                     *)
EXTENDS BitBoxSign

MCTransactions == {<<"ecdsa", "schnorr", "ecdsa">>, <<"schnorr">>}
=============================================================================
