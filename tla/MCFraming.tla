------------------------------ MODULE MCFraming ------------------------------
(* Framing for TLC: every protocol over both channels.                     *)
EXTENDS Framing

AllLinks == [protocol : {"u2f", "coldcard", "ledger"}, browser : BOOLEAN]
=============================================================================
