------------------------- MODULE MCColdcardSession -------------------------
(* ColdcardSession for TLC.                                                *)
EXTENDS ColdcardSession

CONSTANTS p1, p2

MCDocs == {p1, p2}

\* With chunks of two units: one short chunk, and a full and a short one.
MCLength == [d \in MCDocs \cup {Backup} |-> IF d = p1 THEN 1 ELSE 3]
=============================================================================
