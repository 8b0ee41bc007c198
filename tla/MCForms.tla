------------------------------ MODULE MCForms -------------------------------
(* Small instances of Forms with Export: three schemas of one field each,  *)
(* and submissions of which two were created in the same instant.          *)
EXTENDS Export

CONSTANTS plain, other, file

MCKeysOf == [s \in Schemas |-> {s}]
MCCreatedAt == [b \in Submissions |-> (b + 1) \div 2]
MCSymmetry == Permutations(Editors)
=============================================================================
