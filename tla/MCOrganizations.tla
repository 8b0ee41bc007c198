--------------------------- MODULE MCOrganizations ---------------------------
(* Small instances of Organizations.                                       *)
EXTENDS Organizations, TLC

MCSymmetry == Permutations(Requests)
=============================================================================
