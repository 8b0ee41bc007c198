-------------------------- MODULE MCAdministration --------------------------
(* Small instances of Administration.                                      *)
EXTENDS Administration, TLC

MCSymmetry == Permutations(Users \ {Founder}) \cup Permutations(Requests)
=============================================================================
