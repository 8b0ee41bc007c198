-------------------------- MODULE MCOneTimeTokens ---------------------------
(* A small instance of OneTimeTokens.                                      *)
EXTENDS OneTimeTokens, TLC

MCSymmetry == Permutations(Tokens) \cup Permutations(Issuers)
=============================================================================
