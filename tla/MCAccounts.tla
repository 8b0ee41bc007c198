----------------------------- MODULE MCAccounts -----------------------------
(* Small instances of Accounts.                                            *)
EXTENDS Accounts, TLC

MCSymmetry ==
    Permutations(Logins) \cup Permutations(Writers) \cup Permutations(Sessions)
=============================================================================
