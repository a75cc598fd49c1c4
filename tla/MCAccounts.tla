----------------------------- MODULE MCAccounts -----------------------------
(* The instances of Accounts that TLC checks. *)
EXTENDS Accounts, TLC

Symmetry == Permutations(Users) \cup Permutations(Requests) \cup Permutations(Links)
=============================================================================
