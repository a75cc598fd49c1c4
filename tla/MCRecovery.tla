----------------------------- MODULE MCRecovery -----------------------------
(* The instances of Recovery that TLC checks. *)
EXTENDS Recovery, TLC

Symmetry == Permutations(Sessions) \cup Permutations(Requests)
=============================================================================
