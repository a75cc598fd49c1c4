------------------------------ MODULE MCForward ------------------------------
(* The instances of Forward that TLC checks.  Tickets and cookies are       *)
(* single-use, so every instance is finite without a state constraint.      *)
EXTENDS Forward, TLC

Symmetry == Permutations(Hosts) \cup Permutations(Cookies) \cup Permutations(Txs)
=============================================================================
