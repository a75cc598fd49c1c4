------------------------------ MODULE MCGrants ------------------------------
(* The instances of Grants that TLC checks.  The configurations give the    *)
(* sets their members; identifiers are single-use, so every instance is     *)
(* finite without a state constraint.                                       *)
EXTENDS Grants, TLC

(* Redemptions, and transactions, are interchangeable. *)
Symmetry == Permutations(Redeems) \cup Permutations(Txs)
=============================================================================
