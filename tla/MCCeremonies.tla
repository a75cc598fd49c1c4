---------------------------- MODULE MCCeremonies ----------------------------
(* The instance of Ceremonies that TLC checks. *)
EXTENDS Ceremonies, TLC

Symmetry == Permutations(Challenges) \cup Permutations(Finishes) \cup Permutations(Mails)
=============================================================================
