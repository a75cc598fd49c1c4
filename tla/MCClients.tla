------------------------------ MODULE MCClients ------------------------------
(* The instance of Clients that TLC checks. *)
EXTENDS Clients, TLC

Symmetry == Permutations(Forms) \cup Permutations(Rotations) \cup Permutations(Emails)
=============================================================================
