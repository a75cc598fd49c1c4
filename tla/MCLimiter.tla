------------------------------ MODULE MCLimiter ------------------------------
(* The instance of Limiter that TLC checks. *)
EXTENDS Limiter, TLC

Symmetry == Permutations(Keys) \cup Permutations(Callers)
=============================================================================
