------------------------------ MODULE MCEmails ------------------------------
(* The instance of Emails that TLC checks. *)
EXTENDS Emails, TLC

Symmetry == Permutations(Users) \cup Permutations(Emails) \cup Permutations(Links)
              \cup Permutations(Requests)
=============================================================================
