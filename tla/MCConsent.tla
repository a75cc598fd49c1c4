------------------------------ MODULE MCConsent ------------------------------
(* The instance of Consent that TLC checks: every prompt, every max_age,   *)
(* and the pairs of them in which one could hide the other.                *)
EXTENDS Consent

Asked ==
  {<<{}, "absent">>, <<{}, "zero">>, <<{}, "some">>,
   <<{"none"}, "absent">>, <<{"none"}, "some">>,
   <<{"login"}, "absent">>, <<{"login", "consent"}, "absent">>,
   <<{"consent"}, "absent">>, <<{"consent"}, "zero">>}
=============================================================================
