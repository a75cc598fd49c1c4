---------------------------- MODULE OneTimeGrant ----------------------------
(***************************************************************************)
(* What the authorization code flow promises, with everything about        *)
(* sessions, consent, access rules and administration left out: a code is  *)
(* issued once, buys at most one access token, and a token once dropped    *)
(* never comes back.  Grants is shown to implement this specification.     *)
(***************************************************************************)

CONSTANTS
  Codes,      \* authorization codes
  Holders     \* redemptions, each of which may end with one access token

VARIABLES
  code,       \* code[k]: "none", "fresh" (can be redeemed) or "spent"
  holder,     \* holder[k]: the redemptions that own code k
  token       \* token[h]: "none", "live" or "dead"

vars == <<code, holder, token>>

Init ==
  /\ code = [k \in Codes |-> "none"]
  /\ holder = [k \in Codes |-> {}]
  /\ token = [h \in Holders |-> "none"]

Issue(k) ==
  /\ code[k] = "none"
  /\ code' = [code EXCEPT ![k] = "fresh"]
  /\ UNCHANGED <<holder, token>>

(* A redemption takes a fresh code that nobody owns. *)
Redeem(k, h) ==
  /\ code[k] = "fresh"
  /\ holder[k] = {}
  /\ code' = [code EXCEPT ![k] = "spent"]
  /\ holder' = [holder EXCEPT ![k] = {h}]
  /\ UNCHANGED token

(* A code that expires, or is presented with the wrong binding, is lost. *)
Void(k) ==
  /\ code[k] = "fresh"
  /\ code' = [code EXCEPT ![k] = "spent"]
  /\ UNCHANGED <<holder, token>>

Mint(h) ==
  /\ token[h] = "none"
  /\ \E k \in Codes : h \in holder[k]
  /\ token' = [token EXCEPT ![h] = "live"]
  /\ UNCHANGED <<code, holder>>

(* Expiry and every revocation: any number of live tokens at once. *)
Drop(H) ==
  /\ \A h \in H : token[h] = "live"
  /\ token' = [h \in Holders |-> IF h \in H THEN "dead" ELSE token[h]]
  /\ UNCHANGED <<code, holder>>

Next ==
  \/ \E k \in Codes : Issue(k) \/ Void(k)
  \/ \E k \in Codes, h \in Holders : Redeem(k, h)
  \/ \E h \in Holders : Mint(h)
  \/ \E H \in SUBSET Holders : Drop(H)

Spec == Init /\ [][Next]_vars

=============================================================================
