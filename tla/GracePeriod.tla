----------------------------- MODULE GracePeriod -----------------------------
(***************************************************************************)
(* What Claustra promises of the two things it announces before it does    *)
(* them, the deletion of an account and its recovery, with everything      *)
(* about links, passkeys, lists of work and failures left out: whatever is *)
(* carried out has waited for its whole time, a time that began with this  *)
(* announcement and not with one that was called off; and it is not        *)
(* undone.  Accounts, Ceremonies and Recovery are shown to implement it.   *)
(***************************************************************************)

CONSTANTS
  Things,     \* what may be announced: the deletion of a user, a recovery
  LateWord    \* it can be called off when its time is up, until it is done

VARIABLES
  phase,      \* "off", "announced" or "done"
  due         \* the time is up

vars == <<phase, due>>

Init ==
  /\ phase = [i \in Things |-> "off"]
  /\ due = [i \in Things |-> FALSE]

(* The time is there to run, whatever was before. *)
Announce(i) ==
  /\ phase[i] = "off" /\ ~due[i]
  /\ phase' = [phase EXCEPT ![i] = "announced"]
  /\ UNCHANGED due

TimeIsUp(i) ==
  /\ phase[i] = "announced"
  /\ due' = [due EXCEPT ![i] = TRUE]
  /\ UNCHANGED phase

CallOff(i) ==
  /\ phase[i] = "announced"
  /\ due[i] => LateWord
  /\ phase' = [phase EXCEPT ![i] = "off"]
  /\ due' = [due EXCEPT ![i] = FALSE]

CarryOut(i) ==
  /\ phase[i] = "announced" /\ due[i]
  /\ phase' = [phase EXCEPT ![i] = "done"]
  /\ UNCHANGED due

Next == \E i \in Things : Announce(i) \/ TimeIsUp(i) \/ CallOff(i) \/ CarryOut(i)

Spec == Init /\ [][Next]_vars
=============================================================================
