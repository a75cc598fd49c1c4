----------------------------- MODULE FixedWindow -----------------------------
(***************************************************************************)
(* What a rate limiter promises its callers, and nothing of how it keeps   *)
(* it: an attempt is counted in the window of its key, a window lets Limit *)
(* attempts through, and it is not forgotten before its Duration is over.  *)
(*                                                                         *)
(* An attempt reads the clock (stamp) before it is counted, so it may be   *)
(* counted later than that.  When the window has ended in the meantime,    *)
(* the attempt may still be counted in it or begin the next one.           *)
(***************************************************************************)
EXTENDS Integers

CONSTANTS Keys, Callers, Limit, Duration, None

VARIABLES
  now,    \* the clock
  call,   \* what each caller waits for, or was told
  win     \* the window of each key, None before the first and when forgotten

vars == <<now, call, win>>

Window == [start : Nat, count : Nat]

Over(k) == win[k] # None => now - win[k].start >= Duration

Init ==
  /\ now = 0
  /\ call = [c \in Callers |-> [pc |-> "idle", key |-> None, stamp |-> 0]]
  /\ win = [k \in Keys |-> None]

Tick == now' = now + 1 /\ UNCHANGED <<call, win>>

Arrive(c, k) ==
  /\ call[c].pc # "waiting"
  /\ call' = [call EXCEPT ![c] = [pc |-> "waiting", key |-> k, stamp |-> now]]
  /\ UNCHANGED <<now, win>>

(* The window w in which an attempt with stamp t is counted. *)
CountedIn(k, t, w) ==
  \/ /\ win[k] # None
     /\ t - win[k].start < Duration
     /\ w = [start |-> win[k].start, count |-> win[k].count + 1]
  \/ /\ Over(k)
     /\ w = [start |-> t, count |-> 1]

(* The answer; windows of other keys may be forgotten once they are over. *)
Answer(c) ==
  LET k == call[c].key
  IN /\ call[c].pc = "waiting"
     /\ win' \in [Keys -> Window \cup {None}]
     /\ CountedIn(k, call[c].stamp, win'[k])
     /\ \A j \in Keys \ {k} : win'[j] = win[j] \/ (Over(j) /\ win'[j] = None)
     /\ call' = [call EXCEPT ![c] =
          [pc |-> IF win'[k].count <= Limit THEN "allowed" ELSE "refused",
           key |-> None, stamp |-> 0]]
     /\ UNCHANGED now

Next ==
  \/ Tick
  \/ \E c \in Callers : Answer(c) \/ \E k \in Keys : Arrive(c, k)

Spec == Init /\ [][Next]_vars
=============================================================================
