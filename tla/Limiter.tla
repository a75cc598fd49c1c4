------------------------------- MODULE Limiter -------------------------------
(***************************************************************************)
(* The rate limiter of internal/security: one window per key in a map in   *)
(* memory, under a mutex.  Allow reads the clock before it takes the       *)
(* mutex, so arriving and being decided are two steps and another caller   *)
(* with a later clock may come in between.  A map of more than Cap keys is *)
(* purged by whoever finds it so.                                          *)
(***************************************************************************)
EXTENDS Integers, FiniteSets, Sequences

CONSTANTS
  Keys,       \* keys of the map: a purpose and an address
  Callers,    \* goroutines in Allow at a time
  Limit,      \* attempts a window lets through
  Duration,   \* of a window
  Cap,        \* size of the map beyond which it is purged
  MaxTime,    \* bound of the clock
  MaxCount,   \* bound of the attempts counted in a window
  None        \* no key

ASSUME LimiterAssumption ==
  /\ {Limit, Duration, Cap, MaxTime, MaxCount} \subseteq Nat
  /\ Duration > 0
  /\ None \notin Keys \cup [start : Nat, count : Nat]

VARIABLES
  now,        \* the clock
  windows,    \* Limiter.windows: a function on the keys that are in the map
  call,       \* callers of Allow
  passed      \* auxiliary: when the last attempts of a key were let through

vars == <<now, windows, call, passed>>

Window == [start : Nat, count : Nat]
Call == [pc : {"idle", "waiting", "allowed", "refused"},
         key : Keys \cup {None}, stamp : Nat]

(* The variables' types; a waiting caller has a key, and nothing in the    *)
(* map or in a caller's hands is later than the clock.                     *)
TypeOK ==
  /\ now \in Nat
  /\ DOMAIN windows \subseteq Keys
  /\ windows \in [DOMAIN windows -> Window]
  /\ call \in [Callers -> Call]
  /\ passed \in [Keys -> Seq(Nat)]
  /\ \A k \in DOMAIN windows : windows[k].start <= now
  /\ \A c \in Callers : /\ call[c].pc = "waiting" => call[c].key \in Keys
                        /\ call[c].stamp <= now

Init ==
  /\ now = 0
  /\ windows = [k \in {} |-> None]
  /\ call = [c \in Callers |-> [pc |-> "idle", key |-> None, stamp |-> 0]]
  /\ passed = [k \in Keys |-> <<>>]

-----------------------------------------------------------------------------
(* The window of k has not ended at t. *)
Live(k, t) == k \in DOMAIN windows /\ t - windows[k].start < Duration

(* Every attempt begins the window anew. *)
MutantCounted(k, t) ==
  [start |-> t, count |-> IF Live(k, t) THEN windows[k].count + 1 ELSE 1]

(* The window that an attempt at t is counted in. *)
Counted(k, t) ==
  IF Live(k, t) THEN [start |-> windows[k].start, count |-> windows[k].count + 1]
                ELSE [start |-> t, count |-> 1]

(* The map with window w at k. *)
Entered(k, w) ==
  [j \in DOMAIN windows \cup {k} |-> IF j = k THEN w ELSE windows[j]]

(* The purge takes the windows that still count. *)
MutantPurged(m, t) ==
  IF Cardinality(DOMAIN m) > Cap
    THEN [j \in {i \in DOMAIN m : t - m[i].start < 1} |-> m[j]]
    ELSE m

(* Map m without the windows that are over at t, if there are too many. *)
Purged(m, t) ==
  IF Cardinality(DOMAIN m) > Cap
    THEN [j \in {i \in DOMAIN m : t - m[i].start <= Duration} |-> m[j]]
    ELSE m

(* One more attempt let through now; the latest Limit are kept. *)
Recorded(s) ==
  LET all == Append(s, now)
  IN IF Len(all) > Limit THEN Tail(all) ELSE all

-----------------------------------------------------------------------------
Tick ==
  /\ now < MaxTime
  /\ now' = now + 1
  /\ UNCHANGED <<windows, call, passed>>

(* now := time.Now(), before the mutex. *)
Arrive(c, k) ==
  /\ call[c].pc # "waiting"
  /\ Live(k, now) => windows[k].count < MaxCount
  /\ call' = [call EXCEPT ![c] = [pc |-> "waiting", key |-> k, stamp |-> now]]
  /\ UNCHANGED <<now, windows, passed>>

(* Allow, under the mutex: count, store, purge, answer. *)
Allow(c) ==
  LET k == call[c].key
      t == call[c].stamp
      w == Counted(k, t)
      ok == w.count <= Limit
  IN /\ call[c].pc = "waiting"
     /\ windows' = Purged(Entered(k, w), t)
     /\ call' = [call EXCEPT ![c] = [pc |-> IF ok THEN "allowed" ELSE "refused",
                                     key |-> None, stamp |-> 0]]
     /\ passed' = IF ok THEN [passed EXCEPT ![k] = Recorded(@)] ELSE passed
     /\ UNCHANGED now

Next ==
  \/ Tick
  \/ \E c \in Callers : Allow(c) \/ \E k \in Keys : Arrive(c, k)

Spec == Init /\ [][Next]_vars

-----------------------------------------------------------------------------
(* Properties.                                                             *)

(* Allow keeps the promise of a fixed window: whoever purges the map, with *)
(* however old a clock, forgets no window that is not over.                *)
Promise == INSTANCE FixedWindow
  WITH win <- [k \in Keys |-> IF k \in DOMAIN windows THEN windows[k] ELSE None]
ImplementsFixedWindow == Promise!Spec

(* Nobody is locked out by trying again: who is refused has Limit attempts *)
(* before him that were let through less than a Duration before his own.   *)
RefusedForCause ==
  [][\A c \in Callers : Allow(c) /\ call'[c].pc = "refused" =>
       LET k == call[c].key n == Len(passed[k])
       IN /\ n >= Limit
          /\ Limit > 0 => passed[k][n - Limit + 1] > call[c].stamp - Duration]_vars
=============================================================================
