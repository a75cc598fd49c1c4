---------------------------- MODULE LimiterProofs ----------------------------
(***************************************************************************)
(* Limiter implements FixedWindow for every number of keys and callers and *)
(* every limit, duration and size of the map.  The argument is that of the *)
(* purge: who takes a window out of the map saw with a clock not later     *)
(* than now that it was over, so it is over now (AllowRefines).  And a     *)
(* refusal has its cause, because a full window counted the last Limit     *)
(* attempts that were let through (Reached).  Then Emails, for every       *)
(* number of accounts, addresses, links and requests: a verification under *)
(* way has opened its link (Opened), and has seen the address it replaces  *)
(* unless another request was in between (Sees).                           *)
(***************************************************************************)
EXTENDS Limiter, Emails, SequenceTheorems, TLAPS

(* The windows as the refinement mapping reads them. *)
WinOf == [k \in Keys |-> IF k \in DOMAIN windows THEN windows[k] ELSE None]

LEMMA CountedTyped ==
  ASSUME TypeOK, NEW k \in Keys, NEW t \in Nat, t <= now
  PROVE  Counted(k, t) \in Window /\ Counted(k, t).start <= now
BY DEF TypeOK, Counted, Live, Window

LEMMA RecordedTyped ==
  ASSUME NEW s \in Seq(Nat), now \in Nat
  PROVE  Recorded(s) \in Seq(Nat)
<1> DEFINE all == Append(s, now)
<1>1. all \in Seq(Nat) /\ all # <<>>
  BY AppendProperties
<1>2. Tail(all) \in Seq(Nat)
  BY <1>1, HeadTailProperties
<1>3. QED
  BY <1>1, <1>2 DEF Recorded

LEMMA AllowTyped ==
  ASSUME TypeOK, NEW c \in Callers, Allow(c)
  PROVE  TypeOK'
<1> DEFINE k == call[c].key
           t == call[c].stamp
           w == Counted(k, t)
           m == Entered(k, w)
<1>1. k \in Keys /\ t \in Nat /\ t <= now
  BY DEF TypeOK, Allow, Call
<1>2. w \in Window /\ w.start <= now
  BY <1>1, CountedTyped
<1>3. windows' = Purged(m, t) /\ now' = now
  BY DEF Allow
<1>4. call' \in [Callers -> Call]
  BY DEF TypeOK, Allow, Call
<1>5. \A d \in Callers : /\ call'[d].pc = "waiting" => call'[d].key \in Keys
                         /\ call'[d].stamp <= now'
  BY DEF TypeOK, Allow, Call
<1>6. passed' \in [Keys -> Seq(Nat)]
  BY <1>1, RecordedTyped DEF TypeOK, Allow
<1>7. now' \in Nat
  BY <1>3 DEF TypeOK, Allow
<1> HIDE DEF k, t, w
<1>8. /\ DOMAIN m \subseteq Keys
      /\ m = [j \in DOMAIN m |-> m[j]]
      /\ \A j \in DOMAIN m : m[j] \in Window /\ m[j].start <= now
  BY <1>1, <1>2 DEF TypeOK, Entered
<1> HIDE DEF m
<1>9. /\ DOMAIN windows' \subseteq DOMAIN m
      /\ windows' = [j \in DOMAIN windows' |-> windows'[j]]
      /\ \A j \in DOMAIN windows' : windows'[j] = m[j]
  BY <1>3, <1>8 DEF Purged
<1>10. /\ DOMAIN windows' \subseteq Keys
       /\ windows' \in [DOMAIN windows' -> Window]
       /\ \A j \in DOMAIN windows' : windows'[j].start <= now'
  BY <1>3, <1>8, <1>9
<1>11. QED
  BY <1>4, <1>5, <1>6, <1>7, <1>10 DEF TypeOK

LEMMA InitTyped == Init => TypeOK
<1> SUFFICES ASSUME Init PROVE TypeOK
  OBVIOUS
<1>1. /\ DOMAIN windows = {}
      /\ windows \in [DOMAIN windows -> Window]
  BY DEF Init
<1>2. passed \in [Keys -> Seq(Nat)]
  BY EmptySeq DEF Init
<1>3. call \in [Callers -> Call] /\ \A c \in Callers : call[c].pc = "idle" /\ call[c].stamp = 0
  BY DEF Init, Call
<1>4. now \in Nat /\ 0 <= now
  BY DEF Init
<1>5. DOMAIN windows \subseteq Keys /\ \A k \in DOMAIN windows : windows[k].start <= now
  BY <1>1
<1>6. \A c \in Callers : /\ call[c].pc = "waiting" => call[c].key \in Keys
                         /\ call[c].stamp <= now
  BY <1>3, <1>4
<1>7. QED
  BY <1>1, <1>2, <1>3, <1>4, <1>5, <1>6 DEF TypeOK

LEMMA NextTyped == TypeOK /\ [Next]_vars => TypeOK'
<1> SUFFICES ASSUME TypeOK, [Next]_vars PROVE TypeOK'
  OBVIOUS
<1>1. CASE Tick
  BY <1>1 DEF Tick, TypeOK, Call, Window
<1>2. ASSUME NEW c \in Callers, NEW k \in Keys, Arrive(c, k) PROVE TypeOK'
  BY <1>2 DEF Arrive, TypeOK, Call
<1>3. ASSUME NEW c \in Callers, Allow(c) PROVE TypeOK'
  BY <1>3, AllowTyped
<1>4. CASE UNCHANGED vars
  BY <1>4 DEF vars, TypeOK, Live
<1>5. QED
  BY <1>1, <1>2, <1>3, <1>4 DEF Next

(* The map holds windows of keys, none of them from the future, and a      *)
(* caller that waits has read a clock that is not ahead.                   *)
THEOREM TypeCorrect == Spec => []TypeOK
BY InitTyped, NextTyped, PTL DEF Spec

-----------------------------------------------------------------------------
(* A decision is an answer of the fixed window. *)
LEMMA AllowRefines ==
  ASSUME TypeOK, NEW c \in Callers, Allow(c)
  PROVE  Promise!Answer(c)
<1> DEFINE k == call[c].key
           t == call[c].stamp
           w == Counted(k, t)
           m == Entered(k, w)
<1>1. k \in Keys /\ t \in Nat /\ t <= now
  BY DEF TypeOK, Allow, Call
<1>2. w \in Window /\ w.start <= now
  BY <1>1, CountedTyped
<1>3. /\ windows' = Purged(m, t) /\ now' = now
      /\ call[c].pc = "waiting"
      /\ call' = [call EXCEPT ![c] =
           [pc |-> IF w.count <= Limit THEN "allowed" ELSE "refused",
            key |-> None, stamp |-> 0]]
  BY DEF Allow
<1>4. /\ Duration \in Nat /\ Duration > 0
      /\ \A x \in Window : x # None
  BY LimiterAssumption DEF Window
<1>5. /\ Live(k, t) => /\ k \in DOMAIN windows
                        /\ t - windows[k].start < Duration
                        /\ w = [start |-> windows[k].start, count |-> windows[k].count + 1]
      /\ ~Live(k, t) => w = [start |-> t, count |-> 1]
  BY DEF Counted, Live
<1>6. ~Live(k, t) /\ k \in DOMAIN windows => t - windows[k].start >= Duration
  BY <1>1, <1>4 DEF Live, TypeOK, Window
<1>7. /\ DOMAIN windows \subseteq Keys
      /\ \A j \in DOMAIN windows : windows[j] \in Window /\ windows[j].start \in Nat
  BY DEF TypeOK, Window
<1>8. now \in Nat /\ now' \in Nat /\ TypeOK'
  BY <1>3, AllowTyped DEF TypeOK
<1> HIDE DEF k, t, w
<1>9. /\ DOMAIN m = DOMAIN windows \cup {k}
      /\ \A j \in DOMAIN m : m[j] = IF j = k THEN w ELSE windows[j]
  BY <1>1 DEF Entered
<1> HIDE DEF m
<1>10. /\ DOMAIN windows' \subseteq DOMAIN m
       /\ \A j \in DOMAIN windows' : windows'[j] = m[j]
       /\ \A j \in DOMAIN m \ DOMAIN windows' : ~(t - m[j].start <= Duration)
  BY <1>3 DEF Purged
<1>11. k \in DOMAIN windows' /\ windows'[k] = w
  <2>1. t - w.start <= Duration
    BY <1>1, <1>4, <1>5, <1>7
  <2>2. QED
    BY <1>9, <1>10, <2>1
<1>12. WinOf'[k] = w
  BY <1>1, <1>11 DEF WinOf
<1>13. Promise!CountedIn(k, t, w)
  <2>1. CASE Live(k, t)
    <3>1. WinOf[k] = windows[k] /\ WinOf[k] # None
      BY <1>1, <1>4, <1>5, <1>7, <2>1 DEF WinOf
    <3>2. QED
      BY <1>5, <2>1, <3>1 DEF Promise!CountedIn, WinOf
  <2>2. CASE ~Live(k, t) /\ k \in DOMAIN windows
    <3>1. now - windows[k].start >= Duration
      BY <1>1, <1>4, <1>6, <1>7, <1>8, <2>2
    <3>2. QED
      BY <1>1, <1>5, <2>2, <3>1 DEF Promise!CountedIn, Promise!Over
  <2>3. CASE ~Live(k, t) /\ k \notin DOMAIN windows
    BY <1>1, <1>5, <2>3 DEF Promise!CountedIn, Promise!Over
  <2>4. QED
    BY <2>1, <2>2, <2>3
<1>14. ASSUME NEW j \in Keys \ {k}
       PROVE  WinOf'[j] = WinOf[j] \/ (Promise!Over(j) /\ WinOf'[j] = None)
  <2>1. CASE j \in DOMAIN windows'
    BY <1>9, <1>10, <1>14, <2>1 DEF WinOf
  <2>2. CASE j \notin DOMAIN windows' /\ j \notin DOMAIN windows
    BY <1>14, <2>2 DEF WinOf
  <2>3. CASE j \notin DOMAIN windows' /\ j \in DOMAIN windows
    <3>1. m[j] = windows[j] /\ ~(t - windows[j].start <= Duration)
      BY <1>9, <1>10, <1>14, <2>3
    <3>2. now - windows[j].start >= Duration
      BY <1>1, <1>4, <1>7, <1>8, <2>3, <3>1
    <3>3. QED
      BY <1>14, <2>3, <3>2 DEF WinOf, Promise!Over
  <2>4. QED
    BY <2>1, <2>2, <2>3
<1>15. WinOf' \in [Keys -> Promise!Window \cup {None}]
  BY <1>8 DEF WinOf, TypeOK, Window, Promise!Window
<1>16. QED
  BY <1>3, <1>12, <1>13, <1>14, <1>15 DEF Promise!Answer, WinOf, k, t

LEMMA InitRefines == Init => Promise!Init
BY DEF Init, Promise!Init

LEMMA NextRefines == TypeOK /\ [Next]_vars => [Promise!Next]_(Promise!vars)
<1> SUFFICES ASSUME TypeOK, [Next]_vars PROVE [Promise!Next]_(Promise!vars)
  OBVIOUS
<1>1. CASE Tick
  BY <1>1 DEF Tick, Promise!Next, Promise!Tick
<1>2. ASSUME NEW c \in Callers, NEW k \in Keys, Arrive(c, k) PROVE Promise!Next
  <2>1. Promise!Arrive(c, k)
    BY <1>2 DEF Arrive, Promise!Arrive
  <2>2. QED
    BY <2>1 DEF Promise!Next
<1>3. ASSUME NEW c \in Callers, Allow(c) PROVE Promise!Next
  BY <1>3, AllowRefines DEF Promise!Next
<1>4. CASE UNCHANGED vars
  BY <1>4 DEF vars, Promise!vars
<1>5. QED
  BY <1>1, <1>2, <1>3, <1>4 DEF Next

(* ImplementsFixedWindow for every value of the constants: no purge        *)
(* forgets a window that is not over, and a window lets Limit through.     *)
THEOREM LimiterIsFixedWindow == Spec => ImplementsFixedWindow
<1>1. Init => Promise!Init
  BY InitRefines
<1>2. TypeOK /\ [Next]_vars => [Promise!Next]_(Promise!vars)
  BY NextRefines
<1>3. QED
  BY <1>1, <1>2, TypeCorrect, PTL DEF Spec, ImplementsFixedWindow, Promise!Spec

-----------------------------------------------------------------------------
(* The attempts a window has counted, up to Limit, were let through and    *)
(* are the latest that were, none of them before the window began.         *)
Reached ==
  /\ \A k \in Keys : Len(passed[k]) <= Limit
  /\ \A k \in DOMAIN windows : \A i \in 1..Limit : i <= windows[k].count =>
       /\ i <= Len(passed[k])
       /\ passed[k][Len(passed[k]) - i + 1] >= windows[k].start

(* Recorded puts now at the end, moves the rest one place away from it,    *)
(* and keeps at most Limit.                                                *)
LEMMA RecordedLatest ==
  ASSUME NEW s \in Seq(Nat), now \in Nat, Limit > 0, Len(s) <= Limit,
         NEW r, r = Recorded(s)
  PROVE  /\ Len(r) = IF Len(s) < Limit THEN Len(s) + 1 ELSE Limit
         /\ r[Len(r)] = now
         /\ \A i \in 2..Limit : i - 1 <= Len(s) =>
              /\ i <= Len(r)
              /\ r[Len(r) - i + 1] = s[Len(s) - (i - 1) + 1]
<1> DEFINE all == Append(s, now)
           n == Len(s)
<1>1. /\ Limit \in Nat /\ n \in Nat
      /\ all \in Seq(Nat) /\ Len(all) = n + 1
      /\ all[n + 1] = now /\ \A i \in 1..n : all[i] = s[i]
  BY LimiterAssumption, AppendProperties, LenProperties
<1>2. CASE n < Limit
  <2>1. r = all
    BY <1>1, <1>2 DEF Recorded
  <2>2. QED
    BY <1>1, <1>2, <2>1
<1>3. CASE n = Limit
  <2>1. r = Tail(all)
    BY <1>1, <1>3 DEF Recorded
  <2>2. Len(r) = n /\ \A i \in 1..n : r[i] = all[i + 1]
    <3>1. all # <<>>
      BY <1>1, EmptySeq
    <3> HIDE DEF all, n
    <3>2. /\ Len(Tail(all)) = Len(all) - 1
          /\ \A i \in 1..Len(Tail(all)) : Tail(all)[i] = all[i + 1]
      BY <1>1, <3>1, HeadTailProperties
    <3>3. Len(all) - 1 = n
      BY <1>1
    <3>4. QED
      BY <2>1, <3>2, <3>3
  <2>3. QED
    BY <1>1, <1>3, <2>2
<1>4. QED
  BY <1>1, <1>2, <1>3

LEMMA AllowReaches ==
  ASSUME TypeOK, Reached, NEW c \in Callers, Allow(c)
  PROVE  Reached'
<1> DEFINE k == call[c].key
           t == call[c].stamp
           w == Counted(k, t)
           ok == w.count <= Limit
<1>1. /\ k \in Keys /\ t \in Nat /\ t <= now /\ now \in Nat /\ Limit \in Nat
      /\ passed[k] \in Seq(Nat) /\ Len(passed[k]) \in Nat
  BY LimiterAssumption DEF TypeOK, Allow, Call
<1>2. w \in Window /\ w.start \in Nat /\ w.count \in Nat /\ w.start <= now
  BY <1>1, CountedTyped DEF Window
<1>3. \/ /\ k \in DOMAIN windows /\ w.start = windows[k].start
         /\ windows[k].count \in Nat /\ w.count = windows[k].count + 1
      \/ w.count = 1
  BY DEF Counted, Live, TypeOK, Window
<1>4. /\ DOMAIN windows' \subseteq DOMAIN windows \cup {k}
      /\ \A j \in DOMAIN windows' : windows'[j] = IF j = k THEN w ELSE windows[j]
  BY DEF Allow, Purged, Entered
<1>5. /\ passed' \in [Keys -> Seq(Nat)]
      /\ \A j \in Keys \ {k} : passed'[j] = passed[j]
      /\ passed'[k] = IF ok THEN Recorded(passed[k]) ELSE passed[k]
  BY <1>1, AllowTyped DEF TypeOK, Allow
<1> HIDE DEF k, t, w
<1>6. /\ Len(passed'[k]) <= Limit
      /\ \A i \in 1..Limit : i <= w.count =>
           /\ i <= Len(passed'[k])
           /\ passed'[k][Len(passed'[k]) - i + 1] >= w.start
  <2>1. CASE ok
    <3>1. Limit > 0
      BY <1>1, <1>2, <1>3, <2>1 DEF TypeOK
    <3>2. Len(passed[k]) <= Limit
      BY <1>1 DEF Reached
    <3>3. /\ Len(passed'[k]) = IF Len(passed[k]) < Limit THEN Len(passed[k]) + 1 ELSE Limit
          /\ passed'[k][Len(passed'[k])] = now
          /\ \A i \in 2..Limit : i - 1 <= Len(passed[k]) =>
               /\ i <= Len(passed'[k])
               /\ passed'[k][Len(passed'[k]) - i + 1] = passed[k][Len(passed[k]) - (i - 1) + 1]
      BY <1>1, <1>5, <2>1, <3>1, <3>2, RecordedLatest
    <3>4. ASSUME NEW i \in 1..Limit, i <= w.count
          PROVE  /\ i <= Len(passed'[k])
                 /\ passed'[k][Len(passed'[k]) - i + 1] >= w.start
      <4>1. CASE i = 1
        <5>1. Len(passed'[k]) \in Nat /\ 1 <= Len(passed'[k])
          BY <1>1, <3>1, <3>3
        <5>2. Len(passed'[k]) - i + 1 = Len(passed'[k])
          BY <4>1, <5>1
        <5>3. QED
          BY <1>1, <1>2, <3>3, <4>1, <5>1, <5>2
      <4>2. CASE i > 1
        <5>1. /\ k \in DOMAIN windows /\ w.start = windows[k].start
              /\ i - 1 \in 1..Limit /\ i - 1 <= windows[k].count
          BY <1>1, <1>2, <1>3, <3>4, <4>2
        <5>2. /\ i - 1 <= Len(passed[k])
              /\ passed[k][Len(passed[k]) - (i - 1) + 1] >= w.start
          BY <5>1 DEF Reached
        <5>3. QED
          BY <1>1, <3>3, <3>4, <4>2, <5>2
      <4>3. QED
        BY <1>1, <4>1, <4>2
    <3>5. QED
      BY <1>1, <3>2, <3>3, <3>4
  <2>2. CASE ~ok
    <3>1. passed'[k] = passed[k] /\ Len(passed[k]) <= Limit
      BY <1>1, <1>5, <2>2 DEF Reached
    <3>2. ASSUME NEW i \in 1..Limit
          PROVE  /\ i <= Len(passed[k])
                 /\ passed[k][Len(passed[k]) - i + 1] >= w.start
      <4>1. /\ k \in DOMAIN windows /\ w.start = windows[k].start
            /\ i <= windows[k].count
        BY <1>1, <1>2, <1>3, <2>2, <3>2
      <4>2. QED
        BY <4>1 DEF Reached
    <3>3. QED
      BY <3>1, <3>2
  <2>3. QED
    BY <2>1, <2>2
<1>7. ASSUME NEW j \in Keys \ {k} PROVE Len(passed'[j]) <= Limit
  BY <1>5, <1>7 DEF Reached
<1>8. ASSUME NEW j \in DOMAIN windows', j # k, NEW i \in 1..Limit, i <= windows'[j].count
      PROVE  /\ i <= Len(passed'[j])
             /\ passed'[j][Len(passed'[j]) - i + 1] >= windows'[j].start
  <2>1. j \in DOMAIN windows /\ windows'[j] = windows[j] /\ j \in Keys
    BY <1>4, <1>8 DEF TypeOK
  <2>2. passed'[j] = passed[j]
    BY <1>5, <1>8, <2>1
  <2>3. QED
    BY <1>8, <2>1, <2>2 DEF Reached
<1>9. QED
  BY <1>4, <1>6, <1>7, <1>8 DEF Reached

(* RefusedForCause for every value of the constants: a window that is full *)
(* has counted Limit attempts since it began.                              *)
THEOREM RefusalsHaveCause == Spec => RefusedForCause
<1>1. Init => Reached
  <2>1. ASSUME Init PROVE Reached
    <3>1. DOMAIN windows = {} /\ \A k \in Keys : passed[k] = <<>>
      BY <2>1 DEF Init
    <3>2. Limit \in Nat /\ Len(<<>>) = 0
      BY LimiterAssumption
    <3>3. QED
      BY <3>1, <3>2 DEF Reached
  <2>2. QED
    BY <2>1
<1>2. TypeOK /\ Reached /\ [Next]_vars => Reached'
  <2> SUFFICES ASSUME TypeOK, Reached, [Next]_vars PROVE Reached'
    OBVIOUS
  <2>1. CASE UNCHANGED <<windows, passed>>
    BY <2>1 DEF Reached
  <2>2. ASSUME NEW c \in Callers, Allow(c) PROVE Reached'
    BY <2>2, AllowReaches
  <2>3. QED
    BY <2>1, <2>2 DEF Next, Tick, Arrive, vars
<1>3. ASSUME TypeOK, Reached, NEW c \in Callers, Allow(c), call'[c].pc = "refused"
      PROVE  LET k == call[c].key n == Len(passed[k])
             IN /\ n >= Limit
                /\ Limit > 0 => passed[k][n - Limit + 1] > call[c].stamp - Duration
  <2> DEFINE k == call[c].key
             t == call[c].stamp
             n == Len(passed[k])
  <2>1. /\ k \in Keys /\ t \in Nat /\ Limit \in Nat /\ Duration \in Nat
        /\ passed[k] \in Seq(Nat) /\ n \in Nat
    BY <1>3, LimiterAssumption DEF TypeOK, Allow, Call
  <2>2. ~(Counted(k, t).count <= Limit)
    BY <1>3 DEF Allow, TypeOK
  <2>3. CASE Limit = 0
    BY <2>1, <2>3
  <2>4. CASE Limit > 0
    <3>1. Live(k, t)
      BY <2>1, <2>2, <2>4 DEF Counted
    <3>2. /\ k \in DOMAIN windows /\ t - windows[k].start < Duration
          /\ windows[k].start \in Nat /\ Limit <= windows[k].count
      BY <1>3, <2>1, <2>2, <3>1 DEF Counted, Live, TypeOK, Window
    <3>3. Limit \in 1..Limit
      BY <2>1, <2>4
    <3>4. /\ Limit <= n
          /\ passed[k][n - Limit + 1] >= windows[k].start
      BY <1>3, <3>2, <3>3 DEF Reached
    <3>5. passed[k][n - Limit + 1] \in Nat
      <4>1. n - Limit + 1 \in 1..n
        BY <2>1, <2>4, <3>4
      <4>2. QED
        BY <2>1, <4>1, ElementOfSeq
    <3>6. passed[k][n - Limit + 1] > t - Duration
      <4> DEFINE p == passed[k][n - Limit + 1]
                 b == windows[k].start
      <4>1. p \in Nat /\ b \in Nat /\ p >= b /\ t - b < Duration
        BY <3>2, <3>4, <3>5
      <4> HIDE DEF p, b, t
      <4>2. p > t - Duration
        BY <2>1, <4>1
      <4>3. QED
        BY <4>2 DEF p
    <3>7. QED
      BY <3>4, <3>6
  <2>5. QED
    BY <2>1, <2>3, <2>4
<1>4. TypeOK /\ Reached /\ [Next]_vars =>
        [\A c \in Callers : Allow(c) /\ call'[c].pc = "refused" =>
           LET k == call[c].key n == Len(passed[k])
           IN /\ n >= Limit
              /\ Limit > 0 => passed[k][n - Limit + 1] > call[c].stamp - Duration]_vars
  BY <1>3
<1>5. QED
  BY <1>1, <1>2, <1>4, TypeCorrect, PTL DEF Spec, RefusedForCause

-----------------------------------------------------------------------------
(* How accounts come by their addresses (Emails).                          *)

(* A link that was stored has its account and its address, and so has a    *)
(* request what it works on.                                               *)
Addressed ==
  /\ \A l \in Links : link[l].state \in {"sent", "unsent", "used"} =>
       link[l].user \in Users /\ link[l].to \in Emails
  /\ \A p \in Requests :
       /\ req[p].pc # "idle" => req[p].user \in Users
       /\ req[p].pc = "removing" => req[p].seen \in Emails
       /\ req[p].pc \in {"sending", "opened", "looked"} => req[p].to \in Emails

(* A verification under way has opened a link for what it will write. *)
Opened ==
  \A p \in Requests : req[p].pc \in {"opened", "looked"} =>
    \E l \in Links : /\ link[l].state = "used"
                     /\ link[l].user = req[p].user
                     /\ link[l].to = req[p].to

(* A request that nothing has overtaken has seen the address there is, or  *)
(* has failed to look; and only one that has looked can be late.           *)
Sees ==
  /\ \A p \in Requests : req[p].pc \in {"removing", "looked"} /\ p \notin late =>
       req[p].seen = email[req[p].user] \/ req[p].user \in gone \/ req[p].blind
  /\ \A p \in late : req[p].pc \in {"removing", "looked"}

EmailInv == EmailsTypeOK /\ Addressed /\ Opened /\ ProvenAddress /\ Sees

LEMMA EmailBegins == EmailsInit => EmailInv
BY DEF EmailsInit, EmailInv, EmailsTypeOK, Addressed, Opened, ProvenAddress, Sees, Idle,
   ReqRec, LinkRec

LEMMA FormKeeps ==
  ASSUME EmailInv, NEW p \in Requests, NEW u \in Users, NEW e \in Emails \cup {Null},
         ProfileUpdate(p, u, e)
  PROVE  EmailInv'
<1>1. EmailsTypeOK'
  BY DEF EmailInv, ProfileUpdate, EmailsTypeOK, Idle, ReqRec, LinkRec
<1>2. Addressed'
  BY DEF EmailInv, ProfileUpdate, EmailsTypeOK, Addressed, Idle, ReqRec
<1>3. Opened'
  BY DEF EmailInv, ProfileUpdate, EmailsTypeOK, Opened, Idle
<1>4. ProvenAddress'
  BY DEF EmailInv, ProfileUpdate, EmailsTypeOK, ProvenAddress, LinkRec
<1>5. Sees'
  BY DEF EmailInv, ProfileUpdate, EmailsTypeOK, Sees, Idle
<1>6. QED
  BY <1>1, <1>2, <1>3, <1>4, <1>5 DEF EmailInv

LEMMA RemoveKeeps ==
  ASSUME EmailInv, NEW p \in Requests, RemoveAddress(p)
  PROVE  EmailInv'
<1>1. EmailsTypeOK'
  BY DEF EmailInv, RemoveAddress, EmailsTypeOK, Idle, ReqRec, LinkRec, End, Looked,
     Addressed
<1>2. Addressed'
  BY DEF EmailInv, RemoveAddress, EmailsTypeOK, Addressed, Idle, ReqRec, End, Looked
<1>3. Opened'
  BY DEF EmailInv, RemoveAddress, EmailsTypeOK, Opened, Idle, End, Looked, Addressed
<1>4. ProvenAddress'
  BY DEF EmailInv, RemoveAddress, EmailsTypeOK, ProvenAddress, LinkRec, End, Looked,
     Addressed
<1>5. Sees'
  BY DEF EmailInv, RemoveAddress, EmailsTypeOK, Sees, Idle, End, Looked, Addressed
<1>6. QED
  BY <1>1, <1>2, <1>3, <1>4, <1>5 DEF EmailInv

LEMMA SendKeeps ==
  ASSUME EmailInv, NEW p \in Requests, NEW l \in Links, NEW sent \in BOOLEAN,
         SendLink(p, l, sent)
  PROVE  EmailInv'
<1>1. EmailsTypeOK'
  BY DEF EmailInv, SendLink, EmailsTypeOK, Idle, ReqRec, LinkRec, End, Addressed
<1>2. Addressed'
  BY DEF EmailInv, SendLink, EmailsTypeOK, Addressed, Idle, ReqRec, End
<1>3. Opened'
  BY DEF EmailInv, SendLink, EmailsTypeOK, Opened, Idle, End, Addressed
<1>4. ProvenAddress'
  BY DEF EmailInv, SendLink, EmailsTypeOK, ProvenAddress, LinkRec, End, Addressed
<1>5. Sees'
  BY DEF EmailInv, SendLink, EmailsTypeOK, Sees, Idle, End, Addressed
<1>6. QED
  BY <1>1, <1>2, <1>3, <1>4, <1>5 DEF EmailInv

LEMMA ExpireKeeps ==
  ASSUME EmailInv, NEW l \in Links, LinkExpires(l)
  PROVE  EmailInv'
<1>1. EmailsTypeOK'
  <2>1. link' \in [Links -> LinkRec]
    <3>1. [link[l] EXCEPT !.state = "expired"] \in LinkRec
      BY DEF EmailInv, EmailsTypeOK, LinkRec
    <3>2. QED
      BY <3>1 DEF EmailInv, LinkExpires, EmailsTypeOK
  <2>2. QED
    BY <2>1 DEF EmailInv, LinkExpires, EmailsTypeOK
<1>2. Addressed'
  BY DEF EmailInv, LinkExpires, EmailsTypeOK, Addressed, Idle, ReqRec
<1>3. Opened'
  BY DEF EmailInv, LinkExpires, EmailsTypeOK, Opened, Idle
<1>4. ProvenAddress'
  BY DEF EmailInv, LinkExpires, EmailsTypeOK, ProvenAddress, LinkRec
<1>5. Sees'
  BY DEF EmailInv, LinkExpires, EmailsTypeOK, Sees, Idle
<1>6. QED
  BY <1>1, <1>2, <1>3, <1>4, <1>5 DEF EmailInv

LEMMA OpenKeeps ==
  ASSUME EmailInv, NEW p \in Requests, NEW l \in Links, OpenLink(p, l)
  PROVE  EmailInv'
<1>1. EmailsTypeOK'
  <2>1. req' \in [Requests -> ReqRec]
    BY DEF EmailInv, OpenLink, EmailsTypeOK, Idle, ReqRec, LinkRec
  <2>2. link' \in [Links -> LinkRec]
    <3>1. [link[l] EXCEPT !.state = "used"] \in LinkRec
      BY DEF EmailInv, EmailsTypeOK, LinkRec
    <3>2. QED
      BY <3>1 DEF EmailInv, OpenLink, EmailsTypeOK
  <2>3. QED
    BY <2>1, <2>2 DEF EmailInv, OpenLink, EmailsTypeOK
<1>2. Addressed'
  BY DEF EmailInv, OpenLink, EmailsTypeOK, Addressed, Idle, ReqRec
<1>3. Opened'
  BY DEF EmailInv, OpenLink, EmailsTypeOK, Opened, Idle
<1>4. ProvenAddress'
  BY DEF EmailInv, OpenLink, EmailsTypeOK, ProvenAddress, LinkRec
<1>5. Sees'
  BY DEF EmailInv, OpenLink, EmailsTypeOK, Sees, Idle
<1>6. QED
  BY <1>1, <1>2, <1>3, <1>4, <1>5 DEF EmailInv

LEMMA LookKeeps ==
  ASSUME EmailInv, NEW p \in Requests, NEW answered \in BOOLEAN,
         LookAtPrevious(p, answered)
  PROVE  EmailInv'
<1>1. EmailsTypeOK'
  <2>1. req' \in [Requests -> ReqRec]
    <3>1. req[p].user \in Users
      BY DEF EmailInv, LookAtPrevious, Addressed
    <3>2. req[p] \in ReqRec /\ email[req[p].user] \in Emails \cup {Null}
      BY <3>1 DEF EmailInv, EmailsTypeOK
    <3>3. [req[p] EXCEPT !.pc = "looked",
                         !.seen = IF answered THEN email[req[p].user] ELSE Null,
                         !.blind = ~answered /\ email[req[p].user] # Null] \in ReqRec
      BY <3>2 DEF ReqRec
    <3>4. QED
      BY <3>3 DEF EmailInv, LookAtPrevious, EmailsTypeOK
  <2>2. QED
    BY <2>1 DEF EmailInv, LookAtPrevious, EmailsTypeOK
<1>2. Addressed'
  BY DEF EmailInv, LookAtPrevious, EmailsTypeOK, Addressed, Idle, ReqRec
<1>3. Opened'
  BY DEF EmailInv, LookAtPrevious, EmailsTypeOK, Opened, Idle
<1>4. ProvenAddress'
  BY DEF EmailInv, LookAtPrevious, EmailsTypeOK, ProvenAddress, LinkRec
<1>5. Sees'
  <2>1. /\ req'[p].user = req[p].user /\ req'[p].pc = "looked"
        /\ req'[p].seen = IF answered THEN email[req[p].user] ELSE Null
        /\ req'[p].blind = (~answered /\ email[req[p].user] # Null)
        /\ \A q \in Requests \ {p} : req'[q] = req[q]
    BY DEF EmailInv, LookAtPrevious, EmailsTypeOK, ReqRec
  <2>2. UNCHANGED <<email, gone, late>> /\ req[p].pc = "opened"
    BY DEF LookAtPrevious
  <2>3. req'[p].seen = email[req[p].user] \/ req'[p].blind
    BY <2>1
  <2>4. ASSUME NEW q \in Requests, req'[q].pc \in {"removing", "looked"}, q \notin late'
        PROVE  req'[q].seen = email'[req'[q].user] \/ req'[q].user \in gone' \/ req'[q].blind
    <3>1. CASE q = p
      BY <2>1, <2>2, <2>3, <3>1
    <3>2. CASE q # p
      <4>1. req'[q] = req[q] /\ email' = email /\ gone' = gone /\ late' = late
        BY <2>1, <2>2, <3>2
      <4>2. req[q].seen = email[req[q].user] \/ req[q].user \in gone \/ req[q].blind
        BY <2>4, <4>1 DEF EmailInv, Sees
      <4>3. QED
        BY <4>1, <4>2
    <3>3. QED
      BY <3>1, <3>2
  <2>5. \A q \in late' : req'[q].pc \in {"removing", "looked"}
    BY <2>1, <2>2 DEF EmailInv, EmailsTypeOK, Sees
  <2>6. QED
    BY <2>4, <2>5 DEF Sees
<1>6. QED
  BY <1>1, <1>2, <1>3, <1>4, <1>5 DEF EmailInv

LEMMA AddressKeeps ==
  ASSUME EmailInv, NEW p \in Requests, WriteAddress(p)
  PROVE  EmailInv'
<1>1. EmailsTypeOK'
  BY DEF EmailInv, WriteAddress, EmailsTypeOK, Idle, ReqRec, LinkRec, End, Looked,
     Addressed, Opened
<1>2. Addressed'
  BY DEF EmailInv, WriteAddress, EmailsTypeOK, Addressed, Idle, ReqRec, End, Looked,
     Opened
<1>3. Opened'
  BY DEF EmailInv, WriteAddress, EmailsTypeOK, Opened, Idle, End, Looked, Addressed
<1>4. ProvenAddress'
  BY DEF EmailInv, WriteAddress, EmailsTypeOK, ProvenAddress, LinkRec, End, Looked,
     Addressed, Opened
<1>5. Sees'
  BY DEF EmailInv, WriteAddress, EmailsTypeOK, Sees, Idle, End, Looked, Addressed,
     Opened
<1>6. QED
  BY <1>1, <1>2, <1>3, <1>4, <1>5 DEF EmailInv

LEMMA EndKeeps ==
  ASSUME EmailInv, NEW p \in Requests, RequestEnds(p)
  PROVE  EmailInv'
<1>1. EmailsTypeOK'
  BY DEF EmailInv, RequestEnds, EmailsTypeOK, Idle, ReqRec, LinkRec, End
<1>2. Addressed'
  BY DEF EmailInv, RequestEnds, EmailsTypeOK, Addressed, Idle, ReqRec, End
<1>3. Opened'
  BY DEF EmailInv, RequestEnds, EmailsTypeOK, Opened, Idle, End
<1>4. ProvenAddress'
  BY DEF EmailInv, RequestEnds, EmailsTypeOK, ProvenAddress, LinkRec, End
<1>5. Sees'
  BY DEF EmailInv, RequestEnds, EmailsTypeOK, Sees, Idle, End
<1>6. QED
  BY <1>1, <1>2, <1>3, <1>4, <1>5 DEF EmailInv

LEMMA DeleteKeeps ==
  ASSUME EmailInv, NEW u \in Users, DeleteUser(u)
  PROVE  EmailInv'
<1>1. EmailsTypeOK'
  BY DEF EmailInv, DeleteUser, EmailsTypeOK, Idle, ReqRec, LinkRec
<1>2. Addressed'
  BY DEF EmailInv, DeleteUser, EmailsTypeOK, Addressed, Idle, ReqRec, LinkRec
<1>3. Opened'
  BY DEF EmailInv, DeleteUser, EmailsTypeOK, Opened, Idle, LinkRec
<1>4. ProvenAddress'
  BY DEF EmailInv, DeleteUser, EmailsTypeOK, ProvenAddress, LinkRec
<1>5. Sees'
  BY DEF EmailInv, DeleteUser, EmailsTypeOK, Sees, Idle, LinkRec
<1>6. QED
  BY <1>1, <1>2, <1>3, <1>4, <1>5 DEF EmailInv

LEMMA EmailStep == EmailInv /\ [EmailsNext]_emailsVars => EmailInv'
<1> SUFFICES ASSUME EmailInv, [EmailsNext]_emailsVars PROVE EmailInv'
  OBVIOUS
<1>1. ASSUME NEW p \in Requests,
             \/ \E u \in Users, e \in Emails \cup {Null} : ProfileUpdate(p, u, e)
             \/ RemoveAddress(p)
             \/ \E l \in Links :
                  OpenLink(p, l) \/ \E sent \in BOOLEAN : SendLink(p, l, sent)
             \/ \E answered \in BOOLEAN : LookAtPrevious(p, answered)
             \/ WriteAddress(p) \/ RequestEnds(p)
      PROVE  EmailInv'
  BY <1>1, FormKeeps, RemoveKeeps, OpenKeeps, SendKeeps, LookKeeps, AddressKeeps, EndKeeps
<1>2. ASSUME NEW l \in Links, LinkExpires(l) PROVE EmailInv'
  BY <1>2, ExpireKeeps
<1>3. ASSUME NEW u \in Users, DeleteUser(u) PROVE EmailInv'
  BY <1>3, DeleteKeeps
<1>4. CASE UNCHANGED emailsVars
  BY <1>4 DEF emailsVars, EmailInv, EmailsTypeOK, Addressed, Opened, ProvenAddress, Sees
<1>5. QED
  BY <1>1, <1>2, <1>3, <1>4 DEF EmailsNext

LEMMA EmailInvariant == EmailsSpec => []EmailInv
BY EmailBegins, EmailStep, PTL DEF EmailsSpec

(* The types of Emails, and that no two accounts have one address.         *)
THEOREM AddressesTyped == EmailsSpec => []EmailsTypeOK
<1>1. EmailInv => EmailsTypeOK
  BY DEF EmailInv
<1>2. QED
  BY <1>1, EmailInvariant, PTL

(* An account has an address only if a link that was mailed there for this *)
(* account was opened: a verification under way holds such a link, though  *)
(* the row is written two statements after the link is used up.            *)
THEOREM AddressesAreProven == EmailsSpec => []ProvenAddress
<1>1. EmailInv => ProvenAddress
  BY DEF EmailInv
<1>2. QED
  BY <1>1, EmailInvariant, PTL

(* An address that an account gives up is told, unless the request that    *)
(* took it away had looked before the last change, or had failed to look:  *)
(* another one that nothing has overtaken has seen the address there is    *)
(* (Sees).                                                                 *)
THEOREM LosersAreTold == EmailsSpec => LoserIsTold
<1>1. ASSUME EmailInv, [EmailsNext]_emailsVars, NEW u \in Users,
             email[u] # Null, email'[u] # email[u], u \notin gone'
      PROVE  \/ email[u] \in told'[u]
             \/ \E p \in Requests : /\ req[p].user = u /\ req'[p].pc = "idle"
                                    /\ p \in late \/ req[p].blind
  <2>1. ASSUME NEW p \in Requests, RemoveAddress(p)
        PROVE  \/ email[u] \in told'[u]
               \/ req[p].user = u /\ req'[p].pc = "idle" /\ (p \in late \/ req[p].blind)
    BY <1>1, <2>1 DEF EmailInv, EmailsTypeOK, Addressed, Sees, RemoveAddress, End, Idle
  <2>2. ASSUME NEW p \in Requests, WriteAddress(p)
        PROVE  \/ email[u] \in told'[u]
               \/ req[p].user = u /\ req'[p].pc = "idle" /\ (p \in late \/ req[p].blind)
    BY <1>1, <2>2 DEF EmailInv, EmailsTypeOK, Addressed, Sees, WriteAddress, End, Idle
  <2>3. ASSUME NEW v \in Users, DeleteUser(v)
        PROVE  FALSE
    BY <1>1, <2>3 DEF EmailInv, EmailsTypeOK, DeleteUser
  <2>4. email' # email
    BY <1>1
  <2>5. QED
    BY <1>1, <2>1, <2>2, <2>3, <2>4
       DEF EmailsNext, emailsVars, ProfileUpdate, OpenLink, SendLink,
           LookAtPrevious,
           RequestEnds, LinkExpires
<1>2. EmailInv /\ [EmailsNext]_emailsVars =>
        [\A u \in Users :
           email[u] # Null /\ email'[u] # email[u] /\ u \notin gone' =>
             \/ email[u] \in told'[u]
             \/ \E p \in Requests : /\ req[p].user = u /\ req'[p].pc = "idle"
                                    /\ p \in late \/ req[p].blind]_emailsVars
  BY <1>1
<1>3. QED
  BY <1>2, EmailInvariant, PTL DEF EmailsSpec, LoserIsTold
=============================================================================
