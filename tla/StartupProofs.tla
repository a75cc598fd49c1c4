---------------------------- MODULE StartupProofs ----------------------------
(***************************************************************************)
(* Migrate and invalidate-restored-state, for every number of processes,   *)
(* migrations, rows, crashes and restores.                                 *)
(***************************************************************************)
EXTENDS Startup, SequenceTheorems, TLAPS

(* A dump is as well ordered as the database it was taken of. *)
DumpInOrder ==
  backup # None => /\ backup.applied = 1..Len(backup.schema)
                   /\ \A i \in 1..Len(backup.schema) : backup.schema[i] = i

(* In the loop everything before next is applied, and what a transaction   *)
(* is open for is not.                                                     *)
LoopInv ==
  \A p \in Procs :
    /\ pc[p] \in Migrating => 1..(next[p] - 1) \subseteq applied
    /\ pc[p] = "applying" => next[p] <= knows[p] /\ next[p] \notin applied
    /\ pc[p] = "checking" => next[p] <= knows[p] + 1

(* Requests that hold a restored row, too, are known to be late. *)
RestoredInv ==
  /\ \A g \in restored : row[g] # "absent"
  /\ clean => \A p \in Procs : req[p] \in restored => p \in late \/ req[p] \in late

(* Of the tables that an invalidation has passed, it has changed every     *)
(* restored row that is good, but for the late ones.                       *)
SweptInv ==
  \A o \in Operators, g \in restored :
    row[g] = "live" /\ Passed(o, g) => g \in doomed[o] \/ g \in late

Inv == /\ TypeOK /\ OnceInOrder /\ DumpInOrder /\ LoopInv /\ NeverConflicts
       /\ PastMigrateSeesAll /\ RestoredInv /\ SweptInv /\ RestoredIsDead

(* Every table of short-lived rows but that of the bootstrap links is in   *)
(* the list.                                                               *)
LEMMA EveryTable ==
  /\ Len(Statements) = 9
  /\ \A g \in Rows : IsLink(g) \/ \E i \in 1..9 : Statements[i] = Table[g]
<1>1. Len(Statements) = 9
  BY DEF Statements
<1>2. \A t \in EphemeralTables : t = "bootstrap_tokens" \/ \E i \in 1..9 : Statements[i] = t
  <2>1. /\ Statements[1] = "sso_sessions" /\ Statements[2] = "access_tokens"
        /\ Statements[3] = "authorization_codes" /\ Statements[4] = "webauthn_challenges"
        /\ Statements[5] = "email_tokens" /\ Statements[6] = "forward_tickets"
        /\ Statements[7] = "forward_sessions" /\ Statements[8] = "credentials"
        /\ Statements[9] = "recoveries"
    BY DEF Statements
  <2>2. QED
    BY <2>1 DEF EphemeralTables
<1>3. QED
  BY <1>1, <1>2, StartupAssumption DEF IsLink

LEMMA InitInv == Init => Inv
<1> SUFFICES ASSUME Init PROVE Inv
  OBVIOUS
<1>1. /\ schema = <<>> /\ schema \in Seq(1..Latest) /\ Len(schema) = 0 /\ applied = {}
      /\ 1..0 = {}
  BY EmptySeq DEF Init
<1>2. TypeOK
  BY <1>1, StartupAssumption, EveryTable DEF Init, TypeOK, RowState, Migrating
<1>3. OnceInOrder /\ DumpInOrder
  BY <1>1 DEF Init, OnceInOrder, DumpInOrder
<1>4. LoopInv /\ NeverConflicts /\ PastMigrateSeesAll
  BY DEF Init, LoopInv, NeverConflicts, PastMigrateSeesAll, Migrating
<1>5. RestoredInv /\ SweptInv /\ RestoredIsDead
  BY DEF Init, RestoredInv, SweptInv, RestoredIsDead
<1>6. QED
  BY <1>2, <1>3, <1>4, <1>5 DEF Inv

(* A migration is applied after all before it, by the one that holds the   *)
(* lock: nobody else is in the loop.                                       *)
LEMMA ApplyKeeps ==
  ASSUME Inv, NEW p \in Procs, Apply(p)
  PROVE  Inv'
<1>1. /\ pc[p] = "applying" /\ lock = p /\ p \in Procs
      /\ next[p] \in 1..Latest /\ next[p] <= knows[p] /\ knows[p] \in 1..Latest
      /\ next[p] \notin applied /\ 1..(next[p] - 1) \subseteq applied
  BY StartupAssumption DEF Inv, TypeOK, LoopInv, Apply, Migrating
<1>2. /\ schema' = Append(schema, next[p])
      /\ applied' = applied \cup {next[p]}
      /\ next' = [next EXCEPT ![p] = @ + 1]
      /\ pc' = [pc EXCEPT ![p] = "checking"]
      /\ UNCHANGED <<row, backup, lock, knows, req, stmt, doomed, faults, restored, clean, late>>
  BY <1>1 DEF Apply, sweep, aux
<1>3. Len(schema) \in Nat /\ schema \in Seq(1..Latest) /\ applied = 1..Len(schema)
  BY DEF Inv, TypeOK, OnceInOrder
<1>4. next[p] = Len(schema) + 1
  <2>1. next[p] > Len(schema) /\ next[p] \in Nat
    BY <1>1, <1>3
  <2>2. CASE next[p] > 1
    <3>1. next[p] - 1 \in 1..(next[p] - 1)
      BY <2>1, <2>2
    <3>2. next[p] - 1 \in 1..Len(schema)
      BY <1>1, <1>3, <3>1
    <3>3. QED
      BY <1>3, <2>1, <3>2
  <2>3. CASE next[p] = 1
    BY <1>3, <2>1, <2>3
  <2>4. QED
    BY <1>1, <2>2, <2>3
<1>5. /\ schema' \in Seq(1..Latest) /\ Len(schema') = Len(schema) + 1
      /\ \A i \in 1..Len(schema) : schema'[i] = schema[i]
      /\ schema'[Len(schema) + 1] = next[p]
  BY <1>1, <1>2, <1>3, AppendProperties
<1>6. OnceInOrder'
  BY <1>2, <1>3, <1>4, <1>5 DEF Inv, OnceInOrder
<1>7. TypeOK'
  <2>1. applied' \subseteq 1..Latest /\ pc[p] \in Migrating /\ next[p] + 1 \in 1..(Latest + 1)
    <3>1. applied' \subseteq 1..Latest
      BY <1>1, <1>2 DEF Inv, TypeOK
    <3>2. next[p] + 1 \in 1..(Latest + 1)
      BY <1>1, StartupAssumption
    <3>3. QED
      BY <1>1, <3>1, <3>2 DEF Migrating
  <2>2. next' \in [Procs -> 1..(Latest + 1)]
    BY <1>2, <2>1 DEF Inv, TypeOK
  <2>3. /\ pc' \in [Procs -> Migrating \cup {"down", "opening", "conflict", "ready", "serving", "done"}]
        /\ \A q \in Procs : /\ pc'[q] \in Migrating <=> lock = q
                            /\ req[q] # None => pc'[q] = "serving"
    BY <1>1, <1>2, <2>1 DEF Inv, TypeOK, Migrating
  <2>4. QED
    BY <1>2, <1>5, <2>1, <2>2, <2>3 DEF Inv, TypeOK
<1>8. \A q \in Procs : q # p => pc[q] \notin Migrating /\ pc'[q] = pc[q]
  BY <1>1, <1>2 DEF Inv, TypeOK
<1>9. LoopInv'
  <2>1. pc'[p] = "checking" /\ next'[p] = next[p] + 1
    BY <1>1, <1>2 DEF Inv, TypeOK
  <2>2. 1..(next'[p] - 1) \subseteq applied'
    BY <1>1, <1>2, <2>1
  <2>3. QED
    BY <1>1, <1>2, <1>8, <2>1, <2>2 DEF LoopInv, Migrating
<1>10. NeverConflicts' /\ PastMigrateSeesAll'
  BY <1>1, <1>2, <1>8 DEF Inv, TypeOK, NeverConflicts, PastMigrateSeesAll
<1>11. QED
  BY <1>2, <1>6, <1>7, <1>9, <1>10 DEF Inv, DumpInOrder, RestoredInv, SweptInv, Passed, RestoredIsDead

(* Starts, skips, crashes and what else moves a process. *)
LEMMA ProcessKeeps ==
  ASSUME Inv, NEW p \in Procs,
         (\E v \in 1..Latest : Start(p, v)) \/ Lock(p) \/ Check(p) \/ Unlock(p) \/ Crash(p)
  PROVE  Inv'
<1>1. UNCHANGED <<schema, applied, row, backup, restored, clean>>
  BY DEF Start, Lock, Check, Unlock, Crash, database, aux
<1>2. \A q \in Procs \ {p} : /\ pc'[q] = pc[q] /\ knows'[q] = knows[q]
                             /\ next'[q] = next[q] /\ req'[q] = req[q]
  BY DEF Inv, TypeOK, Start, Lock, Check, Unlock, Crash, aux
<1>3. TypeOK'
  <2>1. ASSUME NEW v \in 1..Latest, Start(p, v) PROVE TypeOK'
    BY <2>1, <1>1, StartupAssumption DEF Start, Inv, TypeOK, Migrating, sweep, aux
  <2>2. CASE Lock(p)
    BY <2>2, <1>1, StartupAssumption DEF Lock, Inv, TypeOK, Migrating, sweep, aux
  <2>3. CASE Check(p)
    <3>1. UNCHANGED <<database, lock, knows, req, sweep, faults, aux>> /\ pc[p] = "checking"
      BY <2>3 DEF Check
    <3>2. CASE pc' = pc /\ next' = [next EXCEPT ![p] = @ + 1]
      <4>1. next[p] + 1 \in 1..(Latest + 1)
        BY <2>3, StartupAssumption DEF Check, Inv, TypeOK
      <4>2. next' \in [Procs -> 1..(Latest + 1)]
        BY <3>2, <4>1 DEF Inv, TypeOK
      <4>3. QED
        BY <1>1, <3>1, <3>2, <4>2 DEF Inv, TypeOK, sweep, aux
    <3>3. CASE next' = next /\ pc' = [pc EXCEPT ![p] = "applying"]
      BY <1>1, <3>1, <3>3 DEF Inv, TypeOK, Migrating, sweep, aux
    <3>4. QED
      BY <2>3, <3>2, <3>3 DEF Check
  <2>4. CASE Unlock(p)
    BY <2>4, <1>1, StartupAssumption DEF Unlock, Inv, TypeOK, Migrating, sweep, aux
  <2>5. CASE Crash(p)
    BY <2>5, <1>1, StartupAssumption, EveryTable DEF Crash, Inv, TypeOK, Migrating
  <2>6. QED
    BY <2>1, <2>2, <2>3, <2>4, <2>5
<1>4. /\ pc'[p] \in Migrating => 1..(next'[p] - 1) \subseteq applied
      /\ pc'[p] = "applying" => next'[p] <= knows'[p] /\ next'[p] \notin applied
      /\ pc'[p] = "checking" => next'[p] <= knows'[p] + 1
      /\ pc'[p] # "conflict"
      /\ pc'[p] \in {"ready", "serving"} => 1..knows'[p] \subseteq applied
  <2>1. ASSUME NEW v \in 1..Latest, Start(p, v) PROVE pc'[p] = "opening"
    BY <2>1 DEF Start, Inv, TypeOK
  <2>2. ASSUME Lock(p) PROVE pc'[p] = "checking" /\ next'[p] = 1 /\ knows'[p] \in 1..Latest
    BY <2>2 DEF Lock, Inv, TypeOK
  <2>3. ASSUME Crash(p) PROVE pc'[p] = "down"
    BY <2>3 DEF Crash, Inv, TypeOK
  <2>4. ASSUME Unlock(p)
        PROVE  pc'[p] \in {"ready", "serving"} /\ 1..knows'[p] \subseteq applied
    <3>1. /\ next[p] \in 1..(Latest + 1) /\ knows[p] \in 1..Latest /\ next[p] > knows[p]
          /\ knows' = knows /\ 1..(next[p] - 1) \subseteq applied
      BY <2>4 DEF Unlock, Inv, TypeOK, LoopInv, Migrating
    <3>2. QED
      BY <2>4, <3>1, StartupAssumption DEF Unlock, Inv, TypeOK
  <2>5. ASSUME Check(p)
        PROVE  /\ pc'[p] \in Migrating /\ 1..(next'[p] - 1) \subseteq applied
               /\ next'[p] <= knows'[p] + 1
               /\ pc'[p] = "applying" => next'[p] <= knows'[p] /\ next'[p] \notin applied
    <3>1. /\ next[p] \in 1..(Latest + 1) /\ knows[p] \in 1..Latest /\ next[p] <= knows[p]
          /\ knows' = knows /\ 1..(next[p] - 1) \subseteq applied /\ pc[p] = "checking"
      BY <2>5 DEF Check, Inv, TypeOK, LoopInv, Migrating
    <3>2. CASE next[p] \in applied
      BY <2>5, <3>1, <3>2 DEF Check, Inv, TypeOK, Migrating
    <3>3. CASE next[p] \notin applied
      BY <2>5, <3>1, <3>3 DEF Check, Inv, TypeOK, Migrating
    <3>4. QED
      BY <3>2, <3>3
  <2>6. QED
    BY <2>1, <2>2, <2>3, <2>4, <2>5 DEF Migrating
<1>5. LoopInv' /\ NeverConflicts' /\ PastMigrateSeesAll'
  BY <1>1, <1>2, <1>4 DEF Inv, LoopInv, NeverConflicts, PastMigrateSeesAll
<1>6. (late' = late /\ req'[p] = req[p]) \/ (late' = late \ {p} /\ req'[p] = None)
  BY DEF Inv, TypeOK, Start, Lock, Check, Unlock, Crash, aux
<1>7. RestoredInv' /\ SweptInv' /\ RestoredIsDead'
  <2>1. \A g \in restored : g # p /\ g # None /\ g \in Rows
    BY StartupAssumption DEF Inv, TypeOK
  <2>2. ASSUME NEW q \in Procs, clean, req'[q] \in restored
        PROVE  q \in late' \/ req'[q] \in late'
    BY <1>2, <1>6, <2>1, <2>2 DEF Inv, RestoredInv
  <2>3. RestoredIsDead'
    BY <1>1, <1>6, <2>1 DEF Inv, RestoredIsDead
  <2>4. SweptInv'
    <3>1. ASSUME NEW o \in Operators, stmt'[o] # 1 PROVE stmt'[o] = stmt[o] /\ doomed'[o] = doomed[o]
      BY <3>1 DEF Start, Lock, Check, Unlock, Crash, sweep
    <3>2. ASSUME NEW o \in Operators, NEW g \in restored, row[g] = "live", Passed(o, g)'
          PROVE  g \in doomed'[o] \/ g \in late'
      <4>1. stmt'[o] # 1
        BY <3>2 DEF Passed
      <4>2. Passed(o, g) /\ doomed'[o] = doomed[o]
        BY <3>1, <3>2, <4>1 DEF Passed
      <4>3. QED
        BY <1>6, <2>1, <3>2, <4>2 DEF Inv, SweptInv
    <3>3. QED
      BY <1>1, <3>2 DEF SweptInv
  <2>5. QED
    BY <1>1, <2>2, <2>3, <2>4 DEF Inv, RestoredInv
<1>8. QED
  BY <1>1, <1>3, <1>5, <1>7 DEF Inv, OnceInOrder, DumpInOrder

(* A statement of the invalidation, and its commit. *)
LEMMA SweepKeeps ==
  ASSUME Inv, NEW p \in Operators, InvalidateTable(p) \/ Invalidate(p)
  PROVE  Inv'
<1>1. /\ UNCHANGED <<schema, applied, backup, lock, knows, next, req, faults, restored>>
      /\ pc[p] = "ready" /\ p \in Procs
  BY DEF InvalidateTable, Invalidate, database, aux, Procs
<1>2. CASE InvalidateTable(p)
  <2>1. PICK seen : /\ seen = {g \in Rows : Table[g] = Statements[stmt[p]] /\ row[g] = "live"}
                    /\ doomed' = [doomed EXCEPT ![p] = @ \cup seen]
    BY <1>2 DEF InvalidateTable
  <2>2. /\ UNCHANGED <<row, pc, restored, clean, late>>
        /\ stmt' = [stmt EXCEPT ![p] = @ + 1] /\ stmt[p] \in 1..9
        /\ stmt \in [Operators -> 1..10] /\ doomed \in [Operators -> SUBSET Rows]
    BY <1>2, EveryTable DEF InvalidateTable, database, aux, Inv, TypeOK
  <2>3. TypeOK'
    <3>1. stmt' \in [Operators -> 1..10] /\ doomed' \in [Operators -> SUBSET Rows]
      BY <2>1, <2>2
    <3>2. QED
      BY <1>1, <2>2, <3>1, EveryTable DEF Inv, TypeOK
  <2>4. SweptInv'
    <3>1. ASSUME NEW o \in Operators, NEW g \in restored, row[g] = "live", Passed(o, g)'
          PROVE  g \in doomed'[o] \/ g \in late
      <4>1. g \in Rows
        BY DEF Inv, TypeOK
      <4>2. CASE Passed(o, g)
        BY <2>1, <2>2, <3>1, <4>2 DEF Inv, SweptInv
      <4>3. CASE ~Passed(o, g)
        <5>1. PICK i \in 1..(stmt'[o] - 1) : Statements[i] = Table[g]
          BY <3>1 DEF Passed
        <5>2. i \notin 1..(stmt[o] - 1)
          BY <4>3, <5>1 DEF Passed
        <5>3. o = p /\ i = stmt[p]
          BY <2>2, <5>1, <5>2
        <5>4. QED
          BY <2>1, <2>2, <3>1, <4>1, <5>1, <5>3
      <4>4. QED
        BY <4>2, <4>3
    <3>2. QED
      BY <2>2, <3>1 DEF SweptInv
  <2>5. QED
    BY <1>1, <2>2, <2>3, <2>4 DEF Inv, OnceInOrder, DumpInOrder, LoopInv, NeverConflicts,
                                  PastMigrateSeesAll, RestoredInv, RestoredIsDead
<1>3. CASE Invalidate(p)
  <2>1. /\ row' = [g \in Rows |-> IF g \in doomed[p] THEN "dead" ELSE row[g]]
        /\ doomed' = [doomed EXCEPT ![p] = {}] /\ stmt' = [stmt EXCEPT ![p] = 1]
        /\ pc' = [pc EXCEPT ![p] = "done"] /\ clean' = TRUE
        /\ late' = (late \ doomed[p]) \cup {q \in Procs : req[q] # None}
        /\ stmt[p] = 10 /\ doomed[p] \subseteq Rows
        /\ stmt \in [Operators -> 1..10] /\ doomed \in [Operators -> SUBSET Rows]
    <3>1. stmt \in [Operators -> 1..10] /\ doomed \in [Operators -> SUBSET Rows]
      BY EveryTable DEF Inv, TypeOK
    <3>2. stmt[p] > 9
      BY <1>3, EveryTable DEF Invalidate
    <3>3. stmt[p] = 10 /\ doomed[p] \subseteq Rows
      BY <3>1, <3>2
    <3>4. QED
      BY <1>3, <3>1, <3>3 DEF Invalidate
  <2>2. TypeOK'
    <3>1. stmt' \in [Operators -> 1..10] /\ doomed' \in [Operators -> SUBSET Rows]
      BY <2>1
    <3>2. row' \in RowState /\ late' \subseteq Rows \cup Procs
      BY <2>1 DEF Inv, TypeOK, RowState
    <3>3. /\ pc' \in [Procs -> Migrating \cup {"down", "opening", "conflict", "ready", "serving", "done"}]
          /\ \A q \in Procs : /\ pc'[q] \in Migrating <=> lock = q
                              /\ req[q] # None => pc'[q] = "serving"
      BY <1>1, <2>1 DEF Inv, TypeOK, Migrating
    <3>4. QED
      BY <1>1, <2>1, <3>1, <3>2, <3>3, EveryTable DEF Inv, TypeOK
  <2>3. \A q \in Procs : pc'[q] = pc[q] \/ pc'[q] = "done"
    BY <2>1 DEF Inv, TypeOK
  <2>4. LoopInv' /\ NeverConflicts' /\ PastMigrateSeesAll'
    BY <1>1, <2>3 DEF Inv, LoopInv, NeverConflicts, PastMigrateSeesAll, Migrating
  <2>5. /\ restored \subseteq Rows /\ row \in RowState
        /\ \A g \in Rows : /\ row'[g] = "live" => row[g] = "live" /\ g \notin doomed[p]
                           /\ row[g] # "absent" => row'[g] # "absent"
    BY <2>1 DEF Inv, TypeOK, RowState
  <2>6. RestoredInv'
    BY <1>1, <2>1, <2>5, StartupAssumption DEF Inv, TypeOK, RestoredInv
  <2>7. ASSUME NEW g \in restored, row'[g] = "live" PROVE IsLink(g) \/ g \in late'
    <3>1. CASE ~IsLink(g)
      <4>1. PICK i \in 1..9 : Statements[i] = Table[g]
        BY <2>5, <3>1, EveryTable
      <4>2. Passed(p, g)
        BY <2>1, <4>1 DEF Passed
      <4>3. QED
        BY <2>1, <2>5, <2>7, <4>2 DEF Inv, SweptInv
    <3>2. QED
      BY <3>1
  <2>8. SweptInv'
    <3>1. ASSUME NEW o \in Operators, NEW g \in restored, row'[g] = "live", Passed(o, g)'
          PROVE  g \in doomed'[o] \/ g \in late'
      <4>1. o # p
        BY <2>1, <3>1 DEF Passed
      <4>2. Passed(o, g) /\ doomed'[o] = doomed[o]
        BY <2>1, <3>1, <4>1 DEF Passed
      <4>3. QED
        BY <2>1, <2>5, <3>1, <4>2 DEF Inv, SweptInv
    <3>2. QED
      BY <1>1, <3>1 DEF SweptInv
  <2>9. RestoredIsDead'
    <3>1. ASSUME NEW g \in restored, row'[g] = "live" PROVE IsLink(g)' \/ g \in late'
      BY <2>7, <3>1 DEF IsLink
    <3>2. QED
      BY <1>1, <3>1 DEF RestoredIsDead
  <2>10. QED
    BY <1>1, <2>2, <2>4, <2>6, <2>8, <2>9 DEF Inv, OnceInOrder, DumpInOrder
<1>4. QED
  BY <1>2, <1>3

(* What writes rows, and nothing of the schema. *)
LEMMA RowsKeep ==
  ASSUME Inv, NEW p \in Procs,
         \E g \in Rows : \/ SignIn(p, g) \/ ReadRow(p, g) \/ IssueRow(p, g)
                        \/ RevokeRow(p, g) \/ PutBootstrapToken(p, g)
  PROVE  Inv'
<1>1. UNCHANGED <<schema, applied, backup, lock, knows, next, stmt, doomed, faults>>
  BY DEF SignIn, ReadRow, IssueRow, RevokeRow, PutBootstrapToken, database, sweep, aux
<1>2. ASSUME NEW g \in Rows, PutBootstrapToken(p, g)
      PROVE  Inv'
  <2>1. /\ pc[p] = "ready" /\ row[g] = "absent" /\ row' = [row EXCEPT ![g] = "live"]
        /\ pc' = [pc EXCEPT ![p] = "done"] /\ UNCHANGED <<req, restored, clean, late>>
    BY <1>2 DEF PutBootstrapToken, aux
  <2>2. TypeOK'
    BY <1>1, <2>1 DEF Inv, TypeOK, RowState, Migrating
  <2>3. LoopInv' /\ NeverConflicts' /\ PastMigrateSeesAll'
    BY <1>1, <2>1 DEF Inv, TypeOK, LoopInv, NeverConflicts, PastMigrateSeesAll, Migrating
  <2>4. g \notin restored /\ restored \subseteq Rows /\ \A h \in Rows \ {g} : row'[h] = row[h]
    BY <2>1 DEF Inv, TypeOK, RowState, RestoredInv
  <2>5. RestoredInv' /\ SweptInv' /\ RestoredIsDead'
    BY <1>1, <2>1, <2>4 DEF Inv, RestoredInv, SweptInv, Passed, RestoredIsDead, IsLink
  <2>6. QED
    BY <1>1, <2>2, <2>3, <2>5 DEF Inv, OnceInOrder, DumpInOrder
<1>3. ASSUME NEW g \in Rows,
             SignIn(p, g) \/ ReadRow(p, g) \/ IssueRow(p, g) \/ RevokeRow(p, g)
      PROVE  Inv'
  <2>1. pc' = pc /\ clean' = clean
    BY <1>3 DEF SignIn, ReadRow, IssueRow, RevokeRow, database, aux
  <2>2. TypeOK'
    <3>1. CASE SignIn(p, g) \/ RevokeRow(p, g)
      BY <1>1, <2>1, <3>1 DEF SignIn, RevokeRow, Inv, TypeOK, RowState, aux
    <3>2. CASE ReadRow(p, g)
      BY <1>1, <2>1, <3>2, StartupAssumption DEF ReadRow, Inv, TypeOK, database, aux
    <3>3. CASE IssueRow(p, g)
      BY <1>1, <2>1, <3>3, StartupAssumption DEF IssueRow, Inv, TypeOK, RowState
    <3>4. QED
      BY <1>3, <3>1, <3>2, <3>3
  <2>3. LoopInv' /\ NeverConflicts' /\ PastMigrateSeesAll'
    BY <1>1, <2>1 DEF Inv, LoopInv, NeverConflicts, PastMigrateSeesAll
  <2>4. RestoredInv' /\ SweptInv' /\ RestoredIsDead'
    <3>1. CASE SignIn(p, g) \/ RevokeRow(p, g)
      <4>1. /\ UNCHANGED <<req, restored, late>> /\ restored \subseteq Rows
            /\ \A h \in restored : row'[h] # "absent" /\ (row'[h] = "live" => row[h] = "live")
        BY <3>1 DEF SignIn, RevokeRow, Inv, TypeOK, RowState, aux, RestoredInv
      <4>2. QED
        BY <1>1, <2>1, <4>1 DEF Inv, RestoredInv, SweptInv, Passed, RestoredIsDead, IsLink
    <3>2. CASE ReadRow(p, g)
      <4>1. /\ UNCHANGED <<row, restored, late>> /\ req' = [req EXCEPT ![p] = g] /\ row[g] = "live"
            /\ req \in [Procs -> Rows \cup {None}] /\ ~IsLink(g)
        BY <3>2 DEF ReadRow, database, aux, Inv, TypeOK
      <4>2. SweptInv' /\ RestoredIsDead'
        BY <1>1, <2>1, <4>1 DEF Inv, SweptInv, Passed, RestoredIsDead, IsLink
      <4>3. RestoredInv'
        BY <2>1, <4>1 DEF Inv, RestoredInv, RestoredIsDead
      <4>4. QED
        BY <4>2, <4>3
    <3>3. CASE IssueRow(p, g)
      <4>1. /\ row' = [row EXCEPT ![g] = "live"] /\ req' = [req EXCEPT ![p] = None]
            /\ row[g] = "absent" /\ g \notin restored /\ g \notin Procs /\ p \notin Rows
            /\ req[p] \in Rows /\ restored \subseteq Rows /\ row \in RowState
            /\ req \in [Procs -> Rows \cup {None}]
        BY <3>3, StartupAssumption DEF IssueRow, Inv, TypeOK, RestoredInv
      <4>2. /\ late \ {p} \subseteq late' /\ p \notin restored
            /\ restored' \subseteq restored \cup {g} /\ (req[p] \notin restored => restored' = restored)
            /\ req[p] \in restored /\ (clean \/ \E o \in Operators : Passed(o, g)) => g \in late'
        BY <3>3, <4>1 DEF IssueRow, Inv, RestoredInv
      <4>3. RestoredInv'
        <5>1. \A h \in restored' : row'[h] # "absent"
          BY <4>1, <4>2 DEF Inv, RestoredInv, RowState
        <5>2. ASSUME clean, NEW q \in Procs, req'[q] \in restored' PROVE q \in late' \/ req'[q] \in late'
          <6>1. q # p /\ req'[q] = req[q]
            BY <4>1, <4>2, <5>2, StartupAssumption
          <6>2. CASE req[q] = g
            BY <4>1, <4>2, <5>2, <6>1, <6>2
          <6>3. CASE req[q] # g
            BY <4>1, <4>2, <5>2, <6>1, <6>3 DEF Inv, RestoredInv
          <6>4. QED
            BY <6>2, <6>3
        <5>3. QED
          BY <2>1, <5>1, <5>2 DEF RestoredInv
      <4>4. SweptInv'
        <5>1. ASSUME NEW o \in Operators, NEW h \in restored', row'[h] = "live", Passed(o, h)'
              PROVE  h \in doomed[o] \/ h \in late'
          <6>1. Passed(o, h)
            BY <1>1, <5>1 DEF Passed
          <6>2. CASE h = g
            BY <4>1, <4>2, <5>1, <6>1, <6>2
          <6>3. CASE h # g
            <7>1. h \in restored /\ row[h] = "live" /\ h # p
              BY <4>1, <4>2, <5>1, <6>3
            <7>2. QED
              BY <4>2, <6>1, <7>1 DEF Inv, SweptInv
          <6>4. QED
            BY <6>2, <6>3
        <5>2. QED
          BY <1>1, <5>1 DEF SweptInv
      <4>5. RestoredIsDead'
        <5>1. ASSUME clean, NEW h \in restored', row'[h] = "live" PROVE IsLink(h) \/ h \in late'
          <6>1. CASE h = g
            BY <4>1, <4>2, <5>1, <6>1
          <6>2. CASE h # g
            <7>1. h \in restored /\ row[h] = "live" /\ h # p
              BY <4>1, <4>2, <5>1, <6>2
            <7>2. QED
              BY <4>2, <5>1, <7>1 DEF Inv, RestoredIsDead
          <6>3. QED
            BY <6>1, <6>2
        <5>2. QED
          BY <2>1, <5>1 DEF RestoredIsDead, IsLink
      <4>6. QED
        BY <4>3, <4>4, <4>5
    <3>4. QED
      BY <1>3, <3>1, <3>2, <3>3
  <2>5. QED
    BY <1>1, <2>2, <2>3, <2>4 DEF Inv, OnceInOrder, DumpInOrder
<1>4. QED
  BY <1>2, <1>3

LEMMA DatabaseKeeps ==
  ASSUME Inv, Backup \/ Restore
  PROVE  Inv'
<1>1. CASE Backup
  <2>1. backup' = [schema |-> schema, applied |-> applied, row |-> row]
        /\ UNCHANGED <<schema, applied, row, lock, pc, knows, next, req, stmt, doomed, faults,
                        restored, clean, late>>
    BY <1>1 DEF Backup, sweep, aux
  <2>2. TypeOK'
    BY <2>1 DEF Inv, TypeOK, Dump
  <2>3. DumpInOrder'
    BY <2>1 DEF Inv, OnceInOrder, DumpInOrder
  <2>4. QED
    BY <2>1, <2>2, <2>3 DEF Inv, OnceInOrder, LoopInv, NeverConflicts, PastMigrateSeesAll,
                            RestoredInv, SweptInv, Passed, RestoredIsDead
<1>2. CASE Restore
  <2>1. /\ backup \in Dump /\ backup # None /\ backup' = backup
        /\ schema' = backup.schema /\ applied' = backup.applied /\ row' = backup.row
        /\ pc' = [q \in Procs |-> "down"] /\ lock' = None
        /\ req' = [q \in Procs |-> None]
        /\ knows' = [q \in Procs |-> 1] /\ next' = [q \in Procs |-> 1]
        /\ restored' = {g \in Rows : backup.row[g] = "live"}
        /\ clean' = FALSE /\ late' = {} /\ faults' = faults + 1
        /\ stmt' = [o \in Operators |-> 1] /\ doomed' = [o \in Operators |-> {}]
    BY <1>2 DEF Restore, Inv, TypeOK
  <2>2. TypeOK'
    <3>1. backup.schema \in Seq(1..Latest) /\ backup.applied \subseteq 1..Latest
          /\ backup.row \in RowState
      BY <2>1 DEF Dump
    <3>2. 1 \in 1..Latest /\ 1 \in 1..(Latest + 1)
      BY StartupAssumption
    <3>3. faults' \in Nat
      BY <2>1 DEF Inv, TypeOK
    <3>4. /\ pc' \in [Procs -> Migrating \cup {"down", "opening", "conflict", "ready", "serving", "done"}]
          /\ \A q \in Procs : pc'[q] \notin Migrating /\ lock' # q /\ req'[q] = None
      BY <2>1, StartupAssumption DEF Migrating
    <3>5. knows' \in [Procs -> 1..Latest] /\ next' \in [Procs -> 1..(Latest + 1)]
          /\ req' \in [Procs -> Rows \cup {None}]
      BY <2>1, <3>2
    <3>6. stmt' \in [Operators -> 1..(Len(Statements) + 1)] /\ doomed' \in [Operators -> SUBSET Rows]
      BY <2>1, EveryTable
    <3>7. QED
      BY <2>1, <3>1, <3>3, <3>4, <3>5, <3>6 DEF TypeOK
  <2>3. OnceInOrder' /\ DumpInOrder'
    BY <2>1 DEF Inv, OnceInOrder, DumpInOrder
  <2>4. LoopInv' /\ NeverConflicts' /\ PastMigrateSeesAll'
    BY <2>1 DEF LoopInv, NeverConflicts, PastMigrateSeesAll, Migrating
  <2>5. RestoredInv' /\ SweptInv' /\ RestoredIsDead'
    BY <2>1 DEF RestoredInv, SweptInv, Passed, RestoredIsDead
  <2>6. QED
    BY <2>2, <2>3, <2>4, <2>5 DEF Inv
<1>3. QED
  BY <1>1, <1>2

LEMMA NextInv == Inv /\ [Next]_vars => Inv'
<1> SUFFICES ASSUME Inv, [Next]_vars PROVE Inv'
  OBVIOUS
<1>1. CASE UNCHANGED vars
  BY <1>1 DEF vars, database, sweep, aux, Inv, TypeOK, OnceInOrder, DumpInOrder, LoopInv,
              NeverConflicts, PastMigrateSeesAll, RestoredInv, SweptInv, Passed, RestoredIsDead
<1>2. CASE Next
  BY <1>2, ApplyKeeps, ProcessKeeps, SweepKeeps, RowsKeep, DatabaseKeeps DEF Next, Proceed
<1>3. QED
  BY <1>1, <1>2

LEMMA InvHolds == Spec => []Inv
BY InitInv, NextInv, PTL DEF Spec
-----------------------------------------------------------------------------
(* Types: who migrates holds the lock, and nobody else; only a server has  *)
(* requests.                                                               *)
THEOREM TypeCorrect == Spec => []TypeOK
<1>1. Inv => TypeOK
  BY DEF Inv
<1>2. QED
  BY <1>1, InvHolds, PTL

(* Migrate applies each migration once, in order, and records exactly the  *)
(* applied ones; and processes that start together never collide.          *)
THEOREM MigratedOnce == Spec => [](OnceInOrder /\ NeverConflicts)
<1>1. Inv => OnceInOrder /\ NeverConflicts
  BY DEF Inv
<1>2. QED
  BY <1>1, InvHolds, PTL

(* Serving and invalidating start from a schema the binary knows whole.    *)
THEOREM MigratedFirst == Spec => []PastMigrateSeesAll
<1>1. Inv => PastMigrateSeesAll
  BY DEF Inv
<1>2. QED
  BY <1>1, InvHolds, PTL

(* After invalidate-restored-state nothing that was restored is good, nor  *)
(* what was issued on it, but for bootstrap links and for what a request   *)
(* under way issued behind the statements.                                 *)
THEOREM RestoredStateDies == Spec => []RestoredIsDead
<1>1. Inv => RestoredIsDead
  BY DEF Inv
<1>2. QED
  BY <1>1, InvHolds, PTL
=============================================================================
