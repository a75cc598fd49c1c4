------------------------------- MODULE Startup -------------------------------
(***************************************************************************)
(* Processes of claustra that start, migrate the database, and serve or    *)
(* invalidate restored state; and the database itself, which is backed up  *)
(* and restored.  A process holds a session-level advisory lock while it   *)
(* migrates; a crash, a failing statement or a signal ends the session,    *)
(* and with it the lock and the open transaction.  Binaries of different   *)
(* versions know different numbers of migrations.  Of the other tables,    *)
(* the rows that let someone act are kept: sessions, codes, tokens,        *)
(* challenges, pending recoveries, bootstrap links.  The statements of     *)
(* InvalidateEphemeralState are steps of one transaction: each sees what   *)
(* is committed when it begins, and all take effect at the commit.         *)
(***************************************************************************)
EXTENDS Integers, Sequences, FiniteSets

CONSTANTS
  Servers,     \* processes running "serve", restarted by systemd
  Operators,   \* runs of "invalidate-restored-state" and of "bootstrap"
  Rows,        \* rows of the tables in EphemeralTables
  Table,       \* the table of each row
  Latest,      \* number of migrations of the newest binary
  MaxFaults,   \* bound of the crashes and restores
  None

Procs == Servers \cup Operators

EphemeralTables ==
  {"sso_sessions", "access_tokens", "authorization_codes", "webauthn_challenges",
   "email_tokens", "forward_tickets", "forward_sessions", "credentials", "recoveries",
   "bootstrap_tokens"}

ASSUME StartupAssumption ==
  /\ Table \in [Rows -> EphemeralTables]
  /\ Latest \in Nat \ {0} /\ MaxFaults \in Nat
  /\ Servers \cap Operators = {}
  /\ Procs \cap Rows = {} /\ None \notin Procs \cup Rows

VARIABLES
  schema,      \* migrations whose statements are in the database, in order
  applied,     \* schema_migrations
  row,         \* the state of a row
  backup,      \* the latest dump: [schema, applied, row], or None
  lock,        \* pg_advisory_lock(1129075505)
  pc,          \* where a process is
  knows,       \* the migrations its binary has are 1..knows[p]
  next,        \* the loop over them
  req,         \* the row a request of a server has read, or None
  stmt,        \* the statement an invalidation is at; its transaction is open from the first
  doomed,      \* the rows its statements so far have changed, unseen before the commit
  faults,      \* number of crashes and restores so far
  restored,    \* auxiliary: the rows that a restore brought back, and their issue
  clean,       \* auxiliary: an invalidation was completed since the restore
  late         \* auxiliary: requests and rows that an invalidation overtook

database == <<schema, applied, row, backup>>
aux == <<restored, clean, late>>
sweep == <<stmt, doomed>>
vars == <<database, lock, pc, knows, next, req, sweep, faults, aux>>

(* The tables that InvalidateEphemeralState names, one after the other;    *)
(* the mutant has lost one.                                                *)
MutantStatements ==
  <<"sso_sessions", "authorization_codes", "webauthn_challenges", "email_tokens",
    "forward_tickets", "forward_sessions", "credentials", "recoveries">>
Statements ==
  <<"sso_sessions", "access_tokens", "authorization_codes", "webauthn_challenges",
    "email_tokens", "forward_tickets", "forward_sessions", "credentials", "recoveries">>

IsLink(g) == Table[g] = "bootstrap_tokens"

Migrating == {"checking", "applying"}
RowState == [Rows -> {"absent", "live", "dead"}]
Dump == [schema : Seq(1..Latest), applied : SUBSET (1..Latest), row : RowState]

(* The variables' types; the lock is held exactly while migrating, and     *)
(* only a server serves requests.                                          *)
TypeOK ==
  /\ schema \in Seq(1..Latest) /\ applied \subseteq 1..Latest
  /\ row \in RowState
  /\ backup \in Dump \cup {None}
  /\ lock \in Procs \cup {None}
  /\ pc \in [Procs -> Migrating \cup {"down", "opening", "conflict", "ready", "serving", "done"}]
  /\ knows \in [Procs -> 1..Latest]
  /\ next \in [Procs -> 1..(Latest + 1)]
  /\ req \in [Procs -> Rows \cup {None}]
  /\ stmt \in [Operators -> 1..(Len(Statements) + 1)]
  /\ doomed \in [Operators -> SUBSET Rows]
  /\ faults \in Nat
  /\ restored \subseteq Rows /\ clean \in BOOLEAN /\ late \subseteq Rows \cup Procs
  /\ \A p \in Procs : /\ pc[p] \in Migrating <=> lock = p
                      /\ req[p] # None => pc[p] = "serving"

Init ==
  /\ schema = <<>> /\ applied = {}
  /\ row = [g \in Rows |-> "absent"]
  /\ backup = None /\ lock = None
  /\ pc = [p \in Procs |-> "down"]
  /\ knows = [p \in Procs |-> 1]
  /\ next = [p \in Procs |-> 1]
  /\ req = [p \in Procs |-> None]
  /\ stmt = [p \in Operators |-> 1]
  /\ doomed = [p \in Operators |-> {}]
  /\ faults = 0
  /\ restored = {} /\ clean = TRUE /\ late = {}

-----------------------------------------------------------------------------
(* run and Migrate.                                                        *)

(* "invalidate-restored-state" takes the schema as it is. *)
MutantStart(p, v) ==
  /\ pc[p] = "down"
  /\ pc' = [pc EXCEPT ![p] = IF p \in Servers THEN "opening" ELSE "ready"]
  /\ knows' = [knows EXCEPT ![p] = v]
  /\ UNCHANGED <<database, lock, next, req, sweep, faults, aux>>

(* The process opens its pool of connections. *)
Start(p, v) ==
  /\ pc[p] = "down"
  /\ pc' = [pc EXCEPT ![p] = "opening"]
  /\ knows' = [knows EXCEPT ![p] = v]
  /\ UNCHANGED <<database, lock, next, req, sweep, faults, aux>>

Lock(p) ==
  /\ pc[p] = "opening"
  /\ lock = None
  /\ lock' = p
  /\ pc' = [pc EXCEPT ![p] = "checking"]
  /\ next' = [next EXCEPT ![p] = 1]
  /\ UNCHANGED <<database, knows, req, sweep, faults, aux>>

(* SELECT EXISTS(...): the migration is skipped, or its transaction opens  *)
(* and runs its statements.                                                *)
Check(p) ==
  /\ pc[p] = "checking"
  /\ next[p] <= knows[p]
  /\ IF next[p] \in applied
       THEN next' = [next EXCEPT ![p] = @ + 1] /\ UNCHANGED pc
       ELSE pc' = [pc EXCEPT ![p] = "applying"] /\ UNCHANGED next
  /\ UNCHANGED <<database, lock, knows, req, sweep, faults, aux>>

(* The statements are committed first, and recorded in a second step.      *)
MutantApply(p) ==
  /\ pc[p] = "applying"
  /\ \/ /\ schema' = Append(schema, next[p])
        /\ UNCHANGED <<applied, pc, next>>
     \/ /\ applied' = applied \cup {next[p]}
        /\ next' = [next EXCEPT ![p] = @ + 1]
        /\ pc' = [pc EXCEPT ![p] = "checking"]
        /\ UNCHANGED schema
  /\ Len(schema') <= Latest
  /\ UNCHANGED <<row, backup, lock, knows, req, sweep, faults, aux>>

(* The commit of a migration and of its name, which is a primary key. *)
Apply(p) ==
  /\ pc[p] = "applying"
  /\ IF next[p] \in applied
       THEN pc' = [pc EXCEPT ![p] = "conflict"] /\ UNCHANGED <<schema, applied, next>>
       ELSE /\ schema' = Append(schema, next[p])
            /\ applied' = applied \cup {next[p]}
            /\ next' = [next EXCEPT ![p] = @ + 1]
            /\ pc' = [pc EXCEPT ![p] = "checking"]
  /\ UNCHANGED <<row, backup, lock, knows, req, sweep, faults, aux>>

Unlock(p) ==
  /\ pc[p] = "checking"
  /\ next[p] > knows[p]
  /\ lock' = None
  /\ pc' = [pc EXCEPT ![p] = IF p \in Servers THEN "serving" ELSE "ready"]
  /\ next' = [next EXCEPT ![p] = 1]
  /\ UNCHANGED <<database, knows, req, sweep, faults, aux>>

(* A statement of InvalidateEphemeralState changes the rows it sees live;  *)
(* it waits for the rows that another invalidation has changed.            *)
InvalidateTable(p) ==
  /\ pc[p] = "ready" /\ stmt[p] <= Len(Statements)
  /\ LET seen == {g \in Rows : Table[g] = Statements[stmt[p]] /\ row[g] = "live"}
     IN  /\ \A o \in Operators \ {p} : seen \cap doomed[o] = {}
         /\ doomed' = [doomed EXCEPT ![p] = @ \cup seen]
  /\ stmt' = [stmt EXCEPT ![p] = @ + 1]
  /\ UNCHANGED <<database, lock, pc, knows, next, req, faults, aux>>

(* The commit: one implicit transaction for all statements. *)
Invalidate(p) ==
  /\ pc[p] = "ready" /\ stmt[p] > Len(Statements)
  /\ row' = [g \in Rows |-> IF g \in doomed[p] THEN "dead" ELSE row[g]]
  /\ doomed' = [doomed EXCEPT ![p] = {}]
  /\ stmt' = [stmt EXCEPT ![p] = 1]
  /\ pc' = [pc EXCEPT ![p] = "done"]
  /\ clean' = TRUE
  /\ late' = (late \ doomed[p]) \cup {q \in Procs : req[q] # None}
  /\ UNCHANGED <<schema, applied, backup, lock, knows, next, req, faults, restored>>

(* An invalidation under way no longer looks for rows like this one. *)
Passed(p, g) == \E i \in 1..(stmt[p] - 1) : Statements[i] = Table[g]

(* The lock is a row of a table, and stays. *)
MutantCrash(p) ==
  /\ pc[p] \notin {"down", "done"}
  /\ faults < MaxFaults
  /\ faults' = faults + 1
  /\ pc' = [pc EXCEPT ![p] = "down"]
  /\ req' = [req EXCEPT ![p] = None]
  /\ knows' = [knows EXCEPT ![p] = 1]
  /\ next' = [next EXCEPT ![p] = 1]
  /\ late' = late \ {p}
  /\ stmt' = [o \in Operators |-> IF o = p THEN 1 ELSE stmt[o]]
  /\ doomed' = [o \in Operators |-> IF o = p THEN {} ELSE doomed[o]]
  /\ UNCHANGED <<database, lock, restored, clean>>

(* The process dies, or returns an error; its session ends. *)
Crash(p) ==
  /\ pc[p] \notin {"down", "done"}
  /\ faults < MaxFaults
  /\ faults' = faults + 1
  /\ pc' = [pc EXCEPT ![p] = "down"]
  /\ lock' = IF lock = p THEN None ELSE lock
  /\ req' = [req EXCEPT ![p] = None]
  /\ knows' = [knows EXCEPT ![p] = 1]
  /\ next' = [next EXCEPT ![p] = 1]
  /\ late' = late \ {p}
  /\ stmt' = [o \in Operators |-> IF o = p THEN 1 ELSE stmt[o]]
  /\ doomed' = [o \in Operators |-> IF o = p THEN {} ELSE doomed[o]]
  /\ UNCHANGED <<database, restored, clean>>

-----------------------------------------------------------------------------
(* Requests: a row is made by a sign-in (a registration with a bootstrap   *)
(* link is one), or out of a row read before it.                           *)

SignIn(p, g) ==
  /\ pc[p] = "serving" /\ row[g] = "absent" /\ ~IsLink(g)
  /\ row' = [row EXCEPT ![g] = "live"]
  /\ UNCHANGED <<schema, applied, backup, lock, pc, knows, next, req, sweep, faults, aux>>

ReadRow(p, g) ==
  /\ pc[p] = "serving" /\ req[p] = None /\ row[g] = "live" /\ ~IsLink(g)
  /\ req' = [req EXCEPT ![p] = g]
  /\ UNCHANGED <<database, lock, pc, knows, next, sweep, faults, aux>>

(* The request issues h, on what it read. *)
IssueRow(p, h) ==
  /\ req[p] # None /\ row[h] = "absent" /\ ~IsLink(h)
  /\ row' = [row EXCEPT ![h] = "live"]
  /\ req' = [req EXCEPT ![p] = None]
  /\ restored' = IF req[p] \in restored THEN restored \cup {h} ELSE restored
  /\ late' = IF \/ p \in late \/ req[p] \in late
                \/ req[p] \in restored /\ \E o \in Operators : Passed(o, h)
               THEN (late \ {p}) \cup {h} ELSE late
  /\ UNCHANGED <<schema, applied, backup, lock, pc, knows, next, sweep, faults, clean>>

(* Signed out, withdrawn, used up: waits for an invalidation that has      *)
(* changed the row.                                                        *)
RevokeRow(p, g) ==
  /\ pc[p] = "serving" /\ row[g] = "live"
  /\ \A o \in Operators : g \notin doomed[o]
  /\ row' = [row EXCEPT ![g] = "dead"]
  /\ UNCHANGED <<schema, applied, backup, lock, pc, knows, next, req, sweep, faults, aux>>

-----------------------------------------------------------------------------
(* The database's operator. *)

(* "bootstrap" puts a link; that there is no administrator is the business *)
(* of Accounts.                                                            *)
PutBootstrapToken(p, g) ==
  /\ p \in Operators /\ pc[p] = "ready" /\ stmt[p] = 1
  /\ IsLink(g) /\ row[g] = "absent"
  /\ row' = [row EXCEPT ![g] = "live"]
  /\ pc' = [pc EXCEPT ![p] = "done"]
  /\ UNCHANGED <<schema, applied, backup, lock, knows, next, req, sweep, faults, aux>>

(* backup.sh: a dump is a snapshot. *)
Backup ==
  /\ backup = None
  /\ backup' = [schema |-> schema, applied |-> applied, row |-> row]
  /\ UNCHANGED <<schema, applied, row, lock, pc, knows, next, req, sweep, faults, aux>>

(* The service is stopped and the database replaced by the dump. *)
Restore ==
  /\ backup # None
  /\ faults < MaxFaults
  /\ faults' = faults + 1
  /\ schema' = backup.schema /\ applied' = backup.applied /\ row' = backup.row
  /\ pc' = [p \in Procs |-> "down"]
  /\ lock' = None
  /\ req' = [p \in Procs |-> None]
  /\ restored' = {g \in Rows : backup.row[g] = "live"}
  /\ clean' = FALSE
  /\ late' = {}
  /\ knows' = [p \in Procs |-> 1] /\ next' = [p \in Procs |-> 1]
  /\ stmt' = [p \in Operators |-> 1] /\ doomed' = [p \in Operators |-> {}]
  /\ UNCHANGED backup

Proceed(p) ==
  \/ Lock(p) \/ Check(p) \/ Apply(p) \/ Unlock(p)
  \/ p \in Operators /\ (InvalidateTable(p) \/ Invalidate(p))

Next ==
  \/ \E p \in Procs :
       \/ Proceed(p) \/ Crash(p)
       \/ \E v \in 1..Latest : Start(p, v)
       \/ \E g \in Rows : SignIn(p, g) \/ ReadRow(p, g) \/ IssueRow(p, g) \/ RevokeRow(p, g)
                          \/ PutBootstrapToken(p, g)
  \/ Backup \/ Restore

Spec == Init /\ [][Next]_vars

(* A process that can go on does; systemd restarts the servers. *)
FairSpec ==
  /\ Spec
  /\ \A p \in Procs : WF_vars(Proceed(p))
  /\ \A p \in Servers : WF_vars(\E v \in 1..Latest : Start(p, v))

-----------------------------------------------------------------------------
(* Properties.                                                             *)

(* Whoever starts and faults whenever: the database has the migrations in *)
(* order, each once, and schema_migrations says which.                     *)
OnceInOrder ==
  /\ applied = 1..Len(schema)
  /\ \A i \in 1..Len(schema) : schema[i] = i

(* Processes that start together do not fail each other. *)
NeverConflicts == \A p \in Procs : pc[p] # "conflict"

(* Whoever has come through Migrate finds every table its binary knows,    *)
(* even if the database was restored to an older state in the meantime.    *)
PastMigrateSeesAll ==
  \A p \in Procs : pc[p] \in {"ready", "serving"} => 1..knows[p] \subseteq applied

(* After invalidate-restored-state no session, code, token, challenge or   *)
(* pending recovery that the restore brought back is good, nor what was    *)
(* issued on one; except what a request issued that was under way while    *)
(* the statements ran (the service is to be down): its table had been      *)
(* passed, or it issued after the commit on what it had read before.       *)
(* A restored bootstrap link stays good until it expires.                  *)
RestoredIsDead ==
  clean => \A g \in restored : row[g] = "live" => IsLink(g) \/ g \in late

(* However the starts interleave and wherever they crash, each server      *)
(* comes to serve, and stays, once nothing faults any more.               *)
ServersServe == \A p \in Servers : <>[](pc[p] = "serving")
=============================================================================
