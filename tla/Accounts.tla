------------------------------ MODULE Accounts ------------------------------
(***************************************************************************)
(* The life of accounts and of the administrator role: registration with   *)
(* and without a bootstrap link, SetAdmin under its advisory lock, account *)
(* deletion with its grace period, and the maintenance goroutine that      *)
(* carries it out against the foreign keys of the schema.                  *)
(*                                                                         *)
(* Requests run their statements one at a time (req); the two statements   *)
(* of a demotion, and the two halves of a registration, are one            *)
(* transaction each, whose writes appear at its end.                       *)
(***************************************************************************)
EXTENDS Naturals, FiniteSets

CONSTANTS
  Users,      \* users rows, each created at most once
  Links,      \* bootstrap_tokens rows
  Requests,   \* HTTP requests in flight at a time
  None        \* SQL NULL, or nobody

ASSUME AccountsAssumption ==
  /\ None \notin Users \cup Links \cup Requests
  /\ IsFiniteSet(Users)

VARIABLES
  user,       \* users.status; "none" before the row, "deleted" after it
  due,        \* deletion_due_at has passed
  granted,    \* roles.granted_by of an administrator, None for the others
  created,    \* users named by created_by of a client or a forward host
  link,       \* bootstrap_tokens
  lock,       \* the request that holds the advisory lock of SetAdmin
  req,        \* requests in flight
  fin         \* users FinalizeDeletions has selected and not yet treated

vars == <<user, due, granted, created, link, lock, req, fin>>

Stages == {"idle", "registering", "staying", "leaving", "admin", "locked", "counted"}

(* counted and blind are auxiliary: the administrators there were when a   *)
(* demotion or a deletion made its decision, and whether it goes on only   *)
(* because a query failed.                                                 *)
ReqRec == [pc : Stages, actor : Users \cup {None}, target : Users \cup {None},
           link : Links \cup {None}, counted : SUBSET Users, blind : BOOLEAN]
Idle == [pc |-> "idle", actor |-> None, target |-> None, link |-> None,
         counted |-> {}, blind |-> FALSE]

(* The variables' types, the advisory lock and the foreign key of roles. *)
TypeOK ==
  /\ user \in [Users -> {"none", "active", "deletion_pending", "deleted"}]
  /\ due \in [Users -> BOOLEAN]
  /\ granted \in [Users -> Users \cup {None}]
  /\ created \subseteq Users
  /\ link \in [Links -> {"none", "issued", "used", "expired"}]
  /\ lock \in Requests \cup {None}
  /\ req \in [Requests -> ReqRec]
  /\ fin \subseteq Users
  /\ \A p \in Requests : lock = p <=> req[p].pc \in {"locked", "counted"}
  /\ \A u \in Users : granted[u] # None => user[u] \notin {"none", "deleted"}

Init ==
  /\ user = [u \in Users |-> "none"]
  /\ due = [u \in Users |-> FALSE]
  /\ granted = [u \in Users |-> None]
  /\ created = {}
  /\ link = [b \in Links |-> "none"]
  /\ lock = None
  /\ req = [p \in Requests |-> Idle]
  /\ fin = {}

-----------------------------------------------------------------------------
Admins == {u \in Users : granted[u] # None}
ActiveAdmins == {u \in Admins : user[u] = "active"}

(* A request whose session passes requireAdmin.  A query that fails denies. *)
IsAdmin(u) == u \in ActiveAdmins

(* What IsLastAdmin returns: it counts roles, whatever the status of their *)
(* holders, and a query that fails is a no.                                *)
IsLastAdmin(u, answered) == answered /\ Admins = {u}
Blind(u, answered) == IsLastAdmin(u, TRUE) /\ ~answered

(* Rows of others that refer to u without ON DELETE: created_by of clients *)
(* and forward_hosts, granted_by of roles.                                 *)
Referenced(u) == u \in created \/ \E v \in Users \ {u} : granted[v] = u

Condemned(u) == user[u] = "deletion_pending" /\ due[u]

End(p) == req' = [req EXCEPT ![p] = Idle]
Release(p) == lock' = IF lock = p THEN None ELSE lock

-----------------------------------------------------------------------------
(* Registration.                                                           *)

(* claustra bootstrap: HasAdmin, PutBootstrapToken. *)
IssueLink(b) ==
  /\ link[b] = "none"
  /\ Admins = {}
  /\ link' = [link EXCEPT ![b] = "issued"]
  /\ UNCHANGED <<user, due, granted, created, lock, req, fin>>

LinkExpires(b) ==
  /\ link[b] = "issued"
  /\ link' = [link EXCEPT ![b] = "expired"]
  /\ UNCHANGED <<user, due, granted, created, lock, req, fin>>

(* A link in use by another registration is not waited for. *)
MutantRegister(p, u, b) ==
  /\ req[p].pc = "idle"
  /\ user[u] = "none"
  /\ \A q \in Requests : req[q].pc = "registering" => req[q].target # u
  /\ req' = [req EXCEPT ![p] =
       [Idle EXCEPT !.pc = "registering", !.target = u,
          !.link = IF b # None /\ link[b] = "issued" /\ Admins = {}
                     THEN b ELSE None]]
  /\ UNCHANGED <<user, due, granted, created, link, lock, fin>>

(* CreateUserWithCredential, first statement: the link is taken if it is   *)
(* good and no administrator is committed yet; without it the account is   *)
(* an ordinary one.  The row of a link in use by another registration is   *)
(* waited for.                                                             *)
Register(p, u, b) ==
  /\ req[p].pc = "idle"
  /\ user[u] = "none"
  /\ \A q \in Requests : req[q].pc = "registering" =>
       req[q].target # u /\ (b # None => req[q].link # b)
  /\ req' = [req EXCEPT ![p] =
       [Idle EXCEPT !.pc = "registering", !.target = u,
          !.link = IF b # None /\ link[b] = "issued" /\ Admins = {}
                     THEN b ELSE None]]
  /\ UNCHANGED <<user, due, granted, created, link, lock, fin>>

(* The INSERTs and the commit. *)
RegisterCommit(p) ==
  LET u == req[p].target b == req[p].link
  IN /\ req[p].pc = "registering"
     /\ user' = [user EXCEPT ![u] = "active"]
     /\ granted' = IF b = None THEN granted ELSE [granted EXCEPT ![u] = u]
     /\ link' = IF b = None THEN link ELSE [link EXCEPT ![b] = "used"]
     /\ End(p)
     /\ UNCHANGED <<due, created, lock, fin>>

-----------------------------------------------------------------------------
(* Administration.                                                         *)

(* CreateClient, CreateForwardHost: created_by names the administrator.    *)
CreateClient(a) ==
  /\ IsAdmin(a)
  /\ created' = created \cup {a}
  /\ UNCHANGED <<user, due, granted, link, lock, req, fin>>

(* adminSetRole: requireAdmin. *)
SetRole(p, a, u) ==
  /\ req[p].pc = "idle"
  /\ IsAdmin(a)
  /\ req' = [req EXCEPT ![p] = [Idle EXCEPT !.pc = "admin", !.actor = a, !.target = u]]
  /\ UNCHANGED <<user, due, granted, created, link, lock, fin>>

(* Demotions are not serialised. *)
MutantLock(p) ==
  /\ req[p].pc = "admin"
  /\ lock' = p
  /\ req' = [req EXCEPT ![p].pc = "locked"]
  /\ UNCHANGED <<user, due, granted, created, link, fin>>

(* SetAdmin: pg_advisory_xact_lock. *)
SetAdminLock(p) ==
  /\ req[p].pc = "admin"
  /\ lock = None
  /\ lock' = p
  /\ req' = [req EXCEPT ![p].pc = "locked"]
  /\ UNCHANGED <<user, due, granted, created, link, fin>>

(* Promotion inserts a role for an active user who has none; the foreign   *)
(* key wants the actor to exist.                                           *)
Promote(p) ==
  LET u == req[p].target
  IN /\ req[p].pc = "locked"
     /\ user[u] = "active" /\ u \notin Admins
     /\ user[req[p].actor] # "deleted"
     /\ granted' = [granted EXCEPT ![u] = req[p].actor]
     /\ lock' = None
     /\ End(p)
     /\ UNCHANGED <<user, due, created, link, fin>>

(* Demotion counts the roles first ... *)
DemoteCount(p) ==
  /\ req[p].pc = "locked"
  /\ Cardinality(Admins) > 1
  /\ req' = [req EXCEPT ![p].pc = "counted", ![p].counted = Admins]
  /\ UNCHANGED <<user, due, granted, created, link, lock, fin>>

(* ... and then deletes the target's, if there is one. *)
Demote(p) ==
  /\ req[p].pc = "counted"
  /\ granted' = [granted EXCEPT ![req[p].target] = None]
  /\ lock' = None
  /\ End(p)
  /\ UNCHANGED <<user, due, created, link, fin>>

(* Refusals, errors and hang-ups, in any handler: rollback. *)
RequestEnds(p) ==
  /\ req[p].pc # "idle"
  /\ Release(p)
  /\ End(p)
  /\ UNCHANGED <<user, due, granted, created, link, fin>>

-----------------------------------------------------------------------------
(* Deletion.                                                               *)

(* deleteAccount: the session is read, and in it whether the user is an    *)
(* administrator; here, too, a query that fails is a no.  Only of an       *)
(* administrator is asked whether he is the last.                          *)
DeleteAccount(p, u, answered) ==
  LET admin == answered /\ u \in Admins
  IN /\ req[p].pc = "idle"
     /\ user[u] = "active"
     /\ req' = [req EXCEPT ![p] =
          [Idle EXCEPT !.pc = IF admin THEN "staying" ELSE "leaving", !.target = u,
                       !.counted = IF admin THEN {} ELSE Admins,
                       !.blind = Blind(u, answered)]]
     /\ UNCHANGED <<user, due, granted, created, link, lock, fin>>

(* The check for the last administrator is left out. *)
MutantCheckLast(p, answered) ==
  /\ req[p].pc = "staying"
  /\ req' = [req EXCEPT ![p].pc = "leaving", ![p].counted = Admins,
                        ![p].blind = Blind(req[p].target, answered)]
  /\ UNCHANGED <<user, due, granted, created, link, lock, fin>>

(* It takes no lock, and the last one is refused (RequestEnds). *)
CheckLast(p, answered) ==
  /\ req[p].pc = "staying"
  /\ ~IsLastAdmin(req[p].target, answered)
  /\ req' = [req EXCEPT ![p].pc = "leaving", ![p].counted = Admins,
                        ![p].blind = Blind(req[p].target, answered)]
  /\ UNCHANGED <<user, due, granted, created, link, lock, fin>>

ScheduleDeletion(p) ==
  LET u == req[p].target
  IN /\ req[p].pc = "leaving"
     /\ user' = IF user[u] = "active" THEN [user EXCEPT ![u] = "deletion_pending"]
                                      ELSE user
     /\ End(p)
     /\ UNCHANGED <<due, granted, created, link, lock, fin>>

(* DeleteGrace passes. *)
GraceEnds(u) ==
  /\ user[u] = "deletion_pending"
  /\ ~due[u]
  /\ due' = [due EXCEPT ![u] = TRUE]
  /\ UNCHANGED <<user, granted, created, link, lock, req, fin>>

(* The link works after the grace period as well. *)
MutantCancelDeletion(u) ==
  /\ user[u] = "deletion_pending"
  /\ user' = [user EXCEPT ![u] = "active"]
  /\ due' = [due EXCEPT ![u] = FALSE]
  /\ UNCHANGED <<granted, created, link, lock, req, fin>>

(* By mail or by passkey, within the grace period. *)
CancelDeletion(u) ==
  /\ user[u] = "deletion_pending"
  /\ ~due[u]
  /\ user' = [user EXCEPT ![u] = "active"]
  /\ UNCHANGED <<due, granted, created, link, lock, req, fin>>

(* FinalizeDeletions, the SELECT. *)
FinalizeSelect ==
  /\ fin = {}
  /\ fin' = {u \in Users : Condemned(u)}
  /\ fin' # {}
  /\ UNCHANGED <<user, due, granted, created, link, lock, req>>

(* One user's transaction: DELETE FROM users cascades to the role.         *)
FinalizeItem(u) ==
  /\ u \in fin
  /\ Condemned(u)
  /\ ~Referenced(u)
  /\ user' = [user EXCEPT ![u] = "deleted"]
  /\ granted' = [granted EXCEPT ![u] = None]
  /\ fin' = fin \ {u}
  /\ UNCHANGED <<due, created, link, lock, req>>

(* A foreign key, or any other error, ends the round for everybody left.   *)
FinalizeRefused(u) ==
  /\ u \in fin
  /\ Referenced(u)
  /\ fin' = {}
  /\ UNCHANGED <<user, due, granted, created, link, lock, req>>

FinalizeFails ==
  /\ fin # {}
  /\ fin' = {}
  /\ UNCHANGED <<user, due, granted, created, link, lock, req>>

-----------------------------------------------------------------------------
Registration ==
  \/ \E b \in Links : IssueLink(b) \/ LinkExpires(b)
  \/ \E p \in Requests : \/ \E u \in Users, b \in Links \cup {None} : Register(p, u, b)
                         \/ RegisterCommit(p)

Administration ==
  \/ \E a \in Users : CreateClient(a)
  \/ \E p \in Requests :
       \/ \E a, u \in Users : SetRole(p, a, u)
       \/ SetAdminLock(p) \/ Promote(p) \/ DemoteCount(p) \/ Demote(p)
       \/ RequestEnds(p)

Deletion ==
  \/ \E p \in Requests : \/ \E answered \in BOOLEAN : \/ CheckLast(p, answered)
                                                     \/ \E u \in Users : DeleteAccount(p, u, answered)
                         \/ ScheduleDeletion(p)
  \/ \E u \in Users : GraceEnds(u) \/ CancelDeletion(u) \/ FinalizeItem(u)
                        \/ FinalizeRefused(u)
  \/ FinalizeSelect
  \/ FinalizeFails

Next == Registration \/ Administration \/ Deletion

Spec == Init /\ [][Next]_vars

(* Time passes, maintenance runs every minute and does not fail for ever.  *)
FairSpec ==
  /\ Spec
  /\ WF_vars(FinalizeSelect)
  /\ \A u \in Users : WF_vars(GraceEnds(u)) /\ SF_vars(FinalizeItem(u))

-----------------------------------------------------------------------------
(* Properties.                                                             *)

(* However demotions interleave, one that passed its count leaves an       *)
(* administrator, unless one it counted was deleted after the count.       *)
DemotionKeepsOne ==
  [][\A p \in Requests : Demote(p) =>
       \/ \E u \in Users : granted'[u] # None
       \/ \E u \in req[p].counted : user[u] = "deleted"]_vars

(* An account whose grace period is over goes, if no condemned account is  *)
(* referred to by a row that outlives it.                                  *)
DeletionHappens ==
  [](\A u \in Users : Condemned(u) => ~Referenced(u)) =>
    \A u \in Users : Condemned(u) ~> user[u] = "deleted"

(* The last active administrator goes only by a request that had found     *)
(* another one, who has lost the role or the account since, or whose       *)
(* account is scheduled for deletion (IsLastAdmin and SetAdmin count       *)
(* roles, whatever the status of their holders); that had found its own    *)
(* user no administrator yet; or that could not ask the database, which    *)
(* deleteAccount takes for a no.                                           *)
LastAdminLeaves ==
  [][ActiveAdmins # {} /\ (\A u \in Users : granted'[u] # None => user'[u] # "active") =>
       \E p \in Requests : LET C == req[p].counted IN
         /\ req[p].pc \in {"leaving", "counted"} /\ req'[p].pc = "idle"
         /\ \/ \E u \in C \ {req[p].target} : ~IsAdmin(u)
            \/ req[p].target \notin C
            \/ req[p].blind /\ req[p].pc = "leaving"]_vars

(* A bootstrap link makes one administrator, although registrations with   *)
(* the same link may overlap; two links, used at once, make two.           *)
LinkMakesOne ==
  [][\A p \in Requests : RegisterCommit(p) /\ req[p].link # None =>
       link[req[p].link] # "used"]_vars

(* An account is deleted only after a grace period of its own, in which it *)
(* could be restored at any time and after which it cannot, although the   *)
(* finalizer works off a list it read earlier.                             *)
GP == INSTANCE GracePeriod WITH
        Things <- Users, LateWord <- FALSE, due <- due,
        phase <- [u \in Users |-> CASE user[u] = "deletion_pending" -> "announced"
                                    [] user[u] = "deleted" -> "done"
                                    [] OTHER -> "off"]

ImplementsGracePeriod == GP!Spec
=============================================================================
