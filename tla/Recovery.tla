------------------------------ MODULE Recovery ------------------------------
(***************************************************************************)
(* The passkeys of one account and the slow way back in when they are      *)
(* lost: internal/store/recovery.go, the credential and session functions  *)
(* of internal/store, their handlers in internal/server, and the           *)
(* maintenance goroutine that finalizes recoveries.                        *)
(*                                                                         *)
(* The rows of different accounts never meet, so the module is about one   *)
(* account.  A transaction is one step where the README argues that its    *)
(* statements cannot be told apart; what a handler or the finalizer read   *)
(* in an earlier transaction is kept in req or fin.                        *)
(***************************************************************************)
EXTENDS Naturals, FiniteSets

CONSTANTS
  Creds,        \* credentials rows
  Recoveries,   \* recoveries rows, each with its email token
  Sessions,     \* sso_sessions rows
  Requests,     \* HTTP requests in flight at a time
  None          \* SQL NULL

ASSUME RecoveryAssumption ==
  /\ None \notin Creds \cup Recoveries \cup Sessions
  /\ Requests \cap Sessions = {}
  /\ IsFiniteSet(Creds)

VARIABLES
  cred,         \* credentials.state, "none" before the row exists
  rec,          \* recoveries.state, likewise
  repl,         \* recoveries.replacement_credential_id
  due,          \* completes_at has passed
  link,         \* the email token of the recovery
  sess, by,     \* a session's life and sso_sessions.credential_id
  req,          \* requests in flight: where they are and what they hold
  fin,          \* recoveries FinalizeRecoveries has selected, not yet done
  late          \* auxiliary: logins overtaken by the loss of their passkey,
                \* and revocations by that of another passkey they counted

recovery == <<rec, repl, due, link>>
sso == <<sess, by>>
vars == <<cred, rec, repl, due, link, sess, by, req, fin, late>>

ReqRec == [pc : {"idle", "login", "authorized", "counted", "starting"},
           cred : Creds \cup {None}]
Idle == [pc |-> "idle", cred |-> None]

(* The variables' types, and the references that are never NULL. *)
TypeOK ==
  /\ cred \in [Creds -> {"none", "active", "recovery_pending", "revoked"}]
  /\ rec \in [Recoveries -> {"none", "link_sent", "quarantine", "completed",
                             "cancelled"}]
  /\ repl \in [Recoveries -> Creds \cup {None}]
  /\ due \in [Recoveries -> BOOLEAN]
  /\ link \in [Recoveries -> {"none", "sent", "used", "expired"}]
  /\ sess \in [Sessions -> {"none", "live", "expired", "revoked"}]
  /\ by \in [Sessions -> Creds \cup {None}]
  /\ req \in [Requests -> ReqRec]
  /\ fin \subseteq Recoveries
  /\ late \subseteq Requests \cup Sessions
  /\ \A p \in Requests : req[p].pc \in {"login", "counted"} => req[p].cred # None
  /\ \A s \in Sessions : sess[s] # "none" => by[s] # None /\ cred[by[s]] # "none"
  /\ \A i \in Recoveries : rec[i] = "quarantine" => repl[i] # None

(* A registered account: some passkeys, no recovery under way. *)
Init ==
  /\ cred \in [Creds -> {"none", "active"}]
  /\ \E k \in Creds : cred[k] = "active"
  /\ rec = [i \in Recoveries |-> "none"]
  /\ repl = [i \in Recoveries |-> None]
  /\ due = [i \in Recoveries |-> FALSE]
  /\ link = [i \in Recoveries |-> "none"]
  /\ sess = [s \in Sessions |-> "none"]
  /\ by = [s \in Sessions |-> None]
  /\ req = [p \in Requests |-> Idle]
  /\ fin = {}
  /\ late = {}

-----------------------------------------------------------------------------
Active == {k \in Creds : cred[k] = "active"}
Underway == {i \in Recoveries : rec[i] \in {"link_sent", "quarantine"}}

(* Credentials K are revoked, and with them (or with any passkey, when the *)
(* whole account is signed out) the live sessions S.                       *)
RevokeCreds(K) == [k \in Creds |-> IF k \in K THEN "revoked" ELSE cred[k]]
RevokeSessions(S) ==
  [s \in Sessions |-> IF s \in S /\ sess[s] = "live" THEN "revoked" ELSE sess[s]]
Overtaken(K) == {p \in Requests : \/ req[p].pc = "login" /\ req[p].cred \in K
                                  \/ req[p].pc = "counted"}

Goto(p, pc, k) == req' = [req EXCEPT ![p] = [pc |-> pc, cred |-> k]]

-----------------------------------------------------------------------------
(* Signing in.                                                             *)

(* loginFinish: DiscoverableUser and UpdateCredential both want an active  *)
(* passkey.                                                                *)
LoginVerified(p, k) ==
  /\ req[p].pc = "idle"
  /\ cred[k] = "active"
  /\ Goto(p, "login", k)
  /\ UNCHANGED <<cred, recovery, sso, fin, late>>

(* newSession. *)
LoginSession(p, s) ==
  /\ req[p].pc = "login"
  /\ sess[s] = "none"
  /\ sess' = [sess EXCEPT ![s] = "live"]
  /\ by' = [by EXCEPT ![s] = req[p].cred]
  /\ Goto(p, "idle", None)
  /\ late' = IF p \in late THEN (late \ {p}) \cup {s} ELSE late
  /\ UNCHANGED <<cred, recovery, fin>>

SessionExpires(s) ==
  /\ sess[s] = "live"
  /\ sess' = [sess EXCEPT ![s] = "expired"]
  /\ UNCHANGED <<cred, recovery, by, req, fin, late>>

(* The user signs out, of this browser or of all. *)
SignOut(S) ==
  /\ S # {}
  /\ \A s \in S : sess[s] = "live"
  /\ sess' = RevokeSessions(S)
  /\ UNCHANGED <<cred, recovery, by, req, fin, late>>

(* requireSession and requireRecent, ahead of the three handlers below.    *)
(* SessionByToken does not look at the credential of the session.          *)
Authorized(p, s) ==
  /\ req[p].pc = "idle"
  /\ sess[s] = "live"
  /\ Goto(p, "authorized", None)
  /\ UNCHANGED <<cred, recovery, sso, fin, late>>

(* A statement fails or the caller hangs up: nothing more happens. *)
RequestEnds(p) ==
  /\ req[p].pc # "idle"
  /\ Goto(p, "idle", None)
  /\ late' = late \ {p}
  /\ UNCHANGED <<cred, recovery, sso, fin>>

-----------------------------------------------------------------------------
(* Passkey management.                                                     *)

(* addPasskeyFinish: AddCredential. *)
AddCredential(p, k) ==
  /\ req[p].pc = "authorized"
  /\ cred[k] = "none"
  /\ cred' = [cred EXCEPT ![k] = "active"]
  /\ Goto(p, "idle", None)
  /\ UNCHANGED <<recovery, sso, fin, late>>

(* The count is of all passkeys of the account. *)
MutantRevokeCount(p, k) ==
  /\ req[p].pc = "authorized"
  /\ Cardinality({j \in Creds : cred[j] # "none"}) > 1
  /\ Goto(p, "counted", k)
  /\ UNCHANGED <<cred, recovery, sso, fin, late>>

(* RevokeCredential, first statement: how many passkeys are active.        *)
RevokeCount(p, k) ==
  /\ req[p].pc = "authorized"
  /\ Cardinality(Active) > 1
  /\ Goto(p, "counted", k)
  /\ UNCHANGED <<cred, recovery, sso, fin, late>>

(* The sessions the passkey opened are left alone. *)
MutantRevokeCredential(p) ==
  /\ req[p].pc = "counted"
  /\ cred[req[p].cred] = "active"
  /\ cred' = RevokeCreds({req[p].cred})
  /\ Goto(p, "idle", None)
  /\ UNCHANGED <<recovery, sso, fin, late>>

(* RevokeCredential, the two UPDATEs: the passkey if it is still active,   *)
(* and the sessions it opened.                                             *)
RevokeCredential(p) ==
  LET k == req[p].cred
  IN /\ req[p].pc = "counted"
     /\ cred[k] = "active"
     /\ cred' = RevokeCreds({k})
     /\ sess' = RevokeSessions({s \in Sessions : by[s] = k})
     /\ late' = (late \cup Overtaken({k})) \ {p}
     /\ Goto(p, "idle", None)
     /\ UNCHANGED <<recovery, by, fin>>

-----------------------------------------------------------------------------
(* Recovery.                                                               *)

(* StartRecoveryRequest refuses while a quarantine is on. *)
StartCheck(p) ==
  /\ req[p].pc = "idle"
  /\ \A i \in Recoveries : rec[i] # "quarantine"
  /\ Goto(p, "starting", None)
  /\ UNCHANGED <<cred, recovery, sso, fin, late>>

(* The schema without the unique index of migration 003. *)
MutantStartInsert(p, i) ==
  /\ req[p].pc = "starting"
  /\ rec[i] = "none"
  /\ rec' = [j \in Recoveries |-> IF j = i THEN "link_sent"
                                  ELSE IF rec[j] = "link_sent" THEN "cancelled"
                                  ELSE rec[j]]
  /\ link' = [link EXCEPT ![i] = "sent"]
  /\ Goto(p, "idle", None)
  /\ UNCHANGED <<cred, repl, due, sso, fin, late>>

(* StartRecoveryRequest supersedes an unused link and inserts its own row, *)
(* which the index recoveries_one_active_per_user refuses if a quarantine  *)
(* has begun meanwhile.  The superseded link itself stays good.            *)
StartInsert(p, i) ==
  /\ req[p].pc = "starting"
  /\ rec[i] = "none"
  /\ \A j \in Recoveries : rec[j] # "quarantine"
  /\ rec' = [j \in Recoveries |-> IF j = i THEN "link_sent"
                                  ELSE IF rec[j] = "link_sent" THEN "cancelled"
                                  ELSE rec[j]]
  /\ link' = [link EXCEPT ![i] = "sent"]
  /\ Goto(p, "idle", None)
  /\ UNCHANGED <<cred, repl, due, sso, fin, late>>

LinkExpires(i) ==
  /\ link[i] = "sent"
  /\ link' = [link EXCEPT ![i] = "expired"]
  /\ UNCHANGED <<cred, rec, repl, due, sso, req, fin, late>>

(* recoveryFinish: BeginRecoveryQuarantine spends the link and enrols the  *)
(* replacement k; the UPDATE of recoveries wants state link_sent, and its  *)
(* row count is not looked at.                                             *)
BeginRecoveryQuarantine(i, k) ==
  /\ link[i] = "sent"
  /\ cred[k] = "none"
  /\ link' = [link EXCEPT ![i] = "used"]
  /\ cred' = [cred EXCEPT ![k] = "recovery_pending"]
  /\ IF rec[i] = "link_sent"
       THEN /\ rec' = [rec EXCEPT ![i] = "quarantine"]
            /\ repl' = [repl EXCEPT ![i] = k]
       ELSE UNCHANGED <<rec, repl>>
  /\ UNCHANGED <<due, sso, req, fin, late>>

(* RecoveryDelay passes. *)
BecomesDue(i) ==
  /\ rec[i] = "quarantine"
  /\ ~due[i]
  /\ due' = [due EXCEPT ![i] = TRUE]
  /\ UNCHANGED <<cred, rec, repl, link, sso, req, fin, late>>

(* The replacement is left waiting. *)
MutantCancelRecovery(p, i) ==
  /\ req[p].pc = "authorized"
  /\ i \in Underway
  /\ rec' = [rec EXCEPT ![i] = "cancelled"]
  /\ Goto(p, "idle", None)
  /\ UNCHANGED <<cred, repl, due, link, sso, fin, late>>

(* CancelRecovery: the recovery, and its replacement if it has one.        *)
CancelRecovery(p, i) ==
  /\ req[p].pc = "authorized"
  /\ i \in Underway
  /\ rec' = [rec EXCEPT ![i] = "cancelled"]
  /\ cred' = RevokeCreds({repl[i]} \ {None})
  /\ Goto(p, "idle", None)
  /\ UNCHANGED <<repl, due, link, sso, fin, late>>

(* Every quarantine is taken, whether or not its delay is over. *)
MutantFinalizeSelect ==
  /\ fin = {}
  /\ fin' = {i \in Recoveries : rec[i] = "quarantine"}
  /\ fin' # {}
  /\ UNCHANGED <<cred, recovery, sso, req, late>>

(* FinalizeRecoveries: the SELECT runs outside any transaction, so its     *)
(* FOR UPDATE locks nothing once the rows are read.                        *)
FinalizeSelect ==
  /\ fin = {}
  /\ fin' = {i \in Recoveries : rec[i] = "quarantine" /\ due[i]}
  /\ fin' # {}
  /\ UNCHANGED <<cred, recovery, sso, req, late>>

(* The recovery itself is not completed. *)
MutantFinalizeItem(i) ==
  LET old == {k \in Creds \ {repl[i]} : cred[k] # "none"}
  IN /\ i \in fin
     /\ cred' = [k \in Creds |->
                   IF k \in old THEN "revoked"
                   ELSE IF k = repl[i] /\ cred[k] = "recovery_pending" THEN "active"
                   ELSE cred[k]]
     /\ sess' = RevokeSessions(Sessions)
     /\ late' = late \cup Overtaken(old)
     /\ fin' = fin \ {i}
     /\ UNCHANGED <<rec, repl, due, link, by, req>>

(* One selected recovery, in a transaction of its own: every other passkey *)
(* goes, the replacement is activated if it still waits, every session     *)
(* goes, and the recovery completes if it is still in quarantine.          *)
FinalizeItem(i) ==
  LET old == {k \in Creds \ {repl[i]} : cred[k] # "none"}
  IN /\ i \in fin
     /\ cred' = [k \in Creds |->
                   IF k \in old THEN "revoked"
                   ELSE IF k = repl[i] /\ cred[k] = "recovery_pending" THEN "active"
                   ELSE cred[k]]
     /\ sess' = RevokeSessions(Sessions)
     /\ rec' = [rec EXCEPT ![i] = IF @ = "quarantine" THEN "completed" ELSE @]
     /\ late' = late \cup Overtaken(old)
     /\ fin' = fin \ {i}
     /\ UNCHANGED <<repl, due, link, by, req>>

(* A failing item ends the round; the next one is a minute away. *)
FinalizeFails ==
  /\ fin # {}
  /\ fin' = {}
  /\ UNCHANGED <<cred, recovery, sso, req, late>>

-----------------------------------------------------------------------------
User ==
  \/ \E p \in Requests :
       \/ \E k \in Creds : LoginVerified(p, k) \/ AddCredential(p, k) \/ RevokeCount(p, k)
       \/ \E s \in Sessions : LoginSession(p, s) \/ Authorized(p, s)
       \/ RevokeCredential(p)
       \/ StartCheck(p)
       \/ \E i \in Recoveries : StartInsert(p, i) \/ CancelRecovery(p, i)
       \/ RequestEnds(p)
  \/ \E S \in SUBSET Sessions : SignOut(S)
  \/ \E i \in Recoveries, k \in Creds : BeginRecoveryQuarantine(i, k)

Time ==
  \/ \E s \in Sessions : SessionExpires(s)
  \/ \E i \in Recoveries : LinkExpires(i) \/ BecomesDue(i)

Maintenance ==
  \/ FinalizeSelect
  \/ \E i \in Recoveries : FinalizeItem(i)
  \/ FinalizeFails

Next == User \/ Time \/ Maintenance

Spec == Init /\ [][Next]_vars

(* Time passes and maintenance runs every minute; a round may fail, but    *)
(* not for ever.  Users owe nothing.                                       *)
Fairness ==
  /\ WF_vars(FinalizeSelect)
  /\ \A i \in Recoveries : WF_vars(BecomesDue(i)) /\ SF_vars(FinalizeItem(i))

FairSpec == Spec /\ Fairness

-----------------------------------------------------------------------------
(* Properties.                                                             *)

(* An account never has two recoveries under way: the index catches the    *)
(* request that checked before the other one's quarantine began.           *)
OneRecoveryUnderway ==
  \A i, j \in Underway : i = j

(* A replacement passkey is not usable, and has opened no session, unless  *)
(* its recovery ran its course: not while it waits, and not after the      *)
(* recovery was cancelled under the finalizer's hands.                     *)
ReplacementWaits ==
  \A i \in Recoveries : repl[i] # None /\ rec[i] # "completed" =>
    /\ cred[repl[i]] # "active"
    /\ \A s \in Sessions : by[s] # repl[i]

(* The loss of a passkey ends the sessions it opened, save one whose login *)
(* was between the check of the passkey and the insert of the session.     *)
RevokedPasskeySignsOut ==
  \A s \in Sessions : sess[s] = "live" /\ s \notin late => cred[by[s]] = "active"

(* A quarantine comes to an end by itself. *)
RecoveryEnds ==
  \A i \in Recoveries : rec[i] = "quarantine" ~> rec[i] \in {"completed", "cancelled"}

(* The last usable passkey goes only by a revocation that counted before   *)
(* another passkey was lost, or by the finalizer working off a list whose  *)
(* replacement was revoked in the meantime: the recovery was cancelled, or *)
(* one before it was and cost everything.                                  *)
LastPasskeyGoes ==
  [][Active # {} /\ (\A k \in Creds : cred'[k] # "active") =>
       \/ \E p \in late \cap Requests : req[p].pc = "counted" /\ req'[p].pc = "idle"
       \/ \E i \in fin \ fin' : cred[repl[i]] = "revoked"]_vars

(* A recovery completes only after the whole delay of its own quarantine,  *)
(* and not once it was cancelled, though only the list looks at the time;  *)
(* it may be cancelled until it is completed.                              *)
GP == INSTANCE GracePeriod WITH
        Things <- Recoveries, LateWord <- TRUE,
        phase <- [i \in Recoveries |-> CASE rec[i] = "quarantine" -> "announced"
                                         [] rec[i] = "completed" -> "done"
                                         [] OTHER -> "off"],
        due <- [i \in Recoveries |-> due[i] /\ rec[i] \in {"quarantine", "completed"}]

ImplementsGracePeriod == GP!Spec
=============================================================================
