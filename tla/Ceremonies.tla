----------------------------- MODULE Ceremonies -----------------------------
(***************************************************************************)
(* WebAuthn ceremonies: a challenge is stored by one request and consumed  *)
(* by another, which then registers an account, opens a session, adds a    *)
(* passkey, or takes back the deletion of an account; against the          *)
(* deletion itself, which may be scheduled, cancelled and carried out      *)
(* between any two statements.  Every finishing request makes at most one  *)
(* thing, a session or a passkey, which goes by the request's name.        *)
(* The fifth operation, recovery, is in Recovery.                          *)
(***************************************************************************)
EXTENDS FiniteSets

CONSTANTS
  Users,        \* users rows
  Challenges,   \* webauthn_challenges rows
  Finishes,     \* requests to .../finish, and what they make
  Mails,        \* links of purpose delete_cancel
  Start,        \* the passkeys (one a user) that are there at the start
  None          \* nobody, nothing

ASSUME CeremoniesAssumption ==
  /\ Start \subseteq Users
  /\ None \notin Users \cup Challenges \cup Finishes
  /\ Users \cap Finishes = {}

VARIABLES
  status,       \* users.status; "none" before the row, "deleted" after it
  due,          \* deletion_due_at has passed
  chal,         \* webauthn_challenges
  fin,          \* the finishing requests
  passkey,      \* credentials.state; Users name the first of each user
  session,      \* sso_sessions
  mail,         \* email_tokens of purpose delete_cancel
  late          \* auxiliary: requests overtaken by a scheduled deletion

vars == <<status, due, chal, fin, passkey, session, mail, late>>

Operations == {"register", "login", "add_passkey", "delete_cancel"}
Chal == [state : {"none", "open", "used", "expired"}, op : Operations \cup {None},
         user : Users \cup {None}]
(* A finishing request: the operation it is the end of, the challenge it   *)
(* consumed, its account, and the passkey it was verified with.            *)
Fin == [pc : {"idle", "consumed", "found", "entering", "done"},
        op : Operations \cup {None}, chal : Challenges \cup {None},
        user : Users \cup {None}, key : Users \cup Finishes \cup {None}]
Idle == [pc |-> "idle", op |-> None, chal |-> None, user |-> None, key |-> None]

Keys == Users \cup Finishes
Owner(k) == IF k \in Users THEN k ELSE fin[k].user

(* The variables' types, and the references that are never NULL. *)
TypeOK ==
  /\ status \in [Users -> {"none", "active", "deletion_pending", "deleted"}]
  /\ due \in [Users -> BOOLEAN]
  /\ chal \in [Challenges -> Chal]
  /\ fin \in [Finishes -> Fin]
  /\ passkey \in [Keys -> {"none", "active", "revoked"}]
  /\ session \in [Finishes -> {"none", "live", "dead"}]
  /\ mail \in [Mails -> [state : {"none", "sent", "used"}, user : Users \cup {None}]]
  /\ late \subseteq Finishes
  /\ \A f \in Finishes :
       /\ passkey[f] = "active" => status[fin[f].user] \in {"active", "deletion_pending"}
       /\ session[f] = "live" => status[fin[f].user] \in {"active", "deletion_pending"}

Init ==
  /\ status = [u \in Users |-> IF u \in Start THEN "active" ELSE "none"]
  /\ due = [u \in Users |-> FALSE]
  /\ chal = [c \in Challenges |-> [state |-> "none", op |-> None, user |-> None]]
  /\ fin = [f \in Finishes |-> Idle]
  /\ passkey = [k \in Keys |-> IF k \in Start THEN "active" ELSE "none"]
  /\ session = [f \in Finishes |-> "none"]
  /\ mail = [m \in Mails |-> [state |-> "none", user |-> None]]
  /\ late = {}

-----------------------------------------------------------------------------
(* SessionByToken wants an active account besides. *)
SignedIn(u) ==
  status[u] = "active" /\ \E f \in Finishes : session[f] = "live" /\ fin[f].user = u

Done(f) == fin' = [fin EXCEPT ![f].pc = "done"]
Goto(f, pc) == fin' = [fin EXCEPT ![f].pc = pc]

PutChallenge(c, op, u) ==
  /\ chal[c].state = "none"
  /\ chal' = [chal EXCEPT ![c] = [state |-> "open", op |-> op, user |-> u]]
  /\ UNCHANGED <<status, due, fin, passkey, session, mail, late>>

(* An account to be registered has its number already, and nobody else     *)
(* has that number.                                                        *)
RegistrationBegin(c, u) ==
  /\ status[u] = "none"
  /\ \A d \in Challenges : chal[d].op = "register" => chal[d].user # u
  /\ PutChallenge(c, "register", u)

AddPasskeyBegin(c, u) == SignedIn(u) /\ PutChallenge(c, "add_passkey", u)

(* These do not know yet whom they are for. *)
LoginBegin(c) == PutChallenge(c, "login", None)
DeletionCancelBegin(c) == PutChallenge(c, "delete_cancel", None)

ChallengeExpires(c) ==
  /\ chal[c].state = "open"
  /\ chal' = [chal EXCEPT ![c].state = "expired"]
  /\ UNCHANGED <<status, due, fin, passkey, session, mail, late>>

(* The account of the challenge is not compared. *)
MutantConsume(f, c, op, u) ==
  /\ fin[f].pc = "idle"
  /\ op = "add_passkey" => u # None /\ SignedIn(u)
  /\ op # "add_passkey" => u = None
  /\ chal[c].state = "open" /\ chal[c].op = op
  /\ chal' = [chal EXCEPT ![c].state = "used"]
  /\ fin' = [fin EXCEPT ![f] = [Idle EXCEPT !.op = op, !.chal = c, !.pc = "consumed",
                                 !.user = IF op = "add_passkey" THEN u ELSE chal[c].user]]
  /\ UNCHANGED <<status, due, passkey, session, mail, late>>

(* The challenge stays good. *)
MutantConsumeKeeps(f, c, op, u) ==
  /\ fin[f].pc = "idle"
  /\ op = "add_passkey" => u # None /\ SignedIn(u)
  /\ op # "add_passkey" => u = None
  /\ chal[c].state = "open" /\ chal[c].op = op
  /\ fin' = [fin EXCEPT ![f] = [Idle EXCEPT !.op = op, !.chal = c,
       !.pc = IF op = "add_passkey" /\ chal[c].user # u THEN "done" ELSE "consumed",
       !.user = IF op = "add_passkey" THEN u ELSE chal[c].user]]
  /\ UNCHANGED <<status, due, chal, passkey, session, mail, late>>

(* .../finish of operation op: requireSession for add_passkey, whose       *)
(* caller is signed in to u, then ConsumeChallenge; the challenge is spent *)
(* before its account is compared with the caller's.  Which session it was *)
(* begun in is stored with it, and not looked at.                          *)
Consume(f, c, op, u) ==
  /\ fin[f].pc = "idle"
  /\ op = "add_passkey" => u # None /\ SignedIn(u)
  /\ op # "add_passkey" => u = None
  /\ chal[c].state = "open" /\ chal[c].op = op
  /\ chal' = [chal EXCEPT ![c].state = "used"]
  /\ fin' = [fin EXCEPT ![f] = [Idle EXCEPT !.op = op, !.chal = c,
       !.pc = IF op = "add_passkey" /\ chal[c].user # u THEN "done" ELSE "consumed",
       !.user = IF op = "add_passkey" THEN u ELSE chal[c].user]]
  /\ UNCHANGED <<status, due, passkey, session, mail, late>>

(* FinishRegistration and CreateUserWithCredential; a session follows.     *)
Register(f) ==
  LET u == fin[f].user
  IN /\ fin[f].pc = "consumed" /\ fin[f].op = "register"
     /\ status[u] = "none"
     /\ status' = [status EXCEPT ![u] = "active"]
     /\ passkey' = [passkey EXCEPT ![u] = "active"]
     /\ fin' = [fin EXCEPT ![f].pc = "entering", ![f].key = u]
     /\ UNCHANGED <<due, chal, session, mail, late>>

(* FinishRegistration with the challenge's account, AddCredential: there   *)
(* is no look at the account's status.                                     *)
AddCredential(f) ==
  /\ fin[f].pc = "consumed" /\ fin[f].op = "add_passkey"
  /\ status[fin[f].user] # "deleted"
  /\ passkey' = [passkey EXCEPT ![f] = "active"]
  /\ Done(f)
  /\ UNCHANGED <<status, due, chal, session, mail, late>>

(* FinishPasskeyLogin: the passkey brings its account. *)
Found(f, k, pc) ==
  /\ fin' = [fin EXCEPT ![f].user = Owner(k), ![f].key = k, ![f].pc = pc]
  /\ UNCHANGED <<status, due, chal, passkey, session, mail, late>>

(* loginFinish with DiscoverableUser, and UpdateCredential. *)
LoginVerified(f, k) ==
  /\ fin[f].pc = "consumed" /\ fin[f].op = "login"
  /\ passkey[k] = "active" /\ status[Owner(k)] = "active"
  /\ Found(f, k, "entering")

DiscoverableDeletionUser(f, k) ==
  /\ fin[f].pc = "consumed" /\ fin[f].op = "delete_cancel"
  /\ passkey[k] = "active" /\ status[Owner(k)] = "deletion_pending" /\ ~due[Owner(k)]
  /\ Found(f, k, "found")

(* CancelDeletion without its deletion_due_at > now(). *)
MutantRestored(u) == IF status[u] = "deletion_pending"
                       THEN [status EXCEPT ![u] = "active"] ELSE status

(* CancelDeletion, which may change nothing. *)
Restored(u) == IF status[u] = "deletion_pending" /\ ~due[u]
                 THEN [status EXCEPT ![u] = "active"] ELSE status

(* deletionCancelFinish goes on whether or not a row was changed, to       *)
(* UpdateCredential, which wants the passkey active.                       *)
CancelByPasskey(f) ==
  /\ fin[f].pc = "found"
  /\ status' = Restored(fin[f].user)
  /\ Goto(f, IF passkey[fin[f].key] = "active" THEN "entering" ELSE "done")
  /\ UNCHANGED <<due, chal, passkey, session, mail, late>>

(* newSession: the account must be there. *)
NewSession(f) ==
  /\ fin[f].pc = "entering"
  /\ status[fin[f].user] # "deleted"
  /\ session' = [session EXCEPT ![f] = "live"]
  /\ Done(f)
  /\ UNCHANGED <<status, due, chal, passkey, mail, late>>

(* The assertion is not valid, a statement fails, the caller hangs up. *)
Fails(f) ==
  /\ fin[f].pc \in {"consumed", "found", "entering"}
  /\ Done(f)
  /\ UNCHANGED <<status, due, chal, passkey, session, mail, late>>

(* logout, expiry, revocation of the session. *)
SessionEnds(f) ==
  /\ session[f] = "live"
  /\ session' = [session EXCEPT ![f] = "dead"]
  /\ UNCHANGED <<status, due, chal, fin, passkey, mail, late>>

(* RevokeCredential, with the sessions the passkey opened. *)
RevokePasskey(k) ==
  /\ passkey[k] = "active" /\ SignedIn(Owner(k))
  /\ \E j \in Keys \ {k} : passkey[j] = "active" /\ Owner(j) = Owner(k)
  /\ passkey' = [passkey EXCEPT ![k] = "revoked"]
  /\ session' = [f \in Finishes |-> IF session[f] = "live" /\ fin[f].key = k
                                      THEN "dead" ELSE session[f]]
  /\ UNCHANGED <<status, due, chal, fin, mail, late>>

-----------------------------------------------------------------------------
EndSessionsOf(u) ==
  [f \in Finishes |-> IF session[f] = "live" /\ fin[f].user = u THEN "dead" ELSE session[f]]

(* The caller had a session when that was read; it may be gone by now.     *)
WasSignedIn(u) == \E f \in Finishes : session[f] # "none" /\ fin[f].user = u

(* The sessions are left to the account's status. *)
MutantScheduleDeletion(u, m) ==
  /\ WasSignedIn(u)
  /\ mail[m].state = "none" /\ status[u] # "deleted"
  /\ status' = [status EXCEPT ![u] = "deletion_pending"]
  /\ mail' = [mail EXCEPT ![m] = [state |-> "sent", user |-> u]]
  /\ late' = late \cup {f \in Finishes : fin[f].user = u /\ fin[f].pc = "entering"}
  /\ UNCHANGED <<due, chal, fin, passkey, session>>

(* deleteAccount: ScheduleDeletion, and the link to cancel it with.  A     *)
(* second one finds the account disabled, and ends sessions all the same.  *)
ScheduleDeletion(u, m) ==
  /\ WasSignedIn(u)
  /\ mail[m].state = "none" /\ status[u] # "deleted"
  /\ status' = [status EXCEPT ![u] = "deletion_pending"]
  /\ session' = EndSessionsOf(u)
  /\ mail' = [mail EXCEPT ![m] = [state |-> "sent", user |-> u]]
  /\ late' = late \cup {f \in Finishes : fin[f].user = u /\ fin[f].pc = "entering"}
  /\ UNCHANGED <<due, chal, fin, passkey>>

(* deletionCancelEmail: ConsumeEmailToken, then CancelDeletion.  A link is *)
(* good until its own deletion would have been due, for a later one, too.  *)
CancelByMail(m) ==
  /\ mail[m].state = "sent"
  /\ mail' = [mail EXCEPT ![m].state = "used"]
  /\ status' = Restored(mail[m].user)
  /\ UNCHANGED <<due, chal, fin, passkey, session, late>>

(* DeleteGrace passes: the links that were sent change nothing any more. *)
GraceEnds(u) ==
  /\ status[u] = "deletion_pending" /\ ~due[u]
  /\ due' = [due EXCEPT ![u] = TRUE]
  /\ UNCHANGED <<status, chal, fin, passkey, session, mail, late>>

(* FinalizeDeletions: the row, and by cascade what refers to it. *)
Finalize(u) ==
  /\ status[u] = "deletion_pending" /\ due[u]
  /\ status' = [status EXCEPT ![u] = "deleted"]
  /\ session' = EndSessionsOf(u)
  /\ passkey' = [k \in Keys |-> IF passkey[k] = "active" /\ Owner(k) = u
                                  THEN "revoked" ELSE passkey[k]]
  /\ UNCHANGED <<due, chal, fin, mail, late>>

Next ==
  \/ \E c \in Challenges :
       \/ \E u \in Users : RegistrationBegin(c, u) \/ AddPasskeyBegin(c, u)
       \/ LoginBegin(c) \/ DeletionCancelBegin(c) \/ ChallengeExpires(c)
  \/ \E f \in Finishes :
       \/ \E c \in Challenges, op \in Operations, u \in Users \cup {None} : Consume(f, c, op, u)
       \/ Register(f) \/ AddCredential(f)
       \/ \E k \in Keys : LoginVerified(f, k) \/ DiscoverableDeletionUser(f, k)
       \/ CancelByPasskey(f) \/ NewSession(f) \/ Fails(f) \/ SessionEnds(f)
  \/ \E k \in Keys : RevokePasskey(k)
  \/ \E u \in Users : (\E m \in Mails : ScheduleDeletion(u, m)) \/ GraceEnds(u) \/ Finalize(u)
  \/ \E m \in Mails : CancelByMail(m)

Spec == Init /\ [][Next]_vars

-----------------------------------------------------------------------------
(* Properties.                                                             *)

(* What a request makes is what its challenge was begun for, and for the   *)
(* account it was begun for: a challenge for signing in registers no       *)
(* passkey, and one for adding a passkey is of no use to another account.  *)
MadeAsBegun ==
  \A f \in Finishes : session[f] # "none" \/ passkey[f] # "none" =>
    LET c == chal[fin[f].chal]
    IN /\ c.user # None => fin[f].user = c.user
       /\ passkey[f] # "none" <=> c.op = "add_passkey"

(* An account that was restored has no session from before its deletion    *)
(* was scheduled, but for a request that was past its checks by then.      *)
RestoredStartsClean ==
  [][\A u \in Users : status[u] = "deletion_pending" /\ status'[u] = "active" =>
       \A f \in Finishes : session[f] = "live" /\ fin[f].user = u => f \in late]_vars

(* One challenge, one session or passkey: challenges follow OneTimeGrant,  *)
(* whose holders are the requests that consumed them.                      *)
OTG == INSTANCE OneTimeGrant WITH
         Codes <- Challenges, Holders <- Finishes,
         code <- [c \in Challenges |-> CASE chal[c].state = "none" -> "none"
                                         [] chal[c].state = "open" -> "fresh"
                                         [] OTHER -> "spent"],
         holder <- [c \in Challenges |-> {f \in Finishes : fin[f].chal = c}],
         token <- [f \in Finishes |->
                     IF session[f] # "none" THEN session[f]
                     ELSE CASE passkey[f] = "active" -> "live"
                            [] passkey[f] = "revoked" -> "dead"
                            [] OTHER -> "none"]

ImplementsOneTimeGrant == OTG!Spec

(* Deletion keeps its grace period also for those who come late: a link of *)
(* an earlier deletion, or a request that found the account in time.       *)
GP == INSTANCE GracePeriod WITH
        Things <- Users, LateWord <- FALSE, due <- due,
        phase <- [u \in Users |-> CASE status[u] = "deletion_pending" -> "announced"
                                    [] status[u] = "deleted" -> "done"
                                    [] OTHER -> "off"]

ImplementsGracePeriod == GP!Spec
=============================================================================
