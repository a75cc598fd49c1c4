------------------------------- MODULE Grants -------------------------------
(***************************************************************************)
(* Authorization codes, access tokens and everything that may take them    *)
(* away: internal/server/oidc.go and the statements of internal/store it   *)
(* runs, with the account and administration transactions that revoke.     *)
(*                                                                         *)
(* An HTTP handler is a goroutine that runs one SQL statement after        *)
(* another, so a request is a little process (az, rd) and each statement   *)
(* is a step.  A revoking function of the store is one READ COMMITTED      *)
(* transaction: each of its statements works on what was committed when    *)
(* it started, its writes appear together at the commit.  tx[x] is such a  *)
(* transaction, with the rows its UPDATEs found.                           *)
(***************************************************************************)
EXTENDS Naturals, FiniteSets

CONSTANTS
  Users, Clients, Emails,
  Sessions,     \* sso_sessions rows, each created at most once
  Authz,        \* runs of /authorize; a run issues at most one code, its name
  Redeems,      \* runs of /token; a run mints at most one token, its name
  Txs,          \* connections that run revoking transactions
  Trusted,      \* clients whose scopes are preapproved
  Editors,      \* users who change their own address during the run
  None          \* SQL NULL

ASSUME GrantsAssumption ==
  /\ Trusted \subseteq Clients
  /\ Editors \subseteq Users
  /\ None \notin Users \cup Clients \cup Emails \cup Sessions \cup Authz

VARIABLES
  status,       \* users.status
  email,        \* the verified address of user_emails, or None
  policy,       \* clients.access_policy
  enabled,      \* clients.enabled
  allowed,      \* client_allowed_emails
  consented,    \* consents with revoked_at NULL
  owner, sess,  \* sso_sessions.user_id and the row's life
  az, code,     \* /authorize requests and the codes they issue
  rd, token,    \* /token requests and the tokens they mint
  tx,           \* open transactions
  late          \* auxiliary: redemptions overtaken by a change of access rules

users == <<status, email>>
clients == <<policy, enabled, allowed>>
sso == <<owner, sess>>
grants == <<az, code, rd, token>>
vars == <<status, email, policy, enabled, allowed, consented, owner, sess,
          az, code, rd, token, tx, late>>

Policies == {"open", "allowlist"}

(* The five revoking transactions and the one that enables a client.       *)
Withdrawals == {"deny", "policy", "disable"}
Ops == Withdrawals \cup {"enable", "consent", "signout", "delete"}

AzRec == [pc : {"idle", "session", "admitted", "consented", "done"},
          session : Sessions \cup {None}, client : Clients \cup {None}]
RdRec == [pc : {"idle", "authenticated", "redeemed", "admitted", "done"},
          client : Clients \cup {None}, code : Authz \cup {None}]
TxRec == [op : Ops \cup {"none"}, stage : {"idle", "begun", "revoked"},
          user : Users \cup {None}, client : Clients \cup {None},
          email : Emails \cup {None}, policy : Policies,
          sessions : SUBSET Sessions, consents : SUBSET Clients,
          tokens : SUBSET Redeems, seen : SUBSET Redeems, stale : BOOLEAN]

NoTx == [op |-> "none", stage |-> "idle", user |-> None, client |-> None,
         email |-> None, policy |-> "open", sessions |-> {}, consents |-> {},
         tokens |-> {}, seen |-> {}, stale |-> FALSE]

RowTypes ==
  /\ status \in [Users -> {"active", "deletion_pending"}]
  /\ email \in [Users -> Emails \cup {None}]
  /\ policy \in [Clients -> Policies]
  /\ enabled \in [Clients -> BOOLEAN]
  /\ allowed \in [Clients -> SUBSET Emails]
  /\ consented \subseteq Users \X Clients
  /\ owner \in [Sessions -> Users \cup {None}]
  /\ sess \in [Sessions -> {"none", "verified", "live", "expired", "revoked"}]
  /\ az \in [Authz -> AzRec]
  /\ code \in [Authz -> {"none", "fresh", "spent"}]
  /\ rd \in [Redeems -> RdRec]
  /\ token \in [Redeems -> {"none", "live", "dead"}]
  /\ tx \in [Txs -> TxRec]
  /\ late \subseteq Redeems

SessionsFilled == \A s \in Sessions : sess[s] # "none" => owner[s] # None

AuthzFilled == \A a \in Authz :
  /\ az[a].pc # "idle" => az[a].client # None /\ az[a].session # None
                            /\ sess[az[a].session] # "none"
  /\ code[a] # "none" => az[a].pc = "done"

RedeemsFilled == \A r \in Redeems :
  /\ rd[r].pc # "idle" => rd[r].client # None
  /\ rd[r].pc \in {"redeemed", "admitted"} => rd[r].code # None
  /\ token[r] # "none" => rd[r].pc = "done" /\ rd[r].code # None

TxFilled == \A x \in Txs :
  /\ \A s \in tx[x].sessions : sess[s] # "none"
  /\ \A r \in tx[x].tokens \cup tx[x].seen : token[r] # "none"
  /\ tx[x].op \in Withdrawals => tx[x].client # None

(* The variables' types, and the columns and fields that are never NULL.   *)
TypeOK == RowTypes /\ SessionsFilled /\ AuthzFilled /\ RedeemsFilled /\ TxFilled

(* Users and rules are there already, in any state; requests are not.      *)
Init ==
  /\ status \in [Users -> {"active", "deletion_pending"}]
  /\ email \in {e \in [Users -> Emails \cup {None}] :
                 \A u, v \in Users : e[u] = e[v] /\ e[u] # None => u = v}
  /\ policy \in [Clients -> Policies]
  /\ enabled = [c \in Clients |-> TRUE]
  /\ allowed \in [Clients -> SUBSET Emails]
  /\ consented = {}
  /\ owner = [s \in Sessions |-> None]
  /\ sess = [s \in Sessions |-> "none"]
  /\ az = [a \in Authz |-> [pc |-> "idle", session |-> None, client |-> None]]
  /\ code = [a \in Authz |-> "none"]
  /\ rd = [r \in Redeems |-> [pc |-> "idle", client |-> None, code |-> None]]
  /\ token = [r \in Redeems |-> "none"]
  /\ tx = [x \in Txs |-> NoTx]
  /\ late = {}

-----------------------------------------------------------------------------
(* Readings of the tables.                                                 *)

(* allowedEmailPredicate, on a disabled client false.                      *)
Predicate(p, on, listed, e) == on /\ (p = "open" \/ e \in listed)

(* ClientAccessAllowed. *)
Admitted(c, u) == Predicate(policy[c], enabled[c], allowed[c], email[u])

(* The same decision as the statements of an open transaction t see it:    *)
(* committed rows of others, and t's own write.                            *)
AdmittedIn(t, u) ==
  CASE t.op = "deny" ->
         Predicate(policy[t.client], enabled[t.client],
                   allowed[t.client] \ {t.email}, email[u])
    [] t.op = "policy" ->
         Predicate(t.policy, enabled[t.client], allowed[t.client], email[u])
    [] t.op = "disable" -> FALSE
    [] OTHER -> Admitted(t.client, u)

(* SessionByToken: an unrevoked, unexpired row of an active account.       *)
Usable(s) == sess[s] = "live" /\ status[owner[s]] = "active"

CodeUser(a) == owner[az[a].session]
TokenUser(r) == CodeUser(rd[r].code)

LiveTokensAt(c) == {r \in Redeems : token[r] = "live" /\ rd[r].client = c}
LiveTokensOf(u) == {r \in Redeems : token[r] = "live" /\ TokenUser(r) = u}
SessionsOf(u) == {s \in Sessions : sess[s] = "live" /\ owner[s] = u}

(* access_tokens.session_hash: /token leaves AccessToken.SessionHash unset. *)
SessionHash(r) == None

(* Redemptions of client c whose admission check is behind them.           *)
Checked(c) == {r \in Redeems : rd[r].client = c
                 /\ (rd[r].pc = "admitted" \/ token[r] = "live")}

Dead(T) == [r \in Redeems |-> IF r \in T THEN "dead" ELSE token[r]]
Revoked(S) == [s \in Sessions |-> IF s \in S THEN "revoked" ELSE sess[s]]

Open(x) == tx[x].stage # "idle"

(* Row locks a statement waits for: the clients row, held by the           *)
(* transactions that UPDATE it, an allowlist row held by a DELETE, and     *)
(* the users row held by ScheduleDeletion.                                 *)
ClientRowFree(c) ==
  \A x \in Txs : ~(tx[x].op \in {"policy", "disable", "enable"}
                     /\ tx[x].client = c)
ListRowFree(c, e) ==
  \A x \in Txs : ~(tx[x].op = "deny" /\ tx[x].client = c /\ tx[x].email = e)
UserRowFree(u) == \A x \in Txs : ~(tx[x].op = "delete" /\ tx[x].user = u)
ConsentRowFree(u, c) ==
  \A x \in Txs : ~(tx[x].user = u /\ c \in tx[x].consents)

-----------------------------------------------------------------------------
(* Signing in and out.                                                     *)

(* loginFinish as far as the checks: DiscoverableUser wants an active user. *)
LoginVerified(s, u) ==
  /\ sess[s] = "none"
  /\ status[u] = "active"
  /\ sess' = [sess EXCEPT ![s] = "verified"]
  /\ owner' = [owner EXCEPT ![s] = u]
  /\ UNCHANGED <<users, clients, consented, grants, tx, late>>

(* newSession: CreateSession inserts the row, whatever happened meanwhile. *)
LoginSession(s) ==
  /\ sess[s] = "verified"
  /\ sess' = [sess EXCEPT ![s] = "live"]
  /\ UNCHANGED <<users, clients, owner, consented, grants, tx, late>>

(* The idle or the absolute limit passes. *)
SessionExpires(s) ==
  /\ sess[s] = "live"
  /\ sess' = [sess EXCEPT ![s] = "expired"]
  /\ UNCHANGED <<users, clients, owner, consented, grants, tx, late>>

(* logout revokes the browser's own session, revokeAccountSession any      *)
(* session of the same user; with it go the tokens that carry its hash.    *)
EndSession(b, s) ==
  /\ Usable(b)
  /\ sess[s] = "live"
  /\ owner[s] = owner[b]
  /\ sess' = [sess EXCEPT ![s] = "revoked"]
  /\ token' = Dead({r \in Redeems : token[r] = "live" /\ SessionHash(r) = s})
  /\ UNCHANGED <<users, clients, owner, consented, az, code, rd, tx, late>>

-----------------------------------------------------------------------------
(* GET /authorize and POST /authorize/consent.                             *)

(* validateAuthorization wants an enabled client, currentSession a session. *)
AuthorizeSession(a, s, c) ==
  /\ az[a].pc = "idle"
  /\ enabled[c]
  /\ Usable(s)
  /\ az' = [az EXCEPT ![a] = [pc |-> "session", session |-> s, client |-> c]]
  /\ UNCHANGED <<users, clients, sso, consented, code, rd, token, tx, late>>

(* permitClient. *)
AuthorizeAdmit(a) ==
  /\ az[a].pc = "session"
  /\ az' = [az EXCEPT ![a].pc =
              IF Admitted(az[a].client, CodeUser(a)) THEN "admitted" ELSE "done"]
  /\ UNCHANGED <<users, clients, sso, consented, code, rd, token, tx, late>>

(* authorize: a code without asking, or the consent page and the end of    *)
(* this request.                                                           *)
AuthorizeCovered(a) ==
  /\ az[a].pc = "admitted"
  /\ az' = [az EXCEPT ![a].pc =
              IF az[a].client \in Trusted
                   \/ <<CodeUser(a), az[a].client>> \in consented
                THEN "consented" ELSE "done"]
  /\ UNCHANGED <<users, clients, sso, consented, code, rd, token, tx, late>>

(* authorizeConsent: GrantConsent waits for the row, then inserts it or    *)
(* clears revoked_at.                                                      *)
AuthorizeGrant(a) ==
  /\ az[a].pc = "admitted"
  /\ az' = [az EXCEPT ![a].pc = "consented"]
  /\ ConsentRowFree(CodeUser(a), az[a].client)
  /\ consented' = consented \cup {<<CodeUser(a), az[a].client>>}
  /\ UNCHANGED <<users, clients, sso, code, rd, token, tx, late>>

(* issueAuthorizationCode. *)
IssueCode(a) ==
  /\ az[a].pc = "consented"
  /\ az' = [az EXCEPT ![a].pc = "done"]
  /\ code' = [code EXCEPT ![a] = "fresh"]
  /\ UNCHANGED <<users, clients, sso, consented, rd, token, tx, late>>

(* CodeTTL passes. *)
CodeExpires(a) ==
  /\ code[a] = "fresh"
  /\ code' = [code EXCEPT ![a] = "spent"]
  /\ UNCHANGED <<users, clients, sso, consented, az, rd, token, tx, late>>

-----------------------------------------------------------------------------
(* POST /token.                                                            *)

(* basicClientAuth and ValidateClientSecret. *)
TokenAuthenticate(r, c) ==
  /\ rd[r].pc = "idle"
  /\ enabled[c]
  /\ rd' = [rd EXCEPT ![r] = [pc |-> "authenticated", client |-> c,
                              code |-> None]]
  /\ UNCHANGED <<users, clients, sso, consented, az, code, token, tx, late>>

(* The code is selected but not marked used. *)
MutantConsumeKeeps(r, a, proved) ==
  /\ rd[r].pc = "authenticated"
  /\ code[a] = "fresh"
  /\ proved /\ az[a].client = rd[r].client
  /\ rd' = [rd EXCEPT ![r] = [@ EXCEPT !.pc = "redeemed", !.code = a]]
  /\ UNCHANGED <<users, clients, sso, consented, az, code, token, tx, late>>

(* The client of the code is not compared. *)
MutantConsumeAny(r, a, proved) ==
  /\ rd[r].pc = "authenticated"
  /\ code[a] = "fresh"
  /\ code' = [code EXCEPT ![a] = "spent"]
  /\ rd' = [rd EXCEPT ![r] = IF proved THEN [@ EXCEPT !.pc = "redeemed", !.code = a]
                                        ELSE [@ EXCEPT !.pc = "done"]]
  /\ UNCHANGED <<users, clients, sso, consented, az, token, tx, late>>

(* ConsumeAuthorizationCode burns the code before the binding (client,     *)
(* redirect URI, PKCE verifier) is compared; proved says whether redirect  *)
(* URI and verifier match.                                                 *)
TokenConsume(r, a, proved) ==
  /\ rd[r].pc = "authenticated"
  /\ code[a] = "fresh"
  /\ code' = [code EXCEPT ![a] = "spent"]
  /\ rd' = [rd EXCEPT ![r] =
              IF proved /\ az[a].client = rd[r].client
                THEN [@ EXCEPT !.pc = "redeemed", !.code = a]
                ELSE [@ EXCEPT !.pc = "done"]]
  /\ UNCHANGED <<users, clients, sso, consented, az, token, tx, late>>

(* The admission check is made at /authorize only. *)
MutantAdmitAll(r) ==
  /\ rd[r].pc = "redeemed"
  /\ rd' = [rd EXCEPT ![r].pc = "admitted"]
  /\ UNCHANGED <<users, clients, sso, consented, az, code, token, tx, late>>

(* UserByID, which takes an account in any status, and the second          *)
(* ClientAccessAllowed.                                                    *)
TokenAdmit(r) ==
  /\ rd[r].pc = "redeemed"
  /\ rd' = [rd EXCEPT ![r].pc =
              IF Admitted(rd[r].client, TokenUser(r)) THEN "admitted" ELSE "done"]
  /\ UNCHANGED <<users, clients, sso, consented, az, code, token, tx, late>>

(* PutAccessToken. *)
TokenMint(r) ==
  /\ rd[r].pc = "admitted"
  /\ rd' = [rd EXCEPT ![r].pc = "done"]
  /\ token' = [token EXCEPT ![r] = "live"]
  /\ UNCHANGED <<users, clients, sso, consented, az, code, tx, late>>

(* A redemption that fails gives its code back, so the client can retry.   *)
MutantFailsRestores(r) ==
  /\ rd[r].pc \in {"authenticated", "redeemed", "admitted"}
  /\ rd' = [rd EXCEPT ![r].pc = "done"]
  /\ code' = [a \in Authz |-> IF a = rd[r].code THEN "fresh" ELSE code[a]]
  /\ UNCHANGED <<users, clients, sso, consented, az, token, tx, late>>

(* The code is unknown, the caller hangs up or the database fails. *)
TokenFails(r) ==
  /\ rd[r].pc \in {"authenticated", "redeemed", "admitted"}
  /\ rd' = [rd EXCEPT ![r].pc = "done"]
  /\ UNCHANGED <<users, clients, sso, consented, az, code, token, tx, late>>

(* AccessTokenTTL passes, or the client calls /revoke on its own token. *)
TokenEnds(r) ==
  /\ token[r] = "live"
  /\ token' = [token EXCEPT ![r] = "dead"]
  /\ UNCHANGED <<users, clients, sso, consented, az, code, rd, tx, late>>

-----------------------------------------------------------------------------
(* Changes of the access rules by an administrator.                        *)

Begin(x, t) ==
  /\ ~Open(x)
  /\ tx' = [tx EXCEPT ![x] = t]
  /\ UNCHANGED <<users, clients, sso, consented, grants, late>>

(* DenyClientEmail: the DELETE finds the row, or none. *)
BeginDeny(x, c, e) ==
  /\ ListRowFree(c, e)
  /\ Begin(x, [NoTx EXCEPT !.op = "deny", !.stage = "begun", !.client = c,
                           !.email = IF e \in allowed[c] THEN e ELSE None])

(* SetClientAccessPolicy: the UPDATE locks the clients row. *)
BeginPolicy(x, c, p) ==
  /\ ClientRowFree(c)
  /\ Begin(x, [NoTx EXCEPT !.op = "policy", !.stage = "begun", !.client = c,
                           !.policy = p])

(* SetClientEnabled: likewise. *)
BeginEnable(x, c, on) ==
  /\ ClientRowFree(c)
  /\ Begin(x, [NoTx EXCEPT !.op = IF on THEN "enable" ELSE "disable",
                           !.stage = "begun", !.client = c])

(* AllowClientEmail: one INSERT .. ON CONFLICT DO NOTHING. *)
AllowEmail(c, e) ==
  /\ ListRowFree(c, e)
  /\ allowed' = [allowed EXCEPT ![c] = @ \cup {e}]
  /\ UNCHANGED <<users, policy, enabled, consented, sso, grants, tx, late>>

(* Requests by a signed-in user b; the statement that checks the session   *)
(* is taken together with the first of the transaction.                    *)

(* RevokeConsent: the consent row first. *)
BeginConsent(x, b, c) ==
  /\ Usable(b)
  /\ ConsentRowFree(owner[b], c)
  /\ Begin(x, [NoTx EXCEPT !.op = "consent", !.stage = "begun",
                 !.user = owner[b], !.client = c,
                 !.consents = {d \in {c} : <<owner[b], d>> \in consented}])

(* RevokeAllSessions: revokeUserSessions finds the sessions first. *)
BeginSignOut(x, b) ==
  /\ Usable(b)
  /\ Begin(x, [NoTx EXCEPT !.op = "signout", !.stage = "begun",
                 !.user = owner[b], !.sessions = SessionsOf(owner[b])])

(* ScheduleDeletion: the users row, then revokeUserSessions. *)
BeginDelete(x, b) ==
  /\ Usable(b)
  /\ UserRowFree(owner[b])
  /\ Begin(x, [NoTx EXCEPT !.op = "delete", !.stage = "begun",
                 !.user = owner[b], !.sessions = SessionsOf(owner[b])])

(* The tokens are looked up outside the transaction, before its change.    *)
MutantHits(t) ==
  CASE t.op \in Withdrawals ->
         {r \in LiveTokensAt(t.client) : ~Admitted(t.client, TokenUser(r))}
    [] t.op = "consent" -> LiveTokensOf(t.user) \cap LiveTokensAt(t.client)
    [] t.op \in {"signout", "delete"} -> LiveTokensOf(t.user)
    [] OTHER -> {}

(* The tokens the second statement finds.                                  *)
Hits(t) ==
  CASE t.op \in Withdrawals ->
         {r \in LiveTokensAt(t.client) : ~AdmittedIn(t, TokenUser(r))}
    [] t.op = "consent" -> LiveTokensOf(t.user) \cap LiveTokensAt(t.client)
    [] t.op \in {"signout", "delete"} -> LiveTokensOf(t.user)
    [] OTHER -> {}

(* UPDATE access_tokens; ScheduleDeletion's UPDATE consents goes with it.  *)
(* A row another transaction has hit is waited for and then found revoked, *)
(* which leaves the same rows dead, so the wait is not modelled.           *)
TxRevoke(x) ==
  LET t == tx[x]
      C == IF t.op = "delete" THEN {c \in Clients : <<t.user, c>> \in consented}
                              ELSE t.consents
      S == IF t.op \in Withdrawals THEN LiveTokensAt(t.client) ELSE {}
  IN /\ t.stage = "begun"
     /\ t.op = "delete" => \A c \in C : ConsentRowFree(t.user, c)
     /\ tx' = [tx EXCEPT ![x] = [t EXCEPT !.stage = "revoked", !.consents = C,
                                          !.tokens = Hits(t), !.seen = S]]
     /\ UNCHANGED <<users, clients, sso, consented, grants, late>>

(* An UPDATE that ran before a change it did not see vouches for nothing.  *)
Stale(t) == IF t.op \in Withdrawals /\ t.stage = "revoked"
              THEN [t EXCEPT !.stale = TRUE] ELSE t

(* The redemptions a withdrawal answers for: those its UPDATE looked at.   *)
Covered(t) == IF t.stale THEN {} ELSE t.seen

CommitWithdrawal(x) ==
  LET t == tx[x] c == t.client
  IN /\ t.stage = "revoked"
     /\ t.op \in Withdrawals
     /\ allowed' = IF t.op = "deny" THEN [allowed EXCEPT ![c] = @ \ {t.email}]
                                    ELSE allowed
     /\ policy' = IF t.op = "policy" THEN [policy EXCEPT ![c] = t.policy]
                                     ELSE policy
     /\ enabled' = IF t.op = "disable" THEN [enabled EXCEPT ![c] = FALSE]
                                       ELSE enabled
     /\ token' = Dead(t.tokens)
     /\ late' = (late \cup Checked(c)) \ Covered(t)
     /\ tx' = [y \in Txs |-> IF y = x THEN NoTx
                             ELSE IF tx[y].client = c THEN Stale(tx[y])
                             ELSE tx[y]]
     /\ UNCHANGED <<users, sso, consented, az, code, rd>>

CommitEnable(x) ==
  /\ tx[x].stage = "revoked"
  /\ tx[x].op = "enable"
  /\ enabled' = [enabled EXCEPT ![tx[x].client] = TRUE]
  /\ tx' = [tx EXCEPT ![x] = NoTx]
  /\ UNCHANGED <<users, policy, allowed, sso, consented, grants, late>>

(* RevokeConsent, RevokeAllSessions and ScheduleDeletion. *)
CommitAccount(x) ==
  LET t == tx[x]
  IN /\ t.stage = "revoked"
     /\ t.op \in {"consent", "signout", "delete"}
     /\ token' = Dead(t.tokens)
     /\ sess' = Revoked(t.sessions)
     /\ consented' = consented \ {<<t.user, c>> : c \in t.consents}
     /\ status' = IF t.op = "delete"
                    THEN [status EXCEPT ![t.user] = "deletion_pending"] ELSE status
     /\ tx' = [tx EXCEPT ![x] = NoTx]
     /\ UNCHANGED <<email, clients, owner, az, code, rd, late>>

(* A statement or the connection fails: the deferred Rollback. *)
TxRollback(x) ==
  /\ Open(x)
  /\ tx' = [tx EXCEPT ![x] = NoTx]
  /\ UNCHANGED <<users, clients, sso, consented, grants, late>>

-----------------------------------------------------------------------------
(* What the user does to the account besides.                              *)

(* CancelDeletion from the mailed link. *)
CancelDeletion(u) ==
  /\ status[u] = "deletion_pending"
  /\ status' = [status EXCEPT ![u] = "active"]
  /\ UNCHANGED <<email, clients, sso, consented, grants, tx, late>>

(* deletionCancelFinish: with a passkey, and a session to follow. *)
CancelDeletionFinish(u, s) ==
  /\ status[u] = "deletion_pending"
  /\ sess[s] = "none"
  /\ status' = [status EXCEPT ![u] = "active"]
  /\ sess' = [sess EXCEPT ![s] = "verified"]
  /\ owner' = [owner EXCEPT ![s] = u]
  /\ UNCHANGED <<email, clients, consented, grants, tx, late>>

(* Changing one's own address revokes nothing, so it overtakes what the    *)
(* old address bought.                                                     *)
ChangeEmail(u, e) ==
  /\ email' = [email EXCEPT ![u] = e]
  /\ late' = late \cup {r \in Redeems :
                          /\ rd[r].pc = "admitted" \/ token[r] = "live"
                          /\ TokenUser(r) = u}
  /\ tx' = [x \in Txs |-> Stale(tx[x])]
  /\ UNCHANGED <<status, clients, sso, consented, grants>>

(* VerifyEmail upserts the row of the user; an address in use is refused.  *)
VerifyEmail(u, e) ==
  /\ u \in Editors
  /\ \A v \in Users \ {u} : email[v] # e
  /\ ChangeEmail(u, e)

DeleteEmail(u) == u \in Editors /\ ChangeEmail(u, None)

-----------------------------------------------------------------------------
Login == \E s \in Sessions :
  \/ \E u \in Users : LoginVerified(s, u) \/ CancelDeletionFinish(u, s)
  \/ LoginSession(s)
  \/ SessionExpires(s)
  \/ \E b \in Sessions : EndSession(b, s)

Authorize == \E a \in Authz :
  \/ \E s \in Sessions, c \in Clients : AuthorizeSession(a, s, c)
  \/ AuthorizeAdmit(a)
  \/ AuthorizeCovered(a)
  \/ AuthorizeGrant(a)
  \/ IssueCode(a)
  \/ CodeExpires(a)

Token == \E r \in Redeems :
  \/ \E c \in Clients : TokenAuthenticate(r, c)
  \/ \E a \in Authz, proved \in BOOLEAN : TokenConsume(r, a, proved)
  \/ TokenAdmit(r)
  \/ TokenMint(r)
  \/ TokenFails(r)
  \/ TokenEnds(r)

Withdraw == \E x \in Txs :
  \/ \E c \in Clients, e \in Emails : BeginDeny(x, c, e)
  \/ \E c \in Clients, p \in Policies : BeginPolicy(x, c, p)
  \/ \E c \in Clients, on \in BOOLEAN : BeginEnable(x, c, on)
  \/ \E b \in Sessions, c \in Clients : BeginConsent(x, b, c)
  \/ \E b \in Sessions : BeginSignOut(x, b) \/ BeginDelete(x, b)
  \/ TxRevoke(x)
  \/ CommitWithdrawal(x)
  \/ CommitEnable(x)
  \/ CommitAccount(x)
  \/ TxRollback(x)

Account ==
  \/ \E u \in Users : CancelDeletion(u) \/ DeleteEmail(u)
  \/ \E u \in Users, e \in Emails : VerifyEmail(u, e)
  \/ \E c \in Clients, e \in Emails : AllowEmail(c, e)

Next == Login \/ Authorize \/ Token \/ Withdraw \/ Account

Spec == Init /\ [][Next]_vars

-----------------------------------------------------------------------------
(* Properties.                                                             *)

(* Two runs of /token never both come away with the same authorization     *)
(* code, however their statements interleave.                              *)
CodeBuysOneToken ==
  \A r, q \in Redeems : rd[r].code # None /\ rd[r].code = rd[q].code => r = q

(* A token is minted for the client its code was issued to, although the   *)
(* code is already burned when the two are compared.                       *)
TokenStaysWithClient ==
  \A r \in Redeems : token[r] # "none" => az[rd[r].code].client = rd[r].client

(* A live token belongs to a user its client admits now, unless its        *)
(* redemption was between the admission check and the end of a withdrawal  *)
(* (or two withdrawals overlapped, or the user changed the address): those *)
(* are the only ways around revokeClientAccessForNewlyDenied.              *)
AdmittedUnlessLate ==
  \A r \in Redeems :
    token[r] = "live" /\ r \notin late => Admitted(rd[r].client, TokenUser(r))

(* A withdrawal leaves none of the tokens its UPDATE looked at in the      *)
(* hands of a user the client does not admit once it has committed, as     *)
(* long as no other change of the rules committed in between.              *)
WithdrawalCovers ==
  [][\A x \in Txs : CommitWithdrawal(x) =>
       \A r \in Covered(tx[x]) :
         token'[r] = "live" => Admitted(rd[r].client, TokenUser(r))']_vars

(* Codes and tokens follow OneTimeGrant: the redemptions that own a code   *)
(* are those that consumed it with the right binding.                      *)
OTG == INSTANCE OneTimeGrant WITH
         Codes <- Authz, Holders <- Redeems,
         holder <- [a \in Authz |-> {r \in Redeems : rd[r].code = a}]

ImplementsOneTimeGrant == OTG!Spec

(* The properties below state what a comment, a test or the documentation  *)
(* says and the code does not keep.                                        *)

(* The revocation test wants the token of a session revoked with it.  When *)
(* a session is revoked, no token authorized under it stays live.          *)
TokensDieWithSession ==
  [][\A b, s \in Sessions : EndSession(b, s) =>
       \A r \in Redeems : token'[r] = "live" => az[rd[r].code].session # s]_vars
=============================================================================
