------------------------------- MODULE Forward -------------------------------
(***************************************************************************)
(* Forward authentication: a browser signed in to Claustra gets a one-time *)
(* ticket for a protected host, the host turns it into a cookie of its     *)
(* own, and every proxied request is checked against that cookie:          *)
(* internal/server/forward.go, internal/store/forward.go, and the halves   *)
(* of internal/store/access.go and internal/server/admin.go about hosts.   *)
(*                                                                         *)
(* Requests and transactions are cut into statements as in Grants.  SSO    *)
(* sessions are only seen to end here: how they begin is Grants'.          *)
(***************************************************************************)
EXTENDS Naturals, FiniteSets

CONSTANTS
  Users, Hosts, Emails,
  Sessions,    \* sso_sessions rows
  Tickets,     \* forward_tickets rows, one for each run of forwardAuthorize
  Cookies,     \* forward_sessions rows, one for each run of forwardCallback
  Requests,    \* runs of forwardVerify in flight at a time
  Txs,         \* connections that run revoking transactions
  Editors,     \* users who change their own address during the run
  None         \* SQL NULL

ASSUME ForwardAssumption ==
  None \notin Users \cup Hosts \cup Emails \cup Sessions \cup Tickets \cup Cookies

VARIABLES
  email,         \* the verified address of user_emails, or None
  policy,        \* forward_hosts.access_policy
  allowed,       \* forward_allowed_emails
  owner, sess,   \* sso_sessions.user_id, and whether the row is still good
  tk,            \* runs of forwardAuthorize and the tickets they issue
  ck,            \* runs of forwardCallback and the cookies they set
  vr,            \* runs of forwardVerify
  tx,            \* open transactions
  late           \* auxiliary: tickets overtaken by a change of the rules

rules == <<email, policy, allowed>>
sso == <<owner, sess>>
vars == <<email, policy, allowed, owner, sess, tk, ck, vr, tx, late>>

Policies == {"open", "allowlist"}

TkRec == [st : {"none", "session", "admitted", "refused", "fresh", "spent"},
          sess : Sessions \cup {None}, host : Hosts \cup {None}]
CkRec == [st : {"none", "redeemed", "failed", "live", "dead"},
          ticket : Tickets \cup {None}, host : Hosts \cup {None}]
(* valid is auxiliary: what the cookie was worth when the request came.    *)
VrRec == [pc : {"idle", "arrived", "session"}, cookie : Cookies \cup {None},
          host : Hosts \cup {None}, valid : BOOLEAN]
TxRec == [op : {"none", "deny", "policy"}, stage : {"idle", "begun", "revoked"},
          host : Hosts \cup {None}, email : Emails \cup {None},
          policy : Policies, cookies : SUBSET Cookies, seen : SUBSET Tickets,
          stale : BOOLEAN]

NoTicket == [st |-> "none", sess |-> None, host |-> None]
NoCookie == [st |-> "none", ticket |-> None, host |-> None]
Idle == [pc |-> "idle", cookie |-> None, host |-> None, valid |-> FALSE]
NoTx == [op |-> "none", stage |-> "idle", host |-> None, email |-> None,
         policy |-> "open", cookies |-> {}, seen |-> {}, stale |-> FALSE]

(* The variables' types, and the references that are never NULL. *)
TypeOK ==
  /\ email \in [Users -> Emails \cup {None}]
  /\ policy \in [Hosts -> Policies]
  /\ allowed \in [Hosts -> SUBSET Emails]
  /\ owner \in [Sessions -> Users]
  /\ sess \in [Sessions -> {"live", "ended"}]
  /\ tk \in [Tickets -> TkRec]
  /\ ck \in [Cookies -> CkRec]
  /\ vr \in [Requests -> VrRec]
  /\ tx \in [Txs -> TxRec]
  /\ late \subseteq Tickets
  /\ \A t \in Tickets : tk[t].st # "none" => tk[t].sess # None /\ tk[t].host # None
  /\ \A k \in Cookies : ck[k].st # "none" =>
       ck[k].ticket # None /\ ck[k].host # None /\ tk[ck[k].ticket].st = "spent"
  /\ \A v \in Requests : vr[v].pc # "idle" =>
       vr[v].cookie # None /\ vr[v].host # None /\ ck[vr[v].cookie].st # "none"
  /\ \A x \in Txs : tx[x].stage # "idle" => tx[x].host # None /\ tx[x].op # "none"

Init ==
  /\ email \in {e \in [Users -> Emails \cup {None}] :
                 \A u, v \in Users : e[u] = e[v] /\ e[u] # None => u = v}
  /\ policy \in [Hosts -> Policies]
  /\ allowed \in [Hosts -> SUBSET Emails]
  /\ owner \in [Sessions -> Users]
  /\ sess = [s \in Sessions |-> "live"]
  /\ tk = [t \in Tickets |-> NoTicket]
  /\ ck = [k \in Cookies |-> NoCookie]
  /\ vr = [v \in Requests |-> Idle]
  /\ tx = [x \in Txs |-> NoTx]
  /\ late = {}

-----------------------------------------------------------------------------
(* Readings of the tables.  No statement of the program clears             *)
(* forward_hosts.enabled, so it is left out of them.                       *)

(* allowedEmailPredicate for a host, on the rules of one snapshot. *)
Predicate(p, listed, e) == p = "open" \/ e \in listed

(* ForwardAccessAllowed. *)
Admitted(h, u) == Predicate(policy[h], allowed[h], email[u])

(* The same decision with the change of the open transaction t. *)
AdmittedIn(t, u) ==
  IF t.op = "deny" THEN Predicate(policy[t.host], allowed[t.host] \ {t.email}, email[u])
                   ELSE Predicate(t.policy, allowed[t.host], email[u])

TicketUser(t) == owner[tk[t].sess]
CookieUser(k) == TicketUser(ck[k].ticket)
CookieGood(k) == ck[k].st = "live" /\ sess[tk[ck[k].ticket].sess] = "live"

LiveAt(h) == {k \in Cookies : ck[k].st = "live" /\ ck[k].host = h}

(* Tickets for host h whose admission check is behind them.                *)
Checked(h) == {t \in Tickets : tk[t].host = h /\ tk[t].st \notin {"none", "session", "refused"}}

Dead(K) == [k \in Cookies |-> IF k \in K THEN [ck[k] EXCEPT !.st = "dead"] ELSE ck[k]]

Open(x) == tx[x].stage # "idle"
HostRowFree(h) == \A x \in Txs : ~(tx[x].op = "policy" /\ tx[x].host = h)
ListRowFree(h, e) ==
  \A x \in Txs : ~(tx[x].op = "deny" /\ tx[x].host = h /\ tx[x].email = e)

-----------------------------------------------------------------------------
(* GET /forward-auth/authorize.                                            *)

(* currentSession. *)
AuthorizeSession(t, s, h) ==
  /\ tk[t].st = "none"
  /\ sess[s] = "live"
  /\ tk' = [tk EXCEPT ![t] = [st |-> "session", sess |-> s, host |-> h]]
  /\ UNCHANGED <<rules, sso, ck, vr, tx, late>>

(* ForwardAccessAllowed, or denyService. *)
AuthorizeAdmit(t) ==
  /\ tk[t].st = "session"
  /\ tk' = [tk EXCEPT ![t].st =
              IF Admitted(tk[t].host, TicketUser(t)) THEN "admitted" ELSE "refused"]
  /\ UNCHANGED <<rules, sso, ck, vr, tx, late>>

(* The ticket is inserted whatever happened since. *)
PutForwardTicket(t) ==
  /\ tk[t].st = "admitted"
  /\ tk' = [tk EXCEPT ![t].st = "fresh"]
  /\ UNCHANGED <<rules, sso, ck, vr, tx, late>>

(* Thirty seconds pass. *)
TicketExpires(t) ==
  /\ tk[t].st = "fresh"
  /\ tk' = [tk EXCEPT ![t].st = "spent"]
  /\ UNCHANGED <<rules, sso, ck, vr, tx, late>>

-----------------------------------------------------------------------------
(* GET /_claustra/callback, on the protected host.                         *)

(* The ticket is selected but not marked used. *)
MutantConsumeKeeps(k, t, h) ==
  /\ ck[k].st = "none"
  /\ tk[t].st = "fresh" /\ tk[t].host = h
  /\ ck' = [ck EXCEPT ![k] = [st |-> "redeemed", ticket |-> t, host |-> h]]
  /\ UNCHANGED <<rules, sso, tk, vr, tx, late>>

(* The ticket of any host will do. *)
MutantConsumeAny(k, t, h) ==
  /\ ck[k].st = "none"
  /\ tk[t].st = "fresh"
  /\ tk' = [tk EXCEPT ![t].st = "spent"]
  /\ ck' = [ck EXCEPT ![k] = [st |-> "redeemed", ticket |-> t, host |-> h]]
  /\ UNCHANGED <<rules, sso, vr, tx, late>>

(* ConsumeForwardTicket: a ticket of this host, unused.  SSO session and   *)
(* access rules are not looked at.                                         *)
ConsumeForwardTicket(k, t, h) ==
  /\ ck[k].st = "none"
  /\ tk[t].st = "fresh" /\ tk[t].host = h
  /\ tk' = [tk EXCEPT ![t].st = "spent"]
  /\ ck' = [ck EXCEPT ![k] = [st |-> "redeemed", ticket |-> t, host |-> h]]
  /\ UNCHANGED <<rules, sso, vr, tx, late>>

PutForwardSession(k) ==
  /\ ck[k].st = "redeemed"
  /\ ck' = [ck EXCEPT ![k].st = "live"]
  /\ UNCHANGED <<rules, sso, tk, vr, tx, late>>

CallbackFails(k) ==
  /\ ck[k].st = "redeemed"
  /\ ck' = [ck EXCEPT ![k].st = "failed"]
  /\ UNCHANGED <<rules, sso, tk, vr, tx, late>>

(* forwardLogout, or the cookie expires. *)
RevokeForwardSession(k) ==
  /\ ck[k].st = "live"
  /\ ck' = Dead({k})
  /\ UNCHANGED <<rules, sso, tk, vr, tx, late>>

(* Sign-out, expiry, revocation or deletion: the SSO session is over.      *)
SsoEnds(s) ==
  /\ sess[s] = "live"
  /\ sess' = [sess EXCEPT ![s] = "ended"]
  /\ UNCHANGED <<rules, owner, tk, ck, vr, tx, late>>

-----------------------------------------------------------------------------
(* GET /forward-auth/verify, for every request the proxy forwards.         *)

VerifyArrives(v, k, h) ==
  /\ vr[v].pc = "idle"
  /\ ck[k].st \in {"live", "dead"}
  /\ vr' = [vr EXCEPT ![v] = [pc |-> "arrived", cookie |-> k, host |-> h,
                              valid |-> CookieGood(k)]]
  /\ UNCHANGED <<rules, sso, tk, ck, tx, late>>

(* The query without its join to sso_sessions. *)
MutantVerifySession(v) ==
  /\ vr[v].pc = "arrived"
  /\ vr' = [vr EXCEPT ![v] =
              IF ck[vr[v].cookie].st = "live" /\ ck[vr[v].cookie].host = vr[v].host
                THEN [@ EXCEPT !.pc = "session"] ELSE Idle]
  /\ UNCHANGED <<rules, sso, tk, ck, tx, late>>

(* ForwardSessionByRaw: cookie, host, SSO session and account in one query. *)
VerifySession(v) ==
  /\ vr[v].pc = "arrived"
  /\ vr' = [vr EXCEPT ![v] =
              IF CookieGood(vr[v].cookie) /\ ck[vr[v].cookie].host = vr[v].host
                THEN [@ EXCEPT !.pc = "session"] ELSE Idle]
  /\ UNCHANGED <<rules, sso, tk, ck, tx, late>>

(* ForwardAccessAllowed on every request: 200, or the request is refused.  *)
Pass(v) ==
  /\ vr[v].pc = "session"
  /\ Admitted(vr[v].host, CookieUser(vr[v].cookie))
  /\ vr' = [vr EXCEPT ![v] = Idle]
  /\ UNCHANGED <<rules, sso, tk, ck, tx, late>>

Refuse(v) ==
  /\ vr[v].pc # "idle"
  /\ vr' = [vr EXCEPT ![v] = Idle]
  /\ UNCHANGED <<rules, sso, tk, ck, tx, late>>

-----------------------------------------------------------------------------
(* adminForwardAccess.                                                     *)

Begin(x, t) ==
  /\ ~Open(x)
  /\ tx' = [tx EXCEPT ![x] = t]
  /\ UNCHANGED <<rules, sso, tk, ck, vr, late>>

(* DenyForwardEmail: the DELETE finds the row, or none. *)
BeginDeny(x, h, e) ==
  /\ ListRowFree(h, e)
  /\ Begin(x, [NoTx EXCEPT !.op = "deny", !.stage = "begun", !.host = h,
                           !.email = IF e \in allowed[h] THEN e ELSE None])

(* SetForwardAccessPolicy: the UPDATE locks the row of the host. *)
BeginPolicy(x, h, p) ==
  /\ HostRowFree(h)
  /\ Begin(x, [NoTx EXCEPT !.op = "policy", !.stage = "begun", !.host = h,
                           !.policy = p])

(* The cookies are looked up before the change, outside its transaction.   *)
MutantHits(t) == {k \in LiveAt(t.host) : ~Admitted(t.host, CookieUser(k))}

(* revokeForwardSessionsForNewlyDenied finds these.                        *)
Hits(t) == {k \in LiveAt(t.host) : ~AdmittedIn(t, CookieUser(k))}

TxRevoke(x) ==
  LET t == tx[x]
  IN /\ t.stage = "begun"
     /\ tx' = [tx EXCEPT ![x] =
                 [t EXCEPT !.stage = "revoked", !.cookies = Hits(t),
                           !.seen = {ck[k].ticket : k \in LiveAt(t.host)}]]
     /\ UNCHANGED <<rules, sso, tk, ck, vr, late>>

(* An UPDATE that ran before a change it did not see vouches for nothing.  *)
Stale(t) == IF t.stage = "revoked" THEN [t EXCEPT !.stale = TRUE] ELSE t

Commit(x) ==
  LET t == tx[x] h == t.host
  IN /\ t.stage = "revoked"
     /\ allowed' = IF t.op = "deny" THEN [allowed EXCEPT ![h] = @ \ {t.email}]
                                    ELSE allowed
     /\ policy' = IF t.op = "policy" THEN [policy EXCEPT ![h] = t.policy]
                                     ELSE policy
     /\ ck' = Dead(t.cookies)
     /\ late' = (late \cup Checked(h)) \ (IF t.stale THEN {} ELSE t.seen)
     /\ tx' = [y \in Txs |-> IF y = x THEN NoTx
                             ELSE IF tx[y].host = h THEN Stale(tx[y]) ELSE tx[y]]
     /\ UNCHANGED <<email, sso, tk, vr>>

Rollback(x) ==
  /\ Open(x)
  /\ tx' = [tx EXCEPT ![x] = NoTx]
  /\ UNCHANGED <<rules, sso, tk, ck, vr, late>>

(* AllowForwardEmail. *)
AllowEmail(h, e) ==
  /\ ListRowFree(h, e)
  /\ allowed' = [allowed EXCEPT ![h] = @ \cup {e}]
  /\ UNCHANGED <<email, policy, sso, tk, ck, vr, tx, late>>

(* VerifyEmail and DeleteEmail, which revoke nothing.  An address in use   *)
(* is refused.                                                             *)
ChangeEmail(u, e) ==
  /\ u \in Editors
  /\ e # None => \A w \in Users \ {u} : email[w] # e
  /\ email' = [email EXCEPT ![u] = e]
  /\ late' = late \cup {t \in Tickets : \E h \in Hosts : t \in Checked(h) /\ TicketUser(t) = u}
  /\ tx' = [x \in Txs |-> Stale(tx[x])]
  /\ UNCHANGED <<policy, allowed, sso, tk, ck, vr>>

-----------------------------------------------------------------------------
Browse ==
  \/ \E t \in Tickets :
       \/ \E s \in Sessions, h \in Hosts : AuthorizeSession(t, s, h)
       \/ AuthorizeAdmit(t) \/ PutForwardTicket(t) \/ TicketExpires(t)
  \/ \E k \in Cookies :
       \/ \E t \in Tickets, h \in Hosts : ConsumeForwardTicket(k, t, h)
       \/ PutForwardSession(k) \/ CallbackFails(k) \/ RevokeForwardSession(k)
  \/ \E s \in Sessions : SsoEnds(s)

Verify == \E v \in Requests :
  \/ \E k \in Cookies, h \in Hosts : VerifyArrives(v, k, h)
  \/ VerifySession(v) \/ Pass(v) \/ Refuse(v)

Administer ==
  \/ \E x \in Txs :
       \/ \E h \in Hosts, e \in Emails : BeginDeny(x, h, e)
       \/ \E h \in Hosts, p \in Policies : BeginPolicy(x, h, p)
       \/ TxRevoke(x) \/ Commit(x) \/ Rollback(x)
  \/ \E h \in Hosts, e \in Emails : AllowEmail(h, e)
  \/ \E u \in Users, e \in Emails \cup {None} : ChangeEmail(u, e)

Next == Browse \/ Verify \/ Administer

Spec == Init /\ [][Next]_vars

-----------------------------------------------------------------------------
(* Properties.                                                             *)

(* Tickets and cookies follow OneTimeGrant: however callbacks race, a      *)
(* ticket buys one cookie, and a cookie once revoked stays revoked.        *)
OTG == INSTANCE OneTimeGrant WITH
         Codes <- Tickets, Holders <- Cookies,
         code <- [t \in Tickets |-> IF tk[t].st \in {"fresh", "spent"}
                                      THEN tk[t].st ELSE "none"],
         holder <- [t \in Tickets |-> {k \in Cookies : ck[k].ticket = t}],
         token <- [k \in Cookies |-> IF ck[k].st \in {"live", "dead"}
                                       THEN ck[k].st ELSE "none"]

ImplementsOneTimeGrant == OTG!Spec

(* A request passes at a host only on a ticket that was issued for that    *)
(* host, three requests earlier.                                           *)
PassNeedsOwnTicket ==
  [][\A v \in Requests : Pass(v) =>
       tk[ck[vr[v].cookie].ticket].host = vr[v].host]_vars

(* A request that arrives after the cookie was revoked, or after the SSO   *)
(* session behind it ended, does not pass any more, although ending the    *)
(* session touches no cookie and a ticket may be redeemed after it.        *)
SignedOutIsOut ==
  [][\A v \in Requests : Pass(v) => vr[v].valid]_vars

(* A live cookie belongs to a user its host admits, unless its ticket was  *)
(* past the admission check, or two changes overlapped, or the user        *)
(* changed the address, when the rules changed.                            *)
AdmittedUnlessLate ==
  \A k \in Cookies : ck[k].st = "live" /\ ck[k].ticket \notin late =>
    Admitted(ck[k].host, CookieUser(k))
=============================================================================
