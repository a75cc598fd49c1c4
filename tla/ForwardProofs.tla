---------------------------- MODULE ForwardProofs ----------------------------
(***************************************************************************)
(* Forward authentication, for any number of users, hosts, tickets,        *)
(* cookies, requests and transactions.  Inv says how cookies, tickets and  *)
(* requests hang together; Coverage, what an open transaction vouches for, *)
(* as AccessProofs has it for access tokens.                               *)
(***************************************************************************)
EXTENDS Forward, TLAPS

(* A cookie owns its ticket, and is for the host the ticket was for. *)
OwnTicket ==
  /\ \A k \in Cookies : ck[k].st = "none" => ck[k].ticket = None
  /\ \A k, l \in Cookies : ck[k].ticket # None /\ ck[k].ticket = ck[l].ticket => k = l
  /\ \A k \in Cookies : ck[k].st # "none" => ck[k].host = tk[ck[k].ticket].host

(* A request whose cookie is good now came when it was good; one whose     *)
(* cookie was found good is at the host of the cookie.                     *)
Verified ==
  \A v \in Requests : vr[v].pc # "idle" =>
    /\ ck[vr[v].cookie].st \in {"live", "dead"}
    /\ CookieGood(vr[v].cookie) => vr[v].valid
    /\ vr[v].pc = "session" => vr[v].valid /\ ck[vr[v].cookie].host = vr[v].host

(* A transaction has listed cookies that were set. *)
ListsCookies ==
  \A x \in Txs : \A k \in tx[x].cookies : ck[k].st \in {"live", "dead"}

Inv == TypeOK /\ OwnTicket /\ Verified /\ ListsCookies

LEMMA InitInv == Init => Inv
BY ForwardAssumption DEF Init, Inv, TypeOK, TkRec, CkRec, VrRec, TxRec, NoTicket, NoCookie,
   Idle, NoTx, Policies, OwnTicket, Verified, ListsCookies

-----------------------------------------------------------------------------
(* What the steps change.                                                  *)

(* One field of one row. *)
LEMMA TicketRow ==
  ASSUME tk \in [Tickets -> TkRec], NEW t \in Tickets,
         NEW st \in {"admitted", "refused", "fresh", "spent"},
         tk' = [tk EXCEPT ![t].st = st]
  PROVE  /\ tk' \in [Tickets -> TkRec]
         /\ tk'[t] = [st |-> st, sess |-> tk[t].sess, host |-> tk[t].host]
         /\ \A q \in Tickets : q # t => tk'[q] = tk[q]
<1> DEFINE r == [tk[t] EXCEPT !.st = st]
<1>1. r \in TkRec /\ r = [st |-> st, sess |-> tk[t].sess, host |-> tk[t].host]
  BY DEF TkRec
<1>2. tk' = [tk EXCEPT ![t] = r]
  OBVIOUS
<1> HIDE DEF r
<1>3. QED
  BY <1>1, <1>2

LEMMA CookieRow ==
  ASSUME ck \in [Cookies -> CkRec], NEW k \in Cookies,
         NEW st \in {"failed", "live", "dead"},
         ck' = [ck EXCEPT ![k].st = st]
  PROVE  /\ ck' \in [Cookies -> CkRec]
         /\ ck'[k] = [st |-> st, ticket |-> ck[k].ticket, host |-> ck[k].host]
         /\ \A l \in Cookies : l # k => ck'[l] = ck[l]
<1> DEFINE r == [ck[k] EXCEPT !.st = st]
<1>1. r \in CkRec /\ r = [st |-> st, ticket |-> ck[k].ticket, host |-> ck[k].host]
  BY DEF CkRec
<1>2. ck' = [ck EXCEPT ![k] = r]
  OBVIOUS
<1> HIDE DEF r
<1>3. QED
  BY <1>1, <1>2

(* A run of forwardAuthorize moves its ticket on. *)
AuthorizeStep(t) ==
  \/ \E s \in Sessions, h \in Hosts : AuthorizeSession(t, s, h)
  \/ AuthorizeAdmit(t) \/ PutForwardTicket(t) \/ TicketExpires(t)

TicketMove(t) ==
  \/ /\ tk[t].st = "none" /\ tk'[t].st = "session"
     /\ tk'[t].sess \in Sessions /\ tk'[t].host \in Hosts
  \/ /\ tk'[t].sess = tk[t].sess /\ tk'[t].host = tk[t].host
     /\ \/ tk[t].st = "session" /\ tk'[t].st = "refused"
        \/ /\ tk[t].st = "session" /\ tk'[t].st = "admitted"
           /\ Admitted(tk[t].host, TicketUser(t))
        \/ tk[t].st = "admitted" /\ tk'[t].st = "fresh"
        \/ tk[t].st = "fresh" /\ tk'[t].st = "spent"

LEMMA AuthorizeMoves ==
  ASSUME TypeOK, NEW t \in Tickets, AuthorizeStep(t)
  PROVE  /\ UNCHANGED <<email, policy, allowed, owner, sess, ck, vr, tx, late>>
         /\ tk' \in [Tickets -> TkRec]
         /\ \A q \in Tickets : q # t => tk'[q] = tk[q]
         /\ TicketMove(t)
<1> USE DEF rules, sso
<1>1. tk \in [Tickets -> TkRec]
  BY DEF TypeOK
<1>2. ASSUME NEW s \in Sessions, NEW h \in Hosts, AuthorizeSession(t, s, h)
      PROVE  tk' \in [Tickets -> TkRec] /\ TicketMove(t) /\ \A q \in Tickets : q # t => tk'[q] = tk[q]
  BY <1>1, <1>2 DEF AuthorizeSession, TicketMove, TkRec
<1>3. ASSUME AuthorizeAdmit(t) \/ PutForwardTicket(t) \/ TicketExpires(t)
      PROVE  tk' \in [Tickets -> TkRec] /\ TicketMove(t) /\ \A q \in Tickets : q # t => tk'[q] = tk[q]
  <2>1. PICK st \in {"admitted", "refused", "fresh", "spent"} :
          /\ tk' = [tk EXCEPT ![t].st = st]
          /\ \/ tk[t].st = "session" /\ st = "refused"
             \/ /\ tk[t].st = "session" /\ st = "admitted"
                /\ Admitted(tk[t].host, TicketUser(t))
             \/ tk[t].st = "admitted" /\ st = "fresh"
             \/ tk[t].st = "fresh" /\ st = "spent"
    <3>1. CASE AuthorizeAdmit(t)
      BY <3>1 DEF AuthorizeAdmit
    <3>2. CASE PutForwardTicket(t) \/ TicketExpires(t)
      BY <3>2 DEF PutForwardTicket, TicketExpires
    <3>3. QED
      BY <1>3, <3>1, <3>2
  <2>2. /\ tk' \in [Tickets -> TkRec]
        /\ tk'[t] = [st |-> st, sess |-> tk[t].sess, host |-> tk[t].host]
        /\ \A q \in Tickets : q # t => tk'[q] = tk[q]
    BY <1>1, <2>1, TicketRow
  <2>3. QED
    BY <2>1, <2>2 DEF TicketMove
<1>4. UNCHANGED <<email, policy, allowed, owner, sess, ck, vr, tx, late>>
  BY DEF AuthorizeStep, AuthorizeSession, AuthorizeAdmit, PutForwardTicket, TicketExpires
<1>5. QED
  BY <1>2, <1>3, <1>4 DEF AuthorizeStep

(* A cookie is set, lost on the way or revoked. *)
CookieStep(k) == PutForwardSession(k) \/ CallbackFails(k) \/ RevokeForwardSession(k)

LEMMA CookieMoves ==
  ASSUME TypeOK, NEW k \in Cookies, CookieStep(k)
  PROVE  /\ UNCHANGED <<email, policy, allowed, owner, sess, tk, vr, tx, late>>
         /\ ck' \in [Cookies -> CkRec]
         /\ \A l \in Cookies : l # k => ck'[l] = ck[l]
         /\ ck'[k].ticket = ck[k].ticket /\ ck'[k].host = ck[k].host
         /\ \/ ck[k].st = "redeemed" /\ ck'[k].st \in {"live", "failed"}
            \/ ck[k].st = "live" /\ ck'[k].st = "dead"
<1> USE DEF rules, sso
<1>1. ck \in [Cookies -> CkRec]
  BY DEF TypeOK
<1>2. PICK st \in {"live", "failed", "dead"} :
        /\ ck' = [ck EXCEPT ![k].st = st]
        /\ \/ ck[k].st = "redeemed" /\ st \in {"live", "failed"}
           \/ ck[k].st = "live" /\ st = "dead"
  <2>1. CASE PutForwardSession(k) \/ CallbackFails(k)
    BY <2>1 DEF PutForwardSession, CallbackFails
  <2>2. CASE RevokeForwardSession(k)
    BY <1>1, <2>2 DEF RevokeForwardSession, Dead
  <2>3. QED
    BY <2>1, <2>2 DEF CookieStep
<1>3. ck' \in [Cookies -> CkRec]
      /\ ck'[k] = [st |-> st, ticket |-> ck[k].ticket, host |-> ck[k].host]
  BY <1>1, <1>2, CookieRow
<1>4. \A l \in Cookies : l # k => ck'[l] = ck[l]
  BY <1>1, <1>2
<1>5. UNCHANGED <<email, policy, allowed, owner, sess, tk, vr, tx, late>>
  BY DEF CookieStep, PutForwardSession, CallbackFails, RevokeForwardSession
<1>6. QED
  BY <1>2, <1>3, <1>4, <1>5

LEMMA ConsumeMoves ==
  ASSUME TypeOK, NEW k \in Cookies, NEW t \in Tickets, NEW h \in Hosts,
         ConsumeForwardTicket(k, t, h)
  PROVE  /\ UNCHANGED <<email, policy, allowed, owner, sess, vr, tx, late>>
         /\ tk' \in [Tickets -> TkRec] /\ ck' \in [Cookies -> CkRec]
         /\ \A q \in Tickets : q # t => tk'[q] = tk[q]
         /\ tk[t].st = "fresh" /\ tk'[t].st = "spent" /\ tk[t].host = h
         /\ tk'[t].sess = tk[t].sess /\ tk'[t].host = h
         /\ \A l \in Cookies : l # k => ck'[l] = ck[l]
         /\ ck[k].st = "none" /\ ck'[k] = [st |-> "redeemed", ticket |-> t, host |-> h]
<1>1. tk \in [Tickets -> TkRec] /\ ck \in [Cookies -> CkRec]
  BY DEF TypeOK
<1>2. /\ tk[t].st = "fresh" /\ tk[t].host = h /\ ck[k].st = "none"
      /\ tk' = [tk EXCEPT ![t].st = "spent"]
      /\ ck' = [ck EXCEPT ![k] = [st |-> "redeemed", ticket |-> t, host |-> h]]
      /\ UNCHANGED <<email, policy, allowed, owner, sess, vr, tx, late>>
  BY DEF ConsumeForwardTicket, rules, sso
<1>3. tk' \in [Tickets -> TkRec]
      /\ tk'[t] = [st |-> "spent", sess |-> tk[t].sess, host |-> tk[t].host]
  BY <1>1, <1>2, TicketRow
<1>4. ck' \in [Cookies -> CkRec]
  BY <1>1, <1>2 DEF CkRec
<1>5. QED
  BY <1>1, <1>2, <1>3, <1>4

(* A request to the verifier arrives, is found good, or is done. *)
VerifyStep(v) ==
  \/ \E k \in Cookies, h \in Hosts : VerifyArrives(v, k, h)
  \/ VerifySession(v) \/ Pass(v) \/ Refuse(v)

LEMMA VerifyMoves ==
  ASSUME TypeOK, NEW v \in Requests, VerifyStep(v)
  PROVE  /\ UNCHANGED <<email, policy, allowed, owner, sess, tk, ck, tx, late>>
         /\ vr' \in [Requests -> VrRec]
         /\ \A w \in Requests : w # v => vr'[w] = vr[w]
         /\ \/ vr'[v].pc = "idle"
            \/ /\ vr'[v].pc = "arrived" /\ vr'[v].cookie \in Cookies /\ vr'[v].host \in Hosts
               /\ ck[vr'[v].cookie].st \in {"live", "dead"}
               /\ vr'[v].valid = CookieGood(vr'[v].cookie)
            \/ /\ vr[v].pc = "arrived" /\ vr'[v].pc = "session"
               /\ vr'[v].cookie = vr[v].cookie /\ vr'[v].host = vr[v].host
               /\ vr'[v].valid = vr[v].valid
               /\ CookieGood(vr[v].cookie) /\ ck[vr[v].cookie].host = vr[v].host
<1> USE DEF rules, sso
<1>1. vr \in [Requests -> VrRec] /\ vr[v] \in VrRec /\ Idle \in VrRec
  BY DEF TypeOK, Idle, VrRec
<1>2. UNCHANGED <<email, policy, allowed, owner, sess, tk, ck, tx, late>>
  BY DEF VerifyStep, VerifyArrives, VerifySession, Pass, Refuse
<1>3. CASE \E k \in Cookies, h \in Hosts : VerifyArrives(v, k, h)
  <2>1. PICK k \in Cookies, h \in Hosts : VerifyArrives(v, k, h)
    BY <1>3
  <2> DEFINE r == [pc |-> "arrived", cookie |-> k, host |-> h, valid |-> CookieGood(k)]
  <2>2. CookieGood(k) \in BOOLEAN
    BY DEF CookieGood
  <2>3. r \in VrRec /\ vr' = [vr EXCEPT ![v] = r]
    BY <2>1, <2>2 DEF VerifyArrives, VrRec
  <2>4. QED
    BY <1>1, <1>2, <2>1, <2>3 DEF VerifyArrives
<1>4. CASE VerifySession(v) /\ vr' # [vr EXCEPT ![v] = Idle]
  <2> DEFINE r == [vr[v] EXCEPT !.pc = "session"]
  <2>1. r \in VrRec /\ r = [pc |-> "session", cookie |-> vr[v].cookie, host |-> vr[v].host,
                            valid |-> vr[v].valid]
    BY <1>1 DEF VrRec
  <2>2. /\ vr[v].pc = "arrived" /\ vr' = [vr EXCEPT ![v] = r]
        /\ CookieGood(vr[v].cookie) /\ ck[vr[v].cookie].host = vr[v].host
    BY <1>1, <1>4 DEF VerifySession
  <2> HIDE DEF r
  <2>3. QED
    BY <1>1, <1>2, <2>1, <2>2
<1>5. CASE vr' = [vr EXCEPT ![v] = Idle]
  BY <1>1, <1>2, <1>5 DEF Idle
<1>6. QED
  BY <1>3, <1>4, <1>5 DEF VerifyStep, Pass, Refuse

(* A transaction begins, runs its UPDATE or is rolled back. *)
TxStep(x) ==
  \/ \E h \in Hosts, e \in Emails : BeginDeny(x, h, e)
  \/ \E h \in Hosts, p \in Policies : BeginPolicy(x, h, p)
  \/ TxRevoke(x) \/ Rollback(x)

LEMMA TxMoves ==
  ASSUME TypeOK, NEW x \in Txs, TxStep(x)
  PROVE  /\ UNCHANGED <<email, policy, allowed, owner, sess, tk, ck, vr, late>>
         /\ tx' \in [Txs -> TxRec]
         /\ \A y \in Txs : y # x => tx'[y] = tx[y]
         /\ tx'[x].stage # "idle" => tx'[x].host # None /\ tx'[x].op # "none"
         /\ \/ tx'[x].stage # "revoked" /\ tx'[x].cookies = {}
            \/ TxRevoke(x)
<1> USE DEF rules, sso
<1>1. tx \in [Txs -> TxRec] /\ tx[x] \in TxRec /\ NoTx \in TxRec
      /\ (tx[x].stage # "idle" => tx[x].host # None /\ tx[x].op # "none")
  BY DEF TypeOK, NoTx, TxRec, Policies
<1>2. UNCHANGED <<email, policy, allowed, owner, sess, tk, ck, vr, late>>
  BY DEF TxStep, BeginDeny, BeginPolicy, Begin, TxRevoke, Rollback
<1>3. ASSUME NEW h \in Hosts, NEW e \in Emails, BeginDeny(x, h, e)
      PROVE  \E t \in TxRec : /\ tx' = [tx EXCEPT ![x] = t] /\ t.stage = "begun"
                              /\ t.cookies = {} /\ t.host # None /\ t.op # "none"
  <2> DEFINE t == [NoTx EXCEPT !.op = "deny", !.stage = "begun", !.host = h,
                              !.email = IF e \in allowed[h] THEN e ELSE None]
  <2>1. t \in TxRec /\ t.stage = "begun" /\ t.cookies = {} /\ t.host = h /\ t.op = "deny"
    BY DEF NoTx, TxRec, Policies
  <2>2. tx' = [tx EXCEPT ![x] = t]
    BY <1>3 DEF BeginDeny, Begin
  <2> HIDE DEF t
  <2>3. QED
    BY <2>1, <2>2, ForwardAssumption
<1>4. ASSUME NEW h \in Hosts, NEW p \in Policies, BeginPolicy(x, h, p)
      PROVE  \E t \in TxRec : /\ tx' = [tx EXCEPT ![x] = t] /\ t.stage = "begun"
                              /\ t.cookies = {} /\ t.host # None /\ t.op # "none"
  <2> DEFINE t == [NoTx EXCEPT !.op = "policy", !.stage = "begun", !.host = h, !.policy = p]
  <2>1. t \in TxRec /\ t.stage = "begun" /\ t.cookies = {} /\ t.host = h /\ t.op = "policy"
    BY DEF NoTx, TxRec, Policies
  <2>2. tx' = [tx EXCEPT ![x] = t]
    BY <1>4 DEF BeginPolicy, Begin
  <2> HIDE DEF t
  <2>3. QED
    BY <2>1, <2>2, ForwardAssumption
<1>5. CASE \E t \in TxRec : /\ tx' = [tx EXCEPT ![x] = t] /\ t.stage = "begun"
                            /\ t.cookies = {} /\ t.host # None /\ t.op # "none"
  BY <1>1, <1>2, <1>5
<1>6. CASE TxRevoke(x)
  <2> DEFINE t == [tx[x] EXCEPT !.stage = "revoked", !.cookies = Hits(tx[x]),
                               !.seen = {ck[k].ticket : k \in LiveAt(tx[x].host)}]
  <2>1. Hits(tx[x]) \subseteq Cookies
    BY DEF Hits, LiveAt
  <2>2. {ck[k].ticket : k \in LiveAt(tx[x].host)} \subseteq Tickets
    BY DEF LiveAt, TypeOK, CkRec
  <2>3. t \in TxRec /\ t.host = tx[x].host /\ t.op = tx[x].op
    BY <1>1, <2>1, <2>2 DEF TxRec
  <2>4. tx' = [tx EXCEPT ![x] = t] /\ tx[x].stage = "begun"
    BY <1>6 DEF TxRevoke
  <2> HIDE DEF t
  <2>5. QED
    BY <1>1, <1>2, <1>6, <2>3, <2>4
<1>7. CASE Rollback(x)
  <2>1. tx' = [tx EXCEPT ![x] = NoTx]
    BY <1>7 DEF Rollback
  <2>2. NoTx.stage = "idle" /\ NoTx.cookies = {}
    BY DEF NoTx
  <2>3. QED
    BY <1>1, <1>2, <2>1, <2>2
<1>8. QED
  BY <1>3, <1>4, <1>5, <1>6, <1>7 DEF TxStep

(* A transaction marked stale is one all the same. *)
LEMMA StaleTypes ==
  ASSUME NEW t \in TxRec
  PROVE  /\ Stale(t) \in TxRec
         /\ Stale(t).stage = t.stage /\ Stale(t).op = t.op /\ Stale(t).host = t.host
         /\ Stale(t).cookies = t.cookies
         /\ t.stage = "revoked" => Stale(t).stale
<1>1. [t EXCEPT !.stale = TRUE] \in TxRec
  BY DEF TxRec
<1>2. QED
  BY <1>1 DEF Stale, TxRec

LEMMA CommitMoves ==
  ASSUME TypeOK, ListsCookies, NEW x \in Txs, Commit(x)
  PROVE  /\ UNCHANGED <<email, owner, sess, tk, vr>>
         /\ policy' \in [Hosts -> Policies] /\ allowed' \in [Hosts -> SUBSET Emails]
         /\ ck' \in [Cookies -> CkRec] /\ tx' \in [Txs -> TxRec] /\ late' \subseteq Tickets
         /\ \A k \in Cookies : /\ ck'[k].ticket = ck[k].ticket /\ ck'[k].host = ck[k].host
                               /\ k \in tx[x].cookies => ck'[k].st = "dead"
                               /\ k \notin tx[x].cookies => ck'[k].st = ck[k].st
         /\ \A k \in tx[x].cookies : k \in Cookies /\ ck[k].st \in {"live", "dead"}
         /\ tx'[x].stage = "idle" /\ tx'[x].cookies = {}
         /\ \A y \in Txs : y # x => /\ tx'[y].stage = tx[y].stage /\ tx'[y].op = tx[y].op
                                    /\ tx'[y].host = tx[y].host
                                    /\ tx'[y].cookies = tx[y].cookies
<1> USE DEF rules, sso
<1>1. /\ tx \in [Txs -> TxRec] /\ tx[x] \in TxRec /\ ck \in [Cookies -> CkRec]
      /\ tk \in [Tickets -> TkRec] /\ late \subseteq Tickets /\ NoTx \in TxRec
      /\ tx[x].host \in Hosts
      /\ policy \in [Hosts -> Policies] /\ allowed \in [Hosts -> SUBSET Emails]
  BY ForwardAssumption DEF Commit, TypeOK, NoTx, TxRec, Policies
<1>2. policy' \in [Hosts -> Policies] /\ allowed' \in [Hosts -> SUBSET Emails]
  <2>1. tx[x].policy \in Policies /\ allowed[tx[x].host] \ {tx[x].email} \subseteq Emails
    BY <1>1 DEF TxRec
  <2>2. QED
    BY <1>1, <2>1 DEF Commit
<1>3. ck' = [k \in Cookies |-> IF k \in tx[x].cookies THEN [ck[k] EXCEPT !.st = "dead"] ELSE ck[k]]
  BY DEF Commit, Dead
<1>4. \A k \in Cookies : /\ [ck[k] EXCEPT !.st = "dead"] \in CkRec
                         /\ [ck[k] EXCEPT !.st = "dead"] =
                              [st |-> "dead", ticket |-> ck[k].ticket, host |-> ck[k].host]
  BY <1>1 DEF CkRec
<1>5. /\ ck' \in [Cookies -> CkRec]
      /\ \A k \in Cookies : /\ ck'[k].ticket = ck[k].ticket /\ ck'[k].host = ck[k].host
                            /\ k \in tx[x].cookies => ck'[k].st = "dead"
                            /\ k \notin tx[x].cookies => ck'[k].st = ck[k].st
  BY <1>1, <1>3, <1>4
<1>6. /\ tx' = [y \in Txs |-> IF y = x THEN NoTx
                             ELSE IF tx[y].host = tx[x].host THEN Stale(tx[y]) ELSE tx[y]]
      /\ UNCHANGED <<email, owner, sess, tk, vr>>
  BY DEF Commit
<1>7. /\ tx' \in [Txs -> TxRec]
      /\ \A y \in Txs : y # x => /\ tx'[y].stage = tx[y].stage /\ tx'[y].op = tx[y].op
                                 /\ tx'[y].host = tx[y].host
                                 /\ tx'[y].cookies = tx[y].cookies
  BY <1>1, <1>6, StaleTypes
<1>8. tx'[x].stage = "idle" /\ tx'[x].cookies = {}
  BY <1>6 DEF NoTx
<1>9. late' \subseteq Tickets
  BY <1>1 DEF Commit, Checked
<1>10. \A k \in tx[x].cookies : k \in Cookies /\ ck[k].st \in {"live", "dead"}
  BY <1>1 DEF ListsCookies, TxRec
<1>11. QED
  BY <1>2, <1>5, <1>6, <1>7, <1>8, <1>9, <1>10

(* An address is listed, or a user's changes. *)
AddressStep ==
  \/ \E h \in Hosts, e \in Emails : AllowEmail(h, e)
  \/ \E u \in Users, e \in Emails \cup {None} : ChangeEmail(u, e)

LEMMA AddressMoves ==
  ASSUME TypeOK, AddressStep
  PROVE  /\ UNCHANGED <<policy, owner, sess, tk, ck, vr>>
         /\ email' \in [Users -> Emails \cup {None}] /\ allowed' \in [Hosts -> SUBSET Emails]
         /\ tx' \in [Txs -> TxRec] /\ late' \subseteq Tickets
         /\ \A y \in Txs : /\ tx'[y].stage = tx[y].stage /\ tx'[y].op = tx[y].op
                           /\ tx'[y].host = tx[y].host /\ tx'[y].cookies = tx[y].cookies
<1> USE DEF rules, sso
<1>1. CASE \E h \in Hosts, e \in Emails : AllowEmail(h, e)
  BY <1>1 DEF AllowEmail, TypeOK
<1>2. CASE \E u \in Users, e \in Emails \cup {None} : ChangeEmail(u, e)
  BY <1>2, StaleTypes DEF ChangeEmail, TypeOK
<1>3. QED
  BY <1>1, <1>2 DEF AddressStep

-----------------------------------------------------------------------------
(* Inv is inductive.                                                       *)

(* No step but its own makes a request better than it was, as long as no   *)
(* cookie gets good again.                                                 *)
LEMMA VerifiedKept ==
  ASSUME Inv, vr' = vr,
         \A k \in Cookies : ck[k].st \in {"live", "dead"} =>
           /\ ck'[k].st = ck[k].st \/ ck'[k].st = "dead"
           /\ ck'[k].ticket = ck[k].ticket /\ ck'[k].host = ck[k].host
           /\ tk'[ck[k].ticket].sess = tk[ck[k].ticket].sess,
         \A s \in Sessions : sess'[s] = "live" => sess[s] = "live"
  PROVE  Verified'
<1>1. SUFFICES ASSUME NEW v \in Requests, vr[v].pc # "idle"
               PROVE  /\ ck'[vr[v].cookie].st \in {"live", "dead"}
                      /\ CookieGood(vr[v].cookie)' => vr[v].valid
                      /\ vr[v].pc = "session" =>
                           vr[v].valid /\ ck'[vr[v].cookie].host = vr[v].host
  BY DEF Verified, CookieGood
<1>2. vr[v].cookie \in Cookies
  BY <1>1 DEF Inv, TypeOK, VrRec
<1>3. /\ ck[vr[v].cookie].st \in {"live", "dead"}
      /\ CookieGood(vr[v].cookie) => vr[v].valid
      /\ vr[v].pc = "session" => vr[v].valid /\ ck[vr[v].cookie].host = vr[v].host
  BY <1>1 DEF Inv, Verified
<1>4. tk[ck[vr[v].cookie].ticket].sess \in Sessions
  BY <1>2, <1>3 DEF Inv, TypeOK, CkRec, TkRec
<1>5. CookieGood(vr[v].cookie)' => CookieGood(vr[v].cookie)
  BY <1>2, <1>3, <1>4 DEF CookieGood
<1>6. QED
  BY <1>2, <1>3, <1>5
LEMMA AuthorizeKeeps ==
  ASSUME Inv, NEW t \in Tickets, AuthorizeStep(t)
  PROVE  Inv'
<1>1. /\ UNCHANGED <<email, policy, allowed, owner, sess, ck, vr, tx, late>>
      /\ tk' \in [Tickets -> TkRec]
      /\ \A q \in Tickets : q # t => tk'[q] = tk[q]
      /\ TicketMove(t)
  BY AuthorizeMoves DEF Inv
<1>2. tk'[t].st # "none" /\ tk'[t].sess # None /\ tk'[t].host # None
  BY <1>1, ForwardAssumption DEF TicketMove, Inv, TypeOK
<1>3. \A k \in Cookies : ck[k].st # "none" => ck[k].ticket \in Tickets /\ ck[k].ticket # t
  BY <1>1 DEF TicketMove, Inv, TypeOK, CkRec
<1>4. TypeOK'
  BY <1>1, <1>2, <1>3 DEF Inv, TypeOK
<1>5. OwnTicket' /\ ListsCookies'
  BY <1>1, <1>3 DEF Inv, OwnTicket, ListsCookies
<1>6. Verified'
  BY <1>1, <1>3, VerifiedKept
<1>7. QED
  BY <1>4, <1>5, <1>6 DEF Inv

LEMMA CookieKeeps ==
  ASSUME Inv, NEW k \in Cookies, CookieStep(k)
  PROVE  Inv'
<1>1. /\ UNCHANGED <<email, policy, allowed, owner, sess, tk, vr, tx, late>>
      /\ ck' \in [Cookies -> CkRec]
      /\ \A l \in Cookies : l # k => ck'[l] = ck[l]
      /\ ck'[k].ticket = ck[k].ticket /\ ck'[k].host = ck[k].host
      /\ \/ ck[k].st = "redeemed" /\ ck'[k].st \in {"live", "failed"}
         \/ ck[k].st = "live" /\ ck'[k].st = "dead"
  BY CookieMoves DEF Inv
<1>2. \A v \in Requests : vr[v].pc # "idle" => vr[v].cookie \in Cookies
  BY DEF Inv, TypeOK, VrRec
<1>3. \A x \in Txs : tx[x].cookies \subseteq Cookies
  BY DEF Inv, TypeOK, TxRec
<1>4. TypeOK'
  BY <1>1, <1>2 DEF Inv, TypeOK
<1>5. OwnTicket'
  BY <1>1 DEF Inv, OwnTicket
<1>6. ListsCookies'
  BY <1>1, <1>3 DEF Inv, ListsCookies
<1>7. Verified'
  BY <1>1, VerifiedKept
<1>8. QED
  BY <1>4, <1>5, <1>6, <1>7 DEF Inv

LEMMA ConsumeKeeps ==
  ASSUME Inv, NEW k \in Cookies, NEW t \in Tickets, NEW h \in Hosts,
         ConsumeForwardTicket(k, t, h)
  PROVE  Inv'
<1>1. /\ UNCHANGED <<email, policy, allowed, owner, sess, vr, tx, late>>
      /\ tk' \in [Tickets -> TkRec] /\ ck' \in [Cookies -> CkRec]
      /\ \A q \in Tickets : q # t => tk'[q] = tk[q]
      /\ tk[t].st = "fresh" /\ tk'[t].st = "spent" /\ tk[t].host = h
      /\ tk'[t].sess = tk[t].sess /\ tk'[t].host = h
      /\ \A l \in Cookies : l # k => ck'[l] = ck[l]
      /\ ck[k].st = "none" /\ ck'[k] = [st |-> "redeemed", ticket |-> t, host |-> h]
  BY ConsumeMoves DEF Inv
<1>2. \A l \in Cookies : ck[l].st # "none" => ck[l].ticket \in Tickets /\ ck[l].ticket # t
  BY <1>1 DEF Inv, TypeOK, CkRec
<1>3. \A v \in Requests : vr[v].pc # "idle" => vr[v].cookie \in Cookies /\ vr[v].cookie # k
  BY <1>1 DEF Inv, TypeOK, VrRec
<1>4. \A x \in Txs : tx[x].cookies \subseteq Cookies \ {k}
  BY <1>1 DEF Inv, TypeOK, TxRec, ListsCookies
<1>5. TypeOK'
  <2>1. \A q \in Tickets : tk'[q].st # "none" => tk'[q].sess # None /\ tk'[q].host # None
    BY <1>1 DEF Inv, TypeOK
  <2>2. \A l \in Cookies : ck'[l].st # "none" =>
          ck'[l].ticket # None /\ ck'[l].host # None /\ tk'[ck'[l].ticket].st = "spent"
    BY <1>1, <1>2, ForwardAssumption DEF Inv, TypeOK
  <2>3. \A v \in Requests : vr[v].pc # "idle" =>
          vr[v].cookie # None /\ vr[v].host # None /\ ck'[vr[v].cookie].st # "none"
    BY <1>1, <1>3 DEF Inv, TypeOK
  <2>4. QED
    BY <1>1, <2>1, <2>2, <2>3 DEF Inv, TypeOK
<1>6. OwnTicket'
  BY <1>1, <1>2 DEF Inv, OwnTicket
<1>7. ListsCookies'
  BY <1>1, <1>4 DEF Inv, ListsCookies
<1>8. Verified'
  BY <1>1, <1>2, VerifiedKept
<1>9. QED
  BY <1>5, <1>6, <1>7, <1>8 DEF Inv

LEMMA VerifyKeeps ==
  ASSUME Inv, NEW v \in Requests, VerifyStep(v)
  PROVE  Inv'
<1>1. /\ UNCHANGED <<email, policy, allowed, owner, sess, tk, ck, tx, late>>
      /\ vr' \in [Requests -> VrRec]
      /\ \A w \in Requests : w # v => vr'[w] = vr[w]
      /\ \/ vr'[v].pc = "idle"
         \/ /\ vr'[v].pc = "arrived" /\ vr'[v].cookie \in Cookies /\ vr'[v].host \in Hosts
            /\ ck[vr'[v].cookie].st \in {"live", "dead"}
            /\ vr'[v].valid = CookieGood(vr'[v].cookie)
         \/ /\ vr[v].pc = "arrived" /\ vr'[v].pc = "session"
            /\ vr'[v].cookie = vr[v].cookie /\ vr'[v].host = vr[v].host
            /\ vr'[v].valid = vr[v].valid
            /\ CookieGood(vr[v].cookie) /\ ck[vr[v].cookie].host = vr[v].host
  BY VerifyMoves DEF Inv
<1>2. TypeOK'
  BY <1>1, ForwardAssumption DEF Inv, TypeOK
<1>3. OwnTicket' /\ ListsCookies'
  BY <1>1 DEF Inv, OwnTicket, ListsCookies
<1>4. Verified'
  <2>1. SUFFICES ASSUME NEW w \in Requests, vr'[w].pc # "idle"
                 PROVE  /\ ck[vr'[w].cookie].st \in {"live", "dead"}
                        /\ CookieGood(vr'[w].cookie) => vr'[w].valid
                        /\ vr'[w].pc = "session" =>
                             vr'[w].valid /\ ck[vr'[w].cookie].host = vr'[w].host
    BY <1>1 DEF Verified, CookieGood
  <2>2. CASE w # v
    BY <1>1, <2>1, <2>2 DEF Inv, Verified
  <2>3. CASE w = v
    BY <1>1, <2>1, <2>3 DEF Inv, Verified
  <2>4. QED
    BY <2>2, <2>3
<1>5. QED
  BY <1>2, <1>3, <1>4 DEF Inv

(* An SSO session that ends makes no cookie good. *)
LEMMA SsoKeeps ==
  ASSUME Inv, NEW s \in Sessions, SsoEnds(s)
  PROVE  Inv'
<1>1. UNCHANGED <<email, policy, allowed, owner, tk, ck, vr, tx, late>>
  BY DEF SsoEnds, rules
<1>2. sess' \in [Sessions -> {"live", "ended"}] /\ \A r \in Sessions : sess'[r] = "live" => sess[r] = "live"
  BY DEF SsoEnds, Inv, TypeOK
<1>3. \A v \in Requests : vr[v].pc # "idle" /\ ck[vr[v].cookie].st # "none" =>
        tk[ck[vr[v].cookie].ticket].sess \in Sessions
  BY DEF Inv, TypeOK, VrRec, CkRec, TkRec
<1>4. QED
  BY <1>1, <1>2, <1>3 DEF Inv, TypeOK, OwnTicket, ListsCookies, Verified, CookieGood

LEMMA TxKeeps ==
  ASSUME Inv, NEW x \in Txs, TxStep(x)
  PROVE  Inv'
<1>1. /\ UNCHANGED <<email, policy, allowed, owner, sess, tk, ck, vr, late>>
      /\ tx' \in [Txs -> TxRec]
      /\ \A y \in Txs : y # x => tx'[y] = tx[y]
      /\ tx'[x].stage # "idle" => tx'[x].host # None /\ tx'[x].op # "none"
      /\ (tx'[x].stage # "revoked" /\ tx'[x].cookies = {}) \/ TxRevoke(x)
  BY TxMoves DEF Inv
<1>2. \A k \in tx'[x].cookies : ck[k].st = "live"
  <2>1. CASE TxRevoke(x)
    <3>1. tx'[x].cookies = Hits(tx[x])
      BY <2>1 DEF TxRevoke, Inv, TypeOK, TxRec
    <3>2. QED
      BY <3>1 DEF Hits, LiveAt
  <2>2. QED
    BY <1>1, <2>1
<1>3. TypeOK'
  BY <1>1 DEF Inv, TypeOK
<1>4. OwnTicket' /\ ListsCookies'
  BY <1>1, <1>2 DEF Inv, OwnTicket, ListsCookies
<1>5. Verified'
  BY <1>1, VerifiedKept
<1>6. QED
  BY <1>3, <1>4, <1>5 DEF Inv

LEMMA CommitKeeps ==
  ASSUME Inv, NEW x \in Txs, Commit(x)
  PROVE  Inv'
<1>1. /\ UNCHANGED <<email, owner, sess, tk, vr>>
      /\ policy' \in [Hosts -> Policies] /\ allowed' \in [Hosts -> SUBSET Emails]
      /\ ck' \in [Cookies -> CkRec] /\ tx' \in [Txs -> TxRec] /\ late' \subseteq Tickets
      /\ \A k \in Cookies : /\ ck'[k].ticket = ck[k].ticket /\ ck'[k].host = ck[k].host
                            /\ k \in tx[x].cookies => ck'[k].st = "dead"
                            /\ k \notin tx[x].cookies => ck'[k].st = ck[k].st
      /\ \A k \in tx[x].cookies : k \in Cookies /\ ck[k].st \in {"live", "dead"}
      /\ tx'[x].stage = "idle" /\ tx'[x].cookies = {}
      /\ \A y \in Txs : y # x => /\ tx'[y].stage = tx[y].stage /\ tx'[y].op = tx[y].op
                                 /\ tx'[y].host = tx[y].host
                                 /\ tx'[y].cookies = tx[y].cookies
  BY CommitMoves DEF Inv
<1>2. \A v \in Requests : vr[v].pc # "idle" => vr[v].cookie \in Cookies
  BY DEF Inv, TypeOK, VrRec
<1>3. \A y \in Txs : tx[y].cookies \subseteq Cookies
  BY DEF Inv, TypeOK, TxRec
<1>4. TypeOK'
  <2>1. \A k \in Cookies : ck'[k].st # "none" => ck[k].st # "none"
    BY <1>1
  <2>2. \A k \in Cookies : ck[k].st # "none" => ck'[k].st # "none"
    BY <1>1
  <2>3. \A y \in Txs : tx'[y].stage # "idle" => tx'[y].host # None /\ tx'[y].op # "none"
    BY <1>1 DEF Inv, TypeOK
  <2>4. QED
    BY <1>1, <1>2, <2>1, <2>2, <2>3 DEF Inv, TypeOK
<1>5. OwnTicket'
  BY <1>1 DEF Inv, OwnTicket
<1>6. Verified'
  BY <1>1, VerifiedKept
<1>7. ListsCookies'
  BY <1>1, <1>3 DEF Inv, ListsCookies
<1>8. QED
  BY <1>4, <1>5, <1>6, <1>7 DEF Inv

LEMMA AddressKeeps ==
  ASSUME Inv, AddressStep
  PROVE  Inv'
<1>1. /\ UNCHANGED <<policy, owner, sess, tk, ck, vr>>
      /\ email' \in [Users -> Emails \cup {None}] /\ allowed' \in [Hosts -> SUBSET Emails]
      /\ tx' \in [Txs -> TxRec] /\ late' \subseteq Tickets
      /\ \A y \in Txs : /\ tx'[y].stage = tx[y].stage /\ tx'[y].op = tx[y].op
                        /\ tx'[y].host = tx[y].host /\ tx'[y].cookies = tx[y].cookies
  BY AddressMoves DEF Inv
<1>2. TypeOK'
  BY <1>1 DEF Inv, TypeOK
<1>3. OwnTicket' /\ ListsCookies'
  BY <1>1 DEF Inv, OwnTicket, ListsCookies
<1>4. Verified'
  BY <1>1, VerifiedKept
<1>5. QED
  BY <1>2, <1>3, <1>4 DEF Inv

(* Every step of the specification is one of those above. *)
LEMMA Steps ==
  ASSUME Next
  PROVE  \/ \E t \in Tickets : AuthorizeStep(t)
         \/ \E k \in Cookies : CookieStep(k)
         \/ \E k \in Cookies, t \in Tickets, h \in Hosts : ConsumeForwardTicket(k, t, h)
         \/ \E s \in Sessions : SsoEnds(s)
         \/ \E v \in Requests : VerifyStep(v)
         \/ \E x \in Txs : TxStep(x) \/ Commit(x)
         \/ AddressStep
BY DEF Next, Browse, Verify, Administer, AuthorizeStep, CookieStep, VerifyStep, TxStep,
   AddressStep

LEMMA NextInv == Inv /\ [Next]_vars => Inv'
<1> SUFFICES ASSUME Inv, [Next]_vars PROVE Inv'
  OBVIOUS
<1>1. CASE Next
  BY <1>1, Steps, AuthorizeKeeps, CookieKeeps, ConsumeKeeps, SsoKeeps, VerifyKeeps, TxKeeps,
     CommitKeeps, AddressKeeps
<1>2. CASE UNCHANGED vars
  BY <1>2 DEF vars, Inv, TypeOK, OwnTicket, Verified, CookieGood, ListsCookies
<1>3. QED
  BY <1>1, <1>2

LEMMA InvHolds == Spec => []Inv
BY InitInv, NextInv, PTL DEF Spec

(* Every variable keeps its type, and what was filled in stays: a ticket   *)
(* has its session and host, a cookie the spent ticket it was bought with. *)
THEOREM TypeCorrect == Spec => []TypeOK
<1>1. Inv => TypeOK
  BY DEF Inv
<1>2. QED
  BY InvHolds, <1>1, PTL

(* forwardVerify lets a request pass only at the host the ticket behind    *)
(* its cookie was issued for.                                              *)
THEOREM PassAtOwnHost == Spec => PassNeedsOwnTicket
<1>1. Inv => \A v \in Requests : Pass(v) => tk[ck[vr[v].cookie].ticket].host = vr[v].host
  BY DEF Inv, TypeOK, VrRec, Verified, OwnTicket, Pass
<1>2. QED
  BY InvHolds, <1>1, PTL DEF Spec, PassNeedsOwnTicket

(* A request that passes came when its cookie was good, and the SSO        *)
(* session behind it live: what ends either before, ends access.           *)
THEOREM PassOnlySignedIn == Spec => SignedOutIsOut
<1>1. Inv => \A v \in Requests : Pass(v) => vr[v].valid
  BY DEF Inv, Verified, Pass
<1>2. QED
  BY InvHolds, <1>1, PTL DEF Spec, SignedOutIsOut

-----------------------------------------------------------------------------
(* Tickets and cookies implement OneTimeGrant.                             *)
CodeOf == [t \in Tickets |-> IF tk[t].st \in {"fresh", "spent"} THEN tk[t].st ELSE "none"]
HolderOf == [t \in Tickets |-> {k \in Cookies : ck[k].ticket = t}]
TokenOf == [k \in Cookies |-> IF ck[k].st \in {"live", "dead"} THEN ck[k].st ELSE "none"]

LEMMA Stutters ==
  ASSUME CodeOf' = CodeOf, HolderOf' = HolderOf, TokenOf' = TokenOf
  PROVE  [OTG!Next]_(OTG!vars)
BY DEF OTG!vars, CodeOf, HolderOf, TokenOf

LEMMA AuthorizeRefines ==
  ASSUME Inv, NEW t \in Tickets, AuthorizeStep(t)
  PROVE  [OTG!Next]_(OTG!vars)
<1>1. /\ ck' = ck
      /\ \A q \in Tickets : q # t => tk'[q] = tk[q]
      /\ TicketMove(t)
  BY AuthorizeMoves DEF Inv
<1>2. HolderOf' = HolderOf /\ TokenOf' = TokenOf
  BY <1>1 DEF HolderOf, TokenOf
<1>3. CASE tk'[t].st = "fresh"
  <2>1. CodeOf' = [CodeOf EXCEPT ![t] = "fresh"] /\ CodeOf[t] = "none"
    BY <1>1, <1>3 DEF TicketMove, CodeOf
  <2>2. OTG!Issue(t)
    BY <1>2, <2>1 DEF OTG!Issue, CodeOf, HolderOf, TokenOf
  <2>3. QED
    BY <2>2 DEF OTG!Next
<1>4. CASE tk'[t].st = "spent"
  <2>1. CodeOf' = [CodeOf EXCEPT ![t] = "spent"] /\ CodeOf[t] = "fresh"
    BY <1>1, <1>4 DEF TicketMove, CodeOf
  <2>2. OTG!Void(t)
    BY <1>2, <2>1 DEF OTG!Void, CodeOf, HolderOf, TokenOf
  <2>3. QED
    BY <2>2 DEF OTG!Next
<1>5. CASE tk'[t].st \notin {"fresh", "spent"}
  <2>1. CodeOf' = CodeOf
    BY <1>1, <1>5 DEF TicketMove, CodeOf
  <2>2. QED
    BY <1>2, <2>1, Stutters
<1>6. QED
  BY <1>3, <1>4, <1>5

LEMMA CookieRefines ==
  ASSUME Inv, NEW k \in Cookies, CookieStep(k)
  PROVE  [OTG!Next]_(OTG!vars)
<1>1. /\ tk' = tk
      /\ \A l \in Cookies : l # k => ck'[l] = ck[l]
      /\ ck'[k].ticket = ck[k].ticket /\ ck'[k].host = ck[k].host
      /\ \/ ck[k].st = "redeemed" /\ ck'[k].st \in {"live", "failed"}
         \/ ck[k].st = "live" /\ ck'[k].st = "dead"
  BY CookieMoves DEF Inv
<1>2. CodeOf' = CodeOf
  BY <1>1 DEF CodeOf
<1>3. HolderOf' = HolderOf
  <2>1. \A l \in Cookies : ck'[l].ticket = ck[l].ticket
    BY <1>1
  <2>2. QED
    BY <2>1 DEF HolderOf
<1>4. CASE ck'[k].st = "live"
  <2>1. TokenOf[k] = "none" /\ TokenOf' = [TokenOf EXCEPT ![k] = "live"]
    BY <1>1, <1>4 DEF TokenOf
  <2>2. \E t \in Tickets : k \in HolderOf[t]
    BY <1>1, <1>4 DEF HolderOf, Inv, TypeOK, CkRec
  <2>3. OTG!Mint(k)
    BY <1>2, <1>3, <2>1, <2>2 DEF OTG!Mint, CodeOf, HolderOf, TokenOf
  <2>4. QED
    BY <2>3 DEF OTG!Next
<1>5. CASE ck'[k].st = "failed"
  <2>1. TokenOf' = TokenOf
    BY <1>1, <1>5 DEF TokenOf
  <2>2. QED
    BY <1>2, <1>3, <2>1, Stutters
<1>6. CASE ck'[k].st = "dead"
  <2>1. TokenOf[k] = "live" /\ TokenOf' = [l \in Cookies |-> IF l \in {k} THEN "dead" ELSE TokenOf[l]]
    BY <1>1, <1>6 DEF TokenOf
  <2>2. OTG!Drop({k})
    BY <1>2, <1>3, <2>1 DEF OTG!Drop, CodeOf, HolderOf, TokenOf
  <2>3. QED
    BY <2>2 DEF OTG!Next
<1>7. QED
  BY <1>1, <1>4, <1>5, <1>6

LEMMA ConsumeRefines ==
  ASSUME Inv, NEW k \in Cookies, NEW t \in Tickets, NEW h \in Hosts,
         ConsumeForwardTicket(k, t, h)
  PROVE  [OTG!Next]_(OTG!vars)
<1>1. /\ \A q \in Tickets : q # t => tk'[q] = tk[q]
      /\ tk[t].st = "fresh" /\ tk'[t].st = "spent" /\ tk[t].host = h
      /\ \A l \in Cookies : l # k => ck'[l] = ck[l]
      /\ ck[k].st = "none" /\ ck'[k] = [st |-> "redeemed", ticket |-> t, host |-> h]
  BY ConsumeMoves DEF Inv
<1>2. \A l \in Cookies : ck[l].ticket # t /\ (l = k => ck[l].ticket = None)
  BY <1>1, ForwardAssumption DEF Inv, TypeOK, OwnTicket
<1>3. CodeOf[t] = "fresh" /\ CodeOf' = [CodeOf EXCEPT ![t] = "spent"]
  BY <1>1 DEF CodeOf
<1>4. TokenOf' = TokenOf
  BY <1>1 DEF TokenOf
<1>5. HolderOf[t] = {}
  BY <1>2 DEF HolderOf
<1>6. HolderOf' = [HolderOf EXCEPT ![t] = {k}]
  <2>1. {l \in Cookies : ck'[l].ticket = t} = {k}
    BY <1>1, <1>2
  <2>2. ASSUME NEW q \in Tickets \ {t}
        PROVE  {l \in Cookies : ck'[l].ticket = q} = {l \in Cookies : ck[l].ticket = q}
    BY <1>1, <1>2, ForwardAssumption
  <2>3. QED
    BY <2>1, <2>2 DEF HolderOf
<1>7. OTG!Redeem(t, k)
  BY <1>3, <1>4, <1>5, <1>6 DEF OTG!Redeem, CodeOf, HolderOf, TokenOf
<1>8. QED
  BY <1>7 DEF OTG!Next

(* A commit drops the cookies on its list that still live. *)
LEMMA CommitRefines ==
  ASSUME Inv, NEW x \in Txs, Commit(x)
  PROVE  [OTG!Next]_(OTG!vars)
<1>1. /\ tk' = tk
      /\ \A k \in Cookies : /\ ck'[k].ticket = ck[k].ticket
                            /\ k \in tx[x].cookies => ck'[k].st = "dead"
                            /\ k \notin tx[x].cookies => ck'[k].st = ck[k].st
      /\ \A k \in tx[x].cookies : k \in Cookies /\ ck[k].st \in {"live", "dead"}
  BY CommitMoves DEF Inv
<1>2. CodeOf' = CodeOf /\ HolderOf' = HolderOf
  BY <1>1 DEF CodeOf, HolderOf
<1>3. PICK H \in SUBSET Cookies : H = {k \in tx[x].cookies : ck[k].st = "live"}
  BY <1>1
<1>4. TokenOf' = [k \in Cookies |-> IF k \in H THEN "dead" ELSE TokenOf[k]]
  BY <1>1, <1>3 DEF TokenOf
<1>5. \A k \in H : TokenOf[k] = "live"
  BY <1>1, <1>3 DEF TokenOf
<1>6. OTG!Drop(H)
  BY <1>2, <1>4, <1>5 DEF OTG!Drop, CodeOf, HolderOf, TokenOf
<1>7. QED
  BY <1>6 DEF OTG!Next

LEMMA OthersRefine ==
  ASSUME Inv,
         \/ \E s \in Sessions : SsoEnds(s)
         \/ \E v \in Requests : VerifyStep(v)
         \/ \E x \in Txs : TxStep(x)
         \/ AddressStep
         \/ UNCHANGED vars
  PROVE  [OTG!Next]_(OTG!vars)
<1>1. UNCHANGED <<tk, ck>>
  BY VerifyMoves, TxMoves, AddressMoves DEF Inv, SsoEnds, vars
<1>2. QED
  BY <1>1, Stutters DEF CodeOf, HolderOf, TokenOf

(* However callbacks, sign-outs and revoking transactions interleave, a    *)
(* ticket buys one cookie, and a cookie once revoked stays so.             *)
THEOREM TicketsAreOneTime == Spec => ImplementsOneTimeGrant
<1>1. Init => OTG!Init
  BY ForwardAssumption DEF Init, OTG!Init, NoTicket, NoCookie
<1>2. Inv /\ [Next]_vars => [OTG!Next]_(OTG!vars)
  BY Steps, AuthorizeRefines, CookieRefines, ConsumeRefines, CommitRefines, OthersRefine
<1>3. QED
  BY <1>1, <1>2, InvHolds, PTL DEF Spec, ImplementsOneTimeGrant, OTG!Spec

-----------------------------------------------------------------------------
(* Which cookies may outlive a change of the access rules.                 *)

(* Tickets that can still become, or have become, a live cookie. *)
Pending == {t \in Tickets :
  \/ tk[t].st \in {"admitted", "fresh"}
  \/ \E k \in Cookies : ck[k].ticket = t /\ ck[k].st \in {"redeemed", "live"}}

PendingAdmitted == \A t \in Pending :
  t \notin late => Admitted(tk[t].host, TicketUser(t))

(* What an open transaction whose UPDATE has run, and that no other change *)
(* came in between of, knows of the cookies it looked at.                  *)
Vouches(x) == \A t \in tx[x].seen : \E k \in Cookies :
  /\ ck[k].ticket = t /\ ck[k].host = tx[x].host /\ ck[k].st \in {"live", "dead"}
  /\ ck[k].st = "live" => k \in tx[x].cookies \/ AdmittedIn(tx[x], CookieUser(k))

Coverage ==
  /\ PendingAdmitted
  /\ \A x \in Txs : tx[x].stage = "revoked" /\ ~tx[x].stale => Vouches(x)

(* The rules stay: no ticket is admitted but by the check, and cookies are *)
(* set and die.                                                            *)
LEMMA RulesKept ==
  ASSUME Inv, Inv', Coverage, UNCHANGED <<email, policy, allowed, owner, tx, late>>,
         \A t \in Tickets : tk[t].st \notin {"none", "session", "refused"} =>
           tk'[t].sess = tk[t].sess /\ tk'[t].host = tk[t].host,
         \A t \in Pending' : t \in Pending \/ Admitted(tk'[t].host, TicketUser(t)'),
         \A k \in Cookies : ck[k].st \in {"live", "dead"} =>
           /\ ck'[k].st \in {ck[k].st, "dead"}
           /\ ck'[k].ticket = ck[k].ticket /\ ck'[k].host = ck[k].host
  PROVE  Coverage'
<1>1. PendingAdmitted'
  <2>1. SUFFICES ASSUME NEW t \in Pending', t \notin late
                 PROVE  Admitted(tk[t].host, TicketUser(t))'
    BY DEF PendingAdmitted, Pending
  <2>2. CASE t \in Pending
    <3>1. t \in Tickets /\ tk[t].st \notin {"none", "session", "refused"}
      BY <2>2 DEF Pending, Inv, TypeOK
    <3>2. QED
      BY <2>1, <2>2, <3>1 DEF Coverage, PendingAdmitted, Admitted, TicketUser
  <2>3. CASE t \notin Pending
    BY <2>1, <2>3 DEF Admitted
  <2>4. QED
    BY <2>2, <2>3
<1>2. ASSUME NEW x \in Txs, tx[x].stage = "revoked", ~tx[x].stale
      PROVE  Vouches(x)'
  <2>1. SUFFICES ASSUME NEW t \in tx[x].seen
                 PROVE  \E k \in Cookies :
                   /\ ck'[k].ticket = t /\ ck'[k].host = tx[x].host
                   /\ ck'[k].st \in {"live", "dead"}
                   /\ ck'[k].st = "live" => k \in tx[x].cookies \/ AdmittedIn(tx[x], CookieUser(k))'
    BY DEF Vouches
  <2>2. PICK k \in Cookies :
          /\ ck[k].ticket = t /\ ck[k].host = tx[x].host /\ ck[k].st \in {"live", "dead"}
          /\ ck[k].st = "live" => k \in tx[x].cookies \/ AdmittedIn(tx[x], CookieUser(k))
    BY <1>2, <2>1 DEF Coverage, Vouches
  <2>3. t \in Tickets /\ tk[t].st = "spent"
    BY <2>2 DEF Inv, TypeOK, CkRec
  <2>4. CookieUser(k)' = CookieUser(k)
    BY <2>2, <2>3 DEF CookieUser, TicketUser
  <2>5. AdmittedIn(tx[x], CookieUser(k)) => AdmittedIn(tx[x], CookieUser(k))'
    BY <2>4 DEF AdmittedIn
  <2>6. QED
    BY <2>2, <2>5
<1>3. QED
  BY <1>1, <1>2 DEF Coverage

LEMMA BrowseCovers ==
  ASSUME Inv, Inv', Coverage,
         \/ \E t \in Tickets : AuthorizeStep(t)
         \/ \E k \in Cookies : CookieStep(k)
         \/ \E k \in Cookies, t \in Tickets, h \in Hosts : ConsumeForwardTicket(k, t, h)
         \/ \E s \in Sessions : SsoEnds(s)
         \/ \E v \in Requests : VerifyStep(v)
         \/ UNCHANGED vars
  PROVE  Coverage'
<1>1. ASSUME NEW t \in Tickets, AuthorizeStep(t) PROVE Coverage'
  <2>1. /\ UNCHANGED <<email, policy, allowed, owner, ck, tx, late>>
        /\ \A q \in Tickets : q # t => tk'[q] = tk[q]
        /\ TicketMove(t)
    BY <1>1, AuthorizeMoves DEF Inv
  <2>2. \A q \in Pending' : q \in Pending \/ Admitted(tk'[q].host, TicketUser(q)')
    BY <2>1 DEF TicketMove, Pending, TicketUser
  <2>3. \A q \in Tickets : tk[q].st \notin {"none", "session", "refused"} =>
          tk'[q].sess = tk[q].sess /\ tk'[q].host = tk[q].host
    BY <2>1 DEF TicketMove
  <2>4. QED
    BY <2>1, <2>2, <2>3, RulesKept
<1>2. ASSUME NEW k \in Cookies, CookieStep(k) PROVE Coverage'
  <2>1. /\ UNCHANGED <<email, policy, allowed, owner, tk, tx, late>>
        /\ \A l \in Cookies : l # k => ck'[l] = ck[l]
        /\ ck'[k].ticket = ck[k].ticket /\ ck'[k].host = ck[k].host
        /\ \/ ck[k].st = "redeemed" /\ ck'[k].st \in {"live", "failed"}
           \/ ck[k].st = "live" /\ ck'[k].st = "dead"
    BY <1>2, CookieMoves DEF Inv
  <2>2. Pending' \subseteq Pending
    BY <2>1 DEF Pending
  <2>3. QED
    BY <2>1, <2>2, RulesKept
<1>3. ASSUME NEW k \in Cookies, NEW t \in Tickets, NEW h \in Hosts,
             ConsumeForwardTicket(k, t, h)
      PROVE  Coverage'
  <2>1. /\ UNCHANGED <<email, policy, allowed, owner, tx, late>>
        /\ \A q \in Tickets : q # t => tk'[q] = tk[q]
        /\ tk[t].st = "fresh" /\ tk'[t].st = "spent" /\ tk[t].host = h
        /\ tk'[t].sess = tk[t].sess /\ tk'[t].host = h
        /\ \A l \in Cookies : l # k => ck'[l] = ck[l]
        /\ ck[k].st = "none" /\ ck'[k] = [st |-> "redeemed", ticket |-> t, host |-> h]
    BY <1>3, ConsumeMoves DEF Inv
  <2>2. Pending' \subseteq Pending
    BY <2>1 DEF Pending
  <2>3. QED
    BY <2>1, <2>2, RulesKept
<1>4. ASSUME \/ \E s \in Sessions : SsoEnds(s)
             \/ \E v \in Requests : VerifyStep(v)
             \/ UNCHANGED vars
      PROVE  Coverage'
  <2>1. UNCHANGED <<email, policy, allowed, owner, tk, ck, tx, late>>
    BY <1>4, VerifyMoves DEF Inv, SsoEnds, rules, vars
  <2>2. Pending' = Pending
    BY <2>1 DEF Pending
  <2>3. QED
    BY <2>1, <2>2, RulesKept
<1>5. QED
  BY <1>1, <1>2, <1>3, <1>4

(* The UPDATE lists the live cookies of its host that its change locks     *)
(* out.                                                                    *)
LEMMA TxCovers ==
  ASSUME Inv, Inv', Coverage, NEW x \in Txs, TxStep(x)
  PROVE  Coverage'
<1>1. /\ UNCHANGED <<email, policy, allowed, owner, tk, ck, late>>
      /\ \A y \in Txs : y # x => tx'[y] = tx[y]
      /\ tx'[x].stage # "revoked" \/ TxRevoke(x)
  BY TxMoves DEF Inv
<1>2. PendingAdmitted'
  BY <1>1 DEF Coverage, PendingAdmitted, Pending, Admitted, TicketUser
<1>3. ASSUME NEW y \in Txs, y # x, tx'[y].stage = "revoked", ~tx'[y].stale
      PROVE  Vouches(y)'
  <2>1. tx'[y] = tx[y] /\ Vouches(y)
    BY <1>1, <1>3 DEF Coverage
  <2>2. \A k \in Cookies : AdmittedIn(tx[y], CookieUser(k)) => AdmittedIn(tx[y], CookieUser(k))'
    BY <1>1, <2>1 DEF AdmittedIn, CookieUser, TicketUser
  <2>3. QED
    BY <1>1, <2>1, <2>2 DEF Vouches
<1>4. ASSUME TxRevoke(x) PROVE Vouches(x)'
  <2>1. tx \in [Txs -> TxRec]
    BY DEF Inv, TypeOK
  <2>2. PICK t \in TxRec : t = tx[x]
    BY <2>1
  <2>3. PICK n : n = tx'[x]
    OBVIOUS
  <2>4. /\ n.op = t.op /\ n.host = t.host /\ n.email = t.email /\ n.policy = t.policy
        /\ n.cookies = Hits(t) /\ n.seen = {ck[k].ticket : k \in LiveAt(t.host)}
    BY <1>4, <2>1, <2>2, <2>3 DEF TxRevoke, TxRec
  <2>5. \A k \in LiveAt(t.host) : /\ k \in Cookies /\ ck[k].st = "live" /\ ck[k].host = t.host
                                  /\ k \in Hits(t) \/ AdmittedIn(t, CookieUser(k))
    BY DEF LiveAt, Hits
  <2>6. \A u : AdmittedIn(t, u) => AdmittedIn(n, u)'
    BY <1>1, <2>4 DEF AdmittedIn, Predicate
  <2>7. \A k \in Cookies : CookieUser(k)' = CookieUser(k)
    BY <1>1 DEF CookieUser, TicketUser
  <2>8. ASSUME NEW k \in LiveAt(t.host)
        PROVE  /\ ck'[k].ticket = ck[k].ticket /\ ck'[k].host = n.host /\ ck'[k].st = "live"
               /\ k \in n.cookies \/ AdmittedIn(tx[x], CookieUser(k))'
    <3>1. AdmittedIn(t, CookieUser(k)) => AdmittedIn(n, CookieUser(k))'
      BY <2>5, <2>6, <2>7 DEF AdmittedIn
    <3>2. AdmittedIn(n, CookieUser(k))' => AdmittedIn(tx[x], CookieUser(k))'
      BY <2>3 DEF AdmittedIn
    <3>3. QED
      BY <1>1, <2>4, <2>5, <3>1, <3>2
  <2>9. QED
    BY <2>3, <2>4, <2>5, <2>8 DEF Vouches
<1>5. QED
  BY <1>1, <1>2, <1>3, <1>4 DEF Coverage

(* The commit.  A ticket not overtaken was seen by the UPDATE, which       *)
(* vouches for its cookie, or is for another host.                         *)
LEMMA CommitCovers ==
  ASSUME Inv, Inv', Coverage, NEW x \in Txs, Commit(x)
  PROVE  Coverage'
<1> PICK h : h = tx[x].host
  OBVIOUS
<1>1. /\ UNCHANGED <<email, owner, tk>>
      /\ \A k \in Cookies : /\ ck'[k].ticket = ck[k].ticket /\ ck'[k].host = ck[k].host
                            /\ k \in tx[x].cookies => ck'[k].st = "dead"
                            /\ k \notin tx[x].cookies => ck'[k].st = ck[k].st
      /\ \A k \in tx[x].cookies : k \in Cookies /\ ck[k].st \in {"live", "dead"}
      /\ tx'[x].stage = "idle"
  BY CommitMoves DEF Inv
<1>2. /\ tx \in [Txs -> TxRec] /\ h \in Hosts /\ tx[x].stage = "revoked"
      /\ tx[x].op \in {"deny", "policy"}
      /\ policy \in [Hosts -> Policies] /\ allowed \in [Hosts -> SUBSET Emails]
  BY ForwardAssumption DEF Commit, Inv, TypeOK, TxRec
<1>3. \A g \in Hosts \ {h} : policy'[g] = policy[g] /\ allowed'[g] = allowed[g]
  BY <1>2 DEF Commit
<1>4. \A u : AdmittedIn(tx[x], u) => Admitted(h, u)'
  <2>1. CASE tx[x].op = "deny"
    <3>1. policy' = policy /\ allowed'[h] = allowed[h] \ {tx[x].email}
      BY <1>2, <2>1 DEF Commit
    <3>2. QED
      BY <1>1, <2>1, <3>1 DEF AdmittedIn, Admitted, Predicate
  <2>2. CASE tx[x].op = "policy"
    <3>1. policy'[h] = tx[x].policy /\ allowed' = allowed
      BY <1>2, <2>2 DEF Commit
    <3>2. QED
      BY <1>1, <2>2, <3>1 DEF AdmittedIn, Admitted, Predicate
  <2>3. QED
    BY <1>2, <2>1, <2>2
<1>5. late' = (late \cup Checked(h)) \ (IF tx[x].stale THEN {} ELSE tx[x].seen)
  BY DEF Commit
<1>6. Pending' \subseteq Pending
  BY <1>1 DEF Pending
<1>7. \A u : TicketUser(u)' = TicketUser(u)
  BY <1>1 DEF TicketUser
<1>8. PendingAdmitted'
  <2>1. SUFFICES ASSUME NEW t \in Pending, t \in Pending', t \notin late'
                 PROVE  Admitted(tk[t].host, TicketUser(t))'
    BY <1>6 DEF PendingAdmitted
  <2>2. t \in Tickets /\ tk[t].host \in Hosts /\ tk[t].st \in {"admitted", "fresh", "spent"}
    BY <2>1 DEF Pending, Inv, TypeOK, TkRec
  <2>3. CASE t \in tx[x].seen /\ ~tx[x].stale
    <3>1. PICK k \in Cookies :
            /\ ck[k].ticket = t /\ ck[k].host = h /\ ck[k].st \in {"live", "dead"}
            /\ ck[k].st = "live" => k \in tx[x].cookies \/ AdmittedIn(tx[x], CookieUser(k))
      BY <1>2, <2>3 DEF Coverage, Vouches
    <3>2. tk[t].st = "spent" /\ tk[t].host = h
      BY <2>2, <3>1 DEF Inv, TypeOK, OwnTicket
    <3>3. \A l \in Cookies : ck[l].ticket = t => l = k
      BY <2>2, <3>1, ForwardAssumption DEF Inv, OwnTicket
    <3>4. ck'[k].st = "live"
      BY <1>1, <2>1, <3>1, <3>2, <3>3 DEF Pending
    <3>5. AdmittedIn(tx[x], CookieUser(k))
      BY <1>1, <3>1, <3>4
    <3>6. QED
      BY <1>1, <1>4, <1>7, <3>1, <3>2, <3>5 DEF CookieUser
  <2>4. CASE ~(t \in tx[x].seen /\ ~tx[x].stale)
    <3>1. t \notin late /\ tk[t].host # h
      BY <1>5, <2>1, <2>2, <2>4 DEF Checked
    <3>2. Admitted(tk[t].host, TicketUser(t))
      BY <2>1, <3>1 DEF Coverage, PendingAdmitted
    <3>3. QED
      BY <1>1, <1>3, <1>7, <2>2, <3>1, <3>2 DEF Admitted
  <2>5. QED
    BY <2>3, <2>4
<1>9. ASSUME NEW y \in Txs, tx'[y].stage = "revoked", ~tx'[y].stale
      PROVE  Vouches(y)'
  <2>1. y # x
    BY <1>1, <1>9
  <2>2. tx[y].host # h /\ tx'[y] = tx[y]
    <3>1. tx'[y] = IF tx[y].host = h THEN Stale(tx[y]) ELSE tx[y]
      BY <2>1 DEF Commit
    <3>2. QED
      BY <1>2, <1>9, <3>1, StaleTypes
  <2>3. tx[y].host \in Hosts
    BY <1>2, <1>9, <2>2, ForwardAssumption DEF Inv, TypeOK, TxRec
  <2> PICK n : n = tx[y]
    OBVIOUS
  <2>4. \A u : AdmittedIn(n, u) => AdmittedIn(n, u)'
    BY <1>1, <1>3, <2>2, <2>3 DEF AdmittedIn, Predicate
  <2>5. SUFFICES ASSUME NEW t \in n.seen
                 PROVE  \E k \in Cookies :
                   /\ ck'[k].ticket = t /\ ck'[k].host = n.host
                   /\ ck'[k].st \in {"live", "dead"}
                   /\ ck'[k].st = "live" =>
                        k \in n.cookies \/ AdmittedIn(n, CookieUser(k))'
    BY <2>2 DEF Vouches
  <2>6. PICK k \in Cookies :
          /\ ck[k].ticket = t /\ ck[k].host = n.host /\ ck[k].st \in {"live", "dead"}
          /\ ck[k].st = "live" => k \in n.cookies \/ AdmittedIn(n, CookieUser(k))
    BY <1>9, <2>2, <2>5 DEF Coverage, Vouches
  <2>7. CookieUser(k)' = CookieUser(k)
    BY <1>1 DEF CookieUser, TicketUser
  <2>8. AdmittedIn(n, CookieUser(k)) => AdmittedIn(n, CookieUser(k))'
    BY <2>4, <2>7 DEF AdmittedIn
  <2>9. QED
    BY <1>1, <2>6, <2>8
<1>10. QED
  BY <1>8, <1>9 DEF Coverage

(* Listing an address admits only more users; not the one an open DELETE   *)
(* takes off the list, which is locked.                                    *)
LEMMA AllowCovers ==
  ASSUME Inv, Inv', Coverage, NEW h \in Hosts, NEW e \in Emails, AllowEmail(h, e)
  PROVE  Coverage'
<1>1. /\ UNCHANGED <<email, policy, owner, tk, ck, tx, late>>
      /\ ListRowFree(h, e) /\ allowed' = [allowed EXCEPT ![h] = @ \cup {e}]
      /\ allowed \in [Hosts -> SUBSET Emails]
  BY DEF AllowEmail, sso, Inv, TypeOK
<1>2. \A g \in Hosts : allowed[g] \subseteq allowed'[g]
  BY <1>1
<1>3. Pending' = Pending /\ \A t : TicketUser(t)' = TicketUser(t)
  BY <1>1 DEF Pending, TicketUser
<1>4. \A g \in Hosts : \A u : Admitted(g, u) => Admitted(g, u)'
  BY <1>1, <1>2 DEF Admitted, Predicate
<1>5. \A t \in Pending : tk[t].host \in Hosts
  BY DEF Pending, Inv, TypeOK, TkRec
<1>6. PendingAdmitted'
  BY <1>1, <1>3, <1>4, <1>5 DEF Coverage, PendingAdmitted
<1>7. ASSUME NEW x \in Txs, tx[x].stage = "revoked", ~tx[x].stale
      PROVE  Vouches(x)'
  <2>1. tx[x] \in TxRec /\ tx[x].host \in Hosts
    BY <1>7, ForwardAssumption DEF Inv, TypeOK, TxRec
  <2>2. \A u : AdmittedIn(tx[x], u) => AdmittedIn(tx[x], u)'
    BY <1>1, <1>2, <2>1 DEF AdmittedIn, Predicate
  <2>3. \A k : CookieUser(k)' = CookieUser(k)
    BY <1>1 DEF CookieUser, TicketUser
  <2>4. QED
    BY <1>1, <1>7, <2>2, <2>3 DEF Coverage, Vouches
<1>8. QED
  BY <1>1, <1>6, <1>7 DEF Coverage

(* A change of address overtakes the tickets of its user and every open    *)
(* transaction.                                                            *)
LEMMA ChangeCovers ==
  ASSUME Inv, Inv', Coverage, NEW u \in Users, NEW e \in Emails \cup {None}, ChangeEmail(u, e)
  PROVE  Coverage'
<1>1. /\ UNCHANGED <<policy, allowed, owner, tk, ck>>
      /\ email' = [email EXCEPT ![u] = e] /\ email \in [Users -> Emails \cup {None}]
      /\ late' = late \cup {t \in Tickets : \E h \in Hosts : t \in Checked(h) /\ TicketUser(t) = u}
      /\ tx' = [x \in Txs |-> Stale(tx[x])] /\ tx \in [Txs -> TxRec]
  BY DEF ChangeEmail, sso, Inv, TypeOK
<1>2. Pending' = Pending /\ \A t : TicketUser(t)' = TicketUser(t)
  BY <1>1 DEF Pending, TicketUser
<1>3. PendingAdmitted'
  <2>1. SUFFICES ASSUME NEW t \in Pending, t \notin late'
                 PROVE  Admitted(tk[t].host, TicketUser(t))'
    BY <1>2 DEF PendingAdmitted
  <2>2. t \in Tickets /\ tk[t].host \in Hosts /\ t \in Checked(tk[t].host)
        /\ TicketUser(t) \in Users
    BY <2>1 DEF Pending, Inv, TypeOK, TkRec, Checked, TicketUser
  <2>3. t \notin late /\ TicketUser(t) # u
    BY <1>1, <2>1, <2>2
  <2>4. Admitted(tk[t].host, TicketUser(t))
    BY <2>1, <2>3 DEF Coverage, PendingAdmitted
  <2>5. email'[TicketUser(t)] = email[TicketUser(t)]
    BY <1>1, <2>2, <2>3
  <2>6. QED
    BY <1>1, <1>2, <2>4, <2>5 DEF Admitted
<1>4. ASSUME NEW x \in Txs, tx'[x].stage = "revoked" PROVE tx'[x].stale
  BY <1>1, <1>4, StaleTypes
<1>5. QED
  BY <1>3, <1>4 DEF Coverage

LEMMA CoverageHolds == Spec => []Coverage
<1>1. Init => Coverage
  BY ForwardAssumption DEF Init, Coverage, PendingAdmitted, Pending, NoTicket, NoCookie, NoTx
<1>2. Inv /\ Inv' /\ Coverage /\ [Next]_vars => Coverage'
  BY Steps, BrowseCovers, TxCovers, CommitCovers, AllowCovers, ChangeCovers DEF AddressStep
<1>3. QED
  BY <1>1, <1>2, InvHolds, PTL DEF Spec

(* A live cookie belongs to a user its host admits now, unless a change of *)
(* the rules overtook its ticket: revokeForwardSessionsForNewlyDenied has  *)
(* no other gap, for any number of transactions.                           *)
THEOREM CookiesAreAdmitted == Spec => []AdmittedUnlessLate
<1>1. Inv /\ Coverage => AdmittedUnlessLate
  BY DEF Inv, TypeOK, CkRec, OwnTicket, Coverage, PendingAdmitted, Pending, CookieUser,
     AdmittedUnlessLate
<1>2. QED
  BY <1>1, InvHolds, CoverageHolds, PTL
=============================================================================
