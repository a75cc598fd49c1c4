---------------------------- MODULE GrantsProofs ----------------------------
(***************************************************************************)
(* Grants, for any sets of users, clients, requests and transactions: the  *)
(* types, the codes and their owners, that it implements OneTimeGrant, and *)
(* which tokens the access rules may fail to reach.                        *)
(***************************************************************************)
EXTENDS Grants, TLAPS

(* A transaction marked stale, and none at all, are of the type TxRec. *)
LEMMA TxTypes == NoTx \in TxRec /\ \A t \in TxRec : Stale(t) \in TxRec
<1>1. NoTx \in TxRec
  BY DEF NoTx, TxRec, Ops, Policies
<1>2. ASSUME NEW t \in TxRec PROVE [t EXCEPT !.stale = TRUE] \in TxRec
  BY DEF TxRec
<1>3. QED
  BY <1>1, <1>2 DEF Stale

(* What the second statement of a transaction finds is tokens. *)
LEMMA HitsTypes == \A t \in TxRec : Hits(t) \subseteq Redeems
  BY DEF Hits, LiveTokensAt, LiveTokensOf, TxRec, Ops, Withdrawals

(* A transaction that begins is typed. *)
LEMMA BeginTypes ==
  ASSUME RowTypes, NEW x \in Txs, NEW t \in TxRec, Begin(x, t)
  PROVE  RowTypes'
  BY DEF RowTypes, Begin, users, clients, sso, grants

LEMMA LoginTypes == TypeOK /\ Login => RowTypes'
<1> USE DEF users, clients, sso, grants
<1> SUFFICES ASSUME TypeOK, RowTypes, NEW s \in Sessions,
                    \/ \E u \in Users : LoginVerified(s, u) \/ CancelDeletionFinish(u, s)
                    \/ LoginSession(s)
                    \/ SessionExpires(s)
                    \/ \E b \in Sessions : EndSession(b, s)
             PROVE  RowTypes'
  BY DEF Login, TypeOK
<1>1. ASSUME NEW u \in Users, LoginVerified(s, u) PROVE RowTypes'
  BY <1>1, GrantsAssumption DEF RowTypes, LoginVerified
<1>2. ASSUME NEW u \in Users, CancelDeletionFinish(u, s) PROVE RowTypes'
  BY <1>2, GrantsAssumption DEF RowTypes, CancelDeletionFinish
<1>3. CASE LoginSession(s)
  BY <1>3 DEF RowTypes, LoginSession
<1>4. CASE SessionExpires(s)
  BY <1>4 DEF RowTypes, SessionExpires
<1>5. ASSUME NEW b \in Sessions, EndSession(b, s) PROVE RowTypes'
  BY <1>5 DEF RowTypes, EndSession, Dead
<1>6. QED
  BY <1>1, <1>2, <1>3, <1>4, <1>5

(* A request that moves on stays a record of its kind. *)
LEMMA PcTypes ==
  /\ \A f \in [Authz -> AzRec], a \in Authz, pc \in {"admitted", "consented", "done"} :
       [f EXCEPT ![a].pc = pc] \in [Authz -> AzRec]
  /\ \A f \in [Redeems -> RdRec], r \in Redeems, pc \in {"admitted", "done"} :
       [f EXCEPT ![r].pc = pc] \in [Redeems -> RdRec]
<1>1. ASSUME NEW f \in [Authz -> AzRec], NEW a \in Authz,
             NEW pc \in {"admitted", "consented", "done"}
      PROVE  [f EXCEPT ![a].pc = pc] \in [Authz -> AzRec]
  <2> DEFINE v == [f[a] EXCEPT !.pc = pc]
  <2>1. f[a] \in AzRec
    OBVIOUS
  <2>2. v \in AzRec
    BY <2>1 DEF AzRec
  <2>3. [f EXCEPT ![a] = v] \in [Authz -> AzRec]
    <3> HIDE DEF v
    <3> QED
      BY <2>2
  <2>4. QED
    BY <2>3
<1>2. ASSUME NEW f \in [Redeems -> RdRec], NEW r \in Redeems, NEW pc \in {"admitted", "done"}
      PROVE  [f EXCEPT ![r].pc = pc] \in [Redeems -> RdRec]
  <2> DEFINE v == [f[r] EXCEPT !.pc = pc]
  <2>1. f[r] \in RdRec
    OBVIOUS
  <2>2. v \in RdRec
    BY <2>1 DEF RdRec
  <2>3. [f EXCEPT ![r] = v] \in [Redeems -> RdRec]
    <3> HIDE DEF v
    <3> QED
      BY <2>2
  <2>4. QED
    BY <2>3
<1>3. QED
  BY <1>1, <1>2

LEMMA AuthorizeTypes == TypeOK /\ Authorize => RowTypes'
<1> USE DEF users, clients, sso, grants
<1> SUFFICES ASSUME TypeOK, RowTypes, NEW a \in Authz,
                    \/ \E s \in Sessions, c \in Clients : AuthorizeSession(a, s, c)
                    \/ AuthorizeAdmit(a)
                    \/ AuthorizeCovered(a)
                    \/ AuthorizeGrant(a)
                    \/ IssueCode(a)
                    \/ CodeExpires(a)
             PROVE  RowTypes'
  BY DEF Authorize, TypeOK
<1>1. ASSUME NEW s \in Sessions, NEW c \in Clients, AuthorizeSession(a, s, c)
      PROVE RowTypes'
  <2>1. sess[s] = "live" /\ s # None /\ c # None
    BY <1>1, GrantsAssumption DEF AuthorizeSession, Usable
  <2>2. QED
    BY <1>1, <2>1 DEF RowTypes, AzRec, AuthorizeSession
<1>2. CASE AuthorizeAdmit(a)
  <2>1. PICK pc \in {"admitted", "done"} : az' = [az EXCEPT ![a].pc = pc]
    BY <1>2 DEF AuthorizeAdmit
  <2>2. az' \in [Authz -> AzRec]
    BY <2>1, PcTypes DEF RowTypes
  <2>3. UNCHANGED <<users, clients, sso, consented, code, rd, token, tx, late>>
    BY <1>2 DEF AuthorizeAdmit
  <2>4. QED
    BY <2>2, <2>3 DEF RowTypes
<1>3. CASE AuthorizeCovered(a)
  BY <1>3, PcTypes DEF RowTypes, AuthorizeCovered
<1>4. CASE AuthorizeGrant(a)
  <2>1. CodeUser(a) \in Users /\ az[a].client \in Clients
    BY <1>4 DEF TypeOK, SessionsFilled, AuthzFilled, RowTypes, AzRec, AuthorizeGrant, CodeUser
  <2>2. az' \in [Authz -> AzRec]
    BY <1>4, PcTypes DEF RowTypes, AuthorizeGrant
  <2>3. consented' \subseteq Users \X Clients
    BY <1>4, <2>1 DEF RowTypes, AuthorizeGrant
  <2>4. UNCHANGED <<users, clients, sso, code, rd, token, tx, late>>
    BY <1>4 DEF AuthorizeGrant
  <2>5. QED
    BY <2>2, <2>3, <2>4 DEF RowTypes
<1>5. CASE IssueCode(a)
  <2>1. az' \in [Authz -> AzRec]
    BY <1>5, PcTypes DEF RowTypes, IssueCode
  <2>2. /\ code' = [code EXCEPT ![a] = "fresh"]
        /\ UNCHANGED <<users, clients, sso, consented, rd, token, tx, late>>
    BY <1>5 DEF IssueCode
  <2>3. QED
    BY <2>1, <2>2 DEF RowTypes
<1>6. CASE CodeExpires(a)
  BY <1>6 DEF RowTypes, AzRec, CodeExpires
<1>7. QED
  BY <1>1, <1>2, <1>3, <1>4, <1>5, <1>6

LEMMA TokenTypes == TypeOK /\ Token => RowTypes'
<1> USE DEF users, clients, sso, grants
<1> SUFFICES ASSUME TypeOK, RowTypes, NEW r \in Redeems,
                    \/ \E c \in Clients : TokenAuthenticate(r, c)
                    \/ \E a \in Authz, proved \in BOOLEAN : TokenConsume(r, a, proved)
                    \/ TokenAdmit(r)
                    \/ TokenMint(r)
                    \/ TokenFails(r)
                    \/ TokenEnds(r)
             PROVE  RowTypes'
  BY DEF Token, TypeOK
<1>1. ASSUME NEW c \in Clients, TokenAuthenticate(r, c) PROVE RowTypes'
  BY <1>1 DEF RowTypes, RdRec, TokenAuthenticate
<1>2. ASSUME NEW a \in Authz, NEW proved \in BOOLEAN, TokenConsume(r, a, proved)
      PROVE RowTypes'
  <2>1. rd[r] \in RdRec /\ rd \in [Redeems -> RdRec]
    BY DEF RowTypes
  <2>2. PICK v \in RdRec : rd' = [rd EXCEPT ![r] = v]
    <3>1. CASE proved /\ az[a].client = rd[r].client
      <4> DEFINE v == [rd[r] EXCEPT !.pc = "redeemed", !.code = a]
      <4>1. v \in RdRec 
        BY <2>1 DEF RdRec
      <4>2. rd' = [rd EXCEPT ![r] = v]
        BY <1>2, <3>1 DEF TokenConsume
      <4>3. QED
        BY <4>1, <4>2, GrantsAssumption
    <3>2. CASE ~(proved /\ az[a].client = rd[r].client)
      <4> DEFINE v == [rd[r] EXCEPT !.pc = "done"]
      <4>1. v \in RdRec
        BY <2>1 DEF RdRec
      <4>2. rd' = [rd EXCEPT ![r] = v]
        BY <1>2, <3>2 DEF TokenConsume
      <4>3. QED
        BY <4>1, <4>2
    <3>3. QED
      BY <3>1, <3>2
  <2>3. QED
    BY <1>2, <2>1, <2>2 DEF RowTypes, TokenConsume
<1>3. CASE TokenAdmit(r)
  <2>1. rd' \in [Redeems -> RdRec]
    BY <1>3, PcTypes DEF RowTypes, TokenAdmit
  <2>2. UNCHANGED <<users, clients, sso, consented, az, code, token, tx, late>>
    BY <1>3 DEF TokenAdmit
  <2>3. QED
    BY <2>1, <2>2 DEF RowTypes
<1>4. CASE TokenMint(r)
  <2>1. rd' \in [Redeems -> RdRec]
    BY <1>4, PcTypes DEF RowTypes, TokenMint
  <2>2. QED
    BY <1>4, <2>1 DEF RowTypes, TokenMint
<1>5. CASE TokenFails(r)
  <2>1. rd' \in [Redeems -> RdRec]
    BY <1>5, PcTypes DEF RowTypes, TokenFails
  <2>2. UNCHANGED <<users, clients, sso, consented, az, code, token, tx, late>>
    BY <1>5 DEF TokenFails
  <2>3. QED
    BY <2>1, <2>2 DEF RowTypes
<1>6. CASE TokenEnds(r)
  BY <1>6 DEF RowTypes, RdRec, TokenEnds
<1>7. QED
  BY <1>1, <1>2, <1>3, <1>4, <1>5, <1>6

LEMMA WithdrawTypes == TypeOK /\ Withdraw => RowTypes'
<1> USE DEF users, clients, sso, grants
<1> SUFFICES ASSUME TypeOK, RowTypes, NEW x \in Txs,
                    \/ \E c \in Clients, e \in Emails : BeginDeny(x, c, e)
                    \/ \E c \in Clients, p \in Policies : BeginPolicy(x, c, p)
                    \/ \E c \in Clients, on \in BOOLEAN : BeginEnable(x, c, on)
                    \/ \E b \in Sessions, c \in Clients : BeginConsent(x, b, c)
                    \/ \E b \in Sessions : BeginSignOut(x, b) \/ BeginDelete(x, b)
                    \/ TxRevoke(x)
                    \/ CommitWithdrawal(x)
                    \/ CommitEnable(x)
                    \/ CommitAccount(x)
                    \/ TxRollback(x)
             PROVE  RowTypes'
  BY DEF Withdraw, TypeOK
<1>1. ASSUME NEW c \in Clients, NEW e \in Emails, BeginDeny(x, c, e) PROVE RowTypes'
  BY <1>1, BeginTypes DEF BeginDeny, NoTx, TxRec, Ops, Withdrawals, Policies
<1>2. ASSUME NEW c \in Clients, NEW p \in Policies, BeginPolicy(x, c, p) PROVE RowTypes'
  BY <1>2, BeginTypes DEF BeginPolicy, NoTx, TxRec, Ops, Withdrawals, Policies
<1>3. ASSUME NEW c \in Clients, NEW on \in BOOLEAN, BeginEnable(x, c, on) PROVE RowTypes'
  BY <1>3, BeginTypes DEF BeginEnable, NoTx, TxRec, Ops, Withdrawals, Policies
<1>4. ASSUME NEW b \in Sessions, NEW c \in Clients, BeginConsent(x, b, c) PROVE RowTypes'
  <2>1. owner[b] \in Users \cup {None}
    BY DEF RowTypes
  <2>2. QED
    BY <1>4, <2>1, BeginTypes DEF BeginConsent, NoTx, TxRec, Ops, Policies
<1>5. ASSUME NEW b \in Sessions, BeginSignOut(x, b) \/ BeginDelete(x, b) PROVE RowTypes'
  <2>1. owner[b] \in Users \cup {None} /\ SessionsOf(owner[b]) \subseteq Sessions
    BY DEF RowTypes, SessionsOf
  <2>2. QED
    BY <1>5, <2>1, BeginTypes DEF BeginSignOut, BeginDelete, NoTx, TxRec, Ops, Policies
<1>6. CASE TxRevoke(x)
  <2> DEFINE t == tx[x]
             C == IF t.op = "delete" THEN {c \in Clients : <<t.user, c>> \in consented}
                                     ELSE t.consents
             S == IF t.op \in Withdrawals THEN LiveTokensAt(t.client) ELSE {}
             new == [t EXCEPT !.stage = "revoked", !.consents = C,
                              !.tokens = Hits(t), !.seen = S]
  <2>1. t \in TxRec
    BY DEF RowTypes
  <2>2. C \subseteq Clients /\ S \subseteq Redeems /\ Hits(t) \subseteq Redeems
    BY <2>1, HitsTypes DEF TxRec, LiveTokensAt
  <2> HIDE DEF C, S
  <2>3. new \in TxRec
    BY <2>1, <2>2 DEF TxRec
  <2>4. tx' = [tx EXCEPT ![x] = new]
    BY <1>6 DEF TxRevoke, C, S
  <2>5. QED
    BY <1>6, <2>3, <2>4 DEF RowTypes, TxRevoke
<1>7. CASE CommitWithdrawal(x)
  <2>1. tx' \in [Txs -> TxRec]
    BY <1>7, TxTypes DEF RowTypes, CommitWithdrawal
  <2>2. tx[x] \in TxRec /\ tx[x].op \in Withdrawals
    BY <1>7 DEF RowTypes, CommitWithdrawal
  <2>3. /\ allowed' \in [Clients -> SUBSET Emails]
        /\ policy' \in [Clients -> Policies]
        /\ enabled' \in [Clients -> BOOLEAN]
    BY <1>7, <2>2 DEF RowTypes, CommitWithdrawal, TxRec
  <2>4. token' \in [Redeems -> {"none", "live", "dead"}]
    BY <1>7, <2>2 DEF RowTypes, CommitWithdrawal, Dead
  <2>5. late' \subseteq Redeems
    BY <1>7, <2>2 DEF RowTypes, CommitWithdrawal, Checked
  <2>6. QED
    BY <1>7, <2>1, <2>3, <2>4, <2>5 DEF RowTypes, CommitWithdrawal
<1>8. CASE CommitEnable(x)
  BY <1>8, TxTypes DEF RowTypes, CommitEnable
<1>9. CASE CommitAccount(x)
  <2>1. tx[x] \in TxRec /\ tx[x].stage = "revoked"
    BY <1>9 DEF RowTypes, CommitAccount
  <2>2. QED
    <3>1. token' \in [Redeems -> {"none", "live", "dead"}]
      BY <1>9 DEF RowTypes, CommitAccount, Dead
    <3>2. sess' \in [Sessions -> {"none", "verified", "live", "expired", "revoked"}]
      BY <1>9 DEF RowTypes, CommitAccount, Revoked
    <3>3. consented' \subseteq Users \X Clients
      BY <1>9 DEF RowTypes, CommitAccount
    <3>4. status' \in [Users -> {"active", "deletion_pending"}]
      BY <1>9, <2>1 DEF RowTypes, CommitAccount
    <3>5. tx' \in [Txs -> TxRec]
      BY <1>9, TxTypes DEF RowTypes, CommitAccount
    <3>6. QED
      BY <1>9, <3>1, <3>2, <3>3, <3>4, <3>5 DEF RowTypes, CommitAccount
<1>10. CASE TxRollback(x)
  BY <1>10, TxTypes DEF RowTypes, TxRollback
<1>11. QED
  BY <1>1, <1>2, <1>3, <1>4, <1>5, <1>6, <1>7, <1>8, <1>9, <1>10

LEMMA AccountTypes == TypeOK /\ Account => RowTypes'
<1> USE DEF users, clients, sso, grants
<1> SUFFICES ASSUME TypeOK, RowTypes, Account PROVE RowTypes'
  BY DEF TypeOK
<1>1. ASSUME NEW u \in Users, CancelDeletion(u) PROVE RowTypes'
  BY <1>1 DEF RowTypes, CancelDeletion
<1>2. ASSUME NEW u \in Users, NEW e \in Emails \cup {None}, ChangeEmail(u, e)
      PROVE RowTypes'
  BY <1>2, TxTypes DEF RowTypes, ChangeEmail
<1>3. ASSUME NEW c \in Clients, NEW e \in Emails, AllowEmail(c, e) PROVE RowTypes'
  BY <1>3 DEF RowTypes, AllowEmail
<1>4. QED
  BY <1>1, <1>2, <1>3 DEF Account, VerifyEmail, DeleteEmail

LEMMA RowTypesStep == TypeOK /\ [Next]_vars => RowTypes'
<1>1. TypeOK /\ UNCHANGED vars => RowTypes'
  BY DEF TypeOK, RowTypes, vars
<1>2. QED
  BY <1>1, LoginTypes, AuthorizeTypes, TokenTypes, WithdrawTypes, AccountTypes DEF Next

(* What no step of a group touches. *)
LEMMA Frames ==
  /\ Login => UNCHANGED <<az, code, rd, tx, late, email, clients>>
  /\ Authorize => UNCHANGED <<users, clients, owner, sess, rd, token, tx, late>>
  /\ Token => UNCHANGED <<users, clients, consented, owner, sess, az, tx, late>>
  /\ Withdraw => UNCHANGED <<email, owner, az, code, rd>>
  /\ Account => UNCHANGED <<policy, enabled, consented, az, code, rd, token>>
<1> USE DEF users, clients, sso, grants, Begin
<1>1. Login => UNCHANGED <<az, code, rd, tx, late, email, clients>>
  BY DEF Login, LoginVerified, CancelDeletionFinish, LoginSession, SessionExpires,
         EndSession
<1>2. Authorize => UNCHANGED <<users, clients, owner, sess, rd, token, tx, late>>
  BY DEF Authorize, AuthorizeSession, AuthorizeAdmit, AuthorizeCovered,
         AuthorizeGrant, IssueCode, CodeExpires
<1>3. Token => UNCHANGED <<users, clients, consented, owner, sess, az, tx, late>>
  BY DEF Token, TokenAuthenticate, TokenConsume, TokenAdmit, TokenMint, TokenFails,
         TokenEnds
<1>4. Withdraw => UNCHANGED <<email, owner, az, code, rd>>
  BY ZenonT(60) DEF Withdraw, BeginDeny, BeginPolicy, BeginEnable, BeginConsent,
         BeginSignOut, BeginDelete, TxRevoke, CommitWithdrawal, CommitEnable,
         CommitAccount, TxRollback
<1>5. Account => UNCHANGED <<policy, enabled, consented, az, code, rd, token>>
  BY DEF Account, CancelDeletion, VerifyEmail, DeleteEmail, ChangeEmail, AllowEmail
<1>6. QED
  BY <1>1, <1>2, <1>3, <1>4, <1>5

(* A transaction writes to sessions and tokens only what it found. *)
LEMMA WithdrawWrites ==
  ASSUME Withdraw
  PROVE  /\ sess' = sess \/ \E x \in Txs : sess' = Revoked(tx[x].sessions)
         /\ token' = token \/ \E x \in Txs : token' = Dead(tx[x].tokens)
<1> USE DEF users, clients, sso, grants
<1> PICK x \in Txs :
       \/ \E t : Begin(x, t)
       \/ TxRevoke(x)
       \/ CommitWithdrawal(x)
       \/ CommitEnable(x)
       \/ CommitAccount(x)
       \/ TxRollback(x)
  BY DEF Withdraw, BeginDeny, BeginPolicy, BeginEnable, BeginConsent, BeginSignOut,
         BeginDelete
<1>1. CASE \E t : Begin(x, t)
  BY <1>1 DEF Begin
<1>2. CASE TxRevoke(x) \/ CommitEnable(x) \/ TxRollback(x)
  BY <1>2 DEF TxRevoke, CommitEnable, TxRollback
<1>3. CASE CommitWithdrawal(x)
  BY <1>3 DEF CommitWithdrawal
<1>4. CASE CommitAccount(x)
  BY <1>4 DEF CommitAccount
<1>5. QED
  BY <1>1, <1>2, <1>3, <1>4

(* A session row, once there, stays; a token likewise. *)
LEMMA RowsStay ==
  ASSUME RowTypes, [Next]_vars
  PROVE  /\ \A s \in Sessions : sess[s] # "none" => sess'[s] # "none"
         /\ \A r \in Redeems : token[r] # "none" => token'[r] # "none"
<1> USE DEF users, clients, sso, grants, Begin
<1>1. CASE Login
  BY <1>1 DEF RowTypes, Login, LoginVerified, CancelDeletionFinish, LoginSession,
              SessionExpires, EndSession, Dead
<1>2. CASE Authorize
  BY <1>2, Frames
<1>3. CASE Token
  BY <1>3, ZenonT(60) DEF RowTypes, Token, TokenAuthenticate, TokenConsume,
              TokenAdmit, TokenMint, TokenFails, TokenEnds
<1>4. CASE Withdraw
  BY <1>4, WithdrawWrites DEF RowTypes, Dead, Revoked
<1>5. CASE Account
  BY <1>5 DEF Account, CancelDeletion, VerifyEmail, DeleteEmail, ChangeEmail, AllowEmail
<1>6. CASE UNCHANGED vars
  BY <1>6 DEF vars
<1>7. QED
  BY <1>1, <1>2, <1>3, <1>4, <1>5, <1>6 DEF Next

LEMMA SessionsFilledStep == TypeOK /\ [Next]_vars => SessionsFilled'
<1> USE DEF users, clients, sso, grants
<1> SUFFICES ASSUME RowTypes, SessionsFilled, TxFilled, [Next]_vars
             PROVE  SessionsFilled'
  BY DEF TypeOK
<1>1. CASE Login
  <2>1. PICK s \in Sessions :
           /\ \/ \E u \in Users : LoginVerified(s, u) \/ CancelDeletionFinish(u, s)
              \/ LoginSession(s)
              \/ SessionExpires(s)
              \/ \E b \in Sessions : EndSession(b, s)
    BY <1>1 DEF Login
  <2>2. ASSUME NEW u \in Users, LoginVerified(s, u) \/ CancelDeletionFinish(u, s)
        PROVE  SessionsFilled'
    BY <2>2, GrantsAssumption DEF RowTypes, SessionsFilled, LoginVerified,
                                  CancelDeletionFinish
  <2>3. CASE LoginSession(s) \/ SessionExpires(s)
    BY <2>3 DEF RowTypes, SessionsFilled, LoginSession, SessionExpires
  <2>4. ASSUME NEW b \in Sessions, EndSession(b, s) PROVE SessionsFilled'
    BY <2>4 DEF RowTypes, SessionsFilled, EndSession
  <2>5. QED
    BY <2>1, <2>2, <2>3, <2>4
<1>2. CASE Authorize \/ Token \/ UNCHANGED vars
  BY <1>2, Frames DEF SessionsFilled, vars
<1>3. CASE Withdraw
  BY <1>3, Frames, WithdrawWrites DEF SessionsFilled, TxFilled, Revoked
<1>4. CASE Account
  BY <1>4 DEF SessionsFilled, Account, CancelDeletion, VerifyEmail, DeleteEmail,
              ChangeEmail, AllowEmail
<1>5. QED
  BY <1>1, <1>2, <1>3, <1>4 DEF Next

LEMMA AuthzFilledStep == TypeOK /\ [Next]_vars => AuthzFilled'
<1> USE DEF users, clients, sso, grants
<1> SUFFICES ASSUME TypeOK, RowTypes, AuthzFilled, [Next]_vars
             PROVE  AuthzFilled'
  BY DEF TypeOK
<1>1. CASE Authorize
  <2>1. PICK a \in Authz :
           \/ \E s \in Sessions, c \in Clients : AuthorizeSession(a, s, c)
           \/ AuthorizeAdmit(a) \/ AuthorizeCovered(a) \/ AuthorizeGrant(a)
           \/ IssueCode(a)
           \/ CodeExpires(a)
    BY <1>1 DEF Authorize
  <2>2. ASSUME NEW s \in Sessions, NEW c \in Clients, AuthorizeSession(a, s, c)
        PROVE  AuthzFilled'
    BY <2>2, GrantsAssumption DEF RowTypes, AzRec, AuthzFilled, AuthorizeSession, Usable
  <2>3. CASE AuthorizeAdmit(a) \/ AuthorizeCovered(a) \/ AuthorizeGrant(a)
    BY <2>3 DEF RowTypes, AzRec, AuthzFilled, AuthorizeAdmit, AuthorizeCovered,
                AuthorizeGrant
  <2>4. CASE IssueCode(a)
    BY <2>4 DEF RowTypes, AzRec, AuthzFilled, IssueCode
  <2>5. CASE CodeExpires(a)
    BY <2>5 DEF RowTypes, AuthzFilled, CodeExpires
  <2>6. QED
    BY <2>1, <2>2, <2>3, <2>4, <2>5
<1>2. CASE Token
  <2>1. UNCHANGED <<az, sess>>
    BY <1>2, Frames
  <2>2. code' = code \/ \E a \in Authz : code[a] = "fresh"
                                       /\ code' = [code EXCEPT ![a] = "spent"]
    BY <1>2 DEF Token, TokenAuthenticate, TokenConsume, TokenAdmit, TokenMint,
                TokenFails, TokenEnds
  <2>3. QED
    BY <2>1, <2>2 DEF RowTypes, AuthzFilled
<1>3. CASE Login \/ Withdraw \/ Account \/ UNCHANGED vars
  <2>1. UNCHANGED <<az, code>>
    BY <1>3, Frames DEF vars
  <2>2. \A a \in Authz : az[a].session \in Sessions \cup {None}
    BY DEF RowTypes, AzRec
  <2>3. QED
    BY <2>1, <2>2, RowsStay DEF AuthzFilled
<1>4. QED
  BY <1>1, <1>2, <1>3 DEF Next

LEMMA RedeemsFilledStep == TypeOK /\ [Next]_vars => RedeemsFilled'
<1> USE DEF users, clients, sso, grants
<1> SUFFICES ASSUME RowTypes, RedeemsFilled, TxFilled, [Next]_vars
             PROVE  RedeemsFilled'
  BY DEF TypeOK
<1>1. CASE Token
  <2>1. PICK r \in Redeems :
           \/ \E c \in Clients : TokenAuthenticate(r, c)
           \/ \E a \in Authz, proved \in BOOLEAN : TokenConsume(r, a, proved)
           \/ TokenAdmit(r) \/ TokenFails(r)
           \/ TokenMint(r)
           \/ TokenEnds(r)
    BY <1>1 DEF Token
  <2>2. ASSUME NEW c \in Clients, TokenAuthenticate(r, c) PROVE RedeemsFilled'
    BY <2>2, GrantsAssumption DEF RowTypes, RdRec, RedeemsFilled, TokenAuthenticate
  <2>3. ASSUME NEW a \in Authz, NEW proved \in BOOLEAN, TokenConsume(r, a, proved)
        PROVE  RedeemsFilled'
    <3>1. /\ rd \in [Redeems -> RdRec] /\ rd[r] \in RdRec
          /\ rd[r].pc = "authenticated" /\ token' = token /\ token[r] = "none"
      BY <2>3 DEF RowTypes, RedeemsFilled, TokenConsume
    <3>2. CASE proved /\ az[a].client = rd[r].client
      <4> DEFINE v == [rd[r] EXCEPT !.pc = "redeemed", !.code = a]
      <4>1. v.pc = "redeemed" /\ v.code = a /\ v.client = rd[r].client
        BY <3>1 DEF RdRec
      <4>2. rd' = [rd EXCEPT ![r] = v]
        BY <2>3, <3>2 DEF TokenConsume
      <4>3. QED
        BY <3>1, <4>1, <4>2, GrantsAssumption DEF RedeemsFilled
    <3>3. CASE ~(proved /\ az[a].client = rd[r].client)
      <4> DEFINE v == [rd[r] EXCEPT !.pc = "done"]
      <4>1. v.pc = "done" /\ v.code = rd[r].code /\ v.client = rd[r].client
        BY <3>1 DEF RdRec
      <4>2. rd' = [rd EXCEPT ![r] = v]
        BY <2>3, <3>3 DEF TokenConsume
      <4>3. QED
        BY <3>1, <4>1, <4>2 DEF RedeemsFilled
    <3>4. QED
      BY <3>2, <3>3
  <2>4. CASE TokenAdmit(r) \/ TokenFails(r)
    BY <2>4 DEF RowTypes, RdRec, RedeemsFilled, TokenAdmit, TokenFails
  <2>5. CASE TokenMint(r)
    BY <2>5 DEF RowTypes, RdRec, RedeemsFilled, TokenMint
  <2>6. CASE TokenEnds(r)
    BY <2>6 DEF RowTypes, RedeemsFilled, TokenEnds
  <2>7. QED
    BY <2>1, <2>2, <2>3, <2>4, <2>5, <2>6
<1>2. CASE Login
  <2>1. UNCHANGED rd /\ \A r \in Redeems : token'[r] # "none" => token[r] # "none"
    BY <1>2, Frames DEF Login, LoginVerified, CancelDeletionFinish, LoginSession,
                        SessionExpires, EndSession, Dead
  <2>2. QED
    BY <2>1 DEF RedeemsFilled
<1>3. CASE Withdraw
  BY <1>3, Frames, WithdrawWrites DEF RedeemsFilled, TxFilled, Dead
<1>4. CASE Authorize \/ Account \/ UNCHANGED vars
  BY <1>4, Frames DEF RedeemsFilled, vars
<1>5. QED
  BY <1>1, <1>2, <1>3, <1>4 DEF Next

(* The first statement of transaction x has run, and found the rows in t.   *)
Begun(x, t) ==
  /\ tx' = [tx EXCEPT ![x] = t]
  /\ t.tokens = {} /\ t.seen = {} /\ t.stage = "begun"
  /\ \A s \in t.sessions : s \in Sessions /\ sess[s] # "none"
  /\ t.op \in Withdrawals => t.client \in Clients
  /\ UNCHANGED <<sess, token>>

TxChange(x) ==
  \/ \E t : Begun(x, t)
  \/ TxRevoke(x)
  \/ CommitWithdrawal(x)
  \/ tx' = [tx EXCEPT ![x] = NoTx]

(* How the rows of transactions change. *)
LEMMA TxChanges == Withdraw => \E x \in Txs : TxChange(x)
<1> USE DEF users, clients, sso, grants
<1> SUFFICES ASSUME NEW x \in Txs,
       \/ \E c \in Clients, e \in Emails : BeginDeny(x, c, e)
       \/ \E c \in Clients, p \in Policies : BeginPolicy(x, c, p)
       \/ \E c \in Clients, on \in BOOLEAN : BeginEnable(x, c, on)
       \/ \E b \in Sessions, c \in Clients : BeginConsent(x, b, c)
       \/ \E b \in Sessions : BeginSignOut(x, b)
       \/ \E b \in Sessions : BeginDelete(x, b)
       \/ TxRevoke(x) \/ CommitWithdrawal(x)
       \/ CommitEnable(x) \/ CommitAccount(x) \/ TxRollback(x)
             PROVE  TxChange(x)
  BY DEF Withdraw
<1>1. CASE TxRevoke(x) \/ CommitWithdrawal(x)
  BY <1>1 DEF TxChange
<1>2. CASE CommitEnable(x) \/ CommitAccount(x) \/ TxRollback(x)
  BY <1>2 DEF TxChange, CommitEnable, CommitAccount, TxRollback
<1>3. ASSUME NEW c \in Clients, NEW e \in Emails, BeginDeny(x, c, e) PROVE TxChange(x)
  <2> DEFINE t == [NoTx EXCEPT !.op = "deny", !.stage = "begun", !.client = c,
                           !.email = IF e \in allowed[c] THEN e ELSE None]
  <2>1. t.tokens = {} /\ t.seen = {} /\ t.stage = "begun"
    BY DEF NoTx
  <2>2. \A s \in t.sessions : s \in Sessions /\ sess[s] # "none"
    BY DEF NoTx, SessionsOf
  <2>3. t.op \in Withdrawals => t.client \in Clients
    BY DEF NoTx, Withdrawals
  <2>4. tx' = [tx EXCEPT ![x] = t] /\ UNCHANGED <<sess, token>>
    BY <1>3 DEF BeginDeny, Begin
  <2> HIDE DEF t
  <2>5. QED
    BY <2>1, <2>2, <2>3, <2>4 DEF TxChange, Begun
<1>4. ASSUME NEW c \in Clients, NEW p \in Policies, BeginPolicy(x, c, p) PROVE TxChange(x)
  <2> DEFINE t == [NoTx EXCEPT !.op = "policy", !.stage = "begun", !.client = c,
                           !.policy = p]
  <2>1. t.tokens = {} /\ t.seen = {} /\ t.stage = "begun"
    BY DEF NoTx
  <2>2. \A s \in t.sessions : s \in Sessions /\ sess[s] # "none"
    BY DEF NoTx, SessionsOf
  <2>3. t.op \in Withdrawals => t.client \in Clients
    BY DEF NoTx, Withdrawals
  <2>4. tx' = [tx EXCEPT ![x] = t] /\ UNCHANGED <<sess, token>>
    BY <1>4 DEF BeginPolicy, Begin
  <2> HIDE DEF t
  <2>5. QED
    BY <2>1, <2>2, <2>3, <2>4 DEF TxChange, Begun
<1>5. ASSUME NEW c \in Clients, NEW on \in BOOLEAN, BeginEnable(x, c, on) PROVE TxChange(x)
  <2> DEFINE t == [NoTx EXCEPT !.op = IF on THEN "enable" ELSE "disable",
                           !.stage = "begun", !.client = c]
  <2>1. t.tokens = {} /\ t.seen = {} /\ t.stage = "begun"
    BY DEF NoTx
  <2>2. \A s \in t.sessions : s \in Sessions /\ sess[s] # "none"
    BY DEF NoTx, SessionsOf
  <2>3. t.op \in Withdrawals => t.client \in Clients
    BY DEF NoTx, Withdrawals
  <2>4. tx' = [tx EXCEPT ![x] = t] /\ UNCHANGED <<sess, token>>
    BY <1>5 DEF BeginEnable, Begin
  <2> HIDE DEF t
  <2>5. QED
    BY <2>1, <2>2, <2>3, <2>4 DEF TxChange, Begun
<1>6. ASSUME NEW b \in Sessions, NEW c \in Clients, BeginConsent(x, b, c) PROVE TxChange(x)
  <2> DEFINE t == [NoTx EXCEPT !.op = "consent", !.stage = "begun",
                 !.user = owner[b], !.client = c,
                 !.consents = {d \in {c} : <<owner[b], d>> \in consented}]
  <2>1. t.tokens = {} /\ t.seen = {} /\ t.stage = "begun"
    BY DEF NoTx
  <2>2. \A s \in t.sessions : s \in Sessions /\ sess[s] # "none"
    BY DEF NoTx, SessionsOf
  <2>3. t.op \in Withdrawals => t.client \in Clients
    BY DEF NoTx, Withdrawals
  <2>4. tx' = [tx EXCEPT ![x] = t] /\ UNCHANGED <<sess, token>>
    BY <1>6 DEF BeginConsent, Begin
  <2> HIDE DEF t
  <2>5. QED
    BY <2>1, <2>2, <2>3, <2>4 DEF TxChange, Begun
<1>7. ASSUME NEW b \in Sessions, BeginSignOut(x, b) PROVE TxChange(x)
  <2> DEFINE t == [NoTx EXCEPT !.op = "signout", !.stage = "begun",
                 !.user = owner[b], !.sessions = SessionsOf(owner[b])]
  <2>1. t.tokens = {} /\ t.seen = {} /\ t.stage = "begun"
    BY DEF NoTx
  <2>2. \A s \in t.sessions : s \in Sessions /\ sess[s] # "none"
    BY DEF NoTx, SessionsOf
  <2>3. t.op \in Withdrawals => t.client \in Clients
    BY DEF NoTx, Withdrawals
  <2>4. tx' = [tx EXCEPT ![x] = t] /\ UNCHANGED <<sess, token>>
    BY <1>7 DEF BeginSignOut, Begin
  <2> HIDE DEF t
  <2>5. QED
    BY <2>1, <2>2, <2>3, <2>4 DEF TxChange, Begun
<1>8. ASSUME NEW b \in Sessions, BeginDelete(x, b) PROVE TxChange(x)
  <2> DEFINE t == [NoTx EXCEPT !.op = "delete", !.stage = "begun",
                 !.user = owner[b], !.sessions = SessionsOf(owner[b])]
  <2>1. t.tokens = {} /\ t.seen = {} /\ t.stage = "begun"
    BY DEF NoTx
  <2>2. \A s \in t.sessions : s \in Sessions /\ sess[s] # "none"
    BY DEF NoTx, SessionsOf
  <2>3. t.op \in Withdrawals => t.client \in Clients
    BY DEF NoTx, Withdrawals
  <2>4. tx' = [tx EXCEPT ![x] = t] /\ UNCHANGED <<sess, token>>
    BY <1>8 DEF BeginDelete, Begin
  <2> HIDE DEF t
  <2>5. QED
    BY <2>1, <2>2, <2>3, <2>4 DEF TxChange, Begun
<1>9. QED
  BY <1>1, <1>2, <1>3, <1>4, <1>5, <1>6, <1>7, <1>8

LEMMA TxFilledStep == TypeOK /\ [Next]_vars => TxFilled'
<1> USE DEF users, clients, sso, grants
<1> SUFFICES ASSUME RowTypes, TxFilled, [Next]_vars PROVE TxFilled'
  BY DEF TypeOK
<1>0. /\ \A s \in Sessions : sess[s] # "none" => sess'[s] # "none"
      /\ \A r \in Redeems : token[r] # "none" => token'[r] # "none"
      /\ \A x \in Txs : tx[x] \in TxRec /\ tx[x].sessions \subseteq Sessions
                     /\ tx[x].tokens \cup tx[x].seen \subseteq Redeems
  BY RowsStay DEF RowTypes, TxRec
<1>1. ASSUME \A x \in Txs : \/ tx'[x] = tx[x] \/ tx'[x] = NoTx
                            \/ tx'[x] = Stale(tx[x])
      PROVE  TxFilled'
  <2> SUFFICES ASSUME NEW x \in Txs
               PROVE  /\ tx'[x].sessions \subseteq tx[x].sessions
                      /\ tx'[x].tokens \subseteq tx[x].tokens
                      /\ tx'[x].seen \subseteq tx[x].seen
                      /\ tx'[x].op \in Withdrawals => /\ tx'[x].op = tx[x].op
                                                      /\ tx'[x].client = tx[x].client
    BY <1>0 DEF TxFilled
  <2>1. CASE tx'[x] = NoTx
    BY <2>1 DEF NoTx, Withdrawals
  <2>2. CASE tx'[x] = Stale(tx[x])
    BY <1>0, <2>2 DEF Stale, TxRec
  <2>3. QED
    BY <1>1, <2>1, <2>2
<1>2. CASE Login \/ Authorize \/ Token \/ UNCHANGED vars
  BY <1>1, <1>2, Frames DEF vars
<1>3. CASE Account
  <2>1. tx' = tx \/ tx' = [x \in Txs |-> Stale(tx[x])]
    BY <1>3 DEF Account, CancelDeletion, VerifyEmail, DeleteEmail, ChangeEmail,
                AllowEmail
  <2>2. QED
    BY <1>1, <2>1
<1>4. CASE Withdraw
  <2>1. ASSUME NEW x \in Txs, TxRevoke(x) PROVE TxFilled'
    <3> DEFINE t == tx[x]
    <3>1. /\ \A y \in Txs \ {x} : tx'[y] = tx[y]
          /\ tx'[x].sessions = t.sessions
          /\ tx'[x].op = t.op /\ tx'[x].client = t.client
          /\ tx'[x].tokens = Hits(t)
          /\ tx'[x].seen \subseteq LiveTokensAt(t.client)
      BY <1>0, <2>1 DEF TxRevoke, RowTypes, TxRec
    <3>2. \A r \in Hits(t) \cup LiveTokensAt(t.client) : r \in Redeems /\ token[r] # "none"
      BY <1>0 DEF Hits, LiveTokensAt, LiveTokensOf, TxRec, Ops, Withdrawals
    <3>3. QED
      BY <1>0, <3>1, <3>2 DEF TxFilled
  <2>2. ASSUME NEW x \in Txs, CommitWithdrawal(x) PROVE TxFilled'
    BY <1>1, <2>2 DEF CommitWithdrawal
  <2>3. ASSUME NEW x \in Txs, tx' = [tx EXCEPT ![x] = NoTx] PROVE TxFilled'
    BY <1>1, <2>3 DEF RowTypes
  <2>4. ASSUME NEW x \in Txs, NEW t, Begun(x, t) PROVE TxFilled'
    BY <2>4, GrantsAssumption DEF RowTypes, TxFilled, Begun
  <2>5. QED
    BY <1>4, <2>1, <2>2, <2>3, <2>4, TxChanges DEF TxChange
<1>5. QED
  BY <1>2, <1>3, <1>4 DEF Next

LEMMA TypeStep == TypeOK /\ [Next]_vars => TypeOK'
BY RowTypesStep, SessionsFilledStep, AuthzFilledStep, RedeemsFilledStep, TxFilledStep
   DEF TypeOK

LEMMA InitTypes == Init => TypeOK
<1>1. Init => RowTypes
  BY GrantsAssumption DEF Init, RowTypes, Policies, AzRec, RdRec, TxRec, NoTx, Ops
<1>2. Init => SessionsFilled /\ AuthzFilled /\ RedeemsFilled /\ TxFilled
  BY DEF Init, SessionsFilled, AuthzFilled, RedeemsFilled, TxFilled, NoTx, Withdrawals
<1>3. QED
  BY <1>1, <1>2 DEF TypeOK

(* Every row and every request of Grants stays in one of the states the     *)
(* code knows, with the references it is used through filled in.            *)
THEOREM TypeCorrect == Spec => []TypeOK
BY InitTypes, TypeStep, PTL DEF Spec

-----------------------------------------------------------------------------
(* Codes.  A redemption that owns a code consumed it, so the code is spent  *)
(* and cannot be consumed again; and from then on the request of /authorize *)
(* that issued the code, and with it the client, no longer changes.         *)
Bound == \A r \in Redeems : rd[r].code # None =>
  /\ code[rd[r].code] = "spent"
  /\ az[rd[r].code].client = rd[r].client
  /\ rd[r].pc \notin {"idle", "authenticated"}

CodeInv == TypeOK /\ Bound /\ CodeBuysOneToken

LEMMA CodeStep == CodeInv /\ [Next]_vars => CodeInv'
<1> USE DEF users, clients, sso, grants
<1> SUFFICES ASSUME TypeOK, RowTypes, AuthzFilled, Bound, CodeBuysOneToken, [Next]_vars
             PROVE  Bound' /\ CodeBuysOneToken'
  BY TypeStep DEF CodeInv, TypeOK
<1>0. \A r \in Redeems : rd[r].code \in Authz \cup {None}
  BY DEF RowTypes, RdRec
<1>1. CASE Authorize
  <2>1. /\ UNCHANGED rd
        /\ \A a \in Authz : code[a] = "spent" =>
             code'[a] = "spent" /\ az'[a].client = az[a].client
    <3> SUFFICES ASSUME NEW b \in Authz,
           \/ \E s \in Sessions, c \in Clients : AuthorizeSession(b, s, c)
           \/ AuthorizeAdmit(b) \/ AuthorizeCovered(b) \/ AuthorizeGrant(b)
           \/ IssueCode(b)
           \/ CodeExpires(b)
                 PROVE  \A a \in Authz : code[a] = "spent" =>
                          code'[a] = "spent" /\ az'[a].client = az[a].client
      BY <1>1, Frames DEF Authorize
    <3>1. CASE \E s \in Sessions, c \in Clients : AuthorizeSession(b, s, c)
      BY <3>1 DEF RowTypes, AuthzFilled, AuthorizeSession
    <3>2. CASE AuthorizeAdmit(b) \/ AuthorizeCovered(b) \/ AuthorizeGrant(b)
      <4>1. az \in [Authz -> AzRec] /\ code' = code
            /\ \E pc : az' = [az EXCEPT ![b].pc = pc]
        BY <3>2 DEF RowTypes, AuthorizeAdmit, AuthorizeCovered, AuthorizeGrant
      <4>2. QED
        BY <4>1 DEF AzRec
    <3>3. CASE IssueCode(b)
      BY <3>3 DEF RowTypes, AzRec, AuthzFilled, IssueCode
    <3>4. CASE CodeExpires(b)
      BY <3>4 DEF RowTypes, CodeExpires
    <3>5. QED
      BY <3>1, <3>2, <3>3, <3>4
  <2>2. QED
    BY <1>0, <2>1 DEF Bound, CodeBuysOneToken
<1>2. CASE Token
  <2>1. PICK r \in Redeems :
           \/ \E c \in Clients : TokenAuthenticate(r, c)
           \/ \E a \in Authz, proved \in BOOLEAN : TokenConsume(r, a, proved)
           \/ TokenAdmit(r) \/ TokenFails(r) \/ TokenMint(r) \/ TokenEnds(r)
    BY <1>2 DEF Token
  <2>2. UNCHANGED az
    BY <1>2, Frames
  <2>3. CASE \E c \in Clients : TokenAuthenticate(r, c)
    BY <2>2, <2>3 DEF RowTypes, RdRec, Bound, CodeBuysOneToken, TokenAuthenticate
  <2>4. ASSUME NEW a \in Authz, NEW proved \in BOOLEAN, TokenConsume(r, a, proved)
        PROVE  Bound' /\ CodeBuysOneToken'
    <3>1. /\ code[a] = "fresh" /\ code' = [code EXCEPT ![a] = "spent"]
          /\ rd[r].pc = "authenticated" /\ rd[r].code = None
          /\ rd \in [Redeems -> RdRec] /\ rd[r] \in RdRec
      BY <2>4 DEF RowTypes, RdRec, Bound, TokenConsume
    <3>a. \A q \in Redeems : rd[q].code # a
      BY <3>1, GrantsAssumption DEF Bound
    <3>2. CASE proved /\ az[a].client = rd[r].client
      <4> DEFINE v == [rd[r] EXCEPT !.pc = "redeemed", !.code = a]
      <4>1. v.pc = "redeemed" /\ v.code = a /\ v.client = az[a].client
        BY <3>1, <3>2 DEF RdRec
      <4>2. rd' = [rd EXCEPT ![r] = v]
        BY <2>4, <3>2 DEF TokenConsume
      <4> HIDE DEF v
      <4>3. QED
        BY <1>0, <2>2, <3>1, <3>a, <4>1, <4>2 DEF RowTypes, Bound, CodeBuysOneToken
    <3>3. CASE ~(proved /\ az[a].client = rd[r].client)
      <4> DEFINE v == [rd[r] EXCEPT !.pc = "done"]
      <4>1. v.code = None
        BY <3>1 DEF RdRec
      <4>2. rd' = [rd EXCEPT ![r] = v]
        BY <2>4, <3>3 DEF TokenConsume
      <4> HIDE DEF v
      <4>3. QED
        BY <1>0, <2>2, <3>1, <3>a, <4>1, <4>2 DEF RowTypes, Bound, CodeBuysOneToken
    <3>4. QED
      BY <3>2, <3>3
  <2>5. CASE TokenAdmit(r) \/ TokenFails(r) \/ TokenMint(r)
    <3>1. /\ code' = code
          /\ \A q \in Redeems : /\ rd'[q].code = rd[q].code
                               /\ rd'[q].client = rd[q].client
                               /\ rd'[q].pc \in {rd[q].pc, "admitted", "done"}
      BY <2>5 DEF RowTypes, RdRec, TokenAdmit, TokenFails, TokenMint
    <3>2. QED
      BY <1>0, <2>2, <3>1 DEF Bound, CodeBuysOneToken
  <2>6. CASE TokenEnds(r)
    BY <2>2, <2>6 DEF Bound, CodeBuysOneToken, TokenEnds
  <2>7. QED
    BY <2>1, <2>3, <2>4, <2>5, <2>6
<1>3. CASE Login \/ Withdraw \/ Account \/ UNCHANGED vars
  <2>1. UNCHANGED <<az, code, rd>>
    BY <1>3, Frames DEF vars
  <2>2. QED
    BY <2>1 DEF Bound, CodeBuysOneToken
<1>4. QED
  BY <1>1, <1>2, <1>3 DEF Next

(* Codes and their owners fit together in every reachable state. *)
LEMMA CodeInvariant == Spec => []CodeInv
<1>1. Init => CodeInv
  BY InitTypes DEF Init, CodeInv, Bound, CodeBuysOneToken
<1>2. QED
  BY <1>1, CodeStep, PTL DEF Spec

(* An authorization code buys at most one access token, whatever the number *)
(* of redemptions and however their statements interleave.                  *)
THEOREM OneTokenPerCode == Spec => []CodeBuysOneToken
BY CodeInvariant, PTL DEF CodeInv

(* A token belongs to the client its code was issued to, although the code  *)
(* is burned before the two are compared.                                   *)
THEOREM TokenKeepsClient == Spec => []TokenStaysWithClient
<1>1. CodeInv => TokenStaysWithClient
  BY DEF CodeInv, TypeOK, RedeemsFilled, Bound, TokenStaysWithClient
<1>2. QED
  BY <1>1, CodeInvariant, PTL

-----------------------------------------------------------------------------
(* Grants implements OneTimeGrant: every step of a request or transaction   *)
(* is, on codes, their owners and tokens, a step that the abstract          *)
(* specification allows, or none at all.                                    *)

(* The owners of the codes, as the refinement mapping reads them from rd.   *)
HolderOf == [a \in Authz |-> {r \in Redeems : rd[r].code = a}]

(* Killing a set of tokens that exist is one Drop of those that live.       *)
LEMMA DeadDrops ==
  ASSUME RowTypes, NEW T \in SUBSET Redeems, \A r \in T : token[r] # "none",
         token' = Dead(T), UNCHANGED <<code, rd>>
  PROVE  OTG!Next
<1> DEFINE H == {r \in T : token[r] = "live"}
<1>1. token' = [r \in Redeems |-> IF r \in H THEN "dead" ELSE token[r]]
  BY DEF RowTypes, Dead
<1>2. H \in SUBSET Redeems /\ \A r \in H : token[r] = "live"
  OBVIOUS
<1> HIDE DEF H
<1>3. OTG!Drop(H)
  BY <1>1, <1>2 DEF OTG!Drop
<1>4. QED
  BY <1>2, <1>3 DEF OTG!Next

(* No step is one that touches neither codes, owners nor tokens. *)
LEMMA Stutters ==
  ASSUME UNCHANGED <<code, rd, token>>
  PROVE  [OTG!Next]_(OTG!vars)
BY DEF OTG!vars

LEMMA AuthorizeRefines ==
  ASSUME CodeInv, Authorize
  PROVE  [OTG!Next]_(OTG!vars)
<1> USE DEF users, clients, sso, grants
<1>1. PICK a \in Authz :
         \/ \E s \in Sessions, c \in Clients : AuthorizeSession(a, s, c)
         \/ AuthorizeAdmit(a) \/ AuthorizeCovered(a) \/ AuthorizeGrant(a)
         \/ IssueCode(a)
         \/ CodeExpires(a)
  BY DEF Authorize
<1>2. CASE \/ \E s \in Sessions, c \in Clients : AuthorizeSession(a, s, c)
           \/ AuthorizeAdmit(a) \/ AuthorizeCovered(a) \/ AuthorizeGrant(a)
  <2>1. UNCHANGED <<code, rd, token>>
    BY <1>2 DEF AuthorizeSession, AuthorizeAdmit, AuthorizeCovered, AuthorizeGrant
  <2>2. QED
    BY <2>1, Stutters
<1>3. CASE IssueCode(a)
  <2>1. code[a] = "none"
    BY <1>3 DEF CodeInv, TypeOK, AuthzFilled, RowTypes, IssueCode
  <2>2. /\ code' = [code EXCEPT ![a] = "fresh"]
        /\ UNCHANGED <<rd, token>>
    BY <1>3 DEF IssueCode
  <2>3. OTG!Issue(a)
    BY <2>1, <2>2 DEF OTG!Issue
  <2>4. QED
    BY <2>3 DEF OTG!Next
<1>4. CASE CodeExpires(a)
  <2>1. OTG!Void(a)
    BY <1>4 DEF CodeExpires, OTG!Void
  <2>2. QED
    BY <2>1 DEF OTG!Next
<1>5. QED
  BY <1>1, <1>2, <1>3, <1>4

LEMMA ConsumeRefines ==
  ASSUME CodeInv, NEW r \in Redeems, NEW a \in Authz, NEW proved \in BOOLEAN,
         TokenConsume(r, a, proved)
  PROVE  OTG!Next
<1>1. /\ rd[r].pc = "authenticated" /\ code[a] = "fresh"
      /\ code' = [code EXCEPT ![a] = "spent"]
      /\ UNCHANGED token
  BY DEF TokenConsume, grants
<1>2. /\ rd \in [Redeems -> RdRec] /\ rd[r] \in RdRec
      /\ rd[r].code = None
  BY <1>1 DEF CodeInv, TypeOK, RowTypes, RdRec, Bound
<1>3. \A q \in Redeems : rd[q].code # a
  BY <1>1, GrantsAssumption DEF CodeInv, Bound
<1>4. CASE proved /\ az[a].client = rd[r].client
  <2> DEFINE v == [rd[r] EXCEPT !.pc = "redeemed", !.code = a]
  <2>1. v.code = a
    BY <1>2 DEF RdRec
  <2>2. rd' = [rd EXCEPT ![r] = v]
    BY <1>4 DEF TokenConsume
  <2> HIDE DEF v
  <2>3. \A q \in Redeems : rd'[q].code = IF q = r THEN a ELSE rd[q].code
    BY <1>2, <2>1, <2>2
  <2>4. HolderOf' = [HolderOf EXCEPT ![a] = {r}]
    <3>1. {q \in Redeems : rd'[q].code = a} = {r}
      BY <1>3, <2>3
    <3>2. ASSUME NEW b \in Authz \ {a}
          PROVE  {q \in Redeems : rd'[q].code = b} = {q \in Redeems : rd[q].code = b}
      BY <1>2, <2>3, GrantsAssumption
    <3>3. QED
      BY <3>1, <3>2 DEF HolderOf
  <2>5. HolderOf[a] = {}
    BY <1>3 DEF HolderOf
  <2>6. OTG!Redeem(a, r)
    BY <1>1, <2>4, <2>5 DEF OTG!Redeem, HolderOf
  <2>7. QED
    BY <2>6 DEF OTG!Next
<1>5. CASE ~(proved /\ az[a].client = rd[r].client)
  <2> DEFINE v == [rd[r] EXCEPT !.pc = "done"]
  <2>1. v.code = rd[r].code
    BY <1>2 DEF RdRec
  <2>2. rd' = [rd EXCEPT ![r] = v]
    BY <1>5 DEF TokenConsume
  <2> HIDE DEF v
  <2>3. \A q \in Redeems : rd'[q].code = rd[q].code
    BY <1>2, <2>1, <2>2
  <2>4. HolderOf' = HolderOf
    BY <2>3 DEF HolderOf
  <2>5. OTG!Void(a)
    BY <1>1, <2>4 DEF OTG!Void, HolderOf
  <2>6. QED
    BY <2>5 DEF OTG!Next
<1>6. QED
  BY <1>4, <1>5

LEMMA TokenRefines ==
  ASSUME CodeInv, Token
  PROVE  [OTG!Next]_(OTG!vars)
<1> USE DEF users, clients, sso, grants
<1>1. PICK r \in Redeems :
         \/ \E c \in Clients : TokenAuthenticate(r, c)
         \/ \E a \in Authz, proved \in BOOLEAN : TokenConsume(r, a, proved)
         \/ TokenAdmit(r) \/ TokenFails(r)
         \/ TokenMint(r)
         \/ TokenEnds(r)
  BY DEF Token
<1>2. CASE \E a \in Authz, proved \in BOOLEAN : TokenConsume(r, a, proved)
  BY <1>2, ConsumeRefines
<1>3. CASE \/ \E c \in Clients : TokenAuthenticate(r, c)
           \/ TokenAdmit(r) \/ TokenFails(r)
  <2>1. /\ UNCHANGED <<code, token>>
        /\ \A q \in Redeems : rd'[q].code = rd[q].code
    <3>1. CASE \E c \in Clients : TokenAuthenticate(r, c)
      <4>1. rd[r].code = None
        BY <3>1 DEF CodeInv, TypeOK, RowTypes, RdRec, Bound, TokenAuthenticate
      <4>2. QED
        BY <3>1, <4>1 DEF CodeInv, TypeOK, RowTypes, TokenAuthenticate
    <3>2. CASE TokenAdmit(r) \/ TokenFails(r)
      <4>1. UNCHANGED <<code, token>> /\ \E pc : rd' = [rd EXCEPT ![r].pc = pc]
        BY <3>2 DEF TokenAdmit, TokenFails
      <4>2. rd \in [Redeems -> RdRec]
        BY DEF CodeInv, TypeOK, RowTypes
      <4>3. QED
        BY <4>1, <4>2 DEF RdRec
    <3>3. QED
      BY <1>3, <3>1, <3>2
  <2>2. HolderOf' = HolderOf
    BY <2>1 DEF HolderOf
  <2>3. QED
    BY <2>1, <2>2 DEF OTG!vars, HolderOf
<1>4. CASE TokenMint(r)
  <2>1. /\ token[r] = "none"
        /\ rd[r].code \in Authz
    BY <1>4 DEF CodeInv, TypeOK, RedeemsFilled, RowTypes, RdRec, TokenMint
  <2>2. \A q \in Redeems : rd'[q].code = rd[q].code
    BY <1>4 DEF CodeInv, TypeOK, RowTypes, RdRec, TokenMint
  <2>3. HolderOf' = HolderOf /\ r \in HolderOf[rd[r].code]
    BY <2>1, <2>2 DEF HolderOf
  <2>4. token' = [token EXCEPT ![r] = "live"] /\ UNCHANGED code
    BY <1>4 DEF TokenMint
  <2>5. OTG!Mint(r)
    BY <2>1, <2>3, <2>4 DEF OTG!Mint, HolderOf
  <2>6. QED
    BY <2>5 DEF OTG!Next
<1>5. CASE TokenEnds(r)
  <2>1. /\ token[r] # "none"
        /\ token' = Dead({r})
        /\ UNCHANGED <<code, rd>>
    BY <1>5 DEF TokenEnds, Dead, CodeInv, TypeOK, RowTypes
  <2>2. OTG!Next
    BY <2>1, DeadDrops DEF CodeInv, TypeOK
  <2>3. QED
    BY <2>2
<1>6. QED
  BY <1>1, <1>2, <1>3, <1>4, <1>5

(* Sign-out and the end of a transaction kill what their UPDATE found. *)
LEMMA OthersRefine ==
  ASSUME CodeInv, Login \/ Withdraw \/ Account \/ UNCHANGED vars
  PROVE  [OTG!Next]_(OTG!vars)
<1>1. UNCHANGED <<code, rd>>
  BY Frames DEF vars
<1>2. \/ token' = token
      \/ \E T \in SUBSET Redeems : /\ \A r \in T : token[r] # "none"
                                  /\ token' = Dead(T)
  <2>1. CASE Withdraw
    <3>1. \A x \in Txs : /\ tx[x].tokens \in SUBSET Redeems
                         /\ \A r \in tx[x].tokens : token[r] # "none"
      BY DEF CodeInv, TypeOK, RowTypes, TxRec, TxFilled
    <3>2. QED
      BY <2>1, <3>1, WithdrawWrites
  <2>2. CASE Login
    <3>1. PICK s \in Sessions :
             \/ \E u \in Users : LoginVerified(s, u) \/ CancelDeletionFinish(u, s)
             \/ LoginSession(s)
             \/ SessionExpires(s)
             \/ \E b \in Sessions : EndSession(b, s)
      BY <2>2 DEF Login
    <3>2. CASE \E b \in Sessions : EndSession(b, s)
      <4> DEFINE T == {r \in Redeems : token[r] = "live" /\ SessionHash(r) = s}
      <4>1. token' = Dead(T) /\ T \in SUBSET Redeems /\ \A r \in T : token[r] # "none"
        BY <3>2 DEF EndSession
      <4>2. QED
        BY <4>1
    <3>3. CASE ~\E b \in Sessions : EndSession(b, s)
      BY <3>1, <3>3 DEF LoginVerified, CancelDeletionFinish, LoginSession, SessionExpires,
                        grants
    <3>4. QED
      BY <3>2, <3>3
  <2>3. CASE Account \/ UNCHANGED vars
    BY <2>3, Frames DEF vars
  <2>4. QED
    BY <2>1, <2>2, <2>3
<1>3. CASE token' = token
  BY <1>1, <1>3, Stutters
<1>4. ASSUME NEW T \in SUBSET Redeems, \A r \in T : token[r] # "none", token' = Dead(T)
      PROVE  OTG!Next
  BY <1>1, <1>4, DeadDrops DEF CodeInv, TypeOK
<1>5. QED
  BY <1>2, <1>3, <1>4

(* However many requests, transactions and sign-outs run at once, codes and *)
(* tokens behave as OneTimeGrant promises: a code is issued once and bought *)
(* by one redemption, a token is minted on a code, and what was revoked or  *)
(* has expired never lives again.                                           *)
THEOREM GrantsAreOneTime == Spec => ImplementsOneTimeGrant
<1>1. Init => OTG!Init
  BY GrantsAssumption DEF Init, OTG!Init
<1>2. CodeInv /\ [Next]_vars => [OTG!Next]_(OTG!vars)
  BY AuthorizeRefines, TokenRefines, OthersRefine DEF Next
<1>3. QED
  BY <1>1, <1>2, CodeInvariant, PTL DEF Spec, ImplementsOneTimeGrant, OTG!Spec

-----------------------------------------------------------------------------
(* Access: which tokens may outlive a change of the rules.  CodeInv carries *)
(* codes and their owners along; here is what open withdrawals vouch for.   *)

(* What a withdrawal whose UPDATE has run knows of the tokens it looked at: *)
(* they are its client's, and those still live are on its list unless their *)
(* users stay admitted under the change it has not committed yet.           *)
Vouches(t) == \A r \in t.seen :
  /\ token[r] # "none" /\ rd[r].client = t.client
  /\ token[r] = "live" => r \in t.tokens \/ AdmittedIn(t, TokenUser(r))

WithdrawalsVouch == \A x \in Txs :
  tx[x].op \in Withdrawals /\ tx[x].stage = "revoked" /\ ~tx[x].stale => Vouches(tx[x])

(* A redemption past the admission check was admitted, or overtaken. *)
CheckedUnlessLate == \A r \in Redeems :
  rd[r].pc = "admitted" /\ r \notin late => Admitted(rd[r].client, TokenUser(r))

Coverage == AdmittedUnlessLate /\ CheckedUnlessLate /\ WithdrawalsVouch

(* A redemption keeps its client and its code, and the user behind them.    *)
LEMMA BuyersStay ==
  ASSUME CodeInv, CodeInv', [Next]_vars, NEW r \in Redeems, rd[r].code # None
  PROVE  /\ rd'[r].code = rd[r].code
         /\ rd'[r].client = rd[r].client
         /\ TokenUser(r)' = TokenUser(r)
<1> USE DEF users, clients, sso, grants
<1>1. /\ rd[r].code \in Authz /\ code[rd[r].code] = "spent"
      /\ az[rd[r].code].pc = "done" /\ rd[r].pc \notin {"idle", "authenticated"}
      /\ az[rd[r].code].session \in Sessions /\ sess[az[rd[r].code].session] # "none"
  BY DEF CodeInv, TypeOK, RowTypes, RdRec, AzRec, AuthzFilled, Bound
<1> DEFINE a == rd[r].code
<1>2. rd'[r].code = a /\ rd'[r].client = rd[r].client
  <2>1. CASE Token
    <3> PICK q \in Redeems :
           \/ \E c \in Clients : TokenAuthenticate(q, c)
           \/ \E b \in Authz, proved \in BOOLEAN : TokenConsume(q, b, proved)
           \/ TokenAdmit(q) \/ TokenFails(q) \/ TokenMint(q) \/ TokenEnds(q)
      BY <2>1 DEF Token
    <3>1. CASE q = r
      <4>1. TokenAdmit(r) \/ TokenFails(r) \/ TokenMint(r) \/ TokenEnds(r)
        BY <1>1, <3>1 DEF TokenAuthenticate, TokenConsume
      <4>2. rd \in [Redeems -> RdRec] /\ (rd' = rd \/ \E pc : rd' = [rd EXCEPT ![r].pc = pc])
        BY <4>1 DEF CodeInv, TypeOK, RowTypes, TokenAdmit, TokenFails, TokenMint,
                    TokenEnds
      <4>3. QED
        BY <4>2 DEF RdRec
    <3>2. CASE q # r
      <4>1. rd' = rd \/ \E v : rd' = [rd EXCEPT ![q] = v]
        BY Zenon DEF TokenAuthenticate, TokenConsume, TokenAdmit, TokenFails, TokenMint,
                     TokenEnds
      <4>2. QED
        BY <3>2, <4>1 DEF CodeInv, TypeOK, RowTypes
    <3>3. QED
      BY <3>1, <3>2
  <2>2. CASE Login \/ Authorize \/ Withdraw \/ Account \/ UNCHANGED vars
    BY <2>2, Frames DEF vars
  <2>3. QED
    BY <2>1, <2>2 DEF Next
<1>3. az'[a] = az[a]
  <2>1. CASE Authorize
    <3> PICK b \in Authz :
           \/ \E s \in Sessions, c \in Clients : AuthorizeSession(b, s, c)
           \/ AuthorizeAdmit(b) \/ AuthorizeCovered(b) \/ AuthorizeGrant(b)
           \/ IssueCode(b) \/ CodeExpires(b)
      BY <2>1 DEF Authorize
    <3>1. QED
      BY <1>1 DEF CodeInv, TypeOK, RowTypes, AuthorizeSession, AuthorizeAdmit,
                  AuthorizeCovered, AuthorizeGrant, IssueCode, CodeExpires
  <2>2. CASE Login \/ Token \/ Withdraw \/ Account \/ UNCHANGED vars
    BY <2>2, Frames DEF vars
  <2>3. QED
    BY <2>1, <2>2 DEF Next
<1>4. owner'[az[a].session] = owner[az[a].session]
  <2>1. CASE Login
    <3> PICK s \in Sessions :
           \/ \E u \in Users : LoginVerified(s, u) \/ CancelDeletionFinish(u, s)
           \/ LoginSession(s) \/ SessionExpires(s)
           \/ \E b \in Sessions : EndSession(b, s)
      BY <2>1 DEF Login
    <3>1. owner' = owner \/ (sess[s] = "none" /\ \E u : owner' = [owner EXCEPT ![s] = u])
      BY Zenon DEF LoginVerified, CancelDeletionFinish, LoginSession, SessionExpires,
                   EndSession
    <3>2. QED
      BY <1>1, <3>1 DEF CodeInv, TypeOK, RowTypes
  <2>2. CASE Authorize \/ Token \/ Withdraw \/ UNCHANGED vars
    BY <2>2, Frames DEF vars
  <2>3. CASE Account
    BY <2>3 DEF Account, CancelDeletion, VerifyEmail, DeleteEmail, ChangeEmail,
                AllowEmail
  <2>4. QED
    BY <2>1, <2>2, <2>3 DEF Next
<1>5. QED
  BY <1>2, <1>3, <1>4 DEF TokenUser, CodeUser

(* The buyer of a token is a user, and its client a client. *)
LEMMA BuyersTyped ==
  ASSUME CodeInv, NEW r \in Redeems, rd[r].code # None
  PROVE  TokenUser(r) \in Users /\ rd[r].client \in Clients
<1>1. rd[r].code \in Authz /\ code[rd[r].code] = "spent" /\ rd[r].pc # "idle"
  BY DEF CodeInv, TypeOK, RowTypes, RdRec, Bound
<1>2. az[rd[r].code].session \in Sessions /\ sess[az[rd[r].code].session] # "none"
  BY <1>1 DEF CodeInv, TypeOK, RowTypes, AzRec, AuthzFilled
<1>3. owner[az[rd[r].code].session] \in Users
  BY <1>2 DEF CodeInv, TypeOK, RowTypes, SessionsFilled
<1>4. rd[r].client \in Clients
  BY <1>1 DEF CodeInv, TypeOK, RowTypes, RdRec, RedeemsFilled
<1>5. QED
  BY <1>3, <1>4 DEF TokenUser, CodeUser

(* Coverage survives a step that only widens the access rules, mints for    *)
(* the admitted, and leaves every open withdrawal in place or vouched for.  *)
LEMMA CoverageKept ==
  ASSUME CodeInv, CodeInv', Coverage, [Next]_vars, late' = late,
         \A c \in Clients, u \in Users :
           Predicate(policy[c], enabled[c], allowed[c], email[u])
             => Predicate(policy'[c], enabled'[c], allowed'[c], email'[u]),
         \A t \in TxRec, u \in Users :
           t.op \in Withdrawals /\ t.client \in Clients /\ AdmittedIn(t, u)
             => AdmittedIn(t, u)',
         \A r \in Redeems : token'[r] = "live" => token[r] = "live" \/ rd[r].pc = "admitted",
         \A r \in Redeems : rd'[r].pc = "admitted" =>
           \/ rd[r].pc = "admitted"
           \/ rd[r].pc = "redeemed" /\ Admitted(rd[r].client, TokenUser(r)),
         \A x \in Txs : \/ tx'[x] = tx[x]
                       \/ tx'[x].stage # "revoked"
                       \/ Vouches(tx'[x])
  PROVE  Coverage'
<1>1. ASSUME NEW r \in Redeems, rd[r].code # None, Admitted(rd[r].client, TokenUser(r))
      PROVE  Admitted(rd[r].client, TokenUser(r))'
  <2>1. TokenUser(r) \in Users /\ rd[r].client \in Clients
    BY <1>1, BuyersTyped
  <2>2. rd'[r].client = rd[r].client /\ TokenUser(r)' = TokenUser(r)
    BY <1>1, BuyersStay
  <2>3. QED
    BY <1>1, <2>1, <2>2 DEF Admitted
<1>2. \A r \in Redeems :
        /\ rd[r].pc \in {"redeemed", "admitted"} \/ token[r] # "none" => rd[r].code # None
        /\ token[r] = "live" => rd[r].pc = "done"
  BY DEF CodeInv, TypeOK, RedeemsFilled
<1>3. AdmittedUnlessLate'
  BY <1>1, <1>2 DEF Coverage, AdmittedUnlessLate, CheckedUnlessLate
<1>4. CheckedUnlessLate'
  BY <1>1, <1>2 DEF Coverage, CheckedUnlessLate
<1>5. WithdrawalsVouch'
  <2> SUFFICES ASSUME NEW x \in Txs, tx'[x].op \in Withdrawals,
                      tx'[x].stage = "revoked", ~tx'[x].stale
               PROVE  Vouches(tx[x])'
    BY DEF WithdrawalsVouch
  <2>1. PICK t : t = tx'[x]
    OBVIOUS
  <2>2. t \in TxRec /\ t.client \in Clients /\ t.op \in Withdrawals
    BY <2>1 DEF CodeInv, TypeOK, RowTypes, TxFilled, TxRec
  <2>3. Vouches(t) /\ t.seen \subseteq Redeems
    BY <2>1, <2>2 DEF Coverage, WithdrawalsVouch, TxRec
  <2>4. ASSUME NEW r \in t.seen
        PROVE  /\ token'[r] # "none" /\ rd'[r].client = t.client
               /\ token'[r] = "live" => r \in t.tokens \/ AdmittedIn(t, TokenUser(r))'
    <3>1. /\ r \in Redeems /\ token[r] # "none" /\ rd[r].client = t.client
          /\ token[r] = "live" => r \in t.tokens \/ AdmittedIn(t, TokenUser(r))
      BY <2>3, <2>4 DEF Vouches
    <3>2. rd[r].code # None /\ rd[r].pc = "done"
      BY <3>1 DEF CodeInv, TypeOK, RedeemsFilled
    <3>3. PICK u \in Users : u = TokenUser(r)
      BY <3>1, <3>2, BuyersTyped
    <3>4. rd'[r].client = t.client /\ TokenUser(r)' = u
      BY <3>1, <3>2, <3>3, BuyersStay
    <3>5. AdmittedIn(t, u) => AdmittedIn(t, u)'
      BY <2>2
    <3>6. AdmittedIn(t, TokenUser(r))' <=> AdmittedIn(t, u)'
      BY <3>4 DEF AdmittedIn, Admitted
    <3>7. token'[r] # "none" /\ (token'[r] = "live" => token[r] = "live")
      BY <3>1, <3>2, RowsStay DEF CodeInv, TypeOK
    <3>8. QED
      BY <3>1, <3>3, <3>4, <3>5, <3>6, <3>7
  <2>5. QED
    BY <2>1, <2>4 DEF Vouches, AdmittedIn, Admitted
<1>6. QED
  BY <1>3, <1>4, <1>5 DEF Coverage

(* Enabling a client and listing an address take access from nobody. *)
LEMMA Widened ==
  ASSUME email' = email, policy' = policy,
         \A c \in Clients : enabled[c] => enabled'[c],
         \A c \in Clients : allowed[c] \subseteq allowed'[c]
  PROVE  /\ \A c \in Clients, u \in Users :
              Predicate(policy[c], enabled[c], allowed[c], email[u])
                => Predicate(policy'[c], enabled'[c], allowed'[c], email'[u])
         /\ \A t \in TxRec, u \in Users :
              t.op \in Withdrawals /\ t.client \in Clients /\ AdmittedIn(t, u)
                => AdmittedIn(t, u)'
<1>1. ASSUME NEW c \in Clients, NEW u \in Users,
             Predicate(policy[c], enabled[c], allowed[c], email[u])
      PROVE  Predicate(policy'[c], enabled'[c], allowed'[c], email'[u])
  BY <1>1 DEF Predicate
<1>2. ASSUME NEW t \in TxRec, NEW u \in Users, t.op \in Withdrawals,
             t.client \in Clients, AdmittedIn(t, u)
      PROVE  AdmittedIn(t, u)'
  <2>1. CASE t.op = "deny"
    BY <1>2, <2>1 DEF AdmittedIn, Predicate
  <2>2. CASE t.op = "policy"
    BY <1>2, <2>2 DEF AdmittedIn, Predicate
  <2>3. CASE t.op = "disable"
    BY <1>2, <2>3 DEF AdmittedIn
  <2>4. QED
    BY <1>2, <2>1, <2>2, <2>3 DEF Withdrawals
<1>3. QED
  BY <1>1, <1>2

(* The UPDATE of a withdrawal finds the client's live tokens, and lists     *)
(* those whose users its own change locks out.                              *)
LEMMA RevokeVouches ==
  ASSUME CodeInv, NEW x \in Txs, TxRevoke(x)
  PROVE  Vouches(tx'[x])
<1> DEFINE t == tx[x]
<1>1. t \in TxRec /\ tx \in [Txs -> TxRec]
      /\ (t.op \in Withdrawals => t.client \in Clients)
  BY GrantsAssumption DEF CodeInv, TypeOK, RowTypes, TxFilled, TxRec
<1> PICK n : n = tx'[x]
  OBVIOUS
<1>2. /\ n.op = t.op /\ n.client = t.client /\ n.email = t.email
      /\ n.policy = t.policy /\ n.tokens = Hits(t)
      /\ n.seen = IF t.op \in Withdrawals THEN LiveTokensAt(t.client) ELSE {}
  BY <1>1 DEF TxRevoke, TxRec
<1>3. \A u \in Users : AdmittedIn(n, u) <=> AdmittedIn(t, u)
  BY <1>2 DEF AdmittedIn
<1>4. ASSUME t.op \in Withdrawals, NEW r \in LiveTokensAt(t.client)
      PROVE  /\ token[r] # "none" /\ rd[r].client = t.client
             /\ r \in Hits(t) \/ AdmittedIn(t, TokenUser(r))
             /\ TokenUser(r) \in Users
  <2>1. r \in Redeems /\ token[r] = "live" /\ rd[r].client = t.client
    BY <1>4 DEF LiveTokensAt
  <2>2. rd[r].code # None
    BY <2>1 DEF CodeInv, TypeOK, RedeemsFilled
  <2>3. Hits(t) = {q \in LiveTokensAt(t.client) : ~AdmittedIn(t, TokenUser(q))}
    BY <1>4 DEF Hits, Withdrawals
  <2>4. QED
    BY <1>4, <2>1, <2>2, <2>3, BuyersTyped
<1>5. QED
  BY <1>2, <1>3, <1>4 DEF Vouches

(* The withdrawal's own change, once committed, admits whom its UPDATE      *)
(* took to be admitted.                                                     *)
LEMMA CommitAgrees ==
  ASSUME CodeInv, NEW x \in Txs, CommitWithdrawal(x), NEW u \in Users,
         AdmittedIn(tx[x], u)
  PROVE  Predicate(policy'[tx[x].client], enabled'[tx[x].client],
                   allowed'[tx[x].client], email'[u])
<1> DEFINE t == tx[x]
<1>1. /\ t.client \in Clients /\ t.op \in Withdrawals /\ UNCHANGED email
      /\ policy \in [Clients -> Policies] /\ enabled \in [Clients -> BOOLEAN]
      /\ allowed \in [Clients -> SUBSET Emails]
  BY GrantsAssumption DEF CodeInv, TypeOK, RowTypes, TxFilled, TxRec,
                          CommitWithdrawal, users
<1>2. CASE t.op = "deny"
  BY <1>1, <1>2 DEF CommitWithdrawal, AdmittedIn
<1>3. CASE t.op = "policy"
  BY <1>1, <1>3 DEF CommitWithdrawal, AdmittedIn
<1>4. CASE t.op = "disable"
  BY <1>1, <1>4 DEF AdmittedIn
<1>5. QED
  BY <1>1, <1>2, <1>3, <1>4 DEF Withdrawals

(* The commit of a withdrawal.  What is left live and not overtaken was on  *)
(* the list its UPDATE looked through, or belongs to another client.        *)
LEMMA CommitCovers ==
  ASSUME CodeInv, Coverage, NEW x \in Txs, CommitWithdrawal(x)
  PROVE  Coverage'
<1> USE DEF users, sso
<1> DEFINE t == tx[x]
           c == t.client
<1>1. /\ t \in TxRec /\ c \in Clients /\ t.op \in Withdrawals /\ t.stage = "revoked"
      /\ UNCHANGED <<email, owner, az, rd>>
      /\ \A r \in Redeems : /\ token'[r] = "live" => token[r] = "live" /\ r \notin t.tokens
                            /\ token[r] # "none" => token'[r] # "none"
  BY GrantsAssumption
     DEF CodeInv, TypeOK, RowTypes, TxFilled, TxRec, CommitWithdrawal, Dead
<1>2. \A r \in Covered(t) : r \in t.seen /\ Vouches(t)
  BY <1>1 DEF Coverage, WithdrawalsVouch, Covered
<1>3. \A d \in Clients \ {c} : /\ policy'[d] = policy[d] /\ enabled'[d] = enabled[d]
                               /\ allowed'[d] = allowed[d]
  BY <1>1 DEF CodeInv, TypeOK, RowTypes, CommitWithdrawal
<1>4. ASSUME NEW r \in Redeems, r \notin late',
             rd[r].pc = "admitted" \/ token'[r] = "live"
      PROVE  Admitted(rd[r].client, TokenUser(r))'
  <2>1. rd[r].code # None /\ r \in Checked(rd[r].client)
    BY <1>1, <1>4 DEF CodeInv, TypeOK, RedeemsFilled, Checked
  <2>2. PICK u \in Users : u = TokenUser(r)
    BY <2>1, BuyersTyped
  <2>3. rd'[r].client = rd[r].client /\ TokenUser(r)' = u /\ rd[r].client \in Clients
    BY <1>1, <2>1, <2>2, BuyersTyped DEF TokenUser, CodeUser
  <2>4. CASE rd[r].client = c
    <3>1. r \in Covered(t)
      BY <1>4, <2>1, <2>4 DEF CommitWithdrawal
    <3>2. Vouches(t) /\ r \in t.seen
      BY <1>2, <3>1
    <3>3. rd[r].pc # "admitted"
      BY <3>2 DEF Vouches, CodeInv, TypeOK, RedeemsFilled
    <3>4. AdmittedIn(t, u)
      BY <1>1, <1>4, <2>2, <3>2, <3>3 DEF Vouches
    <3>5. Predicate(policy'[c], enabled'[c], allowed'[c], email'[u])
      BY <3>4, CommitAgrees
    <3>6. QED
      BY <2>3, <2>4, <3>5 DEF Admitted
  <2>5. CASE rd[r].client # c
    <3>1. r \notin Covered(t)
      BY <1>2, <2>5 DEF Vouches
    <3>2. r \notin late
      BY <1>4, <3>1 DEF CommitWithdrawal
    <3>3. Admitted(rd[r].client, u)
      BY <1>1, <1>4, <2>2, <3>2 DEF Coverage, AdmittedUnlessLate, CheckedUnlessLate
    <3>4. QED
      BY <1>1, <1>3, <2>3, <2>5, <3>3 DEF Admitted
  <2>6. QED
    BY <2>4, <2>5
<1>5. AdmittedUnlessLate' /\ CheckedUnlessLate'
  BY <1>1, <1>4 DEF AdmittedUnlessLate, CheckedUnlessLate
<1>6. WithdrawalsVouch'
  <2> SUFFICES ASSUME NEW y \in Txs, tx'[y].op \in Withdrawals,
                      tx'[y].stage = "revoked", ~tx'[y].stale
               PROVE  Vouches(tx[y])'
    BY DEF WithdrawalsVouch
  <2>1. y # x
    BY DEF CommitWithdrawal, NoTx
  <2>2. tx[y] \in TxRec
    BY DEF CodeInv, TypeOK, RowTypes
  <2>3. tx'[y] = tx[y] /\ tx[y].client # c
    BY <2>1, <2>2 DEF CommitWithdrawal, Stale, TxRec
  <2>4. PICK n : n = tx[y] /\ n = tx'[y]
    BY <2>3
  <2>5. /\ n.client \in Clients \ {c} /\ n.op \in Withdrawals /\ n.seen \subseteq Redeems
        /\ Vouches(n)
    BY <2>2, <2>3, <2>4 DEF CodeInv, TypeOK, TxFilled, RowTypes, TxRec, Coverage,
                            WithdrawalsVouch
  <2>6. ASSUME NEW r \in n.seen
        PROVE  /\ token'[r] # "none" /\ rd'[r].client = n.client
               /\ token'[r] = "live" => r \in n.tokens \/ AdmittedIn(n, TokenUser(r))'
    <3>1. /\ r \in Redeems /\ token[r] # "none" /\ rd[r].client = n.client
          /\ token[r] = "live" => r \in n.tokens \/ AdmittedIn(n, TokenUser(r))
      BY <2>5, <2>6 DEF Vouches
    <3>2. PICK u : u = TokenUser(r) /\ u = TokenUser(r)'
      BY <1>1 DEF TokenUser, CodeUser
    <3>3. AdmittedIn(n, u) => AdmittedIn(n, u)'
      BY <1>1, <1>3, <2>5 DEF AdmittedIn, Withdrawals
    <3>4. AdmittedIn(n, TokenUser(r))' <=> AdmittedIn(n, u)'
      BY <3>2 DEF AdmittedIn, Admitted
    <3>5. QED
      BY <1>1, <3>1, <3>2, <3>3, <3>4
  <2>7. QED
    BY <2>4, <2>6 DEF Vouches, AdmittedIn, Admitted
<1>7. QED
  BY <1>5, <1>6 DEF Coverage

(* A change of address overtakes what the user holds, and leaves every      *)
(* UPDATE that ran before it without a say.                                 *)
LEMMA ChangeCovers ==
  ASSUME CodeInv, Coverage, NEW u \in Users, NEW e, ChangeEmail(u, e)
  PROVE  Coverage'
<1> USE DEF clients, sso, grants
<1>1. UNCHANGED <<policy, enabled, allowed, owner, az, rd, token>>
      /\ \A v \in Users \ {u} : email'[v] = email[v]
  BY DEF ChangeEmail, CodeInv, TypeOK, RowTypes
<1>2. ASSUME NEW r \in Redeems, r \notin late',
             rd[r].pc = "admitted" \/ token[r] = "live"
      PROVE  Admitted(rd[r].client, TokenUser(r))'
  <2>1. rd[r].code # None
    BY <1>2 DEF CodeInv, TypeOK, RedeemsFilled
  <2>2. PICK v \in Users : v = TokenUser(r)
    BY <2>1, BuyersTyped
  <2>3. TokenUser(r)' = v
    BY <1>1, <2>2 DEF TokenUser, CodeUser
  <2>4. v # u /\ r \notin late
    BY <1>2, <2>2 DEF ChangeEmail
  <2>5. Admitted(rd[r].client, v)
    BY <1>2, <2>2, <2>4 DEF Coverage, AdmittedUnlessLate, CheckedUnlessLate
  <2>6. QED
    BY <1>1, <2>3, <2>4, <2>5 DEF Admitted
<1>3. AdmittedUnlessLate' /\ CheckedUnlessLate'
  BY <1>1, <1>2 DEF AdmittedUnlessLate, CheckedUnlessLate
<1>4. WithdrawalsVouch'
  <2>1. \A x \in Txs : tx[x] \in TxRec /\ tx'[x] = Stale(tx[x])
    BY DEF ChangeEmail, CodeInv, TypeOK, RowTypes
  <2>2. \A t \in TxRec : /\ Stale(t).op = t.op /\ Stale(t).stage = t.stage
                         /\ t.op \in Withdrawals /\ t.stage = "revoked" => Stale(t).stale
    BY DEF Stale, TxRec
  <2>3. QED
    BY <2>1, <2>2 DEF WithdrawalsVouch
<1>5. QED
  BY <1>3, <1>4 DEF Coverage

LEMMA CoverageStep == CodeInv /\ Coverage /\ [Next]_vars => Coverage'
<1> SUFFICES ASSUME CodeInv, Coverage, [Next]_vars PROVE Coverage'
  OBVIOUS
<1> USE DEF users, clients, sso, grants
<1>0. CodeInv'
  BY CodeStep
<1>1. ASSUME UNCHANGED <<email, policy, late>>,
             \A c \in Clients : enabled[c] => enabled'[c],
             \A c \in Clients : allowed[c] \subseteq allowed'[c],
             \A r \in Redeems : token'[r] = "live" => token[r] = "live" \/ rd[r].pc = "admitted",
             \A r \in Redeems : rd'[r].pc = "admitted" =>
               \/ rd[r].pc = "admitted"
               \/ rd[r].pc = "redeemed" /\ Admitted(rd[r].client, TokenUser(r)),
             \A x \in Txs : \/ tx'[x] = tx[x]
                           \/ tx'[x].stage # "revoked"
                           \/ Vouches(tx'[x])
      PROVE  Coverage'
  BY <1>0, <1>1, CoverageKept, Widened
<1>2. CASE Login
  <2>1. \A r \in Redeems : token'[r] = "live" => token[r] = "live"
    BY <1>2 DEF Login, LoginVerified, CancelDeletionFinish, LoginSession,
                SessionExpires, EndSession, Dead
  <2>2. UNCHANGED <<email, policy, enabled, allowed, late, rd, tx>>
    BY <1>2, Frames
  <2>3. QED
    BY <1>1, <2>1, <2>2
<1>3. CASE Authorize \/ UNCHANGED vars
  BY <1>1, <1>3, Frames DEF vars
<1>4. CASE Token
  <2>1. PICK r \in Redeems :
           \/ \E c \in Clients : TokenAuthenticate(r, c)
           \/ \E a \in Authz, proved \in BOOLEAN : TokenConsume(r, a, proved)
           \/ TokenAdmit(r) \/ TokenFails(r) \/ TokenMint(r) \/ TokenEnds(r)
    BY <1>4 DEF Token
  <2>2. token \in [Redeems -> {"none", "live", "dead"}] /\ rd \in [Redeems -> RdRec]
    BY DEF CodeInv, TypeOK, RowTypes
  <2>3. \A q \in Redeems : token'[q] = "live" => token[q] = "live" \/ rd[q].pc = "admitted"
    BY <2>1, <2>2 DEF TokenAuthenticate, TokenConsume, TokenAdmit, TokenFails, TokenMint,
                      TokenEnds
  <2>4. \A q \in Redeems : rd'[q].pc = "admitted" =>
          \/ rd[q].pc = "admitted"
          \/ rd[q].pc = "redeemed" /\ Admitted(rd[q].client, TokenUser(q))
    <3>1. CASE \E a \in Authz, proved \in BOOLEAN : TokenConsume(r, a, proved)
      <4>0. rd[r] \in RdRec
        BY <2>2
      <4>1. PICK v : rd' = [rd EXCEPT ![r] = v] /\ v.pc # "admitted"
        <5> PICK a \in Authz, proved \in BOOLEAN : TokenConsume(r, a, proved)
          BY <3>1
        <5>1. CASE proved /\ az[a].client = rd[r].client
          <6> DEFINE v == [rd[r] EXCEPT !.pc = "redeemed", !.code = a]
          <6>1. rd' = [rd EXCEPT ![r] = v]
            BY <5>1 DEF TokenConsume
          <6>2. v.pc # "admitted"
            BY <4>0 DEF RdRec
          <6>3. QED
            BY <6>1, <6>2
        <5>2. CASE ~(proved /\ az[a].client = rd[r].client)
          <6> DEFINE v == [rd[r] EXCEPT !.pc = "done"]
          <6>1. rd' = [rd EXCEPT ![r] = v]
            BY <5>2 DEF TokenConsume
          <6>2. v.pc # "admitted"
            BY <4>0 DEF RdRec
          <6>3. QED
            BY <6>1, <6>2
        <5>3. QED
          BY <5>1, <5>2
      <4>2. QED
        BY <2>2, <4>1
    <3>2. CASE TokenAdmit(r)
      <4> DEFINE pc == IF Admitted(rd[r].client, TokenUser(r)) THEN "admitted" ELSE "done"
      <4>1. /\ rd' = [rd EXCEPT ![r].pc = pc] /\ rd[r].pc = "redeemed"
            /\ pc = "admitted" => Admitted(rd[r].client, TokenUser(r))
        BY <3>2 DEF TokenAdmit
      <4> HIDE DEF pc
      <4>2. QED
        BY <2>2, <4>1 DEF RdRec
    <3>3. CASE TokenFails(r) \/ TokenMint(r) \/ TokenEnds(r)
      BY <2>2, <3>3 DEF TokenFails, TokenMint, TokenEnds, RdRec
    <3>4. CASE \E c \in Clients : TokenAuthenticate(r, c)
      BY <2>2, <3>4 DEF TokenAuthenticate
    <3>5. QED
      BY <2>1, <3>1, <3>2, <3>3, <3>4
  <2>5. QED
    BY <1>1, <1>4, <2>3, <2>4, Frames
<1>5. CASE Withdraw
  <2>1. CASE \E x \in Txs : CommitWithdrawal(x)
    BY <2>1, CommitCovers
  <2>2. CASE ~\E x \in Txs : CommitWithdrawal(x)
    <3>1. /\ UNCHANGED <<email, policy, allowed, late, rd>>
          /\ \A c \in Clients : enabled[c] => enabled'[c]
      <4> PICK x \in Txs : \/ \E t : Begin(x, t)
                           \/ TxRevoke(x) \/ CommitEnable(x) \/ CommitAccount(x)
                           \/ TxRollback(x)
        BY <1>5, <2>2 DEF Withdraw, BeginDeny, BeginPolicy, BeginEnable, BeginConsent,
                          BeginSignOut, BeginDelete
      <4>1. CASE CommitEnable(x)
        BY <4>1 DEF CommitEnable, CodeInv, TypeOK, RowTypes
      <4>2. CASE (\E t : Begin(x, t)) \/ TxRevoke(x) \/ CommitAccount(x) \/ TxRollback(x)
        BY <4>2 DEF Begin, TxRevoke, CommitAccount, TxRollback
      <4>3. QED
        BY <4>1, <4>2
    <3>2. \A r \in Redeems : token'[r] = "live" => token[r] = "live"
      BY <1>5, WithdrawWrites DEF Dead
    <3>3. \A x \in Txs : tx'[x] = tx[x] \/ tx'[x].stage # "revoked" \/ Vouches(tx'[x])
      <4> PICK y \in Txs : (\E t : Begun(y, t)) \/ TxRevoke(y) \/ tx' = [tx EXCEPT ![y] = NoTx]
        BY <1>5, <2>2, TxChanges DEF TxChange
      <4>0. tx \in [Txs -> TxRec]
        BY DEF CodeInv, TypeOK, RowTypes
      <4>1. CASE \E t : Begun(y, t)
        BY <4>0, <4>1 DEF Begun
      <4>2. CASE TxRevoke(y)
        <5>1. Vouches(tx'[y])
          BY <4>2, RevokeVouches
        <5>2. \E v : tx' = [tx EXCEPT ![y] = v]
          BY <4>2 DEF TxRevoke
        <5>3. QED
          BY <4>0, <5>1, <5>2
      <4>3. CASE tx' = [tx EXCEPT ![y] = NoTx]
        BY <4>0, <4>3 DEF NoTx
      <4>4. QED
        BY <4>1, <4>2, <4>3
    <3>4. QED
      BY <1>1, <3>1, <3>2, <3>3
  <2>3. QED
    BY <2>1, <2>2
<1>6. CASE Account
  <2>1. CASE \E u \in Users : \E e : ChangeEmail(u, e)
    BY <2>1, ChangeCovers
  <2>2. CASE \E u \in Users : CancelDeletion(u)
    BY <1>1, <2>2 DEF CancelDeletion
  <2>3. CASE \E c \in Clients, e \in Emails : AllowEmail(c, e)
    BY <1>1, <2>3 DEF AllowEmail, CodeInv, TypeOK, RowTypes
  <2>4. QED
    BY <1>6, <2>1, <2>2, <2>3 DEF Account, VerifyEmail, DeleteEmail
<1>7. QED
  BY <1>2, <1>3, <1>4, <1>5, <1>6 DEF Next

(* In every reachable state the tokens not overtaken are admitted ones, and *)
(* every withdrawal about to commit vouches for what it looked at.          *)
LEMMA CoverageInvariant == Spec => []Coverage
<1>1. Init => Coverage
  BY DEF Init, Coverage, AdmittedUnlessLate, CheckedUnlessLate, WithdrawalsVouch, NoTx
<1>2. QED
  BY <1>1, CodeInvariant, CoverageStep, PTL DEF Spec

(* A live token belongs to a user its client admits now, unless a change of *)
(* the rules overtook its redemption: revokeClientAccessForNewlyDenied has  *)
(* no other gap, for any number of users, clients, redemptions and          *)
(* concurrent transactions.                                                 *)
THEOREM TokensAreAdmitted == Spec => []AdmittedUnlessLate
BY CoverageInvariant, PTL DEF Coverage

(* A withdrawal no other change of the rules came in between of leaves no   *)
(* token it looked at with a user the client does not admit any more.       *)
THEOREM WithdrawalsCover == Spec => WithdrawalCovers
<1>1. ASSUME CodeInv, CodeInv', Coverage, [Next]_vars
      PROVE  [\A x \in Txs : CommitWithdrawal(x) =>
                \A r \in Covered(tx[x]) :
                  token'[r] = "live" => Admitted(rd[r].client, TokenUser(r))']_vars
  <2> SUFFICES ASSUME NEW x \in Txs, CommitWithdrawal(x), NEW r \in Covered(tx[x]),
                      token'[r] = "live"
               PROVE  Admitted(rd[r].client, TokenUser(r))'
    OBVIOUS
  <2>1. /\ r \in tx[x].seen /\ Vouches(tx[x]) /\ tx[x].seen \subseteq Redeems
    BY <1>1 DEF CommitWithdrawal, Covered, Coverage, WithdrawalsVouch, CodeInv, TypeOK,
           RowTypes, TxRec
  <2>2. /\ r \in Redeems /\ token[r] = "live" /\ r \notin tx[x].tokens
        /\ rd[r].client = tx[x].client
    BY <2>1 DEF CommitWithdrawal, Dead, Vouches
  <2>3. rd[r].code # None
    BY <1>1, <2>2 DEF CodeInv, TypeOK, RedeemsFilled
  <2>4. PICK u \in Users : u = TokenUser(r) /\ TokenUser(r)' = u
    BY <1>1, <2>2, <2>3, BuyersTyped, BuyersStay
  <2>5. AdmittedIn(tx[x], u)
    BY <2>1, <2>2, <2>4 DEF Vouches
  <2>6. QED
    BY <1>1, <2>2, <2>3, <2>4, <2>5, CommitAgrees, BuyersStay DEF Admitted
<1>2. QED
  BY <1>1, CodeInvariant, CoverageInvariant, PTL DEF Spec, WithdrawalCovers

=============================================================================
