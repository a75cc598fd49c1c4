--------------------------- MODULE RecoveryProofs ---------------------------
(***************************************************************************)
(* Passkeys and recoveries, for every number of passkeys, recoveries,      *)
(* sessions and requests in flight.  What carries the argument is the fate *)
(* of a replacement: nobody but its recovery refers to it, it is pending   *)
(* or revoked while the recovery is in quarantine, and revoked once that   *)
(* is cancelled, so the finalizer cannot activate it any more.             *)
(***************************************************************************)
EXTENDS Recovery, FiniteSetTheorems, TLAPS

(* Nothing refers to a passkey that is not there. *)
RowsExist ==
  /\ \A p \in Requests : req[p].pc = "login" => cred[req[p].cred] # "none"
  /\ \A s \in Sessions : by[s] # None => cred[by[s]] # "none"
  /\ \A i \in Recoveries : repl[i] # None => cred[repl[i]] # "none"

(* A replacement belongs to one recovery, which has begun its quarantine. *)
OwnReplacement ==
  /\ \A i, j \in Recoveries : repl[i] # None /\ repl[i] = repl[j] => i = j
  /\ \A i \in Recoveries : rec[i] \in {"none", "link_sent"} => repl[i] = None

(* The states of a replacement that go with the states of its recovery. *)
Fate ==
  \A i \in Recoveries : repl[i] # None =>
    /\ rec[i] = "quarantine" => cred[repl[i]] \in {"recovery_pending", "revoked"}
    /\ rec[i] = "cancelled" => cred[repl[i]] = "revoked"
    /\ rec[i] # "completed" =>
         /\ \A s \in Sessions : by[s] # repl[i]
         /\ \A p \in Requests : req[p].pc = "login" => req[p].cred # repl[i]

(* What the finalizer has on its list was in quarantine, and still is or   *)
(* was cancelled.                                                          *)
Listed ==
  \A i \in fin : repl[i] # None /\ rec[i] \in {"quarantine", "cancelled"}

(* A login that nothing has overtaken holds a passkey that is still good. *)
LoginsHold ==
  \A p \in Requests : req[p].pc = "login" /\ p \notin late => cred[req[p].cred] = "active"

(* A revocation that nothing has overtaken leaves another passkey. *)
CountsHold ==
  \A p \in Requests : req[p].pc = "counted" /\ p \notin late =>
    \E k \in Creds \ {req[p].cred} : cred[k] = "active"

Inv == /\ TypeOK /\ RowsExist /\ OneRecoveryUnderway /\ OwnReplacement /\ Fate
       /\ Listed /\ LoginsHold /\ RevokedPasskeySignsOut /\ CountsHold

LEMMA InitInv == Init => Inv
BY RecoveryAssumption DEF Init, Inv, TypeOK, RowsExist, OneRecoveryUnderway, Underway,
   OwnReplacement, Fate, Listed, LoginsHold, RevokedPasskeySignsOut, CountsHold, Idle, ReqRec

-----------------------------------------------------------------------------
(* Requests come and go, and sessions end: no passkey and no recovery      *)
(* changes.                                                                *)
LEMMA RequestsKeep ==
  ASSUME Inv, NEW p \in Requests,
         \/ \E k \in Creds : LoginVerified(p, k)
         \/ \E s \in Sessions : Authorized(p, s)
         \/ StartCheck(p) \/ RequestEnds(p)
  PROVE  Inv'
<1> USE RecoveryAssumption DEF Inv, TypeOK, ReqRec
<1>1. UNCHANGED <<cred, rec, repl, due, link, sess, by, fin>>
  BY DEF LoginVerified, Authorized, StartCheck, RequestEnds, recovery, sso
<1>2. PICK pc \in {"idle", "login", "authorized", "starting"}, k \in Creds \cup {None} :
        /\ req' = [req EXCEPT ![p] = [pc |-> pc, cred |-> k]]
        /\ pc = "login" => k # None /\ cred[k] = "active"
  BY DEF LoginVerified, Authorized, StartCheck, RequestEnds, Goto
<1>3. late' \in {late, late \ {p}}
  BY DEF LoginVerified, Authorized, StartCheck, RequestEnds
<1>4. \A q \in Requests : q # p => req'[q] = req[q]
  BY <1>2
<1>5. req'[p].pc = pc /\ req'[p].cred = k
  BY <1>2
<1>6. TypeOK'
  BY <1>1, <1>2, <1>3, <1>4, <1>5
<1>7. RowsExist'
  BY <1>1, <1>2, <1>4, <1>5 DEF RowsExist
<1>8. OneRecoveryUnderway' /\ OwnReplacement' /\ Listed'
  BY <1>1 DEF OneRecoveryUnderway, Underway, OwnReplacement, Listed
<1>9. Fate'
  BY <1>1, <1>2, <1>4, <1>5 DEF Fate, OwnReplacement
<1>10. LoginsHold' /\ CountsHold'
  BY <1>1, <1>2, <1>3, <1>4, <1>5 DEF LoginsHold, CountsHold
<1>11. RevokedPasskeySignsOut'
  BY <1>1, <1>3 DEF RevokedPasskeySignsOut
<1>12. QED
  BY <1>6, <1>7, <1>8, <1>9, <1>10, <1>11 DEF Inv

(* The insert of a session, for a login that holds a passkey. *)
LEMMA LoginKeeps ==
  ASSUME Inv, NEW p \in Requests, NEW s \in Sessions, LoginSession(p, s)
  PROVE  Inv'
<1> USE RecoveryAssumption DEF Inv, TypeOK, ReqRec
<1>1. UNCHANGED <<cred, rec, repl, due, link, fin>>
  BY DEF LoginSession, recovery
<1>2. /\ req[p].pc = "login" /\ req[p].cred \in Creds
      /\ req' = [req EXCEPT ![p] = [pc |-> "idle", cred |-> None]]
      /\ sess' = [sess EXCEPT ![s] = "live"]
      /\ by' = [by EXCEPT ![s] = req[p].cred]
      /\ late' = IF p \in late THEN (late \ {p}) \cup {s} ELSE late
  BY DEF LoginSession, Goto
<1>3. \A q \in Requests : /\ q # p => req'[q] = req[q] /\ (q \in late' <=> q \in late)
                          /\ q = p => req'[q].pc = "idle"
  BY <1>2
<1>4. TypeOK' /\ RowsExist'
  BY <1>1, <1>2, <1>3 DEF RowsExist
<1>5. OneRecoveryUnderway' /\ OwnReplacement' /\ Listed'
  BY <1>1 DEF OneRecoveryUnderway, Underway, OwnReplacement, Listed
<1>6. Fate'
  BY <1>1, <1>2, <1>3 DEF Fate
<1>7. LoginsHold' /\ CountsHold'
  BY <1>1, <1>3 DEF LoginsHold, CountsHold
<1>8. RevokedPasskeySignsOut'
  BY <1>1, <1>2 DEF RevokedPasskeySignsOut, LoginsHold
<1>9. QED
  BY <1>4, <1>5, <1>6, <1>7, <1>8 DEF Inv

LEMMA SessionsKeep ==
  ASSUME Inv, (\E s \in Sessions : SessionExpires(s)) \/ (\E S \in SUBSET Sessions : SignOut(S))
  PROVE  Inv'
<1> USE RecoveryAssumption DEF Inv, TypeOK, ReqRec
<1>1. UNCHANGED <<cred, rec, repl, due, link, by, req, fin, late>>
  BY DEF SessionExpires, SignOut, recovery
<1>2. /\ sess' \in [Sessions -> {"none", "live", "expired", "revoked"}]
      /\ \A s \in Sessions : sess'[s] = sess[s] \/ (sess[s] = "live" /\ sess'[s] # "live")
  BY DEF SessionExpires, SignOut, RevokeSessions
<1>3. QED
  BY <1>1, <1>2 DEF Inv, RowsExist, OneRecoveryUnderway, Underway, OwnReplacement, Fate,
     Listed, LoginsHold, RevokedPasskeySignsOut, CountsHold

-----------------------------------------------------------------------------
(* Passkeys.                                                               *)
LEMMA AddKeeps ==
  ASSUME Inv, NEW p \in Requests, NEW k \in Creds, AddCredential(p, k)
  PROVE  Inv'
<1> USE RecoveryAssumption DEF Inv, TypeOK, ReqRec
<1>1. UNCHANGED <<rec, repl, due, link, sess, by, fin, late>>
  BY DEF AddCredential, recovery, sso
<1>2. /\ cred[k] = "none"
      /\ cred' = [cred EXCEPT ![k] = "active"]
      /\ req' = [req EXCEPT ![p] = [pc |-> "idle", cred |-> None]]
  BY DEF AddCredential, Goto
<1>3. \A q \in Requests : (q # p => req'[q] = req[q]) /\ (q = p => req'[q].pc = "idle")
  BY <1>2
<1>4. \A j \in Creds : j # k => cred'[j] = cred[j]
  BY <1>2
<1>5. TypeOK' /\ RowsExist'
  BY <1>1, <1>2, <1>3, <1>4 DEF RowsExist
<1>6. OneRecoveryUnderway' /\ OwnReplacement' /\ Listed'
  BY <1>1 DEF OneRecoveryUnderway, Underway, OwnReplacement, Listed
<1>7. Fate'
  BY <1>1, <1>2, <1>3, <1>4 DEF Fate, RowsExist
<1>8. LoginsHold' /\ CountsHold'
  BY <1>1, <1>2, <1>3, <1>4 DEF LoginsHold, CountsHold
<1>9. RevokedPasskeySignsOut'
  BY <1>1, <1>2, <1>4 DEF RevokedPasskeySignsOut
<1>10. QED
  BY <1>5, <1>6, <1>7, <1>8, <1>9 DEF Inv

(* More than one usable passkey: there is one besides any given passkey. *)
LEMMA AnotherActive ==
  ASSUME NEW k \in Creds, Cardinality(Active) > 1
  PROVE  \E j \in Creds \ {k} : cred[j] = "active"
<1>1. SUFFICES ASSUME Active \subseteq {k} PROVE FALSE
  BY DEF Active
<1>2. IsFiniteSet({k}) /\ Cardinality({k}) = 1
  BY FS_Singleton
<1>3. Cardinality(Active) <= 1 /\ Cardinality(Active) \in Nat
  BY <1>1, <1>2, FS_Subset, FS_CardinalityType
<1>4. QED
  BY <1>3

LEMMA CountKeeps ==
  ASSUME Inv, NEW p \in Requests, NEW k \in Creds, RevokeCount(p, k)
  PROVE  Inv'
<1> USE RecoveryAssumption DEF Inv, TypeOK, ReqRec
<1>1. UNCHANGED <<cred, rec, repl, due, link, sess, by, fin, late>>
  BY DEF RevokeCount, recovery, sso
<1>2. req' = [req EXCEPT ![p] = [pc |-> "counted", cred |-> k]]
  BY DEF RevokeCount, Goto
<1>3. \A q \in Requests : (q # p => req'[q] = req[q])
                          /\ (q = p => req'[q].pc = "counted" /\ req'[q].cred = k)
  BY <1>2
<1>4. \E j \in Creds \ {k} : cred[j] = "active"
  BY AnotherActive DEF RevokeCount
<1>5. TypeOK' /\ RowsExist'
  BY <1>1, <1>2, <1>3 DEF RowsExist
<1>6. OneRecoveryUnderway' /\ OwnReplacement' /\ Listed'
  BY <1>1 DEF OneRecoveryUnderway, Underway, OwnReplacement, Listed
<1>7. Fate' /\ LoginsHold' /\ RevokedPasskeySignsOut'
  BY <1>1, <1>3 DEF Fate, LoginsHold, RevokedPasskeySignsOut
<1>8. CountsHold'
  BY <1>1, <1>3, <1>4 DEF CountsHold
<1>9. QED
  BY <1>5, <1>6, <1>7, <1>8 DEF Inv

(* The passkey goes, with the sessions it opened; the logins that hold it  *)
(* and the revocations that counted it are late from now on.               *)
LEMMA RevokeKeeps ==
  ASSUME Inv, NEW p \in Requests, RevokeCredential(p)
  PROVE  Inv'
<1> USE RecoveryAssumption DEF Inv, TypeOK, ReqRec
<1> DEFINE k == req[p].cred
<1>1. UNCHANGED <<rec, repl, due, link, by, fin>>
  BY DEF RevokeCredential, recovery
<1>2. /\ k \in Creds /\ cred[k] = "active" /\ req[p].pc = "counted"
      /\ cred' = [j \in Creds |-> IF j \in {k} THEN "revoked" ELSE cred[j]]
      /\ req' = [req EXCEPT ![p] = [pc |-> "idle", cred |-> None]]
      /\ late' = (late \cup Overtaken({k})) \ {p}
  BY DEF RevokeCredential, Goto, RevokeCreds
<1>3. sess' = [s \in Sessions |-> IF s \in {t \in Sessions : by[t] = k} /\ sess[s] = "live"
                                  THEN "revoked" ELSE sess[s]]
  BY DEF RevokeCredential, RevokeSessions
<1> HIDE DEF k
<1>4. \A q \in Requests : (q # p => req'[q] = req[q]) /\ (q = p => req'[q].pc = "idle")
  BY <1>2
<1>5. \A j \in Creds : (j # k => cred'[j] = cred[j]) /\ (j = k => cred'[j] = "revoked")
  BY <1>2
<1>6. \A s \in Sessions : /\ sess'[s] = "live" => sess[s] = "live" /\ by[s] # k
                          /\ sess'[s] # "none" => sess[s] # "none"
  BY <1>3
<1>7. /\ late' \subseteq Requests \cup Sessions
      /\ \A s \in Sessions : s \in late => s \in late'
      /\ \A q \in Requests : q # p /\ q \notin late' =>
           /\ q \notin late /\ req[q].pc # "counted"
           /\ req[q].pc = "login" => req[q].cred # k
  BY <1>2 DEF Overtaken
<1>8. TypeOK'
  <2>1. /\ cred' \in [Creds -> {"none", "active", "recovery_pending", "revoked"}]
        /\ sess' \in [Sessions -> {"none", "live", "expired", "revoked"}]
        /\ req' \in [Requests -> ReqRec]
    BY <1>2, <1>3
  <2>2. QED
    BY <2>1, <1>1, <1>4, <1>5, <1>6, <1>7
<1>9. RowsExist'
  BY <1>1, <1>4, <1>5 DEF RowsExist
<1>10. OneRecoveryUnderway' /\ OwnReplacement' /\ Listed'
  BY <1>1 DEF OneRecoveryUnderway, Underway, OwnReplacement, Listed
<1>11. Fate'
  BY <1>1, <1>4, <1>5 DEF Fate
<1>12. LoginsHold' /\ CountsHold'
  BY <1>4, <1>5, <1>7 DEF LoginsHold, CountsHold
<1>13. RevokedPasskeySignsOut'
  BY <1>1, <1>5, <1>6, <1>7 DEF RevokedPasskeySignsOut
<1>14. QED
  BY <1>8, <1>9, <1>10, <1>11, <1>12, <1>13 DEF Inv

-----------------------------------------------------------------------------
(* Recoveries.                                                             *)

(* A superseded link had no replacement yet, and the index has let nothing *)
(* else in.                                                                *)
LEMMA StartKeeps ==
  ASSUME Inv, NEW p \in Requests, NEW i \in Recoveries, StartInsert(p, i)
  PROVE  Inv'
<1> USE RecoveryAssumption DEF Inv, TypeOK, ReqRec
<1>1. UNCHANGED <<cred, repl, due, sess, by, fin, late>>
  BY DEF StartInsert, sso
<1>2. /\ rec[i] = "none" /\ \A j \in Recoveries : rec[j] # "quarantine"
      /\ rec' = [j \in Recoveries |-> IF j = i THEN "link_sent"
                                  ELSE IF rec[j] = "link_sent" THEN "cancelled"
                                  ELSE rec[j]]
      /\ link' = [link EXCEPT ![i] = "sent"]
      /\ req' = [req EXCEPT ![p] = [pc |-> "idle", cred |-> None]]
  BY DEF StartInsert, Goto
<1>3. \A q \in Requests : (q # p => req'[q] = req[q]) /\ (q = p => req'[q].pc = "idle")
  BY <1>2
<1>4. \A j \in Recoveries : /\ j = i => rec'[j] = "link_sent"
                            /\ j # i => \/ rec'[j] = rec[j] /\ rec[j] # "link_sent"
                                        \/ rec'[j] = "cancelled" /\ rec[j] = "link_sent"
  BY <1>2
<1>5. TypeOK' /\ RowsExist'
  BY <1>1, <1>2, <1>3, <1>4 DEF RowsExist
<1>6. OneRecoveryUnderway'
  BY <1>2, <1>4 DEF OneRecoveryUnderway, Underway
<1>7. OwnReplacement' /\ Listed'
  BY <1>1, <1>2, <1>4 DEF OwnReplacement, Listed
<1>8. Fate'
  BY <1>1, <1>2, <1>3, <1>4 DEF Fate, OwnReplacement
<1>9. LoginsHold' /\ CountsHold' /\ RevokedPasskeySignsOut'
  BY <1>1, <1>3 DEF LoginsHold, CountsHold, RevokedPasskeySignsOut
<1>10. QED
  BY <1>5, <1>6, <1>7, <1>8, <1>9 DEF Inv

LEMMA TimeKeeps ==
  ASSUME Inv, NEW i \in Recoveries, LinkExpires(i) \/ BecomesDue(i)
  PROVE  Inv'
<1> USE RecoveryAssumption DEF Inv, TypeOK, ReqRec
<1>1. UNCHANGED <<cred, rec, repl, sess, by, req, fin, late>>
  BY DEF LinkExpires, BecomesDue, sso
<1>2. /\ due' \in [Recoveries -> BOOLEAN]
      /\ link' \in [Recoveries -> {"none", "sent", "used", "expired"}]
  BY DEF LinkExpires, BecomesDue
<1>3. QED
  BY <1>1, <1>2 DEF Inv, RowsExist, OneRecoveryUnderway, Underway, OwnReplacement, Fate,
     Listed, LoginsHold, RevokedPasskeySignsOut, CountsHold

(* The replacement is a new passkey, which nothing refers to. *)
LEMMA QuarantineKeeps ==
  ASSUME Inv, NEW i \in Recoveries, NEW k \in Creds, BeginRecoveryQuarantine(i, k)
  PROVE  Inv'
<1> USE RecoveryAssumption DEF Inv, TypeOK, ReqRec
<1>1. UNCHANGED <<due, sess, by, req, fin, late>>
  BY DEF BeginRecoveryQuarantine, sso
<1>2. /\ cred[k] = "none"
      /\ cred' = [cred EXCEPT ![k] = "recovery_pending"]
      /\ link' = [link EXCEPT ![i] = "used"]
  BY DEF BeginRecoveryQuarantine
<1>3. \/ /\ rec[i] = "link_sent"
         /\ rec' = [rec EXCEPT ![i] = "quarantine"]
         /\ repl' = [repl EXCEPT ![i] = k]
      \/ rec' = rec /\ repl' = repl
  BY DEF BeginRecoveryQuarantine
<1>4. \A j \in Creds : j # k => cred'[j] = cred[j]
  BY <1>2
<1>5. \A j \in Recoveries : /\ j # i => rec'[j] = rec[j] /\ repl'[j] = repl[j]
                            /\ repl[j] # k
  BY <1>2, <1>3 DEF RowsExist
<1>6. \/ rec[i] = "link_sent" /\ rec'[i] = "quarantine" /\ repl'[i] = k
      \/ rec'[i] = rec[i] /\ repl'[i] = repl[i]
  BY <1>3
<1>7. TypeOK'
  BY <1>1, <1>2, <1>3, <1>4, <1>5, <1>6
<1>8. RowsExist'
  BY <1>1, <1>2, <1>4, <1>5, <1>6 DEF RowsExist
<1>9. OneRecoveryUnderway'
  BY <1>5, <1>6 DEF OneRecoveryUnderway, Underway
<1>10. OwnReplacement'
  BY <1>5, <1>6 DEF OwnReplacement
<1>11. Listed'
  BY <1>1, <1>5, <1>6 DEF Listed
<1>12. Fate'
  BY <1>1, <1>2, <1>4, <1>5, <1>6 DEF Fate, RowsExist
<1>13. LoginsHold' /\ CountsHold' /\ RevokedPasskeySignsOut'
  BY <1>1, <1>2, <1>4 DEF LoginsHold, CountsHold, RevokedPasskeySignsOut
<1>14. QED
  BY <1>7, <1>8, <1>9, <1>10, <1>11, <1>12, <1>13 DEF Inv

(* What a cancellation revokes was not in use. *)
LEMMA CancelKeeps ==
  ASSUME Inv, NEW p \in Requests, NEW i \in Recoveries, CancelRecovery(p, i)
  PROVE  Inv' /\ \A j \in Creds : cred[j] = "active" => cred'[j] = "active"
<1> USE RecoveryAssumption DEF Inv, TypeOK, ReqRec
<1>1. UNCHANGED <<repl, due, link, sess, by, fin, late>>
  BY DEF CancelRecovery, sso
<1>2. /\ i \in Underway
      /\ rec' = [rec EXCEPT ![i] = "cancelled"]
      /\ cred' = [j \in Creds |-> IF j \in {repl[i]} \ {None} THEN "revoked" ELSE cred[j]]
      /\ req' = [req EXCEPT ![p] = [pc |-> "idle", cred |-> None]]
  BY DEF CancelRecovery, Goto, RevokeCreds
<1>3. \A q \in Requests : (q # p => req'[q] = req[q]) /\ (q = p => req'[q].pc = "idle")
  BY <1>2
<1>4. \A j \in Creds : (j # repl[i] => cred'[j] = cred[j]) /\ (j = repl[i] => cred'[j] = "revoked")
  BY <1>2
<1>5. \A j \in Recoveries : (j # i => rec'[j] = rec[j]) /\ (j = i => rec'[j] = "cancelled")
  BY <1>2
<1>6. repl[i] # None => cred[repl[i]] \in {"recovery_pending", "revoked"}
  BY <1>2 DEF Fate, Underway, OwnReplacement
<1>7. \A j \in Creds : cred[j] = "active" => cred'[j] = "active"
  BY <1>4, <1>6
<1>8. TypeOK'
  <2>1. /\ cred' \in [Creds -> {"none", "active", "recovery_pending", "revoked"}]
        /\ rec' \in [Recoveries -> {"none", "link_sent", "quarantine", "completed", "cancelled"}]
        /\ req' \in [Requests -> ReqRec]
    BY <1>2
  <2>2. QED
    BY <2>1, <1>1, <1>3, <1>4, <1>5
<1>9. RowsExist'
  BY <1>1, <1>3, <1>4 DEF RowsExist
<1>10. OneRecoveryUnderway'
  BY <1>5 DEF OneRecoveryUnderway, Underway
<1>11. OwnReplacement' /\ Listed'
  BY <1>1, <1>5, <1>2 DEF OwnReplacement, Listed, Underway
<1>12. Fate'
  <2>1. SUFFICES ASSUME NEW j \in Recoveries, repl[j] # None
                 PROVE  /\ rec'[j] = "quarantine" => cred'[repl[j]] \in {"recovery_pending", "revoked"}
                        /\ rec'[j] = "cancelled" => cred'[repl[j]] = "revoked"
                        /\ rec'[j] # "completed" =>
                             /\ \A s \in Sessions : by[s] # repl[j]
                             /\ \A q \in Requests : req'[q].pc = "login" => req'[q].cred # repl[j]
    BY <1>1 DEF Fate
  <2>2. rec[j] # "completed" \/ rec'[j] = "completed"
    BY <1>2, <1>5 DEF Underway
  <2>3. QED
    BY <2>1, <2>2, <1>3, <1>4, <1>5 DEF Fate
<1>13. LoginsHold' /\ CountsHold' /\ RevokedPasskeySignsOut'
  BY <1>1, <1>3, <1>7 DEF LoginsHold, CountsHold, RevokedPasskeySignsOut
<1>14. QED
  BY <1>7, <1>8, <1>9, <1>10, <1>11, <1>12, <1>13 DEF Inv

-----------------------------------------------------------------------------
(* The finalizer.                                                          *)
LEMMA SelectKeeps ==
  ASSUME Inv, FinalizeSelect \/ FinalizeFails
  PROVE  Inv'
<1> USE RecoveryAssumption DEF Inv, TypeOK, ReqRec
<1>1. UNCHANGED <<cred, rec, repl, due, link, sess, by, req, late>>
  BY DEF FinalizeSelect, FinalizeFails, recovery, sso
<1>2. \A i \in fin' : i \in Recoveries /\ rec[i] = "quarantine"
  BY DEF FinalizeSelect, FinalizeFails
<1>3. QED
  BY <1>1, <1>2 DEF Inv, RowsExist, OneRecoveryUnderway, Underway, OwnReplacement, Fate,
     Listed, LoginsHold, RevokedPasskeySignsOut, CountsHold

(* A replacement that is revoked stays so: only one that still waits is    *)
(* activated, and then its recovery is in quarantine and completes.        *)
LEMMA ItemKeeps ==
  ASSUME Inv, NEW i \in Recoveries, FinalizeItem(i)
  PROVE  /\ Inv'
         /\ cred[repl[i]] = "revoked" \/ cred'[repl[i]] = "active"
<1> USE RecoveryAssumption DEF Inv, TypeOK, ReqRec
<1> DEFINE old == {k \in Creds \ {repl[i]} : cred[k] # "none"}
<1>1. UNCHANGED <<repl, due, link, by, req>>
  BY DEF FinalizeItem
<1>2. /\ i \in fin /\ fin' = fin \ {i}
      /\ cred' = [k \in Creds |-> IF k \in old THEN "revoked"
                    ELSE IF k = repl[i] /\ cred[k] = "recovery_pending" THEN "active"
                    ELSE cred[k]]
      /\ rec' = [rec EXCEPT ![i] = IF @ = "quarantine" THEN "completed" ELSE @]
      /\ late' = late \cup Overtaken(old)
  BY DEF FinalizeItem
<1>3. sess' = [s \in Sessions |-> IF s \in Sessions /\ sess[s] = "live"
                                  THEN "revoked" ELSE sess[s]]
  BY DEF FinalizeItem, RevokeSessions
<1>4. repl[i] \in Creds /\ rec[i] \in {"quarantine", "cancelled"}
  BY <1>2 DEF Listed
<1>5. \A k \in Creds : k # repl[i] => /\ cred[k] = "none" => cred'[k] = "none"
                                      /\ cred[k] # "none" => cred'[k] = "revoked"
  BY <1>2
<1>6. /\ cred[repl[i]] = "recovery_pending" => cred'[repl[i]] = "active"
      /\ cred[repl[i]] # "recovery_pending" => cred'[repl[i]] = cred[repl[i]]
  BY <1>2, <1>4
<1>7. \A j \in Recoveries : /\ j # i => rec'[j] = rec[j]
                            /\ j = i => rec'[j] = IF rec[i] = "quarantine" THEN "completed"
                                                  ELSE rec[i]
  BY <1>2
<1>8. \A s \in Sessions : sess'[s] # "live" /\ (sess'[s] # "none" => sess[s] # "none")
  BY <1>3
<1>9. /\ late' \subseteq Requests \cup Sessions
      /\ \A p \in Requests : p \notin late' =>
           /\ p \notin late /\ req[p].pc # "counted"
           /\ req[p].pc = "login" => req[p].cred \notin old
  BY <1>2 DEF Overtaken
<1>10. cred[repl[i]] \in {"recovery_pending", "revoked"}
       /\ (rec[i] = "cancelled" => cred[repl[i]] = "revoked")
  BY <1>4 DEF Fate
<1>11. TypeOK'
  <2>1. /\ cred' \in [Creds -> {"none", "active", "recovery_pending", "revoked"}]
        /\ rec' \in [Recoveries -> {"none", "link_sent", "quarantine", "completed", "cancelled"}]
        /\ sess' \in [Sessions -> {"none", "live", "expired", "revoked"}]
    BY <1>2, <1>3
  <2>2. \A k \in Creds : cred[k] # "none" => cred'[k] # "none"
    BY <1>5, <1>6
  <2>3. \A j \in Recoveries : rec'[j] = "quarantine" => rec[j] = "quarantine"
    BY <1>7
  <2>4. \A p \in Requests : req'[p].pc \in {"login", "counted"} => req'[p].cred # None
    BY <1>1
  <2>5. QED
    BY <2>1, <2>2, <2>3, <2>4, <1>1, <1>2, <1>8, <1>9
<1>12. RowsExist'
  <2>1. \A k \in Creds : cred[k] # "none" => cred'[k] # "none"
    BY <1>5, <1>6
  <2>2. QED
    BY <2>1, <1>1 DEF RowsExist
<1>13. OneRecoveryUnderway'
  BY <1>7 DEF OneRecoveryUnderway, Underway
<1>14. OwnReplacement'
  BY <1>1, <1>4, <1>7 DEF OwnReplacement
<1>15. Listed'
  BY <1>1, <1>2, <1>7 DEF Listed
<1>16. Fate'
  <2>1. SUFFICES ASSUME NEW j \in Recoveries, repl[j] # None
                 PROVE  /\ rec'[j] = "quarantine" => cred'[repl[j]] \in {"recovery_pending", "revoked"}
                        /\ rec'[j] = "cancelled" => cred'[repl[j]] = "revoked"
                        /\ rec'[j] # "completed" =>
                             /\ \A s \in Sessions : by[s] # repl[j]
                             /\ \A q \in Requests : req[q].pc = "login" => req[q].cred # repl[j]
    BY <1>1 DEF Fate
  <2>2. CASE j = i
    BY <2>1, <2>2, <1>6, <1>7, <1>10 DEF Fate
  <2>3. CASE j # i
    <3>1. repl[j] # repl[i] /\ cred[repl[j]] # "none" /\ repl[j] \in Creds
      BY <2>1, <2>3 DEF OwnReplacement, RowsExist
    <3>2. cred'[repl[j]] = "revoked"
      BY <3>1, <1>5
    <3>3. QED
      BY <2>1, <2>3, <3>2, <1>7 DEF Fate
  <2>4. QED
    BY <2>2, <2>3
<1>17. LoginsHold'
  <2>1. SUFFICES ASSUME NEW p \in Requests, req[p].pc = "login", p \notin late'
                 PROVE  cred'[req[p].cred] = "active"
    BY <1>1 DEF LoginsHold
  <2>2. req[p].cred \in Creds /\ cred[req[p].cred] = "active" /\ req[p].cred \notin old
    BY <2>1, <1>9 DEF LoginsHold
  <2>3. req[p].cred = repl[i]
    BY <2>2
  <2>4. QED
    BY <2>2, <2>3, <1>10
<1>18. CountsHold' /\ RevokedPasskeySignsOut'
  BY <1>1, <1>8, <1>9 DEF CountsHold, RevokedPasskeySignsOut
<1>19. QED
  BY <1>6, <1>10, <1>11, <1>12, <1>13, <1>14, <1>15, <1>16, <1>17, <1>18 DEF Inv

-----------------------------------------------------------------------------
LEMMA NextInv == Inv /\ [Next]_vars => Inv'
<1> SUFFICES ASSUME Inv, [Next]_vars PROVE Inv'
  OBVIOUS
<1>1. CASE User
  BY <1>1, RequestsKeep, LoginKeeps, SessionsKeep, AddKeeps, CountKeeps, RevokeKeeps,
     StartKeeps, QuarantineKeeps, CancelKeeps DEF User
<1>2. CASE Time
  BY <1>2, SessionsKeep, TimeKeeps DEF Time
<1>3. CASE Maintenance
  BY <1>3, SelectKeeps, ItemKeeps DEF Maintenance
<1>4. CASE UNCHANGED vars
  BY <1>4 DEF vars, Inv, TypeOK, ReqRec, RowsExist, OneRecoveryUnderway, Underway,
     OwnReplacement, Fate, Listed, LoginsHold, RevokedPasskeySignsOut, CountsHold
<1>5. QED
  BY <1>1, <1>2, <1>3, <1>4 DEF Next

LEMMA InvHolds == Spec => []Inv
BY InitInv, NextInv, PTL DEF Spec

(* Every variable keeps its type, and no reference that must be set is     *)
(* NULL: a quarantine has its replacement and a session its passkey.       *)
THEOREM TypeCorrect == Spec => []TypeOK
<1>1. Inv => TypeOK
  BY DEF Inv
<1>2. QED
  BY InvHolds, <1>1, PTL

(* Two requests for a recovery, or a request and a link that is opened     *)
(* meanwhile, leave one recovery under way (StartRecoveryRequest and the   *)
(* index recoveries_one_active_per_user).                                  *)
THEOREM OneRecovery == Spec => []OneRecoveryUnderway
<1>1. Inv => OneRecoveryUnderway
  BY DEF Inv
<1>2. QED
  BY InvHolds, <1>1, PTL

(* The passkey enrolled from a recovery link is of no use until the        *)
(* recovery is completed, however the finalizer, a cancellation and the    *)
(* login of another session interleave.                                    *)
THEOREM ReplacementIdle == Spec => []ReplacementWaits
<1>1. Inv => ReplacementWaits
  <2>1. SUFFICES ASSUME Inv, NEW i \in Recoveries, repl[i] # None, rec[i] # "completed"
                 PROVE  cred[repl[i]] # "active" /\ \A s \in Sessions : by[s] # repl[i]
    BY DEF ReplacementWaits
  <2>2. rec[i] \in {"quarantine", "cancelled"}
    BY <2>1 DEF Inv, TypeOK, OwnReplacement
  <2>3. QED
    BY <2>1, <2>2 DEF Inv, Fate
<1>2. QED
  BY InvHolds, <1>1, PTL

(* RevokeCredential and FinalizeRecoveries sign out what the passkey had   *)
(* opened, all but a login they overtook.                                  *)
THEOREM RevokedSignOut == Spec => []RevokedPasskeySignsOut
<1>1. Inv => RevokedPasskeySignsOut
  BY DEF Inv
<1>2. QED
  BY InvHolds, <1>1, PTL

(* An account loses its last usable passkey in two ways only: by a         *)
(* revocation that was overtaken after its count, and by a finalizer whose *)
(* replacement had been revoked.                                           *)
THEOREM LastPasskey == Spec => LastPasskeyGoes
<1> DEFINE Lost == Active # {} /\ (\A k \in Creds : cred'[k] # "active")
           Way == \/ \E p \in late \cap Requests : req[p].pc = "counted" /\ req'[p].pc = "idle"
                  \/ \E i \in fin \ fin' : cred[repl[i]] = "revoked"
<1>1. Inv /\ [Next]_vars => (Lost => Way) \/ UNCHANGED vars
  <2>1. SUFFICES ASSUME Inv, Next, Lost PROVE Way
    OBVIOUS
  <2>2. PICK k \in Creds : cred[k] = "active" /\ cred'[k] # "active"
    BY <2>1 DEF Active
  <2>3. \/ \E p \in Requests : RevokeCredential(p)
        \/ \E i \in Recoveries : FinalizeItem(i)
    <3>1. CASE User
      <4>1. ASSUME NEW p \in Requests, NEW i \in Recoveries, CancelRecovery(p, i) PROVE FALSE
        BY <2>1, <2>2, <4>1, CancelKeeps
      <4>2. ASSUME NEW p \in Requests, NEW j \in Creds, AddCredential(p, j) PROVE FALSE
        BY <2>1, <2>2, <4>2 DEF AddCredential, Inv, TypeOK
      <4>3. ASSUME NEW i \in Recoveries, NEW j \in Creds, BeginRecoveryQuarantine(i, j)
            PROVE  FALSE
        BY <2>1, <2>2, <4>3 DEF BeginRecoveryQuarantine, Inv, TypeOK
      <4>4. QED
        BY <3>1, <2>2, <4>1, <4>2, <4>3 DEF User, LoginVerified, RevokeCount, LoginSession,
           Authorized, StartCheck, StartInsert, RequestEnds, SignOut
    <3>2. CASE Time
      BY <3>2, <2>2 DEF Time, SessionExpires, LinkExpires, BecomesDue
    <3>3. CASE Maintenance
      BY <3>3, <2>2 DEF Maintenance, FinalizeSelect, FinalizeFails
    <3>4. QED
      BY <2>1, <3>1, <3>2, <3>3 DEF Next
  <2>4. ASSUME NEW p \in Requests, RevokeCredential(p) PROVE Way
    <3>1. /\ req[p].pc = "counted" /\ req[p].cred \in Creds
          /\ cred' = [j \in Creds |-> IF j \in {req[p].cred} THEN "revoked" ELSE cred[j]]
          /\ req' = [req EXCEPT ![p] = [pc |-> "idle", cred |-> None]]
      BY <2>1, <2>4, RecoveryAssumption
         DEF RevokeCredential, RevokeCreds, Goto, Inv, TypeOK, ReqRec
    <3>2. \A j \in Creds \ {req[p].cred} : cred[j] # "active"
      BY <2>1, <3>1
    <3>3. p \in late
      BY <2>1, <3>1, <3>2 DEF Inv, CountsHold
    <3>4. req'[p].pc = "idle"
      BY <2>1, <3>1 DEF Inv, TypeOK
    <3>5. QED
      BY <3>1, <3>3, <3>4
  <2>5. ASSUME NEW i \in Recoveries, FinalizeItem(i) PROVE Way
    <3>1. i \in fin \ fin' /\ repl[i] \in Creds
      BY <2>1, <2>5 DEF FinalizeItem, Inv, TypeOK, Listed
    <3>2. cred[repl[i]] = "revoked"
      BY <2>1, <2>5, <3>1, ItemKeeps
    <3>3. QED
      BY <3>1, <3>2
  <2>6. QED
    BY <2>3, <2>4, <2>5
<1>2. QED
  BY InvHolds, <1>1, PTL DEF Spec, LastPasskeyGoes

-----------------------------------------------------------------------------
(* Recovery implements GracePeriod.                                        *)

(* Time is up only for a recovery whose quarantine has begun, and for all  *)
(* that the finalizer has on its list.                                     *)
Timed ==
  /\ \A i \in Recoveries : due[i] => rec[i] \in {"quarantine", "completed", "cancelled"}
  /\ \A i \in fin : due[i]

Phase == [i \in Recoveries |-> CASE rec[i] = "quarantine" -> "announced"
                                 [] rec[i] = "completed" -> "done"
                                 [] OTHER -> "off"]
Due == [i \in Recoveries |-> due[i] /\ rec[i] \in {"quarantine", "completed"}]

(* Recoveries are begun, superseded or cancelled before any quarantine.    *)
NoQuarantine ==
  \A i \in Recoveries :
    \/ rec'[i] = rec[i]
    \/ rec[i] \in {"none", "link_sent"} /\ rec'[i] \in {"link_sent", "cancelled"}

(* What can become of recoveries in one step. *)
LEMMA OneStep ==
  ASSUME Inv, [Next]_vars
  PROVE  /\ \A i \in fin' : i \in Recoveries /\ (i \in fin \/ due[i])
         /\ \/ UNCHANGED due /\ NoQuarantine
            \/ \E i \in Recoveries : BecomesDue(i)
            \/ \E i \in Recoveries : /\ UNCHANGED due /\ rec[i] = "link_sent"
                                     /\ rec' = [rec EXCEPT ![i] = "quarantine"]
            \/ \E i \in Recoveries : /\ UNCHANGED due /\ rec[i] = "quarantine"
                                     /\ rec' = [rec EXCEPT ![i] = "cancelled"]
            \/ \E i \in fin : /\ UNCHANGED due /\ rec[i] = "quarantine"
                              /\ rec' = [rec EXCEPT ![i] = "completed"]
<1>0. fin \subseteq Recoveries
  BY DEF Inv, TypeOK
<1>1. ASSUME NEW p \in Requests,
             \/ \E k \in Creds : LoginVerified(p, k) \/ AddCredential(p, k) \/ RevokeCount(p, k)
             \/ \E s \in Sessions : LoginSession(p, s) \/ Authorized(p, s)
             \/ RevokeCredential(p) \/ StartCheck(p) \/ RequestEnds(p)
      PROVE  UNCHANGED <<fin, rec, due>>
  BY <1>1 DEF LoginVerified, AddCredential, RevokeCount, LoginSession, Authorized,
     RevokeCredential, StartCheck, RequestEnds, recovery
<1>2. CASE \/ \E s \in Sessions : SessionExpires(s)
           \/ \E S \in SUBSET Sessions : SignOut(S)
           \/ \E i \in Recoveries : LinkExpires(i)
           \/ UNCHANGED vars
  BY <1>0, <1>2 DEF SessionExpires, SignOut, LinkExpires, recovery, vars, NoQuarantine
<1>3. ASSUME NEW p \in Requests, NEW i \in Recoveries, StartInsert(p, i)
      PROVE  UNCHANGED <<fin, due>> /\ NoQuarantine
  BY <1>3 DEF StartInsert, NoQuarantine, Inv, TypeOK
<1>4. ASSUME NEW p \in Requests, NEW i \in Recoveries, CancelRecovery(p, i)
      PROVE  /\ UNCHANGED <<fin, due>>
             /\ rec[i] = "quarantine" \/ NoQuarantine
             /\ rec' = [rec EXCEPT ![i] = "cancelled"]
  BY <1>4 DEF CancelRecovery, Underway, NoQuarantine, Inv, TypeOK
<1>5. ASSUME NEW i \in Recoveries, NEW k \in Creds, BeginRecoveryQuarantine(i, k)
      PROVE  /\ UNCHANGED <<fin, due>>
             /\ \/ NoQuarantine
                \/ rec[i] = "link_sent" /\ rec' = [rec EXCEPT ![i] = "quarantine"]
  BY <1>5 DEF BeginRecoveryQuarantine, NoQuarantine
<1>6. ASSUME NEW i \in Recoveries, BecomesDue(i) PROVE UNCHANGED fin
  BY <1>6 DEF BecomesDue
<1>7. ASSUME FinalizeSelect \/ FinalizeFails
      PROVE  UNCHANGED <<rec, due>> /\ \A i \in fin' : i \in Recoveries /\ due[i]
  BY <1>7 DEF FinalizeSelect, FinalizeFails, recovery
<1>8. ASSUME NEW i \in Recoveries, FinalizeItem(i)
      PROVE  /\ i \in fin /\ fin' \subseteq fin /\ UNCHANGED due
             /\ \/ NoQuarantine
                \/ rec[i] = "quarantine" /\ rec' = [rec EXCEPT ![i] = "completed"]
  BY <1>8 DEF FinalizeItem, NoQuarantine, Inv, TypeOK
<1>9. CASE User
  BY <1>0, <1>1, <1>2, <1>3, <1>4, <1>5, <1>9 DEF User, NoQuarantine
<1>10. CASE Time
  BY <1>0, <1>2, <1>6, <1>10 DEF Time
<1>11. CASE Maintenance
  BY <1>0, <1>7, <1>8, <1>11 DEF Maintenance, NoQuarantine
<1>12. QED
  BY <1>0, <1>2, <1>9, <1>10, <1>11 DEF Next

LEMMA TimedHolds == Spec => []Timed
<1>1. Init => Timed
  BY DEF Init, Timed
<1>2. ASSUME Inv, Timed, [Next]_vars PROVE Timed'
  <2>1. \A i \in Recoveries : due[i] => due'[i]
    BY <1>2, OneStep DEF BecomesDue, Inv, TypeOK
  <2>2. \A i \in fin' : due'[i]
    BY <1>2, <2>1, OneStep DEF Timed, Inv, TypeOK
  <2>3. \A i \in Recoveries :
          due'[i] => rec'[i] \in {"quarantine", "completed", "cancelled"}
    BY <1>2, OneStep DEF Timed, Inv, TypeOK, NoQuarantine, BecomesDue
  <2>4. QED
    BY <2>2, <2>3 DEF Timed
<1>3. QED
  BY <1>1, <1>2, InvHolds, PTL DEF Spec

(* A recovery completes only after the whole delay of its own quarantine,  *)
(* though the finalizer looks at the time only when it reads its list; and *)
(* it may be called off until it is completed, and never after.            *)
THEOREM DelayIsKept == Spec => ImplementsGracePeriod
<1>1. Init => GP!Init
  BY DEF Init, GP!Init
<1>2. ASSUME Inv, Timed, [Next]_vars PROVE [GP!Next]_(GP!vars)
  <2> USE DEF Inv, TypeOK
  <2>1. CASE UNCHANGED due /\ NoQuarantine
    <3>1. Phase' = Phase /\ Due' = Due
      BY <1>2, <2>1 DEF Phase, Due, NoQuarantine
    <3>2. QED
      BY <3>1 DEF GP!vars, Phase, Due
  <2>2. ASSUME NEW i \in Recoveries, BecomesDue(i) PROVE GP!TimeIsUp(i)
    <3>1. rec[i] = "quarantine" /\ UNCHANGED rec /\ due' = [due EXCEPT ![i] = TRUE]
      BY <2>2 DEF BecomesDue
    <3>2. Phase[i] = "announced" /\ Phase' = Phase /\ Due' = [Due EXCEPT ![i] = TRUE]
      BY <1>2, <3>1 DEF Phase, Due
    <3>3. QED
      BY <3>2 DEF GP!TimeIsUp, Phase, Due
  <2>3. ASSUME NEW i \in Recoveries, UNCHANGED due, rec[i] = "link_sent",
               rec' = [rec EXCEPT ![i] = "quarantine"]
        PROVE  GP!Announce(i)
    <3>1. Phase[i] = "off" /\ Phase' = [Phase EXCEPT ![i] = "announced"]
      BY <1>2, <2>3 DEF Phase
    <3>2. ~Due[i] /\ Due' = Due
      BY <1>2, <2>3 DEF Due, Timed
    <3>3. QED
      BY <3>1, <3>2 DEF GP!Announce, Phase, Due
  <2>4. ASSUME NEW i \in Recoveries, UNCHANGED due, rec[i] = "quarantine",
               rec' = [rec EXCEPT ![i] = "cancelled"]
        PROVE  GP!CallOff(i)
    <3>1. Phase[i] = "announced" /\ Phase' = [Phase EXCEPT ![i] = "off"]
      BY <1>2, <2>4 DEF Phase
    <3>2. Due' = [Due EXCEPT ![i] = FALSE]
      BY <1>2, <2>4 DEF Due
    <3>3. QED
      BY <3>1, <3>2 DEF GP!CallOff, Phase, Due
  <2>5. ASSUME NEW i \in fin, UNCHANGED due, rec[i] = "quarantine",
               rec' = [rec EXCEPT ![i] = "completed"]
        PROVE  GP!CarryOut(i)
    <3>1. i \in Recoveries /\ due[i]
      BY <1>2, <2>5 DEF Timed
    <3>2. Phase[i] = "announced" /\ Phase' = [Phase EXCEPT ![i] = "done"]
      BY <1>2, <2>5, <3>1 DEF Phase
    <3>3. Due[i] /\ Due' = Due
      BY <1>2, <2>5, <3>1 DEF Due
    <3>4. QED
      BY <3>2, <3>3 DEF GP!CarryOut, Phase, Due
  <2>6. QED
    BY <1>2, <2>1, <2>2, <2>3, <2>4, <2>5, OneStep DEF GP!Next
<1>3. QED
  BY <1>1, <1>2, InvHolds, TimedHolds, PTL DEF Spec, ImplementsGracePeriod, GP!Spec
=============================================================================
