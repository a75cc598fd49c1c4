-------------------------- MODULE CeremoniesProofs --------------------------
(***************************************************************************)
(* Ceremonies, for every number of accounts, challenges and requests.  A   *)
(* request that goes on holds a challenge of its own, spent, of its own    *)
(* operation and not of another account; and an account that may still be  *)
(* restored has no session but those of requests it was overtaken by.      *)
(***************************************************************************)
EXTENDS Ceremonies, TLAPS

(* Which operations know from the start whom they are for. *)
ForSomebody == {"register", "add_passkey"}

Begun ==
  \A c \in Challenges : chal[c].state # "none" =>
    /\ chal[c].op \in Operations
    /\ IF chal[c].op \in ForSomebody THEN chal[c].user \in Users ELSE chal[c].user = None

(* A request has spent the challenge it holds. *)
Taken ==
  \A f \in Finishes :
    IF fin[f].pc = "idle" THEN fin[f] = Idle
    ELSE /\ fin[f].chal \in Challenges
         /\ chal[fin[f].chal].state = "used" /\ chal[fin[f].chal].op = fin[f].op

(* The account of a request is that of its challenge, where that has one.  *)
OwnAccount(f) ==
  fin[f].user \in Users /\ chal[fin[f].chal].user \in {None, fin[f].user}

Stages ==
  \A f \in Finishes :
    /\ fin[f].pc = "consumed" => fin[f].user = chal[fin[f].chal].user
    /\ fin[f].pc \in {"found", "entering"} =>
         /\ OwnAccount(f) /\ fin[f].key \in Keys /\ fin[f].op # "add_passkey"

Makes ==
  \A f \in Finishes :
    /\ session[f] # "none" => fin[f].pc = "done" /\ OwnAccount(f) /\ fin[f].op # "add_passkey"
    /\ passkey[f] # "none" => fin[f].pc = "done" /\ OwnAccount(f) /\ fin[f].op = "add_passkey"

(* A request for an account finds, or has found, its row. *)
Rows ==
  \A f \in Finishes :
    \/ fin[f].pc = "consumed" /\ fin[f].op = "add_passkey"
    \/ fin[f].pc \in {"found", "entering"}
    \/ session[f] # "none" \/ passkey[f] # "none"
    => status[fin[f].user] # "none"

(* A session of an account that can still be restored, or one to come, is  *)
(* of a request that was overtaken.                                        *)
OnlyLate ==
  \A f \in Finishes :
    /\ session[f] = "live" \/ fin[f].pc = "entering"
    /\ status[fin[f].user] = "deletion_pending" /\ ~due[fin[f].user]
    => f \in late

Inv == TypeOK /\ Begun /\ Taken /\ Stages /\ Makes /\ Rows /\ OnlyLate

LEMMA InitInv == Init => Inv
BY CeremoniesAssumption DEF Init, Inv, TypeOK, Begun, Taken, Stages, Makes, Rows, OnlyLate,
   Idle, Keys, Chal, Fin, Operations

-----------------------------------------------------------------------------
LEMMA BeginKeeps ==
  ASSUME Inv, NEW c \in Challenges,
         \/ \E u \in Users : RegistrationBegin(c, u) \/ AddPasskeyBegin(c, u)
         \/ LoginBegin(c) \/ DeletionCancelBegin(c) \/ ChallengeExpires(c)
  PROVE  Inv'
<1>1. /\ UNCHANGED <<status, due, fin, passkey, session, mail, late>>
      /\ chal' \in [Challenges -> Chal]
      /\ \A d \in Challenges : chal[d].state = "used" => chal'[d] = chal[d]
  <2>1. ASSUME NEW op \in Operations, NEW u \in Users \cup {None}, PutChallenge(c, op, u)
        PROVE  <1>1!1 /\ <1>1!2 /\ <1>1!3
    BY <2>1 DEF Inv, TypeOK, PutChallenge, Chal
  <2>2. CASE ChallengeExpires(c)
    BY <2>2 DEF Inv, TypeOK, ChallengeExpires, Chal
  <2>3. QED
    BY <2>1, <2>2 DEF RegistrationBegin, AddPasskeyBegin, LoginBegin, DeletionCancelBegin,
       Operations
<1>2. Begun'
  <2>1. ASSUME NEW op \in Operations, NEW u, PutChallenge(c, op, u),
               IF op \in ForSomebody THEN u \in Users ELSE u = None
        PROVE  Begun'
    <3>1. /\ chal'[c].op = op /\ chal'[c].user = u
          /\ \A d \in Challenges \ {c} : chal'[d] = chal[d]
      BY <2>1 DEF Inv, TypeOK, PutChallenge
    <3>2. QED
      BY <2>1, <3>1 DEF Inv, Begun
  <2>2. CASE ChallengeExpires(c)
    BY <2>2 DEF Inv, TypeOK, Begun, ChallengeExpires, Chal
  <2>3. QED
    BY <2>1, <2>2 DEF RegistrationBegin, AddPasskeyBegin, LoginBegin, DeletionCancelBegin,
       Operations, ForSomebody
<1>3. Taken'
  BY <1>1 DEF Inv, TypeOK, Taken, Fin
<1>4. \A f \in Finishes : fin[f].pc # "idle" => chal'[fin[f].chal] = chal[fin[f].chal]
  BY <1>1 DEF Inv, Taken
<1>5. Stages' /\ Makes' /\ Rows' /\ OnlyLate' /\ TypeOK'
  BY <1>1, <1>4 DEF Inv, TypeOK, Stages, Makes, Rows, OnlyLate, OwnAccount, Keys
<1>6. QED
  BY <1>2, <1>3, <1>5 DEF Inv

(* A request takes an open challenge. *)
LEMMA ConsumeKeeps ==
  ASSUME Inv, NEW f \in Finishes, NEW c \in Challenges, NEW op \in Operations,
         NEW u \in Users \cup {None}, Consume(f, c, op, u)
  PROVE  Inv'
<1> DEFINE v == [Idle EXCEPT !.op = op, !.chal = c,
       !.pc = IF op = "add_passkey" /\ chal[c].user # u THEN "done" ELSE "consumed",
       !.user = IF op = "add_passkey" THEN u ELSE chal[c].user]
<1>1. /\ fin[f].pc = "idle" /\ chal[c].state = "open" /\ chal[c].op = op
      /\ fin' = [fin EXCEPT ![f] = v]
      /\ UNCHANGED <<status, due, passkey, session, mail, late>>
      /\ op = "add_passkey" => u \in Users /\ SignedIn(u)
  BY DEF Consume
<1>2. v \in Fin /\ v.chal = c /\ v.op = op /\ v.pc \in {"consumed", "done"}
      /\ (v.pc = "consumed" => v.user = chal[c].user)
      /\ (v.pc = "consumed" /\ op = "add_passkey" => v.user = u)
  BY <1>1 DEF Idle, Fin, Inv, TypeOK, Chal
<1> HIDE DEF v
<1>3. /\ chal' \in [Challenges -> Chal]
      /\ chal'[c].state = "used" /\ chal'[c].op = op /\ chal'[c].user = chal[c].user
      /\ \A d \in Challenges \ {c} : chal'[d] = chal[d]
  <2>1. chal' = [chal EXCEPT ![c].state = "used"] /\ chal[c] \in Chal
    BY DEF Consume, Inv, TypeOK
  <2>2. [chal[c] EXCEPT !.state = "used"] \in Chal
    BY <2>1 DEF Chal
  <2>3. QED
    BY <1>1, <2>1, <2>2 DEF Inv, TypeOK, Chal
<1>4. /\ fin' \in [Finishes -> Fin] /\ fin'[f] = v
      /\ \A g \in Finishes \ {f} : fin'[g] = fin[g]
  BY <1>1, <1>2 DEF Inv, TypeOK
<1>5. \A g \in Finishes : fin[g].pc # "idle" => chal'[fin[g].chal] = chal[fin[g].chal]
  BY <1>1, <1>3 DEF Inv, Taken
<1>6. passkey[f] = "none" /\ session[f] = "none"
  BY <1>1 DEF Inv, TypeOK, Makes
<1>7. op = "add_passkey" => status[u] = "active"
  BY <1>1 DEF SignedIn
<1>8. TypeOK'
  BY <1>1, <1>3, <1>4, <1>6 DEF Inv, TypeOK, Keys
<1>9. Begun'
  BY <1>1, <1>3 DEF Inv, Begun, ForSomebody, Operations
<1>10. Taken'
  <2>1. \A g \in Finishes \ {f} : fin[g].pc # "idle" => fin[g].chal \in Challenges
    BY DEF Inv, Taken
  <2>2. QED
    BY <1>2, <1>3, <1>4, <1>5, <2>1 DEF Inv, Taken
<1>11. Stages' /\ Makes'
  BY <1>1, <1>2, <1>3, <1>4, <1>5, <1>6 DEF Inv, Stages, Makes, OwnAccount, Keys
<1>12. Rows' /\ OnlyLate'
  BY <1>1, <1>2, <1>4, <1>6, <1>7 DEF Inv, Rows, OnlyLate
<1>13. QED
  BY <1>8, <1>9, <1>10, <1>11, <1>12 DEF Inv

(* Request f goes on with its challenge. *)
Moves(f, v) ==
  /\ fin[f].pc # "idle" /\ v.pc # "idle"
  /\ v.chal = fin[f].chal /\ v.op = fin[f].op
  /\ fin' = [fin EXCEPT ![f] = v]
  /\ UNCHANGED chal

(* Challenges and the other requests stay what they are. *)
LEMMA MoveKeeps ==
  ASSUME Inv, NEW f \in Finishes, NEW v \in Fin, Moves(f, v)
  PROVE  /\ Begun' /\ Taken'
         /\ fin' \in [Finishes -> Fin] /\ fin'[f] = v
         /\ \A g \in Finishes \ {f} : fin'[g] = fin[g]
         /\ chal' = chal
<1>1. /\ fin' \in [Finishes -> Fin] /\ fin'[f] = v
      /\ \A g \in Finishes \ {f} : fin'[g] = fin[g]
      /\ chal' = chal
  BY DEF Moves, Inv, TypeOK
<1>2. Begun' /\ Taken'
  BY <1>1 DEF Moves, Inv, Begun, Taken
<1>3. QED
  BY <1>1, <1>2

LEMMA RegisterKeeps ==
  ASSUME Inv, NEW f \in Finishes, Register(f)
  PROVE  Inv'
<1> DEFINE u == fin[f].user
           v == [fin[f] EXCEPT !.pc = "entering", !.key = u]
<1>1. u \in Users /\ status[u] = "none" /\ chal[fin[f].chal].user = u
      /\ fin[f].op = "register" /\ fin[f].pc = "consumed"
  BY DEF Register, Inv, Stages, Taken, Begun, ForSomebody
<1>2. /\ v \in Fin /\ v.pc = "entering" /\ v.key = u /\ v.user = u /\ v.op = "register"
      /\ v.chal = fin[f].chal
  <2>1. fin[f] \in Fin
    BY DEF Inv, TypeOK
  <2>2. QED
    BY <1>1, <2>1 DEF Fin
<1>3. Moves(f, v)
  <2>1. fin' = [fin EXCEPT ![f] = v] /\ UNCHANGED chal
    BY DEF Register, Inv, TypeOK
  <2>2. QED
    BY <1>1, <1>2, <2>1 DEF Moves
<1>4. /\ status' = [status EXCEPT ![u] = "active"]
      /\ passkey' = [passkey EXCEPT ![u] = "active"]
      /\ UNCHANGED <<due, session, mail, late>>
  BY DEF Register
<1>5. passkey[f] = "none" /\ session[f] = "none" /\ \A g \in Finishes : passkey'[g] = passkey[g]
  BY <1>1, <1>4, CeremoniesAssumption DEF Inv, TypeOK, Makes, Keys
<1> HIDE DEF v
<1>6. /\ Begun' /\ Taken'
      /\ fin' \in [Finishes -> Fin] /\ fin'[f] = v
      /\ \A g \in Finishes \ {f} : fin'[g] = fin[g]
      /\ chal' = chal
  BY <1>2, <1>3, MoveKeeps
<1>7. TypeOK'
  BY <1>1, <1>4, <1>5, <1>6 DEF Inv, TypeOK, Keys, Rows, Makes, OwnAccount
<1>8. Stages' /\ Makes'
  BY <1>1, <1>2, <1>3, <1>4, <1>5, <1>6 DEF Inv, Stages, Makes, OwnAccount, Keys
<1>9. Rows' /\ OnlyLate'
  BY <1>1, <1>2, <1>4, <1>5, <1>6 DEF Inv, TypeOK, Rows, OnlyLate
<1>10. QED
  BY <1>6, <1>7, <1>8, <1>9 DEF Inv

LEMMA AddCredentialKeeps ==
  ASSUME Inv, NEW f \in Finishes, AddCredential(f)
  PROVE  Inv'
<1> DEFINE v == [fin[f] EXCEPT !.pc = "done"]
<1>1. v \in Fin /\ v.pc = "done" /\ v.user = fin[f].user /\ v.op = "add_passkey"
      /\ v.chal = fin[f].chal /\ Moves(f, v)
  BY DEF AddCredential, Done, Moves, Inv, TypeOK, Fin
<1>2. OwnAccount(f) /\ status[fin[f].user] \in {"active", "deletion_pending"}
  BY DEF AddCredential, OwnAccount, Inv, TypeOK, Stages, Taken, Begun, ForSomebody, Rows
<1>3. /\ passkey' = [passkey EXCEPT ![f] = "active"]
      /\ UNCHANGED <<status, due, session, mail, late>>
      /\ session[f] = "none"
  BY DEF AddCredential, Inv, TypeOK, Makes
<1>4. passkey'[f] = "active" /\ \A g \in Finishes \ {f} : passkey'[g] = passkey[g]
  BY <1>3 DEF Inv, TypeOK, Keys
<1> HIDE DEF v
<1>5. /\ Begun' /\ Taken'
      /\ fin' \in [Finishes -> Fin] /\ fin'[f] = v
      /\ \A g \in Finishes \ {f} : fin'[g] = fin[g]
      /\ chal' = chal
  BY <1>1, MoveKeeps
<1>6. TypeOK'
  BY <1>1, <1>2, <1>3, <1>4, <1>5 DEF Inv, TypeOK, Keys
<1>7. Stages' /\ Makes'
  BY <1>1, <1>2, <1>3, <1>4, <1>5 DEF Inv, Stages, Makes, OwnAccount, Keys
<1>8. Rows' /\ OnlyLate'
  BY <1>1, <1>2, <1>3, <1>4, <1>5 DEF Inv, TypeOK, Rows, OnlyLate
<1>9. QED
  BY <1>5, <1>6, <1>7, <1>8 DEF Inv

(* The passkey of an assertion has an account, whose status was looked at. *)
LEMMA FoundKeeps ==
  ASSUME Inv, NEW f \in Finishes, NEW k \in Keys,
         LoginVerified(f, k) \/ DiscoverableDeletionUser(f, k)
  PROVE  Inv'
<1>1. PICK pc \in {"found", "entering"} :
         /\ Found(f, k, pc) /\ fin[f].pc = "consumed" /\ fin[f].op \in {"login", "delete_cancel"}
         /\ status[Owner(k)] \in {"active", "deletion_pending"}
         /\ pc = "entering" => status[Owner(k)] = "active"
         /\ passkey[k] = "active"
  BY DEF LoginVerified, DiscoverableDeletionUser
<1> DEFINE v == [fin[f] EXCEPT !.user = Owner(k), !.key = k, !.pc = pc]
<1>2. Owner(k) \in Users
  BY <1>1 DEF Owner, Keys, Inv, Makes, OwnAccount
<1>3. v \in Fin /\ v.pc = pc /\ v.user = Owner(k) /\ v.key = k /\ v.op = fin[f].op
      /\ v.chal = fin[f].chal
  <2>1. fin[f] \in Fin /\ k \in Users \cup Finishes
    BY DEF Inv, TypeOK, Keys
  <2>2. QED
    BY <1>2, <2>1 DEF Fin
<1>4. Moves(f, v)
  BY <1>1, <1>3 DEF Found, Moves, Inv, TypeOK
<1>5. /\ UNCHANGED <<status, due, passkey, session, mail, late>>
      /\ passkey[f] = "none" /\ session[f] = "none"
      /\ chal[fin[f].chal].user = None
  BY <1>1 DEF Found, Inv, TypeOK, Makes, Taken, Begun, ForSomebody, Keys
<1> HIDE DEF v
<1>6. /\ Begun' /\ Taken'
      /\ fin' \in [Finishes -> Fin] /\ fin'[f] = v
      /\ \A g \in Finishes \ {f} : fin'[g] = fin[g]
      /\ chal' = chal
  BY <1>3, <1>4, MoveKeeps
<1>7. TypeOK'
  BY <1>5, <1>6 DEF Inv, TypeOK, Keys
<1>8. Stages' /\ Makes'
  BY <1>1, <1>2, <1>3, <1>5, <1>6 DEF Inv, Stages, Makes, OwnAccount, Keys
<1>9. Rows' /\ OnlyLate'
  BY <1>1, <1>3, <1>5, <1>6 DEF Inv, TypeOK, Rows, OnlyLate
<1>10. QED
  BY <1>6, <1>7, <1>8, <1>9 DEF Inv

(* CancelDeletion brings an account back, whose requests are all overtaken *)
(* ones, or changes nothing.                                               *)
LEMMA RestoredTypes ==
  ASSUME Inv, NEW u \in Users, status' = Restored(u)
  PROVE  /\ status' \in [Users -> {"none", "active", "deletion_pending", "deleted"}]
         /\ \A w \in Users : /\ \/ status'[w] = status[w]
                                \/ status[w] = "deletion_pending" /\ status'[w] = "active"
                             /\ status'[u] = "deletion_pending" => due[u]
<1>1. CASE status[u] = "deletion_pending" /\ ~due[u]
  BY <1>1 DEF Restored, Inv, TypeOK
<1>2. CASE ~(status[u] = "deletion_pending" /\ ~due[u])
  BY <1>2 DEF Restored, Inv, TypeOK
<1>3. QED
  BY <1>1, <1>2

LEMMA CancelByPasskeyKeeps ==
  ASSUME Inv, NEW f \in Finishes, CancelByPasskey(f)
  PROVE  Inv'
<1>1. PICK pc \in {"entering", "done"} : fin' = [fin EXCEPT ![f].pc = pc]
  BY DEF CancelByPasskey, Goto
<1> DEFINE v == [fin[f] EXCEPT !.pc = pc]
<1>2. v \in Fin /\ v.pc = pc /\ v.user = fin[f].user /\ v.key = fin[f].key
      /\ v.op = fin[f].op /\ v.chal = fin[f].chal /\ Moves(f, v)
  BY <1>1 DEF CancelByPasskey, Moves, Inv, TypeOK, Fin
<1>3. /\ fin[f].pc = "found" /\ status' = Restored(fin[f].user)
      /\ UNCHANGED <<due, passkey, session, mail, late>>
  BY DEF CancelByPasskey
<1>4. /\ fin[f].user \in Users /\ status[fin[f].user] # "none"
      /\ passkey[f] = "none" /\ session[f] = "none"
  BY <1>3 DEF Inv, TypeOK, Stages, Makes, Rows, OwnAccount, Keys
<1>5. /\ status' \in [Users -> {"none", "active", "deletion_pending", "deleted"}]
      /\ \A w \in Users : /\ \/ status'[w] = status[w]
                             \/ status[w] = "deletion_pending" /\ status'[w] = "active"
                          /\ status'[fin[f].user] = "deletion_pending" => due[fin[f].user]
  BY <1>3, <1>4, RestoredTypes
<1> HIDE DEF v
<1>6. /\ Begun' /\ Taken'
      /\ fin' \in [Finishes -> Fin] /\ fin'[f] = v
      /\ \A g \in Finishes \ {f} : fin'[g] = fin[g]
      /\ chal' = chal
  BY <1>2, MoveKeeps
<1>7. TypeOK'
  BY <1>3, <1>4, <1>5, <1>6 DEF Inv, TypeOK, Keys, Makes, OwnAccount
<1>8. Stages' /\ Makes'
  BY <1>2, <1>3, <1>4, <1>6 DEF Inv, Stages, Makes, OwnAccount, Keys
<1>9. Rows' /\ OnlyLate'
  <2>1. \A g \in Finishes :
          session[g] # "none" \/ fin[g].pc = "entering" => fin[g].user \in Users
    BY DEF Inv, Makes, Stages, OwnAccount
  <2>2. OnlyLate'
    BY <1>2, <1>3, <1>4, <1>5, <1>6, <2>1 DEF Inv, OnlyLate
  <2>3. \A g \in Finishes : status[fin[g].user] # "none" /\ fin[g].user \in Users =>
          status'[fin[g].user] # "none"
    BY <1>5
  <2>4. \A g \in Finishes : fin'[g].user = fin[g].user /\ (g # f => fin'[g] = fin[g])
    BY <1>2, <1>6
  <2>5. Rows'
    BY <1>2, <1>3, <1>4, <1>6, <2>3, <2>4
       DEF Inv, Rows, Makes, Stages, Taken, Begun, OwnAccount, ForSomebody
  <2>6. QED
    BY <2>2, <2>5
<1>10. QED
  BY <1>6, <1>7, <1>8, <1>9 DEF Inv

LEMMA NewSessionKeeps ==
  ASSUME Inv, NEW f \in Finishes, NewSession(f)
  PROVE  Inv'
<1> DEFINE v == [fin[f] EXCEPT !.pc = "done"]
<1>1. v \in Fin /\ v.pc = "done" /\ v.user = fin[f].user /\ v.op = fin[f].op
      /\ v.chal = fin[f].chal /\ Moves(f, v)
  <2>1. fin[f] \in Fin /\ fin' = [fin EXCEPT ![f] = v]
    BY DEF NewSession, Done, Inv, TypeOK
  <2>2. QED
    BY <2>1 DEF NewSession, Moves, Fin
<1>2. /\ fin[f].pc = "entering" /\ fin[f].op # "add_passkey"
      /\ OwnAccount(f) /\ status[fin[f].user] \in {"active", "deletion_pending"}
  BY DEF NewSession, OwnAccount, Inv, TypeOK, Stages, Rows
<1>3. /\ session' = [session EXCEPT ![f] = "live"]
      /\ UNCHANGED <<status, due, passkey, mail, late>>
      /\ passkey[f] = "none" /\ session[f] = "none"
  BY DEF NewSession, Inv, TypeOK, Makes, Keys
<1>4. session'[f] = "live" /\ \A g \in Finishes \ {f} : session'[g] = session[g]
  BY <1>3 DEF Inv, TypeOK
<1> HIDE DEF v
<1>5. /\ Begun' /\ Taken'
      /\ fin' \in [Finishes -> Fin] /\ fin'[f] = v
      /\ \A g \in Finishes \ {f} : fin'[g] = fin[g]
      /\ chal' = chal
  BY <1>1, MoveKeeps
<1>6. TypeOK'
  <2>1. session' \in [Finishes -> {"none", "live", "dead"}]
    BY <1>3 DEF Inv, TypeOK
  <2>2. \A g \in Finishes :
          /\ passkey'[g] = "active" => status'[fin'[g].user] \in {"active", "deletion_pending"}
          /\ session'[g] = "live" => status'[fin'[g].user] \in {"active", "deletion_pending"}
    BY <1>1, <1>2, <1>3, <1>4, <1>5 DEF Inv, TypeOK
  <2>3. QED
    BY <1>3, <1>5, <2>1, <2>2 DEF Inv, TypeOK, Keys
<1>7. Stages' /\ Makes'
  BY <1>1, <1>2, <1>3, <1>4, <1>5 DEF Inv, Stages, Makes, OwnAccount, Keys
<1>8. Rows' /\ OnlyLate'
  BY <1>1, <1>2, <1>3, <1>4, <1>5 DEF Inv, TypeOK, Rows, OnlyLate
<1>9. QED
  BY <1>5, <1>6, <1>7, <1>8 DEF Inv

LEMMA FailsKeeps ==
  ASSUME Inv, NEW f \in Finishes, Fails(f)
  PROVE  Inv'
<1> DEFINE v == [fin[f] EXCEPT !.pc = "done"]
<1>1. v \in Fin /\ v.pc = "done" /\ v.user = fin[f].user /\ v.op = fin[f].op
      /\ v.chal = fin[f].chal /\ Moves(f, v)
  BY DEF Fails, Done, Moves, Inv, TypeOK, Fin
<1>2. /\ UNCHANGED <<status, due, passkey, session, mail, late>>
      /\ passkey[f] = "none" /\ session[f] = "none"
  BY DEF Fails, Inv, TypeOK, Makes, Keys
<1> HIDE DEF v
<1>3. /\ Begun' /\ Taken'
      /\ fin' \in [Finishes -> Fin] /\ fin'[f] = v
      /\ \A g \in Finishes \ {f} : fin'[g] = fin[g]
      /\ chal' = chal
  BY <1>1, MoveKeeps
<1>4. \A g \in Finishes : fin'[g].user = fin[g].user
  BY <1>1, <1>3
<1>5. TypeOK'
  BY <1>2, <1>3, <1>4 DEF Inv, TypeOK, Keys
<1>6. Stages' /\ Makes'
  BY <1>1, <1>2, <1>3 DEF Inv, Stages, Makes, OwnAccount, Keys
<1>7. Rows' /\ OnlyLate'
  BY <1>1, <1>2, <1>3, <1>4 DEF Inv, Rows, OnlyLate
<1>8. QED
  BY <1>3, <1>5, <1>6, <1>7 DEF Inv

-----------------------------------------------------------------------------
(* Sessions and passkeys that go, alone or with their account. *)
LEMMA EndsKeep ==
  ASSUME Inv,
         \/ \E f \in Finishes : SessionEnds(f)
         \/ \E k \in Keys : RevokePasskey(k)
         \/ \E u \in Users : GraceEnds(u) \/ Finalize(u)
  PROVE  Inv'
<1>1. /\ UNCHANGED <<chal, fin, mail, late>>
      /\ session' \in [Finishes -> {"none", "live", "dead"}]
      /\ passkey' \in [Keys -> {"none", "active", "revoked"}]
      /\ due' \in [Users -> BOOLEAN]
      /\ status' \in [Users -> {"none", "active", "deletion_pending", "deleted"}]
      /\ \A f \in Finishes : session'[f] = session[f] \/ (session[f] = "live" /\ session'[f] = "dead")
      /\ \A k \in Keys : passkey'[k] = passkey[k]
                         \/ (passkey[k] = "active" /\ passkey'[k] = "revoked")
      /\ \A w \in Users : /\ \/ status'[w] = status[w]
                             \/ status[w] # "none" /\ status'[w] = "deleted"
                          /\ due[w] => due'[w]
  <2>1. CASE \E f \in Finishes : SessionEnds(f)
    BY <2>1 DEF Inv, TypeOK, SessionEnds
  <2>2. CASE \E k \in Keys : RevokePasskey(k)
    BY <2>2 DEF Inv, TypeOK, RevokePasskey
  <2>3. CASE \E u \in Users : GraceEnds(u)
    BY <2>3 DEF Inv, TypeOK, GraceEnds
  <2>4. CASE \E u \in Users : Finalize(u)
    BY <2>4 DEF Inv, TypeOK, Finalize, EndSessionsOf
  <2>5. QED
    BY <2>1, <2>2, <2>3, <2>4
<1>2. \A f \in Finishes : session'[f] = "live" \/ passkey'[f] = "active" =>
        status'[fin[f].user] = status[fin[f].user]
  <2>1. CASE \E u \in Users : Finalize(u)
    <3>1. PICK u \in Users : Finalize(u)
      BY <2>1
    <3>2. \A f \in Finishes : fin[f].user = u => session'[f] # "live" /\ passkey'[f] # "active"
      BY <3>1, CeremoniesAssumption
         DEF Finalize, EndSessionsOf, Owner, Keys, Inv, TypeOK
    <3>3. \A f \in Finishes : session'[f] = "live" \/ passkey'[f] = "active" =>
            fin[f].user \in Users
      BY <1>1 DEF Inv, Makes, OwnAccount, Keys
    <3>4. QED
      BY <3>1, <3>2, <3>3 DEF Finalize, Inv, TypeOK
  <2>2. CASE ~\E u \in Users : Finalize(u)
    BY <2>2 DEF SessionEnds, RevokePasskey, GraceEnds
  <2>3. QED
    BY <2>1, <2>2
<1>3. TypeOK'
  BY <1>1, <1>2 DEF Inv, TypeOK, Keys
<1>4. Begun' /\ Taken' /\ Stages' /\ Makes'
  BY <1>1 DEF Inv, Begun, Taken, Stages, Makes, OwnAccount, Keys
<1>5. Rows' /\ OnlyLate'
  BY <1>1 DEF Inv, Rows, OnlyLate, Makes, Stages, Taken, Begun, OwnAccount, ForSomebody, Keys
<1>6. QED
  BY <1>3, <1>4, <1>5 DEF Inv

LEMMA ScheduleKeeps ==
  ASSUME Inv, NEW u \in Users, NEW m \in Mails, ScheduleDeletion(u, m)
  PROVE  Inv'
<1>1. /\ UNCHANGED <<due, chal, fin, passkey>>
      /\ session' = EndSessionsOf(u)
      /\ status' = [status EXCEPT ![u] = "deletion_pending"]
      /\ late' = late \cup {f \in Finishes : fin[f].user = u /\ fin[f].pc = "entering"}
      /\ status[u] \in {"active", "deletion_pending"}
  BY DEF ScheduleDeletion, WasSignedIn, Inv, TypeOK, Rows
<1>2. /\ session' \in [Finishes -> {"none", "live", "dead"}]
      /\ \A f \in Finishes : /\ session'[f] = session[f] \/ (session[f] = "live" /\ session'[f] = "dead")
                             /\ fin[f].user = u => session'[f] # "live"
      /\ status'[u] = "deletion_pending" /\ \A w \in Users \ {u} : status'[w] = status[w]
  BY <1>1 DEF Inv, TypeOK, EndSessionsOf
<1>3. TypeOK'
  BY <1>1, <1>2 DEF Inv, TypeOK, Keys, Makes, OwnAccount, ScheduleDeletion
<1>4. Begun' /\ Taken' /\ Stages' /\ Makes'
  BY <1>1, <1>2 DEF Inv, Begun, Taken, Stages, Makes, OwnAccount, Keys
<1>5. Rows' /\ OnlyLate'
  BY <1>1, <1>2 DEF Inv, Rows, OnlyLate, Makes, Stages, Taken, Begun, OwnAccount, ForSomebody
<1>6. QED
  BY <1>3, <1>4, <1>5 DEF Inv

LEMMA CancelByMailKeeps ==
  ASSUME Inv, NEW m \in Mails, CancelByMail(m)
  PROVE  Inv'
<1>1. /\ UNCHANGED <<due, chal, fin, passkey, session, late>>
      /\ mail' = [mail EXCEPT ![m].state = "used"]
      /\ status' = Restored(mail[m].user)
  BY DEF CancelByMail
<1>2. /\ status' \in [Users -> {"none", "active", "deletion_pending", "deleted"}]
      /\ \A w \in Users : \/ status'[w] = status[w]
                          \/ status[w] = "deletion_pending" /\ status'[w] = "active"
  <2>1. CASE mail[m].user \in Users
    BY <1>1, <2>1, RestoredTypes
  <2>2. CASE mail[m].user \notin Users
    BY <1>1, <2>2 DEF Restored, Inv, TypeOK
  <2>3. QED
    BY <2>1, <2>2
<1>3. TypeOK'
  BY <1>1, <1>2 DEF Inv, TypeOK, Keys, Makes, OwnAccount
<1>4. Begun' /\ Taken' /\ Stages' /\ Makes'
  BY <1>1 DEF Inv, Begun, Taken, Stages, Makes, OwnAccount, Keys
<1>5. Rows' /\ OnlyLate'
  BY <1>1, <1>2 DEF Inv, Rows, OnlyLate, Makes, Stages, Taken, Begun, OwnAccount, ForSomebody
<1>6. QED
  BY <1>3, <1>4, <1>5 DEF Inv

LEMMA NextInv == Inv /\ [Next]_vars => Inv'
<1> SUFFICES ASSUME Inv, [Next]_vars PROVE Inv'
  OBVIOUS
<1>1. CASE \E c \in Challenges :
              \/ \E u \in Users : RegistrationBegin(c, u) \/ AddPasskeyBegin(c, u)
              \/ LoginBegin(c) \/ DeletionCancelBegin(c) \/ ChallengeExpires(c)
  BY <1>1, BeginKeeps
<1>2. CASE \E f \in Finishes, c \in Challenges, op \in Operations, u \in Users \cup {None} :
              Consume(f, c, op, u)
  BY <1>2, ConsumeKeeps
<1>3. CASE \E f \in Finishes :
              \/ Register(f) \/ AddCredential(f)
              \/ \E k \in Keys : LoginVerified(f, k) \/ DiscoverableDeletionUser(f, k)
              \/ CancelByPasskey(f) \/ NewSession(f) \/ Fails(f)
  BY <1>3, RegisterKeeps, AddCredentialKeeps, FoundKeeps, CancelByPasskeyKeeps,
     NewSessionKeeps, FailsKeeps
<1>4. CASE \/ \E f \in Finishes : SessionEnds(f)
           \/ \E k \in Keys : RevokePasskey(k)
           \/ \E u \in Users : GraceEnds(u) \/ Finalize(u)
  BY <1>4, EndsKeep
<1>5. CASE \/ \E u \in Users, m \in Mails : ScheduleDeletion(u, m)
           \/ \E m \in Mails : CancelByMail(m)
  BY <1>5, ScheduleKeeps, CancelByMailKeeps
<1>6. CASE UNCHANGED vars
  BY <1>6 DEF vars, Inv, TypeOK, Begun, Taken, Stages, Makes, Rows, OnlyLate, OwnAccount, Keys
<1>7. QED
  BY <1>1, <1>2, <1>3, <1>4, <1>5, <1>6 DEF Next

LEMMA InvHolds == Spec => []Inv
BY InitInv, NextInv, PTL DEF Spec

(* Every variable keeps its type; no session and no passkey outlives its   *)
(* account, whatever is under way when that is deleted.                    *)
THEOREM TypeCorrect == Spec => []TypeOK
<1>1. Inv => TypeOK
  BY DEF Inv
<1>2. QED
  BY <1>1, InvHolds, PTL

(* A challenge serves the operation and the account it was begun for: a    *)
(* passkey comes of "add_passkey" alone, a session never does.             *)
THEOREM ChallengeServesItsOwn == Spec => []MadeAsBegun
<1>1. Inv => MadeAsBegun
  BY DEF Inv, Taken, Makes, OwnAccount, MadeAsBegun
<1>2. QED
  BY <1>1, InvHolds, PTL

-----------------------------------------------------------------------------
(* What can become of accounts in one step. *)
LEMMA OneAccount ==
  ASSUME Inv, [Next]_vars
  PROVE  \/ UNCHANGED <<status, due>>
         \/ \E u \in Users : /\ UNCHANGED due
                             /\ status[u] = "none"
                             /\ status' = [status EXCEPT ![u] = "active"]
         \/ \E u \in Users : /\ UNCHANGED due
                             /\ status[u] = "active"
                             /\ status' = [status EXCEPT ![u] = "deletion_pending"]
         \/ \E u \in Users : /\ UNCHANGED due
                             /\ status[u] = "deletion_pending" /\ ~due[u]
                             /\ status' = [status EXCEPT ![u] = "active"]
         \/ \E u \in Users : GraceEnds(u) \/ Finalize(u)
<1>1. ASSUME NEW u \in Users \cup {None}, status' = Restored(u), UNCHANGED due
      PROVE  \/ UNCHANGED <<status, due>>
             \/ \E w \in Users : /\ UNCHANGED due
                                 /\ status[w] = "deletion_pending" /\ ~due[w]
                                 /\ status' = [status EXCEPT ![w] = "active"]
  <2>1. CASE u \in Users
    BY <1>1, <2>1 DEF Restored
  <2>2. CASE u \notin Users
    BY <1>1, <2>2 DEF Restored, Inv, TypeOK
  <2>3. QED
    BY <2>1, <2>2
<1>2. ASSUME NEW f \in Finishes, CancelByPasskey(f)
      PROVE  status' = Restored(fin[f].user) /\ UNCHANGED due /\ fin[f].user \in Users
  BY <1>2 DEF CancelByPasskey, Inv, Stages, OwnAccount
<1>3. ASSUME NEW m \in Mails, CancelByMail(m)
      PROVE  status' = Restored(mail[m].user) /\ UNCHANGED due /\ mail[m].user \in Users \cup {None}
  BY <1>3 DEF CancelByMail, Inv, TypeOK
<1>4. ASSUME NEW f \in Finishes, Register(f)
      PROVE  \E u \in Users : /\ UNCHANGED due
                              /\ status[u] = "none"
                              /\ status' = [status EXCEPT ![u] = "active"]
  <2>1. fin[f].user \in Users
    BY <1>4 DEF Register, Inv, Stages, Taken, Begun, ForSomebody
  <2>2. QED
    BY <1>4, <2>1 DEF Register
<1>5. ASSUME NEW u \in Users, NEW m \in Mails, ScheduleDeletion(u, m)
      PROVE  \/ UNCHANGED <<status, due>>
             \/ \E w \in Users : /\ UNCHANGED due
                                 /\ status[w] = "active"
                                 /\ status' = [status EXCEPT ![w] = "deletion_pending"]
  <2>1. status[u] \in {"active", "deletion_pending"}
    BY <1>5 DEF ScheduleDeletion, WasSignedIn, Inv, TypeOK, Rows
  <2>2. QED
    BY <1>5, <2>1 DEF ScheduleDeletion, Inv, TypeOK
<1>6. CASE \E c \in Challenges :
              \/ \E w \in Users : RegistrationBegin(c, w) \/ AddPasskeyBegin(c, w)
              \/ LoginBegin(c) \/ DeletionCancelBegin(c) \/ ChallengeExpires(c)
  BY <1>6 DEF RegistrationBegin, AddPasskeyBegin, LoginBegin, DeletionCancelBegin,
     PutChallenge, ChallengeExpires
<1>7. CASE \E f \in Finishes, c \in Challenges, op \in Operations, w \in Users \cup {None} :
              Consume(f, c, op, w)
  BY <1>7 DEF Consume
<1>8. CASE \E f \in Finishes :
              \/ AddCredential(f) \/ NewSession(f) \/ Fails(f) \/ SessionEnds(f)
              \/ \E k \in Keys : LoginVerified(f, k) \/ DiscoverableDeletionUser(f, k)
  BY <1>8 DEF AddCredential, NewSession, Fails, SessionEnds, LoginVerified,
     DiscoverableDeletionUser, Found
<1>9. CASE (\E k \in Keys : RevokePasskey(k)) \/ UNCHANGED vars
  BY <1>9 DEF RevokePasskey, vars
<1>10. ASSUME NEW f \in Finishes, CancelByPasskey(f)
       PROVE  \/ UNCHANGED <<status, due>>
              \/ \E w \in Users : /\ UNCHANGED due
                                  /\ status[w] = "deletion_pending" /\ ~due[w]
                                  /\ status' = [status EXCEPT ![w] = "active"]
  BY <1>1, <1>2, <1>10
<1>11. ASSUME NEW m \in Mails, CancelByMail(m)
       PROVE  \/ UNCHANGED <<status, due>>
              \/ \E w \in Users : /\ UNCHANGED due
                                  /\ status[w] = "deletion_pending" /\ ~due[w]
                                  /\ status' = [status EXCEPT ![w] = "active"]
  BY <1>1, <1>3, <1>11
<1>12. QED
  BY <1>4, <1>5, <1>6, <1>7, <1>8, <1>9, <1>10, <1>11 DEF Next

(* An account comes back from its deletion without the sessions it had     *)
(* before, by passkey, by mail, or by several of them at once.             *)
THEOREM RestoredIsClean == Spec => RestoredStartsClean
<1>1. ASSUME Inv, Next, NEW u \in Users,
             status[u] = "deletion_pending", status'[u] = "active"
      PROVE  ~due[u]
  <2>1. ASSUME NEW w \in Users, GraceEnds(w) \/ Finalize(w) PROVE FALSE
    BY <1>1, <2>1 DEF GraceEnds, Finalize, Inv, TypeOK
  <2>2. QED
    BY <1>1, <2>1, OneAccount DEF Inv, TypeOK
<1>2. Inv /\ [Next]_vars =>
        [\A u \in Users : status[u] = "deletion_pending" /\ status'[u] = "active" =>
           \A f \in Finishes : session[f] = "live" /\ fin[f].user = u => f \in late]_vars
  BY <1>1 DEF Inv, OnlyLate
<1>3. QED
  BY <1>2, InvHolds, PTL DEF Spec, RestoredStartsClean

-----------------------------------------------------------------------------
(* Ceremonies implements GracePeriod.                                      *)

(* Time is up only for an account that is to go, or is gone. *)
Timed == \A u \in Users : due[u] => status[u] \in {"deletion_pending", "deleted"}

Phase == [u \in Users |-> CASE status[u] = "deletion_pending" -> "announced"
                            [] status[u] = "deleted" -> "done"
                            [] OTHER -> "off"]

LEMMA TimedHolds == Spec => []Timed
<1>1. Init => Timed
  BY DEF Init, Timed
<1>2. ASSUME Inv, Timed, [Next]_vars PROVE Timed'
  BY <1>2, OneAccount DEF Timed, Inv, TypeOK, GraceEnds, Finalize
<1>3. QED
  BY <1>1, <1>2, InvHolds, PTL DEF Spec

(* An account is deleted only after the whole grace period of its own      *)
(* deletion, whatever links and requests of an earlier one are still       *)
(* about; and none of these brings it back when that period is over.       *)
THEOREM GraceIsKept == Spec => ImplementsGracePeriod
<1>1. Init => GP!Init
  BY DEF Init, GP!Init
<1>2. ASSUME Inv, Timed, [Next]_vars PROVE [GP!Next]_(GP!vars)
  <2> USE DEF Inv, TypeOK
  <2>1. ASSUME NEW u \in Users, NEW x \in {"active", "deletion_pending", "deleted"},
               status' = [status EXCEPT ![u] = x]
        PROVE  Phase' = [Phase EXCEPT ![u] = CASE x = "deletion_pending" -> "announced"
                                               [] x = "deleted" -> "done"
                                               [] OTHER -> "off"]
    BY <1>2, <2>1 DEF Phase
  <2>2. CASE UNCHANGED <<status, due>>
    BY <2>2 DEF GP!vars
  <2>3. ASSUME NEW u \in Users, UNCHANGED due,
               status[u] = "none", status' = [status EXCEPT ![u] = "active"]
        PROVE  Phase' = Phase
    BY <1>2, <2>3 DEF Phase
  <2>4. ASSUME NEW u \in Users, UNCHANGED due,
               status[u] = "active", status' = [status EXCEPT ![u] = "deletion_pending"]
        PROVE  GP!Announce(u)
    BY <1>2, <2>1, <2>4 DEF GP!Announce, Phase, Timed
  <2>5. ASSUME NEW u \in Users, UNCHANGED due, status[u] = "deletion_pending", ~due[u],
               status' = [status EXCEPT ![u] = "active"]
        PROVE  GP!CallOff(u)
    <3>1. Phase[u] = "announced" /\ Phase' = [Phase EXCEPT ![u] = "off"]
      BY <2>1, <2>5 DEF Phase
    <3>2. due' = [due EXCEPT ![u] = FALSE]
      BY <1>2, <2>5
    <3>3. QED
      BY <2>5, <3>1, <3>2 DEF GP!CallOff, Phase
  <2>6. ASSUME NEW u \in Users, GraceEnds(u) PROVE GP!TimeIsUp(u)
    BY <1>2, <2>6 DEF GP!TimeIsUp, GraceEnds
  <2>7. ASSUME NEW u \in Users, Finalize(u) PROVE GP!CarryOut(u)
    BY <1>2, <2>1, <2>7 DEF GP!CarryOut, Phase, Finalize
  <2>8. QED
    BY <1>2, <2>2, <2>3, <2>4, <2>5, <2>6, <2>7, OneAccount DEF GP!Next, GP!vars, Phase
<1>3. QED
  BY <1>1, <1>2, InvHolds, TimedHolds, PTL DEF Spec, ImplementsGracePeriod, GP!Spec

-----------------------------------------------------------------------------
(* Challenges, and what is made with them, implement OneTimeGrant.         *)
CodeOf == [c \in Challenges |-> CASE chal[c].state = "none" -> "none"
                                  [] chal[c].state = "open" -> "fresh"
                                  [] OTHER -> "spent"]
HolderOf == [c \in Challenges |-> {f \in Finishes : fin[f].chal = c}]
TokenOf == [f \in Finishes |-> IF session[f] # "none" THEN session[f]
                               ELSE CASE passkey[f] = "active" -> "live"
                                      [] passkey[f] = "revoked" -> "dead"
                                      [] OTHER -> "none"]

LEMMA Stutters ==
  ASSUME CodeOf' = CodeOf, HolderOf' = HolderOf, TokenOf' = TokenOf
  PROVE  [OTG!Next]_(OTG!vars)
BY DEF OTG!vars, CodeOf, HolderOf, TokenOf

LEMMA BeginRefines ==
  ASSUME Inv, NEW c \in Challenges,
         \/ \E u \in Users : RegistrationBegin(c, u) \/ AddPasskeyBegin(c, u)
         \/ LoginBegin(c) \/ DeletionCancelBegin(c) \/ ChallengeExpires(c)
  PROVE  [OTG!Next]_(OTG!vars)
<1>1. HolderOf' = HolderOf /\ TokenOf' = TokenOf
  BY DEF RegistrationBegin, AddPasskeyBegin, LoginBegin, DeletionCancelBegin, PutChallenge,
         ChallengeExpires, HolderOf, TokenOf
<1>2. /\ \A d \in Challenges \ {c} : chal'[d] = chal[d]
      /\ \/ chal[c].state = "none" /\ chal'[c].state = "open"
         \/ chal[c].state = "open" /\ chal'[c].state = "expired"
  BY DEF Inv, TypeOK, Chal, RegistrationBegin, AddPasskeyBegin, LoginBegin,
         DeletionCancelBegin, PutChallenge, ChallengeExpires
<1>3. CASE chal[c].state = "none" /\ chal'[c].state = "open"
  <2>1. CodeOf[c] = "none" /\ CodeOf' = [CodeOf EXCEPT ![c] = "fresh"]
    BY <1>2, <1>3 DEF CodeOf
  <2>2. OTG!Issue(c)
    BY <1>1, <2>1 DEF OTG!Issue, CodeOf, HolderOf, TokenOf
  <2>3. QED
    BY <2>2 DEF OTG!Next
<1>4. CASE chal[c].state = "open" /\ chal'[c].state = "expired"
  <2>1. CodeOf[c] = "fresh" /\ CodeOf' = [CodeOf EXCEPT ![c] = "spent"]
    BY <1>2, <1>4 DEF CodeOf
  <2>2. OTG!Void(c)
    BY <1>1, <2>1 DEF OTG!Void, CodeOf, HolderOf, TokenOf
  <2>3. QED
    BY <2>2 DEF OTG!Next
<1>5. QED
  BY <1>2, <1>3, <1>4

LEMMA ConsumeRefines ==
  ASSUME Inv, NEW f \in Finishes, NEW c \in Challenges, NEW op \in Operations,
         NEW u \in Users \cup {None}, Consume(f, c, op, u)
  PROVE  [OTG!Next]_(OTG!vars)
<1>1. /\ fin[f].pc = "idle" /\ chal[c].state = "open"
      /\ \A d \in Challenges \ {c} : chal'[d] = chal[d]
      /\ chal'[c].state = "used"
      /\ fin'[f].chal = c /\ \A g \in Finishes \ {f} : fin'[g] = fin[g]
  BY DEF Consume, Inv, TypeOK, Chal, Fin, Idle
<1>2. fin[f].chal = None /\ \A g \in Finishes : fin[g].chal # c
  BY <1>1, CeremoniesAssumption DEF Inv, Taken, Idle
<1>3. CodeOf[c] = "fresh" /\ CodeOf' = [CodeOf EXCEPT ![c] = "spent"]
  BY <1>1 DEF CodeOf
<1>4. TokenOf' = TokenOf
  BY DEF Consume, TokenOf
<1>5. HolderOf[c] = {}
  BY <1>2 DEF HolderOf
<1>6. HolderOf' = [HolderOf EXCEPT ![c] = {f}]
  <2>1. {g \in Finishes : fin'[g].chal = c} = {f}
    BY <1>1, <1>2
  <2>2. ASSUME NEW d \in Challenges \ {c}
        PROVE  {g \in Finishes : fin'[g].chal = d} = {g \in Finishes : fin[g].chal = d}
    BY <1>1, <1>2, CeremoniesAssumption
  <2>3. QED
    BY <2>1, <2>2 DEF HolderOf
<1>7. OTG!Redeem(c, f)
  BY <1>3, <1>4, <1>5, <1>6 DEF OTG!Redeem, CodeOf, HolderOf, TokenOf
<1>8. QED
  BY <1>7 DEF OTG!Next

(* A request that goes on keeps its challenge. *)
LEMMA HoldersStay ==
  ASSUME Inv, NEW f \in Finishes, \E pc : fin' = [fin EXCEPT ![f].pc = pc]
  PROVE  HolderOf' = HolderOf
<1>1. \A g \in Finishes : fin'[g].chal = fin[g].chal
  BY DEF Inv, TypeOK, Fin
<1>2. QED
  BY <1>1 DEF HolderOf

LEMMA MintRefines ==
  ASSUME Inv, NEW f \in Finishes, AddCredential(f) \/ NewSession(f)
  PROVE  [OTG!Next]_(OTG!vars)
<1>1. CodeOf' = CodeOf /\ HolderOf' = HolderOf
  <2>1. chal' = chal /\ \E pc : fin' = [fin EXCEPT ![f].pc = pc]
    BY DEF AddCredential, NewSession, Done
  <2>2. QED
    BY <2>1, HoldersStay DEF CodeOf
<1>2. session[f] = "none" /\ passkey[f] = "none" /\ fin[f].chal \in Challenges
  BY DEF AddCredential, NewSession, Inv, TypeOK, Makes, Taken, Keys
<1>3. TokenOf[f] = "none" /\ TokenOf' = [TokenOf EXCEPT ![f] = "live"]
  <2>1. CASE AddCredential(f)
    <3>1. UNCHANGED session /\ passkey'[f] = "active"
          /\ \A g \in Finishes \ {f} : passkey'[g] = passkey[g]
      BY <2>1 DEF AddCredential, Inv, TypeOK, Keys
    <3>2. QED
      BY <1>2, <3>1 DEF TokenOf
  <2>2. CASE NewSession(f)
    BY <1>2, <2>2 DEF NewSession, TokenOf, Inv, TypeOK
  <2>3. QED
    BY <2>1, <2>2
<1>4. f \in HolderOf[fin[f].chal]
  BY <1>2 DEF HolderOf
<1>5. OTG!Mint(f)
  BY <1>1, <1>2, <1>3, <1>4 DEF OTG!Mint, CodeOf, HolderOf, TokenOf
<1>6. QED
  BY <1>5 DEF OTG!Next

LEMMA RequestRefines ==
  ASSUME Inv, NEW f \in Finishes,
         \/ Register(f) \/ CancelByPasskey(f) \/ Fails(f)
         \/ \E k \in Keys : LoginVerified(f, k) \/ DiscoverableDeletionUser(f, k)
  PROVE  [OTG!Next]_(OTG!vars)
<1>1. chal' = chal /\ session' = session /\ \A g \in Finishes : fin'[g].chal = fin[g].chal
  <2>1. fin \in [Finishes -> Fin] /\ fin[f] \in Fin
    BY DEF Inv, TypeOK
  <2>2. CASE Register(f)
    BY <2>1, <2>2 DEF Register, Fin
  <2>3. CASE CancelByPasskey(f) \/ Fails(f)
    BY <2>1, <2>3 DEF CancelByPasskey, Fails, Done, Goto, Fin
  <2>4. CASE \E k \in Keys : LoginVerified(f, k) \/ DiscoverableDeletionUser(f, k)
    <3>1. PICK k \in Keys, pc \in {"entering", "found"} : Found(f, k, pc)
      BY <2>4 DEF LoginVerified, DiscoverableDeletionUser
    <3>2. /\ fin'[f].chal = fin[f].chal
          /\ \A g \in Finishes \ {f} : fin'[g] = fin[g]
      BY <2>1, <3>1 DEF Found, Fin
    <3>3. QED
      BY <3>1, <3>2 DEF Found
  <2>5. QED
    BY <2>2, <2>3, <2>4
<1>2. \A g \in Finishes : passkey'[g] = passkey[g]
  <2>1. CASE Register(f)
    <3>1. fin[f].user \in Users
      BY <2>1 DEF Register, Inv, Stages, Taken, Begun, ForSomebody
    <3>2. QED
      BY <2>1, <3>1, CeremoniesAssumption DEF Register, Inv, TypeOK, Keys
  <2>2. CASE ~Register(f)
    BY <2>2 DEF CancelByPasskey, Fails, LoginVerified, DiscoverableDeletionUser, Found
  <2>3. QED
    BY <2>1, <2>2
<1>3. CodeOf' = CodeOf /\ HolderOf' = HolderOf /\ TokenOf' = TokenOf
  BY <1>1, <1>2 DEF CodeOf, HolderOf, TokenOf
<1>4. QED
  BY <1>3, Stutters

(* Whatever ends sessions or passkeys is one Drop. *)
LEMMA EndsRefine ==
  ASSUME Inv, UNCHANGED <<chal, fin>>,
         \A f \in Finishes :
           /\ session'[f] = session[f] \/ (session[f] = "live" /\ session'[f] = "dead")
           /\ passkey'[f] = passkey[f] \/ (passkey[f] = "active" /\ passkey'[f] = "revoked")
  PROVE  [OTG!Next]_(OTG!vars)
<1>1. CodeOf' = CodeOf /\ HolderOf' = HolderOf
  BY DEF CodeOf, HolderOf
<1>2. PICK H \in SUBSET Finishes :
        H = {f \in Finishes : session'[f] # session[f] \/ passkey'[f] # passkey[f]}
  OBVIOUS
<1>3. \A f \in Finishes : session[f] = "none" \/ passkey[f] = "none"
  BY DEF Inv, Makes
<1>4. \A f \in H : TokenOf[f] = "live"
  BY <1>2, <1>3 DEF TokenOf
<1>5. TokenOf' = [f \in Finishes |-> IF f \in H THEN "dead" ELSE TokenOf[f]]
  BY <1>2, <1>3 DEF TokenOf
<1>6. OTG!Drop(H)
  BY <1>1, <1>4, <1>5 DEF OTG!Drop, CodeOf, HolderOf, TokenOf
<1>7. QED
  BY <1>6 DEF OTG!Next

(* One challenge makes one session or one passkey, whoever presents it and *)
(* however often, and what was ended stays ended.                          *)
THEOREM ChallengesAreOneTime == Spec => ImplementsOneTimeGrant
<1>1. Init => OTG!Init
  BY CeremoniesAssumption DEF Init, OTG!Init, Idle, Keys
<1>2. ASSUME Inv, [Next]_vars PROVE [OTG!Next]_(OTG!vars)
  <2>1. CASE \E c \in Challenges :
                \/ \E u \in Users : RegistrationBegin(c, u) \/ AddPasskeyBegin(c, u)
                \/ LoginBegin(c) \/ DeletionCancelBegin(c) \/ ChallengeExpires(c)
    BY <1>2, <2>1, BeginRefines
  <2>2. CASE \E f \in Finishes, c \in Challenges, op \in Operations, u \in Users \cup {None} :
                Consume(f, c, op, u)
    BY <1>2, <2>2, ConsumeRefines
  <2>3. CASE \E f \in Finishes : AddCredential(f) \/ NewSession(f)
    BY <1>2, <2>3, MintRefines
  <2>4. CASE \E f \in Finishes :
                \/ Register(f) \/ CancelByPasskey(f) \/ Fails(f)
                \/ \E k \in Keys : LoginVerified(f, k) \/ DiscoverableDeletionUser(f, k)
    BY <1>2, <2>4, RequestRefines
  <2>5. CASE \/ \E f \in Finishes : SessionEnds(f)
             \/ \E k \in Keys : RevokePasskey(k)
             \/ \E u \in Users : \/ GraceEnds(u) \/ Finalize(u)
                                 \/ \E m \in Mails : ScheduleDeletion(u, m)
             \/ \E m \in Mails : CancelByMail(m)
             \/ UNCHANGED vars
    <3>1. /\ UNCHANGED <<chal, fin>>
          /\ \A f \in Finishes :
               /\ session'[f] = session[f] \/ (session[f] = "live" /\ session'[f] = "dead")
               /\ passkey'[f] = passkey[f] \/ (passkey[f] = "active" /\ passkey'[f] = "revoked")
      BY <1>2, <2>5 DEF Inv, TypeOK, Keys, SessionEnds, RevokePasskey, GraceEnds, Finalize,
         ScheduleDeletion, CancelByMail, EndSessionsOf, vars
    <3>2. QED
      BY <1>2, <3>1, EndsRefine
  <2>6. QED
    BY <1>2, <2>1, <2>2, <2>3, <2>4, <2>5 DEF Next
<1>3. QED
  BY <1>1, <1>2, InvHolds, PTL DEF Spec, ImplementsOneTimeGrant, OTG!Spec
=============================================================================
