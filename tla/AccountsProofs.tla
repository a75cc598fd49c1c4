--------------------------- MODULE AccountsProofs ---------------------------
(***************************************************************************)
(* Accounts, for any number of users, links and requests.  A demotion that *)
(* has counted holds the lock of SetAdmin, so those it counted lose their  *)
(* role only with their account; and a deletion that goes on had found     *)
(* another administrator than the user who leaves, or none in him, unless  *)
(* it could not ask.                                                       *)
(***************************************************************************)
EXTENDS Accounts, FiniteSetTheorems, TLAPS

(* What a request has counted: more than one administrator, each of whom   *)
(* still is one or has been deleted.                                       *)
Counted ==
  \A p \in Requests : req[p].pc = "counted" =>
    /\ \E u, v \in req[p].counted : u # v
    /\ \A u \in req[p].counted : granted[u] # None \/ user[u] = "deleted"

(* A user who leaves was not the only one counted, unless the query for    *)
(* that failed.                                                            *)
Leaving ==
  \A p \in Requests : req[p].pc = "leaving" =>
    req[p].counted # {req[p].target} \/ req[p].blind

(* A request in progress has a user to work on, and an administrator has a *)
(* user behind it.                                                         *)
Targets ==
  \A p \in Requests : /\ req[p].pc # "idle" => req[p].target \in Users
                      /\ req[p].pc \in {"admin", "locked"} =>
                           req[p].actor \in Users /\ user[req[p].actor] # "none"

(* A registration under way has its link, and its user, to itself.         *)
Registering ==
  \A p \in Requests : req[p].pc = "registering" =>
    /\ user[req[p].target] = "none"
    /\ req[p].link # None => link[req[p].link] # "used"
    /\ \A q \in Requests : req[q].pc = "registering" /\ q # p =>
         /\ req[q].target # req[p].target
         /\ req[p].link # None => req[q].link # req[p].link

Inv == TypeOK /\ Counted /\ Leaving /\ Targets /\ Registering

LEMMA InitInv == Init => Inv
BY AccountsAssumption DEF Init, Inv, TypeOK, Counted, Leaving, Targets, Registering, Idle,
   ReqRec, Stages

(* A set of more than one element has two. *)
LEMMA TwoOfMany ==
  ASSUME NEW S \in SUBSET Users, Cardinality(S) > 1
  PROVE  \E u, v \in S : u # v
<1>1. IsFiniteSet(S)
  BY AccountsAssumption, FS_Subset
<1>2. S # {}
  BY <1>1, FS_EmptySet
<1>3. PICK u \in S : TRUE
  BY <1>2
<1>4. S # {u}
  BY <1>1, FS_Singleton
<1>5. QED
  BY <1>3, <1>4

-----------------------------------------------------------------------------
LEMMA LinkKeeps ==
  ASSUME Inv, NEW b \in Links, IssueLink(b) \/ LinkExpires(b)
  PROVE  Inv'
BY DEF Inv, TypeOK, Counted, Leaving, Targets, Registering, IssueLink, LinkExpires, ReqRec

(* Requests that begin: what they hold is new. *)
LEMMA RegisterKeeps ==
  ASSUME Inv, NEW p \in Requests, NEW u \in Users, NEW b \in Links \cup {None},
         Register(p, u, b)
  PROVE  Inv'
<1>1. PICK c \in Links \cup {None} :
        /\ c \in {b, None} /\ (c # None => link[c] = "issued")
        /\ req' = [req EXCEPT ![p] = [Idle EXCEPT !.pc = "registering", !.target = u,
                                                  !.link = c]]
  BY AccountsAssumption DEF Register
<1> DEFINE v == [Idle EXCEPT !.pc = "registering", !.target = u, !.link = c]
<1>2. v \in ReqRec /\ v.pc = "registering" /\ v.target = u /\ v.link = c
  BY DEF Idle, ReqRec, Stages
<1>3. req' = [req EXCEPT ![p] = v]
  BY <1>1
<1> HIDE DEF v
<1>4. /\ req' \in [Requests -> ReqRec] /\ req'[p] = v
      /\ \A q \in Requests \ {p} : req'[q] = req[q]
  BY <1>2, <1>3 DEF Inv, TypeOK
<1>5. /\ UNCHANGED <<user, due, granted, created, link, lock, fin>>
      /\ req[p].pc = "idle" /\ user[u] = "none"
      /\ \A q \in Requests : req[q].pc = "registering" =>
           req[q].target # u /\ (b # None => req[q].link # b)
  BY DEF Register
<1>6. TypeOK'
  BY <1>2, <1>4, <1>5 DEF Inv, TypeOK
<1>7. Counted' /\ Leaving' /\ Targets'
  BY <1>2, <1>4, <1>5 DEF Inv, Counted, Leaving, Targets
<1>8. Registering'
  BY <1>1, <1>2, <1>4, <1>5 DEF Inv, Registering
<1>9. QED
  BY <1>6, <1>7, <1>8 DEF Inv

LEMMA RequestBegins ==
  ASSUME Inv, NEW p \in Requests,
         \/ \E a, u \in Users : SetRole(p, a, u)
         \/ \E u \in Users, answered \in BOOLEAN : DeleteAccount(p, u, answered)
  PROVE  Inv'
<1>1. PICK v \in ReqRec :
        /\ req' = [req EXCEPT ![p] = v] /\ v.target \in Users
        /\ \/ v.pc = "admin" /\ v.actor \in Users /\ user[v.actor] = "active"
           \/ v.pc = "staying"
           \/ v.pc = "leaving" /\ (v.counted # {v.target} \/ v.blind)
  <2>1. ASSUME NEW a \in Users, NEW u \in Users, SetRole(p, a, u)
        PROVE  \E v \in ReqRec :
                 /\ req' = [req EXCEPT ![p] = v] /\ v.target \in Users
                 /\ v.pc = "admin" /\ v.actor \in Users /\ user[v.actor] = "active"
    <3> DEFINE v == [Idle EXCEPT !.pc = "admin", !.actor = a, !.target = u]
    <3>1. v \in ReqRec /\ v.pc = "admin" /\ v.actor = a /\ v.target = u
      BY DEF Idle, ReqRec, Stages
    <3>2. req' = [req EXCEPT ![p] = v] /\ user[a] = "active"
      BY <2>1 DEF SetRole, IsAdmin, ActiveAdmins
    <3>3. QED
      BY <3>1, <3>2
  <2>2. ASSUME NEW u \in Users, NEW answered \in BOOLEAN, DeleteAccount(p, u, answered)
        PROVE  \E v \in ReqRec :
                 /\ req' = [req EXCEPT ![p] = v] /\ v.target \in Users
                 /\ \/ v.pc = "staying"
                    \/ v.pc = "leaving" /\ (v.counted # {v.target} \/ v.blind)
    <3> DEFINE admin == answered /\ u \in Admins
               v == [Idle EXCEPT !.pc = IF admin THEN "staying" ELSE "leaving", !.target = u,
                                 !.counted = IF admin THEN {} ELSE Admins,
                                 !.blind = Blind(u, answered)]
    <3>1. /\ v \in ReqRec /\ v.target = u
          /\ v.pc = (IF admin THEN "staying" ELSE "leaving")
          /\ v.counted = (IF admin THEN {} ELSE Admins) /\ v.blind = Blind(u, answered)
      <4>1. Blind(u, answered) \in BOOLEAN /\ Admins \subseteq Users
        BY DEF Blind, IsLastAdmin, Admins
      <4> DEFINE b == Blind(u, answered)
      <4> HIDE DEF b
      <4>2. QED
        BY <4>1 DEF Idle, ReqRec, Stages, b
    <3>2. req' = [req EXCEPT ![p] = v]
      BY <2>2 DEF DeleteAccount
    <3>3. CASE admin
      BY <3>1, <3>2, <3>3
    <3>4. CASE ~admin
      <4>1. Admins = {u} => Blind(u, answered)
        BY <3>4 DEF Blind, IsLastAdmin
      <4>2. QED
        BY <3>1, <3>2, <3>4, <4>1
    <3>5. QED
      BY <3>3, <3>4
  <2>3. QED
    BY <2>1, <2>2
<1>2. /\ UNCHANGED <<user, due, granted, created, link, lock, fin>>
      /\ req[p].pc = "idle"
  BY DEF SetRole, DeleteAccount
<1>3. /\ req' \in [Requests -> ReqRec] /\ req'[p] = v
      /\ \A q \in Requests \ {p} : req'[q] = req[q]
  BY <1>1 DEF Inv, TypeOK
<1>4. TypeOK'
  BY <1>1, <1>2, <1>3 DEF Inv, TypeOK
<1>5. Counted' /\ Leaving' /\ Targets' /\ Registering'
  BY <1>1, <1>2, <1>3 DEF Inv, Counted, Leaving, Targets, Registering
<1>6. QED
  BY <1>4, <1>5 DEF Inv

(* The last administrator does not get past the check. *)
LEMMA CheckKeeps ==
  ASSUME Inv, NEW p \in Requests, NEW answered \in BOOLEAN, CheckLast(p, answered)
  PROVE  Inv'
<1> DEFINE u == req[p].target
           v == [req[p] EXCEPT !.pc = "leaving", !.counted = Admins,
                               !.blind = Blind(u, answered)]
<1>1. /\ UNCHANGED <<user, due, granted, created, link, lock, fin>>
      /\ req[p].pc = "staying" /\ req[p] \in ReqRec /\ u \in Users
      /\ req' = [req EXCEPT ![p] = v]
  BY DEF CheckLast, Inv, TypeOK, Targets
<1>2. /\ v \in ReqRec /\ v.pc = "leaving" /\ v.target = u
      /\ v.counted = Admins /\ v.blind = Blind(u, answered)
  <2>1. Blind(u, answered) \in BOOLEAN /\ Admins \subseteq Users
    BY DEF Blind, IsLastAdmin, Admins
  <2> DEFINE b == Blind(u, answered)
  <2> HIDE DEF b
  <2>2. QED
    BY <1>1, <2>1 DEF ReqRec, Stages, b
<1>3. v.counted # {v.target} \/ v.blind
  BY <1>2 DEF CheckLast, Blind, IsLastAdmin
<1> HIDE DEF v
<1>4. /\ req' \in [Requests -> ReqRec] /\ req'[p] = v
      /\ \A q \in Requests \ {p} : req'[q] = req[q]
  BY <1>1, <1>2 DEF Inv, TypeOK
<1>5. TypeOK'
  BY <1>1, <1>2, <1>4 DEF Inv, TypeOK
<1>6. Counted' /\ Leaving' /\ Targets' /\ Registering'
  BY <1>1, <1>2, <1>3, <1>4 DEF Inv, Counted, Leaving, Targets, Registering
<1>7. QED
  BY <1>5, <1>6 DEF Inv

(* A request that ends leaves the others as they are. *)
LEMMA Ends ==
  ASSUME TypeOK, NEW p \in Requests, End(p)
  PROVE  /\ req' \in [Requests -> ReqRec] /\ req'[p].pc = "idle"
         /\ \A q \in Requests \ {p} : req'[q] = req[q]
BY AccountsAssumption DEF End, TypeOK, Idle, ReqRec, Stages

LEMMA RegisterCommitKeeps ==
  ASSUME Inv, NEW p \in Requests, RegisterCommit(p)
  PROVE  Inv'
<1> DEFINE u == req[p].target
           b == req[p].link
<1>1. /\ req' \in [Requests -> ReqRec] /\ req'[p].pc = "idle"
      /\ \A q \in Requests \ {p} : req'[q] = req[q]
  BY Ends DEF RegisterCommit, Inv
<1>2. /\ u \in Users /\ b \in Links \cup {None} /\ user[u] = "none"
      /\ req[p].pc = "registering"
      /\ \A q \in Requests \ {p} : req[q].pc = "registering" =>
           req[q].target # u /\ (b # None => req[q].link # b)
  BY DEF RegisterCommit, Inv, TypeOK, ReqRec, Targets, Registering
<1>3. /\ UNCHANGED <<due, created, lock, fin>>
      /\ user' = [user EXCEPT ![u] = "active"]
      /\ granted' = IF b = None THEN granted ELSE [granted EXCEPT ![u] = u]
      /\ link' = IF b = None THEN link ELSE [link EXCEPT ![b] = "used"]
  BY DEF RegisterCommit
<1> HIDE DEF u, b
<1>4. /\ user' \in [Users -> {"none", "active", "deletion_pending", "deleted"}]
      /\ user'[u] = "active" /\ \A w \in Users \ {u} : user'[w] = user[w]
      /\ granted' \in [Users -> Users \cup {None}]
      /\ \A w \in Users \ {u} : granted'[w] = granted[w]
      /\ granted[u] # None => granted'[u] # None
      /\ link' \in [Links -> {"none", "issued", "used", "expired"}]
      /\ \A c \in Links : c # b => link'[c] = link[c]
  BY <1>2, <1>3, AccountsAssumption DEF Inv, TypeOK
<1>5. TypeOK'
  BY <1>1, <1>2, <1>3, <1>4 DEF Inv, TypeOK
<1>6. Counted'
  <2>1. \A w \in Users : granted[w] # None \/ user[w] = "deleted" =>
          granted'[w] # None \/ user'[w] = "deleted"
    BY <1>2, <1>4
  <2>2. \A q \in Requests : req[q].counted \subseteq Users
    BY DEF Inv, TypeOK, ReqRec
  <2>3. QED
    BY <1>1, <2>1, <2>2 DEF Inv, Counted
<1>7. Leaving' /\ Targets'
  BY <1>1, <1>2, <1>4 DEF Inv, Leaving, Targets
<1>8. Registering'
  <2>1. ASSUME NEW q \in Requests \ {p}, req[q].pc = "registering"
        PROVE  /\ user'[req[q].target] = "none"
               /\ req[q].link # None => link'[req[q].link] # "used"
    <3>1. req[q].link \in Links \cup {None} /\ req[q].target \in Users
      BY <2>1 DEF Inv, TypeOK, ReqRec, Targets
    <3>2. user[req[q].target] = "none" /\ (req[q].link # None => link[req[q].link] # "used")
      BY <2>1 DEF Inv, Registering
    <3>3. req[q].target # u /\ (req[q].link # None => req[q].link # b)
      BY <1>2, <2>1
    <3>4. QED
      BY <1>4, <3>1, <3>2, <3>3
  <2>2. QED
    BY <1>1, <2>1 DEF Inv, Registering
<1>9. QED
  BY <1>5, <1>6, <1>7, <1>8 DEF Inv

LEMMA CreateKeeps ==
  ASSUME Inv, NEW a \in Users, CreateClient(a)
  PROVE  Inv'
BY DEF Inv, TypeOK, Counted, Leaving, Targets, Registering, CreateClient

-----------------------------------------------------------------------------
(* SetAdmin takes its lock, counts, and writes.                            *)
LEMMA LockKeeps ==
  ASSUME Inv, NEW p \in Requests, SetAdminLock(p) \/ DemoteCount(p)
  PROVE  Inv'
<1>1. PICK v \in ReqRec :
        /\ req' = [req EXCEPT ![p] = v]
        /\ v.target = req[p].target /\ v.actor = req[p].actor
        /\ \/ req[p].pc = "admin" /\ lock = None /\ lock' = p /\ v.pc = "locked"
           \/ /\ req[p].pc = "locked" /\ lock' = lock /\ v.pc = "counted"
              /\ v.counted = Admins /\ Cardinality(Admins) > 1
  <2>1. req \in [Requests -> ReqRec] /\ req[p] \in ReqRec
    BY DEF Inv, TypeOK
  <2>2. CASE SetAdminLock(p)
    <3> DEFINE v == [req[p] EXCEPT !.pc = "locked"]
    <3>1. v \in ReqRec /\ v.pc = "locked" /\ v.target = req[p].target /\ v.actor = req[p].actor
      BY <2>1 DEF ReqRec, Stages
    <3>2. req' = [req EXCEPT ![p] = v]
      BY <2>1, <2>2 DEF SetAdminLock
    <3>3. QED
      BY <2>2, <3>1, <3>2 DEF SetAdminLock
  <2>3. CASE DemoteCount(p)
    <3> DEFINE v == [req[p] EXCEPT !.pc = "counted", !.counted = Admins]
    <3>1. /\ v \in ReqRec /\ v.pc = "counted" /\ v.counted = Admins
          /\ v.target = req[p].target /\ v.actor = req[p].actor
      BY <2>1 DEF ReqRec, Stages, Admins
    <3>2. req' = [req EXCEPT ![p] = v]
      BY <2>1, <2>3 DEF DemoteCount
    <3>3. QED
      BY <2>3, <3>1, <3>2 DEF DemoteCount
  <2>4. QED
    BY <2>2, <2>3
<1>2. UNCHANGED <<user, due, granted, created, link, fin>>
  BY DEF SetAdminLock, DemoteCount
<1>3. /\ req' \in [Requests -> ReqRec] /\ req'[p] = v
      /\ \A q \in Requests \ {p} : req'[q] = req[q]
  BY <1>1 DEF Inv, TypeOK
<1>4. TypeOK'
  BY <1>1, <1>2, <1>3, AccountsAssumption DEF Inv, TypeOK
<1>5. v.pc = "counted" => \E x, y \in v.counted : x # y
  BY <1>1, TwoOfMany DEF Admins
<1>6. Counted'
  BY <1>1, <1>2, <1>3, <1>5 DEF Inv, Counted, Admins
<1>7. Leaving' /\ Targets' /\ Registering'
  BY <1>1, <1>2, <1>3 DEF Inv, Leaving, Targets, Registering
<1>8. QED
  BY <1>4, <1>6, <1>7 DEF Inv

(* Who holds the lock is the only one to have counted. *)
LEMMA WriteKeeps ==
  ASSUME Inv, NEW p \in Requests, Promote(p) \/ Demote(p) \/ RequestEnds(p)
  PROVE  Inv'
<1>1. /\ req' \in [Requests -> ReqRec] /\ req'[p].pc = "idle"
      /\ \A q \in Requests \ {p} : req'[q] = req[q]
  BY Ends DEF Promote, Demote, RequestEnds, Inv
<1>2. /\ UNCHANGED <<user, due, created, link, fin>>
      /\ lock' = IF lock = p THEN None ELSE lock
  BY AccountsAssumption DEF Promote, Demote, RequestEnds, Release, Inv, TypeOK
<1>3. /\ granted' \in [Users -> Users \cup {None}]
      /\ \A u \in Users : granted'[u] # None => user[u] \notin {"none", "deleted"}
      /\ \/ \A u \in Users : granted[u] # None => granted'[u] # None
         \/ lock = p
  <2>1. CASE Promote(p)
    BY <2>1, AccountsAssumption DEF Promote, Inv, TypeOK, Targets
  <2>2. CASE Demote(p)
    BY <2>2 DEF Demote, Inv, TypeOK, Targets
  <2>3. CASE RequestEnds(p)
    BY <2>3 DEF RequestEnds, Inv, TypeOK
  <2>4. QED
    BY <2>1, <2>2, <2>3
<1>4. TypeOK'
  BY <1>1, <1>2, <1>3, AccountsAssumption DEF Inv, TypeOK
<1>5. Counted'
  <2>1. \A q \in Requests \ {p} : req[q].pc = "counted" => lock # p
    BY DEF Inv, TypeOK
  <2>2. \A q \in Requests : req[q].counted \subseteq Users
    BY DEF Inv, TypeOK, ReqRec
  <2>3. QED
    BY <1>1, <1>2, <1>3, <2>1, <2>2 DEF Inv, Counted
<1>6. Leaving' /\ Targets' /\ Registering'
  BY <1>1, <1>2 DEF Inv, Leaving, Targets, Registering
<1>7. QED
  BY <1>4, <1>5, <1>6 DEF Inv

-----------------------------------------------------------------------------
(* Accounts come and go, and their roles go with them only.                *)
LEMMA DeletionKeeps ==
  ASSUME Inv,
         \/ \E u \in Users : GraceEnds(u) \/ CancelDeletion(u) \/ FinalizeItem(u)
                               \/ FinalizeRefused(u)
         \/ FinalizeSelect \/ FinalizeFails
         \/ \E p \in Requests : ScheduleDeletion(p)
  PROVE  Inv'
<1>1. /\ UNCHANGED <<created, link, lock>>
      /\ due' \in [Users -> BOOLEAN] /\ fin' \subseteq Users
  BY DEF Inv, TypeOK, GraceEnds, CancelDeletion, FinalizeItem, FinalizeRefused,
         FinalizeSelect, FinalizeFails, ScheduleDeletion
<1>2. /\ req' \in [Requests -> ReqRec]
      /\ \A q \in Requests : req'[q] = req[q] \/ (req[q].pc = "leaving" /\ req'[q].pc = "idle")
  <2>1. CASE \E p \in Requests : ScheduleDeletion(p)
    BY <2>1, Ends DEF ScheduleDeletion, Inv
  <2>2. CASE ~\E p \in Requests : ScheduleDeletion(p)
    BY <2>2 DEF Inv, TypeOK, GraceEnds, CancelDeletion, FinalizeItem, FinalizeRefused,
       FinalizeSelect, FinalizeFails
  <2>3. QED
    BY <2>1, <2>2
<1>3. /\ user' \in [Users -> {"none", "active", "deletion_pending", "deleted"}]
      /\ granted' \in [Users -> Users \cup {None}]
      /\ \A u \in Users :
           \/ user'[u] = user[u] /\ granted'[u] = granted[u]
           \/ /\ user[u] \in {"active", "deletion_pending"} /\ granted'[u] = granted[u]
              /\ user'[u] \in {"active", "deletion_pending"}
           \/ user[u] = "deletion_pending" /\ user'[u] = "deleted" /\ granted'[u] = None
  <2>1. CASE \E p \in Requests : ScheduleDeletion(p)
    BY <2>1 DEF ScheduleDeletion, Inv, TypeOK, Targets
  <2>2. CASE \E u \in Users : FinalizeItem(u)
    BY <2>2 DEF FinalizeItem, Condemned, Inv, TypeOK
  <2>3. CASE \E u \in Users : CancelDeletion(u)
    BY <2>3 DEF CancelDeletion, Inv, TypeOK
  <2>4. CASE (\E u \in Users : GraceEnds(u) \/ FinalizeRefused(u))
             \/ FinalizeSelect \/ FinalizeFails
    BY <2>4 DEF GraceEnds, FinalizeRefused, FinalizeSelect, FinalizeFails, Inv, TypeOK
  <2>5. QED
    BY <2>1, <2>2, <2>3, <2>4
<1>4. TypeOK'
  BY <1>1, <1>2, <1>3 DEF Inv, TypeOK
<1>5. Counted'
  <2>1. \A q \in Requests : req[q].counted \subseteq Users
    BY DEF Inv, TypeOK, ReqRec
  <2>2. \A u \in Users : granted[u] # None \/ user[u] = "deleted" =>
          granted'[u] # None \/ user'[u] = "deleted"
    BY <1>3
  <2>3. QED
    BY <1>2, <2>1, <2>2 DEF Inv, Counted
<1>6. Leaving' /\ Targets'
  BY <1>2, <1>3 DEF Inv, Leaving, Targets
<1>7. Registering'
  BY <1>1, <1>2, <1>3 DEF Inv, Registering, Targets
<1>8. QED
  BY <1>4, <1>5, <1>6, <1>7 DEF Inv

LEMMA NextInv == Inv /\ [Next]_vars => Inv'
<1> SUFFICES ASSUME Inv, [Next]_vars PROVE Inv'
  OBVIOUS
<1>1. CASE Registration
  BY <1>1, LinkKeeps, RegisterKeeps, RegisterCommitKeeps DEF Registration
<1>2. CASE Administration
  BY <1>2, CreateKeeps, RequestBegins, LockKeeps, WriteKeeps DEF Administration
<1>3. CASE Deletion
  BY <1>3, RequestBegins, CheckKeeps, DeletionKeeps DEF Deletion
<1>4. CASE UNCHANGED vars
  BY <1>4 DEF vars, Inv, TypeOK, Counted, Leaving, Targets, Registering
<1>5. QED
  BY <1>1, <1>2, <1>3, <1>4 DEF Next

LEMMA InvHolds == Spec => []Inv
BY InitInv, NextInv, PTL DEF Spec

-----------------------------------------------------------------------------
(* Every variable keeps its type; the lock of SetAdmin is held from its    *)
(* statement to the end of the request, and no role outlives its user.     *)
THEOREM TypeCorrect == Spec => []TypeOK
<1>1. Inv => TypeOK
  BY DEF Inv
<1>2. QED
  BY <1>1, InvHolds, PTL

(* Demotions that run at once leave an administrator between them; only    *)
(* the deletion of an account that was counted can undo that.              *)
THEOREM DemotionsLeaveOne == Spec => DemotionKeepsOne
<1>1. ASSUME Inv, NEW p \in Requests, Demote(p)
      PROVE  \/ \E u \in Users : granted'[u] # None
             \/ \E u \in req[p].counted : user[u] = "deleted"
  <2>1. PICK u \in req[p].counted : u # req[p].target
    BY <1>1 DEF Demote, Inv, Counted
  <2>2. u \in Users
    BY <1>1, <2>1 DEF Inv, TypeOK, ReqRec
  <2>3. granted[u] # None => granted'[u] # None
    BY <1>1, <2>1, <2>2 DEF Demote, Inv, TypeOK
  <2>4. QED
    BY <1>1, <2>1, <2>2, <2>3 DEF Demote, Inv, Counted
<1>2. Inv /\ [Next]_vars => [\A p \in Requests : Demote(p) =>
                               \/ \E u \in Users : granted'[u] # None
                               \/ \E u \in req[p].counted : user[u] = "deleted"]_vars
  BY <1>1
<1>3. QED
  BY <1>2, InvHolds, PTL DEF Spec, DemotionKeepsOne

(* A bootstrap link is good for one administrator, whoever overlaps.       *)
THEOREM LinksMakeOne == Spec => LinkMakesOne
<1>1. ASSUME Inv, NEW p \in Requests, RegisterCommit(p), req[p].link # None
      PROVE  link[req[p].link] # "used"
  BY <1>1 DEF RegisterCommit, Inv, Registering
<1>2. Inv /\ [Next]_vars => [\A p \in Requests : RegisterCommit(p) /\ req[p].link # None =>
                               link[req[p].link] # "used"]_vars
  BY <1>1
<1>3. QED
  BY <1>2, InvHolds, PTL DEF Spec, LinkMakesOne

(* What takes an active administrator away: a demotion or a deletion, of   *)
(* its own target alone.                                                   *)
LEMMA AdminsStay ==
  ASSUME Inv, Next, NEW u \in Users, IsAdmin(u)
  PROVE  \/ granted'[u] # None /\ user'[u] = "active"
         \/ \E p \in Requests : u = req[p].target /\ (Demote(p) \/ ScheduleDeletion(p))
<1>1. granted[u] # None /\ user[u] = "active"
  BY DEF IsAdmin, ActiveAdmins, Admins
<1>2. CASE Registration
  <2>1. CASE \E p \in Requests : RegisterCommit(p)
    BY <1>1, <2>1 DEF RegisterCommit, Inv, TypeOK, Targets, Registering
  <2>2. CASE ~\E p \in Requests : RegisterCommit(p)
    BY <1>1, <1>2, <2>2 DEF Registration, IssueLink, LinkExpires, Register
  <2>3. QED
    BY <2>1, <2>2
<1>3. CASE Administration
  <2>1. CASE \E p \in Requests : Promote(p)
    BY <1>1, <2>1 DEF Promote, Admins, Inv, TypeOK
  <2>2. CASE \E p \in Requests : Demote(p)
    BY <1>1, <2>2 DEF Demote, Inv, TypeOK
  <2>3. CASE ~\E p \in Requests : Promote(p) \/ Demote(p)
    BY <1>1, <1>3, <2>3 DEF Administration, CreateClient, SetRole, SetAdminLock, DemoteCount,
       RequestEnds
  <2>4. QED
    BY <2>1, <2>2, <2>3
<1>4. CASE Deletion
  <2>1. CASE \E p \in Requests : ScheduleDeletion(p)
    BY <1>1, <2>1 DEF ScheduleDeletion, Inv, TypeOK
  <2>2. CASE \E w \in Users : CancelDeletion(w) \/ FinalizeItem(w)
    BY <1>1, <2>2 DEF CancelDeletion, FinalizeItem, Condemned, Inv, TypeOK
  <2>3. CASE ~((\E p \in Requests : ScheduleDeletion(p))
               \/ \E w \in Users : CancelDeletion(w) \/ FinalizeItem(w))
    BY <1>1, <1>4, <2>3 DEF Deletion, DeleteAccount, CheckLast, GraceEnds, FinalizeRefused,
       FinalizeSelect, FinalizeFails
  <2>4. QED
    BY <2>1, <2>2, <2>3
<1>5. QED
  BY <1>2, <1>3, <1>4 DEF Next

(* The last active administrator goes only because another one, counted    *)
(* before, has gone in the meantime, because he was none himself when he   *)
(* asked, or because the query that would have stopped him failed.         *)
THEOREM LastAdmin == Spec => LastAdminLeaves
<1>1. ASSUME Inv, Next, ActiveAdmins # {},
             \A u \in Users : granted'[u] # None => user'[u] # "active"
      PROVE  \E p \in Requests :
               /\ req[p].pc \in {"leaving", "counted"} /\ req'[p].pc = "idle"
               /\ \/ \E u \in req[p].counted \ {req[p].target} : ~IsAdmin(u)
                  \/ req[p].target \notin req[p].counted
                  \/ req[p].blind /\ req[p].pc = "leaving"
  <2>1. PICK a \in Users : IsAdmin(a)
    BY <1>1 DEF ActiveAdmins, Admins, IsAdmin
  <2>2. PICK p \in Requests : a = req[p].target /\ (Demote(p) \/ ScheduleDeletion(p))
    BY <1>1, <2>1, AdminsStay
  <2>3. req[p].pc \in {"leaving", "counted"} /\ req'[p].pc = "idle"
    BY <1>1, <2>2, Ends DEF Demote, ScheduleDeletion, Inv
  <2>4. \/ req[p].target \notin req[p].counted
        \/ \E u \in req[p].counted : u # req[p].target
        \/ req[p].blind /\ req[p].pc = "leaving"
    BY <1>1, <2>3 DEF Inv, Counted, Leaving
  <2>5. ASSUME NEW u \in req[p].counted, u # req[p].target
        PROVE  ~IsAdmin(u)
    <3>1. u \in Users
      BY <1>1, <2>5 DEF Inv, TypeOK, ReqRec
    <3>2. granted[u] # None /\ user[u] = "active" =>
            granted'[u] # None /\ user'[u] = "active"
      BY <1>1, <2>2, <2>5, <3>1 DEF Demote, ScheduleDeletion, Inv, TypeOK
    <3>3. QED
      BY <1>1, <3>1, <3>2 DEF IsAdmin, ActiveAdmins, Admins
  <2>6. QED
    BY <2>3, <2>4, <2>5
<1>2. Inv /\ [Next]_vars =>
        [ActiveAdmins # {} /\ (\A u \in Users : granted'[u] # None => user'[u] # "active") =>
           \E p \in Requests : LET C == req[p].counted IN
             /\ req[p].pc \in {"leaving", "counted"} /\ req'[p].pc = "idle"
             /\ \/ \E u \in C \ {req[p].target} : ~IsAdmin(u)
                \/ req[p].target \notin C
                \/ req[p].blind /\ req[p].pc = "leaving"]_vars
  BY <1>1
<1>3. QED
  BY <1>2, InvHolds, PTL DEF Spec, LastAdminLeaves
-----------------------------------------------------------------------------
(* Accounts implements GracePeriod.                                        *)

(* Time is up only for an account that is to go, or is gone. *)
Timed == \A u \in Users : due[u] => user[u] \in {"deletion_pending", "deleted"}

Phase == [u \in Users |-> CASE user[u] = "deletion_pending" -> "announced"
                            [] user[u] = "deleted" -> "done"
                            [] OTHER -> "off"]

(* What can become of accounts in one step. *)
LEMMA OneAccount ==
  ASSUME Inv, [Next]_vars
  PROVE  \/ UNCHANGED <<user, due>>
         \/ \E u \in Users : /\ UNCHANGED due
                             /\ user[u] = "none" /\ user' = [user EXCEPT ![u] = "active"]
         \/ \E u \in Users :
              /\ UNCHANGED due
              /\ user[u] = "active" /\ user' = [user EXCEPT ![u] = "deletion_pending"]
         \/ \E u \in Users : GraceEnds(u) \/ CancelDeletion(u) \/ FinalizeItem(u)
<1>1. ASSUME NEW p \in Requests, RegisterCommit(p)
      PROVE  \E u \in Users : /\ UNCHANGED due
                              /\ user[u] = "none" /\ user' = [user EXCEPT ![u] = "active"]
  BY <1>1 DEF RegisterCommit, Inv, Targets, Registering
<1>2. ASSUME NEW p \in Requests, ScheduleDeletion(p)
      PROVE  \/ UNCHANGED <<user, due>>
             \/ \E u \in Users :
                  /\ UNCHANGED due
                  /\ user[u] = "active" /\ user' = [user EXCEPT ![u] = "deletion_pending"]
  BY <1>2 DEF ScheduleDeletion, Inv, Targets
<1>3. CASE Administration
  BY <1>3 DEF Administration, CreateClient, SetRole, SetAdminLock, Promote, DemoteCount,
     Demote, RequestEnds
<1>4. CASE Registration
  BY <1>1, <1>4 DEF Registration, IssueLink, LinkExpires, Register
<1>5. CASE Deletion
  BY <1>2, <1>5 DEF Deletion, DeleteAccount, CheckLast, FinalizeRefused, FinalizeSelect,
     FinalizeFails
<1>6. QED
  BY <1>3, <1>4, <1>5 DEF Next, vars

LEMMA TimedHolds == Spec => []Timed
<1>1. Init => Timed
  BY DEF Init, Timed
<1>2. ASSUME Inv, Timed, [Next]_vars PROVE Timed'
  BY <1>2, OneAccount DEF Timed, Inv, TypeOK, GraceEnds, CancelDeletion, FinalizeItem
<1>3. QED
  BY <1>1, <1>2, InvHolds, PTL DEF Spec

(* An account is deleted only after the whole grace period of its own      *)
(* deletion: while that runs it is on no list, and when it is over nobody  *)
(* can take the deletion back and begin another.                           *)
THEOREM GraceIsKept == Spec => ImplementsGracePeriod
<1>1. Init => GP!Init
  BY DEF Init, GP!Init
<1>2. ASSUME Inv, Timed, [Next]_vars PROVE [GP!Next]_(GP!vars)
  <2> USE DEF Inv, TypeOK
  <2>1. ASSUME NEW u \in Users, NEW x \in {"active", "deletion_pending", "deleted"},
               user' = [user EXCEPT ![u] = x]
        PROVE  Phase' = [Phase EXCEPT ![u] = CASE x = "deletion_pending" -> "announced"
                                               [] x = "deleted" -> "done"
                                               [] OTHER -> "off"]
    BY <1>2, <2>1 DEF Phase
  <2>2. CASE UNCHANGED <<user, due>>
    BY <2>2 DEF GP!vars
  <2>3. ASSUME NEW u \in Users, UNCHANGED due,
               user[u] = "none", user' = [user EXCEPT ![u] = "active"]
        PROVE  Phase' = Phase
    BY <1>2, <2>3 DEF Phase
  <2>4. ASSUME NEW u \in Users, UNCHANGED due,
               user[u] = "active", user' = [user EXCEPT ![u] = "deletion_pending"]
        PROVE  GP!Announce(u)
    BY <1>2, <2>1, <2>4 DEF GP!Announce, Phase, Timed
  <2>5. ASSUME NEW u \in Users, GraceEnds(u) PROVE GP!TimeIsUp(u)
    BY <1>2, <2>5 DEF GP!TimeIsUp, GraceEnds
  <2>6. ASSUME NEW u \in Users, CancelDeletion(u) PROVE GP!CallOff(u)
    <3>1. Phase[u] = "announced" /\ Phase' = [Phase EXCEPT ![u] = "off"]
      BY <2>1, <2>6 DEF CancelDeletion, Phase
    <3>2. ~due[u] /\ due' = [due EXCEPT ![u] = FALSE]
      BY <1>2, <2>6 DEF CancelDeletion
    <3>3. QED
      BY <3>1, <3>2 DEF GP!CallOff, Phase
  <2>7. ASSUME NEW u \in Users, FinalizeItem(u) PROVE GP!CarryOut(u)
    BY <1>2, <2>1, <2>7 DEF GP!CarryOut, Phase, FinalizeItem, Condemned
  <2>8. QED
    BY <1>2, <2>2, <2>3, <2>4, <2>5, <2>6, <2>7, OneAccount DEF GP!Next, GP!vars, Phase
<1>3. QED
  BY <1>1, <1>2, InvHolds, TimedHolds, PTL DEF Spec, ImplementsGracePeriod, GP!Spec
=============================================================================
