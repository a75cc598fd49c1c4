---------------------------- MODULE ClientsProofs ----------------------------
(***************************************************************************)
(* The secrets of a client, for every number of forms, rotations and       *)
(* addresses.  The argument is that of the row lock: between its UPDATE    *)
(* and its commit no other rotation commits, so what a rotation ends are   *)
(* all the secrets there are (HitsRows).  Then Consent, for every number   *)
(* of journeys to the client and whatever it asks: each journey carries    *)
(* what a ceremony has paid for (Sound).                                   *)
(***************************************************************************)
EXTENDS Clients, Consent, TLAPS

USE DEF Secrets

(* A rotation that has run its UPDATE has every secret in its hand. *)
HitsRows == \A r \in Rotations : rot[r].pc = "superseded" => rot[r].hit = rows

(* A client's row is there before anything that hangs on it. *)
LockedExists == lock # None => client # "absent"

(* A rotation's secret is there from its commit on. *)
RowsOfRotations ==
  \A r \in Rotations : r \in rows <=> rot[r].pc \in {"committed", "shown", "lost"}

(* A form's secret is there from the creation on. *)
RowsOfForms == \A f \in Forms : form[f].pc \in {"created", "shown"} => f \in rows

(* Only a row is superseded. *)
GoneAreRows == \A s \in Secrets \ rows : gone[s] = None

StartsPast == \A r \in Rotations : rot[r].start <= now

(* A secret that ends, ends an Overlap after some other rotation began that was committed. *)
EndsHaveCause ==
  \A s \in rows : expires[s] # None =>
    \E r \in Rotations \cap rows : r # s /\ expires[s] = rot[r].start + Overlap

(* What a form asked for is listed, was taken off, or is still to do. *)
AskedIsListed ==
  \A f \in Forms : /\ form[f].asked \subseteq listed \cup removed \cup form[f].todo
                   /\ form[f].pc = "shown" => form[f].todo = {}

Inv == /\ TypeOK /\ HitsRows /\ LockedExists /\ RowsOfRotations /\ RowsOfForms
       /\ GoneAreRows /\ StartsPast /\ EndsHaveCause /\ AskedIsListed /\ OneUnending /\ SupersededDies

LEMMA InitTyped == Init => TypeOK
BY ClientsAssumption DEF Init, TypeOK, Rotation, Form

LEMMA NextTyped == TypeOK /\ HitsRows /\ [Next]_vars => TypeOK'
<1> SUFFICES ASSUME TypeOK, HitsRows, [Next]_vars PROVE TypeOK'
  OBVIOUS
<1> USE ClientsAssumption DEF TypeOK, Rotation, Form
<1>1. CASE Tick
  BY <1>1 DEF Tick
<1>2. ASSUME NEW f \in Forms,
             ShowForm(f) \/ FormFails(f) \/ (\E E \in SUBSET Emails : CreateClient(f, E))
             \/ (\E e \in Emails : AllowFormEmail(f, e))
      PROVE  TypeOK'
  <2>0. CASE ShowForm(f)
    <3>1. form' \in [Forms -> Form]
      BY <2>0 DEF ShowForm
    <3>2. QED
      BY <2>0, <3>1 DEF ShowForm
  <2>1. CASE FormFails(f)
    <3>1. form' = [form EXCEPT ![f] = [pc |-> "failed", asked |-> {}, todo |-> {}]]
      BY <2>1 DEF FormFails
    <3>2. form' \in [Forms -> Form]
      BY <3>1
    <3>3. QED
      BY <2>1, <3>2 DEF FormFails
  <2>2. ASSUME NEW E \in SUBSET Emails, CreateClient(f, E) PROVE TypeOK'
    BY <2>2 DEF CreateClient
  <2>3. ASSUME NEW e \in Emails, AllowFormEmail(f, e) PROVE TypeOK'
    BY <2>3 DEF AllowFormEmail
  <2>4. QED
    BY <1>2, <2>0, <2>1, <2>2, <2>3
<1>3. ASSUME NEW r \in Rotations,
             BeginRotation(r) \/ LockClient(r) \/ Supersede(r) \/ ShowRotation(r)
             \/ RotationLost(r)
      PROVE  TypeOK'
  BY <1>3 DEF BeginRotation, LockClient, Supersede, ShowRotation, RotationLost
<1>4. ASSUME NEW r \in Rotations, CommitRotation(r) PROVE TypeOK'
  <2>1. rot[r].pc = "superseded" /\ lock = r /\ rot[r].start \in Nat /\ rot[r].hit \subseteq Secrets
    BY <1>4 DEF CommitRotation
  <2>2. expires' \in [Secrets -> Nat \cup {None}]
    BY <1>4, <2>1 DEF CommitRotation, Least
  <2>3. gone' \in [Secrets -> Nat \cup {None}]
    BY <1>4 DEF CommitRotation
  <2>4. rows' = rows \cup {r} /\ lock' = None /\ now' = now /\ client' = client
        /\ listed' = listed /\ form' = form /\ removed' = removed
    BY <1>4 DEF CommitRotation
  <2>5. rot' \in [Rotations -> Rotation] /\ \A q \in Rotations :
          rot'[q].pc \in {"locked", "superseded"} <=> lock' = q
    <3>1. rot' = [rot EXCEPT ![r] = [pc |-> "committed", start |-> rot[r].start, hit |-> {}]]
      BY <1>4 DEF CommitRotation
    <3>2. rot' \in [Rotations -> Rotation]
      <4>1. [pc |-> "committed", start |-> rot[r].start, hit |-> {}] \in Rotation
        BY <2>1
      <4>2. QED
        BY <3>1, <4>1
    <3>3. ASSUME NEW q \in Rotations PROVE rot'[q].pc \notin {"locked", "superseded"}
      BY <2>1, <3>1
    <3>4. QED
      BY <2>4, <3>2, <3>3
  <2>6. \A s \in Secrets \ rows' : expires'[s] = None
    <3>1. rot[r].hit = rows
      BY <2>1 DEF HitsRows
    <3>2. expires' = [s \in Secrets |-> IF s \in rows
                        THEN Least(expires[s], rot[r].start + Overlap) ELSE expires[s]]
      BY <1>4, <3>1 DEF CommitRotation
    <3>3. QED
      BY <2>4, <3>2
  <2>7. QED
    BY <2>2, <2>3, <2>4, <2>5, <2>6
<1>5. ASSUME NEW r \in Rotations, RotationFails(r) PROVE TypeOK'
  BY <1>5 DEF RotationFails
<1>6. CASE SetClientEnabled
  BY <1>6 DEF SetClientEnabled
<1>7. ASSUME NEW e \in Emails, DenyClientEmail(e) PROVE TypeOK'
  BY <1>7 DEF DenyClientEmail
<1>8. CASE UNCHANGED vars
  BY <1>8 DEF vars
<1>9. QED
  BY <1>1, <1>2, <1>3, <1>4, <1>5, <1>6, <1>7, <1>8 DEF Next

-----------------------------------------------------------------------------
(* The commit of a rotation: it had every secret in its hand.              *)
LEMMA CommitKeeps ==
  ASSUME Inv, NEW r \in Rotations, CommitRotation(r)
  PROVE  /\ HitsRows' /\ LockedExists' /\ RowsOfRotations' /\ RowsOfForms'
         /\ GoneAreRows' /\ EndsHaveCause' /\ OneUnending' /\ SupersededDies'
<1> DEFINE end == rot[r].start + Overlap
<1>1. /\ rot[r].pc = "superseded" /\ lock = r /\ rot[r].hit = rows
      /\ r \notin rows /\ r \in Secrets /\ rows \subseteq Secrets
      /\ rows' = rows \cup {r} /\ lock' = None /\ now' = now /\ client' = client /\ form' = form
  BY DEF Inv, CommitRotation, TypeOK, HitsRows, RowsOfRotations
<1>2. \A q \in Rotations : /\ rot'[q].start = rot[q].start
                           /\ q # r => rot'[q] = rot[q]
                           /\ rot'[r].pc = "committed"
  BY DEF Inv, CommitRotation, TypeOK
<1>3. end \in Nat /\ end <= now + Overlap /\ now \in Nat /\ Overlap \in Nat
  BY ClientsAssumption DEF Inv, TypeOK, Rotation, StartsPast
<1>4. /\ \A s \in rows : expires'[s] = Least(expires[s], end)
      /\ expires'[r] = None
      /\ \A s \in Secrets : expires[s] \in Nat \cup {None} /\ gone[s] \in Nat \cup {None}
  BY <1>1 DEF CommitRotation, Inv, TypeOK
<1>5. \A s \in rows : gone'[s] = IF gone[s] = None THEN now ELSE gone[s]
  BY <1>1 DEF CommitRotation
<1>6. gone'[r] = gone[r]
  BY <1>1 DEF CommitRotation
<1>7. None \notin Nat
  BY ClientsAssumption
<1> HIDE DEF end
<1>8. \A s \in rows : /\ expires'[s] \in Nat /\ expires'[s] <= end
                      /\ expires'[s] # None
                      /\ expires'[s] = end \/ (expires[s] # None /\ expires'[s] = expires[s])
                      /\ expires[s] # None => expires'[s] <= expires[s]
  BY <1>1, <1>3, <1>4, <1>7 DEF Least
<1>9. HitsRows' /\ LockedExists' /\ RowsOfRotations' /\ RowsOfForms'
  <2>1. \A q \in Rotations : rot'[q].pc # "superseded"
    BY <1>1, <1>2 DEF Inv, TypeOK
  <2>2. QED
    BY <1>1, <1>2, <2>1 DEF Inv, HitsRows, LockedExists, RowsOfRotations, RowsOfForms
<1>10. EndsHaveCause'
  <2> SUFFICES ASSUME NEW s \in rows', expires'[s] # None
               PROVE  \E q \in Rotations \cap rows' : q # s /\ expires'[s] = rot'[q].start + Overlap
    BY DEF EndsHaveCause
  <2>1. s \in rows /\ s # r
    BY <1>1, <1>4
  <2>2. CASE expires'[s] = end
    BY <1>1, <1>2, <2>1, <2>2 DEF end
  <2>3. CASE expires[s] # None /\ expires'[s] = expires[s]
    BY <1>1, <1>2, <2>1, <2>3 DEF Inv, EndsHaveCause
  <2>4. QED
    BY <1>8, <2>1, <2>2, <2>3
<1>11. OneUnending'
  <2>1. Unending' = {r}
    BY <1>1, <1>4, <1>8 DEF Unending
  <2>2. client # "absent"
    BY <1>1, ClientsAssumption DEF Inv, LockedExists
  <2>3. QED
    BY <1>1, <2>1, <2>2 DEF OneUnending
<1>12. SupersededDies'
  <2>1. ASSUME NEW s \in rows PROVE expires'[s] # None /\ expires'[s] <= gone'[s] + Overlap
    <3>1. CASE gone[s] = None
      BY <1>3, <1>5, <1>8, <3>1
    <3>2. CASE gone[s] # None
      <4>1. gone[s] \in Nat /\ expires[s] # None /\ expires[s] <= gone[s] + Overlap
        BY <1>1, <1>4, <3>2 DEF Inv, SupersededDies
      <4>2. expires[s] \in Nat /\ gone'[s] = gone[s]
        BY <1>1, <1>4, <1>5, <4>1, <3>2
      <4>3. QED
        BY <1>3, <1>8, <4>1, <4>2
    <3>3. QED
      BY <3>1, <3>2
  <2>2. gone[r] = None
    BY <1>1 DEF Inv, GoneAreRows
  <2>3. QED
    BY <1>1, <1>6, <2>1, <2>2 DEF SupersededDies
<1>13. GoneAreRows'
  BY <1>1 DEF CommitRotation, Inv, GoneAreRows
<1>14. QED
  BY <1>13, <1>9, <1>10, <1>11, <1>12

(* The steps of a form. *)
LEMMA FormKeeps ==
  ASSUME Inv, TypeOK', NEW f \in Forms,
         ShowForm(f) \/ FormFails(f) \/ (\E E \in SUBSET Emails : CreateClient(f, E))
         \/ (\E e \in Emails : AllowFormEmail(f, e))
  PROVE  Inv'
<1>1. CASE ShowForm(f) \/ FormFails(f)
  <2>1. UNCHANGED <<now, client, rows, expires, listed, lock, rot, removed, gone>>
    BY <1>1 DEF ShowForm, FormFails
  <2>2. /\ \A g \in Forms \ {f} : form'[g] = form[g]
        /\ ShowForm(f) => /\ form'[f].pc = "shown" /\ form[f].pc = "created"
                          /\ form'[f].todo = {} /\ form[f].todo = {}
                          /\ form'[f].asked = form[f].asked
        /\ FormFails(f) => form'[f].pc = "failed" /\ form'[f].asked = {}
    BY <1>1 DEF ShowForm, FormFails, Inv, TypeOK, Form
  <2>3. AskedIsListed' /\ RowsOfForms'
    BY <1>1, <2>1, <2>2 DEF Inv, AskedIsListed, RowsOfForms
  <2>4. QED
    BY <2>1, <2>3 DEF Inv, HitsRows, LockedExists, RowsOfRotations, GoneAreRows, StartsPast,
                      EndsHaveCause, OneUnending, Unending, SupersededDies
<1>2. ASSUME NEW E \in SUBSET Emails, CreateClient(f, E) PROVE Inv'
  <2>1. /\ client = "absent" /\ client' = "enabled" /\ lock = None /\ rows = {}
        /\ rows' = {f} /\ expires[f] = None /\ f \notin Rotations
        /\ UNCHANGED <<now, expires, listed, lock, rot, removed, gone>>
    BY <1>2, ClientsAssumption DEF CreateClient, Inv, LockedExists, OneUnending, TypeOK
  <2>2. AskedIsListed' /\ RowsOfForms'
    BY <1>2, <2>1 DEF CreateClient, Inv, TypeOK, Form, AskedIsListed, RowsOfForms
  <2>3. \A r \in Rotations : rot[r].pc # "superseded"
    BY <2>1, ClientsAssumption DEF Inv, TypeOK
  <2>4. HitsRows' /\ LockedExists' /\ RowsOfRotations' /\ GoneAreRows' /\ StartsPast'
    BY <2>1, <2>3, ClientsAssumption
    DEF Inv, HitsRows, LockedExists, RowsOfRotations, GoneAreRows, StartsPast
  <2>5. OneUnending'
    BY <2>1 DEF OneUnending, Unending
  <2>6. EndsHaveCause' /\ SupersededDies'
    BY <2>1 DEF Inv, EndsHaveCause, SupersededDies, GoneAreRows
  <2>7. QED
    BY <2>2, <2>4, <2>5, <2>6 DEF Inv
<1>3. ASSUME NEW e \in Emails, AllowFormEmail(f, e) PROVE Inv'
  <2>1. /\ UNCHANGED <<now, client, rows, expires, lock, rot, gone>>
        /\ listed' = listed \cup {e} /\ removed' = removed \ {e}
        /\ form' = [form EXCEPT ![f].todo = @ \ {e}]
        /\ form[f].pc = "created" /\ form \in [Forms -> Form]
    BY <1>3 DEF AllowFormEmail, Inv, TypeOK
  <2>2. \A g \in Forms : /\ form'[g].pc = form[g].pc
                         /\ form'[g].asked = form[g].asked
                         /\ form[g].todo \subseteq form'[g].todo \cup {e}
                         /\ form'[g].todo \subseteq form[g].todo
    BY <2>1 DEF Form
  <2>3. AskedIsListed' /\ RowsOfForms'
    BY <1>1, <2>1, <2>2 DEF Inv, AskedIsListed, RowsOfForms
  <2>4. QED
    BY <2>1, <2>3 DEF Inv, HitsRows, LockedExists, RowsOfRotations, GoneAreRows, StartsPast,
                      EndsHaveCause, OneUnending, Unending, SupersededDies
<1>4. QED
  BY <1>1, <1>2, <1>3

(* The steps of a rotation other than its commit. *)
LEMMA RotationKeeps ==
  ASSUME Inv, TypeOK', NEW r \in Rotations,
         BeginRotation(r) \/ LockClient(r) \/ Supersede(r) \/ ShowRotation(r)
         \/ RotationLost(r) \/ RotationFails(r)
  PROVE  Inv'
<1>1. UNCHANGED <<now, client, rows, expires, listed, form, removed, gone>>
  BY DEF BeginRotation, LockClient, Supersede, ShowRotation, RotationLost, RotationFails
<1>2. \A q \in Rotations \ {r} : rot'[q] = rot[q]
  BY DEF Inv, TypeOK, BeginRotation, LockClient, Supersede, ShowRotation, RotationLost,
         RotationFails
<1>3. /\ rot'[r].pc = "superseded" => rot'[r].hit = rows
      /\ rot'[r].pc \in {"committed", "shown", "lost"}
           <=> rot[r].pc \in {"committed", "shown", "lost"}
      /\ rot[r].pc \in {"committed", "shown", "lost"} => rot'[r].start = rot[r].start
  BY DEF Inv, TypeOK, Rotation, HitsRows, BeginRotation, LockClient, Supersede, ShowRotation,
         RotationLost, RotationFails
<1>4. rot'[r].start <= now
  BY DEF Inv, TypeOK, Rotation, StartsPast, BeginRotation, LockClient, Supersede,
         ShowRotation, RotationLost, RotationFails
<1>5. lock' # None => client # "absent"
  BY DEF Inv, LockedExists, BeginRotation, LockClient, Supersede, ShowRotation, RotationLost,
         RotationFails
<1>6. \A q \in Rotations : q \in rows => rot[q].pc # "idle" /\ rot'[q].pc # "idle"
                                         /\ rot'[q].start = rot[q].start
  BY <1>2, <1>3 DEF Inv, RowsOfRotations
<1>7. EndsHaveCause'
  BY <1>1, <1>6 DEF Inv, EndsHaveCause
<1>8. QED
  BY <1>1, <1>2, <1>3, <1>4, <1>5, <1>7
  DEF Inv, HitsRows, LockedExists, RowsOfRotations, RowsOfForms, GoneAreRows, StartsPast,
      AskedIsListed, OneUnending, Unending, SupersededDies

LEMMA InvInit == Init => Inv
<1> SUFFICES ASSUME Init PROVE Inv
  OBVIOUS
<1>1. TypeOK
  BY InitTyped
<1>2. HitsRows /\ LockedExists /\ RowsOfRotations /\ RowsOfForms /\ GoneAreRows /\ AskedIsListed
  BY DEF Init, HitsRows, LockedExists, RowsOfRotations, RowsOfForms, GoneAreRows, AskedIsListed
<1>3. StartsPast /\ EndsHaveCause /\ OneUnending /\ SupersededDies
  BY DEF Init, StartsPast, EndsHaveCause, OneUnending, SupersededDies
<1>4. QED
  BY <1>1, <1>2, <1>3 DEF Inv

LEMMA InvNext == Inv /\ [Next]_vars => Inv'
<1> SUFFICES ASSUME Inv, [Next]_vars PROVE Inv'
  OBVIOUS
<1> USE DEF Inv
<1>0. TypeOK'
  BY NextTyped
<1>1. CASE Tick
  <2>1. UNCHANGED <<client, rows, expires, listed, lock, rot, form, removed, gone>> /\ now' = now + 1
    BY <1>1 DEF Tick
  <2>2. StartsPast'
    BY <2>1 DEF StartsPast, TypeOK, Rotation
  <2>3. QED
    BY <1>0, <2>1, <2>2 DEF HitsRows, LockedExists, RowsOfRotations, RowsOfForms, GoneAreRows,
                            EndsHaveCause, AskedIsListed, OneUnending, Unending, SupersededDies
<1>2. ASSUME NEW f \in Forms,
             ShowForm(f) \/ FormFails(f) \/ (\E E \in SUBSET Emails : CreateClient(f, E))
             \/ (\E e \in Emails : AllowFormEmail(f, e))
      PROVE  Inv'
  BY <1>0, <1>2, FormKeeps
<1>3. ASSUME NEW r \in Rotations,
             BeginRotation(r) \/ LockClient(r) \/ Supersede(r) \/ ShowRotation(r)
             \/ RotationLost(r) \/ RotationFails(r)
      PROVE  Inv'
  BY <1>0, <1>3, RotationKeeps
<1>4. ASSUME NEW r \in Rotations, CommitRotation(r) PROVE Inv'
  <2>1. StartsPast'
    BY <1>4 DEF CommitRotation, StartsPast, TypeOK
  <2>2. AskedIsListed'
    BY <1>4 DEF CommitRotation, AskedIsListed
  <2>3. QED
    BY <1>0, <1>4, <2>1, <2>2, CommitKeeps
<1>5. CASE SetClientEnabled
  BY <1>0, <1>5 DEF SetClientEnabled, HitsRows, LockedExists, RowsOfRotations, RowsOfForms,
                    GoneAreRows, StartsPast, EndsHaveCause, AskedIsListed, OneUnending,
                    Unending, SupersededDies, TypeOK
<1>6. ASSUME NEW e \in Emails, DenyClientEmail(e) PROVE Inv'
  <2>1. AskedIsListed'
    BY <1>6 DEF DenyClientEmail, AskedIsListed
  <2>2. UNCHANGED <<now, client, rows, expires, lock, rot, form, gone>>
    BY <1>6 DEF DenyClientEmail
  <2>3. QED
    BY <1>0, <2>1, <2>2 DEF HitsRows, LockedExists, RowsOfRotations, RowsOfForms, GoneAreRows,
                            StartsPast, EndsHaveCause, OneUnending, Unending, SupersededDies
<1>7. CASE UNCHANGED vars
  BY <1>0, <1>7 DEF vars, HitsRows, LockedExists, RowsOfRotations, RowsOfForms, GoneAreRows,
                    StartsPast, EndsHaveCause, AskedIsListed, OneUnending, Unending,
                    SupersededDies
<1>8. QED
  BY <1>1, <1>2, <1>3, <1>4, <1>5, <1>6, <1>7 DEF Next

-----------------------------------------------------------------------------
(* Every rotation sees the one before it: adminRotateClient never leaves a *)
(* client with two secrets that do not end, or with none.                  *)
THEOREM OneSecretUnending == Spec => [](TypeOK /\ OneUnending)
<1>1. Inv => TypeOK /\ OneUnending
  BY DEF Inv
<1>2. QED
  BY <1>1, InvInit, InvNext, PTL DEF Spec

(* A superseded secret dies a day after the first rotation after it, no    *)
(* matter how many follow.                                                 *)
THEOREM SupersededSecretsDie == Spec => []SupersededDies
<1>1. Inv => SupersededDies
  BY DEF Inv
<1>2. QED
  BY <1>1, InvInit, InvNext, PTL DEF Spec

(* A secret that was shown is accepted until a day after another rotation  *)
(* began: nothing but a rotation and the enabled flag ends it.             *)
THEOREM ShownSecretsServe == Spec => []ShownServes
<1>1. ASSUME Inv PROVE ShownServes
  <2> SUFFICES ASSUME NEW s \in Secrets,
                      s \in Forms => form[s].pc = "shown",
                      s \in Rotations => rot[s].pc = "shown",
                      client = "enabled",
                      \A r \in Rotations \ {s} :
                        rot[r].pc # "idle" => rot[r].start + Overlap > now
               PROVE  Accepted(s)
    BY DEF ShownServes
  <2>1. s \in rows
    BY <1>1 DEF Inv, RowsOfRotations, RowsOfForms
  <2>2. ASSUME expires[s] # None PROVE expires[s] > now
    <3>1. PICK r \in Rotations \cap rows : r # s /\ expires[s] = rot[r].start + Overlap
      BY <1>1, <2>1, <2>2 DEF Inv, EndsHaveCause
    <3>2. rot[r].pc # "idle"
      BY <1>1, <3>1 DEF Inv, RowsOfRotations
    <3>3. QED
      BY <3>1, <3>2
  <2>3. QED
    BY <2>1, <2>2 DEF Accepted
<1>2. QED
  BY <1>1, InvInit, InvNext, PTL DEF Spec

(* The page with the secret comes after every address of the form.         *)
THEOREM ShownFormsAreListed == Spec => []ShownIsListed
<1>1. ASSUME Inv PROVE ShownIsListed
  BY <1>1 DEF Inv, AskedIsListed, ShownIsListed
<1>2. QED
  BY <1>1, InvInit, InvNext, PTL DEF Spec
-----------------------------------------------------------------------------
(* What a user is asked before a client gets a code (Consent).             *)

(* What a journey carries: the parameters that a ceremony took out of its  *)
(* URL have been paid for by that ceremony; those that are left are looked *)
(* at before it passes.  What a client is told is a subject.               *)
Sound(q) ==
  /\ q.bounced => /\ "none" \notin q.prompt
                  /\ WantsCeremony(q) => q.pc = "reauth" \/ q.anew
  /\ q.pc \in {"passed", "screen", "covered", "agreed", "granted", "code"} =>
       /\ WantsCeremony(q) => q.bounced
       /\ q.age = "some" => q.young
  /\ q.pc \in {"covered", "code"} /\ "consent" \in q.prompt => ~q.silent \/ q.bounced
  /\ q.pc = "granted" => ~q.silent
  /\ "none" \in q.prompt => q.pc \notin Pages
  /\ q.pc = "done" => q.sub # Null

(* What ConsentCovers has found of a journey still holds, unless it is     *)
(* known to be late.                                                       *)
Vouched(q) ==
  q.pc = "covered" => \/ Preapproves(q.scopes)
                      \/ q.scopes \subseteq ever /\ (renewed \/ q.late)

(* The row has only what was agreed to, and stands only by an agreement    *)
(* since the last revocation.                                              *)
Agreed == row.scopes \subseteq ever /\ (row.state = "stands" => renewed)

ConsentInv ==
  /\ ConsentTypeOK /\ Agreed /\ OneSubject
  /\ \A a \in Requests : Sound(req[a]) /\ Vouched(req[a])

LEMMA BlankSound ==
  /\ Blank \in Request /\ Sound(Blank) /\ ~Blank.same /\ Blank.pc = "idle"
  /\ [Blank EXCEPT !.pc = "answered"] \in Request
  /\ Sound([Blank EXCEPT !.pc = "answered"])
  /\ ~[Blank EXCEPT !.pc = "answered"].same
  /\ [Blank EXCEPT !.pc = "answered"].pc = "answered"
BY DEF Blank, Request, Prompts, Ages, Pages, Sound, WantsCeremony

LEMMA ConsentBegins == ConsentInit => ConsentInv
<1> SUFFICES ASSUME ConsentInit PROVE ConsentInv
  OBVIOUS
<1>1. \A a \in Requests : req[a] = Blank
  BY DEF ConsentInit
<1>2. ConsentTypeOK
  BY <1>1, BlankSound DEF ConsentInit, ConsentTypeOK
<1>3. Agreed /\ OneSubject
  BY <1>1, BlankSound DEF ConsentInit, Agreed, OneSubject
<1>4. QED
  BY <1>1, <1>2, <1>3, BlankSound DEF ConsentInv, Vouched

(* One journey moves on, and nothing else. *)
LEMMA JourneyMoves ==
  ASSUME ConsentInv, NEW a \in Requests, NEW v \in Request,
         Sound(v), Vouched(v), v.same => session # "out", v.pc = "done" => v.sub = subject,
         req' = [req EXCEPT ![a] = v],
         UNCHANGED <<session, trusted, preapproved, row, subject, ever, renewed>>
  PROVE  ConsentInv'
<1>1. /\ req' \in [Requests -> Request]
      /\ \A b \in Requests : req'[b] = IF b = a THEN v ELSE req[b]
  BY DEF ConsentInv, ConsentTypeOK
<1>2. ConsentTypeOK'
  BY <1>1 DEF ConsentInv, ConsentTypeOK
<1>3. ASSUME NEW b \in Requests PROVE Sound(req'[b]) /\ Vouched(req'[b])
  BY <1>1 DEF ConsentInv
<1>4. (\A b \in Requests : Sound(req[b]) /\ Vouched(req[b]))'
  BY <1>3 DEF Sound, Pages, WantsCeremony, Vouched, Preapproves
<1>5. Agreed' /\ OneSubject'
  BY <1>1 DEF ConsentInv, Agreed, OneSubject
<1>6. QED
  BY <1>2, <1>4, <1>5 DEF ConsentInv

LEMMA OverKeeps ==
  ASSUME ConsentInv, NEW a \in Requests, Over(a),
         UNCHANGED <<session, trusted, preapproved, row, subject, ever, renewed>>
  PROVE  ConsentInv'
BY BlankSound, JourneyMoves DEF Over, Vouched

(* A journey moves to a page or a stage that asks nothing more of it. *)
At(q, p) == [q EXCEPT !.pc = p, !.same = @ /\ p = "screen"]

LEMMA AtStage ==
  ASSUME NEW q \in Request, NEW p \in {"login", "reauth", "screen", "covered", "agreed", "code"}
  PROVE  /\ At(q, p) \in Request /\ At(q, p).pc = p /\ (At(q, p).same => q.same)
         /\ At(q, p).prompt = q.prompt /\ At(q, p).age = q.age
         /\ At(q, p).bounced = q.bounced /\ At(q, p).anew = q.anew
         /\ At(q, p).young = q.young /\ At(q, p).silent = q.silent
         /\ At(q, p).scopes = q.scopes /\ At(q, p).late = q.late
BY DEF At, Request, Pages

LEMMA MoveKeeps ==
  ASSUME ConsentInv, NEW a \in Requests,
         NEW p \in {"login", "screen", "covered", "agreed", "code"}, Move(a, p),
         Sound(At(req[a], p)), Vouched(At(req[a], p)),
         UNCHANGED <<session, trusted, preapproved, row, subject, ever, renewed>>
  PROVE  ConsentInv'
<1> DEFINE v == At(req[a], p)
<1>1. req[a] \in Request /\ (req[a].same => session # "out")
  BY DEF ConsentInv, ConsentTypeOK
<1>2. v \in Request /\ (v.same => req[a].same) /\ v.pc = p
  BY <1>1, AtStage
<1>3. req' = [req EXCEPT ![a] = v] /\ Sound(v) /\ Vouched(v)
  BY DEF Move, At
<1> HIDE DEF v
<1>4. QED
  BY <1>1, <1>2, <1>3, JourneyMoves

-----------------------------------------------------------------------------
LEMMA ArriveKeeps ==
  ASSUME ConsentInv, NEW a \in Requests, NEW ask \in Asks,
         NEW S \in SUBSET Scopes, Arrive(a, ask, S)
  PROVE  ConsentInv'
<1> DEFINE v == [Blank EXCEPT !.pc = "asked", !.prompt = ask[1], !.age = ask[2],
                                 !.scopes = S]
<1>1. ask[1] \in Prompts /\ ask[2] \in Ages
  BY ConsentAssumption
<1>2. v \in Request /\ ~v.same /\ v.pc = "asked" /\ ~v.bounced
  BY <1>1 DEF Blank, Request
<1>3. Sound(v) /\ Vouched(v)
  BY <1>2 DEF Sound, Pages, Vouched
<1>4. req' = [req EXCEPT ![a] = v]
  BY DEF Arrive
<1> HIDE DEF v
<1>5. QED
  BY <1>2, <1>3, <1>4, JourneyMoves DEF Arrive

LEMMA SignedOutKeeps ==
  ASSUME ConsentInv, NEW a \in Requests, SignedOut(a) \/ SessionUnread(a)
  PROVE  ConsentInv'
<1>1. req[a] \in Request /\ Sound(req[a]) /\ req[a].pc = "asked"
  BY DEF ConsentInv, ConsentTypeOK, SignedOut, SessionUnread
<1>2. ASSUME "none" \notin Prompt(req[a])
      PROVE  Sound(At(req[a], "login")) /\ Vouched(At(req[a], "login"))
  BY <1>1, <1>2, AtStage DEF Sound, Prompt, Vouched, WantsCeremony
<1>3. QED
  BY <1>2, OverKeeps, MoveKeeps DEF SignedOut, SessionUnread, ToLogin

LEMMA StepUpKeeps ==
  ASSUME ConsentInv, NEW a \in Requests, StepUp(a)
  PROVE  ConsentInv'
<1> DEFINE v == [req[a] EXCEPT !.pc = "reauth", !.bounced = TRUE]
<1>1. req[a] \in Request /\ Sound(req[a])
  BY DEF ConsentInv, ConsentTypeOK
<1>2. CASE "none" \in Prompt(req[a])
  BY <1>2, OverKeeps DEF StepUp
<1>3. CASE "none" \notin Prompt(req[a])
  <2>1. v \in Request /\ v.pc = "reauth"
    BY <1>1 DEF Request, Pages
  <2>2. Sound(v) /\ Vouched(v)
    BY <1>1, <1>3 DEF Sound, Prompt, Request, Pages, WantsCeremony, Vouched
  <2>3. req' = [req EXCEPT ![a] = v] /\ session # "out"
    BY <1>3 DEF StepUp
  <2> HIDE DEF v
  <2>4. QED
    BY <2>1, <2>2, <2>3, JourneyMoves DEF StepUp
<1>4. QED
  BY <1>2, <1>3

LEMMA PassKeeps ==
  ASSUME ConsentInv, NEW a \in Requests, Pass(a)
  PROVE  ConsentInv'
<1> DEFINE v == [req[a] EXCEPT !.pc = "passed", !.same = TRUE,
                                 !.young = req[a].age = "some" /\ session = "fresh"]
<1>1. req[a] \in Request /\ Sound(req[a]) /\ session \in {"out", "fresh", "old"}
  BY DEF ConsentInv, ConsentTypeOK
<1>2. /\ v \in Request /\ v.pc = "passed"
      /\ v.young = (req[a].age = "some" /\ session = "fresh")
      /\ v.prompt = req[a].prompt /\ v.age = req[a].age /\ v.bounced = req[a].bounced
      /\ v.anew = req[a].anew
  BY <1>1 DEF Request
<1>3. req' = [req EXCEPT ![a] = v] /\ session # "out"
  BY DEF Pass
<1> HIDE DEF v
<1>4. Sound(v) /\ Vouched(v)
  BY <1>1, <1>2 DEF Sound, Pass, Prompt, Stale, Age, Pages, WantsCeremony, Vouched
<1>5. QED
  BY <1>2, <1>3, <1>4, JourneyMoves DEF Pass

(* The consent is looked at: it is agreed to, or preapproved. *)
LEMMA CoversKeeps ==
  ASSUME ConsentInv, NEW a \in Requests, ConsentCovers(a)
  PROVE  ConsentInv'
<1>1. req[a] \in Request /\ Sound(req[a]) /\ req[a].pc = "passed"
  BY DEF ConsentInv, ConsentTypeOK, ConsentCovers
<1>2. ASSUME "consent" \notin Prompt(req[a]), Covers(req[a].scopes)
      PROVE  Sound(At(req[a], "covered")) /\ Vouched(At(req[a], "covered"))
  <2>1. Sound(At(req[a], "covered"))
    BY <1>1, <1>2, AtStage DEF Sound, Prompt, Pages, WantsCeremony
  <2>2. Preapproves(req[a].scopes) \/ (req[a].scopes \subseteq ever /\ renewed)
    BY <1>2 DEF Covers, ConsentInv, Agreed
  <2>3. QED
    BY <1>1, <2>1, <2>2, AtStage DEF Vouched
<1>3. ASSUME "none" \notin Prompt(req[a])
      PROVE  Sound(At(req[a], "screen")) /\ Vouched(At(req[a], "screen"))
  BY <1>1, <1>3, AtStage DEF Sound, Prompt, Pages, WantsCeremony, Vouched
<1>4. QED
  BY <1>2, <1>3, OverKeeps, MoveKeeps DEF ConsentCovers

LEMMA CodeKeeps ==
  ASSUME ConsentInv, NEW a \in Requests, PutAuthorizationCode(a)
  PROVE  ConsentInv'
<1>1. req[a] \in Request /\ Sound(req[a]) /\ req[a].pc \in {"covered", "granted"}
  BY DEF ConsentInv, ConsentTypeOK, PutAuthorizationCode
<1>2. Sound(At(req[a], "code")) /\ Vouched(At(req[a], "code"))
  BY <1>1, AtStage DEF Sound, Pages, WantsCeremony, Vouched
<1>3. QED
  BY <1>2, MoveKeeps DEF PutAuthorizationCode

LEMMA DecideKeeps ==
  ASSUME ConsentInv, NEW a \in Requests, NEW allow \in BOOLEAN, Decide(a, allow)
  PROVE  ConsentInv'
<1>1. req[a] \in Request /\ Sound(req[a]) /\ req[a].pc = "screen"
  BY DEF ConsentInv, ConsentTypeOK, Decide
<1>2. Sound(At(req[a], "agreed")) /\ Vouched(At(req[a], "agreed"))
  BY <1>1, AtStage DEF Sound, Pages, WantsCeremony, Vouched
<1>3. QED
  BY <1>2, OverKeeps, MoveKeeps DEF Decide

(* A ceremony pays for whatever sent a journey round. *)
LEMMA CeremonyKeeps ==
  ASSUME ConsentInv, NEW a \in Requests, Ceremony(a)
  PROVE  ConsentInv'
<1> DEFINE V(b) == [req[b] EXCEPT
      !.same = FALSE,
      !.anew = @ \/ (WantsCeremony(req[b]) /\ req[b].pc \in {"asked", "login", "reauth"}),
      !.pc = IF b = a THEN "asked" ELSE @]
<1>1. ASSUME NEW b \in Requests
      PROVE  /\ V(b) \in Request /\ ~V(b).same /\ Sound(V(b)) /\ Vouched(V(b))
             /\ V(b).pc = "done" => req[b].pc = "done" /\ V(b).sub = req[b].sub
  <2>1. req[b] \in Request /\ Sound(req[b]) /\ Vouched(req[b])
    BY DEF ConsentInv, ConsentTypeOK
  <2>2. /\ V(b) \in Request /\ ~V(b).same
        /\ V(b).prompt = req[b].prompt /\ V(b).age = req[b].age
        /\ V(b).bounced = req[b].bounced /\ V(b).young = req[b].young
        /\ V(b).silent = req[b].silent /\ V(b).sub = req[b].sub
        /\ V(b).scopes = req[b].scopes /\ V(b).late = req[b].late
        /\ V(b).anew = (req[b].anew \/ (WantsCeremony(req[b])
                                          /\ req[b].pc \in {"asked", "login", "reauth"}))
        /\ V(b).pc = IF b = a THEN "asked" ELSE req[b].pc
    BY <2>1 DEF Request, WantsCeremony
  <2> HIDE DEF V
  <2>3. WantsCeremony(V(b)) = WantsCeremony(req[b])
    BY <2>2 DEF WantsCeremony
  <2>4. Sound(V(b)) /\ Vouched(V(b))
    BY <2>1, <2>2, <2>3 DEF Sound, Pages, Vouched
  <2>5. QED
    BY <2>2, <2>4
<1>2. /\ req' \in [Requests -> Request]
      /\ \A b \in Requests : req'[b] = V(b)
  BY <1>1 DEF Ceremony
<1> HIDE DEF V
<1>3. ConsentTypeOK'
  BY <1>1, <1>2 DEF ConsentInv, ConsentTypeOK, Ceremony
<1>4. (\A b \in Requests : Sound(req[b]) /\ Vouched(req[b]))'
  <2>1. ASSUME NEW b \in Requests PROVE Sound(req'[b]) /\ Vouched(req'[b])
    BY <1>1, <1>2
  <2>2. UNCHANGED <<trusted, preapproved, ever, renewed>>
    BY DEF Ceremony
  <2>3. QED
    BY <2>1, <2>2 DEF Sound, Pages, WantsCeremony, Vouched, Preapproves
<1>5. Agreed' /\ OneSubject'
  BY <1>1, <1>2 DEF ConsentInv, Agreed, OneSubject, Ceremony
<1>6. QED
  BY <1>3, <1>4, <1>5 DEF ConsentInv

LEMMA GrantKeeps ==
  ASSUME ConsentInv, NEW a \in Requests, GrantConsent(a)
  PROVE  ConsentInv'
<1> DEFINE v == [req[a] EXCEPT !.pc = "granted", !.silent = FALSE]
<1>1. req[a] \in Request /\ Sound(req[a]) /\ (req[a].same => session # "out")
  BY DEF ConsentInv, ConsentTypeOK
<1>2. v \in Request /\ v.pc = "granted" /\ v.same = req[a].same
  BY <1>1 DEF Request
<1>3. Sound(v)
  BY <1>1 DEF Sound, Request, GrantConsent, Pages, WantsCeremony
<1>4. req' = [req EXCEPT ![a] = v]
  BY DEF GrantConsent
<1> HIDE DEF v
<1>5. /\ req' \in [Requests -> Request]
      /\ \A b \in Requests : req'[b] = IF b = a THEN v ELSE req[b]
  BY <1>2, <1>4 DEF ConsentInv, ConsentTypeOK
<1>6. req[a].scopes \subseteq Scopes
  BY <1>1 DEF Request
<1>7. ConsentTypeOK'
  BY <1>1, <1>2, <1>5, <1>6 DEF ConsentInv, ConsentTypeOK, GrantConsent
<1>8. (\A b \in Requests : Sound(req[b]) /\ Vouched(req[b]))'
  <2>1. /\ UNCHANGED <<trusted, preapproved>> /\ ever \subseteq ever' /\ renewed'
    BY DEF GrantConsent
  <2>2. ASSUME NEW b \in Requests PROVE Sound(req'[b]) /\ Vouched(req[b])'
    BY <1>2, <1>3, <1>5, <2>1 DEF ConsentInv, Vouched, Preapproves
  <2>3. QED
    BY <2>2 DEF Sound, Pages, WantsCeremony, Vouched, Preapproves
<1>9. Agreed' /\ OneSubject'
  BY <1>2, <1>5 DEF ConsentInv, Agreed, OneSubject, GrantConsent
<1>10. QED
  BY <1>7, <1>8, <1>9 DEF ConsentInv

LEMMA SessionKeeps ==
  ASSUME ConsentInv, SignOut \/ GrowOld
  PROVE  ConsentInv'
<1>1. CASE SignOut
  <2> DEFINE V(b) == [req[b] EXCEPT !.same = FALSE]
  <2>1. ASSUME NEW b \in Requests
        PROVE  /\ V(b) \in Request /\ ~V(b).same /\ Sound(V(b)) /\ Vouched(V(b))
               /\ V(b).pc = req[b].pc /\ V(b).sub = req[b].sub
    <3>1. req[b] \in Request /\ Sound(req[b]) /\ Vouched(req[b])
      BY DEF ConsentInv, ConsentTypeOK
    <3>2. QED
      BY <3>1 DEF Sound, Request, Pages, WantsCeremony, Vouched
  <2>2. /\ req' \in [Requests -> Request]
        /\ \A b \in Requests : req'[b] = V(b)
    BY <1>1, <2>1 DEF SignOut
  <2> HIDE DEF V
  <2>3. ConsentTypeOK'
    BY <1>1, <2>1, <2>2 DEF ConsentInv, ConsentTypeOK, SignOut
  <2>4. (\A b \in Requests : Sound(req[b]) /\ Vouched(req[b]))'
    <3>1. ASSUME NEW b \in Requests PROVE Sound(req'[b]) /\ Vouched(req'[b])
      BY <2>1, <2>2
    <3>2. UNCHANGED <<trusted, preapproved, ever, renewed>>
      BY <1>1 DEF SignOut
    <3>3. QED
      BY <3>1, <3>2 DEF Sound, Pages, WantsCeremony, Vouched, Preapproves
  <2>5. Agreed'
    BY <1>1 DEF ConsentInv, Agreed, SignOut
  <2>6. OneSubject'
    <3>1. ASSUME NEW b \in Requests, req'[b].pc = "done" PROVE req'[b].sub = subject
      BY <2>1, <2>2, <3>1 DEF ConsentInv, OneSubject
    <3>2. QED
      BY <1>1, <3>1 DEF OneSubject, SignOut
  <2>7. QED
    BY <2>3, <2>4, <2>5, <2>6 DEF ConsentInv
<1>2. CASE GrowOld
  <2>1. ConsentTypeOK'
    BY <1>2 DEF ConsentInv, ConsentTypeOK, GrowOld
  <2>2. QED
    BY <1>2, <2>1 DEF ConsentInv, GrowOld, Agreed, OneSubject, Sound, Pages, WantsCeremony,
       Vouched, Preapproves
<1>3. QED
  BY <1>1, <1>2

(* A revocation overtakes those who have looked at the consent. *)
LEMMA RevokeKeeps ==
  ASSUME ConsentInv, RevokeConsent
  PROVE  ConsentInv'
<1> DEFINE V(b) == [req[b] EXCEPT !.late = @ \/ req[b].pc = "covered"]
<1>1. ASSUME NEW b \in Requests
      PROVE  /\ V(b) \in Request /\ (V(b).same => req[b].same) /\ Sound(V(b))
             /\ V(b).pc = req[b].pc /\ V(b).sub = req[b].sub
             /\ V(b).scopes = req[b].scopes /\ (V(b).pc = "covered" => V(b).late)
  <2>1. req[b] \in Request /\ Sound(req[b])
    BY DEF ConsentInv, ConsentTypeOK
  <2>2. /\ V(b) \in Request /\ V(b).same = req[b].same
        /\ V(b).pc = req[b].pc /\ V(b).sub = req[b].sub /\ V(b).scopes = req[b].scopes
        /\ V(b).late = (req[b].late \/ req[b].pc = "covered")
        /\ V(b).prompt = req[b].prompt /\ V(b).age = req[b].age
        /\ V(b).bounced = req[b].bounced /\ V(b).anew = req[b].anew
        /\ V(b).young = req[b].young /\ V(b).silent = req[b].silent
    BY <2>1 DEF Request
  <2> HIDE DEF V
  <2>3. QED
    BY <2>1, <2>2 DEF Sound, Pages, WantsCeremony
<1>2. /\ req' \in [Requests -> Request]
      /\ \A b \in Requests : req'[b] = V(b)
  BY <1>1 DEF RevokeConsent
<1> HIDE DEF V
<1>3. /\ UNCHANGED <<session, trusted, preapproved, subject, ever>>
      /\ row' = [row EXCEPT !.state = "revoked"] /\ renewed' = FALSE
  BY DEF RevokeConsent
<1>4. ConsentTypeOK'
  BY <1>1, <1>2, <1>3 DEF ConsentInv, ConsentTypeOK
<1>5. Agreed'
  BY <1>3 DEF ConsentInv, ConsentTypeOK, Agreed
<1>6. OneSubject'
  BY <1>1, <1>2, <1>3 DEF ConsentInv, OneSubject
<1>7. ASSUME NEW b \in Requests PROVE Sound(req'[b]) /\ Vouched(req[b])'
  <2>1. req'[b] = V(b)
    BY <1>2
  <2>2. Sound(req'[b])
    BY <1>1, <2>1
  <2>3. req'[b].pc = "covered" =>
          req'[b].late /\ (Preapproves(req'[b].scopes) \/ req'[b].scopes \subseteq ever)
    BY <1>1, <2>1 DEF ConsentInv, Vouched
  <2>4. QED
    BY <1>3, <2>2, <2>3 DEF Vouched, Preapproves
<1>8. (\A b \in Requests : Sound(req[b]) /\ Vouched(req[b]))'
  BY <1>7 DEF Sound, Pages, WantsCeremony
<1>9. QED
  BY <1>4, <1>5, <1>6, <1>8 DEF ConsentInv

LEMMA FindKeeps ==
  ASSUME ConsentInv, NEW a \in Requests, FindSubject(a)
  PROVE  ConsentInv'
<1> DEFINE v == [Blank EXCEPT !.pc = IF subject = Null THEN "drawn" ELSE "done",
                                 !.sub = subject]
<1>1. subject \in Requests \cup {Null}
  BY DEF ConsentInv, ConsentTypeOK
<1>2. v \in Request /\ ~v.same /\ v.sub = subject
  BY <1>1 DEF Blank, Request, Prompts, Ages
<1>3. Sound(v) /\ Vouched(v)
  BY <1>1 DEF Sound, Blank, Pages, WantsCeremony, Vouched
<1>4. req' = [req EXCEPT ![a] = v]
  BY DEF FindSubject
<1> HIDE DEF v
<1>5. QED
  BY <1>2, <1>3, <1>4, JourneyMoves DEF FindSubject

(* The first to put its subject has it kept; until then nobody was told.   *)
LEMMA PutKeeps ==
  ASSUME ConsentInv, NEW a \in Requests, PutSubject(a)
  PROVE  ConsentInv'
<1> DEFINE v == [req[a] EXCEPT !.pc = "done", !.sub = subject']
<1>1. /\ req[a] \in Request /\ Sound(req[a]) /\ (req[a].same => session # "out")
      /\ subject \in Requests \cup {Null}
  BY DEF ConsentInv, ConsentTypeOK
<1>2. subject' \in Requests /\ (subject # Null => subject' = subject)
  BY <1>1, ConsentAssumption DEF PutSubject
<1>3. v \in Request /\ v.pc = "done" /\ v.sub = subject' /\ v.same = req[a].same
  BY <1>1, <1>2 DEF Request
<1>4. Sound(v)
  BY <1>1, <1>2, ConsentAssumption DEF Sound, Request, PutSubject, Pages, WantsCeremony
<1>5. req' = [req EXCEPT ![a] = v]
  BY DEF PutSubject
<1> HIDE DEF v
<1>6. /\ req' \in [Requests -> Request]
      /\ \A b \in Requests : req'[b] = IF b = a THEN v ELSE req[b]
  BY <1>3, <1>5 DEF ConsentInv, ConsentTypeOK
<1>7. ConsentTypeOK'
  BY <1>1, <1>2, <1>3, <1>6 DEF ConsentInv, ConsentTypeOK, PutSubject
<1>8. (\A b \in Requests : Sound(req[b]) /\ Vouched(req[b]))'
  <2>1. UNCHANGED <<trusted, preapproved, ever, renewed>>
    BY DEF PutSubject
  <2>2. ASSUME NEW b \in Requests PROVE Sound(req'[b]) /\ Vouched(req[b])'
    BY <1>3, <1>4, <1>6, <2>1 DEF ConsentInv, Vouched, Preapproves
  <2>3. QED
    BY <2>2 DEF Sound, Pages, WantsCeremony
<1>9. OneSubject'
  <2>1. ASSUME NEW b \in Requests, req'[b].pc = "done" PROVE req'[b].sub = subject'
    <3>1. CASE b = a
      BY <1>3, <1>6, <3>1
    <3>2. CASE b # a
      <4>1. req[b].pc = "done" /\ req[b].sub = subject /\ req[b].sub # Null
        BY <1>6, <2>1, <3>2 DEF ConsentInv, OneSubject, Sound
      <4>2. QED
        BY <1>2, <1>6, <3>2, <4>1
    <3>3. QED
      BY <3>1, <3>2
  <2>2. QED
    BY <2>1 DEF OneSubject
<1>10. Agreed'
  BY DEF ConsentInv, Agreed, PutSubject
<1>11. QED
  BY <1>7, <1>8, <1>9, <1>10 DEF ConsentInv

-----------------------------------------------------------------------------
LEMMA ConsentStep == ConsentInv /\ [ConsentNext]_consentVars => ConsentInv'
<1> SUFFICES ASSUME ConsentInv, [ConsentNext]_consentVars PROVE ConsentInv'
  OBVIOUS
<1>1. ASSUME NEW a \in Requests, Answer(a) PROVE ConsentInv'
  <2>1. CASE Deny(a)
    BY <2>1, OverKeeps DEF Deny
  <2>2. QED
    BY <1>1, <2>1, SignedOutKeeps, StepUpKeeps, PassKeeps, CoversKeeps, CodeKeeps,
       CeremonyKeeps, DecideKeeps, GrantKeeps DEF Answer
<1>2. ASSUME NEW a \in Requests,
             \/ SessionUnread(a) \/ FindSubject(a) \/ PutSubject(a)
             \/ \E ask \in Asks, S \in SUBSET Scopes : Arrive(a, ask, S)
      PROVE  ConsentInv'
  BY <1>2, SignedOutKeeps, FindKeeps, PutKeeps, ArriveKeeps
<1>3. CASE UNCHANGED consentVars
  BY <1>3 DEF consentVars, ConsentInv, ConsentTypeOK, Agreed, OneSubject, Sound, Pages,
     WantsCeremony, Vouched, Preapproves
<1>4. QED
  BY <1>1, <1>2, <1>3, SessionKeeps, RevokeKeeps DEF ConsentNext

LEMMA ConsentInvariant == ConsentSpec => []ConsentInv
<1>1. ConsentInv /\ [ConsentNext]_consentVars => ConsentInv'
  BY ConsentStep
<1>2. QED
  BY <1>1, ConsentBegins, PTL DEF ConsentSpec

(* The types of Consent, and that a screen whose CSRF value is good has    *)
(* the session alive that made it.                                         *)
THEOREM ConsentTyped == ConsentSpec => []ConsentTypeOK
<1>1. ConsentInv => ConsentTypeOK
  BY DEF ConsentInv
<1>2. QED
  BY <1>1, ConsentInvariant, PTL

(* No prompt and no max_age is forgotten on the way to a code, except as   *)
(* stepUp says: whatever the continuation drops, a ceremony has paid for.  *)
THEOREM PromptsAreKept == ConsentSpec => []PromptsKept
<1>1. ASSUME ConsentInv PROVE PromptsKept
  <2>1. \A a \in Requests : Sound(req[a])
    BY <1>1 DEF ConsentInv
  <2>2. CodeIsFresh
    BY <2>1 DEF Sound, CodeIsFresh, HasCode, WantsCeremony
  <2>3. ConsentIsShown /\ NoneActsAlone
    BY <2>1 DEF Sound, ConsentIsShown, NoneActsAlone, HasCode
  <2>4. QED
    BY <2>2, <2>3 DEF PromptsKept
<1>2. QED
  BY <1>1, ConsentInvariant, PTL

(* However many requests race for the first subject, all are told the one. *)
THEOREM SubjectIsOne == ConsentSpec => []OneSubject
<1>1. ConsentInv => OneSubject
  BY DEF ConsentInv
<1>2. QED
  BY <1>1, ConsentInvariant, PTL

(* A code without a screen is for preapproved scopes, or for such as were  *)
(* agreed to, each once, and some since the last revocation, unless that   *)
(* came after the consent was looked at.                                   *)
THEOREM SilenceIsAgreed == ConsentSpec => SilentOnlyAgreed
<1>1. ASSUME ConsentInv, [ConsentNext]_consentVars, NEW a \in Requests,
             HasCode(a)', ~HasCode(a), req'[a].silent
      PROVE  \/ Preapproves(req[a].scopes)
             \/ req[a].scopes \subseteq ever /\ (renewed \/ req[a].late)
  <2>1. req[a] \in Request /\ req'[a].pc = "code" /\ req[a].pc # "code"
    BY <1>1 DEF ConsentInv, ConsentTypeOK, HasCode
  <2>2. ASSUME NEW b \in Requests, PutAuthorizationCode(b)
        PROVE  \/ Preapproves(req[a].scopes)
               \/ req[a].scopes \subseteq ever /\ (renewed \/ req[a].late)
    <3>1. req' = [req EXCEPT ![b] = At(req[b], "code")] /\ req \in [Requests -> Request]
      BY <1>1, <2>2 DEF PutAuthorizationCode, Move, At, ConsentInv, ConsentTypeOK
    <3>2. a = b
      BY <2>1, <3>1
    <3>3. req[a].silent
      BY <1>1, <3>1, <3>2, AtStage
    <3>4. req[a].pc = "covered"
      BY <1>1, <2>2, <3>2, <3>3 DEF PutAuthorizationCode, ConsentInv, Sound
    <3>5. QED
      BY <1>1, <3>4 DEF ConsentInv, Vouched
  <2>3. ASSUME NEW b \in Requests, GrantConsent(b) PROVE FALSE
    BY <1>1, <2>1, <2>3 DEF GrantConsent, Request, ConsentInv, ConsentTypeOK
  <2>4. ASSUME NEW b \in Requests,
               \/ SignedOut(b) \/ SessionUnread(b) \/ StepUp(b) \/ Pass(b) \/ Deny(b)
               \/ ConsentCovers(b)
        PROVE  FALSE
    BY <1>1, <2>1, <2>4 DEF SignedOut, SessionUnread, ToLogin, StepUp, Pass, Deny,
       ConsentCovers, Move, Over, Blank, Request, ConsentInv, ConsentTypeOK
  <2>5. ASSUME SignOut \/ RevokeConsent \/ \E b \in Requests : Ceremony(b) PROVE FALSE
    <3>1. CASE SignOut
      BY <2>1, <3>1 DEF SignOut, Request
    <3>2. ASSUME NEW b \in Requests, Ceremony(b) PROVE FALSE
      BY <2>1, <3>2 DEF Ceremony, Request
    <3>3. CASE RevokeConsent
      BY <2>1, <3>3 DEF RevokeConsent, Request
    <3>4. QED
      BY <2>5, <3>1, <3>2, <3>3
  <2>6. ASSUME NEW b \in Requests, NEW allow \in BOOLEAN, Decide(b, allow) PROVE FALSE
    BY <1>1, <2>1, <2>6 DEF Decide, Move, Over, Blank, Request, ConsentInv,
       ConsentTypeOK
  <2>7. ASSUME NEW b \in Requests,
               \/ FindSubject(b) \/ PutSubject(b)
               \/ \E ask \in Asks, S \in SUBSET Scopes : Arrive(b, ask, S)
        PROVE  FALSE
    <3>1. CASE FindSubject(b)
      BY <2>1, <3>1 DEF FindSubject, Blank, ConsentInv, ConsentTypeOK
    <3>2. CASE PutSubject(b)
      <4>1. req' = [req EXCEPT ![b] = [req[b] EXCEPT !.pc = "done", !.sub = subject']]
        BY <3>2 DEF PutSubject
      <4>2. req \in [Requests -> Request]
        BY <1>1 DEF ConsentInv, ConsentTypeOK
      <4>3. [req[b] EXCEPT !.pc = "done", !.sub = subject'].pc = "done"
        BY <4>2 DEF Request
      <4>4. QED
        BY <2>1, <4>1, <4>2, <4>3
    <3>3. ASSUME NEW ask \in Asks, NEW S \in SUBSET Scopes, Arrive(b, ask, S) PROVE FALSE
      BY <1>1, <2>1, <3>3 DEF Arrive, Blank, ConsentInv, ConsentTypeOK
    <3>4. QED
      BY <2>7, <3>1, <3>2, <3>3
  <2>8. CASE GrowOld \/ UNCHANGED consentVars
    BY <1>1, <2>1, <2>8 DEF GrowOld, consentVars
  <2>9. QED
    BY <1>1, <2>2, <2>3, <2>4, <2>5, <2>6, <2>7, <2>8 DEF ConsentNext, Answer
<1>2. ConsentInv /\ [ConsentNext]_consentVars =>
        [\A a \in Requests : HasCode(a)' /\ ~HasCode(a) /\ req'[a].silent =>
           \/ Preapproves(req[a].scopes)
           \/ req[a].scopes \subseteq ever /\ (renewed \/ req[a].late)]_consentVars
  BY <1>1
<1>3. QED
  BY <1>2, ConsentInvariant, PTL DEF ConsentSpec, SilentOnlyAgreed
=============================================================================
