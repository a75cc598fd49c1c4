------------------------------ MODULE Clients -------------------------------
(***************************************************************************)
(* Registering a client and rotating its secret.  One client id: no        *)
(* statement about one client touches the rows of another.  A form and a   *)
(* rotation each make one secret, which has their name; the page that      *)
(* shows it comes after the commit and may be lost.  A rotation is cut at  *)
(* each statement of its transaction: now() is the time of BEGIN, the      *)
(* client's row is locked, the UPDATE sees what is committed by then.      *)
(***************************************************************************)
EXTENDS Integers, FiniteSets

CONSTANTS
  Forms,       \* submissions of "new client" for this id
  Rotations,   \* submissions of "rotate secret"
  Emails,      \* addresses that can be on the allowlist
  Overlap,     \* how long a superseded secret is still good: 24 hours
  MaxTime,     \* bound of the clock
  None         \* NULL

ASSUME ClientsAssumption ==
  /\ Overlap \in Nat \ {0} /\ MaxTime \in Nat
  /\ Forms \cap Rotations = {}
  /\ None \notin Nat \cup Forms \cup Rotations

Secrets == Forms \cup Rotations

VARIABLES
  now,         \* the clock
  client,      \* the row of clients: absent, enabled or disabled
  rows,        \* committed rows of client_secrets
  expires,     \* client_secrets.expires_at
  listed,      \* client_allowed_emails
  lock,        \* who holds the client's row FOR UPDATE
  rot,         \* rotations in progress
  form,        \* creations in progress
  removed,     \* auxiliary: addresses an administrator took off the list
  gone         \* auxiliary: when the first rotation after a secret committed

vars == <<now, client, rows, expires, listed, lock, rot, form, removed, gone>>

Rotation == [pc : {"idle", "begun", "locked", "superseded", "committed", "shown", "lost"},
             start : Nat, hit : SUBSET Secrets]
Form == [pc : {"idle", "created", "shown", "failed"},
         asked : SUBSET Emails, todo : SUBSET Emails]

(* The variables' types; a secret without a row has no expiry, and only a  *)
(* rotation in its transaction holds the lock.                             *)
TypeOK ==
  /\ now \in Nat
  /\ client \in {"absent", "enabled", "disabled"}
  /\ rows \subseteq Secrets
  /\ expires \in [Secrets -> Nat \cup {None}]
  /\ listed \subseteq Emails
  /\ lock \in Rotations \cup {None}
  /\ rot \in [Rotations -> Rotation]
  /\ form \in [Forms -> Form]
  /\ removed \subseteq Emails
  /\ gone \in [Secrets -> Nat \cup {None}]
  /\ \A s \in Secrets \ rows : expires[s] = None
  /\ \A r \in Rotations :
       rot[r].pc \in {"locked", "superseded"} <=> lock = r

Init ==
  /\ now = 0 /\ client = "absent" /\ rows = {} /\ listed = {} /\ removed = {}
  /\ lock = None
  /\ expires = [s \in Secrets |-> None]
  /\ gone = [s \in Secrets |-> None]
  /\ rot = [r \in Rotations |-> [pc |-> "idle", start |-> 0, hit |-> {}]]
  /\ form = [f \in Forms |-> [pc |-> "idle", asked |-> {}, todo |-> {}]]

-----------------------------------------------------------------------------
(* ValidateClientSecret finds this row. *)
Accepted(s) ==
  /\ client = "enabled"
  /\ s \in rows
  /\ expires[s] = None \/ expires[s] > now

Unending == {s \in rows : expires[s] = None}

(* LEAST(COALESCE(expires_at, end), end) *)
Least(e, end) == IF e = None \/ e > end THEN end ELSE e

Tick ==
  /\ now < MaxTime
  /\ now' = now + 1
  /\ UNCHANGED <<client, rows, expires, listed, lock, rot, form, removed, gone>>

-----------------------------------------------------------------------------
(* adminCreateClient: one transaction for the client and its secret, then  *)
(* one statement per address, then the page.                               *)

CreateClient(f, E) ==
  /\ form[f].pc = "idle"
  /\ client = "absent"
  /\ client' = "enabled"
  /\ rows' = rows \cup {f}
  /\ form' = [form EXCEPT ![f] = [pc |-> "created", asked |-> E, todo |-> E]]
  /\ UNCHANGED <<now, expires, listed, lock, rot, removed, gone>>

(* AllowClientEmail; its foreign key waits for the client's row. *)
AllowFormEmail(f, e) ==
  /\ form[f].pc = "created"
  /\ e \in form[f].todo
  /\ lock = None
  /\ listed' = listed \cup {e}
  /\ removed' = removed \ {e}
  /\ form' = [form EXCEPT ![f].todo = @ \ {e}]
  /\ UNCHANGED <<now, client, rows, expires, lock, rot, gone>>

ShowForm(f) ==
  /\ form[f].pc = "created"
  /\ form[f].todo = {}
  /\ form' = [form EXCEPT ![f].pc = "shown"]
  /\ UNCHANGED <<now, client, rows, expires, listed, lock, rot, removed, gone>>

(* An address that could not be stored is passed over. *)
MutantFormFails(f) ==
  /\ form[f].pc = "created"
  /\ \E e \in form[f].todo : form' = [form EXCEPT ![f].todo = @ \ {e}]
  /\ UNCHANGED <<now, client, rows, expires, listed, lock, rot, removed, gone>>

(* The id is taken, an address is not stored, or the answer is lost. *)
FormFails(f) ==
  /\ \/ form[f].pc = "idle" /\ client # "absent"
     \/ form[f].pc = "created"
  /\ form' = [form EXCEPT ![f] = [pc |-> "failed", asked |-> {}, todo |-> {}]]
  /\ UNCHANGED <<now, client, rows, expires, listed, lock, rot, removed, gone>>

-----------------------------------------------------------------------------
(* RotateClientSecret. *)

BeginRotation(r) ==
  /\ rot[r].pc = "idle"
  /\ rot' = [rot EXCEPT ![r].pc = "begun", ![r].start = now]
  /\ UNCHANGED <<now, client, rows, expires, listed, lock, form, removed, gone>>

(* SELECT enabled without FOR UPDATE. *)
MutantLockClient(r) ==
  /\ rot[r].pc = "begun"
  /\ client = "enabled"
  /\ lock' = r
  /\ rot' = [rot EXCEPT ![r].pc = "locked"]
  /\ UNCHANGED <<now, client, rows, expires, listed, form, removed, gone>>

(* SELECT enabled ... FOR UPDATE *)
LockClient(r) ==
  /\ rot[r].pc = "begun"
  /\ lock = None
  /\ client = "enabled"
  /\ lock' = r
  /\ rot' = [rot EXCEPT ![r].pc = "locked"]
  /\ UNCHANGED <<now, client, rows, expires, listed, form, removed, gone>>

(* The new secret is inserted before the UPDATE. *)
MutantSupersede(r) ==
  /\ rot[r].pc = "locked"
  /\ rot' = [rot EXCEPT ![r].pc = "superseded", ![r].hit = rows \cup {r}]
  /\ UNCHANGED <<now, client, rows, expires, listed, lock, form, removed, gone>>

(* UPDATE client_secrets SET expires_at = ... *)
Supersede(r) ==
  /\ rot[r].pc = "locked"
  /\ rot' = [rot EXCEPT ![r].pc = "superseded", ![r].hit = rows]
  /\ UNCHANGED <<now, client, rows, expires, listed, lock, form, removed, gone>>

(* Every rotation grants the old secrets another day. *)
MutantCommitRotation(r) ==
  /\ rot[r].pc = "superseded"
  /\ expires' = [s \in Secrets |-> IF s \in rot[r].hit THEN rot[r].start + Overlap
                                                       ELSE expires[s]]
  /\ rows' = rows \cup {r}
  /\ gone' = [s \in Secrets |-> IF s \in rows /\ gone[s] = None THEN now ELSE gone[s]]
  /\ lock' = None
  /\ rot' = [rot EXCEPT ![r] = [pc |-> "committed", start |-> rot[r].start, hit |-> {}]]
  /\ UNCHANGED <<now, client, listed, form, removed>>

(* The INSERT and the commit. *)
CommitRotation(r) ==
  /\ rot[r].pc = "superseded"
  /\ expires' = [s \in Secrets |-> IF s \in rot[r].hit
                                     THEN Least(expires[s], rot[r].start + Overlap)
                                     ELSE expires[s]]
  /\ rows' = rows \cup {r}
  /\ gone' = [s \in Secrets |-> IF s \in rows /\ gone[s] = None THEN now ELSE gone[s]]
  /\ lock' = None
  /\ rot' = [rot EXCEPT ![r] = [pc |-> "committed", start |-> rot[r].start, hit |-> {}]]
  /\ UNCHANGED <<now, client, listed, form, removed>>

ShowRotation(r) ==
  /\ rot[r].pc = "committed"
  /\ rot' = [rot EXCEPT ![r].pc = "shown"]
  /\ UNCHANGED <<now, client, rows, expires, listed, lock, form, removed, gone>>

(* ErrNotFound or an error of the database; the request may come again. *)
RotationFails(r) ==
  /\ rot[r].pc \in {"begun", "locked", "superseded"}
  /\ rot' = [rot EXCEPT ![r] = [pc |-> "idle", start |-> 0, hit |-> {}]]
  /\ lock' = IF lock = r THEN None ELSE lock
  /\ UNCHANGED <<now, client, rows, expires, listed, form, removed, gone>>

(* The answer of a rotation that was committed is lost. *)
RotationLost(r) ==
  /\ rot[r].pc = "committed"
  /\ rot' = [rot EXCEPT ![r].pc = "lost"]
  /\ UNCHANGED <<now, client, rows, expires, listed, lock, form, removed, gone>>

-----------------------------------------------------------------------------
(* adminToggleClient and adminClientAccess. *)

SetClientEnabled ==
  /\ client # "absent"
  /\ lock = None
  /\ client' = IF client = "enabled" THEN "disabled" ELSE "enabled"
  /\ UNCHANGED <<now, rows, expires, listed, lock, rot, form, removed, gone>>

DenyClientEmail(e) ==
  /\ client # "absent"
  /\ listed' = listed \ {e}
  /\ removed' = removed \cup {e}
  /\ UNCHANGED <<now, client, rows, expires, lock, rot, form, gone>>

Next ==
  \/ Tick
  \/ \E f \in Forms :
       \/ ShowForm(f) \/ FormFails(f)
       \/ \E E \in SUBSET Emails : CreateClient(f, E)
       \/ \E e \in Emails : AllowFormEmail(f, e)
  \/ \E r \in Rotations :
       \/ BeginRotation(r) \/ LockClient(r) \/ Supersede(r) \/ CommitRotation(r)
       \/ ShowRotation(r) \/ RotationFails(r) \/ RotationLost(r)
  \/ SetClientEnabled
  \/ \E e \in Emails : DenyClientEmail(e)

Spec == Init /\ [][Next]_vars

-----------------------------------------------------------------------------
(* Properties.                                                             *)

(* However many rotations run at once, a client has exactly one secret     *)
(* without an end: the row lock makes each see the one before it.          *)
OneUnending ==
  IF client = "absent" THEN rows = {} ELSE \E s \in rows : Unending = {s}

(* A superseded secret is dead an Overlap after the first rotation that    *)
(* superseded it; later rotations never give it more time.                 *)
SupersededDies ==
  \A s \in rows : gone[s] # None => expires[s] # None /\ expires[s] <= gone[s] + Overlap

(* A secret an administrator was shown is good while its client is         *)
(* enabled and no other rotation has begun an Overlap ago.                 *)
ShownServes ==
  \A s \in Secrets :
    /\ s \in Forms => form[s].pc = "shown"
    /\ s \in Rotations => rot[s].pc = "shown"
    /\ client = "enabled"
    /\ \A r \in Rotations \ {s} : rot[r].pc # "idle" => rot[r].start + Overlap > now
    => Accepted(s)

(* Creating a client is not one transaction; but who is shown the secret   *)
(* has every address of the form on the list, or taken off it since.       *)
ShownIsListed ==
  \A f \in Forms : form[f].pc = "shown" => form[f].asked \subseteq listed \cup removed
=============================================================================
