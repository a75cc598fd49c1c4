------------------------------- MODULE Emails -------------------------------
(***************************************************************************)
(* How an account comes by its verified address, and loses it: the form of *)
(* /profile, the link that is mailed to the new address, the handler that  *)
(* opens it, and the notice to the address that is replaced.  Requests run *)
(* their statements one at a time.  An address stands for all its          *)
(* spellings: the row has the one that was typed, and is unique by the     *)
(* normalized one.                                                         *)
(***************************************************************************)
EXTENDS FiniteSets

CONSTANTS
  Users,      \* users rows
  Emails,     \* normalized addresses
  Links,      \* email_tokens rows of purpose verify
  Requests,   \* HTTP requests in flight at a time
  Null        \* no address, or nobody

ASSUME EmailsAssumption == Null \notin Users \cup Emails \cup Links

VARIABLES
  email,      \* user_emails, whose rows are all verified
  gone,       \* users whose row was deleted
  link,       \* email_tokens
  req,        \* requests in flight: where they are and what they hold
  told,       \* addresses told that they are not the user's any more
  late        \* auxiliary: requests whose view of the address is out of date

emailsVars == <<email, gone, link, req, told, late>>

(* blind is auxiliary: there was an address, and the query for it failed. *)
ReqRec == [pc : {"idle", "removing", "sending", "opened", "looked"},
           user : Users \cup {Null}, to : Emails \cup {Null},
           seen : Emails \cup {Null}, blind : BOOLEAN]
Idle == [pc |-> "idle", user |-> Null, to |-> Null, seen |-> Null, blind |-> FALSE]

LinkRec == [state : {"none", "sent", "unsent", "used", "expired"},
            user : Users \cup {Null}, to : Emails \cup {Null}]

(* The variables' types, and the UNIQUE of normalized_email. *)
EmailsTypeOK ==
  /\ email \in [Users -> Emails \cup {Null}]
  /\ gone \subseteq Users
  /\ link \in [Links -> LinkRec]
  /\ req \in [Requests -> ReqRec]
  /\ told \in [Users -> SUBSET Emails]
  /\ late \subseteq Requests
  /\ \A u, v \in Users : email[u] = email[v] /\ email[u] # Null => u = v

EmailsInit ==
  /\ email = [u \in Users |-> Null]
  /\ gone = {}
  /\ link = [l \in Links |-> [state |-> "none", user |-> Null, to |-> Null]]
  /\ req = [p \in Requests |-> Idle]
  /\ told = [u \in Users |-> {}]
  /\ late = {}

-----------------------------------------------------------------------------
End(p) == req' = [req EXCEPT ![p] = Idle]

(* Requests of u that have looked at the address, other than p. *)
Looked(u, p) ==
  {q \in Requests \ {p} : req[q].user = u /\ req[q].pc \in {"removing", "looked"}}

(* profileUpdate: the session brings the address as it is; the form has    *)
(* another one, or none.                                                   *)
ProfileUpdate(p, u, e) ==
  /\ req[p].pc = "idle" /\ u \notin gone
  /\ e # email[u]
  /\ req' = [req EXCEPT ![p] =
       [Idle EXCEPT !.pc = IF e = Null THEN "removing" ELSE "sending",
                    !.user = u, !.to = e, !.seen = email[u]]]
  /\ UNCHANGED <<email, gone, link, told, late>>

(* DeleteEmail, and the notice to the address the session brought. *)
RemoveAddress(p) ==
  LET u == req[p].user
  IN /\ req[p].pc = "removing"
     /\ email' = [email EXCEPT ![u] = Null]
     /\ told' = [told EXCEPT ![u] = @ \cup {req[p].seen}]
     /\ late' = (late \ {p}) \cup (IF email[u] # Null THEN Looked(u, p) ELSE {})
     /\ End(p)
     /\ UNCHANGED <<gone, link>>

(* The address is entered at once, to be confirmed later. *)
MutantSendLink(p, l, sent) ==
  LET u == req[p].user
  IN /\ req[p].pc = "sending" /\ u \notin gone
     /\ link[l].state = "none"
     /\ \A v \in Users : email[v] # req[p].to
     /\ link' = [link EXCEPT ![l] = [state |-> IF sent THEN "sent" ELSE "unsent",
                                     user |-> u, to |-> req[p].to]]
     /\ email' = [email EXCEPT ![u] = req[p].to]
     /\ End(p)
     /\ UNCHANGED <<gone, told, late>>

(* PutEmailToken, and the mail, which may not go out: then the link is     *)
(* stored and in nobody's hands.                                           *)
SendLink(p, l, sent) ==
  LET u == req[p].user
  IN /\ req[p].pc = "sending" /\ u \notin gone
     /\ link[l].state = "none"
     /\ link' = [link EXCEPT ![l] = [state |-> IF sent THEN "sent" ELSE "unsent",
                                     user |-> u, to |-> req[p].to]]
     /\ End(p)
     /\ UNCHANGED <<email, gone, told, late>>

LinkExpires(l) ==
  /\ link[l].state \in {"sent", "unsent"}
  /\ link' = [link EXCEPT ![l].state = "expired"]
  /\ UNCHANGED <<email, gone, req, told, late>>

-----------------------------------------------------------------------------
(* emailVerify: ConsumeEmailToken. *)
OpenLink(p, l) ==
  /\ req[p].pc = "idle"
  /\ link[l].state = "sent"
  /\ link' = [link EXCEPT ![l].state = "used"]
  /\ req' = [req EXCEPT ![p] = [Idle EXCEPT !.pc = "opened", !.user = link[l].user,
                                            !.to = link[l].to]]
  /\ UNCHANGED <<email, gone, told, late>>

(* UserByID, for the address there was.  If it fails there was none, and   *)
(* the handler goes on.                                                    *)
LookAtPrevious(p, answered) ==
  LET old == email[req[p].user]
  IN /\ req[p].pc = "opened"
     /\ req' = [req EXCEPT ![p].pc = "looked", ![p].seen = IF answered THEN old ELSE Null,
                           ![p].blind = ~answered /\ old # Null]
     /\ UNCHANGED <<email, gone, link, told, late>>

(* The address in use is not compared with those of others. *)
MutantWriteAddress(p) ==
  LET u == req[p].user e == req[p].to
  IN /\ req[p].pc = "looked"
     /\ u \notin gone
     /\ email' = [email EXCEPT ![u] = e]
     /\ told' = [told EXCEPT ![u] = (@ \ {e}) \cup ({req[p].seen} \ {Null, e})]
     /\ late' = (late \ {p}) \cup Looked(u, p)
     /\ End(p)
     /\ UNCHANGED <<gone, link>>

(* The row is overwritten before it is looked at. *)
MutantNotice(p) ==
  LET u == req[p].user e == req[p].to
  IN /\ req[p].pc = "looked"
     /\ u \notin gone /\ \A v \in Users \ {u} : email[v] # e
     /\ email' = [email EXCEPT ![u] = e]
     /\ told' = [told EXCEPT ![u] = @ \ {e}]
     /\ late' = (late \ {p}) \cup (IF email[u] # e THEN Looked(u, p) ELSE {})
     /\ End(p)
     /\ UNCHANGED <<gone, link>>

(* VerifyEmail: the address is another account's (409), the account is no  *)
(* more, or the row is written; the address that was seen, if it is        *)
(* another one, is told.                                                   *)
WriteAddress(p) ==
  LET u == req[p].user e == req[p].to
  IN /\ req[p].pc = "looked"
     /\ u \notin gone /\ \A v \in Users \ {u} : email[v] # e
     /\ email' = [email EXCEPT ![u] = e]
     /\ told' = [told EXCEPT ![u] = (@ \ {e}) \cup ({req[p].seen} \ {Null, e})]
     /\ late' = (late \ {p}) \cup (IF email[u] # e THEN Looked(u, p) ELSE {})
     /\ End(p)
     /\ UNCHANGED <<gone, link>>

(* Refusals, failures and hang-ups, at any step. *)
RequestEnds(p) ==
  /\ req[p].pc # "idle"
  /\ End(p)
  /\ late' = late \ {p}
  /\ UNCHANGED <<email, gone, link, told>>

(* FinalizeDeletions: the address and the links go with the account. *)
DeleteUser(u) ==
  /\ u \notin gone
  /\ gone' = gone \cup {u}
  /\ email' = [email EXCEPT ![u] = Null]
  /\ link' = [l \in Links |-> IF link[l].user = u /\ link[l].state \in {"sent", "unsent"}
                                THEN [link[l] EXCEPT !.state = "expired"] ELSE link[l]]
  /\ UNCHANGED <<req, told, late>>

EmailsNext ==
  \/ \E p \in Requests :
       \/ \E u \in Users, e \in Emails \cup {Null} : ProfileUpdate(p, u, e)
       \/ RemoveAddress(p)
       \/ \E l \in Links : OpenLink(p, l) \/ \E sent \in BOOLEAN : SendLink(p, l, sent)
       \/ \E answered \in BOOLEAN : LookAtPrevious(p, answered)
       \/ WriteAddress(p) \/ RequestEnds(p)
  \/ \E l \in Links : LinkExpires(l)
  \/ \E u \in Users : DeleteUser(u)

EmailsSpec == EmailsInit /\ [][EmailsNext]_emailsVars

-----------------------------------------------------------------------------
(* Properties.                                                             *)

(* An account has an address only if a link that was mailed there for this *)
(* very account was opened.                                                *)
ProvenAddress ==
  \A u \in Users : email[u] # Null =>
    \E l \in Links : link[l].state = "used" /\ link[l].user = u /\ link[l].to = email[u]

(* An address that an account gives up is told, unless the request that    *)
(* took it away had looked before the last change, or had failed to look,  *)
(* which emailVerify does not mind.                                        *)
LoserIsTold ==
  [][\A u \in Users :
       email[u] # Null /\ email'[u] # email[u] /\ u \notin gone' =>
         \/ email[u] \in told'[u]
         \/ \E p \in Requests : /\ req[p].user = u /\ req'[p].pc = "idle"
                                /\ p \in late \/ req[p].blind]_emailsVars
=============================================================================
