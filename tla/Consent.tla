------------------------------- MODULE Consent -------------------------------
(***************************************************************************)
(* What one user is asked before a client gets a code, and for what: the   *)
(* prompts and max_age of /authorize, the ceremony they may cost, the      *)
(* consent screen, and the row of consents behind it.  A request is the    *)
(* journey of a browser: it comes back to /authorize after each ceremony,  *)
(* with the parameters the continuation keeps.  One user and one client;   *)
(* the subject the client knows the user by is found or made at the end.   *)
(* Whether the user is admitted is the business of Grants and Accounts:    *)
(* here permitClient may answer either way, whenever it is asked.          *)
(***************************************************************************)
EXTENDS Integers, FiniteSets

CONSTANTS
  Requests,    \* journeys to /authorize
  Scopes,      \* scopes beside openid
  Asks,        \* pairs of a prompt and a max_age that clients send
  Null         \* absent, or no subject yet

(* A prompt is a set of values, of which "none" stands alone.  max_age is  *)
(* absent, zero, or the one number of seconds the model tells apart from a *)
(* session's age.                                                          *)
Prompts == SUBSET {"login", "consent"} \cup {{"none"}}
Ages == {"absent", "zero", "some"}

ASSUME ConsentAssumption ==
  /\ Asks \subseteq Prompts \X Ages
  /\ Null \notin Requests

VARIABLES
  session,     \* the browser's: "out", "fresh", or older than "some" seconds
  trusted,     \* clients.trusted
  preapproved, \* clients.preapproved_scopes, which always have openid
  row,         \* the row of consents: its scopes and whether it stands
  req,         \* the journeys
  subject,     \* pairwise_subjects
  ever,        \* auxiliary: scopes agreed to on a screen
  renewed      \* auxiliary: an agreement was stored since the last revocation

consentVars == <<session, trusted, preapproved, row, req, subject, ever, renewed>>

Pages == {"login", "reauth", "screen"}
Request == [
  pc : {"idle", "asked", "passed", "covered", "agreed", "granted", "code", "answered",
        "drawn", "done"} \cup Pages,
  prompt : Prompts, age : Ages, scopes : SUBSET Scopes,   \* as sent
  bounced : BOOLEAN,                \* stepUp sent it round
  anew : BOOLEAN,                   \* the session is of after the request, as demanded
  young : BOOLEAN,                  \* it was fresh when the journey passed, as demanded
  same : BOOLEAN,                   \* the CSRF value on its screen is good
  silent : BOOLEAN,                 \* no screen was agreed to
  late : BOOLEAN,                   \* the consent was revoked after it was looked at
  sub : Requests \cup {Null}]       \* the subject the client was told

Blank == [pc |-> "idle", prompt |-> {}, age |-> "absent", scopes |-> {}, bounced |-> FALSE,
          anew |-> FALSE, young |-> FALSE, same |-> FALSE, silent |-> TRUE, late |-> FALSE,
          sub |-> Null]

(* The variables' types; a screen whose CSRF value is good belongs to a    *)
(* session that is alive.                                                  *)
ConsentTypeOK ==
  /\ session \in {"out", "fresh", "old"}
  /\ trusted \in BOOLEAN /\ preapproved \subseteq Scopes
  /\ row \in [scopes : SUBSET Scopes, state : {"none", "stands", "revoked"}]
  /\ req \in [Requests -> Request]
  /\ subject \in Requests \cup {Null}
  /\ ever \subseteq Scopes /\ renewed \in BOOLEAN
  /\ \A a \in Requests : req[a].same => session # "out"

ConsentInit ==
  /\ session = "out"
  /\ trusted \in BOOLEAN
  /\ preapproved \in IF trusted THEN SUBSET Scopes ELSE {{}}
  /\ row = [scopes |-> {}, state |-> "none"]
  /\ req = [a \in Requests |-> Blank]
  /\ subject = Null /\ ever = {} /\ renewed = FALSE

-----------------------------------------------------------------------------
(* What the URL says now: the continuation of stepUp has no prompt, and no *)
(* max_age of zero.                                                        *)
Prompt(q) == IF q.bounced THEN {} ELSE q.prompt
Age(q) == IF q.bounced /\ q.age = "zero" THEN "absent" ELSE q.age

WantsCeremony(q) == "login" \in q.prompt \/ q.age = "zero"

(* staleAuth, which a session never satisfies if max_age is zero. *)
Stale(q) == Age(q) = "zero" \/ (Age(q) = "some" /\ session = "old")

(* Preapproved for a trusted client; openid alone always is. *)
Preapproves(S) == trusted /\ S \subseteq preapproved

(* ConsentCovers without its revoked_at IS NULL. *)
MutantCovers(S) == Preapproves(S) \/ (row.state # "none" /\ S \subseteq row.scopes)

(* What ConsentCovers returns. *)
Covers(S) == Preapproves(S) \/ (row.state = "stands" /\ S \subseteq row.scopes)

(* The journey goes on at p, or is over: the browser is back at the client *)
(* with an error, or stopped at a page without a way on.                   *)
Move(a, p) == req' = [req EXCEPT ![a].pc = p, ![a].same = @ /\ p = "screen"]
Over(a) == req' = [req EXCEPT ![a] = [Blank EXCEPT !.pc = "answered"]]

Arrive(a, ask, S) ==
  /\ req[a].pc = "idle"
  /\ req' = [req EXCEPT ![a] = [Blank EXCEPT !.pc = "asked", !.prompt = ask[1],
                                             !.age = ask[2], !.scopes = S]]
  /\ UNCHANGED <<session, trusted, preapproved, row, subject, ever, renewed>>

(* No session: an error, or the sign-in page, which comes back to the very *)
(* same request.                                                           *)
ToLogin(a) == IF "none" \in Prompt(req[a]) THEN Over(a) ELSE Move(a, "login")

SignedOut(a) ==
  /\ req[a].pc = "asked" /\ session = "out"
  /\ ToLogin(a)
  /\ UNCHANGED <<session, trusted, preapproved, row, subject, ever, renewed>>

(* The query for the session fails: authorize takes any error for none. *)
SessionUnread(a) ==
  /\ req[a].pc = "asked" /\ session # "out"
  /\ ToLogin(a)
  /\ UNCHANGED <<session, trusted, preapproved, row, subject, ever, renewed>>

(* The continuation keeps the parameters that cost the ceremony. *)
MutantStepUp(a) ==
  /\ req[a].pc = "asked" /\ session # "out"
  /\ "login" \in Prompt(req[a]) \/ Stale(req[a])
  /\ IF "none" \in Prompt(req[a]) THEN Over(a) ELSE Move(a, "reauth")
  /\ UNCHANGED <<session, trusted, preapproved, row, subject, ever, renewed>>

(* stepUp. *)
StepUp(a) ==
  /\ req[a].pc = "asked" /\ session # "out"
  /\ "login" \in Prompt(req[a]) \/ Stale(req[a])
  /\ IF "none" \in Prompt(req[a])
       THEN Over(a)
       ELSE req' = [req EXCEPT ![a].pc = "reauth", ![a].bounced = TRUE]
  /\ UNCHANGED <<session, trusted, preapproved, row, subject, ever, renewed>>

(* The age of the session is not looked at. *)
MutantPass(a) ==
  /\ req[a].pc = "asked" /\ session # "out"
  /\ "login" \notin Prompt(req[a])
  /\ req' = [req EXCEPT ![a].pc = "passed", ![a].same = TRUE,
                        ![a].young = req[a].age = "some" /\ session = "fresh"]
  /\ UNCHANGED <<session, trusted, preapproved, row, subject, ever, renewed>>

(* The session is read and will do. *)
Pass(a) ==
  /\ req[a].pc = "asked" /\ session # "out"
  /\ "login" \notin Prompt(req[a]) /\ ~Stale(req[a])
  /\ req' = [req EXCEPT ![a].pc = "passed", ![a].same = TRUE,
                        ![a].young = req[a].age = "some" /\ session = "fresh"]
  /\ UNCHANGED <<session, trusted, preapproved, row, subject, ever, renewed>>

(* permitClient denies, or a statement on the way to the code fails: the   *)
(* page is the end.                                                        *)
Deny(a) ==
  /\ req[a].pc \in {"passed", "covered", "agreed", "granted"}
  /\ Over(a)
  /\ UNCHANGED <<session, trusted, preapproved, row, subject, ever, renewed>>

(* A consent that covers the scopes answers prompt=consent, too. *)
MutantConsentCovers(a) ==
  /\ req[a].pc = "passed"
  /\ \/ Covers(req[a].scopes) /\ Move(a, "covered")
     \/ ~Covers(req[a].scopes) /\ "none" \in Prompt(req[a]) /\ Over(a)
     \/ ~Covers(req[a].scopes) /\ "none" \notin Prompt(req[a]) /\ Move(a, "screen")
  /\ UNCHANGED <<session, trusted, preapproved, row, subject, ever, renewed>>

(* The screen is drawn whether or not the client forbade it. *)
MutantScreen(a) ==
  LET covered == Covers(req[a].scopes) /\ "consent" \notin Prompt(req[a])
  IN /\ req[a].pc = "passed"
     /\ Move(a, IF covered THEN "covered" ELSE "screen")
     /\ UNCHANGED <<session, trusted, preapproved, row, subject, ever, renewed>>

(* permitClient has admitted, and the consent covers the scopes; or it     *)
(* does not, or is asked for: the screen, or the error.                    *)
ConsentCovers(a) ==
  LET covered == Covers(req[a].scopes) /\ "consent" \notin Prompt(req[a])
  IN /\ req[a].pc = "passed"
     /\ \/ covered /\ Move(a, "covered")
        \/ ~covered /\ "none" \in Prompt(req[a]) /\ Over(a)
        \/ ~covered /\ "none" \notin Prompt(req[a]) /\ Move(a, "screen")
     /\ UNCHANGED <<session, trusted, preapproved, row, subject, ever, renewed>>

(* issueAuthorizationCode, which looks at the consent no more. *)
PutAuthorizationCode(a) ==
  /\ req[a].pc \in {"covered", "granted"}
  /\ Move(a, "code")
  /\ UNCHANGED <<session, trusted, preapproved, row, subject, ever, renewed>>

-----------------------------------------------------------------------------
(* The user.                                                               *)

(* The ceremony of the page a is at: a session of now.  A CSRF value goes  *)
(* with the session it was made from, so the screens that are open lose.   *)
Ceremony(a) ==
  /\ req[a].pc \in {"login", "reauth"}
  /\ session' = "fresh"
  /\ req' = [b \in Requests |->
       [req[b] EXCEPT !.same = FALSE,
                      !.anew = @ \/ (WantsCeremony(req[b])
                                       /\ req[b].pc \in {"asked", "login", "reauth"}),
                      !.pc = IF b = a THEN "asked" ELSE @]]
  /\ UNCHANGED <<trusted, preapproved, row, subject, ever, renewed>>

(* The form of the screen comes to /authorize/consent: without a session   *)
(* that made its CSRF value, or with a no, it is over.                     *)
Decide(a, allow) ==
  /\ req[a].pc = "screen"
  /\ IF req[a].same /\ allow THEN Move(a, "agreed") ELSE Over(a)
  /\ UNCHANGED <<session, trusted, preapproved, row, subject, ever, renewed>>

(* GrantConsent: the scopes join whatever the row has, and it stands. *)
GrantConsent(a) ==
  /\ req[a].pc = "agreed"
  /\ row' = [scopes |-> row.scopes \cup req[a].scopes, state |-> "stands"]
  /\ req' = [req EXCEPT ![a].pc = "granted", ![a].silent = FALSE]
  /\ ever' = ever \cup req[a].scopes
  /\ renewed' = TRUE
  /\ UNCHANGED <<session, trusted, preapproved, subject>>

(* RevokeConsent, as far as the row. *)
RevokeConsent ==
  /\ row.state # "none"
  /\ row' = [row EXCEPT !.state = "revoked"]
  /\ renewed' = FALSE
  /\ req' = [b \in Requests |-> [req[b] EXCEPT !.late = @ \/ req[b].pc = "covered"]]
  /\ UNCHANGED <<session, trusted, preapproved, subject, ever>>

SignOut ==
  /\ session # "out"
  /\ session' = "out"
  /\ req' = [b \in Requests |-> [req[b] EXCEPT !.same = FALSE]]
  /\ UNCHANGED <<trusted, preapproved, row, subject, ever, renewed>>

(* Time passes: the session is older now than the max_age that is some. *)
GrowOld ==
  /\ session = "fresh"
  /\ session' = "old"
  /\ UNCHANGED <<trusted, preapproved, row, req, subject, ever, renewed>>

-----------------------------------------------------------------------------
(* PairwiseSubject in /token and /userinfo: what is there, or a new one.   *)
FindSubject(a) ==
  /\ req[a].pc = "code"
  /\ req' = [req EXCEPT ![a] = [Blank EXCEPT
       !.pc = IF subject = Null THEN "drawn" ELSE "done", !.sub = subject]]
  /\ UNCHANGED <<session, trusted, preapproved, row, subject, ever, renewed>>

(* ON CONFLICT DO NOTHING, and the subject that was drawn is returned. *)
MutantPutSubject(a) ==
  /\ req[a].pc = "drawn"
  /\ subject' = IF subject = Null THEN a ELSE subject
  /\ req' = [req EXCEPT ![a].pc = "done", ![a].sub = a]
  /\ UNCHANGED <<session, trusted, preapproved, row, ever, renewed>>

(* INSERT ... ON CONFLICT DO UPDATE ... RETURNING subject *)
PutSubject(a) ==
  /\ req[a].pc = "drawn"
  /\ subject' = IF subject = Null THEN a ELSE subject
  /\ req' = [req EXCEPT ![a].pc = "done", ![a].sub = subject']
  /\ UNCHANGED <<session, trusted, preapproved, row, ever, renewed>>

Answer(a) ==
  \/ SignedOut(a) \/ StepUp(a) \/ Pass(a) \/ Deny(a) \/ ConsentCovers(a)
  \/ Ceremony(a) \/ (\E allow \in BOOLEAN : Decide(a, allow)) \/ GrantConsent(a)
  \/ PutAuthorizationCode(a)

ConsentNext ==
  \/ \E a \in Requests :
       \/ Answer(a) \/ SessionUnread(a) \/ FindSubject(a) \/ PutSubject(a)
       \/ \E ask \in Asks, S \in SUBSET Scopes : Arrive(a, ask, S)
  \/ RevokeConsent \/ SignOut \/ GrowOld

ConsentSpec == ConsentInit /\ [][ConsentNext]_consentVars

(* The server answers, and the user does what the pages ask for. *)
ConsentFairSpec == ConsentSpec /\ \A a \in Requests : WF_consentVars(Answer(a))

-----------------------------------------------------------------------------
(* Properties.                                                             *)

HasCode(a) == req[a].pc = "code"

(* A code that comes without a screen is for preapproved scopes of a       *)
(* trusted client, or for scopes each of which the user once agreed to,    *)
(* after some agreement since the last revocation; a revocation between    *)
(* the look at the consent and the insert of the code comes too late for   *)
(* it.  It says no more because GrantConsent revives what was revoked:     *)
(* agreeing to one scope brings the others back.                           *)
SilentOnlyAgreed ==
  [][\A a \in Requests : HasCode(a)' /\ ~HasCode(a) /\ req'[a].silent =>
       \/ Preapproves(req[a].scopes)
       \/ req[a].scopes \subseteq ever /\ (renewed \/ req[a].late)]_consentVars

(* What the client asks for with a code's request is honoured, for all the *)
(* round trips in which prompt and max_age are dropped.                    *)
(*                                                                         *)
(* prompt=login and max_age=0: the session is of after the request; other  *)
(* max_age: it was not older when the browser was let pass.  (This is of   *)
(* users who follow the pages: stepUp leaves it to the client to check     *)
(* auth_time.)                                                             *)
CodeIsFresh ==
  \A a \in Requests : HasCode(a) =>
    /\ WantsCeremony(req[a]) => req[a].anew
    /\ req[a].age = "some" => req[a].young

(* prompt=consent: a screen was agreed to, unless a ceremony came in       *)
(* between: stepUp drops that prompt as well.                              *)
ConsentIsShown ==
  \A a \in Requests :
    HasCode(a) /\ "consent" \in req[a].prompt => ~req[a].silent \/ req[a].bounced

(* prompt=none: an answer, and never a page to act on; the only page is    *)
(* the one of a user who is not admitted.                                  *)
NoneActsAlone == \A a \in Requests : "none" \in req[a].prompt => req[a].pc \notin Pages

(* All three: no prompt and no max_age is forgotten on the way to a code,  *)
(* except as stepUp says.                                                  *)
PromptsKept == CodeIsFresh /\ ConsentIsShown /\ NoneActsAlone

(* However many requests race for the first subject, the client is told    *)
(* one and the same.                                                       *)
OneSubject == \A a \in Requests : req[a].pc = "done" => req[a].sub = subject

(* No loop without exit: a user who answers the pages, and in the end is   *)
(* back with a session that can be read and is neither gone nor too old    *)
(* again, gets to an answer.                                               *)
RequestsEnd ==
  <>[][~SignOut /\ ~GrowOld /\ \A a \in Requests : ~SessionUnread(a)]_consentVars =>
    \A a \in Requests :
      (req[a].pc = "asked") ~> (req[a].pc \in {"code", "answered", "drawn", "done"})
=============================================================================
