# Claustra in TLA+

Claustra (`cmd/claustra`, `internal/`) is a passkey-first OpenID Connect provider.
It is a Go web server over one PostgreSQL database: every request is a goroutine
that runs a handful of SQL statements, some alone, some in a READ COMMITTED
transaction, and one more goroutine finalizes recoveries and deletions once a
minute. All state that outlives a request is in the database, so what can go
wrong is in the order of the statements of different requests. That order is what
these modules are about.

## 1. The system

| Component | State (tables) | Operations | Hard about it | What makes it correct |
|---|---|---|---|---|
| Codes and tokens (`server/oidc.go`, `store/oauth.go`) | `authorization_codes`, `access_tokens` | `/authorize`, consent, `/token`, `/revoke`, `/userinfo` | two redemptions of one code; the code is burned before its binding is compared; checks and inserts are separate statements | one token per code, for the right client; no token the rules deny |
| Access rules (`store/access.go`, `server/access.go`, `server/admin.go`) | `clients`, `client_allowed_emails`, `forward_hosts`, `forward_allowed_emails` | policy, allow, deny, enable, disable | a change must revoke what exists while new grants are being made, and next to other changes | nobody keeps what the rules no longer give |
| Consent (`store/oauth.go`, `server/oidc.go`, `server/access.go`) | `consents`, `pairwise_subjects` | prompts, step-up, screen, grant, cover, revoke | parameters dropped on the way round; a consent that is revived, or revoked between the look at it and the code; two first subjects | a client holds what its user agreed to, and is told one subject |
| Sessions and sign-in (`server/webauthn.go`, `server/account.go`, `store/users.go`) | `sso_sessions` | login, sign out here and everywhere, revoke | a session is inserted after the passkey was checked | sign-out and revocation end what they name |
| WebAuthn challenges (`server/webauthn.go`, `server/passkeys.go`, `server/deletion.go`) | `webauthn_challenges` | begin and finish of five operations | two finishes of one challenge; a challenge of another operation or account; an account deleted between two statements | one challenge, one effect, of its own operation |
| Passkeys and recovery (`store/account.go`, `store/recovery.go`, `server/passkeys.go`, `server/recovery.go`) | `credentials`, `recoveries`, `email_tokens` | add, revoke, request, enrol, cancel, finalize | count-then-revoke; the finalizer works on a list read earlier; links outlive their recovery | an account keeps a passkey; one recovery at a time; a replacement waits |
| Registration and administrators (`store/users.go`, `store/admin.go`) | `users`, `roles`, `bootstrap_tokens` | bootstrap, register, promote, demote | the last administrator; a query that fails and counts as a no; several links | an administrator remains |
| Account deletion (`store/deletion.go`, `server/deletion.go`) | `users`, foreign keys of other tables | schedule, cancel, finalize | the grace period; old links; one failing account among many | accounts go when due, and only then, and come back without sessions |
| Forward authentication (`store/forward.go`, `server/forward.go`) | `forward_tickets`, `forward_sessions` | authorize, callback, verify, logout | one-time tickets; cookies on another host than the session | a host gets whom it admits, while signed in |
| Email ownership (`store/profile.go`, `server/account.go`) | `user_emails`, `email_tokens` | form, link, verify, remove | old links; competing accounts; the address is read before it is replaced, and the error of that read ignored | the address is the user's, and who loses one is told |
| Client secrets (`store/admin.go`, `store/oauth.go`) | `client_secrets` | create, rotate, validate | rotations at once; a creation that fails half-way; a lost answer | one secret without an end; a superseded one dies in a day |
| Rate limiter (`security/security.go`) | a map in memory | allow | clocks read before the mutex; the purge at the map's limit | a window is not forgotten, and lets its limit through |
| Migrations and restore (`store/store.go`, `store/users.go`, `cmd/claustra/main.go`) | `schema_migrations`; the nine tables that `InvalidateEphemeralState` names, and `bootstrap_tokens`, which it does not | migrate, serve, `bootstrap`, `invalidate-restored-state` | several starts of several versions, crashes, requests under way between the statements of the invalidation | each migration once, in order; restored sessions, codes, tokens and recoveries are dead |
| Maintenance (`cmd/claustra/main.go`) | – | finalize, clean up | failures, restarts | what is due happens |

Keys and tokens on the wire, profile and avatars, mail, pages, configuration and
packaging have no state of their own, or one row replaced by one statement; they are
not modelled. `PROJECT.json` lists every component with its status, every hazard
with the line where it bites, and maps each definition to the lines it translates.

How the components meet: the access rules read `user_emails` and decide for
`/authorize`, `/token` and forward-auth; `revokeUserSessions` ends sessions and
tokens together and is called by sign-out everywhere, deletion and recovery;
deletion and recovery are finalized by the maintenance goroutine, one after the
other in one round; forward sessions hang on SSO sessions, roles and clients on
users, by foreign keys; every ceremony passes through one table of challenges and
one function that consumes them; and all of it runs on whatever schema `Migrate`
has left.

## 2. The modules

| Module | Models | Kind |
|---|---|---|
| `OneTimeGrant` | what a one-time code promises, nothing else | abstract specification |
| `FixedWindow` | what a rate limiter promises, nothing else | abstract specification |
| `GracePeriod` | what is promised of what is announced before it is done, nothing else | abstract specification |
| `Grants` | codes, tokens, consent, sign-in and the transactions that revoke | implements `OneTimeGrant` |
| `Forward` | tickets, cookies, verification and the transactions that revoke | implements `OneTimeGrant` |
| `Ceremonies` | challenges, what is made with them, and deletion around them | implements `OneTimeGrant` and `GracePeriod` |
| `Consent` | prompts, step-up, the screen, scopes, and the pairwise subject | detailed |
| `Recovery` | passkeys, sessions and recoveries of one account | implements `GracePeriod` |
| `Accounts` | registration, roles, deletion and its finalizer | implements `GracePeriod` |
| `Emails` | forms, links and notices of verified addresses | detailed |
| `Clients` | creation of a client and rotation of its secret | detailed |
| `Limiter` | `Limiter.Allow` | implements `FixedWindow` |
| `Startup` | processes, migrations, backup, restore, invalidation | detailed |
| `GrantsProofs`, `ForwardProofs`, `CeremoniesProofs`, `RecoveryProofs`, `AccountsProofs`, `ClientsProofs`, `LimiterProofs`, `StartupProofs` | theorems about the module of that name; `LimiterProofs` also about `Emails`, `ClientsProofs` also about `Consent` | proofs |
| `MCGrants`, `MCForward`, `MCCeremonies`, `MCConsent`, `MCRecovery`, `MCAccounts`, `MCEmails`, `MCClients`, `MCLimiter`, `MCStartup` | symmetry and constants of the instances | model checking |

The modules meet where their tables do, and each keeps of the others' tables what
its properties need: `Grants` and `Ceremonies` have sessions, `Ceremonies` and
`Accounts` the status of an account, `Grants` and `Consent` the row of a consent.
`Consent` lets `permitClient` answer either way, because what it answers is the
business of `Grants`; `Grants` has one scope, because scopes are that of `Consent`.

Conventions. A row is an identifier used once; its columns are functions of it. An
operation of the code is an action of the same name, and one of several statements is
cut into several actions. A request in progress is a record (`az`, `rd`, `tk`, `ck`,
`vr`, `req`) with a program counter and what the handler holds in local variables:
what was read in an earlier statement is stale by construction. Time passes by actions
that may happen (`CodeExpires`, `GraceEnds`, `BecomesDue`); only where durations are
compared (`Limiter`, `Clients`) is there a clock. Operators called `Mutant...` are not
part of any specification: each is an action or helper with a plausible bug, to be put
in the place of the one after it, and `PROJECT.json` says which property then fails.

### Grants

`az[a]` is a run of `/authorize`: session and client read, then `permitClient`, then
consent, then `PutAuthorizationCode`; `code[a]` is the row it inserts. `rd[r]` is a
run of `/token`: `ValidateClientSecret`, `ConsumeAuthorizationCode`, `UserByID` with
`ClientAccessAllowed`, `PutAccessToken`; `token[r]` is its row. `tx[x]` is an open
revoking transaction in three steps: *begin* (the first statement, with the row
locks it takes), *revoke* (the `UPDATE` of `access_tokens` on its own snapshot: the
rows committed so far and its own change) and *commit* (all writes appear). It may
roll back at any point. Withdrawals are `DenyClientEmail`, `SetClientAccessPolicy`
and `SetClientEnabled(false)`; the other revoking transactions are `RevokeConsent`,
`RevokeAllSessions` and `ScheduleDeletion`.

Row locks appear as guards (`ClientRowFree`, `ListRowFree`, `UserRowFree`,
`ConsentRowFree`): a statement that would wait is not enabled. A deny locks the
allowlist row it deletes and no row of `clients`, which is why it can overlap with a
change of policy. A second `UPDATE` of the same tokens would wait and then find them
revoked; it ends with the same rows dead, so that wait is left out. `email` in a
deny is `None` when the row is not there: the `DELETE` then locks and removes
nothing.

`late` is auxiliary. It holds redemptions that had their admission check behind
them when a change of the rules took effect, except those whose token the change's
own `UPDATE` looked at. It makes precise what the code can promise: see section 4.

### Forward

The same cut for hosts: `tk[t]` is a run of `forwardAuthorize` and its ticket,
`ck[k]` a run of `forwardCallback` and its cookie, `vr[v]` a run of `forwardVerify`
with its two queries. SSO sessions only end here; logins are in `Grants`. A session
inserted by a login that raced `ScheduleDeletion` is unusable until the deletion is
cancelled, and counts as ended. `forward_hosts.enabled` is read but no statement
writes it, so it is left out. `valid` in `vr` and `late` are auxiliary.

### Recovery

One account, whose rows no other account's statements touch. `req[p]` is a request
in progress: a login between the check of the passkey and the insert of the session,
a handler that has passed `requireRecent`, a revocation that has counted, a recovery
request that has checked. `fin` is the list `FinalizeRecoveries` has read and not
worked off. Three transactions are one step each:

- `CancelRecovery` and an item of `FinalizeRecoveries` write the same two rows
  (recovery, replacement). If the cancellation comes between the statements of the
  finalizer it is as if it had come before: the first statement does not touch the
  replacement, the second finds it revoked. If both hold a lock the other needs,
  PostgreSQL aborts one, which is `RequestEnds` or `FinalizeFails`.
- `BeginRecoveryQuarantine` starts with the `UPDATE` of its own link, which
  serialises it with any other use of that link; a superseding request either sees
  it committed or waits for the row.
- `StartRecoveryRequest` is cut after its check; supersession and insert are one
  step, guarded by the unique index of migration 003.
- In `RevokeCredential` the count is a step, the two `UPDATE`s are one: a login that
  read the passkey before them and inserts its session after them is in `late`
  either way. A revocation that counted a passkey lost since is in `late`, too.

`late` holds logins, and then sessions, overtaken by the loss of their passkey.

The refinement to `GracePeriod` takes a recovery as announced when its quarantine
begins. Only the `SELECT` of the finalizer looks at `completes_at`; a cancellation
does not, so it is good until the recovery is completed (`LateWord`).

### Accounts

`req[p]` again; `lock` is the transaction-level advisory lock of `SetAdmin`;
`granted[u]` and `created` are the columns without `ON DELETE` (`roles.granted_by`,
`clients.created_by`, `forward_hosts.created_by`) that decide whether a user row can
be deleted; `fin` is the list read by `FinalizeDeletions`. `deleteAccount` is cut at
its queries: the session with `IsAdmin` (`DeleteAccount`), `IsLastAdmin` (`CheckLast`,
asked of administrators only: *staying*), and `ScheduleDeletion` (*leaving*). Each
query may fail, and both functions then answer no: `answered` is a parameter of the
two actions. `counted` and `blind` in `req` are auxiliary; `blind` says that the one
administrator there was goes on because a query failed. Subject tombstones are written when an account goes and never read; they
are left out. The refinement to `GracePeriod` takes an account as announced while it
is `deletion_pending`. `CancelDeletion` does look at `deletion_due_at`: once the time
is up there is no way back, and that is what makes it safe that the finalizer looks
at it for the list only.

### Ceremonies

`chal[c]` is a row of `webauthn_challenges`: the operation it was begun for and, for
registration and for adding a passkey, the account. `fin[f]` is a request to
`.../finish`: *consumed* is after `ConsumeChallenge`, *found* after
`DiscoverableDeletionUser`, *entering* before the insert of the session. It makes at
most one session or passkey, which has its name, so that the refinement to
`OneTimeGrant` can say "one challenge, one effect". The accounts around it are
scheduled for deletion, restored by passkey and by link, and finalized, between any
two of its statements. `GraceEnds` is one way: no statement moves `deletion_due_at`
back once it has passed, and the links that were mailed then change nothing
(`Restored`). That a link for an earlier deletion cancels a later one is part of the
model. `WasSignedIn` guards `ScheduleDeletion` by a session that may be gone: the
middleware reads it before the handler runs. The fifth operation, recovery, is
`BeginRecoveryQuarantine` in `Recovery`.

### Consent

One user, one client, several journeys through `/authorize` in one browser. `prompt`
and `age` are what the client sent; `Prompt` and `Age` what the URL says after a
step-up, which drops every prompt and a `max_age` of zero. `Pages` are the states that
wait for the user. A CSRF value goes with the session it was made from, so a new
ceremony or a sign-out spoils the screens that are open (`same`). `trusted` and
`preapproved` are the client's columns: for a trusted client the scopes in
`preapproved` need no consent, and `openid`, which always is among them, is left out of
`Scopes`. `row` is the row of `consents`: `GrantConsent` adds to the scopes it finds,
revoked or not. `ConsentCovers` and the `INSERT` of the code (`PutAuthorizationCode`)
are two steps, and so are `GrantConsent` and that `INSERT` (*covered*, *granted*); the
auxiliary `late` marks a journey whose consent was revoked after it was looked at. A
query for the session that fails is, for `authorize`, no session (`SessionUnread`); any
other that fails is the end of the journey (`Deny`). Instances give
all combinations of no prompt, `login`, `consent`, both, or `none`, with `max_age`
absent, zero or some, that differ in what the code does. `PutSubject` is the `INSERT
... ON CONFLICT` of `PairwiseSubject`, after its own `SELECT`.

### Emails

`req[p]` is a run of `profileUpdate` (*removing*, *sending*) or of `emailVerify`
(*opened* after `ConsumeEmailToken`, *looked* after `UserByID`, whose error
`emailVerify` ignores: `answered` again, and `blind`). An address stands for
all its spellings. A link whose mail did not go out is stored all the same and in
nobody's hands (`unsent`). `told` collects notices; `late` the requests that looked at
an address which another one has replaced since.

### Clients

`form[f]` is a run of `adminCreateClient`: one transaction for the client and its
secret, then one statement per address, then the page with the secret. `rot[r]` is a
run of `RotateClientSecret` at its statements: `BEGIN`, whose time `now()` is used
throughout; `SELECT ... FOR UPDATE`; the `UPDATE` that gives the secrets it finds an
end; the `INSERT` and the commit. `lock` is the client's row; inserting an allowlist
entry waits for it by its foreign key, removing one does not. The page may be lost
after the commit.

### Limiter

`windows` is the map, a function on the keys that are in it. `Allow` reads the clock
before it takes the mutex: `Arrive` and `Allow` are two steps, and the purge runs with
the clock of whoever finds the map too large, which may be behind another caller's.
`passed` is auxiliary. The refinement to `FixedWindow` reads a key that is not in the
map as a window that was forgotten.

### Startup

A process opens its pool, takes the session-level advisory lock, and runs over the
migrations its binary knows (`knows`): look, apply and record in one transaction, next.
`Crash` is any death or error: the lock and the open transaction go with the database
session. `conflict` is the primary key of `schema_migrations` refusing a name twice. An operator's
process migrates like a server and then invalidates, or puts a bootstrap link.

Of the data there are the rows that let somebody act, each in its table (`Table`), made
by a sign-in or out of a row read before. `Statements` is the list of tables that
`InvalidateEphemeralState` names. It is one query string without parameters, so one
implicit transaction: `InvalidateTable` is one of its statements, which marks the rows
of its table that its own snapshot shows (`doomed`), and `Invalidate` the commit, when
they are all dead at once. A crash or an error before that leaves them as they were; a
statement, or a `RevokeRow`, that meets a row another transaction has marked waits. What
a request inserts into a table already passed is not looked at any more (`Passed`,
`late`). Which row a request may issue on which other is not kept: any on any; and what a row has
turned into outside these tables (an account, an active passkey) is not followed.
`bootstrap_tokens` is not in the list. A restored link stays good until its fifteen
minutes are over, and what it is good for is in `Accounts`; an account registered with
it counts as a sign-in. `Restore` is not in the repository and is modelled as its manual
asks: the service is stopped and the dump replaces the database.


## 3. What is checked

All instances are finite without a state constraint, because a row is used once.
Where a clock or a count would not end it has a bound of its own (`MaxTime`,
`MaxCount`, `MaxFaults`), which guards the action that counts. `Grants` and `Forward`
start with any accounts, addresses and policies, and no request under way; `Accounts`
and `Startup` start from an empty database; `Ceremonies` with the users `Start`;
`Consent` with any client, trusted or not, and any preapproval, signed out. Deadlock is checked, except where
identifiers, mails or time run out and the system of the instance really stops:
`Accounts`, `Ceremonies`, `Consent`, `Clients`, `Limiter`, `Startup`, `Emails`.

| Run | Instance | Checks |
|---|---|---|
| `MCGrants_redeem` | 1 user, 2 clients (1 trusted), 1 session, 1 code, 2 redemptions, 1 transaction | `TokenStaysWithClient`, `ImplementsOneTimeGrant` |
| `MCGrants_withdraw` | 1 user, 1 client, 1 address, 1 redemption, 2 transactions, addresses edited | `AdmittedUnlessLate`, `WithdrawalCovers` |
| `MCForward_race` | 2 hosts, 1 ticket, 2 cookies, 1 request, 2 transactions, addresses edited | `AdmittedUnlessLate`, `ImplementsOneTimeGrant`, `PassNeedsOwnTicket`, `SignedOutIsOut` |
| `MCCeremonies_grace` | 2 users and 1 to register, 3 challenges, 3 finishes, 2 mails | `MadeAsBegun`, `RestoredStartsClean`, `ImplementsOneTimeGrant`, `ImplementsGracePeriod` |
| `MCConsent_prompts` | 2 requests, 1 scope, 9 combinations of prompt and max_age | `PromptsKept`, `OneSubject`, `SilentOnlyAgreed`, `RequestsEnd` |
| `MCRecovery_passkeys` | 3 passkeys, 2 recoveries, 1 session, 2 requests | `OneRecoveryUnderway`, `ReplacementWaits`, `RevokedPasskeySignsOut`, `LastPasskeyGoes`, `ImplementsGracePeriod`, `RecoveryEnds` |
| `MCAccounts_users` | 2 users, 2 links, 2 requests | `DemotionKeepsOne`, `LastAdminLeaves`, `LinkMakesOne`, `ImplementsGracePeriod`, `DeletionHappens` |
| `MCEmails_links` | 2 users, 3 addresses, 3 links, 2 requests | `EmailsTypeOK`, `ProvenAddress`, `LoserIsTold` |
| `MCClients_rotate` | 2 forms, 3 rotations, 1 address, overlap of 1, time up to 3 | `OneUnending`, `SupersededDies`, `ShownServes`, `ShownIsListed` |
| `MCLimiter_window` | 2 keys, 2 callers, limit 2, duration 2, map of 1, time up to 6 | `ImplementsFixedWindow`, `RefusedForCause` |
| `MCStartup_migrate` | 1 server, 1 operator, a token, a code and a bootstrap link, 2 migrations, 3 faults | `OnceInOrder`, `PastMigrateSeesAll`, `RestoredIsDead`, `ServersServe` |
| `MCGrants_x_session` | 1 of everything | `TokensDieWithSession`, which fails |

The type invariant of `Emails` is run because it also says that no address belongs to
two accounts; those of the other modules are proved instead. Every property has a
mutant, an action or helper with a plausible bug, under which it fails.

### What the properties say

- **One use.** `ImplementsOneTimeGrant`: a code, a ticket, a challenge is redeemed
  at most once, whoever races for it, and what it bought stays dead once it is
  dead. `TokenStaysWithClient`, `PassNeedsOwnTicket`, `MadeAsBegun`: what it buys is
  for the client, host, operation and account it was made for, although it is
  consumed before that is compared. `LinkMakesOne`: a bootstrap link makes one
  administrator.
- **Withdrawal.** `AdmittedUnlessLate`: a live token or cookie belongs to someone
  the rules admit, but for requests overtaken by the change. `WithdrawalCovers`: a
  withdrawal leaves none of the tokens it looked at to users it locks out.
  `SignedOutIsOut`: no request passes a host that came after its session ended.
- **Consent.** `PromptsKept`: `login`, `consent`, `none` and `max_age` are honoured
  through the round trips that drop them from the URL. `SilentOnlyAgreed`: a code
  without a screen is for preapproved scopes of a trusted client, or for scopes the user
  has agreed to, after an agreement since the last revocation, or since the last one
  before its consent was looked at. `OneSubject`: racing
  first requests tell the client one subject. `RequestsEnd`: no loop without exit.
- **Recovery.** `OneRecoveryUnderway`; `ReplacementWaits`: a replacement passkey is
  useless before its recovery completes; `RevokedPasskeySignsOut`: a lost passkey
  leaves no session behind; `LastPasskeyGoes`: the two ways, and no others, in which
  an account loses its last usable passkey; `RecoveryEnds`.
- **Waiting.** `ImplementsGracePeriod`: a deletion, or a recovery, is carried out only
  after the whole time that was announced for it, a time that began with this
  announcement; not once it was called off, though the finalizer works off a list it
  read earlier and links of earlier deletions are still about; and it is not undone.
- **Accounts.** `DemotionKeepsOne` and `LastAdminLeaves` say in which ways, and no
  others, the last administrator can go. `DeletionHappens`. `RestoredStartsClean`: an
  account comes back without its old sessions. `ProvenAddress`: an address was
  opened by its holder. `LoserIsTold`: an address that goes is told, unless the request
  that replaces it has looked too early, or failed to.
- **Secrets.** `OneUnending`, `SupersededDies`, `ShownServes`: of any number of
  rotations at once, one secret lasts, the others end a day after they were first
  superseded, and none that was shown ends before. `ShownIsListed`: who sees the
  secret of a new client has its whole allowlist.
- **Limiter.** `ImplementsFixedWindow`: a window that still counts is never
  forgotten and lets no more than its limit through, though clocks are read before
  the mutex. `RefusedForCause`: nobody is locked out by trying again.
- **Startup.** `OnceInOrder`, `PastMigrateSeesAll`: each migration once, in order,
  recorded, before anything is served; `RestoredIsDead`: no restored row of the tables
  that hold sessions, codes, tokens, challenges and recoveries is good after the
  invalidation, nor what was issued on one, but for requests that were under way;
  `ServersServe`: a crash leaves no start hanging.

### Why the bounds are enough

The properties are about a pair of operations that overlap, and at most one more
that undoes or outdates what they did. Two redemptions, cookies, finishes, links
or rotations give the pair; the third passkey, challenge, address or rotation gives
the one that was overtaken. Two transactions are needed for a change that
overlaps a change; two hosts or clients for a code presented in the wrong place;
three rotations for a secret that is superseded twice; a map of one window and two
keys for a purge; a limit of two for a window that is neither empty nor full. A server
and an operator are two processes that migrate, and three faults a restore, a crash and
another restore; the token's table is invalidated before that of the code it is
issued on, which is the order in which one can be missed. What
is proved (section 4) does not depend on the bounds at all.

### Fairness

- `RecoveryEnds`, `DeletionHappens`: the maintenance goroutine runs on a
  `time.NewTicker` of a minute for as long as the process does
  (`cmd/claustra/main.go`). So reading the list is weakly fair, and
  time passes. A round may fail at any item and the next starts anew, so an item is
  strongly fair: it succeeds if it is tried again and again.
- `ServersServe`: a process that can go on does, and `nix/module.nix` has systemd
  restart a server that died. An operator's command owes nothing.
- `RequestsEnd`: the server answers, and the user follows its pages. It assumes that
  from some time on the session neither ends nor becomes too old again, and can be read.

Nothing else is fair: users need not come back, and requests may be lost anywhere.

### What the code does not keep

`MCGrants_x_session` fails. `/token` stores no `SessionHash`, so `RevokeSession` and
`RevokeOwnedSession` find no token to revoke; the integration test wants them
revoked and passes, because it sets the hash itself.

The passing properties name their exceptions, and each exception can be reached:

- a token or cookie made between the admission check and the insert, while the
  rules change, stays; so it may when two withdrawals overlap, or when the user
  changes the address (`late` in `Grants` and `Forward`);
- two revocations that have both counted two passkeys leave none; a recovery
  cancelled after the finalizer has read its list costs the account every passkey, and so
  may a finalizer whose predecessor did that (`LastPasskeyGoes`);
- a login overtaken by the revocation of its passkey, or by the scheduling of its
  account's deletion, keeps its session (`late` in `Recovery` and `Ceremonies`);
- administrators that leave together, or one that leaves while another is scheduled
  for deletion, may leave none; and so may the last one if the query of `IsAdmin` or of
  `IsLastAdmin` fails, because both then answer no (`LastAdminLeaves`);
- an address is replaced and nobody told if `UserByID` fails in `emailVerify`, or if
  another request has replaced it in between (`LoserIsTold`);
- a consent revoked between `ConsentCovers` and the `INSERT` of the code still makes
  that code (`SilentOnlyAgreed`);
- a user whom `roles.granted_by` or `created_by` of a client or host refers to cannot
  be deleted, and the error ends the round for everyone after it. `DeletionHappens`
  assumes that no condemned account is referred to, and says nothing about the
  accounts behind one that is;
- two bootstrap links used at once make two administrators;
- a link that cancels a deletion is good for a later deletion; a recovery link
  mailed before the last one enrols a passkey that no recovery ever activates;
- a request under way may issue, on a restored row, one that outlives the
  invalidation: into a table whose statement has run, or after the commit
  (`RestoredIsDead`; the manual has the service down meanwhile);
- bootstrap links are not invalidated: one that was good when the dump was taken is good
  after the restore, until it expires, if there is no administrator.

Where documents say more than the code does:

- `README.md:111` has "prompt=none never renders a page"; a user the client does not
  admit is shown the page of `denyService`. `NoneActsAlone` says what holds: no page
  to act on.
- `claustra-design.md:144` has revocation of consent invalidate "future silent
  grants"; `GrantConsent` clears `revoked_at` and keeps the old scopes, so agreeing
  to one scope again brings all of them back. `SilentOnlyAgreed` says what holds.
- `claustra-design.md:157` has expanded consent require recent authentication;
  `authorizeConsent` does not ask for it, nor does it look at `max_age` again.
- `README.md:106-109` leaves it to the client to check `auth_time`: `CodeIsFresh` is
  about users who follow the pages.

## 4. What is proved

Each theorem is about a module's `Spec`, for all values of the constants that satisfy
the assumption of its module: `None` is not one of the identifiers
(`GrantsAssumption`, `ForwardAssumption`, `RecoveryAssumption`, `AccountsAssumption`,
`CeremoniesAssumption`, `ClientsAssumption`, `LimiterAssumption`, `StartupAssumption`,
`EmailsAssumption`, `ConsentAssumption`), identifiers of different kinds that name the
same sort of row are different, numbers are numbers, in `Accounts` there are finitely
many users, because they are counted, and in `Consent` a prompt is a set of values of
which `none` stands alone.

`Emails` and `Consent` share a proof module with another component. So that one module
can extend two specifications, theirs are called `EmailsSpec` and `ConsentSpec`, and
so with `Init`, `Next`, `TypeOK`, and `Null` for `None`.

| Module | Theorem | States |
|---|---|---|
| `GrantsProofs` | `TypeCorrect`, `OneTokenPerCode` | types; `CodeBuysOneToken` |
| | `TokenKeepsClient`, `TokensAreAdmitted`, `WithdrawalsCover`, `GrantsAreOneTime` | `TokenStaysWithClient`, `AdmittedUnlessLate`, `WithdrawalCovers`, `ImplementsOneTimeGrant` |
| `ForwardProofs` | `TypeCorrect` | types |
| | `PassAtOwnHost`, `PassOnlySignedIn`, `TicketsAreOneTime`, `CookiesAreAdmitted` | `PassNeedsOwnTicket`, `SignedOutIsOut`, `ImplementsOneTimeGrant`, `AdmittedUnlessLate` |
| `CeremoniesProofs` | `TypeCorrect`, `ChallengeServesItsOwn`, `RestoredIsClean`, `ChallengesAreOneTime`, `GraceIsKept` | types; `MadeAsBegun`, `RestoredStartsClean`, `ImplementsOneTimeGrant`, `ImplementsGracePeriod` |
| `RecoveryProofs` | `TypeCorrect` | types |
| | `OneRecovery`, `ReplacementIdle`, `RevokedSignOut`, `LastPasskey`, `DelayIsKept` | `OneRecoveryUnderway`, `ReplacementWaits`, `RevokedPasskeySignsOut`, `LastPasskeyGoes`, `ImplementsGracePeriod` |
| `AccountsProofs` | `TypeCorrect`, `DemotionsLeaveOne`, `LastAdmin`, `LinksMakeOne`, `GraceIsKept` | types; `DemotionKeepsOne`, `LastAdminLeaves`, `LinkMakesOne`, `ImplementsGracePeriod` |
| `ClientsProofs` | `OneSecretUnending`, `SupersededSecretsDie`, `ShownSecretsServe`, `ShownFormsAreListed` | `OneUnending`, `SupersededDies`, `ShownServes`, `ShownIsListed` |
| | `ConsentTyped`, `PromptsAreKept`, `SubjectIsOne`, `SilenceIsAgreed` (of `Consent`) | types; `PromptsKept`, `OneSubject`, `SilentOnlyAgreed` |
| `LimiterProofs` | `TypeCorrect`, `LimiterIsFixedWindow`, `RefusalsHaveCause` | types; `ImplementsFixedWindow`, `RefusedForCause` |
| | `AddressesTyped`, `AddressesAreProven`, `LosersAreTold` (of `Emails`) | `EmailsTypeOK`, `ProvenAddress`, `LoserIsTold` |
| `StartupProofs` | `TypeCorrect`, `MigratedOnce`, `MigratedFirst`, `RestoredStateDies` | types; `OnceInOrder`, `PastMigrateSeesAll`, `RestoredIsDead` |

The arguments. No property is inductive as it stands; this is what is added to it.

- **Grants.** Which columns are never `NULL` at which program counter (`RowTypes`); a
  burned code names its redemption (`Bound`, `CodeInv`), so two redemptions of one
  code, or one with the wrong client, cannot both be past the burn. For the rules,
  `Coverage`: a redemption past its check that is not `late` is admitted
  (`CheckedUnlessLate`), and an open withdrawal that has done its `UPDATE` vouches
  for every token that its change locks out and that it could see
  (`WithdrawalsVouch`). A change of the rules either only widens them (`Widened`,
  `CoverageKept`), or its transaction vouches when it revokes (`RevokeVouches`) and
  makes good on it when it commits (`CommitCovers`). The refinement maps each action to
  a step of `OneTimeGrant` or to none; a commit is `Drop` because a dead token never
  comes back (`DeadDrops`).
- **Forward.** The same `Coverage`; and a ticket, its cookie and the request that
  verified it agree on the host (`OwnTicket`, `Verified`).
- **Ceremonies.** A taken challenge names the finish that took it (`Taken`), a finish
  is where its operation may be (`Stages`, `Begun`), and makes what it was begun for
  (`Makes`). An account that may still be restored has only sessions of overtaken
  finishes (`OnlyLate`): scheduling ends the others, and afterwards only `late` ones
  can open any.
- **Recovery.** The state of a recovery decides that of its replacement (`Fate`),
  no two recoveries share one (`OwnReplacement`), the finalizer's list holds
  recoveries that are in quarantine or were cancelled since (`Listed`), and what
  logins and revocations read still holds unless they are in `late` (`LoginsHold`,
  `CountsHold`).
- **Accounts.** While a demotion holds the advisory lock, an administrator it
  counted loses the role only with the account (`Counted`); it counted two
  (`TwoOfMany`, from the library's theorems about cardinality), and demotes one. A
  user who leaves was not the only one counted, unless a query failed (`Leaving`). The link of an open
  registration is not used, and no other open registration has it
  (`Registering`).
- **Clients.** From `SELECT ... FOR UPDATE` to the commit no other rotation
  writes, so the rows that get an end are all rows there are at the commit
  (`HitsRows`).
- **Limiter.** No window and no caller's stamp is later than the clock; so a window
  the purge drops is over by the clock, whoever's stamp it used. And the attempts a
  window has counted, up to the limit, are the latest that were let through, none
  from before it began (`Reached`).
- **Startup.** The advisory lock is held exactly while its process migrates, and
  what is applied is a prefix of the migrations, the one being applied its next. Of the
  tables an invalidation has passed, every restored row that is good is marked or late
  (`SweptInv`); at the commit it has passed every table but `bootstrap_tokens`
  (`EveryTable`, which would fail for a list that forgot one), and requests with a
  restored row in their hands are late from then on (`RestoredInv`).

- **GracePeriod.** In each of the three modules the argument is the same. No account
  that is not to go, and no recovery whose quarantine has not begun, has its time up
  (`Timed`), so that whatever is announced has all of its time before it; and there
  are few ways in which an account or a recovery changes in a step (`OneAccount`,
  `OneStep`). What is on a finalizer's list has its time up. For a deletion nobody can
  take that back, for a recovery the item looks at the state again.
- **Emails.** A verification under way has opened a link of its account for the
  address it will write (`Opened`), so what it writes is proven two statements later.
  A request that is not in `late` and whose query was answered has seen the address there
  is (`Sees`), so the
  notice goes to the one that is replaced; and a step that replaces an address puts
  into `late` every other request that has looked. Rows and requests have their
  account and address when they need them (`Addressed`).
- **Consent.** `Sound` is about a single journey: what stepUp took out of the URL, a
  ceremony has paid for (`bounced`, `anew`), what is left in it has been looked at
  once the journey is past that check, and a journey with `none` is on no page. One
  lemma (`JourneyMoves`) shows that a step of one journey that keeps it sound keeps
  the invariant, so that each action is looked at alone; only sign-out and a ceremony
  reach into other journeys, to spoil their open screens and to note that they were
  paid for. `Agreed`: the row of consent has no scope that was never agreed to, and
  stands only by an agreement since the last revocation. `Vouched`: a journey past
  `ConsentCovers` asks only for what was preapproved or agreed to, and an agreement is
  still in force unless the journey is `late`, because a revocation marks every journey
  that is between the look and the code. That is all `SilentOnlyAgreed` says, and by
  `GrantConsent` no more is true.

Only model-checked is liveness (`RecoveryEnds`, `DeletionHappens`, `ServersServe`,
`RequestsEnd`), because what is true under fairness is about enabledness, which the
prover does not handle. Every other property of every passing run is proved.

## 5. What is left out, and the plan

Left out of every module: the cryptography of WebAuthn and of PKCE (a check has an
outcome); hashes, signatures and CSRF values, but for the one `Consent` follows
(`same`); rows of the audit log, which nothing reads to decide; and `Cleanup`, which
deletes rows that no statement would find any more.

Not modelled:

- *Keys and tokens on the wire*: signing, JWKS and the ID token are functions of one
  row; discovery and `/userinfo` read.
- *Profile and avatars*: one row replaced by one statement, and the decoding of images.
- *Mail, pages and configuration*: templates, SMTP and parsing. That a mail may be
  lost is part of `Emails` and `Ceremonies`.
- *Packaging*: Nix expressions and the manual. What they say about restarts and
  restores is in `Startup`.

Partly modelled: *codes and tokens*, of which `/userinfo` is read-only and left out,
and PKCE and the binding of a redirect URI are one comparison that may fail.

No property is stated about a code that outlives the consent or the account status it
was issued under: `Grants` has those transitions, but nothing in the repository says
what a code already issued may still do. A consent screen posted under another
session is excluded by the CSRF value alone, and `Consent` has one user.

What would come next: scopes in `Grants`, so that it and `Consent` share the row of a
consent; and a statement, proved of `Accounts` and `Ceremonies` together, that what the
one takes of the other's table (the status of an account) is what the other does with it.
