# A verification development of epok_auth

epok_auth is an authentication library: accounts with passwords, rotating refresh sessions, email
links, Google sign-in and passkeys, over PostgreSQL. This directory holds TLA+ models of its
services, the TLC runs that check them on small instances, and TLAPS proofs about them.

## The system

Paths are relative to `src/epok_auth/` in the repository.

| component | code | state it keeps | operations | interacts through |
|---|---|---|---|---|
| Password and session service | `_service_sessions.py`, `sessions.py` | rows of `refresh_session`; `failed_login_attempts`, `locked_until`, `password_hash` of an account | login, reauthenticate_password, authenticate, refresh, logout, change_password | the account row, taken FOR UPDATE before everything else |
| User administration | `_service_users.py` | `user_account` | create_admin, create_user, update_user, reset_password, revoke_user_sessions | the account row; an advisory lock for the administrator rule; revokes session rows |
| Email links | `email_links/` | `email_link` rows: pending, active, failed, consumed, revoked | request, invite, mark_delivered, mark_delivery_failed, login, reset_password, activate_invitation | account row then link row; a mail queue and a worker outside the process |
| Account activation | `email_links/activation.py` | pending accounts and their links | provision, ensure_initial_admin, replace, activate | the same link rows; the advisory lock |
| Google sign-in | `google/` | `external_identity`, `google_challenge` | begin and finish of login and link, recover | challenge consumed in a transaction of its own; identity row, account row, session row; starts again after a uniqueness conflict |
| Passkeys | `passkeys/` | `passkey_credential`, `passkey_challenge` | begin and finish of registration, authentication and reauthentication; revoke, list | challenge consumed in a transaction of its own; passkey row, account row, session row |
| PostgreSQL store | `postgres/` | the tables and their constraints | one method per statement | READ COMMITTED transactions, row locks |
| In-memory store | `testing/memory.py` | the same tables | the same methods | one lock, a snapshot restored on error |
| FastAPI layer, tokens, passwords, settings, errors, migrations, CLI | the rest | none that changes between requests | | calls into the services |

What is hard about it: every handler reads its clock before it waits for a row lock and works with
that old time afterwards; requests run concurrently in one process and in several; the order in
which rows are locked is a convention repeated by hand in every handler; transactions fail half
way; mail jobs are delivered at least once; challenges are consumed in a transaction that commits
before the one that uses them. `hazards` in `PROJECT.json` lists each of these at its line.

What makes each component correct:

* sessions: a family of refresh rows is revoked as a whole; a refresh token works once and its
  second presentation ends the family; rotation extends nothing; losing the right to authenticate,
  or replacing the password, ends every session at once (the code makes two exceptions, which
  `Sessions` states: a family `revoke_user_sessions` tears, and Google's auto-link);
* email links: one active link per account and purpose, consumed once, and only while the account's
  security version is the one it was issued for; a failed mail leaves the previous link alone;
* accounts: an active administrator always remains; the initial one is made once; no activation or
  disabling is undone by a request that works on an older copy of the row;
* passkeys: a challenge leads to one success; a signature counter never goes back; an account has
  room for a fixed number of passkeys; what a ceremony verified is still so when it commits;
* Google: every account keeps a way in; a session that came in through an identity ends with it; an
  identity comes only with the consent of the account or of its administrator;
* all of them: locks are taken in one order.

## Modules

| module | what it is |
|---|---|
| `SessionAuthority` | abstract: which families are open for whom, and what may open or close them |
| `Sessions` | the password and session service, one action per handler branch |
| `SessionTransactions` | the same handlers for one account, one action per SQL statement |
| `EmailLinks` | email links and account activation: issue, queue and worker, consumption |
| `RowLocks` | the locks of PostgreSQL, shared by the three modules below |
| `Passkeys` | the passkey ceremonies, revocation, and what else takes the account or session away |
| `Google` | login, linking and recovery with Google, and what else changes the account |
| `Administrators` | the accounts under the advisory lock: bootstrap, creation, update, activation |
| `SessionsProofs`, `SessionTransactionsProofs` | theorems about `Sessions` and about `SessionTransactions` |
| `SessionAuthorityProofs`, `SessionsRefinement` | theorems about `SessionAuthority`, and that `Sessions` implements it |
| `AdministratorsProofs`, `PasskeysProofs`, `EmailLinksProofs`, `GoogleProofs` | theorems about those modules |
| `MCSessions`, `MCSessionTransactions`, `MCEmailLinks`, `MCPasskeys`, `MCGoogle`, `MCAdministrators` | finite instances for TLC |

### SessionAuthority

No tokens, rows or clocks: accounts that are *barred* from authenticating, the families *open* for
each account and the families that are *closed*. An authentication opens a family for an account
that is not barred; a family closes for good; barring an account closes everything it has in the
same step; a password change exchanges all its families for a new one. One operation promises less:
`CloseSome`, for `revoke_user_sessions`, ends any of an account's families. It is a step only where
`SomeRevoked` is true.

### Sessions

`users` and `sessions` are the two tables, restricted to the columns the handlers decide on.
`clock` is the latest time any worker shows; a handler's `now` is any of the last `MaxLag` ticks,
which covers both a handler that waited for its row and a worker whose clock is behind.
Every handler but one holds the account row from its first decision to its commit, so it is one
action. `revoke_user_sessions` holds no lock on the account and is two: `RevokeUserSessionsBegins`, when
its `UPDATE` takes its snapshot of the account's rows (`revoking`), and `RevokeUserSessionsEnds`, when
the rows of that snapshot, and not those inserted since, are committed as revoked. Any handler may run
in between, and a cancelled request never ends. What its statements wait for is in
`SessionTransactions`.

What each handler does follows the code branch by branch:

* `refresh` is `RefreshEndsFamily` (token already used, deadline passed, or account without
  standing; the last is behind the CSRF check, as in the code), `RefreshRotates`, or `RefreshRefused`
  for a token whose row is revoked, used or not; an unknown token changes nothing;
* `_record_password_failure` is `RecordPasswordFailure`, shared by login and reauthentication: it
  forgets the count of an expired lock, counts, and at the limit locks and revokes;
* logins by email link, Google and passkey end in the same way (`LoginWithoutPassword`): an account
  that can authenticate, under its row's lock, gets a session. Their own checks are in `EmailLinks`,
  `Google` and `Passkeys`;
* Google's auto-link (`AutoLink`) is a login that first replaces a temporary password by an unusable one
  (`DisablePassword`), which clears the failures and the lock and advances the version like every
  replacement, and revokes no session;
* the handlers that replace a password and revoke are `ReplaceAndRevoke` with the method of
  `UserAccount` they call: `ResetPassword` (the administrator's, and Google's recovery), `ResetByLink`,
  `ActivateInvitation`. `ChangePassword` revokes and begins a new family.

The history variables say what the tables have forgotten: the password in force when a row's family
began (`credential`), the rows whose token was presented again after its exchange (`replayed`), the
families of which a `revoke_user_sessions` revoked a part (`torn`), and the accounts whose present
password the auto-link put in place (`autoLinked`). The properties name the two exceptions the code
makes with them: a torn family is neither whole nor ended by a replay, since the replay of a revoked
token is refused and the successor left behind stays alive; and a session begun under a temporary
password outlives the auto-link that disables it, though not the replacement after that. The
refinement is to `SessionAuthority` with `SomeRevoked`, and says in addition (`Whole`, the authority
without it) that no step but the commit of `revoke_user_sessions` ends some of an account's families
and not others.

Password hashes are numbers that grow with each replacement. An account whose password login is off
has a random hash nobody knows, so its current password never verifies.

### SessionTransactions

One account, its session rows, and a set of requests that each run one transaction. A locked row has
an uncommitted version (`draft`); other requests read the committed one. An `UPDATE` fixes the rows
it will visit when it starts and then locks and changes them one after another, in an order the
database chooses. `Commit` includes the insertion of the security event, whose foreign key needs a
key-share lock of the account row. `Rollback` can happen after any statement: a refusal, a cancelled
request, a lost connection, or a deadlock victim.

A handler works on the copy of the account it read (`seen`) and writes all of it back, as
`update_user` does. Whether a token has expired is free here; `Sessions` has the deadlines.
A `Process` performs one request, so the number of processes bounds the requests. `Ops` is the set of
handlers an instance runs; `reauthenticate_password` and `reset_password` are not among those modelled
by their statements. A refresh inserts the successor and marks the presented row in one action: both
are uncommitted until the request ends, and vanish together if it fails.

### EmailLinks

`accounts` and `links` are the two tables. What a link row lost to retention said stays in the model
for the properties, in state `deleted`, which every handler treats as no row. Issue, `mark_delivered` and
consumption hold the account row from their first decision to their commit, and
`mark_delivery_failed` is one conditional `UPDATE`; each is one action. What is not atomic in the code
is not atomic here:

* a link is issued (`Request`, `Provision`), handed to the queue (`Dispatch`, or a crash, or an error
  that may come after the queue took the mail), sent by the worker (`Send`, which may raise although
  the mail left) and marked (`MarkDelivered`, `MarkDeliveryFailed`); the worker may die in between and
  the queue hands the job out again (`Redeliver`; with `AckLost` also after it was finished);
* `reset_password`, `activate_invitation` and `activate` check the link (`Check`), hash a password, and
  check again in their transaction (`Complete`). `checked` holds the requests in between, with the
  `now` they read at the start.

`StillGood` is what `deliverable_link` and `matches_user` have in common: not expired, the security
version unchanged, the account eligible for the purpose. The recipient hash is left out, since no
operation changes an address. `TimesInOrder` is the table's CHECK on its times, which makes a worker
whose clock is behind the link's creation fail. Password login, password change, lock, administrator's
reset and `update_user` appear with what they do to the account row and to `live`, the accounts with an
unrevoked session; `Sessions` has them in full. `awaiting` and `issuedTo` are history variables.

`AcceptedLinkWorks` says that the newest link, once the provider accepted its mail and the worker
confirmed it, works until something outdates it. Its exception is `ReportedFailed`: the dispatch raised
although the queue took the job, or an earlier attempt of the job was reported failed. Either has
marked the link `failed`; the job is sent all the same, `mark_delivered`
(`email_links/service.py:119`) leaves a failed link as it is, and the mail carries a dead link.
`docs/MAGIC_LINKS_ES.md:186` promises the activation when the provider accepts the mail, without this
exception. The property shows that it is the only one while the queue repeats no finished job.

### RowLocks

`holder` says which transaction has each lock: the rows of a module's tables and, in
`Administrators`, the advisory lock. `Take` waits while another transaction has it, `ReleaseAll` is the
end of a transaction, and `Deadlocked` finds a group of transactions that wait only for each other. In
the three modules that use it a transaction applies its writes when it commits. It holds the lock of
every row it writes, so nobody can tell this from applying them statement by statement; the plain
reads they make of rows that others may hold (counts, and the owners of a subject) see committed rows,
as under READ COMMITTED. An insertion takes the lock of the key it inserts, and a second one of the
same key waits, then conflicts.

In each of them a request goes through the statements `Order` lists for its operation; an `Arrive`
action is the request with what was read before its transaction, and `Abort` is a cancelled request, a
lost connection or a stopped process at any point. A handler works on copies (`user`, `stored`) and
writes them back whole, as `update_user` and `update_passkey` do.

### Passkeys

One row per credential, one per challenge, one per session (standing for its family). A request that
begins a ceremony deletes expired challenges and stores one; a request that finishes one is `Consume`,
a transaction of its own, and then the deciding transaction: passkey, account, verification, session.
Expiry of a challenge, recency of the session, origin, signature, device type and user handle are
choices of the environment; the counter of the response is too, and `CounterGrows` is the rule of the
WebAuthn library for it (`counter` must grow unless it never was in use). A consumed challenge and a
deleted one are both `closed`, since no statement finds either. `outcomes` is a history variable.
Disabling stands also for the lockout, which revokes in the same way, and nothing enables an account
again here; `Sessions` and `Administrators` do. Events that record a failure are audit rows only: the
locks their foreign keys take, and the row locks of the deletion of expired challenges, are left out of
`NoDeadlock`.
`finish_registration` does not read its session again in the deciding transaction, unlike
`finish_reauthentication`; `DecisionsHold` asks for a live session of the latter only.

### Google

An account stands for its address, a subject for the identity row it would have. The password is
`temporary`, the owner's `own`, or `disabled`, which is what `must_change_password` and
`password_login_enabled` decide. `FinishLogin` and `FinishLink` consume the challenge; the deciding
transaction locks identity, account and session, and goes by `Mode` where the subject is unknown:
refuse, link to a preauthorised account (`CanAutoLink`), or make one. `Conflict` is the rollback on a
uniqueness error and the second transaction that follows (`again`), in which a login needs the identity
to exist and a link only reads. `owners` and `bind` are two statements because the first is an unlocked
read. That an account has one identity at most rests on `ReadOwners` for a link, and for an auto-link
on the unique key of `external_identity`. Every reset of a password revokes the sessions of the account,
so the `must_change_password` test of `can_link` never decides alone. The initial accounts that are
there have a password, temporary or their own, or an identity. An account that only logs in by email
link, and a pending one, have neither and are left out: `AlwaysAWayIn` is no statement about them. `IdentityNeedsConsent` asks
for a live session of the account, whichever it is.

The authenticated principal, the challenge's storage and its consumption are single statements on
which nothing later relies, and are part of the arrival. `revoke_user_sessions` is left out of this
module and of `Passkeys`: the circle its waits can make is in `transactions_mixed`.

### Administrators

An account is its status and whether it has the administrator's role. `CreateAdmin` (also the command
line's) and `EnsureInitialAdmin` take the advisory lock, count, and insert; `UpdateUser` takes the
advisory lock, the account, and counts the active administrators if it takes one away. `CreateUser` and
`Provision` take no lock but the new row's; activation and password reset lock their account and write
it back, and stand for every such handler (password, links, passkeys, Google). The counts lock no row.
`bootstrapped` is a history variable. `update_user` counts only *active* administrators it takes away:
a pending initial administrator may be disabled, after which no administrator is usable and the
command line still refuses to make one, since it counts all; the properties say nothing against it,
and neither do the documents.

## Runs

| run | instance | shows |
|---|---|---|
| `sessions` | 1 account, 3 rows, clock to 2, lag 1, 1 `revoke_user_sessions` under way | all invariants, with their exceptions for torn families and the auto-link, and the refinement to `SessionAuthority` |
| `transactions_locked` | 2 requests, every handler that locks the account | families, rotation, absence of deadlock, refinement to `SessionAuthority` at commit granularity |
| `transactions_mixed` | 2 requests, all handlers but `change_password`, with `revoke_user_sessions` | no session survives a lockout or a disable; no lost update; `authenticate` is safe without locks; every request ends (liveness) |
| `transactions_revoke` | a refresh beside `revoke_user_sessions` | a violation, see below |
| `links_delivery` | 2 links, redelivery of anything, crashes | the newest mailed link wins whatever the order of confirmation; every mail settles (liveness) |
| `links_accounts` | 2 links of all purposes, 1 foreign account change | fencing, replacement, standing, states that only advance |
| `links_requests` | 4 links, clock to 4, no mail | the request limit with clocks that disagree and retention at work |
| `links_redelivered` | a confirmed job comes again | a violation, see below |
| `links_pending` | a pending account is disabled and enabled | a violation, see below |
| `passkeys` | 2 requests, 2 accounts, 2 credentials, 2 challenges, 2 sessions | one success per challenge, the limit, decisions that hold at commit, rows that only advance, no deadlock |
| `google` | 2 requests, 2 accounts, 2 subjects, 2 challenges, 2 sessions, mode `open` | a way in for every account, sessions that rest on an identity, decisions that stick, consent, no deadlock |
| `administrators` | 3 requests, 2 accounts | an administrator remains, one bootstrap, activations stick, no deadlock |

Bounds. Three rows are two rotations, or two families of which one was rotated, or a family that is
exchanged by a password change; a `revoke_user_sessions` that tears a family needs two of them.
`IdleTTL` 2 and `AbsoluteTTL` 2 make the idle deadline of a family's first row its absolute one, and
that of a row rotated at time 1 capped by it; `Lockout` 1 with a clock of 2 lets a lock begin, expire
and begin again; `MaxLag` 1 lets a handler decide with a time just before a lock began or ended.
`MaxPasswords` 2 is an auto-link and the replacement after it. One account is enough there because no handler reads another account's rows; the theorems
hold for any number. Two requests are enough for every pairwise interleaving and circular wait. Four
rows in the statement-level runs are the initial token and its successor plus the two rows two
requests can insert. Initially the family has been refreshed once there, so a request can present the
spent token, and the account may be one failure away from its lock.

Two links are a working link and its replacement, which is what every link property relates. The
queue hands a job out at most twice (`MaxAttempts`), once in `links_accounts`, where the account
changes instead: a failed dispatch is the exception to `AcceptedLinkWorks` that run reaches, an earlier
failed attempt is left to the theorem. `MaxVersion` 1 is one change by another service; consumption changes the version on
top. `links_requests` has a limit of two in a window of one tick, and four links; its `Retention` is
the window plus the lag, so that a worker whose clock is behind still finds the rows it must count.
`AuthSettings` only enforces that retention is not shorter than the window; with clocks that
disagree, the lag is needed on top.

In `passkeys`, `google` and `administrators` a request that has ended may begin again, so two processes
are every pair of operations in any sequence; three in `administrators` let two administrators remove
each other while a third request writes one of them back. `passkeys` has room for one passkey per
account (`MaxCredentials` 1) and a counter of 0 or 1 (`MaxCount`), the smallest values at which the
limit is met and a counter can go back; the initial states have any passkeys. `google` runs in the
`open` mode, whose paths include those of the two others, and starts from every combination of
provisioned, activated, open and absent accounts; administrators and owners act on one of the two
accounts (`Managed`), while Google's requests act on both. Two subjects and two accounts are what a
conflict needs. Two sessions are the one that asks and the one a login opens. TLC's deadlock check is
on for these three: a request that waits for nobody always goes on.

`TypeOK` of `SessionTransactions`, `Passkeys`, `Google` and `Administrators` documents the types and is
not in a run; all four are proved.

Fairness. In `transactions_mixed` a request that has begun keeps executing statements (weak
fairness of `Statement(p)`: the event loop runs every task and PostgreSQL queues lock waiters), and
the database's detector aborts one member of a deadlock (weak fairness of `Rollback` while
deadlocked). No request is obliged to begin, or to fail; `change_password` is left out of that run
because its refusal is a rollback. In `links_delivery` the worker takes queued jobs and finishes the
one it has (weak fairness of `Send`, `MarkDelivered`, `MarkDeliveryFailed`); nothing obliges the web
process to dispatch, nor users to act.

`CHECK_DEADLOCK FALSE` is set where requests end, or a clock or a queue is at its bound, and nothing
is left to do.

### What the violations show

`revoke_user_sessions` (`_service_users.py:278`) is the only revoking handler that does not lock the
account row. While a refresh holds the account and the presented row and has inserted the successor,
the `UPDATE` takes its snapshot, in which the successor does not exist, and waits for the presented
row. When the refresh commits, the `UPDATE` revokes the presented row and finishes. The successor
stays unrevoked, although the refresh committed before the revocation did: in no serial order would
it survive. `docs/USAGE_ES.md:714` says the operation revokes all the user's sessions. Reading the
account with `for_update=True`, as every other handler does, removes the behaviour: the handlers of
`transactions_locked` satisfy the same invariant, and `EndedFamiliesStayDead` proves it for any number
of requests and rows. The families this can happen to are the `torn` ones of `Sessions`.

`mark_delivered` (`email_links/service.py:126`) revokes every link it cannot activate, a link that is
active already included. `docs/MAGIC_LINKS_ES.md:224` has the worker confirm its job after `deliver()`
ends, so a worker that stops in between gets the job again; the mail is sent again and the second
confirmation revokes the link, which both mails carry. The document says that the link is activated
when the provider accepts the mail (line 186). `AcceptedLinkWorks` holds in `links_accounts`, where a
confirmed job does not come again; the links the violation is about were never reported failed.

`update_user` (`_service_users.py:174`) refuses to enable a pending account, but not to disable it, and
a disabled account does not remember that it was pending: enabling it makes it active without its
activation link. `docs/MAGIC_LINKS_ES.md:145` calls `pending_activation -> active` through the link the
only transition. Such an account has the random password of its creation and no login method until an
administrator gives it one.

## Proofs

Each proof module has an inductive invariant (`IInv`, or one per theorem), lemmas for what each write
or statement does, and short theorems that combine them. The invariants were checked by TLC on the
instances above before they were proved. Every theorem holds for all values of the constants that
satisfy the named assumptions of the modules.

### Sessions

From `TimingAssumption` (the order `AuthSettings` enforces) and `SentinelAssumption`:

* `TypeCorrect`: `Spec => []TypeOK`;
* `LiveSessionsHaveAccounts` and `SessionsEndWithTheirPassword`: `Spec => []NoSessionWithoutAccount` and
  `Spec => []NoSessionOutlivesPassword`. With the types they are inductive once it is known that an
  account whose password the auto-link put in place does not wait for a password change (`LinkedOK`):
  otherwise it could be linked again, and a session outlive two replacements. The arguments the code
  relies on are lemmas: what a late handler saw of a lock still holds (`StillStanding`), a counted
  failure that does not lock leaves the account as able as it was (`CountedStands`), and a family is
  opened under the password the account will have (`OpeningKeepsStanding`). `StandingKept` has one case
  per handler.

The second half of `SessionsProofs` reduces every handler to one of five writes of the table (rows are
revoked; a revoked token is refused; the family of a presented token ends; it is rotated; a family
begins) and shows that each keeps `RotationInv`:

* `FamiliesRevokedTogether`: `Spec => []FamilyRevokedTogether`. The property is not inductive alone.
  Revoking an account's rows could cut a family in two if a family had two owners, and a new family
  could join an old one if its name were taken: `FamilyOK` adds that a family's name is one of its rows
  and that this row has the family's owner; a commit of `revoke_user_sessions` may cut a family, and
  names it in `torn` (`RevokeRowsTears`). That the older rows of a torn family go first
  (`NewestLast`) needs `SnapshotsOK`: a snapshot under way has, with a row, every row it replaced, and so
  has every later table, since a rotation puts its new row at the end;
* `DeadlinesAreShared`: every row has the dates of the row its family is named after, so it is enough to
  compare a new row with the presented one;
* `RotationsAreChains`: rotation only extends a family at its one unused row, and its successor is a
  row that was not there;
* `ReplaysEndFamilies`: a token presented after its exchange is revoked (`ReplayedOK`), and with it its
  family, unless that is torn;
* `LocksAreFullCounts`: the accounts alone, one case per handler.

`SessionsRefinement` proves `SessionsImplementAuthority`, `Spec => ImplementsAuthority`: the mapping takes
the families with an unrevoked row as open and the others as closed. Lemmas say what each write does to
them and which abstract step that is. Every handler but `revoke_user_sessions` ends one family or all
families of an account (`StepIsAbstract` gives a step of `Whole`); the family a refresh or a logout ends,
and the one a refresh rotates, is open, torn or not, since the presented row is unrevoked. The commit of `revoke_user_sessions` ends some families
(`ClosesSome`): a family it tears stays open. `SessionAuthorityProofs` proves `AuthorityStaysSound` for
the abstract specification, with either value of `SomeRevoked`: `AuthorityIsSound` is inductive once the
variables have their types.

### SessionTransactions

From `OpsAssumption`, `LimitsAssumption`, `NullAssumption` and `SessionsAssumption` (the initial family
has two rows, so there are two identifiers). The argument is the one the code relies on: a request that
has the account row is the only one that commits. This is so even of `revoke_user_sessions`, which
locks no account, because its last statement inserts an event whose foreign key waits for the row. So
what a request has read of the account and of the committed sessions holds until it ends, and others
can only lock rows and give them up meanwhile (`OthersKeep`). The invariant `IInv` says

* of the tables (`Types`, `Rows`): what their types are, that an uncommitted version differs from its
  row only under a lock and never takes a revocation or a use back, and that a family is named after a
  committed row of its own;
* of each request: which statement of its handler it can be at (`Course`); that its copy of the account
  is the committed row, or the handler's effect on it once it has written (`Copies`); which rows it has
  locked and which inserted (`Drafts`); and of the families it ends, that each row is revoked or the
  request will still see to it (`Revokes`, with `Settled`).

There is a lemma for each statement (`BeginKeeps` to `TickKeeps`), and the theorems follow from
what a commit does to the committed rows (`CommittedRows`):

* `TypeCorrect`: `Spec => []TypeOK`;
* `RefreshesRotateOnce`, `LostStandingEndsSessions`: the two invariants are kept by each commit. A
  rotation commits on an unused row that it holds; a handler that takes the standing away has revoked
  every committed row (`LosingStanding`), and nobody inserts one meanwhile;
* `AccountWritesSerialize`: from `Copies`, although whole rows are written from copies;
* `AcceptancesAreCurrent`: `authenticate` holds no lock, and what it read of the account can be out of
  date. Then the session it reads next is revoked, for who took the standing away revoked the sessions
  in the same commit (`AcceptsAlways`).

* `TransactionsImplementAuthority`, `Spec => ImplementsAuthority`: a commit is a step of `SessionAuthority`
  (`CommitIsAbstract`), every other step leaves it alone. The commit of `revoke_user_sessions` is
  `CloseSome` (`RevokeUserSessionsIsAbstract`), which the authority has only when the handler is among
  `Ops`: a login or refresh that commits after its `UPDATE` began survives it, while the families
  before it end.

These hold with every handler. The other two assume `"revokeUserSessions" \notin Ops`:

* `EndedFamiliesStayDead`: the run `transactions_revoke` shows that it is false otherwise;
* `NoCircularWait`: who has a session's row has the account's, and who has the account's waits for nobody.
  With `revoke_user_sessions` two requests that revoke rows in opposite orders wait for each other.

### Administrators

`AdministratorsProofs` proves the four properties of the run `administrators`, and the types, for every
set of processes and accounts, from `NullAssumption` and `LockAssumption`. None of the four is
inductive. The invariant `IInv` says of each request, at each statement: it holds the advisory lock
from the statement after it (`createAdmin`, `ensureInitialAdmin`, `updateUser`); a request about to
write an account back holds its row and has its present value; one about to insert holds the key of a
row that is absent; an update that has counted knows of another active administrator; a bootstrap that
has counted knows that no account made by one is administrator. The last two speak of rows the request
has not locked, and are kept because another writer either holds the advisory lock, which it cannot, or
takes no administrator away and makes none out of an existing account. There is a lemma for each
statement and each commit (`LockAdminsKeeps` to `ResetKeeps`), and the theorems follow from the
commits:

* `AdministratorsRemain`, `BootstrapsAreOne`, `ActivationsStick`: the step properties, from what `IInv`
  says of a request at its commit;
* `NoCircularWait`: who holds an account waits for nobody, and who holds the advisory lock does not
  wait for it (`AllRest`, kept under `IInv`); a group that waits only for itself would contain, for
  any member, the holder of an account, or of the advisory lock and then of an account;
* `TypeCorrect`: the first part of `IInv`.

### Passkeys

From `LimitsAssumption`, `NullAssumption` and `RowsAssumption` (the identifiers of credentials are
finite in number; a row of one table is not a row of another). The invariant says where a request can
be (`Course`); what it holds and knows there (`Holds`: the rows it decides on, locked, in their present
values; for a registration also that the account still has room); and that a challenge is open, in the
hands of one request, or has had its outcome (`ChallengeOK`).

* `LimitHolds`: a registration counts under the account's lock, and only a registration that holds it
  adds a passkey of the account;
* `OneOutcome`: consuming a challenge closes it in the same step, and the one request that has it
  succeeds once or gives it up;
* `DecisionsStillHold`: nobody else writes a row that is held until the commit;
* `RowsAdvance`: what is written back is the row's present value with the one change the handler makes;
  a key nobody has yet has no count (`Vacant`);
* `NoCircularWait`: sessions are locked with their account in hand, so nobody in a group that waits only
  for itself waits for a session or for rows; who waits to insert a new passkey waits for one that
  commits; so nobody in the group waits for an account, nor, in the end, for a passkey (`NobodyIsStuck`).

### Email links

From `LinkAssumption` and `IdsAssumption` (finitely many identifiers). Every step changes the table of
links in one of five ways (`LinksMove`); `AccountsMove` and `MailMoves` say what becomes of the accounts
and of the mail.
The invariant: as long as a link's version is the account's, the account is as it was at its issue and
may still ask for such a link (`LinkOK`); a confirmed job's mail was sent and its link decided
(`MailOK`); generations are bounded, so that a new one exceeds its rivals' (`Bounded`); creation follows
generation, `MaxLag` aside (`InTurn`).

* `TypeCorrect`, `NewestLinkWins`, `SessionsStand`, `LinksAdvance`, `ConsumptionsAreFenced`: from `IInv`,
  without further hypotheses. The fence is `SameVersion`: whatever leaves the version alone leaves
  everything but a lock's time alone.
* `ReplacementsKeepOld` assumes `~AckLost`, the queue that does not repeat a finished job; the run
  `links_redelivered` shows that it is needed. An active link's job is then finished
  (`ActiveIsFinished`), so no confirmation finds it active.
* `AcceptedLinksWork` assumes `~AckLost` and `TTL + MaxLag <= Retention`. A failed link was failed by its
  dispatch or by a refused attempt, and a job confirmed after that was handed out again
  (`FailedIsReported`): the exception `ReportedFailed`. Only an outdated link is
  revoked (`RevokedIsOutdated`), and it stays outdated: where retention deletes the rival that outdated
  it, the lag in between has not kept it from expiring (`OutdatedStays`).
* `RequestsStayLimited` assumes `Window + MaxLag <= Retention`. A new request counts every other in its
  window, since none of them is old enough to be deleted even by a clock that is `MaxLag` ahead
  (`WindowIsCounted`). With `Retention = Window` the limit can be exceeded when clocks disagree;
  `AuthSettings` (`config.py:330`) allows that, its defaults (seven days, and a window of fifteen
  minutes) are far from it.

### Google

From `ModeAssumption`, `ManagedAssumption`, `NullAssumption` and `RowsAssumption` (subjects are finite in
number; a row of one table is not a row of another). The invariant has four parts: where a request can
be (`Course`); what it holds and knows there (`Holds`: its account's present value, whose identity a
known subject is, that a subject about to be inserted is nobody's and its account has none); that it
holds no lock its statements have not taken (`Rests`); and that the tables agree between commits
(`Tables`). The last follows from the second because an identity appears or goes only when a request
commits that holds its subject and its account. One lemma for each statement and each commit shows that
the invariant stays; `OneMoves` and `CommitKeeps` share what they have in common, that nobody else
notices.

* `TypeCorrect`: the first part of the invariant;
* `WaysInRemain`, `SessionsKeepTheirReasons`: from `Tables`. Only a recovery takes an identity away, and it
  sets a password and ends the account's sessions in the same commit;
* `DecisionsStand`: who commits holds its account with its present value (`CommitsStick`), and no handler
  makes of that value what the property excludes;
* `IdentitiesHaveConsent`: what a login or a link has read of the account and the session is still so in
  the state it commits in (`CommitsHaveConsent`), because it holds both;
* `NoCircularWait`: who waits for a session or for rows holds their account, and so does who holds the
  session; who waits to insert an identity waits for one that commits, or for a recovery that holds the
  account and only revokes sessions. So nobody in a group that waits only for itself has an account,
  hence nobody waits for one, hence nobody waits for a subject (`NobodyIsStuck`).

### Only model-checked

Liveness (`EveryMailSettles`, `EveryRequestEnds`) is beyond TLAPS here. Every other property of a passing
run is stated by a theorem, some under the hypotheses named above. The properties that runs show
violated are not theorems of the instances that violate them.

## Not modelled

Hashing, signatures, JWTs, CSRF and origin values (their verdicts are nondeterministic or assumed
good), event contents, HTTP and cookies, SMTP, schema migrations, prompts of the command line. Google's
and WebAuthn's verification are external libraries. The in-memory store (`testing/memory.py`) is one lock
and a snapshot restored on error: each handler is one step there, as in `Sessions` and `EmailLinks`. The
scripts under `scripts/` build and publish the package and are no part of the running library.

The statements of the email links are not modelled one by one. Two circular waits can be read off the
code there: a delivery failure locks the link and then, through its event's foreign key, the account,
while a confirmation of the same job takes them the other way round; and retention deletes links of
every account in the order the database chooses. PostgreSQL ends either by aborting a request, which
changes nothing, and no document promises their absence.

## Plan

1. `Sessions`, `SessionAuthority`, `SessionTransactions`, first proofs: done.
2. `EmailLinks`: done.
3. `Administrators` with its proofs: done.
4. `Passkeys`: done.
5. `Google`: done.
6. Lock order: done for sessions, passkeys, Google and administration. The links, statement by
   statement, are left.
7. Proofs: every invariant, every action property and both refinements are proved. Liveness is left to
   TLC.
