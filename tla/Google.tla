------------------------------- MODULE Google -------------------------------
(***************************************************************************)
(* Google sign-in over the PostgreSQL store, statement by statement:       *)
(* login, linking, recovery, and the retry after a uniqueness conflict,    *)
(* with the handlers that change the same account or its sessions:         *)
(* creation, preauthorisation, password reset and change, disabling,       *)
(* logout.                                                                 *)
(*                                                                         *)
(* An account stands for its e-mail address, which is unique and never     *)
(* changes: an absent account is an address nobody has yet.  A subject     *)
(* stands for the external_identity row it would have.  A session stands   *)
(* for its family.  A challenge names its client and nonce; the            *)
(* environment chooses which challenges expired, whether origin and        *)
(* credential are right, and what the credential claims: a subject and,    *)
(* if Google is authoritative for it, an e-mail address.  Reading the      *)
(* principal, storing a challenge and consuming one are single statements  *)
(* that nothing later relies on, and are part of the arrival.              *)
(***************************************************************************)
EXTENDS Naturals, FiniteSets

CONSTANTS
    Process,      \* concurrent requests
    Account,
    Subject,      \* Google's identifiers of its users
    Challenge,
    SessionId,
    None,
    Mode,         \* google_account_mode
    Managed       \* bound: the accounts that administrators and owners act on

AccountModes == {"linked_only", "preauthorized", "open"}

ASSUME ModeAssumption == Mode \in AccountModes
ASSUME ManagedAssumption == Managed \subseteq Account
ASSUME NullAssumption ==
    None \notin Process \cup Account \cup Subject \cup Challenge \cup SessionId

(* A subject has at most 255 characters, and the three tables share no row.  *)
ASSUME RowsAssumption ==
    /\ IsFiniteSet(Subject)
    /\ Account \cap Subject = {}
    /\ SessionId \cap (Account \cup Subject) = {}

VARIABLES
    accounts,    \* rows of user_account
    identities,  \* rows of external_identity: the account of each subject
    challenges,  \* rows of google_challenge
    sessions,    \* rows of refresh_session
    holder,      \* row locks
    request      \* the state of each request

vars == <<accounts, identities, challenges, sessions, holder, request>>

INSTANCE RowLocks WITH NoProcess <- None,
                       Lock <- Account \cup Subject \cup SessionId

-----------------------------------------------------------------------------
Finishing == {"finishLogin", "finishLink"}
Administering == {"preauthorize", "resetPassword", "disable", "recover"}
AllOps == Finishing \cup Administering
              \cup {"createUser", "changePassword", "logout"}

(* password: "temporary" while must_change_password, "disabled" while        *)
(* password_login_enabled is false, else the owner's "own".                  *)
User == [status: {"absent", "active", "disabled"},
         password: {"none", "temporary", "own", "disabled"},
         autoLink: BOOLEAN]

AbsentUser == [status |-> "absent", password |-> "none", autoLink |-> FALSE]

ProvisionedUser(autoLink) ==
    [status |-> "active", password |-> "temporary", autoLink |-> autoLink]

RequirePasswordChange(user) ==
    [user EXCEPT !.password = "temporary", !.autoLink = FALSE]

ActivatePassword(user) == [user EXCEPT !.password = "own", !.autoLink = FALSE]

DisablePassword(user) ==
    [user EXCEPT !.password = "disabled", !.autoLink = FALSE]

(* _create_open_user makes the account _link_and_login would leave.          *)
OpenUser == DisablePassword([AbsentUser EXCEPT !.status = "active"])

CanAutoLink(user) ==
    user.status = "active" /\ user.autoLink /\ user.password = "temporary"

(* Mutation: the session is not asked for again.                             *)
CanLinkAnyway(user, session) ==
    user.status = "active" /\ user.password # "temporary"

CanLink(user, session) ==
    /\ user.status = "active"
    /\ user.password # "temporary"
    /\ session.state = "live"

(* Consumed and deleted challenges are alike: no statement finds them again. *)
ChallengeRow == [purpose: {"unused", "login", "link", "closed"},
                 account: Account \cup {None}]

Unused == [purpose |-> "unused", account |-> None]

Closed == [purpose |-> "closed", account |-> None]

Open == {ch \in Challenge : challenges[ch].purpose \in {"login", "link"}}

(* via is the subject a session was opened with, None for a password.  What  *)
(* has been revoked is never valid again, whosever it was.                   *)
Session == [state: {"absent", "live", "revoked"},
            owner: Account \cup {None}, via: Subject \cup {None}]

Absent == [state |-> "absent", owner |-> None, via |-> None]

NewSession(a, subject) == [state |-> "live", owner |-> a, via |-> subject]

RevokedSession == [Absent EXCEPT !.state = "revoked"]

Fresh(s) == sessions[s] = Absent

Live(s) == sessions[s].state = "live"

LiveSessions(a) == {s \in SessionId : Live(s) /\ sessions[s].owner = a}

Subjects(a) == {x \in Subject : identities[x] = a}

Step == {"idle", "subject", "user", "create", "session", "owners", "bind",
         "rows", "commit"}

(* user is the copy of the account row; known: the identity was found;       *)
(* again: this is the transaction after a uniqueness conflict.               *)
Request ==
    [op: AllOps \cup {"none"}, pc: Step, account: Account \cup {None},
     session: SessionId \cup {None}, challenge: Challenge \cup {None},
     subject: Subject \cup {None}, user: User, known: BOOLEAN, again: BOOLEAN]

Idle == [op |-> "none", pc |-> "idle", account |-> None, session |-> None,
         challenge |-> None, subject |-> None, user |-> AbsentUser,
         known |-> FALSE, again |-> FALSE]

At(p, pc) == request[p].pc = pc

Doing(p, op, pc) == request[p].op = op /\ request[p].pc = pc

Goto(p, pc) == request' = [request EXCEPT ![p].pc = pc]

UnchangedRows == UNCHANGED <<accounts, identities, challenges, sessions>>

(* The transaction ends without a change to a row, but for audit events.     *)
End(p) ==
    /\ request' = [request EXCEPT ![p] = Idle]
    /\ ReleaseAll(p)

(* Mutation: a logout locks the session before the account.                  *)
LogoutSwapped == [idle |-> "session", session |-> "user", user |-> "commit"]

LogoutOrder == [idle |-> "user", user |-> "session", session |-> "commit"]

RevokingOrder == [idle |-> "user", user |-> "rows", rows |-> "commit"]

(* The statements of each transaction: what comes first, and what after what.*)
Order ==
    [finishLogin    |-> [idle |-> "subject", subject |-> "user", user |-> "create",
                         create |-> "bind", bind |-> "commit"],
     finishLink     |-> [idle |-> "user", user |-> "session", session |-> "owners",
                         owners |-> "bind", bind |-> "commit"],
     recover        |-> [idle |-> "subject", subject |-> "user", user |-> "rows",
                         rows |-> "commit"],
     createUser     |-> [idle |-> "create", create |-> "commit"],
     preauthorize   |-> [idle |-> "user", user |-> "commit"],
     resetPassword  |-> RevokingOrder,
     disable        |-> RevokingOrder,
     changePassword |-> [idle |-> "user", user |-> "session", session |-> "rows",
                         rows |-> "commit"],
     logout         |-> LogoutOrder]

First(op) == Order[op].idle

After(p) == Order[request[p].op][request[p].pc]

-----------------------------------------------------------------------------
(* Arrivals.                                                                 *)

(* The authenticated dependency.                                             *)
Principal(s) ==
    /\ Live(s)
    /\ accounts[sessions[s].owner].status = "active"

Authenticated(s) ==
    Principal(s) /\ accounts[sessions[s].owner].password # "temporary"

(* delete_expired_google_challenges, then the new row.  The foreign key of a *)
(* link challenge needs the account row to be nobody else's.                 *)
Store(p, ch, row, expired) ==
    /\ At(p, "idle")
    /\ challenges[ch] = Unused
    /\ challenges' = [[c \in Challenge |-> IF c \in expired THEN Closed
                                           ELSE challenges[c]] EXCEPT ![ch] = row]
    /\ UNCHANGED <<accounts, identities, sessions, holder, request>>

BeginLogin(p, ch, expired) ==
    Store(p, ch, [purpose |-> "login", account |-> None], expired)

BeginLink(p, s, ch, expired) ==
    /\ Authenticated(s)
    /\ Free(p, sessions[s].owner)
    /\ Store(p, ch, [purpose |-> "link", account |-> sessions[s].owner], expired)

(* consume_google_challenge, in a transaction of its own.                    *)
Consume(p, ch, r) ==
    /\ At(p, "idle")
    /\ challenges' = [challenges EXCEPT ![ch] = Closed]
    /\ request' = [request EXCEPT ![p] = r]
    /\ UNCHANGED <<accounts, identities, sessions, holder>>

(* What a valid credential says: the subject, and the address if Google is   *)
(* authoritative for it, since nothing is done with it otherwise.            *)
Claims == [subject: Subject, email: Account \cup {None}]

FinishLogin(p, ch, claims) ==
    /\ challenges[ch].purpose = "login"
    /\ Consume(p, ch, [Idle EXCEPT !.op = "finishLogin", !.pc = First("finishLogin"),
                                   !.challenge = ch, !.subject = claims.subject,
                                   !.account = claims.email])

FinishLink(p, s, ch, x) ==
    /\ Authenticated(s)
    /\ challenges[ch] = [purpose |-> "link", account |-> sessions[s].owner]
    /\ Consume(p, ch, [Idle EXCEPT !.op = "finishLink", !.pc = First("finishLink"),
                                   !.challenge = ch, !.subject = x, !.session = s,
                                   !.account = sessions[s].owner])

(* The origin, the client or the credential turns out to be wrong, after the *)
(* challenge was consumed: there is no second chance.                        *)
FinishInVain(p, ch) ==
    /\ ch \in Open
    /\ challenges[ch].account # None =>
          \E s \in SessionId : Authenticated(s) /\ sessions[s].owner = challenges[ch].account
    /\ Consume(p, ch, Idle)

Arrive(p, r) ==
    /\ At(p, "idle")
    /\ request' = [request EXCEPT ![p] = r]
    /\ UNCHANGED holder
    /\ UnchangedRows

OwnerAsks(p, s, op) ==
    /\ Live(s)
    /\ op = "changePassword" => Principal(s)
    /\ Arrive(p, [Idle EXCEPT !.op = op, !.pc = First(op), !.session = s,
                              !.account = sessions[s].owner])

(* An administrator's requests.                                              *)
CreateUser(p, a, autoLink) ==
    Arrive(p, [Idle EXCEPT !.op = "createUser", !.pc = First("createUser"),
                           !.account = a, !.user = ProvisionedUser(autoLink)])

AdministratorAsks(p, a, op) ==
    /\ accounts[a].status # "absent"
    /\ Arrive(p, [Idle EXCEPT !.op = op, !.pc = First(op), !.account = a])

-----------------------------------------------------------------------------
(* Statements.                                                               *)

(* get_external_identity and get_external_identity_for_user, for_update.     *)
(* What the subject has no identity for goes by the account mode; after a    *)
(* conflict, only an identity will do.                                       *)
LockSubject(p) ==
    LET r == request[p]
        found == IF r.op = "recover" THEN Subjects(r.account)
                 ELSE {x \in {r.subject} : identities[x] # None}
        tries == ~r.again /\ Mode # "linked_only" /\ r.account # None
    IN  /\ At(p, "subject")
        /\ \/ \E x \in found :
                 /\ Take(p, x)
                 /\ request' = [request EXCEPT ![p].subject = x,
                                               ![p].account = identities[x],
                                               ![p].known = TRUE,
                                               ![p].pc = After(p)]
           \/ /\ found = {}
              /\ IF r.op = "recover" \/ tries THEN Goto(p, After(p)) /\ UNCHANGED holder
                 ELSE End(p)
        /\ UnchangedRows

(* What each handler does once it has the account row.                       *)
AfterUser(p, user) ==
    LET r == request[p]
    IN  CASE r.op = "finishLogin" ->
               (CASE user.status = "absent" -> IF Mode = "open" THEN "create" ELSE "idle"
                  [] r.known -> IF user.status = "active" THEN "commit" ELSE "idle"
                  [] OTHER -> IF CanAutoLink(user) THEN "bind" ELSE "idle")
          [] r.op = "recover" -> IF r.known THEN After(p) ELSE "idle"
          [] OTHER -> After(p)

(* Mutation: the account is read without a lock.                             *)
ReadUser(p) ==
    LET r == request[p]
        user == accounts[r.account]
        next == AfterUser(p, user)
    IN  /\ At(p, "user")
        /\ IF next = "idle" THEN End(p)
           ELSE /\ UNCHANGED holder
                /\ request' = [request EXCEPT ![p].user = user, ![p].pc = next]
        /\ UnchangedRows

(* get_user_by_id and get_user_by_email, for_update: a row that is not there *)
(* is not locked.                                                            *)
LockUser(p) ==
    LET r == request[p]
        user == accounts[r.account]
        next == AfterUser(p, user)
    IN  /\ At(p, "user")
        /\ user.status # "absent" => Free(p, r.account)
        /\ IF next = "idle" THEN End(p)
           ELSE /\ IF user.status = "absent" THEN UNCHANGED holder
                   ELSE Take(p, r.account)
                /\ request' = [request EXCEPT ![p].user = user, ![p].pc = next]
        /\ UnchangedRows

(* StoreConflictError: the transaction rolls back; a Google request starts   *)
(* another one, an administrator is told.                                    *)
Conflict(p) ==
    /\ request' = [request EXCEPT
          ![p] = IF request[p].op \in Finishing
                 THEN [request[p] EXCEPT !.again = TRUE, !.user = AbsentUser,
                                         !.pc = First(request[p].op)]
                 ELSE Idle]
    /\ ReleaseAll(p)

(* insert_user: the unique address is waited for while somebody inserts it.  *)
InsertUser(p) ==
    LET r == request[p]
    IN  /\ At(p, "create")
        /\ IF accounts[r.account].status # "absent" THEN Conflict(p)
           ELSE Take(p, r.account) /\ Goto(p, After(p))
        /\ UnchangedRows

(* get_session_by_id, for_update, and what is decided with it.  After a      *)
(* conflict a link only reads: it succeeds if the subject is its account's,  *)
(* and fails otherwise.                                                      *)
LockSession(p) ==
    LET r == request[p]
        goesOn == CASE r.op = "finishLink" -> CanLink(r.user, sessions[r.session]) /\ ~r.again
                    [] r.op = "changePassword" ->
                           /\ r.user.status = "active" /\ Live(r.session)
                           /\ r.user.password \in {"temporary", "own"}
                    [] OTHER -> Live(r.session)
    IN  /\ At(p, "session")
        /\ Free(p, r.session)
        /\ IF goesOn THEN Take(p, r.session) /\ Goto(p, After(p)) ELSE End(p)
        /\ UnchangedRows

(* _link reads the subject's owner and the account's identity, unlocked.     *)
ReadOwners(p) ==
    LET r == request[p]
    IN  /\ At(p, "owners")
        /\ CASE identities[r.subject] = r.account ->
                  /\ request' = [request EXCEPT ![p].known = TRUE, ![p].pc = "commit"]
                  /\ UNCHANGED holder
             [] identities[r.subject] = None /\ Subjects(r.account) = {} ->
                  Goto(p, After(p)) /\ UNCHANGED holder
             [] OTHER -> End(p)
        /\ UnchangedRows

(* recover_password_access has deleted the identity, but not committed.      *)
BeingDeleted(x) ==
    \E q \in Process : /\ request[q].op = "recover" /\ request[q].subject = x
                       /\ request[q].pc \in {"rows", "commit"}

(* insert_external_identity: the subject's row and the account's are unique; *)
(* one that is being inserted or deleted is waited for.                      *)
InsertIdentity(p) ==
    LET r == request[p]
    IN  /\ At(p, "bind")
        /\ IF \/ identities[r.subject] # None /\ ~BeingDeleted(r.subject)
              \/ Subjects(r.account) # {}
           THEN Conflict(p)
           ELSE Take(p, r.subject) /\ Goto(p, After(p))
        /\ UnchangedRows

(* revoke_user_sessions, row after row.                                      *)
Remaining(p) == {s \in LiveSessions(request[p].account) : holder[s] # p}

LockRow(p, s) ==
    /\ At(p, "rows")
    /\ s \in Remaining(p)
    /\ Take(p, s)
    /\ UNCHANGED request
    /\ UnchangedRows

EndRows(p) ==
    /\ At(p, "rows")
    /\ Remaining(p) = {}
    /\ Goto(p, After(p))
    /\ UNCHANGED holder
    /\ UnchangedRows

-----------------------------------------------------------------------------
(* Commits.                                                                  *)

Committing(p, op) ==
    /\ Doing(p, op, "commit")
    /\ End(p)
    /\ UNCHANGED challenges

(* update_user and insert_user write the whole row.                          *)
WriteUser(p, user) == accounts' = [accounts EXCEPT ![request[p].account] = user]

WriteIdentity(p) ==
    identities' = [identities EXCEPT ![request[p].subject] = request[p].account]

Revoked(a) ==
    [s \in SessionId |->
        IF s \in LiveSessions(a) THEN RevokedSession ELSE sessions[s]]

(* _login_linked of a subject that was known: its identity is written back.  *)
LoginKnown(p, s) ==
    LET r == request[p]
    IN  /\ Committing(p, "finishLogin")
        /\ r.known
        /\ Fresh(s)
        /\ WriteIdentity(p)
        /\ sessions' = [sessions EXCEPT ![s] = NewSession(r.account, r.subject)]
        /\ UNCHANGED accounts

(* _link_and_login and _login_open of an unknown address.                    *)
LoginFirst(p, s) ==
    LET r == request[p]
    IN  /\ Committing(p, "finishLogin")
        /\ ~r.known
        /\ Fresh(s)
        /\ WriteIdentity(p)
        /\ WriteUser(p, IF r.user = AbsentUser THEN OpenUser
                        ELSE DisablePassword(r.user))
        /\ sessions' = [sessions EXCEPT ![s] = NewSession(r.account, r.subject)]

CommitLink(p) ==
    LET r == request[p]
    IN  /\ Committing(p, "finishLink")
        /\ WriteIdentity(p)
        /\ IF ~r.known \/ r.user.autoLink
           THEN WriteUser(p, [r.user EXCEPT !.autoLink = FALSE])
           ELSE UNCHANGED accounts
        /\ UNCHANGED sessions

(* Mutation: the recovery forgets the sessions.                              *)
RecoverOnly(p) ==
    /\ Committing(p, "recover")
    /\ WriteUser(p, RequirePasswordChange(request[p].user))
    /\ identities' = [identities EXCEPT ![request[p].subject] = None]
    /\ UNCHANGED sessions

(* Mutation: the recovery only removes the identity.                         *)
Unlink(p) ==
    /\ Committing(p, "recover")
    /\ identities' = [identities EXCEPT ![request[p].subject] = None]
    /\ sessions' = Revoked(request[p].account)
    /\ UNCHANGED accounts

CommitRecovery(p) ==
    /\ Committing(p, "recover")
    /\ WriteUser(p, RequirePasswordChange(request[p].user))
    /\ identities' = [identities EXCEPT ![request[p].subject] = None]
    /\ sessions' = Revoked(request[p].account)

CommitCreation(p) ==
    /\ Committing(p, "createUser")
    /\ WriteUser(p, request[p].user)
    /\ UNCHANGED <<identities, sessions>>

CommitPreauthorization(p) ==
    /\ Committing(p, "preauthorize")
    /\ WriteUser(p, [request[p].user EXCEPT !.autoLink = TRUE])
    /\ UNCHANGED <<identities, sessions>>

CommitReset(p) ==
    /\ Committing(p, "resetPassword")
    /\ WriteUser(p, RequirePasswordChange(request[p].user))
    /\ sessions' = Revoked(request[p].account)
    /\ UNCHANGED identities

CommitDisable(p) ==
    /\ Committing(p, "disable")
    /\ WriteUser(p, [request[p].user EXCEPT !.status = "disabled"])
    /\ sessions' = Revoked(request[p].account)
    /\ UNCHANGED identities

CommitPassword(p, s) ==
    /\ Committing(p, "changePassword")
    /\ Fresh(s)
    /\ WriteUser(p, ActivatePassword(request[p].user))
    /\ sessions' = [Revoked(request[p].account) EXCEPT
                       ![s] = NewSession(request[p].account, None)]
    /\ UNCHANGED identities

CommitLogout(p) ==
    /\ Committing(p, "logout")
    /\ sessions' = [sessions EXCEPT ![request[p].session] = RevokedSession]
    /\ UNCHANGED <<accounts, identities>>

(* A cancelled request, a lost connection, a stopped process: the open       *)
(* transaction rolls back.                                                   *)
Abort(p) ==
    /\ ~At(p, "idle")
    /\ End(p)
    /\ UnchangedRows

-----------------------------------------------------------------------------
(* Subjects may be linked already; one session may be open, with the         *)
(* password or through Google.                                               *)
FirstSession == CHOOSE s \in SessionId : TRUE

InitialUsers ==
    {AbsentUser, OpenUser, ProvisionedUser(FALSE), ProvisionedUser(TRUE),
     ActivatePassword(ProvisionedUser(FALSE))}

InitialSessions ==
    {Absent} \cup {NewSession(a, x) : a \in Account, x \in Subject \cup {None}}

Init ==
    /\ accounts \in [Account -> InitialUsers]
    /\ identities \in [Subject -> Account \cup {None}]
    /\ \A a \in Account :
          /\ Cardinality(Subjects(a)) <= 1
          /\ a \notin Managed => accounts[a].password \in {"none", "own"}
          /\ accounts[a].status = "absent" => Subjects(a) = {}
          /\ accounts[a].password = "disabled" => Subjects(a) # {}
    /\ challenges = [ch \in Challenge |-> Unused]
    /\ \E session \in InitialSessions :
          /\ session # Absent =>
                /\ accounts[session.owner].status = "active"
                /\ session.via = None => accounts[session.owner].password # "disabled"
                /\ session.via # None => identities[session.via] = session.owner
          /\ sessions = [[s \in SessionId |-> Absent] EXCEPT ![FirstSession] = session]
    /\ NoLocks
    /\ request = [p \in Process |-> Idle]

Arrives(p) ==
    \/ \E ch \in Challenge :
          \/ \E expired \in SUBSET Open :
                \/ BeginLogin(p, ch, expired)
                \/ \E s \in SessionId : BeginLink(p, s, ch, expired)
          \/ \E claims \in Claims : FinishLogin(p, ch, claims)
          \/ \E x \in Subject, s \in SessionId : FinishLink(p, s, ch, x)
          \/ FinishInVain(p, ch)
    \/ \E s \in SessionId, op \in {"changePassword", "logout"} :
          sessions[s].owner \in Managed /\ OwnerAsks(p, s, op)
    \/ \E a \in Managed :
          \/ \E autoLink \in BOOLEAN : CreateUser(p, a, autoLink)
          \/ \E op \in Administering : AdministratorAsks(p, a, op)

Statement(p) ==
    \/ LockSubject(p)
    \/ LockUser(p)
    \/ InsertUser(p)
    \/ LockSession(p)
    \/ ReadOwners(p)
    \/ InsertIdentity(p)
    \/ \E s \in SessionId : LockRow(p, s)
    \/ EndRows(p)

Commit(p) ==
    \/ \E s \in SessionId : LoginKnown(p, s) \/ LoginFirst(p, s) \/ CommitPassword(p, s)
    \/ CommitLink(p)
    \/ CommitRecovery(p)
    \/ CommitCreation(p)
    \/ CommitPreauthorization(p)
    \/ CommitReset(p)
    \/ CommitDisable(p)
    \/ CommitLogout(p)

Next == \E p \in Process : Arrives(p) \/ Statement(p) \/ Commit(p) \/ Abort(p)

Spec == Init /\ [][Next]_vars

-----------------------------------------------------------------------------
(* Properties.                                                               *)

(* Values have their types, an account has one identity at most (auto-link   *)
(* leaves that to uq_epok_auth_external_identity_user_issuer), and nobody    *)
(* but an open transaction holds a lock.                                     *)
TypeOK ==
    /\ accounts \in [Account -> User]
    /\ identities \in [Subject -> Account \cup {None}]
    /\ challenges \in [Challenge -> ChallengeRow]
    /\ sessions \in [SessionId -> Session]
    /\ LocksTypeOK
    /\ request \in [Process -> Request]
    /\ \A a \in Account : Cardinality(Subjects(a)) <= 1
    /\ \A p \in Process : At(p, "idle") => \A l \in DOMAIN holder : holder[l] # p

(* No account is left without a way in: one whose password is disabled has a *)
(* Google identity, through every conflict, retry, recovery and reset; and   *)
(* no account ends with two identities, of which recovery would find one.    *)
AlwaysAWayIn ==
    \A a \in Account :
        /\ accounts[a].password = "disabled" => Subjects(a) # {}
        /\ Cardinality(Subjects(a)) <= 1

(* A live session belongs to an active account, and one that came in through *)
(* a Google identity lasts only as long as that identity is the account's: a *)
(* recovery ends those sessions, and a login under way opens none after it.  *)
SessionsRest ==
    \A s \in SessionId : Live(s) =>
        /\ accounts[sessions[s].owner].status = "active"
        /\ sessions[s].via # None => identities[sessions[s].via] = sessions[s].owner

(* What an owner or an administrator has settled is not undone by a link, a  *)
(* first login, a reset or a recovery that was under way and writes the      *)
(* whole row back: a password the owner has set is never disabled            *)
(* (docs/GOOGLE_ES.md: una cuenta que ya establecio su contrasena no puede   *)
(* usar auto-link), and a disabled account stays disabled.                   *)
DecisionsStick ==
    [][\A a \in Account :
          /\ accounts[a].password = "own" => accounts'[a].password # "disabled"
          /\ accounts[a].status = "disabled" => accounts'[a].status = "disabled"]_vars

(* An identity comes to an existing account in two ways only: its temporary  *)
(* password and the administrator's permission both still stand, or a live   *)
(* session of it asked, and no password change is pending.  A recovery that  *)
(* comes first wins over a link or a first login under way.                  *)
IdentityNeedsConsent ==
    [][\A a \in Account :
          Subjects(a) = {} /\ Subjects(a)' # {} =>
              \/ accounts[a].status = "absent"
              \/ CanAutoLink(accounts[a])
              \/ /\ accounts[a].status = "active"
                 /\ accounts[a].password # "temporary"
                 /\ LiveSessions(a) # {}]_vars

(* The locks a request's next statement could take.                          *)
Wants ==
    [p \in Process |->
        LET r == request[p]
        IN  CASE r.pc = "subject" ->
                   IF r.op = "recover" THEN Subjects(r.account)
                   ELSE {x \in {r.subject} : identities[x] # None}
              [] r.pc = "user" /\ accounts[r.account].status # "absent" -> {r.account}
              [] r.pc = "create" /\ accounts[r.account].status = "absent" -> {r.account}
              [] r.pc = "bind" /\ Subjects(r.account) = {}
                    /\ (identities[r.subject] = None \/ BeingDeleted(r.subject))
                  -> {r.subject}
              [] r.pc = "session" -> {r.session}
              [] r.pc = "rows"    -> Remaining(p)
              [] OTHER -> {}]

(* Identity, account, session: nobody takes them in another order, and an    *)
(* insertion that waits for another's subject or address is waited for by    *)
(* nobody that one waits for (docs/GOOGLE_ES.md: las rutas de link,          *)
(* recuperacion y refresh comparten un orden de bloqueo).                    *)
NoDeadlock == \A p \in Process : ~Deadlocked(p, Wants)

=============================================================================
