------------------------------ MODULE Sessions ------------------------------
(***************************************************************************)
(* The password and session services of epok_auth: _service_sessions.py,   *)
(* the session-revoking half of _service_users.py, and the SessionIssuer.  *)
(*                                                                         *)
(* Every handler of this module takes the account row FOR UPDATE before it *)
(* decides anything, so one handler is one action here.  The one handler   *)
(* that does not, revoke_user_sessions, is two: its UPDATE takes a         *)
(* snapshot when it begins, and revokes the rows of that snapshot, not the *)
(* ones inserted since, when its transaction commits.  What its statements *)
(* wait for is in module SessionTransactions.                              *)
(*                                                                         *)
(* A handler reads its clock before it waits for the row, and two workers' *)
(* clocks may disagree: the time it works with, now, is any of the last    *)
(* MaxLag ticks.  Times are natural numbers; only their order matters.     *)
(***************************************************************************)
EXTENDS Naturals, FiniteSets

CONSTANTS
    User,          \* account identifiers
    SessionId,     \* identifiers uuid4 can return; also names the families
    NoUser,        \* the owner of a row that has not been inserted
    NoSession,     \* replaced_by_id IS NULL
    IdleTTL,       \* refresh_idle_ttl_seconds
    AbsoluteTTL,   \* refresh_absolute_ttl_seconds
    MaxAttempts,   \* login_max_attempts
    Lockout,       \* lockout_seconds
    MaxLag,        \* how old a handler's now may be when it gets the row
    MaxTime,       \* bound on the clock
    MaxPasswords,  \* bound on the password replacements of one account
    MaxRevocations \* bound on the revoke_user_sessions of one account under way

ASSUME TimingAssumption ==
    /\ IdleTTL \in Nat /\ AbsoluteTTL \in Nat
    /\ 1 <= IdleTTL /\ IdleTTL <= AbsoluteTTL
    /\ Lockout \in Nat /\ 1 <= Lockout
    /\ MaxAttempts \in Nat /\ 2 <= MaxAttempts
    /\ MaxLag \in Nat /\ MaxTime \in Nat
    /\ MaxPasswords \in Nat /\ MaxRevocations \in Nat

ASSUME SentinelAssumption == NoUser \notin User /\ NoSession \notin SessionId

VARIABLES
    clock,       \* the latest time any worker's clock shows
    users,       \* table user_account
    sessions,    \* table refresh_session; absent rows have no owner
    revoking,    \* the snapshots of each account's revoke_user_sessions under way
    credential,  \* history: the password in force when a row's family began
    replayed,    \* history: rows whose token was presented after its exchange
    torn,        \* history: families a revoke_user_sessions revoked a part of
    autoLinked   \* history: accounts whose present password_hash is the unusable
                 \* one that Google's auto-link put in place of a temporary one

vars == <<clock, users, sessions, revoking, credential, replayed, torn, autoLinked>>

revocations == <<revoking, torn>>

-----------------------------------------------------------------------------
(* Rows.  lockedUntil = 0 stands for NULL (a real lock is at least Lockout). *)
(* password counts the replacements of password_hash.                        *)

Account ==
    [status: {"active", "disabled"}, passwordLogin: BOOLEAN, mustChange: BOOLEAN,
     failed: Nat, lockedUntil: Nat, password: Nat]

Session ==
    [user: User \cup {NoUser}, family: SessionId \cup {NoSession},
     created: Nat, idle: Nat, absolute: Nat, authenticated: Nat,
     used: BOOLEAN, replacedBy: SessionId \cup {NoSession}, revoked: BOOLEAN]

Absent ==
    [user |-> NoUser, family |-> NoSession, created |-> 0, idle |-> 0,
     absolute |-> 0, authenticated |-> 0, used |-> FALSE,
     replacedBy |-> NoSession, revoked |-> FALSE]

Row == {s \in SessionId : sessions[s].user # NoUser}

Fresh == SessionId \ Row

Nows == {t \in 0..clock : clock <= t + MaxLag}

Locked(account, now) == account.lockedUntil > now

CanAuthenticate(account, now) ==
    account.status = "active" /\ ~Locked(account, now)

IsActive(session, now) ==
    ~session.revoked /\ session.idle > now /\ session.absolute > now

ValidPrincipal(s, now) ==
    /\ s \in Row
    /\ CanAuthenticate(users[sessions[s].user], now)
    /\ IsActive(sessions[s], now)

-----------------------------------------------------------------------------
(* The session table's three writes.                                         *)

NewSession(u, family, now, absolute, authenticated) ==
    LET idle == now + IdleTTL
    IN  [user |-> u, family |-> family, created |-> now,
         idle |-> IF idle <= absolute THEN idle ELSE absolute,
         absolute |-> absolute, authenticated |-> authenticated,
         used |-> FALSE, replacedBy |-> NoSession, revoked |-> FALSE]

(* Mutation: rows already rotated are left out.                              *)
RevokeFamilyUnusedOnly(table, family) ==
    [s \in SessionId |-> IF table[s].family = family /\ ~table[s].used
                         THEN [table[s] EXCEPT !.revoked = TRUE]
                         ELSE table[s]]

RevokeFamily(table, family) ==
    [s \in SessionId |-> IF table[s].family = family
                         THEN [table[s] EXCEPT !.revoked = TRUE]
                         ELSE table[s]]

RevokeUser(table, u) ==
    [s \in SessionId |-> IF table[s].user = u
                         THEN [table[s] EXCEPT !.revoked = TRUE]
                         ELSE table[s]]

RevokeRows(table, rows) ==
    [s \in SessionId |-> IF s \in rows THEN [table[s] EXCEPT !.revoked = TRUE]
                                       ELSE table[s]]

(* A login that begins a family: row s, named after itself.                  *)
OpenFamily(table, u, s, now, password) ==
    /\ s \in Fresh
    /\ sessions' = [table EXCEPT
                       ![s] = NewSession(u, s, now, now + AbsoluteTTL, now)]
    /\ credential' = [credential EXCEPT ![s] = password]

-----------------------------------------------------------------------------
(* The account row's writes.                                                 *)

(* Mutation: a success forgives one failure.                                 *)
ForgiveOneFailure(account) ==
    [account EXCEPT !.failed = @ - 1, !.lockedUntil = 0]

ClearFailures(account) ==
    [account EXCEPT !.failed = 0, !.lockedUntil = 0]

(* _replace_password, and the three methods of UserAccount that call it.     *)
ReplacePassword(account) ==
    [ClearFailures(account) EXCEPT !.password = account.password + 1]

RequirePasswordChange(account) ==
    [ReplacePassword(account) EXCEPT !.mustChange = TRUE, !.passwordLogin = TRUE]

ActivatePassword(account) ==
    [ReplacePassword(account) EXCEPT !.mustChange = FALSE, !.passwordLogin = TRUE]

DisablePassword(account) ==
    [ReplacePassword(account) EXCEPT !.mustChange = FALSE, !.passwordLogin = FALSE]

(* Mutation: a lock that has expired leaves the old count standing.          *)
CountFailureForever(account, now) ==
    LET attempts == account.failed + 1
    IN  [account EXCEPT !.failed = attempts,
                        !.lockedUntil = IF attempts >= MaxAttempts
                                        THEN now + Lockout ELSE 0]

CountFailure(account, now) ==
    LET previous == IF account.lockedUntil # 0 /\ account.lockedUntil <= now
                    THEN 0 ELSE account.failed
        attempts == previous + 1
    IN  [account EXCEPT !.failed = attempts,
                        !.lockedUntil = IF attempts >= MaxAttempts
                                        THEN now + Lockout ELSE 0]

(* Mutation: the account is locked and its sessions are left alive.          *)
LockOnly(u, now) ==
    /\ users' = IF users[u].passwordLogin /\ CanAuthenticate(users[u], now)
                THEN [users EXCEPT ![u] = CountFailure(@, now)] ELSE users
    /\ UNCHANGED sessions

(* _record_password_failure: no effect on an account that cannot use a       *)
(* password; the failure that reaches the limit locks and revokes.           *)
RecordPasswordFailure(u, now) ==
    IF users[u].passwordLogin /\ CanAuthenticate(users[u], now)
    THEN LET counted == CountFailure(users[u], now)
         IN  /\ users' = [users EXCEPT ![u] = counted]
             /\ sessions' = IF counted.lockedUntil # 0
                            THEN RevokeUser(sessions, u) ELSE sessions
    ELSE UNCHANGED <<users, sessions>>

-----------------------------------------------------------------------------
(* Handlers of _service_sessions.py.  A request that is refused without a    *)
(* write (unknown token, wrong CSRF pair, wrong current password, unusable   *)
(* principal) is a stuttering step.                                          *)

LoginFails(u, now) ==
    /\ RecordPasswordFailure(u, now)
    /\ UNCHANGED <<clock, credential, replayed, autoLinked, revocations>>

LoginSucceeds(u, s, now) ==
    /\ users[u].passwordLogin
    /\ CanAuthenticate(users[u], now)
    /\ users' = [users EXCEPT ![u] = ClearFailures(@)]
    /\ OpenFamily(sessions, u, s, now, users[u].password)
    /\ UNCHANGED <<clock, replayed, autoLinked, revocations>>

(* Mutation: a login method that only looks at the status.                   *)
LoginIgnoringLock(u, s, now) ==
    /\ users[u].status = "active"
    /\ OpenFamily(sessions, u, s, now, users[u].password)
    /\ UNCHANGED <<clock, users, replayed, autoLinked, revocations>>

(* Email-link and passkey logins, and logins by a Google identity linked     *)
(* before, end alike: under the account row's lock, an account that can      *)
(* authenticate is issued a session, and its failure counter and lock stay   *)
(* as they are.  What they check first is outside this module.               *)
LoginWithoutPassword(u, s, now) ==
    /\ CanAuthenticate(users[u], now)
    /\ OpenFamily(sessions, u, s, now, users[u].password)
    /\ UNCHANGED <<clock, users, replayed, autoLinked, revocations>>

(* The Google login that links its identity to an account waiting for its    *)
(* first password change: an unusable password takes the place of the        *)
(* temporary one, and no session is revoked.  Whether an administrator       *)
(* allowed it (google_auto_link_allowed) is outside this module.             *)
AutoLink(u, s, now) ==
    LET linked == DisablePassword(users[u])
    IN  /\ CanAuthenticate(users[u], now)
        /\ users[u].mustChange
        /\ users[u].password < MaxPasswords
        /\ users' = [users EXCEPT ![u] = linked]
        /\ OpenFamily(sessions, u, s, now, linked.password)
        /\ autoLinked' = autoLinked \cup {u}
        /\ UNCHANGED <<clock, replayed, revocations>>

ReauthenticationFails(s, now) ==
    /\ ValidPrincipal(s, now)
    /\ RecordPasswordFailure(sessions[s].user, now)
    /\ UNCHANGED <<clock, credential, replayed, autoLinked, revocations>>

ReauthenticationSucceeds(s, now) ==
    LET u == sessions[s].user
    IN  /\ ValidPrincipal(s, now)
        /\ users[u].passwordLogin
        /\ users' = [users EXCEPT ![u] = ClearFailures(@)]
        /\ UNCHANGED <<clock, sessions, credential, replayed, autoLinked,
                       revocations>>

Present(s) ==
    replayed' = IF sessions[s].used THEN replayed \cup {s} ELSE replayed

(* A token whose row is revoked is refused, used or not.                     *)
RefreshRefused(s) ==
    /\ s \in Row
    /\ sessions[s].revoked
    /\ Present(s)
    /\ UNCHANGED <<clock, users, sessions, credential, autoLinked, revocations>>

(* Mutation: a token that was used before is not recognised.                 *)
EndsFamilyOnExpiry(s, now, csrfMatches) ==
    \/ sessions[s].idle <= now \/ sessions[s].absolute <= now
    \/ csrfMatches /\ ~CanAuthenticate(users[sessions[s].user], now)

(* The three branches of refresh that revoke the family: the token was used  *)
(* before, the session expired, or its account can no longer authenticate.   *)
(* Only the last one is behind the check of the stored CSRF hash.            *)
EndsFamily(s, now, csrfMatches) ==
    \/ sessions[s].used
    \/ sessions[s].idle <= now \/ sessions[s].absolute <= now
    \/ csrfMatches /\ ~CanAuthenticate(users[sessions[s].user], now)

RefreshEndsFamily(s, now, csrfMatches) ==
    /\ s \in Row
    /\ ~sessions[s].revoked
    /\ EndsFamily(s, now, csrfMatches)
    /\ sessions' = RevokeFamily(sessions, sessions[s].family)
    /\ Present(s)
    /\ UNCHANGED <<clock, users, credential, autoLinked, revocations>>

(* Mutation: the presented token stays good.                                 *)
RotateKeepingToken(s, n, now) ==
    LET row == sessions[s]
    IN  [sessions EXCEPT
            ![n] = NewSession(row.user, row.family, now, row.absolute,
                              row.authenticated)]

(* Mutation: every refresh starts a new absolute lifetime.                   *)
RotateRenewing(s, n, now) ==
    LET row == sessions[s]
    IN  [sessions EXCEPT
            ![n] = NewSession(row.user, row.family, now, now + AbsoluteTTL, now),
            ![s] = [row EXCEPT !.used = TRUE, !.replacedBy = n]]

Rotate(s, n, now) ==
    LET row == sessions[s]
    IN  [sessions EXCEPT
            ![n] = NewSession(row.user, row.family, now, row.absolute,
                              row.authenticated),
            ![s] = [row EXCEPT !.used = TRUE, !.replacedBy = n]]

RefreshRotates(s, n, now) ==
    /\ s \in Row /\ n \in Fresh
    /\ ~sessions[s].revoked
    /\ ~EndsFamily(s, now, TRUE)
    /\ sessions' = Rotate(s, n, now)
    /\ credential' = [credential EXCEPT ![n] = credential[s]]
    /\ Present(s)
    /\ UNCHANGED <<clock, users, autoLinked, revocations>>

(* Neither expiry nor used_at matters to logout: any unrevoked token will do. *)
Logout(s) ==
    /\ s \in Row
    /\ ~sessions[s].revoked
    /\ sessions' = RevokeFamily(sessions, sessions[s].family)
    /\ UNCHANGED <<clock, users, credential, replayed, autoLinked, revocations>>

(* An account whose password login is off has a random password_hash, which  *)
(* no current_password verifies against.                                     *)
ChangePassword(s, n, now) ==
    LET u == sessions[s].user
        changed == ActivatePassword(users[u])
    IN  /\ ValidPrincipal(s, now)
        /\ users[u].passwordLogin
        /\ users[u].password < MaxPasswords
        /\ users' = [users EXCEPT ![u] = changed]
        /\ OpenFamily(RevokeUser(sessions, u), u, n, now, changed.password)
        /\ autoLinked' = autoLinked \ {u}
        /\ UNCHANGED <<clock, replayed, revocations>>

-----------------------------------------------------------------------------
(* Handlers of _service_users.py and of the email links that replace a       *)
(* password or revoke sessions.                                              *)

(* Mutation: a password reset leaves the sessions alive.                     *)
ReplaceOnly(u, replaced) ==
    /\ users[u].password < MaxPasswords
    /\ users' = [users EXCEPT ![u] = replaced]
    /\ autoLinked' = autoLinked \ {u}
    /\ UNCHANGED <<clock, sessions, credential, replayed, revocations>>

ReplaceAndRevoke(u, replaced) ==
    /\ users[u].password < MaxPasswords
    /\ users' = [users EXCEPT ![u] = replaced]
    /\ sessions' = RevokeUser(sessions, u)
    /\ autoLinked' = autoLinked \ {u}
    /\ UNCHANGED <<clock, credential, replayed, revocations>>

(* The administrator's reset; recover_password_access of the Google service  *)
(* does the same.                                                            *)
ResetPassword(u) == ReplaceAndRevoke(u, RequirePasswordChange(users[u]))

(* The link of a password reset is confirmed, an invitation's is.  The links *)
(* are module EmailLinks'.                                                   *)
ResetByLink(u) ==
    /\ users[u].status = "active" /\ users[u].passwordLogin
    /\ ReplaceAndRevoke(u, ActivatePassword(users[u]))

ActivateInvitation(u) ==
    /\ users[u].status = "active" /\ users[u].mustChange
    /\ ReplaceAndRevoke(u, DisablePassword(users[u]))

(* update_user with a status; the last-administrator rule may also refuse.   *)
UpdateStatus(u, status) ==
    /\ users' = [users EXCEPT ![u].status = status]
    /\ sessions' = IF status = "disabled" THEN RevokeUser(sessions, u)
                                          ELSE sessions
    /\ UNCHANGED <<clock, credential, replayed, autoLinked, revocations>>

RowsOfUser(u) == {s \in Row : sessions[s].user = u}

(* revoke_user_sessions holds no lock on the account.  Its UPDATE sees the   *)
(* rows that are committed when it begins ...                                *)
RevokeUserSessionsBegins(u) ==
    /\ Cardinality(revoking[u]) < MaxRevocations
    /\ revoking' = [revoking EXCEPT ![u] = @ \cup {RowsOfUser(u)}]
    /\ UNCHANGED <<clock, users, sessions, credential, replayed, torn, autoLinked>>

LeftBehind(rows) ==
    {f \in SessionId : \E s \in rows, t \in Row \ rows :
        sessions[s].family = f /\ sessions[t].family = f /\ ~sessions[t].revoked}

(* ... and those are revoked when it commits.  A request that is cancelled   *)
(* or a server that stops never gets here.                                   *)
RevokeUserSessionsEnds(u, rows) ==
    /\ rows \in revoking[u]
    /\ sessions' = RevokeRows(sessions, rows)
    /\ revoking' = [revoking EXCEPT ![u] = @ \ {rows}]
    /\ torn' = torn \cup LeftBehind(rows)
    /\ UNCHANGED <<clock, users, credential, replayed, autoLinked>>

Tick ==
    /\ clock < MaxTime
    /\ clock' = clock + 1
    /\ UNCHANGED <<users, sessions, credential, replayed, autoLinked, revocations>>

-----------------------------------------------------------------------------
(* create_user leaves a temporary password, the first administrator has one  *)
(* of its own, and an account that Google or a link created has none.        *)
NewAccount(passwordLogin, mustChange) ==
    [status |-> "active", passwordLogin |-> passwordLogin,
     mustChange |-> mustChange, failed |-> 0, lockedUntil |-> 0, password |-> 0]

Init ==
    /\ clock = 0
    /\ users \in [User -> {NewAccount(TRUE, TRUE), NewAccount(TRUE, FALSE),
                           NewAccount(FALSE, FALSE)}]
    /\ sessions = [s \in SessionId |-> Absent]
    /\ revoking = [u \in User |-> {}]
    /\ credential = [s \in SessionId |-> 0]
    /\ replayed = {}
    /\ torn = {}
    /\ autoLinked = {}

UserStep(u) ==
    \/ \E now \in Nows :
          \/ LoginFails(u, now)
          \/ \E s \in SessionId : LoginSucceeds(u, s, now)
          \/ \E s \in SessionId : LoginWithoutPassword(u, s, now)
          \/ \E s \in SessionId : AutoLink(u, s, now)
    \/ ResetPassword(u)
    \/ ResetByLink(u)
    \/ ActivateInvitation(u)
    \/ \E status \in {"active", "disabled"} : UpdateStatus(u, status)
    \/ RevokeUserSessionsBegins(u)
    \/ \E rows \in revoking[u] : RevokeUserSessionsEnds(u, rows)

SessionStep(s) ==
    \/ \E now \in Nows :
          \/ ReauthenticationFails(s, now)
          \/ ReauthenticationSucceeds(s, now)
          \/ \E csrfMatches \in BOOLEAN : RefreshEndsFamily(s, now, csrfMatches)
          \/ \E n \in SessionId : RefreshRotates(s, n, now)
          \/ \E n \in SessionId : ChangePassword(s, n, now)
    \/ RefreshRefused(s)
    \/ Logout(s)

Next ==
    \/ Tick
    \/ \E u \in User : UserStep(u)
    \/ \E s \in SessionId : SessionStep(s)

Spec == Init /\ [][Next]_vars

-----------------------------------------------------------------------------
(* Properties.                                                               *)

(* Every row holds values of its columns' types.                             *)
TypeOK ==
    /\ clock \in Nat
    /\ users \in [User -> Account]
    /\ sessions \in [SessionId -> Session]
    /\ revoking \in [User -> SUBSET SUBSET SessionId]
    /\ credential \in [SessionId -> Nat]
    /\ replayed \subseteq SessionId
    /\ torn \subseteq SessionId
    /\ autoLinked \subseteq User

(* Refresh, logout, lockout, disabling and password replacements never       *)
(* revoke a part of a family, whatever order they come in: its rows are all  *)
(* revoked or none is.  revoke_user_sessions can, because its UPDATE does    *)
(* not see a successor inserted while it runs, and nothing else can; then    *)
(* too it is the older rows that are revoked: the row that replaced an       *)
(* unrevoked one is not.                                                     *)
FamilyRevokedTogether ==
    /\ \A s, t \in Row :
          sessions[s].family = sessions[t].family /\ sessions[s].family \notin torn
              => sessions[s].revoked = sessions[t].revoked
    /\ \A s \in Row :
          sessions[s].used /\ ~sessions[s].revoked
              => ~sessions[sessions[s].replacedBy].revoked

(* Rotation builds a chain: used_at and replaced_by_id are set together, a   *)
(* successor belongs to the same family, replaces one row only, and each     *)
(* family has at most one row left to rotate.                                *)
RotationIsAChain ==
    /\ \A s \in Row :
          /\ sessions[s].used <=> sessions[s].replacedBy # NoSession
          /\ sessions[s].used =>
                /\ sessions[s].replacedBy \in Row \ {s}
                /\ sessions[sessions[s].replacedBy].family = sessions[s].family
    /\ \A s, t \in Row : s # t /\ sessions[s].family = sessions[t].family =>
          /\ sessions[s].used \/ sessions[t].used
          /\ sessions[s].used => sessions[s].replacedBy # sessions[t].replacedBy

(* A family is named after its first row and belongs to that row's owner.    *)
FamilyIsRooted ==
    \A s \in Row :
        /\ sessions[s].family \in Row
        /\ sessions[sessions[s].family].user = sessions[s].user

(* A family has one absolute deadline and one authentication time, so        *)
(* refreshing neither extends a session's life nor renews the recency that   *)
(* require_recent_authentication measures; every row was created before it   *)
(* expires (the table's CHECK constraints).                                  *)
FamilySharesDeadline ==
    /\ FamilyIsRooted
    /\ \A s, t \in Row : sessions[s].family = sessions[t].family =>
          /\ sessions[s].absolute = sessions[t].absolute
          /\ sessions[s].authenticated = sessions[t].authenticated
    /\ \A s \in Row :
          /\ sessions[s].created < sessions[s].idle
          /\ sessions[s].idle <= sessions[s].absolute
          /\ sessions[s].absolute = sessions[s].authenticated + AbsoluteTTL

(* A disabled account, and an account whose lock is in force, has no         *)
(* unrevoked session: losing the right to authenticate ends every session,   *)
(* and none is issued until it returns.                                      *)
NoSessionWithoutAccount ==
    \A s \in Row : ~sessions[s].revoked =>
        CanAuthenticate(users[sessions[s].user], clock)

(* Replacing a password ends every session that began under an earlier one,  *)
(* the ones rotated since included.  Google's auto-link is the exception: a  *)
(* session that began under the temporary password it disables stays, until  *)
(* the next replacement; one that began under an older password never does.  *)
NoSessionOutlivesPassword ==
    \A s \in Row : ~sessions[s].revoked =>
        LET u == sessions[s].user
        IN  \/ credential[s] = users[u].password
            \/ u \in autoLinked /\ credential[s] + 1 = users[u].password

(* The counter and the lock agree: an account is marked locked exactly when  *)
(* it has reached the limit, and the counter never passes the limit.         *)
LockIsFullCount ==
    \A u \in User :
        /\ users[u].failed <= MaxAttempts
        /\ users[u].lockedUntil # 0 <=> users[u].failed = MaxAttempts

(* A refresh token presented again after its exchange leaves no live session *)
(* in its family, whichever of the two presentations was the legitimate one, *)
(* unless revoke_user_sessions has revoked a part of the family: the replay  *)
(* of a revoked token is refused, and a successor left behind stays alive.   *)
ReplayEndsFamily ==
    \A s \in replayed, t \in Row :
        sessions[t].family = sessions[s].family /\ sessions[s].family \notin torn
            => sessions[t].revoked

-----------------------------------------------------------------------------
(* A family is open while one of its rows is unrevoked, and closed when it   *)
(* has rows and all are revoked.                                             *)

OpenFamilies(u) ==
    {sessions[s].family : s \in {r \in Row : sessions[r].user = u
                                             /\ ~sessions[r].revoked}}

Barred == {u \in User : ~CanAuthenticate(users[u], clock)}

Opened == [u \in User |-> OpenFamilies(u)]

Closed == {sessions[s].family : s \in Row} \ UNION {OpenFamilies(u) : u \in User}

Authority ==
    INSTANCE SessionAuthority WITH
        Family <- SessionId, barred <- Barred, open <- Opened, closed <- Closed,
        SomeRevoked <- TRUE

(* The authority that always ends one family of an account, or all of them.  *)
Whole ==
    INSTANCE SessionAuthority WITH
        Family <- SessionId, barred <- Barred, open <- Opened, closed <- Closed,
        SomeRevoked <- FALSE

SomeRevocationEnds ==
    \E u \in User : \E rows \in revoking[u] : RevokeUserSessionsEnds(u, rows)

(* The handlers implement SessionAuthority: each one opens, closes,          *)
(* exchanges, bars, unbars, or leaves authority as it was.  The commit of    *)
(* revoke_user_sessions, and no other step, may end some of an account's     *)
(* families and not others.                                                  *)
ImplementsAuthority ==
    /\ Authority!Spec
    /\ [][Whole!Next \/ SomeRevocationEnds]_vars

=============================================================================
