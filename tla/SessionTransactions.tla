------------------------ MODULE SessionTransactions ------------------------
(***************************************************************************)
(* The session handlers of one account, statement by statement, over the   *)
(* PostgreSQL store: READ COMMITTED transactions, SELECT ... FOR UPDATE,   *)
(* and UPDATE statements that lock the rows they match one after another.  *)
(*                                                                         *)
(* A row that a transaction has locked has an uncommitted version, its     *)
(* draft; everybody else reads the committed one.  A handler works on the  *)
(* copy of the account row it read, and update_user writes every column of *)
(* that copy back.                                                         *)
(*                                                                         *)
(* Whether a token has expired is the environment's choice here (module    *)
(* Sessions has the deadlines); the clock serves the lockout only.         *)
(***************************************************************************)
EXTENDS Naturals, FiniteSets

CONSTANTS
    Process,      \* concurrent requests, one transaction each
    SessionId,    \* session identifiers; also name the families
    NoSession, NoProcess,
    Ops,          \* the handlers the requests of this instance may call
    MaxAttempts,  \* login_max_attempts
    Lockout,      \* lockout_seconds
    MaxTime       \* bound on the clock

AllOps == {"login", "wrongPassword", "refresh", "logout", "changePassword",
           "disable", "enable", "revokeUserSessions", "authenticate"}

ASSUME OpsAssumption == Ops \subseteq AllOps
ASSUME LimitsAssumption ==
    /\ MaxAttempts \in Nat /\ 2 <= MaxAttempts
    /\ Lockout \in Nat /\ 1 <= Lockout
    /\ MaxTime \in Nat
ASSUME NullAssumption == NoSession \notin SessionId /\ NoProcess \notin Process
ASSUME SessionsAssumption == \E s, t \in SessionId : s # t

VARIABLES
    clock,
    account,   \* committed row of user_account
    sessions,  \* committed rows of refresh_session
    draft,     \* uncommitted version of the rows somebody has locked
    userLock,  \* who holds the account row FOR UPDATE
    rowLock,   \* who holds each session row
    request,   \* the state of each request
    ended      \* history: families a committed transaction set out to revoke

vars == <<clock, account, sessions, draft, userLock, rowLock, request, ended>>

-----------------------------------------------------------------------------
Account == [status: {"active", "disabled"}, failed: Nat, lockedUntil: Nat]

Session == [family: SessionId \cup {NoSession}, used: BOOLEAN, revoked: BOOLEAN]

Absent == [family |-> NoSession, used |-> FALSE, revoked |-> FALSE]

NewSession(family) == [Absent EXCEPT !.family = family]

(* user: waiting for the account row; row: for the presented session's row;  *)
(* decide: both are held; bulk: inside UPDATE refresh_session; insert: about *)
(* to issue a session; session: authenticate has read the account only.      *)
Step == {"idle", "user", "row", "decide", "bulk", "insert", "commit",
         "session", "done", "aborted"}

Request ==
    [op: AllOps \cup {"none"}, token: SessionId \cup {NoSession}, pc: Step,
     now: Nat, seen: Account, dirty: BOOLEAN, todo: SUBSET SessionId,
     targets: SUBSET SessionId, accepted: BOOLEAN]

CanAuthenticate(row, now) == row.status = "active" /\ ~(row.lockedUntil > now)

Committed == {s \in SessionId : sessions[s].family # NoSession}

Fresh == {s \in SessionId : draft[s].family = NoSession}

(* What a statement of p sees: the committed rows, and p's own drafts.       *)
Visible(p, s) == IF rowLock[s] = p THEN draft[s] ELSE sessions[s]

Unrevoked(p) ==
    {s \in SessionId : /\ Visible(p, s).family # NoSession
                       /\ ~Visible(p, s).revoked}

Goto(p, pc) == request' = [request EXCEPT ![p].pc = pc]

-----------------------------------------------------------------------------
(* Statements.                                                               *)

NeedsToken == {"refresh", "logout", "changePassword", "authenticate"}

(* Mutation: disabling goes ahead on an unlocked read of the account.        *)
FirstWaitUnlockedDisable(op) ==
    CASE op \in {"revokeUserSessions", "disable"} -> "decide"
      [] op = "authenticate" -> "session"
      [] OTHER               -> "user"

(* Mutation: logout locks the session it was given before the account.       *)
FirstWaitRowBeforeUser(op) ==
    CASE op = "revokeUserSessions" -> "decide"
      [] op = "authenticate"       -> "session"
      [] op = "logout"             -> "row"
      [] OTHER                     -> "user"

FirstWait(op) ==
    CASE op = "revokeUserSessions" -> "decide"
      [] op = "authenticate"       -> "session"
      [] OTHER                     -> "user"

(* The request arrives.  refresh and logout look the token up without a      *)
(* lock, authenticate and revoke_user_sessions read the account without one. *)
Begin(p, op, token) ==
    /\ request[p].pc = "idle"
    /\ IF op \in NeedsToken THEN token \in Committed ELSE token = NoSession
    /\ request' = [request EXCEPT
          ![p].op = op, ![p].token = token, ![p].now = clock,
          ![p].seen = account,
          ![p].pc = IF op = "logout" /\ sessions[token].revoked
                    THEN "done" ELSE FirstWait(op)]
    /\ UNCHANGED <<clock, account, sessions, draft, userLock, rowLock, ended>>

(* Mutation: the copy read before the wait is used after it.                 *)
LockUserStale(p) ==
    /\ request[p].pc = "user"
    /\ userLock = NoProcess
    /\ userLock' = p
    /\ Goto(p, IF request[p].op \in NeedsToken THEN "row" ELSE "decide")
    /\ UNCHANGED <<clock, account, sessions, draft, rowLock, ended>>

(* get_user_by_id / get_user_by_email (for_update=True).                     *)
LockUser(p) ==
    /\ request[p].pc = "user"
    /\ userLock = NoProcess
    /\ userLock' = p
    /\ request' = [request EXCEPT
          ![p].seen = account,
          ![p].pc = IF request[p].op \in NeedsToken THEN "row" ELSE "decide"]
    /\ UNCHANGED <<clock, account, sessions, draft, rowLock, ended>>

(* get_session_by_id(for_update=True).                                       *)
LockRow(p) ==
    LET s == request[p].token
    IN  /\ request[p].pc = "row"
        /\ rowLock[s] = NoProcess
        /\ rowLock' = [rowLock EXCEPT ![s] = p]
        /\ Goto(p, "decide")
        /\ UNCHANGED <<clock, account, sessions, draft, userLock, ended>>

(* revoke_family and revoke_user_sessions: the statement's snapshot fixes    *)
(* the rows it will visit.                                                   *)
StartUpdate(p, rows, seen, dirty) ==
    request' = [request EXCEPT
        ![p].pc = "bulk", ![p].todo = rows, ![p].seen = seen, ![p].dirty = dirty,
        ![p].targets = {Visible(p, s).family : s \in rows}]

FamilyOf(p) ==
    {s \in Unrevoked(p) :
        Visible(p, s).family = Visible(p, request[p].token).family}

(* The next row of the UPDATE: wait for its lock, then evaluate the WHERE    *)
(* clause again on its latest version.                                       *)
UpdateRow(p, s) ==
    /\ request[p].pc = "bulk"
    /\ s \in request[p].todo
    /\ rowLock[s] \in {NoProcess, p}
    /\ rowLock' = [rowLock EXCEPT ![s] = p]
    /\ draft' = [draft EXCEPT ![s].revoked = TRUE]
    /\ request' = [request EXCEPT ![p].todo = @ \ {s}]
    /\ UNCHANGED <<clock, account, sessions, userLock, ended>>

EndUpdate(p) ==
    /\ request[p].pc = "bulk"
    /\ request[p].todo = {}
    /\ Goto(p, IF request[p].op = "changePassword" THEN "insert" ELSE "commit")
    /\ UNCHANGED <<clock, account, sessions, draft, userLock, rowLock, ended>>

(* SessionIssuer.issue of a new family.                                      *)
InsertSession(p, n) ==
    /\ request[p].pc = "insert"
    /\ n \in Fresh
    /\ draft' = [draft EXCEPT ![n] = NewSession(n)]
    /\ rowLock' = [rowLock EXCEPT ![n] = p]
    /\ Goto(p, "commit")
    /\ UNCHANGED <<clock, account, sessions, userLock, ended>>

(* The transaction ends: its drafts become the rows, or vanish.              *)
Release(p) ==
    /\ userLock' = IF userLock = p THEN NoProcess ELSE userLock
    /\ rowLock' = [s \in SessionId |->
                     IF rowLock[s] = p THEN NoProcess ELSE rowLock[s]]

(* The last statement before COMMIT inserts the security event, whose        *)
(* foreign key takes a key-share lock on the account row: a handler that     *)
(* does not hold the row itself waits for whoever does.                      *)
Commit(p) ==
    /\ request[p].pc = "commit"
    /\ userLock \in {NoProcess, p}
    /\ account' = IF request[p].dirty THEN request[p].seen ELSE account
    /\ sessions' = [s \in SessionId |-> Visible(p, s)]
    /\ ended' = ended \cup request[p].targets
    /\ Release(p)
    /\ Goto(p, "done")
    /\ UNCHANGED <<clock, draft>>

(* Mutation: a failed transaction is left open on its connection.            *)
RollbackKeepingLocks(p) ==
    /\ request[p].pc \notin {"idle", "done", "aborted"}
    /\ Goto(p, "aborted")
    /\ UNCHANGED <<clock, account, sessions, draft, userLock, rowLock, ended>>

(* A refusal raised inside the transaction (wrong CSRF pair, unusable        *)
(* principal), a cancelled request, a lost connection, a deadlock victim.    *)
Rollback(p) ==
    /\ request[p].pc \notin {"idle", "done", "aborted"}
    /\ draft' = [s \in SessionId |->
                   IF rowLock[s] = p THEN sessions[s] ELSE draft[s]]
    /\ Release(p)
    /\ Goto(p, "aborted")
    /\ UNCHANGED <<clock, account, sessions, ended>>

-----------------------------------------------------------------------------
(* What each handler does to the account row it has read.                    *)

CountFailure(row, now) ==
    LET previous == IF row.lockedUntil # 0 /\ row.lockedUntil <= now
                    THEN 0 ELSE row.failed
        attempts == previous + 1
    IN  [row EXCEPT !.failed = attempts,
                    !.lockedUntil = IF attempts >= MaxAttempts
                                    THEN now + Lockout ELSE 0]

Effect(op, row, now) ==
    CASE op \in {"login", "changePassword"} ->
            [row EXCEPT !.failed = 0, !.lockedUntil = 0]
      [] op = "wrongPassword" -> CountFailure(row, now)
      [] op = "disable" -> [row EXCEPT !.status = "disabled"]
      [] op = "enable"  -> [row EXCEPT !.status = "active"]
      [] OTHER -> row

Deciding(p, op) == request[p].pc = "decide" /\ request[p].op = op

Updated(p) == Effect(request[p].op, request[p].seen, request[p].now)

Standing(p) == CanAuthenticate(request[p].seen, request[p].now)

UnchangedTables == UNCHANGED <<clock, account, sessions, userLock, ended>>

(* login with the right password; an unavailable account only gets an event. *)
Login(p) ==
    /\ Deciding(p, "login")
    /\ request' = IF Standing(p)
                  THEN [request EXCEPT ![p].seen = Updated(p),
                                       ![p].dirty = TRUE, ![p].pc = "insert"]
                  ELSE [request EXCEPT ![p].pc = "commit"]
    /\ UNCHANGED <<draft, rowLock>> /\ UnchangedTables

(* Mutation: the failure that locks does not revoke.                         *)
WrongPasswordLocksOnly(p) ==
    /\ Deciding(p, "wrongPassword")
    /\ request' = [request EXCEPT
          ![p].seen = IF Standing(p) THEN Updated(p) ELSE @,
          ![p].dirty = Standing(p), ![p].pc = "commit"]
    /\ UNCHANGED <<draft, rowLock>> /\ UnchangedTables

(* login with a wrong password: _record_password_failure.                    *)
WrongPassword(p) ==
    /\ Deciding(p, "wrongPassword")
    /\ IF ~Standing(p) THEN Goto(p, "commit")
       ELSE IF Updated(p).lockedUntil # 0
       THEN StartUpdate(p, Unrevoked(p), Updated(p), TRUE)
       ELSE request' = [request EXCEPT ![p].seen = Updated(p),
                                       ![p].dirty = TRUE, ![p].pc = "commit"]
    /\ UNCHANGED <<draft, rowLock>> /\ UnchangedTables

(* refresh of a revoked token.                                               *)
RefreshRefused(p) ==
    /\ Deciding(p, "refresh")
    /\ draft[request[p].token].revoked
    /\ Goto(p, "commit")
    /\ UNCHANGED <<draft, rowLock>> /\ UnchangedTables

(* refresh of a used or expired token, or for an account without standing.   *)
RefreshEndsFamily(p, expired) ==
    LET row == draft[request[p].token]
    IN  /\ Deciding(p, "refresh")
        /\ ~row.revoked
        /\ row.used \/ expired \/ ~Standing(p)
        /\ StartUpdate(p, FamilyOf(p), request[p].seen, FALSE)
        /\ UNCHANGED <<draft, rowLock>> /\ UnchangedTables

(* Mutation: the locked row is not checked for an earlier use.               *)
RefreshRotatesAgain(p, n) ==
    LET s == request[p].token
    IN  /\ Deciding(p, "refresh")
        /\ ~draft[s].revoked /\ Standing(p)
        /\ n \in Fresh
        /\ draft' = [draft EXCEPT ![n] = NewSession(draft[s].family),
                                  ![s].used = TRUE]
        /\ rowLock' = [rowLock EXCEPT ![n] = p]
        /\ Goto(p, "commit")
        /\ UnchangedTables

(* refresh proper: insert the successor, then update the presented row.      *)
RefreshRotates(p, n) ==
    LET s == request[p].token
    IN  /\ Deciding(p, "refresh")
        /\ ~draft[s].revoked /\ ~draft[s].used /\ Standing(p)
        /\ n \in Fresh
        /\ draft' = [draft EXCEPT ![n] = NewSession(draft[s].family),
                                  ![s].used = TRUE]
        /\ rowLock' = [rowLock EXCEPT ![n] = p]
        /\ Goto(p, "commit")
        /\ UnchangedTables

Logout(p) ==
    /\ Deciding(p, "logout")
    /\ IF draft[request[p].token].revoked
       THEN Goto(p, "commit")
       ELSE StartUpdate(p, FamilyOf(p), request[p].seen, FALSE)
    /\ UNCHANGED <<draft, rowLock>> /\ UnchangedTables

(* change_password behind require_principal_user (a refusal rolls back).     *)
ChangePassword(p) ==
    /\ Deciding(p, "changePassword")
    /\ Standing(p) /\ ~draft[request[p].token].revoked
    /\ StartUpdate(p, Unrevoked(p), Updated(p), TRUE)
    /\ UNCHANGED <<draft, rowLock>> /\ UnchangedTables

(* Mutation: disabling an account leaves its sessions alive.                 *)
DisableOnly(p) ==
    /\ Deciding(p, "disable")
    /\ request' = [request EXCEPT ![p].seen = Updated(p),
                                  ![p].dirty = TRUE, ![p].pc = "commit"]
    /\ UNCHANGED <<draft, rowLock>> /\ UnchangedTables

(* update_user with a status.                                                *)
Disable(p) ==
    /\ Deciding(p, "disable")
    /\ StartUpdate(p, Unrevoked(p), Updated(p), TRUE)
    /\ UNCHANGED <<draft, rowLock>> /\ UnchangedTables

Enable(p) ==
    /\ Deciding(p, "enable")
    /\ request' = [request EXCEPT ![p].seen = Updated(p),
                                  ![p].dirty = TRUE, ![p].pc = "commit"]
    /\ UNCHANGED <<draft, rowLock>> /\ UnchangedTables

(* revoke_user_sessions: straight to the UPDATE, no lock on the account.     *)
RevokeUserSessions(p) ==
    /\ Deciding(p, "revokeUserSessions")
    /\ StartUpdate(p, Unrevoked(p), request[p].seen, FALSE)
    /\ UNCHANGED <<draft, rowLock>> /\ UnchangedTables

(* Mutation: the session's revocation is not looked at.                      *)
AcceptAnySession(p) ==
    /\ request[p].pc = "session"
    /\ request' = [request EXCEPT ![p].accepted = Standing(p), ![p].pc = "done"]
    /\ UNCHANGED <<draft, rowLock>> /\ UnchangedTables

(* authenticate: the second of its two reads.                                *)
AuthenticateReadsSession(p) ==
    /\ request[p].pc = "session"
    /\ request' = [request EXCEPT
          ![p].accepted = Standing(p) /\ ~sessions[request[p].token].revoked,
          ![p].pc = "done"]
    /\ UNCHANGED <<draft, rowLock>> /\ UnchangedTables

Tick ==
    /\ clock < MaxTime
    /\ clock' = clock + 1
    /\ UNCHANGED <<account, sessions, draft, userLock, rowLock, request, ended>>

-----------------------------------------------------------------------------
Idle ==
    [op |-> "none", token |-> NoSession, pc |-> "idle", now |-> 0,
     seen |-> [status |-> "active", failed |-> 0, lockedUntil |-> 0],
     dirty |-> FALSE, todo |-> {}, targets |-> {}, accepted |-> FALSE]

(* One family, already refreshed once: a spent token and its successor.      *)
(* Which identifiers they have makes no difference.                          *)
First == CHOOSE s \in SessionId : TRUE
Second == CHOOSE s \in SessionId \ {First} : TRUE

Init ==
    /\ clock = 0
    /\ account \in [status : {"active"}, failed : {0, MaxAttempts - 1},
                   lockedUntil : {0}]
    /\ sessions = [[s \in SessionId |-> Absent] EXCEPT
                      ![First] = [NewSession(First) EXCEPT !.used = TRUE],
                      ![Second] = NewSession(First)]
    /\ draft = sessions
    /\ userLock = NoProcess
    /\ rowLock = [s \in SessionId |-> NoProcess]
    /\ request = [p \in Process |-> Idle]
    /\ ended = {}

Statement(p) ==
    \/ LockUser(p)
    \/ LockRow(p)
    \/ Login(p)
    \/ WrongPassword(p)
    \/ RefreshRefused(p)
    \/ \E expired \in BOOLEAN : RefreshEndsFamily(p, expired)
    \/ \E n \in SessionId : RefreshRotates(p, n)
    \/ Logout(p)
    \/ ChangePassword(p)
    \/ Disable(p)
    \/ Enable(p)
    \/ RevokeUserSessions(p)
    \/ AuthenticateReadsSession(p)
    \/ \E s \in SessionId : UpdateRow(p, s)
    \/ EndUpdate(p)
    \/ \E n \in SessionId : InsertSession(p, n)
    \/ Commit(p)

Next ==
    \/ Tick
    \/ \E p \in Process :
          \/ \E op \in Ops, token \in SessionId \cup {NoSession} :
                Begin(p, op, token)
          \/ Statement(p)
          \/ Rollback(p)

Spec == Init /\ [][Next]_vars

-----------------------------------------------------------------------------
(* Waiting.  A request is blocked when every lock its next statement could   *)
(* take is somebody else's; a set of requests that only wait for each other  *)
(* is a deadlock, which PostgreSQL resolves by aborting one of them.         *)

Blockers(p) ==
    LET r == request[p]
    IN  CASE r.pc = "user" -> {userLock}
          [] r.pc = "row"  -> {rowLock[r.token]}
          [] r.pc = "bulk" -> {rowLock[s] : s \in r.todo}
          [] r.pc = "commit" /\ userLock # p -> {userLock}
          [] OTHER -> {}

Blocked(p) == Blockers(p) # {} /\ Blockers(p) \cap {NoProcess, p} = {}

Deadlocked(p) ==
    \E group \in SUBSET Process :
        /\ p \in group
        /\ \A q \in group : Blocked(q) /\ Blockers(q) \subseteq group

(* A request that has started keeps executing its statements, and the        *)
(* database breaks a deadlock; nothing obliges a request to fail.            *)
Fairness ==
    \A p \in Process :
        /\ WF_vars(Statement(p))
        /\ WF_vars(Deadlocked(p) /\ Rollback(p))

FairSpec == Spec /\ Fairness

-----------------------------------------------------------------------------
(* Properties.                                                               *)

(* Values have their types; a draft differs from its row only under a lock.  *)
TypeOK ==
    /\ clock \in 0..MaxTime
    /\ account \in Account
    /\ sessions \in [SessionId -> Session]
    /\ draft \in [SessionId -> Session]
    /\ userLock \in Process \cup {NoProcess}
    /\ rowLock \in [SessionId -> Process \cup {NoProcess}]
    /\ request \in [Process -> Request]
    /\ ended \subseteq SessionId
    /\ \A s \in SessionId : rowLock[s] = NoProcess => draft[s] = sessions[s]

(* Once a transaction that set out to revoke a family has committed, no row  *)
(* of the family is usable: not one that a concurrent refresh was inserting  *)
(* while the UPDATE ran, either.                                             *)
EndedFamiliesAreDead ==
    \A s \in Committed : sessions[s].family \in ended => sessions[s].revoked

(* Two concurrent refreshes never both rotate: a family has at most one      *)
(* committed row whose token has not been used.                              *)
OneUnusedToken ==
    \A s, t \in Committed :
        sessions[s].family = sessions[t].family /\ ~sessions[s].used
            /\ ~sessions[t].used => s = t

(* A disabled or locked account has no committed live session, although a    *)
(* login or a refresh may be under way at the moment it loses its standing.  *)
NoSessionWithoutAccount ==
    ~CanAuthenticate(account, clock) =>
        \A s \in Committed : sessions[s].revoked

(* No transaction ever waits in a circle.                                    *)
NoDeadlock == \A p \in Process : ~Deadlocked(p)

(* No update of the account row is lost: what a committed handler writes,    *)
(* every column of the copy it read, is its own effect on the row as it is   *)
(* at that moment.                                                           *)
AccountWritesAreSerial ==
    [][\A p \in Process :
          request[p].pc = "commit" /\ request'[p].pc = "done"
            /\ request[p].dirty
          => account' = Effect(request[p].op, account, request[p].now)]_vars

(* authenticate reads the account, then the session, with no lock.  When it  *)
(* accepts, the account still has its standing: nothing that takes it away   *)
(* can slip between the two reads and leave the session valid.               *)
AcceptanceIsCurrent ==
    [][\A p \in Process :
          request'[p].accepted /\ ~request[p].accepted
          => CanAuthenticate(account, request[p].now)]_vars

(* Every request that starts ends, by its own commit or by a rollback.       *)
EveryRequestEnds ==
    \A p \in Process :
        request[p].pc # "idle" ~> request[p].pc \in {"done", "aborted"}

-----------------------------------------------------------------------------
(* Committed state read as SessionAuthority's.                               *)

OpenFamilies ==
    {sessions[s].family : s \in {r \in Committed : ~sessions[r].revoked}}

Authority ==
    INSTANCE SessionAuthority WITH
        User   <- {"account"},
        Family <- SessionId,
        SomeRevoked <- "revokeUserSessions" \in Ops,
        barred <- IF CanAuthenticate(account, clock) THEN {} ELSE {"account"},
        open   <- [u \in {"account"} |-> OpenFamilies],
        closed <- {sessions[s].family : s \in Committed} \ OpenFamilies

(* Seen through what has been committed, the interleaved statements of the   *)
(* handlers implement SessionAuthority; without revoke_user_sessions among   *)
(* them, they implement it with families that end one at a time or all       *)
(* together.                                                                 *)
ImplementsAuthority == Authority!Spec

=============================================================================
