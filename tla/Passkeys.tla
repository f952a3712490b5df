------------------------------ MODULE Passkeys ------------------------------
(***************************************************************************)
(* The passkey ceremonies over the PostgreSQL store, statement by          *)
(* statement, with the other handlers that take a credential, an account   *)
(* or a session away: revocation, disabling, logout.                       *)
(*                                                                         *)
(* A ceremony is two requests.  The first stores a challenge; the second   *)
(* consumes it in a transaction of its own and then, in another, locks     *)
(* passkey, account and session, in that order, and decides.  A request    *)
(* works on the copies of the rows it read, and update_passkey and         *)
(* update_user write every column of the copy back.                        *)
(*                                                                         *)
(* A session stands for its family.  The environment chooses, at the       *)
(* moment the handler looks: which challenges have expired, whether the    *)
(* principal authenticated recently, whether the origin, the signature,    *)
(* the device type and the user handle of a response are right, and which  *)
(* counter it carries.  Lockouts and session expiry are in module Sessions.*)
(***************************************************************************)
EXTENDS Naturals, FiniteSets

CONSTANTS
    Process,          \* concurrent requests
    Account,
    Credential,       \* credential identifiers of the authenticators
    Challenge,        \* ceremony identifiers
    SessionId,
    None,
    MaxCredentials,   \* passkey_max_credentials_per_user
    MaxCount          \* bound on the signature counter of a response

Finishing == {"finishRegistration", "finishAuthentication",
              "finishReauthentication"}
Beginning == {"beginRegistration", "beginAuthentication",
              "beginReauthentication"}
AllOps == Beginning \cup Finishing
              \cup {"revokePasskey", "disable", "logout"}

ASSUME LimitsAssumption == MaxCredentials \in Nat \ {0} /\ MaxCount \in Nat
ASSUME NullAssumption ==
    None \notin Process \cup Account \cup Credential \cup Challenge \cup SessionId

(* A credential_id has at most 1023 bytes, and the three tables share no row. *)
ASSUME RowsAssumption ==
    /\ IsFiniteSet(Credential)
    /\ Account \cap Credential = {}
    /\ SessionId \cap (Account \cup Credential) = {}

VARIABLES
    accounts,    \* status of each account
    passkeys,    \* rows of passkey_credential, by credential_id
    challenges,  \* rows of passkey_challenge
    sessions,    \* rows of refresh_session
    holder,      \* row locks
    request,     \* the state of each request
    outcomes     \* history: how often each challenge led to success

vars == <<accounts, passkeys, challenges, sessions, holder, request, outcomes>>

INSTANCE RowLocks WITH NoProcess <- None,
                       Lock <- Account \cup Credential \cup SessionId

-----------------------------------------------------------------------------
Status == {"active", "disabled"}

Passkey == [owner: Account \cup {None}, count: 0..MaxCount,
            revoked: BOOLEAN]

NoPasskey == [owner |-> None, count |-> 0, revoked |-> FALSE]

NewPasskey(a, count) == [owner |-> a, count |-> count, revoked |-> FALSE]

Purpose == {"registration", "authentication", "reauthentication"}

(* A challenge that has been consumed and one that has been deleted are the  *)
(* same to every statement: no UPDATE finds them again.                      *)
ChallengeRow ==
    [purpose: Purpose \cup {"unused", "closed"},
     account: Account \cup {None}, session: SessionId \cup {None}]

Unused == [purpose |-> "unused", account |-> None, session |-> None]

Closed == [Unused EXCEPT !.purpose = "closed"]

Session == [owner: Account \cup {None}, revoked: BOOLEAN]

Absent == [owner |-> None, revoked |-> FALSE]

NewSession(a) == [owner |-> a, revoked |-> FALSE]

Step == {"idle", "begin", "consume", "passkey", "user", "insert", "verify",
         "session", "rows", "commit"}

(* user and stored are the copies of the account and passkey rows.           *)
Request ==
    [op: AllOps \cup {"none"}, pc: Step,
     account: Account \cup {None}, session: SessionId \cup {None},
     challenge: Challenge \cup {None}, credential: Credential \cup {None},
     count: 0..MaxCount, user: Status, stored: Passkey]

Idle == [op |-> "none", pc |-> "idle", account |-> None,
         session |-> None, challenge |-> None, credential |-> None,
         count |-> 0, user |-> "active", stored |-> NoPasskey]

Committed == {s \in SessionId : sessions[s].owner # None}

Open == {ch \in Challenge : challenges[ch].purpose \in Purpose}

Active(a) == {c \in Credential : passkeys[c].owner = a /\ ~passkeys[c].revoked}

LiveSessions(a) == {s \in SessionId : sessions[s].owner = a /\ ~sessions[s].revoked}

At(p, pc) == request[p].pc = pc

Doing(p, op, pc) == request[p].op = op /\ request[p].pc = pc

Goto(p, pc) == request' = [request EXCEPT ![p].pc = pc]

UnchangedRows == UNCHANGED <<accounts, passkeys, challenges, sessions, outcomes>>

(* The transaction ends, by COMMIT after a failure event or by rollback: its *)
(* locks go, the rows stay.                                                  *)
End(p) ==
    /\ request' = [request EXCEPT ![p] = Idle]
    /\ ReleaseAll(p)

(* Mutation: a revocation locks the account before the passkey.              *)
RevocationSwapped == [idle |-> "user", user |-> "passkey", passkey |-> "commit"]

RevocationOrder == [idle |-> "passkey", passkey |-> "user", user |-> "commit"]

(* The statements of each deciding transaction: what comes first, and what   *)
(* after what.                                                               *)
Order ==
    [finishRegistration     |-> [idle |-> "user", user |-> "insert",
                                 insert |-> "commit"],
     finishAuthentication   |-> [idle |-> "passkey", passkey |-> "user",
                                 user |-> "verify", verify |-> "commit"],
     finishReauthentication |-> [idle |-> "passkey", passkey |-> "user",
                                 user |-> "verify", verify |-> "session",
                                 session |-> "commit"],
     revokePasskey          |-> RevocationOrder,
     logout                 |-> [idle |-> "user", user |-> "session",
                                 session |-> "commit"],
     disable                |-> [idle |-> "user", user |-> "rows",
                                 rows |-> "commit"]]

First(op) == Order[op].idle

After(p) == Order[request[p].op][request[p].pc]

-----------------------------------------------------------------------------
(* Arrivals.  A route that needs a principal has passed the authenticate     *)
(* dependency, which read account and session without a lock; what the       *)
(* handler refuses before its first transaction never shows.                 *)

Principal(s) ==
    /\ s \in Committed
    /\ ~sessions[s].revoked
    /\ accounts[sessions[s].owner] = "active"

Arrive(p, r) ==
    /\ At(p, "idle")
    /\ request' = [request EXCEPT ![p] = r]
    /\ UNCHANGED holder /\ UnchangedRows

As(s, op, pc) == [Idle EXCEPT !.op = op, !.pc = pc, !.session = s,
                              !.account = sessions[s].owner]

BeginRegistration(p, s) ==
    Arrive(p, As(s, "beginRegistration", "begin"))

BeginReauthentication(p, s) ==
    Arrive(p, As(s, "beginReauthentication", "begin"))

BeginAuthentication(p) ==
    Arrive(p, [Idle EXCEPT !.op = "beginAuthentication", !.pc = "begin"])

FinishRegistration(p, s) == Arrive(p, As(s, "finishRegistration", "consume"))

FinishAuthentication(p) ==
    Arrive(p, [Idle EXCEPT !.op = "finishAuthentication", !.pc = "consume"])

FinishReauthentication(p, s) ==
    Arrive(p, As(s, "finishReauthentication", "consume"))

RevokePasskey(p, s, c) ==
    Arrive(p, [As(s, "revokePasskey", First("revokePasskey")) EXCEPT
                  !.credential = c])

Logout(p, s) == Arrive(p, As(s, "logout", First("logout")))

Disable(p, a) ==
    Arrive(p, [Idle EXCEPT !.op = "disable", !.pc = First("disable"),
                           !.account = a])

-----------------------------------------------------------------------------
(* The transaction that begins a ceremony.                                   *)

PurposeOf == [beginRegistration |-> "registration",
              beginAuthentication |-> "authentication",
              beginReauthentication |-> "reauthentication",
              finishRegistration |-> "registration",
              finishAuthentication |-> "authentication",
              finishReauthentication |-> "reauthentication"]

(* The family a challenge is bound to: only reauthentication has one.        *)
BoundSession(r) ==
    IF PurposeOf[r.op] = "reauthentication" THEN r.session ELSE None

(* What begin_registration and begin_reauthentication read, without a lock.  *)
MayBegin(r) ==
    r.op # "beginAuthentication" =>
        /\ accounts[r.account] = "active"
        /\ IF r.op = "beginRegistration"
           THEN Cardinality(Active(r.account)) < MaxCredentials
           ELSE ~sessions[r.session].revoked

(* delete_expired_passkey_challenges.                                        *)
Without(expired) ==
    [ch \in Challenge |-> IF ch \in expired THEN Closed ELSE challenges[ch]]

(* The old challenges go, the new one comes; its foreign key needs the       *)
(* account row to be nobody else's.  What was read need not hold any more    *)
(* when the challenge is stored, but that can also change just after.        *)
Begin(p, ch, expired) ==
    LET r == request[p]
    IN  /\ At(p, "begin")
        /\ challenges[ch] = Unused
        /\ r.account # None => Free(p, r.account)
        /\ challenges' =
              IF MayBegin(r)
              THEN [Without(expired) EXCEPT
                      ![ch] = [purpose |-> PurposeOf[r.op],
                               account |-> r.account,
                               session |-> BoundSession(r)]]
              ELSE challenges
        /\ End(p)
        /\ UNCHANGED <<accounts, passkeys, sessions, outcomes>>

-----------------------------------------------------------------------------
(* The first transaction of a finishing request: consume_passkey_challenge,  *)
(* one UPDATE.                                                               *)

Matches(row, r) ==
    /\ row.purpose = PurposeOf[r.op]
    /\ row.account = r.account
    /\ row.session = BoundSession(r)

(* Mutation: the challenge is looked up, not consumed.                       *)
ConsumeNothing(p, ch, c, expired, good) ==
    LET r == request[p]
    IN  /\ At(p, "consume")
        /\ IF ~expired /\ good /\ Matches(challenges[ch], r)
           THEN /\ request' = [request EXCEPT
                      ![p].challenge = ch, ![p].credential = c,
                      ![p].pc = First(r.op)]
                /\ UNCHANGED holder
           ELSE End(p)
        /\ UnchangedRows

(* The origin is compared next; a registration is verified before its        *)
(* transaction, an assertion inside it.  Either may end the ceremony here.   *)
Consume(p, ch, c, expired, good) ==
    LET r == request[p]
        matches == ~expired /\ Matches(challenges[ch], r)
    IN  /\ At(p, "consume")
        /\ challenges' = IF matches THEN Without({ch}) ELSE challenges
        /\ IF matches /\ good
           THEN /\ request' = [request EXCEPT
                      ![p].challenge = ch, ![p].credential = c,
                      ![p].pc = First(r.op)]
                /\ UNCHANGED holder
           ELSE End(p)
        /\ UNCHANGED <<accounts, passkeys, sessions, outcomes>>

-----------------------------------------------------------------------------
(* Statements of the deciding transactions.                                  *)

(* Mutation: the passkey is read without a lock.                             *)
ReadPasskey(p) ==
    LET r == request[p]
        c == r.credential
        usable == /\ passkeys[c].owner # None
                  /\ ~passkeys[c].revoked
                  /\ r.op # "finishAuthentication" => passkeys[c].owner = r.account
    IN  /\ At(p, "passkey")
        /\ IF usable
           THEN /\ UNCHANGED holder
                /\ request' = [request EXCEPT ![p].stored = passkeys[c],
                                              ![p].account = passkeys[c].owner,
                                              ![p].pc = After(p)]
           ELSE End(p)
        /\ UnchangedRows

(* Mutation: a reauthentication takes anybody's passkey.                     *)
LockAnyPasskey(p) ==
    LET r == request[p]
        c == r.credential
        usable == passkeys[c].owner # None /\ ~passkeys[c].revoked
    IN  /\ At(p, "passkey")
        /\ passkeys[c].owner # None => Free(p, c)
        /\ IF usable
           THEN /\ Take(p, c)
                /\ request' = [request EXCEPT ![p].stored = passkeys[c],
                                              ![p].account = passkeys[c].owner,
                                              ![p].pc = After(p)]
           ELSE End(p)
        /\ UnchangedRows

(* get_passkey_by_credential_id and get_passkey_by_id, for_update.  Whose    *)
(* passkey it is decides except when it is the passkey that says who comes.  *)
LockPasskey(p) ==
    LET r == request[p]
        c == r.credential
        usable == /\ passkeys[c].owner # None
                  /\ ~passkeys[c].revoked
                  /\ r.op # "finishAuthentication" => passkeys[c].owner = r.account
    IN  /\ At(p, "passkey")
        /\ passkeys[c].owner # None => Free(p, c)
        /\ IF usable
           THEN /\ Take(p, c)
                /\ request' = [request EXCEPT ![p].stored = passkeys[c],
                                              ![p].account = passkeys[c].owner,
                                              ![p].pc = After(p)]
           ELSE End(p)
        /\ UnchangedRows

(* Mutation: the account is read without a lock.                             *)
ReadUser(p) ==
    LET r == request[p]
    IN  /\ At(p, "user")
        /\ IF accounts[r.account] = "active" \/ r.op \in {"logout", "disable"}
           THEN /\ UNCHANGED holder
                /\ request' = [request EXCEPT ![p].user = accounts[r.account],
                                              ![p].pc = After(p)]
           ELSE End(p)
        /\ UnchangedRows

(* get_user_by_id(for_update=True), then can_authenticate where it matters.  *)
LockUser(p) ==
    LET r == request[p]
    IN  /\ At(p, "user")
        /\ Free(p, r.account)
        /\ IF accounts[r.account] = "active" \/ r.op \in {"logout", "disable"}
           THEN /\ Take(p, r.account)
                /\ request' = [request EXCEPT ![p].user = accounts[r.account],
                                              ![p].pc = After(p)]
           ELSE End(p)
        /\ UnchangedRows

(* count_passkeys and insert_passkey.  A credential that has a row is a      *)
(* conflict, be it another account's or revoked; one that somebody else is   *)
(* inserting is waited for.                                                  *)
InsertPasskey(p) ==
    LET r == request[p]
    IN  /\ At(p, "insert")
        /\ IF /\ Cardinality(Active(r.account)) < MaxCredentials
              /\ passkeys[r.credential].owner = None
           THEN Take(p, r.credential) /\ Goto(p, After(p))
           ELSE End(p)
        /\ UnchangedRows

(* The signature counters a verified response may carry.                     *)
Counts == 0..MaxCount

(* verify_authentication_response: a counter, once in use, has to grow.      *)
CounterGrows(stored, count) == count > stored \/ (count = 0 /\ stored = 0)

Verify(p, count, good) ==
    LET r == request[p]
    IN  /\ At(p, "verify")
        /\ IF good /\ CounterGrows(r.stored.count, count)
           THEN /\ request' = [request EXCEPT ![p].count = count,
                                              ![p].pc = After(p)]
                /\ UNCHANGED holder
           ELSE End(p)
        /\ UnchangedRows

(* require_principal_session and logout: the session row, last.              *)
LockSession(p) ==
    LET s == request[p].session
    IN  /\ At(p, "session")
        /\ Free(p, s)
        /\ IF sessions[s].revoked THEN End(p)
           ELSE Take(p, s) /\ Goto(p, After(p))
        /\ UnchangedRows

(* revoke_user_sessions inside update_user, row after row.                   *)
Remaining(p) == {s \in LiveSessions(request[p].account) : holder[s] # p}

LockRow(p, s) ==
    /\ At(p, "rows")
    /\ s \in Remaining(p)
    /\ Take(p, s)
    /\ UNCHANGED request /\ UnchangedRows

EndRows(p) ==
    /\ At(p, "rows")
    /\ Remaining(p) = {}
    /\ Goto(p, After(p))
    /\ UNCHANGED holder /\ UnchangedRows

-----------------------------------------------------------------------------
(* Commits.                                                                  *)

Committing(p, op) ==
    /\ Doing(p, op, "commit")
    /\ End(p)
    /\ UNCHANGED challenges

Succeeds(p) ==
    outcomes' = [outcomes EXCEPT ![request[p].challenge] = @ + 1]

WriteUser(p) ==
    accounts' = [accounts EXCEPT ![request[p].account] = request[p].user]

(* update_passkey with the assertion's counter.                              *)
WritePasskey(p) ==
    passkeys' = [passkeys EXCEPT ![request[p].credential] =
                    [request[p].stored EXCEPT !.count = request[p].count]]

Register(p, count) ==
    LET r == request[p]
    IN  /\ Committing(p, "finishRegistration")
        /\ passkeys' = [passkeys EXCEPT ![r.credential] = NewPasskey(r.account, count)]
        /\ WriteUser(p)
        /\ Succeeds(p)
        /\ UNCHANGED sessions

Authenticate(p, s) ==
    /\ Committing(p, "finishAuthentication")
    /\ s \notin Committed
    /\ WritePasskey(p)
    /\ sessions' = [sessions EXCEPT
                       ![s] = NewSession(request[p].account)]
    /\ Succeeds(p)
    /\ UNCHANGED accounts

Reauthenticate(p) ==
    /\ Committing(p, "finishReauthentication")
    /\ WritePasskey(p)
    /\ Succeeds(p)
    /\ UNCHANGED <<accounts, sessions>>

CommitRevocation(p) ==
    /\ Committing(p, "revokePasskey")
    /\ passkeys' = [passkeys EXCEPT ![request[p].credential] =
                       [request[p].stored EXCEPT !.revoked = TRUE]]
    /\ WriteUser(p)
    /\ UNCHANGED <<sessions, outcomes>>

CommitLogout(p) ==
    /\ Committing(p, "logout")
    /\ sessions' = [sessions EXCEPT ![request[p].session].revoked = TRUE]
    /\ UNCHANGED <<accounts, passkeys, outcomes>>

CommitDisable(p) ==
    LET a == request[p].account
    IN  /\ Committing(p, "disable")
        /\ accounts' = [accounts EXCEPT ![a] = "disabled"]
        /\ sessions' = [s \in SessionId |->
                          [sessions[s] EXCEPT
                             !.revoked = @ \/ s \in LiveSessions(a)]]
        /\ UNCHANGED <<passkeys, outcomes>>

(* A cancelled request, a lost connection, a stopped process: the open       *)
(* transaction rolls back; a challenge consumed before it stays consumed.    *)
Abort(p) ==
    /\ ~At(p, "idle")
    /\ End(p)
    /\ UnchangedRows

-----------------------------------------------------------------------------
(* One account has logged in with its password; there are passkeys already.  *)
FirstSession == CHOOSE s \in SessionId : TRUE

Init ==
    /\ accounts = [a \in Account |-> "active"]
    /\ passkeys \in [Credential -> {NoPasskey}
                                     \cup {NewPasskey(a, 0) : a \in Account}]
    /\ \A a \in Account : Cardinality(Active(a)) <= MaxCredentials
    /\ challenges = [ch \in Challenge |-> Unused]
    /\ \E a \in Account :
          sessions = [[s \in SessionId |-> Absent] EXCEPT
                         ![FirstSession] = NewSession(a)]
    /\ NoLocks
    /\ request = [p \in Process |-> Idle]
    /\ outcomes = [ch \in Challenge |-> 0]

Arrives(p) ==
    \/ BeginAuthentication(p)
    \/ \E a \in Account : Disable(p, a)
    \/ FinishAuthentication(p)
    \/ \E s \in Committed : ~sessions[s].revoked /\ Logout(p, s)
    \/ \E s \in SessionId :
          /\ Principal(s)
          /\ \/ BeginRegistration(p, s)
             \/ BeginReauthentication(p, s)
             \/ FinishRegistration(p, s)
             \/ FinishReauthentication(p, s)
             \/ \E c \in Credential : RevokePasskey(p, s, c)

Commit(p) ==
    \/ \E count \in Counts : Register(p, count)
    \/ \E s \in SessionId : Authenticate(p, s)
    \/ Reauthenticate(p)
    \/ CommitRevocation(p)
    \/ CommitLogout(p)
    \/ CommitDisable(p)

Statement(p) ==
    \/ \E ch \in Challenge, expired \in SUBSET Open : Begin(p, ch, expired)
    \/ \E ch \in Challenge, c \in Credential, expired, good \in BOOLEAN :
          Consume(p, ch, c, expired, good)
    \/ LockPasskey(p)
    \/ LockUser(p)
    \/ InsertPasskey(p)
    \/ \E count \in Counts, good \in BOOLEAN : Verify(p, count, good)
    \/ LockSession(p)
    \/ \E s \in SessionId : LockRow(p, s)
    \/ EndRows(p)
    \/ Commit(p)

Next == \E p \in Process : Arrives(p) \/ Statement(p) \/ Abort(p)

Spec == Init /\ [][Next]_vars

-----------------------------------------------------------------------------
(* Properties.                                                               *)

(* Values have their types, a challenge names an account and a family        *)
(* exactly when its purpose says so (ck_epok_auth_passkey_challenge_user),   *)
(* and nobody but an open transaction holds a lock.                          *)
TypeOK ==
    /\ accounts \in [Account -> Status]
    /\ passkeys \in [Credential -> Passkey]
    /\ challenges \in [Challenge -> ChallengeRow]
    /\ sessions \in [SessionId -> Session]
    /\ LocksTypeOK
    /\ request \in [Process -> Request]
    /\ outcomes \in [Challenge -> Nat]
    /\ \A ch \in Open :
          /\ (challenges[ch].account = None) <=> (challenges[ch].purpose = "authentication")
          /\ (challenges[ch].session # None) <=> (challenges[ch].purpose = "reauthentication")
    /\ \A p \in Process : At(p, "idle") => \A l \in DOMAIN holder : holder[l] # p

(* Two registrations that both find room for one more do not both add one.   *)
WithinLimit == \A a \in Account : Cardinality(Active(a)) <= MaxCredentials

(* A ceremony ends in success once at most, however often and however        *)
(* concurrently its second request is sent, and for one handler only.        *)
OneOutcomePerChallenge == \A ch \in Challenge : outcomes[ch] <= 1

(* What a ceremony decided on is still so at the moment it commits: the      *)
(* account stands, the passkey is the one that was verified, unrevoked and   *)
(* at the counter the assertion was compared with, and a reauthentication    *)
(* proves the presence of the passkey's own account in the live session that *)
(* asked for it.                                                             *)
DecisionsHold ==
    \A p \in Process :
        LET r == request[p]
            passkey == passkeys[r.credential]
        IN  At(p, "commit") /\ r.op \in Finishing =>
              /\ accounts[r.account] = "active"
              /\ r.op # "finishRegistration" =>
                    /\ passkey = NewPasskey(r.account, r.stored.count)
                    /\ CounterGrows(passkey.count, r.count)
              /\ r.op = "finishReauthentication" =>
                    r.session \in LiveSessions(r.account)

(* Passkey and account rows are written back whole, by requests that may run *)
(* concurrently, and still only advance: a signature counter never goes      *)
(* back, and neither a revocation nor a disabling is ever undone.            *)
RowsOnlyAdvance ==
    [][/\ \A c \in Credential :
             /\ passkeys'[c].count >= passkeys[c].count
             /\ passkeys[c].revoked => passkeys'[c] = passkeys[c]
       /\ \A a \in Account : accounts[a] = "disabled" => accounts'[a] = "disabled"]_vars

(* The locks a request's next statement could take.                          *)
Wants ==
    [p \in Process |->
        LET r == request[p]
        IN  CASE r.pc = "passkey" /\ passkeys[r.credential].owner # None -> {r.credential}
              [] r.pc = "insert"  /\ passkeys[r.credential].owner = None -> {r.credential}
              [] r.pc \in {"user", "begin"} /\ r.account # None -> {r.account}
              [] r.pc = "session" -> {r.session}
              [] r.pc = "rows"    -> Remaining(p)
              [] OTHER -> {}]

(* Passkey, account, session: nobody takes them in another order, so that    *)
(* no two requests wait for each other.                                      *)
NoDeadlock == \A p \in Process : ~Deadlocked(p, Wants)

=============================================================================
