--------------------------- MODULE Administrators ---------------------------
(***************************************************************************)
(* User administration over the PostgreSQL store, statement by statement:  *)
(* the two ways to make the initial administrator (create_admin and        *)
(* ensure_initial_admin), creation and provisioning, update_user, and the  *)
(* handlers that lock one account and write its whole row back, of which   *)
(* activation and password reset stand for all.                            *)
(*                                                                         *)
(* What must hold of several accounts at once, that an administrator       *)
(* remains and that the initial one is made once, is read by a count that  *)
(* locks no row; it rests on the advisory lock every writer of roles takes *)
(* first.  An account stands for its e-mail address.  Sessions, passwords  *)
(* and links are in other modules.                                         *)
(***************************************************************************)
CONSTANTS
    Process,     \* concurrent requests
    Account,
    AdminLock,   \* _ADMIN_LOCK_ID
    None

ASSUME NullAssumption == None \notin Process \cup Account
ASSUME LockAssumption == AdminLock \notin Account

VARIABLES
    users,         \* rows of user_account
    bootstrapped,  \* history: accounts made as the initial administrator
    holder,        \* row locks and the advisory lock
    request        \* the state of each request

vars == <<users, bootstrapped, holder, request>>

INSTANCE RowLocks WITH NoProcess <- None, Lock <- Account \cup {AdminLock}

-----------------------------------------------------------------------------
Status == {"pending", "active", "disabled"}

User == [status: Status \cup {"absent"}, admin: BOOLEAN]

AbsentUser == [status |-> "absent", admin |-> FALSE]

NewUser(status, admin) == [status |-> status, admin |-> admin]

Exists(a) == users[a].status # "absent"

(* count_users_with_role.                                                    *)
Admins == {a \in Account : users[a].admin}

ActiveAdmins == {a \in Admins : users[a].status = "active"}

Bootstrapping == {"createAdmin", "ensureInitialAdmin"}
Creating == Bootstrapping \cup {"createUser"}
AllOps == Creating \cup {"updateUser", "activate", "resetPassword"}

Step == {"idle", "lock", "user", "count", "insert", "commit"}

(* user is the copy of the row, target the row the request is to write.      *)
Request == [op: AllOps \cup {"none"}, pc: Step, account: Account \cup {None},
            user: User, target: User]

Idle == [op |-> "none", pc |-> "idle", account |-> None,
         user |-> AbsentUser, target |-> AbsentUser]

At(p, pc) == request[p].pc = pc

Goto(p, pc) == request' = [request EXCEPT ![p].pc = pc]

UnchangedRows == UNCHANGED <<users, bootstrapped>>

(* COMMIT or ROLLBACK: every lock goes.                                      *)
End(p) ==
    /\ request' = [request EXCEPT ![p] = Idle]
    /\ ReleaseAll(p)

(* Mutation: an update takes the account before the advisory lock.           *)
UpdateSwapped ==
    [idle |-> "user", user |-> "lock", lock |-> "count", count |-> "commit"]

(* Mutation: an update does without the advisory lock.                       *)
UpdateUnlocked == [idle |-> "user", user |-> "count", count |-> "commit"]

UpdateOrder ==
    [idle |-> "lock", lock |-> "user", user |-> "count", count |-> "commit"]

(* Mutation: the initial activation counts before it takes the lock.         *)
InitialLate ==
    [idle |-> "user", user |-> "count", count |-> "lock", lock |-> "insert",
     insert |-> "commit"]

InitialOrder ==
    [idle |-> "lock", lock |-> "user", user |-> "count", count |-> "insert",
     insert |-> "commit"]

OwnRowOrder == [idle |-> "user", user |-> "commit"]

(* The statements of each transaction: what comes first, and what after what.*)
Order ==
    [createAdmin        |-> [idle |-> "lock", lock |-> "count",
                             count |-> "insert", insert |-> "commit"],
     ensureInitialAdmin |-> InitialOrder,
     createUser         |-> [idle |-> "insert", insert |-> "commit"],
     updateUser         |-> UpdateOrder,
     activate           |-> OwnRowOrder,
     resetPassword      |-> OwnRowOrder]

First(op) == Order[op].idle

After(p) == Order[request[p].op][request[p].pc]

-----------------------------------------------------------------------------
(* Arrivals.                                                                 *)

Arrive(p, op, a, target) ==
    /\ At(p, "idle")
    /\ request' = [request EXCEPT
                     ![p] = [op |-> op, pc |-> First(op), account |-> a,
                             user |-> AbsentUser, target |-> target]]
    /\ UNCHANGED holder
    /\ UnchangedRows

CreateAdmin(p, a) == Arrive(p, "createAdmin", a, NewUser("active", TRUE))

EnsureInitialAdmin(p, a) ==
    Arrive(p, "ensureInitialAdmin", a, NewUser("pending", TRUE))

(* create_user gives any role, and no other lock than the new row's.         *)
CreateUser(p, a, admin) == Arrive(p, "createUser", a, NewUser("active", admin))

(* provision refuses the administrator's role.                               *)
Provision(p, a) == Arrive(p, "createUser", a, NewUser("pending", FALSE))

(* target is the row that results: what the update does not mention is as it *)
(* will be when the row is read.                                             *)
UpdateUser(p, a, status, admin) ==
    /\ Exists(a)
    /\ Arrive(p, "updateUser", a, NewUser(status, admin))

OwnRow(p, a, op) ==
    /\ Exists(a)
    /\ Arrive(p, op, a, AbsentUser)

-----------------------------------------------------------------------------
(* Statements.                                                               *)

(* acquire_admin_invariant_lock.                                             *)
LockAdmins(p) ==
    /\ At(p, "lock")
    /\ Take(p, AdminLock)
    /\ Goto(p, After(p))
    /\ UnchangedRows

(* An update may not name the pending status, nor make a pending account     *)
(* active: it can stay pending or be disabled.                               *)
Permitted(user, target) ==
    user.status = "pending" \/ target.status = "pending" =>
        target.status \in {user.status, "disabled"}

(* What the handlers refuse once they have the account row.                  *)
GoesOn(op, user, target) ==
    CASE op = "ensureInitialAdmin" -> user.status = "absent"
      [] op = "updateUser" -> Permitted(user, target)
      [] op = "activate" -> user.status = "pending"
      [] OTHER -> TRUE

(* Mutation: the account is read without a lock.                             *)
ReadUser(p) ==
    LET r == request[p]
        user == users[r.account]
    IN  /\ At(p, "user")
        /\ IF GoesOn(r.op, user, r.target)
           THEN /\ UNCHANGED holder
                /\ request' = [request EXCEPT ![p].user = user, ![p].pc = After(p)]
           ELSE End(p)
        /\ UnchangedRows

(* get_user_by_id and get_user_by_email, for_update: a row that is not there *)
(* is not locked.                                                            *)
LockUser(p) ==
    LET r == request[p]
        user == users[r.account]
    IN  /\ At(p, "user")
        /\ Exists(r.account) => Free(p, r.account)
        /\ IF GoesOn(r.op, user, r.target)
           THEN /\ IF Exists(r.account) THEN Take(p, r.account) ELSE UNCHANGED holder
                /\ request' = [request EXCEPT ![p].user = user, ![p].pc = After(p)]
           ELSE End(p)
        /\ UnchangedRows

LosesActiveAdmin(user, target) ==
    user = NewUser("active", TRUE) /\ target # user

(* count_users_with_role: all of them for the initial administrator, the     *)
(* active ones, of which the account is one, when an update takes one away.  *)
Count(p) ==
    LET r == request[p]
        passes == IF r.op = "updateUser"
                  THEN LosesActiveAdmin(r.user, r.target) =>
                           ActiveAdmins \ {r.account} # {}
                  ELSE Admins = {}
    IN  /\ At(p, "count")
        /\ IF passes THEN Goto(p, After(p)) /\ UNCHANGED holder ELSE End(p)
        /\ UnchangedRows

(* insert_user: an address that is taken is a conflict; one that is being    *)
(* inserted is waited for.                                                   *)
InsertUser(p) ==
    LET r == request[p]
    IN  /\ At(p, "insert")
        /\ IF Exists(r.account) THEN End(p)
           ELSE Take(p, r.account) /\ Goto(p, After(p))
        /\ UnchangedRows

-----------------------------------------------------------------------------
(* Commits.  update_user writes the whole row.                               *)

Committing(p, ops) ==
    /\ request[p].op \in ops
    /\ At(p, "commit")
    /\ End(p)

Write(p, user) == users' = [users EXCEPT ![request[p].account] = user]

CommitCreation(p) ==
    /\ Committing(p, Creating)
    /\ Write(p, request[p].target)
    /\ bootstrapped' = IF request[p].op \in Bootstrapping
                       THEN bootstrapped \cup {request[p].account}
                       ELSE bootstrapped

CommitUpdate(p) ==
    /\ Committing(p, {"updateUser"})
    /\ Write(p, request[p].target)
    /\ UNCHANGED bootstrapped

CommitActivation(p) ==
    /\ Committing(p, {"activate"})
    /\ Write(p, [request[p].user EXCEPT !.status = "active"])
    /\ UNCHANGED bootstrapped

CommitReset(p) ==
    /\ Committing(p, {"resetPassword"})
    /\ Write(p, request[p].user)
    /\ UNCHANGED bootstrapped

(* A cancelled request, a lost connection, a stopped process.                *)
Abort(p) ==
    /\ ~At(p, "idle")
    /\ End(p)
    /\ UnchangedRows

-----------------------------------------------------------------------------
(* An empty database.                                                        *)
Init ==
    /\ users = [a \in Account |-> AbsentUser]
    /\ bootstrapped = {}
    /\ NoLocks
    /\ request = [p \in Process |-> Idle]

Arrives(p) ==
    \E a \in Account :
        \/ CreateAdmin(p, a)
        \/ EnsureInitialAdmin(p, a)
        \/ \E admin \in BOOLEAN : CreateUser(p, a, admin)
        \/ Provision(p, a)
        \/ \E status \in Status, admin \in BOOLEAN : UpdateUser(p, a, status, admin)
        \/ \E op \in {"activate", "resetPassword"} : OwnRow(p, a, op)

Statement(p) ==
    \/ LockAdmins(p)
    \/ LockUser(p)
    \/ Count(p)
    \/ InsertUser(p)

Commit(p) ==
    \/ CommitCreation(p)
    \/ CommitUpdate(p)
    \/ CommitActivation(p)
    \/ CommitReset(p)

Next == \E p \in Process : Arrives(p) \/ Statement(p) \/ Commit(p) \/ Abort(p)

Spec == Init /\ [][Next]_vars

-----------------------------------------------------------------------------
(* Properties.                                                               *)

(* Values have their types, and nobody but an open transaction holds a lock. *)
TypeOK ==
    /\ users \in [Account -> User]
    /\ bootstrapped \subseteq Account
    /\ LocksTypeOK
    /\ request \in [Process -> Request]
    /\ \A p \in Process : At(p, "idle") => \A l \in DOMAIN holder : holder[l] # p

(* Concurrent operations cannot remove the final active administrator        *)
(* (docs/SECURITY_ASSURANCE.md, "Last administrator"): two who disable or    *)
(* demote each other do not both succeed.                                    *)
AdministratorRemains ==
    [][ActiveAdmins # {} => ActiveAdmins' # {}]_vars

(* Concurrent bootstraps make one initial administrator (docs/               *)
(* SECURITY_ASSURANCE.md, "Initial administrator bootstrap"): none is made   *)
(* beside one that a bootstrap made before and that still is administrator.  *)
OneBootstrap ==
    [][\A a \in bootstrapped' \ bootstrapped :
          \A b \in bootstrapped : ~users[b].admin]_vars

(* An account that has been activated, or disabled, never falls back to      *)
(* waiting for its activation: nobody writes an older copy of the row back.  *)
ActivationSticks ==
    [][\A a \in Account :
          users[a].status \in {"active", "disabled"} => users'[a].status # "pending"]_vars

(* The locks a request's next statement could take.                          *)
Wants ==
    [p \in Process |->
        LET r == request[p]
        IN  CASE r.pc = "lock" -> {AdminLock}
              [] r.pc = "user" /\ Exists(r.account) -> {r.account}
              [] r.pc = "insert" /\ ~Exists(r.account) -> {r.account}
              [] OTHER -> {}]

(* The advisory lock comes first: nobody who has an account waits for it.    *)
NoDeadlock == \A p \in Process : ~Deadlocked(p, Wants)

=============================================================================
