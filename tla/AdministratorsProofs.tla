------------------------ MODULE AdministratorsProofs ------------------------
(***************************************************************************)
(* Theorems about module Administrators, for every set of processes and    *)
(* accounts: the last active administrator is never lost.                  *)
(*                                                                         *)
(* The argument is the one the code relies on: a request that writes a row *)
(* back holds that row and has its present value, and an update that takes *)
(* an active administrator away has seen another one under the advisory    *)
(* lock, while every other writer of rows takes none away.                 *)
(***************************************************************************)
EXTENDS Administrators, TLAPS

(* The requests that write an existing row back.                             *)
Rewriting == {"updateUser", "activate", "resetPassword"}

(* The statement a request is at belongs to its handler.                     *)
Course(r) ==
    /\ r.op = "none" <=> r.pc = "idle"
    /\ r.op # "none" => r.account \in Account
    /\ r.op = "createAdmin" => r.pc \in {"lock", "count", "insert", "commit"}
    /\ r.op = "ensureInitialAdmin" =>
          r.pc \in {"lock", "user", "count", "insert", "commit"}
    /\ r.op = "createUser" => r.pc \in {"insert", "commit"}
    /\ r.op = "updateUser" => r.pc \in {"lock", "user", "count", "commit"}
    /\ r.op \in {"activate", "resetPassword"} => r.pc \in {"user", "commit"}
    /\ r.op \in Creating => r.target.status # "absent"
    /\ r.op = "updateUser" => r.target.status # "absent"

(* The requests that take the advisory lock first.                           *)
Locking == Bootstrapping \cup {"updateUser"}

(* No account a bootstrap made is administrator now.                         *)
NoneBootstrapped == \A a \in bootstrapped : ~users[a].admin

(* What a request holds and knows at each statement.                         *)
Holds(p) ==
    LET r == request[p]
    IN  /\ r.op \in Locking /\ r.pc # "lock" => holder[AdminLock] = p
        /\ r.op \in Rewriting => Exists(r.account)
        /\ r.op \in Rewriting /\ r.pc \in {"count", "commit"} =>
              holder[r.account] = p /\ r.user = users[r.account]
        /\ r.op \in Creating /\ r.pc = "commit" =>
              holder[r.account] = p /\ ~Exists(r.account)
        /\ /\ r.op = "updateUser" /\ r.pc = "commit"
           /\ LosesActiveAdmin(r.user, r.target)
           => ActiveAdmins \ {r.account} # {}
        /\ r.op = "updateUser" /\ r.pc \in {"count", "commit"} =>
              Permitted(r.user, r.target)
        /\ r.op \in Bootstrapping /\ r.pc \in {"insert", "commit"} =>
              NoneBootstrapped

(* A bootstrapped account has its row: none is ever deleted.                 *)
BootstrappedExist == \A a \in bootstrapped : Exists(a)

(* The inductive invariant.                                                  *)
IInv ==
    /\ TypeOK
    /\ BootstrappedExist
    /\ \A p \in Process : Course(request[p])
    /\ \A p \in Process : Holds(p)

-----------------------------------------------------------------------------
(* What comes next in each handler.                                          *)
LEMMA Courses ==
    ASSUME NEW p \in Process, Course(request[p]),
           request[p].op \in AllOps, ~At(p, "commit")
    PROVE  /\ After(p) \in Step \ {"idle"}
           /\ request[p].op = "createAdmin" =>
                 \/ At(p, "lock") /\ After(p) = "count"
                 \/ At(p, "count") /\ After(p) = "insert"
                 \/ At(p, "insert") /\ After(p) = "commit"
           /\ request[p].op = "ensureInitialAdmin" =>
                 \/ At(p, "lock") /\ After(p) = "user"
                 \/ At(p, "user") /\ After(p) = "count"
                 \/ At(p, "count") /\ After(p) = "insert"
                 \/ At(p, "insert") /\ After(p) = "commit"
           /\ request[p].op = "createUser" => At(p, "insert") /\ After(p) = "commit"
           /\ request[p].op = "updateUser" =>
                 \/ At(p, "lock") /\ After(p) = "user"
                 \/ At(p, "user") /\ After(p) = "count"
                 \/ At(p, "count") /\ After(p) = "commit"
           /\ request[p].op \in {"activate", "resetPassword"} =>
                 At(p, "user") /\ After(p) = "commit"
           /\ request[p].op \in Creating /\ After(p) = "commit" => At(p, "insert")
  <1> DEFINE op == request[p].op
             pc == request[p].pc
  <1>1. CASE op = "createAdmin"
    <2>1. pc \in {"lock", "count", "insert"}
      BY <1>1 DEF Course, At
    <2>2. After(p) = [idle |-> "lock", lock |-> "count",
                      count |-> "insert", insert |-> "commit"][pc]
      BY <1>1 DEF After, Order
    <2>3. QED
      BY <1>1, <2>1, <2>2 DEF At, Step
  <1>2. CASE op = "ensureInitialAdmin"
    <2>1. pc \in {"lock", "user", "count", "insert"}
      BY <1>2 DEF Course, At
    <2>2. After(p) = InitialOrder[pc]
      BY <1>2 DEF After, Order
    <2>3. QED
      BY <1>2, <2>1, <2>2 DEF At, Step, InitialOrder
  <1>3. CASE op = "createUser"
    <2>1. pc = "insert"
      BY <1>3 DEF Course, At
    <2>2. After(p) = [idle |-> "insert", insert |-> "commit"][pc]
      BY <1>3 DEF After, Order
    <2>3. QED
      BY <1>3, <2>1, <2>2 DEF At, Step
  <1>4. CASE op = "updateUser"
    <2>1. pc \in {"lock", "user", "count"}
      BY <1>4 DEF Course, At
    <2>2. After(p) = UpdateOrder[pc]
      BY <1>4 DEF After, Order
    <2>3. QED
      BY <1>4, <2>1, <2>2 DEF At, Step, UpdateOrder, Creating, Bootstrapping
  <1>5. CASE op \in {"activate", "resetPassword"}
    <2>1. pc = "user"
      BY <1>5 DEF Course, At
    <2>2. After(p) = OwnRowOrder[pc]
      BY <1>5 DEF After, Order
    <2>3. QED
      BY <1>5, <2>1, <2>2 DEF At, Step, OwnRowOrder, Creating, Bootstrapping
  <1>6. QED
    BY <1>1, <1>2, <1>3, <1>4, <1>5 DEF AllOps, Creating, Bootstrapping

(* A request's first statement is one of its handler's.                      *)
LEMMA FirstSteps ==
    /\ First("createAdmin") = "lock" /\ First("ensureInitialAdmin") = "lock"
    /\ First("createUser") = "insert" /\ First("updateUser") = "lock"
    /\ First("activate") = "user" /\ First("resetPassword") = "user"
  BY DEF First, Order, UpdateOrder, InitialOrder, OwnRowOrder

(* Nobody's locks but its own change when a request takes or releases some.  *)
LEMMA OthersKeepLocks ==
    ASSUME LocksTypeOK, NEW p \in Process, NEW q \in Process, p # q,
           NEW l \in Account \cup {AdminLock}, holder[l] = q,
           \/ UNCHANGED holder
           \/ ReleaseAll(p)
           \/ \E m \in Account \cup {AdminLock} : Take(p, m)
    PROVE  holder'[l] = q
  BY NullAssumption DEF LocksTypeOK, ReleaseAll, Take, Free

(* Locks keep their type.                                                    *)
LEMMA LocksType ==
    ASSUME LocksTypeOK, NEW p \in Process,
           \/ UNCHANGED holder
           \/ ReleaseAll(p)
           \/ \E m \in Account \cup {AdminLock} : Take(p, m)
    PROVE  LocksTypeOK'
  BY DEF LocksTypeOK, ReleaseAll, Take

-----------------------------------------------------------------------------
(* What a step of p may do to the rows that others rely on: it writes no row *)
(* another request holds, removes none, and takes no active administrator    *)
(* away while another request has the advisory lock.                         *)
Gentle(p) ==
    \A q \in Process \ {p} :
        /\ \A a \in Account : Exists(a) => Exists(a)'
        /\ \A a \in Account : holder[a] = q => users'[a] = users[a]
        /\ holder[AdminLock] = q =>
              /\ ActiveAdmins \subseteq ActiveAdmins'
              /\ NoneBootstrapped => NoneBootstrapped'

(* What another request holds and knows is not disturbed.                    *)
LEMMA OthersHold ==
    ASSUME LocksTypeOK, NEW p \in Process, NEW q \in Process, p # q,
           Course(request[q]), Holds(q), Gentle(p),
           request'[q] = request[q],
           \/ UNCHANGED holder
           \/ ReleaseAll(p)
           \/ \E m \in Account \cup {AdminLock} : Take(p, m)
    PROVE  Holds(q)'
  <1> DEFINE r == request[q]
  <1>1. \A l \in Account \cup {AdminLock} : holder[l] = q => holder'[l] = q
    BY OthersKeepLocks
  <1>2. r.op # "none" => r.account \in Account
    BY DEF Course
  <1>3. r.op \in Locking /\ r.pc # "lock" => holder'[AdminLock] = q
    BY <1>1 DEF Holds
  <1>4. r.op \in Rewriting => Exists(r.account)'
    BY <1>2 DEF Holds, Gentle, Rewriting, Exists
  <1>5. r.op \in Rewriting /\ r.pc \in {"count", "commit"} =>
            holder'[r.account] = q /\ r.user = users'[r.account]
    BY <1>1, <1>2 DEF Holds, Gentle, Rewriting
  <1>6. r.op \in Creating /\ r.pc = "commit" =>
            holder'[r.account] = q /\ users'[r.account].status = "absent"
    BY <1>1, <1>2 DEF Holds, Gentle, Creating, Bootstrapping, Exists
  <1>7. r.op = "updateUser" /\ r.pc = "commit" /\ LosesActiveAdmin(r.user, r.target)
            => ActiveAdmins' \ {r.account} # {}
    BY DEF Holds, Gentle, Locking
  <1>8. r.op = "updateUser" /\ r.pc \in {"count", "commit"} => Permitted(r.user, r.target)
    BY DEF Holds
  <1>9. r.op \in Bootstrapping /\ r.pc \in {"insert", "commit"} => NoneBootstrapped'
    BY DEF Holds, Gentle, Locking
  <1>10. QED
    BY <1>3, <1>4, <1>5, <1>6, <1>7, <1>8, <1>9
    DEF Holds, Exists, LosesActiveAdmin, Permitted

(* One request moves, gently: then it has only itself to look after.         *)
LEMMA OneMoves ==
    ASSUME IInv, NEW p \in Process, NEW r \in Request,
           request' = [request EXCEPT ![p] = r],
           Course(r), Holds(p)', Gentle(p),
           users' \in [Account -> User], bootstrapped' \subseteq Account,
           BootstrappedExist',
           \/ ReleaseAll(p)
           \/ /\ r.pc # "idle"
              /\ \/ UNCHANGED holder
                 \/ \E m \in Account \cup {AdminLock} : Take(p, m)
    PROVE  IInv'
  <1>1. LocksTypeOK'
    BY LocksType DEF IInv, TypeOK
  <1>2. request' \in [Process -> Request]
    BY DEF IInv, TypeOK
  <1>3. request'[p] = r /\ \A q \in Process : q # p => request'[q] = request[q]
    BY DEF IInv, TypeOK
  <1>4. ASSUME NEW q \in Process, At(q, "idle")', NEW l \in DOMAIN holder'
        PROVE  holder'[l] # q
    <2>1. l \in Account \cup {AdminLock} /\ l \in DOMAIN holder
      BY <1>1 DEF LocksTypeOK, IInv, TypeOK
    <2>2. CASE q = p
      BY <2>1, <2>2, <1>3, <1>4, NullAssumption DEF At, ReleaseAll, IInv, TypeOK, LocksTypeOK
    <2>3. CASE q # p
      <3>1. At(q, "idle")
        BY <2>3, <1>3, <1>4 DEF At
      <3>2. holder[l] # q
        BY <2>1, <3>1 DEF IInv, TypeOK
      <3>3. QED
        BY <2>1, <2>3, <3>2, NullAssumption DEF ReleaseAll, Take, IInv, TypeOK, LocksTypeOK
    <2>4. QED
      BY <2>2, <2>3
  <1>5. TypeOK'
    BY <1>1, <1>2, <1>4 DEF TypeOK
  <1>6. \A q \in Process : Course(request[q])'
    BY <1>3 DEF IInv, Course
  <1>7. ASSUME NEW q \in Process PROVE Holds(q)'
    <2>1. CASE q = p
      BY <2>1
    <2>2. CASE q # p
      BY <2>2, <1>3, OthersHold DEF IInv, TypeOK
    <2>3. QED
      BY <2>1, <2>2
  <1>8. QED
    BY <1>5, <1>6, <1>7 DEF IInv

-----------------------------------------------------------------------------
(* A transaction that ends without a write, or that writes the row it holds, *)
(* leaves the invariant.                                                     *)
LEMMA Ending ==
    ASSUME IInv, NEW p \in Process, End(p), Gentle(p),
           users' \in [Account -> User], bootstrapped' \subseteq Account,
           BootstrappedExist'
    PROVE  IInv'
  <1>1. Idle \in Request /\ Idle.pc = "idle"
    BY DEF Idle, Request, Step, AbsentUser, User
  <1>2. Course(Idle)
    BY DEF Idle, Course, Creating, Bootstrapping
  <1>3. request' = [request EXCEPT ![p] = Idle] /\ ReleaseAll(p)
    BY DEF End
  <1>4. request'[p] = Idle
    BY <1>3 DEF IInv, TypeOK
  <1>5. Holds(p)'
    BY <1>4 DEF Holds, Idle, Rewriting, Creating, Bootstrapping, Locking
  <1>6. QED
    BY <1>1, <1>2, <1>3, <1>5, OneMoves

(* A statement that writes no row disturbs nobody.                           *)
LEMMA Quiet ==
    ASSUME NEW p \in Process, UnchangedRows
    PROVE  Gentle(p) /\ (BootstrappedExist => BootstrappedExist')
  BY DEF UnchangedRows, Gentle, Exists, ActiveAdmins, Admins, NoneBootstrapped,
         BootstrappedExist

(* Refusals, conflicts and rollbacks.                                        *)
LEMMA Refusing ==
    ASSUME IInv, NEW p \in Process, End(p), UnchangedRows PROVE IInv'
  BY Ending, Quiet DEF UnchangedRows, IInv, TypeOK

(* The rows stay and the request goes on.                                    *)
LEMMA GoingOn ==
    ASSUME IInv, NEW p \in Process, NEW r \in Request, UnchangedRows,
           request' = [request EXCEPT ![p] = r], r.pc # "idle",
           Course(r), Holds(p)',
           \/ UNCHANGED holder
           \/ \E m \in Account \cup {AdminLock} : Take(p, m)
    PROVE  IInv'
  BY OneMoves, Quiet DEF UnchangedRows, IInv, TypeOK

(* A request comes with an account that may, or must, exist, and no lock.    *)
LEMMA Arriving ==
    ASSUME IInv, NEW p \in Process, NEW op \in AllOps, NEW a \in Account,
           NEW target \in User, Arrive(p, op, a, target),
           op \in Creating \cup {"updateUser"} => target.status # "absent",
           op \in Rewriting => Exists(a)
    PROVE  IInv'
  <1> DEFINE r == [op |-> op, pc |-> First(op), account |-> a,
                   user |-> AbsentUser, target |-> target]
  <1>1. First(op) \in {"lock", "insert", "user"}
    BY FirstSteps DEF AllOps, Creating, Bootstrapping
  <1>2. r \in Request /\ r.pc # "idle"
    BY <1>1 DEF Request, Step, AbsentUser, User
  <1>3. Course(r)
    BY FirstSteps DEF Course, AllOps, Creating, Bootstrapping
  <1>4. request' = [request EXCEPT ![p] = r] /\ UNCHANGED holder /\ UnchangedRows
    BY DEF Arrive
  <1>5. request'[p] = r
    BY <1>4 DEF IInv, TypeOK
  <1>6. Holds(p)'
    <2>1. r.op \in Locking => r.pc = "lock"
      BY FirstSteps DEF Locking, Bootstrapping
    <2>2. r.op \in Rewriting => Exists(r.account)' /\ r.pc \in {"lock", "user"}
      BY <1>4, FirstSteps DEF Rewriting, Exists, UnchangedRows
    <2>3. r.op \in Creating => r.pc # "commit"
      BY <1>1
    <2> HIDE DEF r
    <2>4. QED
      BY <1>5, <2>1, <2>2, <2>3 DEF Holds, Locking
  <1> HIDE DEF r
  <1>7. QED
    BY <1>2, <1>3, <1>4, <1>6, GoingOn

-----------------------------------------------------------------------------
(* The advisory lock comes before anything is known of a row.                *)
LEMMA LockAdminsKeeps ==
    ASSUME IInv, NEW p \in Process, LockAdmins(p) PROVE IInv'
  <1> DEFINE r == [request[p] EXCEPT !.pc = After(p)]
  <1>1. request[p] \in Request /\ Course(request[p]) /\ Holds(p)
    BY DEF IInv, TypeOK
  <1>2. request[p].pc = "lock" /\ request[p].op \in AllOps \ {"activate", "resetPassword", "createUser"}
    BY <1>1 DEF LockAdmins, At, Course, Request, AllOps, Creating, Bootstrapping
  <1>3. After(p) \in Step \ {"idle"} /\ Course(r)
    BY <1>1, <1>2, Courses DEF Course, Request, At, Creating, Bootstrapping
  <1>4. r \in Request /\ r.pc # "idle"
    BY <1>1, <1>3 DEF Request
  <1>5. request' = [request EXCEPT ![p] = r] /\ Take(p, AdminLock) /\ UnchangedRows
    BY DEF LockAdmins, Goto
  <1>6. request'[p] = r
    BY <1>5 DEF IInv, TypeOK
  <1>7. Holds(p)'
    <2>1. holder'[AdminLock] = p
      BY <1>5 DEF Take, IInv, TypeOK, LocksTypeOK
    <2>2. r.op = request[p].op /\ r.account = request[p].account
      BY <1>1 DEF Request
    <2>3. r.op \in Rewriting => /\ r.op = "updateUser" /\ r.pc = "user"
                               /\ users'[r.account].status # "absent"
      BY <1>1, <1>2, <1>5, <2>2, Courses DEF Rewriting, At, Request, Holds, Exists, UnchangedRows
    <2>4. r.op \in Creating => r.pc \notin {"insert", "commit"}
      BY <1>1, <1>2, Courses DEF Creating, Bootstrapping, At, Request
    <2> HIDE DEF r
    <2>5. QED
      BY <1>6, <2>1, <2>3, <2>4 DEF Holds, Rewriting, Exists, Creating, Bootstrapping
  <1> HIDE DEF r
  <1>8. QED
    BY <1>3, <1>4, <1>5, <1>7, GoingOn

(* A row that is there is locked when it is read: what the request goes on   *)
(* with is the row's present value.                                          *)
LEMMA LockUserKeeps ==
    ASSUME IInv, NEW p \in Process, LockUser(p) PROVE IInv'
  <1> DEFINE user == users[request[p].account]
             r == [request[p] EXCEPT !.user = user, !.pc = After(p)]
  <1>1. request[p] \in Request /\ Course(request[p]) /\ Holds(p)
    BY DEF IInv, TypeOK
  <1>2. CASE End(p)
    BY <1>2, Refusing DEF LockUser
  <1>3. CASE ~End(p)
    <2>1. /\ request' = [request EXCEPT ![p] = r] /\ UnchangedRows
          /\ IF Exists(request[p].account) THEN Take(p, request[p].account)
             ELSE UNCHANGED holder
          /\ GoesOn(request[p].op, user, request[p].target)
          /\ request[p].pc = "user"
      BY <1>3 DEF LockUser, At
    <2>2. request[p].op \in Rewriting \cup {"ensureInitialAdmin"}
      BY <1>1, <2>1 DEF Course, Request, AllOps, Creating, Bootstrapping, Rewriting
    <2>3. request[p].account \in Account /\ user \in User
      BY <1>1, <2>2 DEF Course, Rewriting, IInv, TypeOK
    <2>4. request[p].op \in AllOps
      BY <2>2 DEF Rewriting, AllOps, Creating, Bootstrapping
    <2>5. After(p) \in Step \ {"idle"}
      BY <1>1, <2>1, <2>4, Courses DEF At
    <2>6. r \in Request /\ r.pc = After(p) /\ r.user = user /\ r.op = request[p].op
            /\ r.account = request[p].account /\ r.target = request[p].target
      BY <1>1, <2>3, <2>5 DEF Request
    <2>7. /\ r.op \in {"ensureInitialAdmin", "updateUser"} => After(p) = "count"
          /\ r.op \in {"activate", "resetPassword"} => After(p) = "commit"
      BY <1>1, <2>1, <2>4, <2>6, Courses DEF At
    <2> HIDE DEF r
    <2>8. Course(r)
      BY <1>1, <2>2, <2>5, <2>6, <2>7 DEF Course, Rewriting, Creating, Bootstrapping
    <2>9. request'[p] = r
      BY <2>1 DEF IInv, TypeOK
    <2>10. r.op \in Rewriting =>
             /\ users'[r.account].status # "absent"
             /\ holder'[r.account] = p /\ r.user = users'[r.account]
      BY <1>1, <2>1, <2>3, <2>6
      DEF Holds, Rewriting, Exists, UnchangedRows, Take, IInv, TypeOK, LocksTypeOK
    <2>11. r.op \in Locking => holder'[AdminLock] = p
      <3>1. r.op \in Locking => holder[AdminLock] = p
        BY <1>1, <2>1, <2>6 DEF Holds
      <3>2. QED
        BY <2>1, <3>1 DEF Take, IInv, TypeOK, LocksTypeOK
    <2>12. r.op = "updateUser" => Permitted(r.user, r.target)
      BY <2>1, <2>6 DEF GoesOn
    <2>13. Holds(p)'
      BY <2>2, <2>6, <2>7, <2>9, <2>10, <2>11, <2>12
      DEF Holds, Rewriting, Exists, Permitted, Creating, Bootstrapping
    <2>14. QED
      BY <2>1, <2>3, <2>5, <2>6, <2>8, <2>13, GoingOn
  <1>4. QED
    BY <1>2, <1>3

(* The count is taken under the advisory lock.                               *)
LEMMA CountKeeps ==
    ASSUME IInv, NEW p \in Process, Count(p) PROVE IInv'
  <1> DEFINE r == [request[p] EXCEPT !.pc = After(p)]
  <1>1. request[p] \in Request /\ Course(request[p]) /\ Holds(p)
    BY DEF IInv, TypeOK
  <1>2. CASE End(p)
    BY <1>2, Refusing DEF Count
  <1>3. CASE ~End(p)
    <2>1. /\ request' = [request EXCEPT ![p] = r] /\ UnchangedRows
          /\ UNCHANGED holder
          /\ request[p].pc = "count"
      BY <1>3 DEF Count, At, Goto
    <2>2. request[p].op = "updateUser" /\ LosesActiveAdmin(request[p].user, request[p].target)
             => ActiveAdmins \ {request[p].account} # {}
      BY <1>3 DEF Count
    <2>2a. request[p].op \in Bootstrapping => NoneBootstrapped'
      BY <1>3, <2>1 DEF Count, Bootstrapping, Admins, NoneBootstrapped, UnchangedRows,
                        IInv, TypeOK
    <2>3. request[p].op \in {"createAdmin", "ensureInitialAdmin", "updateUser"}
      BY <1>1, <2>1 DEF Course, Request, AllOps, Creating, Bootstrapping
    <2>4. request[p].op \in AllOps
      BY <2>3 DEF AllOps, Creating, Bootstrapping
    <2>5. After(p) \in Step \ {"idle"}
      BY <1>1, <2>1, <2>4, Courses DEF At
    <2>6. r \in Request /\ r.pc = After(p) /\ r.user = request[p].user
            /\ r.op = request[p].op /\ r.account = request[p].account
            /\ r.target = request[p].target
      BY <1>1, <2>5 DEF Request
    <2>7. /\ r.op \in Bootstrapping => After(p) = "insert"
          /\ r.op = "updateUser" => After(p) = "commit"
      BY <1>1, <2>1, <2>4, <2>6, Courses DEF At, Bootstrapping
    <2> HIDE DEF r
    <2>8. Course(r)
      BY <1>1, <2>3, <2>5, <2>6, <2>7 DEF Course, Creating, Bootstrapping
    <2>9. request'[p] = r
      BY <2>1 DEF IInv, TypeOK
    <2>10. /\ holder'[AdminLock] = p
           /\ r.op = "updateUser" =>
                 /\ users'[r.account].status # "absent"
                 /\ holder'[r.account] = p /\ r.user = users'[r.account]
                 /\ Permitted(r.user, r.target)
      BY <1>1, <2>1, <2>3, <2>6
      DEF Holds, Rewriting, Locking, Bootstrapping, Exists, UnchangedRows
    <2>11. r.op = "updateUser" /\ LosesActiveAdmin(r.user, r.target)
             => ActiveAdmins' \ {r.account} # {}
      BY <2>1, <2>2, <2>6 DEF ActiveAdmins, Admins, UnchangedRows
    <2>12. Holds(p)'
      BY <2>3, <2>6, <2>7, <2>9, <2>10, <2>11, <2>2a
      DEF Holds, Rewriting, Exists, LosesActiveAdmin, Permitted, Creating, Bootstrapping
    <2>13. QED
      BY <2>1, <2>5, <2>6, <2>8, <2>12, GoingOn
  <1>4. QED
    BY <1>2, <1>3

(* An insertion locks an address that has no row.                            *)
LEMMA InsertUserKeeps ==
    ASSUME IInv, NEW p \in Process, InsertUser(p) PROVE IInv'
  <1> DEFINE r == [request[p] EXCEPT !.pc = After(p)]
  <1>1. request[p] \in Request /\ Course(request[p]) /\ Holds(p)
    BY DEF IInv, TypeOK
  <1>2. CASE End(p)
    BY <1>2, Refusing DEF InsertUser
  <1>3. CASE ~End(p)
    <2>1. /\ request' = [request EXCEPT ![p] = r] /\ UnchangedRows
          /\ Take(p, request[p].account)
          /\ ~Exists(request[p].account)
          /\ request[p].pc = "insert"
      BY <1>3 DEF InsertUser, At, Goto
    <2>2. request[p].op \in Creating
      BY <1>1, <2>1 DEF Course, Request, AllOps, Creating, Bootstrapping
    <2>3. request[p].op \in AllOps /\ request[p].account \in Account
      BY <1>1, <2>2 DEF AllOps, Course, Creating, Bootstrapping
    <2>4. After(p) \in Step \ {"idle"}
      BY <1>1, <2>1, <2>3, Courses DEF At
    <2>5. r \in Request /\ r.pc = After(p) /\ r.op = request[p].op
            /\ r.account = request[p].account /\ r.target = request[p].target
      BY <1>1, <2>4 DEF Request
    <2>6. After(p) = "commit"
      BY <1>1, <2>1, <2>2, <2>3, <2>5, Courses DEF At, Creating, Bootstrapping
    <2> HIDE DEF r
    <2>7. Course(r)
      BY <1>1, <2>2, <2>4, <2>5, <2>6 DEF Course, Creating, Bootstrapping
    <2>8. request'[p] = r
      BY <2>1 DEF IInv, TypeOK
    <2>9. holder'[r.account] = p /\ users'[r.account].status = "absent"
      BY <2>1, <2>3, <2>5 DEF Take, Exists, UnchangedRows, IInv, TypeOK, LocksTypeOK, User, Status
    <2>10. r.op \in Bootstrapping => holder'[AdminLock] = p /\ NoneBootstrapped'
      BY <1>1, <2>1, <2>3, <2>5
      DEF Holds, Locking, Bootstrapping, NoneBootstrapped, UnchangedRows, Take, IInv, TypeOK,
          LocksTypeOK
    <2>11. Holds(p)'
      BY <2>2, <2>5, <2>8, <2>9, <2>10
      DEF Holds, Rewriting, Creating, Bootstrapping, Locking, Exists
    <2>12. QED
      BY <2>1, <2>3, <2>4, <2>5, <2>7, <2>11, GoingOn
  <1>4. QED
    BY <1>2, <1>3

-----------------------------------------------------------------------------
(* Whoever writes a row has locked it and leaves it there; without the       *)
(* advisory lock it keeps an active administrator, and makes no bootstrapped *)
(* account administrator again.                                              *)
LEMMA WritingIsGentle ==
    ASSUME IInv, NEW p \in Process, NEW a \in Account, NEW user \in User,
           user.status # "absent", holder[a] = p,
           users' = [users EXCEPT ![a] = user],
           bootstrapped \subseteq bootstrapped',
           bootstrapped' \subseteq bootstrapped \cup {a},
           \/ holder[AdminLock] = p
           \/ /\ users[a] = NewUser("active", TRUE) => user = NewUser("active", TRUE)
              /\ a \in bootstrapped /\ user.admin => users[a].admin
              /\ UNCHANGED bootstrapped
    PROVE  /\ Gentle(p)
           /\ users' \in [Account -> User]
           /\ bootstrapped' \subseteq Account
           /\ BootstrappedExist'
  <1>1. \A b \in Account : users'[b] = IF b = a THEN user ELSE users[b]
    BY DEF IInv, TypeOK
  <1>2. \A b \in Account : Exists(b) => Exists(b)'
    BY <1>1 DEF Exists
  <1>3. ASSUME holder[AdminLock] # p, NEW b \in ActiveAdmins PROVE b \in ActiveAdmins'
    <2>1. b \in Account /\ users[b] = NewUser("active", TRUE)
      BY <1>3 DEF ActiveAdmins, Admins, NewUser, User, IInv, TypeOK
    <2>2. users'[b] = NewUser("active", TRUE)
      BY <1>1, <1>3, <2>1
    <2>3. QED
      BY <2>1, <2>2 DEF ActiveAdmins, Admins, NewUser
  <1>4. ASSUME holder[AdminLock] # p, NoneBootstrapped PROVE NoneBootstrapped'
    BY <1>1, <1>4 DEF NoneBootstrapped, IInv, TypeOK
  <1>5. BootstrappedExist' /\ bootstrapped' \subseteq Account
    BY <1>1, <1>2 DEF BootstrappedExist, Exists, IInv, TypeOK
  <1>6. \A q \in Process \ {p}, b \in Account : holder[b] = q => users'[b] = users[b]
    BY <1>1
  <1>7. \A q \in Process \ {p} : holder[AdminLock] = q => holder[AdminLock] # p
    OBVIOUS
  <1>8. Gentle(p)
    BY <1>2, <1>3, <1>4, <1>6, <1>7 DEF Gentle
  <1>9. QED
    BY <1>5, <1>8 DEF IInv, TypeOK

(* What a request knows when it commits.                                     *)
LEMMA AtCommit ==
    ASSUME IInv, NEW p \in Process, At(p, "commit")
    PROVE  /\ request[p] \in Request
           /\ request[p].op \in AllOps => request[p].account \in Account
           /\ request[p].op \in AllOps => holder[request[p].account] = p
           /\ request[p].op \in Creating =>
                 ~Exists(request[p].account) /\ request[p].target.status # "absent"
           /\ request[p].op \in Rewriting =>
                 /\ Exists(request[p].account)
                 /\ request[p].user = users[request[p].account]
           /\ request[p].op = "updateUser" =>
                 /\ request[p].target.status # "absent"
                 /\ Permitted(request[p].user, request[p].target)
           /\ request[p].op \in Locking => holder[AdminLock] = p
           /\ request[p].op \in Bootstrapping => NoneBootstrapped
  BY DEF IInv, TypeOK, Course, Holds, At, AllOps, Creating, Bootstrapping, Rewriting,
         Locking

(* A new account disturbs nobody; a bootstrap's one is made under the lock.  *)
LEMMA CreationKeeps ==
    ASSUME IInv, NEW p \in Process, CommitCreation(p) PROVE IInv'
  <1> DEFINE r == request[p]
  <1>1. At(p, "commit") /\ r.op \in Creating /\ End(p)
    BY DEF CommitCreation, Committing
  <1>2. r.account \in Account /\ r.target \in User /\ holder[r.account] = p
          /\ ~Exists(r.account) /\ r.target.status # "absent"
    BY <1>1, AtCommit DEF Request, AllOps
  <1>3. users[r.account] # NewUser("active", TRUE) /\ r.account \notin bootstrapped
    BY <1>2 DEF Exists, NewUser, IInv, BootstrappedExist
  <1>4. users' = [users EXCEPT ![r.account] = r.target]
    BY DEF CommitCreation, Write
  <1>5. r.op \in Bootstrapping => holder[AdminLock] = p
    BY <1>1, AtCommit DEF Locking
  <1>6. /\ bootstrapped \subseteq bootstrapped'
        /\ bootstrapped' \subseteq bootstrapped \cup {r.account}
        /\ r.op \in Bootstrapping \/ UNCHANGED bootstrapped
    BY DEF CommitCreation
  <1> HIDE DEF r
  <1>7. /\ Gentle(p) /\ users' \in [Account -> User]
        /\ bootstrapped' \subseteq Account /\ BootstrappedExist'
    BY <1>2, <1>3, <1>4, <1>5, <1>6, WritingIsGentle
  <1>8. QED
    BY <1>1, <1>7, Ending

(* An update writes under both locks.                                        *)
LEMMA UpdateKeeps ==
    ASSUME IInv, NEW p \in Process, CommitUpdate(p) PROVE IInv'
  <1> DEFINE r == request[p]
  <1>1. At(p, "commit") /\ r.op = "updateUser" /\ End(p)
    BY DEF CommitUpdate, Committing
  <1>2. r.account \in Account /\ r.target \in User /\ holder[r.account] = p
          /\ holder[AdminLock] = p /\ r.target.status # "absent"
    BY <1>1, AtCommit DEF Request, AllOps, Locking
  <1>3. users' = [users EXCEPT ![r.account] = r.target] /\ UNCHANGED bootstrapped
    BY DEF CommitUpdate, Write
  <1> HIDE DEF r
  <1>4. /\ Gentle(p) /\ users' \in [Account -> User]
        /\ bootstrapped' \subseteq Account /\ BootstrappedExist'
    BY <1>2, <1>3, WritingIsGentle
  <1>5. QED
    BY <1>1, <1>4, Ending

(* An activation takes nothing away, and so needs no advisory lock.          *)
LEMMA ActivationKeeps ==
    ASSUME IInv, NEW p \in Process, CommitActivation(p) PROVE IInv'
  <1> DEFINE r == request[p]
             user == [r.user EXCEPT !.status = "active"]
  <1>1. At(p, "commit") /\ r.op = "activate" /\ End(p)
    BY DEF CommitActivation, Committing
  <1>2. r.account \in Account /\ r.user \in User /\ holder[r.account] = p
          /\ r.user = users[r.account]
    BY <1>1, AtCommit DEF Request, AllOps, Rewriting
  <1>3. /\ user \in User /\ user.status # "absent"
        /\ r.user = NewUser("active", TRUE) => user = NewUser("active", TRUE)
        /\ user.admin = r.user.admin
    BY <1>2 DEF User, Status, NewUser
  <1>4. users' = [users EXCEPT ![r.account] = user] /\ UNCHANGED bootstrapped
    BY DEF CommitActivation, Write
  <1> HIDE DEF user, r
  <1>5. /\ Gentle(p) /\ users' \in [Account -> User]
        /\ bootstrapped' \subseteq Account /\ BootstrappedExist'
    BY <1>2, <1>3, <1>4, WritingIsGentle
  <1>6. QED
    BY <1>1, <1>5, Ending

(* A reset leaves status and role as they are.                               *)
LEMMA ResetKeeps ==
    ASSUME IInv, NEW p \in Process, CommitReset(p) PROVE IInv'
  <1> DEFINE r == request[p]
  <1>1. At(p, "commit") /\ r.op = "resetPassword" /\ End(p)
    BY DEF CommitReset, Committing
  <1>2. r.account \in Account /\ r.user \in User /\ holder[r.account] = p
          /\ r.user = users[r.account] /\ r.user.status # "absent"
    BY <1>1, AtCommit DEF Request, AllOps, Rewriting, Exists
  <1>3. users' = [users EXCEPT ![r.account] = r.user] /\ UNCHANGED bootstrapped
    BY DEF CommitReset, Write
  <1> HIDE DEF r
  <1>4. /\ Gentle(p) /\ users' \in [Account -> User]
        /\ bootstrapped' \subseteq Account /\ BootstrappedExist'
    BY <1>2, <1>3, WritingIsGentle
  <1>5. QED
    BY <1>1, <1>4, Ending

-----------------------------------------------------------------------------
(* An empty database, and no request.                                        *)
LEMMA InvariantStarts == Init => IInv
  <1> SUFFICES ASSUME Init PROVE IInv
    OBVIOUS
  <1>1. TypeOK
    BY NullAssumption
    DEF Init, TypeOK, NoLocks, LocksTypeOK, Idle, Request, Step, AbsentUser, User
  <1>2. \A p \in Process : Course(request[p])
    BY DEF Init, Idle, Course, Creating, Bootstrapping
  <1>3. \A p \in Process : Holds(p)
    BY DEF Init, Idle, Holds, Rewriting, Creating, Bootstrapping, Locking
  <1>4. BootstrappedExist
    BY DEF Init, BootstrappedExist
  <1>5. QED
    BY <1>1, <1>2, <1>3, <1>4 DEF IInv

(* Every kind of request may come at any time.                               *)
LEMMA ArrivalsKeep ==
    ASSUME IInv, NEW p \in Process, Arrives(p) PROVE IInv'
  <1>1. PICK a \in Account :
          \/ CreateAdmin(p, a)
          \/ EnsureInitialAdmin(p, a)
          \/ \E admin \in BOOLEAN : CreateUser(p, a, admin)
          \/ Provision(p, a)
          \/ \E status \in Status, admin \in BOOLEAN : UpdateUser(p, a, status, admin)
          \/ \E op \in {"activate", "resetPassword"} : OwnRow(p, a, op)
    BY DEF Arrives
  <1>2. \A status \in Status, admin \in BOOLEAN :
          NewUser(status, admin) \in User /\ NewUser(status, admin).status # "absent"
    BY DEF NewUser, User, Status
  <1>3. AbsentUser \in User
    BY DEF AbsentUser, User
  <1>4. "active" \in Status /\ "pending" \in Status
    BY DEF Status
  <1>5. /\ "createAdmin" \in AllOps \ Rewriting
        /\ "ensureInitialAdmin" \in AllOps \ Rewriting
        /\ "createUser" \in AllOps \ Rewriting
        /\ "updateUser" \in AllOps
        /\ \A op \in {"activate", "resetPassword"} :
              op \in AllOps /\ op \notin Creating \cup {"updateUser"}
    BY DEF AllOps, Creating, Bootstrapping, Rewriting
  <1>6. CASE CreateAdmin(p, a)
    BY <1>2, <1>4, <1>5, <1>6, Arriving DEF CreateAdmin
  <1>7. CASE EnsureInitialAdmin(p, a)
    BY <1>2, <1>4, <1>5, <1>7, Arriving DEF EnsureInitialAdmin
  <1>8. CASE \E admin \in BOOLEAN : CreateUser(p, a, admin)
    BY <1>2, <1>4, <1>5, <1>8, Arriving DEF CreateUser
  <1>9. CASE Provision(p, a)
    BY <1>2, <1>4, <1>5, <1>9, Arriving DEF Provision
  <1>10. CASE \E status \in Status, admin \in BOOLEAN : UpdateUser(p, a, status, admin)
    BY <1>2, <1>5, <1>10, Arriving DEF UpdateUser
  <1>11. CASE \E op \in {"activate", "resetPassword"} : OwnRow(p, a, op)
    BY <1>3, <1>5, <1>11, Arriving DEF OwnRow
  <1>12. QED
    BY <1>1, <1>6, <1>7, <1>8, <1>9, <1>10, <1>11

(* Every step leaves the invariant, one case a kind of step.                 *)
LEMMA InvariantStays == IInv /\ [Next]_vars => IInv'
  <1> SUFFICES ASSUME IInv, [Next]_vars PROVE IInv'
    OBVIOUS
  <1>1. CASE UNCHANGED vars
    <2>1. TypeOK'
      BY <1>1 DEF vars, IInv, TypeOK, LocksTypeOK, At
    <2>2. \A p \in Process : Course(request[p])'
      BY <1>1 DEF vars, IInv, Course
    <2>3. /\ ActiveAdmins' = ActiveAdmins
          /\ NoneBootstrapped' = NoneBootstrapped
          /\ BootstrappedExist' = BootstrappedExist
      BY <1>1 DEF vars, ActiveAdmins, Admins, NoneBootstrapped, BootstrappedExist, Exists
    <2>4. ASSUME NEW p \in Process PROVE Holds(p)'
      <3>1. Holds(p)
        BY DEF IInv
      <3>2. QED
        BY <1>1, <2>3, <3>1 DEF vars, Holds, Exists, LosesActiveAdmin, Permitted
    <2>5. QED
      BY <2>1, <2>2, <2>3, <2>4 DEF IInv
  <1>2. ASSUME NEW p \in Process, Arrives(p) PROVE IInv'
    BY <1>2, ArrivalsKeep
  <1>3. ASSUME NEW p \in Process, Statement(p) PROVE IInv'
    BY <1>3, LockAdminsKeeps, LockUserKeeps, CountKeeps, InsertUserKeeps DEF Statement
  <1>4. ASSUME NEW p \in Process, Commit(p) PROVE IInv'
    BY <1>4, CreationKeeps, UpdateKeeps, ActivationKeeps, ResetKeeps DEF Commit
  <1>5. ASSUME NEW p \in Process, Abort(p) PROVE IInv'
    BY <1>5, Refusing DEF Abort
  <1>6. QED
    BY <1>1, <1>2, <1>3, <1>4, <1>5 DEF Next

(* The invariant, in every reachable state.                                  *)
LEMMA InvariantHolds == Spec => []IInv
  BY InvariantStarts, InvariantStays, PTL DEF Spec

-----------------------------------------------------------------------------
(* Rows, locks and requests have their types, and nobody but an open         *)
(* transaction holds a lock.                                                 *)
THEOREM TypeCorrect == Spec => []TypeOK
  <1>1. IInv => TypeOK
    BY DEF IInv
  <1>2. QED
    BY <1>1, InvariantHolds, PTL

(* Rows change only when a request commits.                                  *)
LEMMA OnlyCommitsWrite ==
    ASSUME Next, ~UnchangedRows
    PROVE  \E p \in Process : Commit(p) /\ At(p, "commit")
  <1>1. PICK p \in Process : Commit(p)
    BY DEF Next, Arrives, Statement, Abort, CreateAdmin, EnsureInitialAdmin, CreateUser,
           Provision, UpdateUser, OwnRow, Arrive, LockAdmins, LockUser, Count, InsertUser
  <1>2. At(p, "commit")
    BY <1>1 DEF Commit, CommitCreation, CommitUpdate, CommitActivation, CommitReset,
                Committing
  <1>3. QED
    BY <1>1, <1>2

(* No step of the invariant's states loses the last active administrator: a  *)
(* row changes only when its request commits; only an update takes an active *)
(* administrator away, and another one has been there since it counted.      *)
LEMMA OneIsLeft ==
    ASSUME IInv, Next, ActiveAdmins # {} PROVE ActiveAdmins' # {}
  <1>1. CASE UNCHANGED users
    BY <1>1 DEF ActiveAdmins, Admins
  <1>2. CASE users' # users
    <2>1. PICK p \in Process : Commit(p) /\ At(p, "commit")
      BY <1>2, OnlyCommitsWrite DEF UnchangedRows
    <2>2. At(p, "commit")
      BY <2>1
    <2> DEFINE r == request[p]
    <2>3. PICK b \in ActiveAdmins : TRUE
      OBVIOUS
    <2>4. b \in Account /\ users[b] = NewUser("active", TRUE)
      BY <2>3 DEF ActiveAdmins, Admins, NewUser, User, IInv, TypeOK
    <2>5. \A c \in Account : users'[c] = NewUser("active", TRUE) => c \in ActiveAdmins'
      BY DEF ActiveAdmins, Admins, NewUser
    <2>6. CASE CommitCreation(p)
      <3>1. r.account \in Account /\ ~Exists(r.account)
        BY <2>2, <2>6, AtCommit DEF CommitCreation, Committing, AllOps
      <3>2. r.account # b
        BY <2>4, <3>1 DEF Exists, NewUser
      <3>3. users'[b] = users[b]
        BY <2>4, <2>6, <3>2 DEF CommitCreation, Write, IInv, TypeOK
      <3>4. QED
        BY <2>4, <2>5, <3>3
    <2>7. CASE CommitUpdate(p)
      <3>1. r.op = "updateUser" /\ r.account \in Account /\ r.user = users[r.account]
        BY <2>2, <2>7, AtCommit DEF CommitUpdate, Committing, AllOps, Rewriting
      <3>2. users' = [users EXCEPT ![r.account] = r.target]
        BY <2>7 DEF CommitUpdate, Write
      <3>3. CASE LosesActiveAdmin(r.user, r.target)
        <4>1. PICK c \in ActiveAdmins \ {r.account} : TRUE
          BY <2>2, <3>1, <3>3 DEF IInv, Holds, At
        <4>2. c \in Account /\ users'[c] = NewUser("active", TRUE)
          BY <3>2, <4>1 DEF ActiveAdmins, Admins, NewUser, User, IInv, TypeOK
        <4>3. QED
          BY <2>5, <4>2
      <3>4. CASE ~LosesActiveAdmin(r.user, r.target)
        <4>1. users'[b] = NewUser("active", TRUE)
          BY <2>4, <3>1, <3>2, <3>4 DEF LosesActiveAdmin, IInv, TypeOK
        <4>2. QED
          BY <2>4, <2>5, <4>1
      <3>5. QED
        BY <3>3, <3>4
    <2>8. CASE CommitActivation(p) \/ CommitReset(p)
      <3>1. r.op \in {"activate", "resetPassword"}
        BY <2>8 DEF CommitActivation, CommitReset, Committing
      <3>2. r.account \in Account /\ r.user = users[r.account] /\ r.user \in User
        BY <2>2, <3>1, AtCommit DEF AllOps, Rewriting, Request
      <3>3. \/ users' = [users EXCEPT ![r.account] = [r.user EXCEPT !.status = "active"]]
            \/ users' = [users EXCEPT ![r.account] = r.user]
        BY <2>8 DEF CommitActivation, CommitReset, Write
      <3>4. CASE r.account = b
        <4>1. r.user = NewUser("active", TRUE)
          BY <2>4, <3>2, <3>4
        <4>2. [r.user EXCEPT !.status = "active"] = NewUser("active", TRUE)
          BY <4>1 DEF NewUser
        <4>3. users'[b] = NewUser("active", TRUE)
          BY <2>4, <3>3, <3>4, <4>1, <4>2 DEF IInv, TypeOK
        <4>4. QED
          BY <2>4, <2>5, <4>3
      <3>5. CASE r.account # b
        BY <2>4, <2>5, <3>3, <3>5 DEF IInv, TypeOK
      <3>6. QED
        BY <3>4, <3>5
    <2>9. QED
      BY <2>1, <2>6, <2>7, <2>8 DEF Commit
  <1>3. QED
    BY <1>1, <1>2

(* Concurrent operations never remove the final active administrator,        *)
(* however many requests, accounts and administrators there are.             *)
THEOREM AdministratorsRemain == Spec => AdministratorRemains
  <1>1. IInv /\ [Next]_vars => [ActiveAdmins # {} => ActiveAdmins' # {}]_vars
    BY OneIsLeft
  <1>2. QED
    BY <1>1, InvariantHolds, PTL DEF Spec, AdministratorRemains

(* An account is entered as the initial administrator by a bootstrap that    *)
(* counted none, and no bootstrapped one has become administrator since.     *)
LEMMA BootstrapIsAlone ==
    ASSUME IInv, Next, NEW a \in bootstrapped' \ bootstrapped, NEW b \in bootstrapped
    PROVE  ~users[b].admin
  <1>1. PICK p \in Process : Commit(p) /\ At(p, "commit")
    BY OnlyCommitsWrite DEF UnchangedRows
  <1>2. request[p].op \in Bootstrapping
    BY <1>1 DEF Commit, CommitCreation, CommitUpdate, CommitActivation, CommitReset
  <1>3. QED
    BY <1>1, <1>2, AtCommit DEF NoneBootstrapped

(* Concurrent bootstraps, by whichever way, make one initial administrator.  *)
THEOREM BootstrapsAreOne == Spec => OneBootstrap
  <1>1. IInv /\ [Next]_vars
          => [\A a \in bootstrapped' \ bootstrapped :
                 \A b \in bootstrapped : ~users[b].admin]_vars
    BY BootstrapIsAlone
  <1>2. QED
    BY <1>1, InvariantHolds, PTL DEF Spec, OneBootstrap

(* No commit takes an account back to waiting for its activation.            *)
LEMMA NoneFallsBack ==
    ASSUME IInv, Next, NEW a \in Account, users[a].status \in {"active", "disabled"}
    PROVE  users'[a].status # "pending"
  <1>1. CASE users' = users
    BY <1>1
  <1>2. CASE users' # users
    <2>1. PICK p \in Process : Commit(p) /\ At(p, "commit")
      BY <1>2, OnlyCommitsWrite DEF UnchangedRows
    <2> DEFINE r == request[p]
    <2>2. CASE CommitCreation(p)
      <3>1. r.account # a
        BY <2>1, <2>2, AtCommit DEF CommitCreation, Committing, Exists
      <3>2. QED
        BY <2>2, <3>1 DEF CommitCreation, Write, IInv, TypeOK
    <2>3. CASE CommitUpdate(p)
      <3>1. r.user = users[r.account] /\ Permitted(r.user, r.target)
        BY <2>1, <2>3, AtCommit DEF CommitUpdate, Committing, Rewriting
      <3>2. users'[a] = IF r.account = a THEN r.target ELSE users[a]
        BY <2>3 DEF CommitUpdate, Write, IInv, TypeOK
      <3>3. QED
        BY <3>1, <3>2 DEF Permitted
    <2>4. CASE CommitActivation(p)
      <3>1. r.user \in User
        BY <2>1, AtCommit DEF Request
      <3>2. [r.user EXCEPT !.status = "active"].status = "active"
        BY <3>1 DEF User
      <3>3. users'[a] = IF r.account = a THEN [r.user EXCEPT !.status = "active"]
                        ELSE users[a]
        BY <2>4 DEF CommitActivation, Write, IInv, TypeOK
      <3>4. QED
        BY <3>2, <3>3
    <2>5. CASE CommitReset(p)
      <3>1. r.user = users[r.account]
        BY <2>1, <2>5, AtCommit DEF CommitReset, Committing, Rewriting
      <3>2. users'[a] = users[a]
        BY <2>5, <3>1 DEF CommitReset, Write, IInv, TypeOK
      <3>3. QED
        BY <3>2
    <2>6. QED
      BY <2>1, <2>2, <2>3, <2>4, <2>5 DEF Commit
  <1>3. QED
    BY <1>1, <1>2

(* No activation, and no disabling, is undone by an older copy of the row.   *)
THEOREM ActivationsStick == Spec => ActivationSticks
  <1>1. IInv /\ [Next]_vars
          => [\A a \in Account :
                 users[a].status \in {"active", "disabled"} =>
                     users'[a].status # "pending"]_vars
    BY NoneFallsBack
  <1>2. QED
    BY <1>1, InvariantHolds, PTL DEF Spec, ActivationSticks

-----------------------------------------------------------------------------
(* Who holds an account waits for nobody any more, and who holds the         *)
(* advisory lock does not wait for it.                                       *)
Rests(p) ==
    /\ \A a \in Account : holder[a] = p =>
          At(p, "commit") \/ (request[p].op = "updateUser" /\ At(p, "count"))
    /\ holder[AdminLock] = p => ~At(p, "lock")

AllRest == \A p \in Process : Rests(p)

(* The others' locks and statements are as before.                           *)
LEMMA OthersRest ==
    ASSUME IInv, AllRest, NEW p \in Process, Rests(p)',
           \A q \in Process : q # p => request'[q] = request[q],
           \/ UNCHANGED holder
           \/ ReleaseAll(p)
           \/ \E m \in Account \cup {AdminLock} : Take(p, m)
    PROVE  AllRest'
  <1>1. ASSUME NEW q \in Process, q # p PROVE Rests(q)'
    <2>1. \A l \in Account \cup {AdminLock} : holder'[l] = q => holder[l] = q
      BY <1>1, NullAssumption DEF ReleaseAll, Take, IInv, TypeOK, LocksTypeOK
    <2>2. Rests(q) /\ request'[q] = request[q]
      BY <1>1 DEF AllRest
    <2>3. QED
      BY <2>1, <2>2 DEF Rests, At
  <1>2. QED
    BY <1>1 DEF AllRest

(* Whoever ends holds nothing.                                               *)
LEMMA EndRests ==
    ASSUME IInv, AllRest, NEW p \in Process, End(p) PROVE AllRest'
  <1>1. \A l \in Account \cup {AdminLock} : holder'[l] # p
    BY NullAssumption DEF End, ReleaseAll, IInv, TypeOK, LocksTypeOK
  <1>2. Rests(p)'
    BY <1>1 DEF Rests
  <1>3. QED
    BY <1>2, OthersRest DEF End, IInv, TypeOK

(* Whoever arrives holds nothing yet.                                        *)
LEMMA ArrivalRests ==
    ASSUME IInv, AllRest, NEW p \in Process, Arrives(p) PROVE AllRest'
  <1>1. At(p, "idle") /\ UNCHANGED holder
          /\ \E r : request' = [request EXCEPT ![p] = r]
    BY DEF Arrives, CreateAdmin, EnsureInitialAdmin, CreateUser, Provision, UpdateUser,
           OwnRow, Arrive
  <1>2. \A l \in Account \cup {AdminLock} : holder'[l] # p
    BY <1>1 DEF IInv, TypeOK, LocksTypeOK
  <1>3. Rests(p)'
    BY <1>2 DEF Rests
  <1>4. QED
    BY <1>1, <1>3, OthersRest DEF IInv, TypeOK

(* A statement that waits is one of a request that holds no account.         *)
LEMMA StatementRests ==
    ASSUME IInv, AllRest, NEW p \in Process, Statement(p), ~End(p) PROVE AllRest'
  <1>1. request[p] \in Request /\ Course(request[p]) /\ Rests(p)
    BY DEF IInv, TypeOK, AllRest
  <1>2. \E user \in {request[p].user, users[request[p].account]} :
          request' = [request EXCEPT ![p] = [request[p] EXCEPT !.user = user, !.pc = After(p)]]
    BY <1>1 DEF Statement, LockAdmins, LockUser, Count, InsertUser, Goto, Request
  <1>3. request'[p].pc = After(p) /\ request'[p].op = request[p].op
          /\ \A q \in Process : q # p => request'[q] = request[q]
    BY <1>1, <1>2 DEF IInv, TypeOK, Request
  <1>4. request[p].op \in AllOps /\ ~At(p, "commit") /\ ~At(p, "idle")
    BY <1>1 DEF Statement, LockAdmins, LockUser, Count, InsertUser, Course, At, Request
  <1>5. ~At(p, "count") => \A a \in Account : holder[a] # p
    BY <1>1, <1>4 DEF Rests
  <1>6. After(p) # "lock"
    BY <1>1, <1>4, Courses DEF AllOps, Creating, Bootstrapping
  <1>7. CASE LockAdmins(p)
    <2>1. Take(p, AdminLock) /\ ~At(p, "count")
      BY <1>7 DEF LockAdmins, At
    <2>2. \A a \in Account : holder'[a] # p
      BY <1>5, <2>1, LockAssumption DEF Take, IInv, TypeOK, LocksTypeOK
    <2>3. Rests(p)'
      BY <1>3, <1>6, <2>2 DEF Rests, At
    <2>4. QED
      BY <1>3, <2>1, <2>3, OthersRest
  <1>8. CASE LockUser(p)
    <2>1. At(p, "user") /\ GoesOn(request[p].op, users[request[p].account], request[p].target)
            /\ IF Exists(request[p].account) THEN Take(p, request[p].account)
               ELSE UNCHANGED holder
      BY <1>8 DEF LockUser
    <2>2. request[p].op \in Rewriting \cup {"ensureInitialAdmin"} /\ request[p].account \in Account
      BY <1>1, <1>4, <2>1 DEF Course, At, AllOps, Creating, Bootstrapping, Rewriting
    <2>3. Exists(request[p].account) => request[p].op \in Rewriting
      BY <2>1, <2>2 DEF GoesOn, Exists
    <2>4. /\ request[p].op = "updateUser" => After(p) = "count"
          /\ request[p].op \in {"activate", "resetPassword"} => After(p) = "commit"
      BY <1>1, <1>4, <2>1, Courses DEF At
    <2>5. Rests(p)'
      <3>1. CASE Exists(request[p].account)
        BY <1>3, <1>6, <2>3, <2>4, <3>1 DEF Rests, At, Rewriting
      <3>2. CASE ~Exists(request[p].account)
        BY <1>3, <1>5, <1>6, <2>1, <3>2 DEF Rests, At
      <3>3. QED
        BY <3>1, <3>2
    <2>6. QED
      BY <1>3, <2>1, <2>2, <2>5, OthersRest
  <1>9. CASE Count(p)
    <2>1. At(p, "count") /\ UNCHANGED holder
      BY <1>9 DEF Count
    <2>2. request[p].op = "updateUser" => After(p) = "commit"
      BY <1>1, <1>4, <2>1, Courses DEF At
    <2>3. request[p].op # "updateUser" => \A a \in Account : holder[a] # p
      BY <1>1, <2>1 DEF Rests, At
    <2>4. Rests(p)'
      BY <1>3, <1>6, <2>1, <2>2, <2>3 DEF Rests, At
    <2>5. QED
      BY <1>3, <2>1, <2>4, OthersRest
  <1>10. CASE InsertUser(p)
    <2>1. At(p, "insert") /\ Take(p, request[p].account)
      BY <1>10 DEF InsertUser
    <2>2. request[p].account \in Account /\ After(p) = "commit"
      BY <1>1, <1>4, <2>1, Courses DEF Course, At, AllOps, Creating, Bootstrapping
    <2>3. Rests(p)'
      BY <1>3, <2>2 DEF Rests, At
    <2>4. QED
      BY <1>3, <2>1, <2>2, <2>3, OthersRest
  <1>11. QED
    BY <1>7, <1>8, <1>9, <1>10 DEF Statement

(* Every step keeps it so.                                                   *)
LEMMA RestStays == IInv /\ AllRest /\ [Next]_vars => AllRest'
  <1> SUFFICES ASSUME IInv, AllRest, [Next]_vars PROVE AllRest'
    OBVIOUS
  <1>1. CASE UNCHANGED vars
    BY <1>1 DEF vars, AllRest, Rests, At
  <1>2. ASSUME NEW p \in Process, Arrives(p) PROVE AllRest'
    BY <1>2, ArrivalRests
  <1>3. ASSUME NEW p \in Process, Statement(p) PROVE AllRest'
    BY <1>3, StatementRests, EndRests
  <1>4. ASSUME NEW p \in Process, Commit(p) \/ Abort(p) PROVE AllRest'
    BY <1>4, EndRests DEF Commit, Abort, CommitCreation, CommitUpdate, CommitActivation,
                          CommitReset, Committing
  <1>5. QED
    BY <1>1, <1>2, <1>3, <1>4 DEF Next

(* Of requests that only wait for each other, one would have to hold an      *)
(* account or the advisory lock and wait: nobody does.                       *)
LEMMA NobodyIsStuck ==
    ASSUME IInv, AllRest PROVE NoDeadlock
  <1> SUFFICES ASSUME NEW p \in Process, NEW group \in SUBSET Process, p \in group,
                      \A q \in group :
                         /\ Wants[q] # {}
                         /\ \A l \in Wants[q] : holder[l] \in group \ {q}
               PROVE  FALSE
    BY DEF NoDeadlock, Deadlocked
  <1>1. \A q \in Process :
           /\ Wants[q] # {} => request[q].pc \in {"lock", "user", "insert"}
           /\ request[q].pc = "lock" => Wants[q] = {AdminLock}
           /\ Wants[q] # {} /\ request[q].pc # "lock" => Wants[q] = {request[q].account}
    BY DEF Wants
  <1>2. ASSUME NEW q \in group, request[q].pc # "lock" PROVE FALSE
    <2>1. request[q].pc \in {"user", "insert"} /\ Wants[q] = {request[q].account}
      BY <1>1, <1>2
    <2>2. request[q].account \in Account
      BY <2>1 DEF IInv, Course
    <2>3. PICK o \in group : holder[request[q].account] = o
      BY <2>1
    <2>4. request[o].pc \in {"lock", "user", "insert"}
      BY <1>1, <2>3
    <2>5. QED
      BY <2>2, <2>3, <2>4 DEF AllRest, Rests, At
  <1>3. Wants[p] = {AdminLock}
    BY <1>1, <1>2
  <1>4. PICK o \in group : holder[AdminLock] = o
    BY <1>3
  <1>5. request[o].pc # "lock"
    BY <1>4 DEF AllRest, Rests, At
  <1>6. QED
    BY <1>2, <1>5

(* No number of administrators waits for each other in a circle.             *)
THEOREM NoCircularWait == Spec => []NoDeadlock
  <1>1. Init => AllRest
    BY NullAssumption DEF Init, NoLocks, AllRest, Rests
  <1>2. IInv /\ AllRest => NoDeadlock
    BY NobodyIsStuck
  <1>3. QED
    BY <1>1, <1>2, InvariantHolds, RestStays, PTL DEF Spec

=============================================================================
