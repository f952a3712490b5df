----------------------------- MODULE GoogleProofs -----------------------------
(***************************************************************************)
(* Theorems about module Google, for every account mode and every set of   *)
(* requests, accounts, subjects, challenges and sessions.                  *)
(*                                                                         *)
(* A request holds the rows it decides on, with the values it has read;    *)
(* the tables agree with each other whenever nobody is in the middle of a  *)
(* commit.  What makes the second follow from the first is that a subject  *)
(* changes hands only under its own lock and that of the account it leaves *)
(* or joins, so that a request which holds an account knows its identity,  *)
(* too.                                                                    *)
(***************************************************************************)
EXTENDS Google, TLAPS, FiniteSetTheorems

Locks == Account \cup Subject \cup SessionId

(* The requests that come with a session's principal.                        *)
Owning == {"finishLink", "changePassword", "logout"}

(* The statements after the account's.                                       *)
PastUser == {"session", "owners", "bind", "rows", "commit"}

(* The statement a request is at belongs to its handler, and it has read     *)
(* what the statement needs.                                                 *)
Course(r) ==
    /\ r.op = "none" <=> r.pc = "idle"
    /\ r.op = "finishLogin" => r.pc \in {"subject", "user", "create", "bind", "commit"}
    /\ r.op = "finishLink" => r.pc \in {"user", "session", "owners", "bind", "commit"}
    /\ r.op = "recover" => r.pc \in {"subject", "user", "rows", "commit"}
    /\ r.op = "createUser" =>
          r.pc \in {"create", "commit"} /\ \E autoLink \in BOOLEAN : r.user = ProvisionedUser(autoLink)
    /\ r.op = "preauthorize" => r.pc \in {"user", "commit"}
    /\ r.op \in {"resetPassword", "disable"} => r.pc \in {"user", "rows", "commit"}
    /\ r.op = "changePassword" => r.pc \in {"user", "session", "rows", "commit"}
    /\ r.op = "logout" => r.pc \in {"user", "session", "commit"}
    /\ r.op # "none" => r.account \in Account \/ (r.op = "finishLogin" /\ r.pc = "subject")
    /\ r.op \in Owning => r.session \in SessionId
    /\ r.op \in Finishing => r.subject \in Subject
    /\ r.op = "recover" => (r.known <=> r.subject \in Subject)
    /\ r.op = "recover" /\ r.pc \in {"rows", "commit"} => r.known
    /\ r.known => \/ r.op = "finishLogin" /\ r.pc \in {"user", "commit"}
                  \/ r.op = "finishLink" /\ r.pc = "commit"
                  \/ r.op = "recover" /\ r.pc \in {"user", "rows", "commit"}

(* What a request holds and knows at each statement.                         *)
Holds(p) ==
    LET r == request[p]
    IN  /\ r.pc \in PastUser =>
              /\ holder[r.account] = p
              /\ r.op # "createUser" => r.user = accounts[r.account]
        /\ r.op = "createUser" /\ r.pc = "commit" => accounts[r.account].status = "absent"
        /\ r.op \notin {"none", "finishLogin", "createUser"} =>
              accounts[r.account].status # "absent"
        /\ r.op = "finishLogin" =>
              /\ r.pc = "create" => r.user = AbsentUser
              /\ r.pc \in {"bind", "commit"} /\ ~r.known =>
                    r.user = AbsentUser \/ CanAutoLink(r.user)
              /\ r.pc = "commit" /\ r.known => r.user.status = "active"
        /\ r.known => /\ identities[r.subject] = r.account
                      /\ r.op # "finishLink" => holder[r.subject] = p
        /\ r.op \in Finishing /\ r.pc = "commit" /\ ~r.known =>
              /\ holder[r.subject] = p /\ identities[r.subject] = None
              /\ Subjects(r.account) = {}
        /\ r.op \in Owning =>
              /\ sessions[r.session].state # "absent"
              /\ Live(r.session) => sessions[r.session].owner = r.account
        /\ r.op = "finishLink" /\ r.pc \in {"owners", "bind", "commit"} =>
              r.user.password # "temporary" /\ r.user.status = "active" /\ Live(r.session)
        /\ r.op = "changePassword" /\ r.pc \in {"rows", "commit"} => r.user.status = "active"

(* The locks a request has are the ones its statements have taken.           *)
Rests(p) ==
    LET r == request[p]
    IN  /\ \A a \in Account : holder[a] = p => r.account = a /\ r.pc \in PastUser
        /\ \A x \in Subject : holder[x] = p =>
              /\ r.subject = x
              /\ r.known \/ (r.op \in Finishing /\ r.pc = "commit")
        /\ \A s \in SessionId : holder[s] = p =>
              /\ r.pc \in {"owners", "bind", "rows", "commit"}
              /\ Live(s) /\ sessions[s].owner = r.account

(* The tables agree with each other.                                         *)
Tables ==
    /\ \A a \in Account : accounts[a].status = "absent" =>
          accounts[a] = AbsentUser /\ Subjects(a) = {}
    /\ \A a \in Account : accounts[a].password = "disabled" => Subjects(a) # {}
    /\ \A x, y \in Subject : identities[x] # None /\ identities[x] = identities[y] => x = y
    /\ \A s \in SessionId : Live(s) =>
          /\ sessions[s].owner \in Account
          /\ accounts[sessions[s].owner].status = "active"
          /\ sessions[s].via # None => identities[sessions[s].via] = sessions[s].owner

(* Values have their types.                                                  *)
Types ==
    /\ accounts \in [Account -> User]
    /\ identities \in [Subject -> Account \cup {None}]
    /\ challenges \in [Challenge -> ChallengeRow]
    /\ sessions \in [SessionId -> Session]
    /\ LocksTypeOK
    /\ request \in [Process -> Request]

(* The inductive invariant.                                                  *)
IInv ==
    /\ Types
    /\ Tables
    /\ \A p \in Process : Course(request[p]) /\ Holds(p) /\ Rests(p)

-----------------------------------------------------------------------------
(* What comes next in each handler.                                          *)
LEMMA Courses ==
    ASSUME NEW p \in Process, Course(request[p]), request[p].op \in AllOps \cup {"none"},
           request[p].pc \notin {"idle", "commit"}
    PROVE  /\ request[p].op \in AllOps
           /\ request[p].op = "finishLogin" =>
                 \/ At(p, "subject") /\ After(p) = "user"
                 \/ At(p, "user")
                 \/ At(p, "create") /\ After(p) = "bind"
                 \/ At(p, "bind") /\ After(p) = "commit"
           /\ request[p].op = "finishLink" =>
                 \/ At(p, "user") /\ After(p) = "session"
                 \/ At(p, "session") /\ After(p) = "owners"
                 \/ At(p, "owners") /\ After(p) = "bind"
                 \/ At(p, "bind") /\ After(p) = "commit"
           /\ request[p].op = "recover" =>
                 \/ At(p, "subject") /\ After(p) = "user"
                 \/ At(p, "user") /\ After(p) = "rows"
                 \/ At(p, "rows") /\ After(p) = "commit"
           /\ request[p].op = "createUser" => At(p, "create") /\ After(p) = "commit"
           /\ request[p].op = "preauthorize" => At(p, "user") /\ After(p) = "commit"
           /\ request[p].op \in {"resetPassword", "disable"} =>
                 \/ At(p, "user") /\ After(p) = "rows"
                 \/ At(p, "rows") /\ After(p) = "commit"
           /\ request[p].op = "changePassword" =>
                 \/ At(p, "user") /\ After(p) = "session"
                 \/ At(p, "session") /\ After(p) = "rows"
                 \/ At(p, "rows") /\ After(p) = "commit"
           /\ request[p].op = "logout" =>
                 \/ At(p, "user") /\ After(p) = "session"
                 \/ At(p, "session") /\ After(p) = "commit"
  <1> DEFINE op == request[p].op
             pc == request[p].pc
  <1>1. op \in AllOps
    BY DEF Course
  <1>2. ASSUME op = "finishLogin"
        PROVE  \/ At(p, "subject") /\ After(p) = "user"
               \/ At(p, "user")
               \/ At(p, "create") /\ After(p) = "bind"
               \/ At(p, "bind") /\ After(p) = "commit"
    <2>1. pc \in {"subject", "user", "create", "bind"}
      BY <1>2 DEF Course
    <2>2. After(p) = [idle |-> "subject", subject |-> "user", user |-> "create",
                      create |-> "bind", bind |-> "commit"][pc]
      BY <1>2 DEF After, Order
    <2>3. QED
      BY <2>1, <2>2 DEF At
  <1>3. ASSUME op = "finishLink"
        PROVE  \/ At(p, "user") /\ After(p) = "session"
               \/ At(p, "session") /\ After(p) = "owners"
               \/ At(p, "owners") /\ After(p) = "bind"
               \/ At(p, "bind") /\ After(p) = "commit"
    <2>1. pc \in {"user", "session", "owners", "bind"}
      BY <1>3 DEF Course
    <2>2. After(p) = [idle |-> "user", user |-> "session", session |-> "owners",
                      owners |-> "bind", bind |-> "commit"][pc]
      BY <1>3 DEF After, Order
    <2>3. QED
      BY <2>1, <2>2 DEF At
  <1>4. ASSUME op = "recover"
        PROVE  \/ At(p, "subject") /\ After(p) = "user"
               \/ At(p, "user") /\ After(p) = "rows"
               \/ At(p, "rows") /\ After(p) = "commit"
    <2>1. pc \in {"subject", "user", "rows"}
      BY <1>4 DEF Course
    <2>2. After(p) = [idle |-> "subject", subject |-> "user", user |-> "rows",
                      rows |-> "commit"][pc]
      BY <1>4 DEF After, Order
    <2>3. QED
      BY <2>1, <2>2 DEF At
  <1>5. ASSUME op = "createUser" PROVE At(p, "create") /\ After(p) = "commit"
    <2>1. pc = "create"
      BY <1>5 DEF Course
    <2>2. After(p) = [idle |-> "create", create |-> "commit"][pc]
      BY <1>5 DEF After, Order
    <2>3. QED
      BY <2>1, <2>2 DEF At
  <1>6. ASSUME op = "preauthorize" PROVE At(p, "user") /\ After(p) = "commit"
    <2>1. pc = "user"
      BY <1>6 DEF Course
    <2>2. After(p) = [idle |-> "user", user |-> "commit"][pc]
      BY <1>6 DEF After, Order
    <2>3. QED
      BY <2>1, <2>2 DEF At
  <1>7. ASSUME op \in {"resetPassword", "disable"}
        PROVE  \/ At(p, "user") /\ After(p) = "rows"
               \/ At(p, "rows") /\ After(p) = "commit"
    <2>1. pc \in {"user", "rows"}
      BY <1>7 DEF Course
    <2>2. After(p) = RevokingOrder[pc]
      BY <1>7 DEF After, Order
    <2>3. QED
      BY <2>1, <2>2 DEF At, RevokingOrder
  <1>8. ASSUME op = "changePassword"
        PROVE  \/ At(p, "user") /\ After(p) = "session"
               \/ At(p, "session") /\ After(p) = "rows"
               \/ At(p, "rows") /\ After(p) = "commit"
    <2>1. pc \in {"user", "session", "rows"}
      BY <1>8 DEF Course
    <2>2. After(p) = [idle |-> "user", user |-> "session", session |-> "rows",
                      rows |-> "commit"][pc]
      BY <1>8 DEF After, Order
    <2>3. QED
      BY <2>1, <2>2 DEF At
  <1>9. ASSUME op = "logout"
        PROVE  \/ At(p, "user") /\ After(p) = "session"
               \/ At(p, "session") /\ After(p) = "commit"
    <2>1. pc \in {"user", "session"}
      BY <1>9 DEF Course
    <2>2. After(p) = LogoutOrder[pc]
      BY <1>9 DEF After, Order
    <2>3. QED
      BY <2>1, <2>2 DEF At, LogoutOrder
  <1>10. QED
    BY <1>1, <1>2, <1>3, <1>4, <1>5, <1>6, <1>7, <1>8, <1>9

(* Each handler's first statement.                                           *)
LEMMA FirstSteps ==
    /\ First("finishLogin") = "subject" /\ First("finishLink") = "user"
    /\ First("recover") = "subject" /\ First("createUser") = "create"
    /\ \A op \in {"preauthorize", "resetPassword", "disable", "changePassword", "logout"} :
          First(op) = "user"
  BY DEF First, Order, RevokingOrder, LogoutOrder

-----------------------------------------------------------------------------
(* What a step of p does to the locks: it takes one, ends, or does neither.  *)
LockStep(p) ==
    \/ UNCHANGED holder
    \/ ReleaseAll(p)
    \/ \E l \in Locks : Take(p, l)

(* What a step of p may do to the rows that others rely on: a row changes    *)
(* under its lock, an identity under its account's, too, no account is lost, *)
(* and a session is opened, or revoked under its account's lock.             *)
Gentle(p) ==
    /\ \A a \in Account :
          /\ accounts'[a] # accounts[a] => holder[a] = p
          /\ accounts[a].status # "absent" => accounts'[a].status # "absent"
    /\ \A x \in Subject : identities'[x] # identities[x] =>
          /\ holder[x] = p
          /\ identities[x] # None => holder[identities[x]] = p
          /\ identities'[x] # None => holder[identities'[x]] = p
    /\ \A s \in SessionId : sessions'[s] # sessions[s] =>
          \/ Fresh(s)
          \/ /\ sessions'[s] = RevokedSession
             /\ Live(s) => holder[sessions[s].owner] = p

(* Locks keep their type, and others' locks stay what they are.              *)
LEMMA LocksMove ==
    ASSUME LocksTypeOK, NEW p \in Process, LockStep(p)
    PROVE  /\ LocksTypeOK'
           /\ \A q \in Process \ {p}, l \in Locks : holder'[l] = q <=> holder[l] = q
  <1>1. LocksTypeOK'
    BY DEF LocksTypeOK, ReleaseAll, Take, Locks, LockStep
  <1>2. ASSUME NEW q \in Process \ {p}, NEW l \in Locks
        PROVE  holder'[l] = q <=> holder[l] = q
    <2>1. CASE UNCHANGED holder
      BY <2>1
    <2>2. CASE ReleaseAll(p)
      BY <2>2, NullAssumption DEF LocksTypeOK, ReleaseAll, Locks
    <2>3. CASE \E m \in Locks : Take(p, m)
      BY <2>3, NullAssumption DEF LocksTypeOK, Take, Free, Locks
    <2>4. QED
      BY <2>1, <2>2, <2>3 DEF LockStep
  <1>3. QED
    BY <1>1, <1>2

(* What another request holds and knows is not disturbed.                    *)
LEMMA OthersKeep ==
    ASSUME Types, NEW p \in Process, NEW q \in Process, p # q, Gentle(p), LockStep(p),
           Course(request[q]), Holds(q), Rests(q), request'[q] = request[q]
    PROVE  Course(request[q])' /\ Holds(q)' /\ Rests(q)'
  <1> DEFINE r == request[q]
  <1>1. \A l \in Locks : holder'[l] = q <=> holder[l] = q
    BY LocksMove DEF Types
  <1>2. /\ r.pc \in PastUser => r.account \in Account /\ holder[r.account] = q
        /\ r.op \in Owning => r.session \in SessionId
        /\ r.op \in Finishing => r.subject \in Subject
        /\ r.known => r.subject \in Subject /\ r.account \in Account
        /\ r.op \notin {"none", "finishLogin", "createUser"} => r.account \in Account
    BY DEF Course, PastUser, Owning, Finishing, Holds
  <1>3. \A a \in Account : holder[a] = q => accounts'[a] = accounts[a]
    BY DEF Gentle
  <1>4. \A x \in Subject : holder[x] = q => identities'[x] = identities[x]
    BY DEF Gentle
  <1>5. ASSUME NEW s \in SessionId
        PROVE  /\ sessions[s].state # "absent" => sessions'[s].state # "absent"
               /\ Live(s)' /\ sessions[s].state # "absent" => sessions'[s] = sessions[s]
               /\ Live(s) /\ holder[sessions[s].owner] = q => sessions'[s] = sessions[s]
    <2>1. Fresh(s) => sessions[s].state = "absent" /\ ~Live(s)
      BY DEF Fresh, Absent, Live
    <2>2. RevokedSession.state = "revoked"
      BY DEF RevokedSession, Absent
    <2>3. \/ sessions'[s] = sessions[s]
          \/ Fresh(s)
          \/ /\ sessions'[s] = RevokedSession
             /\ Live(s) => holder[sessions[s].owner] = p
      BY DEF Gentle
    <2>4. QED
      BY <2>1, <2>2, <2>3 DEF Live
  <1>6. r.pc \in PastUser =>
           /\ holder'[r.account] = q
           /\ r.op # "createUser" => r.user = accounts'[r.account]
    BY <1>1, <1>2, <1>3 DEF Holds, Locks
  <1>7. /\ r.op = "createUser" /\ r.pc = "commit" => accounts'[r.account].status = "absent"
        /\ r.op \notin {"none", "finishLogin", "createUser"} =>
              accounts'[r.account].status # "absent"
    BY <1>2, <1>3 DEF Holds, Gentle, PastUser
  <1>8. r.known => /\ identities'[r.subject] = r.account
                   /\ r.op # "finishLink" => holder'[r.subject] = q
    <2> SUFFICES ASSUME r.known
                 PROVE  /\ identities'[r.subject] = r.account
                        /\ r.op # "finishLink" => holder'[r.subject] = q
      OBVIOUS
    <2>1. /\ identities[r.subject] = r.account
          /\ r.op # "finishLink" => holder[r.subject] = q
      BY DEF Holds
    <2>2. CASE r.op # "finishLink"
      BY <2>1, <2>2, <1>1, <1>2, <1>4 DEF Locks
    <2>3. CASE r.op = "finishLink"
      <3>1. holder[r.account] = q /\ r.account # None
        BY <2>3, <1>2, NullAssumption DEF Course, PastUser
      <3>2. QED
        BY <2>1, <2>3, <3>1, <1>2 DEF Gentle
    <2>4. QED
      BY <2>2, <2>3
  <1>9. r.op \in Finishing /\ r.pc = "commit" /\ ~r.known =>
           /\ holder'[r.subject] = q /\ identities'[r.subject] = None
           /\ Subjects(r.account)' = {}
    <2> SUFFICES ASSUME r.op \in Finishing, r.pc = "commit", ~r.known
                 PROVE  /\ holder'[r.subject] = q /\ identities'[r.subject] = None
                        /\ Subjects(r.account)' = {}
      OBVIOUS
    <2>1. holder[r.subject] = q /\ identities[r.subject] = None /\ Subjects(r.account) = {}
      BY DEF Holds
    <2>2. r.account \in Account /\ holder[r.account] = q /\ r.account # None
      BY <1>2, NullAssumption DEF PastUser
    <2>3. ASSUME NEW x \in Subject, identities'[x] = r.account PROVE FALSE
      <3>1. identities[x] # r.account
        BY <2>1 DEF Subjects
      <3>2. QED
        BY <2>2, <2>3, <3>1 DEF Gentle
    <2>4. QED
      BY <2>1, <2>3, <1>1, <1>2, <1>4 DEF Locks, Subjects
  <1>10. r.op \in Owning =>
           /\ sessions'[r.session].state # "absent"
           /\ Live(r.session)' => sessions'[r.session].owner = r.account
    BY <1>2, <1>5 DEF Holds, Live
  <1>11. r.op = "finishLink" /\ r.pc \in {"owners", "bind", "commit"} =>
           /\ r.user.password # "temporary" /\ r.user.status = "active"
           /\ sessions'[r.session].state = "live"
    <2> SUFFICES ASSUME r.op = "finishLink", r.pc \in {"owners", "bind", "commit"}
                 PROVE  /\ r.user.password # "temporary" /\ r.user.status = "active"
                        /\ sessions'[r.session].state = "live"
      OBVIOUS
    <2>1. /\ r.user.password # "temporary" /\ r.user.status = "active" /\ Live(r.session)
          /\ sessions[r.session].owner = r.account
      BY DEF Holds, Owning
    <2>2. r.session \in SessionId /\ holder[r.account] = q
      BY <1>2 DEF Owning, PastUser
    <2>3. QED
      BY <2>1, <2>2, <1>5 DEF Live
  <1>12. Holds(q)'
    BY <1>6, <1>7, <1>8, <1>9, <1>10, <1>11 DEF Holds, Live, CanAutoLink
  <1>13. /\ \A a \in Account : holder'[a] = q => r.account = a /\ r.pc \in PastUser
         /\ \A x \in Subject : holder'[x] = q =>
               /\ r.subject = x
               /\ r.known \/ (r.op \in Finishing /\ r.pc = "commit")
    BY <1>1 DEF Rests, Locks
  <1>14. ASSUME NEW s \in SessionId, holder'[s] = q
         PROVE  /\ r.pc \in {"owners", "bind", "rows", "commit"}
                /\ sessions'[s].state = "live" /\ sessions'[s].owner = r.account
    <2>1. holder[s] = q
      BY <1>1, <1>14 DEF Locks
    <2>2. /\ r.pc \in {"owners", "bind", "rows", "commit"}
          /\ Live(s) /\ sessions[s].owner = r.account
      BY <2>1 DEF Rests
    <2>3. holder[sessions[s].owner] = q
      BY <2>2, <1>2 DEF PastUser
    <2>4. QED
      BY <2>2, <2>3, <1>5 DEF Live
  <1>15. Rests(q)'
    BY <1>13, <1>14 DEF Rests, Live
  <1>16. Course(request[q])'
    BY DEF Course
  <1>17. QED
    BY <1>12, <1>15, <1>16

-----------------------------------------------------------------------------
(* A step of one request keeps the invariant if it is gentle and leaves that *)
(* request and the tables in order.                                          *)
LEMMA OneMoves ==
    ASSUME IInv, NEW p \in Process, Gentle(p), LockStep(p),
           NEW r \in Request, request' = [request EXCEPT ![p] = r],
           accounts' \in [Account -> User], identities' \in [Subject -> Account \cup {None}],
           challenges' \in [Challenge -> ChallengeRow], sessions' \in [SessionId -> Session],
           Tables', Course(r), Holds(p)', Rests(p)'
    PROVE  IInv'
  <1>1. request'[p] = r /\ \A q \in Process : q # p => request'[q] = request[q]
    BY DEF IInv, Types
  <1>2. Types'
    BY LocksMove DEF IInv, Types
  <1>3. ASSUME NEW q \in Process PROVE (Course(request[q]) /\ Holds(q) /\ Rests(q))'
    <2>1. CASE q = p
      <3>1. Course(request'[q])
        BY <1>1, <2>1
      <3>2. QED
        BY <2>1, <3>1 DEF Course
    <2>2. CASE q # p
      BY <2>2, <1>1, OthersKeep DEF IInv
    <2>3. QED
      BY <2>1, <2>2
  <1>4. QED
    BY <1>2, <1>3 DEF IInv

(* Where the rows rest, so do the tables.                                    *)
LEMMA Quiet ==
    ASSUME IInv, NEW p \in Process, UNCHANGED <<accounts, identities, sessions>>
    PROVE  /\ Gentle(p) /\ Tables'
           /\ accounts' \in [Account -> User] /\ identities' \in [Subject -> Account \cup {None}]
           /\ sessions' \in [SessionId -> Session]
  <1>1. Gentle(p)
    BY DEF Gentle
  <1>2. /\ \A a \in Account : Subjects(a)' = Subjects(a)
        /\ \A s \in SessionId : Live(s)' <=> Live(s)
    BY DEF Subjects, Live
  <1>3. Tables'
    BY <1>2 DEF IInv, Tables
  <1>4. QED
    BY <1>1, <1>3 DEF IInv, Types

(* The rows stay and the request goes on.                                    *)
LEMMA GoingOn ==
    ASSUME IInv, NEW p \in Process, LockStep(p), UNCHANGED <<accounts, identities, sessions>>,
           challenges' \in [Challenge -> ChallengeRow],
           NEW r \in Request, request' = [request EXCEPT ![p] = r],
           Course(r), Holds(p)', Rests(p)'
    PROVE  IInv'
  <1>1. /\ Gentle(p) /\ Tables'
        /\ accounts' \in [Account -> User] /\ identities' \in [Subject -> Account \cup {None}]
        /\ sessions' \in [SessionId -> Session]
    BY Quiet
  <1>2. QED
    BY <1>1, OneMoves

(* An idle process has a request's fields, all of them empty.                *)
LEMMA IdleType == Idle \in Request /\ Course(Idle)
  <1>1. AbsentUser \in User
    BY DEF AbsentUser, User
  <1>2. Idle \in Request
    BY <1>1 DEF Idle, Request, Step
  <1>3. Course(Idle)
    BY DEF Idle, Course, Owning, Finishing
  <1>4. QED
    BY <1>2, <1>3

(* A process that has no request and no locks has nothing to answer for.     *)
LEMMA IdleRests ==
    ASSUME NEW p \in Process, request'[p] = Idle,
           \A l \in Locks : holder'[l] # p
    PROVE  Holds(p)' /\ Rests(p)'
  <1>1. Holds(p)'
    BY DEF Holds, Idle, PastUser, Owning, Finishing
  <1>2. Rests(p)'
    BY DEF Rests, Locks
  <1>3. QED
    BY <1>1, <1>2

(* A transaction that ends: its request has nothing to hold any more.        *)
LEMMA Ending ==
    ASSUME IInv, NEW p \in Process, End(p), Gentle(p), Tables',
           accounts' \in [Account -> User], identities' \in [Subject -> Account \cup {None}],
           challenges' \in [Challenge -> ChallengeRow], sessions' \in [SessionId -> Session]
    PROVE  IInv'
  <1>1. request' = [request EXCEPT ![p] = Idle] /\ ReleaseAll(p)
    BY DEF End
  <1>2. request'[p] = Idle
    BY <1>1 DEF IInv, Types
  <1>3. \A l \in Locks : holder'[l] # p
    BY <1>1, NullAssumption DEF ReleaseAll, Locks, IInv, Types, LocksTypeOK
  <1>4. Holds(p)' /\ Rests(p)'
    BY <1>2, <1>3, IdleRests
  <1>5. LockStep(p)
    BY <1>1 DEF LockStep
  <1>6. QED
    BY <1>1, <1>4, <1>5, IdleType, OneMoves

(* Refusals and rollbacks.                                                   *)
LEMMA Refusing ==
    ASSUME IInv, NEW p \in Process, End(p), UnchangedRows PROVE IInv'
  <1>1. UNCHANGED <<accounts, identities, sessions>> /\ UNCHANGED challenges
    BY DEF UnchangedRows
  <1>2. /\ Gentle(p) /\ Tables'
        /\ accounts' \in [Account -> User] /\ identities' \in [Subject -> Account \cup {None}]
        /\ sessions' \in [SessionId -> Session]
    BY <1>1, Quiet
  <1>3. challenges' \in [Challenge -> ChallengeRow]
    BY <1>1 DEF IInv, Types
  <1>4. QED
    BY <1>2, <1>3, Ending

-----------------------------------------------------------------------------
(* What is known of a request.                                               *)
LEMMA Known ==
    ASSUME IInv, NEW p \in Process
    PROVE  /\ request[p] \in Request /\ Course(request[p]) /\ Holds(p) /\ Rests(p)
           /\ request[p].op \in AllOps \cup {"none"}
           /\ At(p, "idle") => \A l \in Locks : holder[l] # p
  <1>1. request[p] \in Request /\ Course(request[p]) /\ Holds(p) /\ Rests(p)
    BY DEF IInv, Types
  <1>2. request[p].op \in AllOps \cup {"none"}
    BY <1>1 DEF Request
  <1>3. ASSUME At(p, "idle"), NEW l \in Locks PROVE holder[l] # p
    <2>1. request[p].pc = "idle" /\ request[p].op = "none" /\ ~request[p].known
      BY <1>1, <1>3 DEF At, Course
    <2>2. QED
      BY <1>1, <2>1 DEF Rests, Locks, PastUser
  <1>4. QED
    BY <1>1, <1>2, <1>3

(* A request that has just come has neither locks nor knowledge.             *)
LEMMA Arriving ==
    ASSUME IInv, NEW p \in Process, At(p, "idle"),
           UNCHANGED <<holder, accounts, identities, sessions>>,
           challenges' \in [Challenge -> ChallengeRow],
           NEW r \in Request, request' = [request EXCEPT ![p] = r],
           Course(r), r.pc \in {"idle", "subject", "user", "create"}, ~r.known,
           r.op = "finishLogin" => r.pc = "subject",
           r.op \notin {"none", "finishLogin", "createUser"} =>
              accounts[r.account].status # "absent",
           r.op \in Owning => Live(r.session) /\ sessions[r.session].owner = r.account
    PROVE  IInv'
  <1>1. request'[p] = r
    BY DEF IInv, Types
  <1>2. \A l \in Locks : holder'[l] # p
    BY Known
  <1>3. Holds(p)'
    BY <1>1 DEF Holds, PastUser, Live
  <1>4. Rests(p)'
    BY <1>2 DEF Rests, Locks
  <1>5. QED
    BY <1>1, <1>3, <1>4, GoingOn DEF LockStep

(* A live session's owner is an account that is not absent.                  *)
LEMMA OwnerIsThere ==
    ASSUME IInv, NEW s \in SessionId, Live(s)
    PROVE  sessions[s].owner \in Account /\ accounts[sessions[s].owner].status # "absent"
  BY DEF IInv, Tables

(* The challenges a request stores, consumes or closes keep their type.      *)
LEMMA ChallengesKept ==
    ASSUME IInv, NEW ch \in Challenge
    PROVE  /\ [challenges EXCEPT ![ch] = Closed] \in [Challenge -> ChallengeRow]
           /\ \A row \in ChallengeRow, expired \in SUBSET Open :
                 [[c \in Challenge |-> IF c \in expired THEN Closed
                                       ELSE challenges[c]] EXCEPT ![ch] = row]
                 \in [Challenge -> ChallengeRow]
  <1>1. Closed \in ChallengeRow
    BY DEF Closed, ChallengeRow
  <1>2. challenges \in [Challenge -> ChallengeRow]
    BY DEF IInv, Types
  <1>3. QED
    BY <1>1, <1>2

(* Storing a challenge.                                                      *)
LEMMA StoreKeeps ==
    ASSUME IInv, NEW p \in Process, NEW ch \in Challenge, NEW row \in ChallengeRow,
           NEW expired \in SUBSET Open, Store(p, ch, row, expired)
    PROVE  IInv'
  <1>1. challenges' \in [Challenge -> ChallengeRow]
    BY ChallengesKept DEF Store
  <1>2. request' = [request EXCEPT ![p] = request[p]] /\ request[p] \in Request
    BY Known DEF Store, IInv, Types
  <1>3. (Holds(p) /\ Rests(p))'
    <2>1. UNCHANGED <<accounts, identities, sessions, holder, request>>
      BY DEF Store
    <2>2. \A a \in Account : Subjects(a)' = Subjects(a)
      BY <2>1 DEF Subjects
    <2>3. At(p, "idle") /\ request[p].op = "none"
      BY Known DEF Store, At, Course
    <2>4. Holds(p)'
      BY <2>1, <2>3, Known DEF Holds, Owning, Finishing, At, PastUser, Course
    <2>5. Rests(p)'
      BY <2>1, Known DEF Rests, Live
    <2>6. QED
      BY <2>4, <2>5
  <1>4. UNCHANGED <<accounts, identities, sessions>> /\ LockStep(p)
    BY DEF Store, LockStep
  <1>5. QED
    BY <1>1, <1>2, <1>3, <1>4, Known, GoingOn

(* Consuming a challenge, before a request that has it or in vain.           *)
LEMMA ConsumeKeeps ==
    ASSUME IInv, NEW p \in Process, NEW ch \in Challenge, NEW r \in Request,
           Consume(p, ch, r),
           Course(r), r.pc \in {"idle", "subject", "user", "create"}, ~r.known,
           r.op = "finishLogin" => r.pc = "subject",
           r.op \notin {"none", "finishLogin", "createUser"} =>
              accounts[r.account].status # "absent",
           r.op \in Owning => Live(r.session) /\ sessions[r.session].owner = r.account
    PROVE  IInv'
  <1>1. challenges' \in [Challenge -> ChallengeRow]
    BY ChallengesKept DEF Consume
  <1>2. /\ At(p, "idle") /\ request' = [request EXCEPT ![p] = r]
        /\ UNCHANGED <<holder, accounts, identities, sessions>>
    BY DEF Consume
  <1>3. QED
    BY <1>1, <1>2, Arriving

(* An arrival that touches no challenge.                                     *)
LEMMA ArriveKeeps ==
    ASSUME IInv, NEW p \in Process, NEW r \in Request, Arrive(p, r),
           Course(r), r.pc \in {"idle", "subject", "user", "create"}, ~r.known,
           r.op = "finishLogin" => r.pc = "subject",
           r.op \notin {"none", "finishLogin", "createUser"} =>
              accounts[r.account].status # "absent",
           r.op \in Owning => Live(r.session) /\ sessions[r.session].owner = r.account
    PROVE  IInv'
  <1>1. /\ At(p, "idle") /\ request' = [request EXCEPT ![p] = r]
        /\ UNCHANGED <<holder, accounts, identities, sessions>> /\ UNCHANGED challenges
    BY DEF Arrive, UnchangedRows
  <1>2. challenges' \in [Challenge -> ChallengeRow]
    BY <1>1 DEF IInv, Types
  <1>3. QED
    BY <1>1, <1>2, Arriving

(* Every arrival keeps the invariant.                                        *)
LEMMA ArrivalsKeep ==
    ASSUME IInv, NEW p \in Process, Arrives(p) PROVE IInv'
  <1>1. ASSUME NEW ch \in Challenge, NEW expired \in SUBSET Open, BeginLogin(p, ch, expired)
        PROVE  IInv'
    <2>1. [purpose |-> "login", account |-> None] \in ChallengeRow
      BY DEF ChallengeRow
    <2>2. QED
      BY <1>1, <2>1, StoreKeeps DEF BeginLogin
  <1>2. ASSUME NEW ch \in Challenge, NEW expired \in SUBSET Open, NEW s \in SessionId,
               BeginLink(p, s, ch, expired)
        PROVE  IInv'
    <2>1. [purpose |-> "link", account |-> sessions[s].owner] \in ChallengeRow
      BY <1>2, OwnerIsThere DEF ChallengeRow, BeginLink, Authenticated, Principal
    <2>2. QED
      BY <1>2, <2>1, StoreKeeps DEF BeginLink
  <1>3. ASSUME NEW ch \in Challenge, NEW claims \in Claims, FinishLogin(p, ch, claims)
        PROVE  IInv'
    <2> DEFINE r == [Idle EXCEPT !.op = "finishLogin", !.pc = First("finishLogin"),
                                 !.challenge = ch, !.subject = claims.subject,
                                 !.account = claims.email]
    <2>1. claims.subject \in Subject /\ claims.email \in Account \cup {None}
      BY DEF Claims
    <2>2. /\ r \in Request /\ r.op = "finishLogin" /\ r.pc = "subject" /\ ~r.known
          /\ r.subject \in Subject
      BY <2>1, FirstSteps, IdleType DEF Idle, Request, Step, AllOps, Finishing
    <2>3. Consume(p, ch, r)
      BY <1>3 DEF FinishLogin
    <2> HIDE DEF r
    <2>4. Course(r)
      BY <2>2 DEF Course, Owning, Finishing
    <2>5. QED
      BY <2>2, <2>3, <2>4, ConsumeKeeps DEF Owning
  <1>4. ASSUME NEW ch \in Challenge, NEW x \in Subject, NEW s \in SessionId,
               FinishLink(p, s, ch, x)
        PROVE  IInv'
    <2> DEFINE a == sessions[s].owner
    <2> DEFINE r == [Idle EXCEPT !.op = "finishLink", !.pc = First("finishLink"),
                                 !.challenge = ch, !.subject = x, !.session = s,
                                 !.account = a]
    <2>1. Live(s) /\ a \in Account /\ accounts[a].status # "absent"
      BY <1>4, OwnerIsThere DEF FinishLink, Authenticated, Principal
    <2>2. Consume(p, ch, r)
      BY <1>4 DEF FinishLink
    <2> HIDE DEF a
    <2>3. /\ r \in Request /\ r.op = "finishLink" /\ r.pc = "user" /\ ~r.known
          /\ r.subject = x /\ r.session = s /\ r.account = a
      BY <2>1, FirstSteps, IdleType DEF Idle, Request, Step, AllOps, Finishing
    <2> HIDE DEF r
    <2>4. Course(r)
      BY <2>1, <2>3 DEF Course, Owning, Finishing
    <2>5. QED
      BY <2>1, <2>2, <2>3, <2>4, ConsumeKeeps DEF Owning, a
  <1>5. ASSUME NEW ch \in Challenge, FinishInVain(p, ch) PROVE IInv'
    BY <1>5, IdleType, ConsumeKeeps DEF FinishInVain, Idle, Owning
  <1>6. ASSUME NEW s \in SessionId, NEW op \in {"changePassword", "logout"},
               OwnerAsks(p, s, op)
        PROVE  IInv'
    <2> DEFINE a == sessions[s].owner
    <2> DEFINE r == [Idle EXCEPT !.op = op, !.pc = First(op), !.session = s, !.account = a]
    <2>1. Live(s) /\ a \in Account /\ accounts[a].status # "absent"
      BY <1>6, OwnerIsThere DEF OwnerAsks
    <2>2. Arrive(p, r)
      BY <1>6 DEF OwnerAsks
    <2> HIDE DEF a
    <2>3. /\ r \in Request /\ r.op = op /\ r.pc = "user" /\ ~r.known
          /\ r.session = s /\ r.account = a
      BY <2>1, FirstSteps, IdleType DEF Idle, Request, Step, AllOps
    <2> HIDE DEF r
    <2>4. Course(r)
      BY <2>1, <2>3 DEF Course, Owning, Finishing
    <2>5. QED
      BY <2>1, <2>2, <2>3, <2>4, ArriveKeeps DEF Owning, a
  <1>7. ASSUME NEW a \in Managed, NEW autoLink \in BOOLEAN, CreateUser(p, a, autoLink)
        PROVE  IInv'
    <2> DEFINE u == ProvisionedUser(autoLink)
    <2> DEFINE r == [Idle EXCEPT !.op = "createUser", !.pc = First("createUser"),
                                 !.account = a, !.user = u]
    <2>1. a \in Account /\ u \in User
      BY ManagedAssumption DEF ProvisionedUser, User
    <2>2. Arrive(p, r)
      BY <1>7 DEF CreateUser
    <2> HIDE DEF u
    <2>3. /\ r \in Request /\ r.op = "createUser" /\ r.pc = "create" /\ ~r.known
          /\ r.account = a /\ r.user = u
      BY <2>1, FirstSteps, IdleType DEF Idle, Request, Step, AllOps
    <2> HIDE DEF r
    <2>4. Course(r)
      BY <2>1, <2>3 DEF Course, Owning, Finishing, u
    <2>5. QED
      BY <2>1, <2>2, <2>3, <2>4, ArriveKeeps DEF Owning
  <1>8. ASSUME NEW a \in Managed, NEW op \in Administering, AdministratorAsks(p, a, op)
        PROVE  IInv'
    <2> DEFINE r == [Idle EXCEPT !.op = op, !.pc = First(op), !.account = a]
    <2>1. a \in Account /\ accounts[a].status # "absent"
      BY <1>8, ManagedAssumption DEF AdministratorAsks
    <2>2. Arrive(p, r)
      BY <1>8 DEF AdministratorAsks
    <2>3. op \in {"preauthorize", "resetPassword", "disable", "recover"}
      BY DEF Administering
    <2>4. First(op) = IF op = "recover" THEN "subject" ELSE "user"
      BY <2>3, FirstSteps
    <2>5. /\ r \in Request /\ r.op = op /\ r.pc = First(op) /\ ~r.known
          /\ r.account = a /\ r.subject = None
      BY <2>1, <2>3, <2>4, IdleType DEF Idle, Request, Step, AllOps, Administering
    <2> HIDE DEF r
    <2>6. Course(r)
      BY <2>1, <2>3, <2>4, <2>5, NullAssumption DEF Course, Owning, Finishing
    <2>7. QED
      BY <2>1, <2>2, <2>3, <2>4, <2>5, <2>6, ArriveKeeps DEF Owning
  <1>9. QED
    BY <1>1, <1>2, <1>3, <1>4, <1>5, <1>6, <1>7, <1>8 DEF Arrives

-----------------------------------------------------------------------------
(* What a request's own fields and locks become when it takes a lock.        *)
LEMMA OwnLocks ==
    ASSUME IInv, NEW p \in Process, NEW l \in Locks, Take(p, l)
    PROVE  /\ LockStep(p) /\ Free(p, l)
           /\ \A m \in Locks : holder'[m] = p <=> m = l \/ holder[m] = p
           /\ l \in Account => l \notin Subject /\ l \notin SessionId
           /\ l \in Subject => l \notin Account /\ l \notin SessionId
           /\ l \in SessionId => l \notin Account /\ l \notin Subject
  BY RowsAssumption DEF IInv, Types, LocksTypeOK, Locks, Take, LockStep

(* A request that goes on where it is, with the rows as they are.            *)
LEMMA Staying ==
    ASSUME IInv, UnchangedRows
    PROVE  /\ UNCHANGED <<accounts, identities, sessions>>
           /\ challenges' \in [Challenge -> ChallengeRow]
           /\ \A a \in Account : Subjects(a)' = Subjects(a)
           /\ \A s \in SessionId : Live(s)' <=> Live(s)
  BY DEF IInv, Types, UnchangedRows, Subjects, Live

(* The next statement, nothing else.                                         *)
LEMMA GotoMoves ==
    ASSUME IInv, NEW p \in Process, NEW pc \in Step, Goto(p, pc)
    PROVE  LET r == [request[p] EXCEPT !.pc = pc]
           IN  /\ r \in Request /\ request' = [request EXCEPT ![p] = r]
               /\ request'[p] = r /\ r.pc = pc
               /\ r.op = request[p].op /\ r.account = request[p].account
               /\ r.session = request[p].session /\ r.subject = request[p].subject
               /\ r.user = request[p].user /\ r.known = request[p].known
               /\ r.again = request[p].again
  <1>1. request \in [Process -> Request] /\ request[p] \in Request
    BY DEF IInv, Types
  <1>2. [request[p] EXCEPT !.pc = pc] \in Request
    BY <1>1 DEF Request
  <1>3. request' = [request EXCEPT ![p] = [request[p] EXCEPT !.pc = pc]]
    BY <1>1 DEF Goto
  <1>4. QED
    BY <1>1, <1>2, <1>3 DEF Request

(* An identity that a statement looks for and finds.                         *)
LEMMA FindSubjectKeeps ==
    ASSUME IInv, NEW p \in Process, UnchangedRows, At(p, "subject"), NEW x \in Subject,
           IF request[p].op = "recover" THEN identities[x] = request[p].account
           ELSE x = request[p].subject /\ identities[x] # None,
           Take(p, x),
           request' = [request EXCEPT ![p].subject = x, ![p].account = identities[x],
                                      ![p].known = TRUE, ![p].pc = After(p)]
    PROVE  IInv'
  <1> DEFINE q == request[p]
             a == identities[x]
             pc == After(p)
             r == [q EXCEPT !.subject = x, !.account = a, !.known = TRUE, !.pc = pc]
  <1>1. /\ q \in Request /\ Course(q) /\ Holds(p) /\ Rests(p) /\ q.pc = "subject"
        /\ q.op \in AllOps \cup {"none"}
    BY Known DEF At
  <1>2. q.op \in {"finishLogin", "recover"} /\ pc = "user"
    <2>1. q.op \in {"finishLogin", "recover"}
      BY <1>1 DEF Course, AllOps, Finishing, Administering
    <2>2. QED
      BY <1>1, <2>1, Courses DEF At
  <1>3. a \in Account
    <2>1. a \in Account \cup {None}
      BY DEF IInv, Types
    <2>2. q.op = "recover" => q.account \in Account
      BY <1>1 DEF Course
    <2>3. QED
      BY <2>1, <2>2
  <1>4. request' = [request EXCEPT ![p] = r]
    BY DEF IInv, Types
  <1>5. q.op = "recover" => a = q.account /\ accounts[a].status # "absent"
    BY <1>1 DEF Holds
  <1> HIDE DEF a, pc
  <1>6. /\ r \in Request /\ r.op = q.op /\ r.pc = "user" /\ r.account = a
        /\ r.subject = x /\ r.known
    BY <1>1, <1>2, <1>3 DEF Request, Step
  <1> HIDE DEF r
  <1>7. request'[p] = r
    BY <1>4 DEF IInv, Types
  <1>8. /\ LockStep(p) /\ UNCHANGED <<accounts, identities, sessions>>
        /\ challenges' \in [Challenge -> ChallengeRow]
        /\ \A m \in Locks : holder'[m] = p <=> m = x \/ holder[m] = p
        /\ x \notin Account /\ x \notin SessionId
    BY OwnLocks, Staying DEF Locks
  <1>9. Course(r)
    BY <1>2, <1>3, <1>6 DEF Course, Owning, Finishing
  <1>10. identities'[x] = a /\ holder'[x] = p
    BY <1>8 DEF a, Locks
  <1>11. accounts'[a] = accounts[a]
    BY <1>8
  <1>12. Holds(p)'
    BY <1>2, <1>5, <1>6, <1>7, <1>10, <1>11 DEF Holds, PastUser, Owning, Finishing
  <1>13. ~q.known /\ q.pc \notin PastUser
    BY <1>1, <1>2 DEF Course, PastUser
  <1>14. \A y \in Subject : holder[y] # p
    BY <1>1, <1>13 DEF Rests
  <1>15. Rests(p)'
    BY <1>1, <1>6, <1>7, <1>8, <1>13, <1>14 DEF Rests, Locks
  <1>16. QED
    BY <1>4, <1>6, <1>8, <1>9, <1>12, <1>15, GoingOn

(* A subject that has no identity.                                           *)
LEMMA MissSubjectKeeps ==
    ASSUME IInv, NEW p \in Process, UnchangedRows, At(p, "subject"),
           request[p].op = "recover" \/ request[p].account # None,
           Goto(p, After(p)), UNCHANGED holder
    PROVE  IInv'
  <1> DEFINE q == request[p]
             r == [q EXCEPT !.pc = "user"]
  <1>1. /\ q \in Request /\ Course(q) /\ Holds(p) /\ Rests(p) /\ q.pc = "subject"
        /\ q.op \in AllOps \cup {"none"}
    BY Known DEF At
  <1>2. q.op \in {"finishLogin", "recover"} /\ After(p) = "user"
    <2>1. q.op \in {"finishLogin", "recover"}
      BY <1>1 DEF Course, AllOps, Finishing, Administering
    <2>2. QED
      BY <1>1, <2>1, Courses DEF At
  <1>3. /\ r \in Request /\ request' = [request EXCEPT ![p] = r] /\ request'[p] = r
        /\ r.pc = "user" /\ r.op = q.op /\ r.account = q.account
        /\ r.session = q.session /\ r.subject = q.subject
        /\ r.user = q.user /\ r.known = q.known
    <2>1. Goto(p, "user") /\ "user" \in Step
      BY <1>2 DEF Step
    <2>2. QED
      BY <2>1, GotoMoves
  <1> HIDE DEF r
  <1>4. q.account \in Account /\ ~q.known
    BY <1>1, <1>2 DEF Course, Request
  <1>5. Course(r)
    BY <1>1, <1>2, <1>3, <1>4 DEF Course, Owning, Finishing
  <1>6. /\ LockStep(p) /\ UNCHANGED <<accounts, identities, sessions>>
        /\ challenges' \in [Challenge -> ChallengeRow]
    BY Staying DEF LockStep
  <1>7. Holds(p)'
    BY <1>1, <1>2, <1>3, <1>4, <1>6 DEF Holds, PastUser, Owning, Finishing
  <1>8. Rests(p)'
    BY <1>1, <1>3, <1>4, <1>6 DEF Rests, PastUser
  <1>9. QED
    BY <1>3, <1>5, <1>6, <1>7, <1>8, GoingOn

(* LockSubject keeps the invariant.                                          *)
LEMMA LockSubjectKeeps ==
    ASSUME IInv, NEW p \in Process, LockSubject(p) PROVE IInv'
  <1> DEFINE q == request[p]
             found == IF q.op = "recover" THEN Subjects(q.account)
                      ELSE {x \in {q.subject} : identities[x] # None}
             tries == ~q.again /\ Mode # "linked_only" /\ q.account # None
  <1>1. /\ At(p, "subject") /\ UnchangedRows
        /\ \/ \E x \in found :
                 /\ Take(p, x)
                 /\ request' = [request EXCEPT ![p].subject = x,
                                               ![p].account = identities[x],
                                               ![p].known = TRUE,
                                               ![p].pc = After(p)]
           \/ /\ found = {}
              /\ IF q.op = "recover" \/ tries THEN Goto(p, After(p)) /\ UNCHANGED holder
                 ELSE End(p)
    BY DEF LockSubject
  <1>2. ASSUME NEW x \in found, Take(p, x),
               request' = [request EXCEPT ![p].subject = x, ![p].account = identities[x],
                                          ![p].known = TRUE, ![p].pc = After(p)]
        PROVE  IInv'
    <2>1. q.op # "recover" => q.subject \in Subject
      <3>1. Course(q) /\ q.op \in AllOps \cup {"none"} /\ q.pc = "subject"
        BY <1>1, Known DEF At
      <3>2. QED
        BY <3>1 DEF Course, AllOps, Finishing, Administering
    <2>2. /\ x \in Subject
          /\ IF q.op = "recover" THEN identities[x] = q.account
             ELSE x = q.subject /\ identities[x] # None
      BY <2>1 DEF Subjects
    <2>3. QED
      BY <1>1, <1>2, <2>2, FindSubjectKeeps
  <1>3. CASE End(p)
    BY <1>1, <1>3, Refusing
  <1>4. CASE q.op = "recover" \/ tries
    <2>1. CASE Goto(p, After(p)) /\ UNCHANGED holder
      BY <1>1, <1>4, <2>1, MissSubjectKeeps
    <2>2. QED
      BY <1>1, <1>2, <1>4, <2>1
  <1>5. QED
    BY <1>1, <1>2, <1>3, <1>4

(* Where a request goes from the account's statement.                        *)
LEMMA AfterUserIs ==
    ASSUME IInv, NEW p \in Process, At(p, "user")
    PROVE  LET q == request[p]
               user == accounts[q.account]
               next == AfterUser(p, user)
           IN  /\ q.account \in Account /\ q.op \in AllOps
               /\ q.op = "finishLogin" =>
                     \/ next = "idle"
                     \/ next = "create" /\ user.status = "absent" /\ ~q.known
                     \/ next = "commit" /\ user.status = "active" /\ q.known
                     \/ next = "bind" /\ CanAutoLink(user) /\ ~q.known
               /\ q.op = "recover" =>
                     \/ next = "idle"
                     \/ next = "rows" /\ q.known
               /\ q.op \in {"finishLink", "changePassword", "logout"} =>
                     next = "session" /\ ~q.known
               /\ q.op = "preauthorize" => next = "commit" /\ ~q.known
               /\ q.op \in {"resetPassword", "disable"} => next = "rows" /\ ~q.known
               /\ q.op # "createUser"
               /\ q.op # "finishLogin" => user.status # "absent"
  <1> DEFINE q == request[p]
             user == accounts[q.account]
             next == AfterUser(p, user)
  <1>1. /\ q \in Request /\ Course(q) /\ Holds(p) /\ q.pc = "user"
        /\ q.op \in AllOps \cup {"none"}
    BY Known DEF At
  <1>2. q.op \in AllOps /\ q.op # "createUser" /\ q.account \in Account
    BY <1>1 DEF Course
  <1>3. q.op # "finishLogin" => user.status # "absent" /\ ~(q.known /\ q.op # "recover")
    BY <1>1, <1>2 DEF Holds, Course, AllOps
  <1>4. user \in User
    BY <1>2 DEF IInv, Types
  <1>5. ASSUME q.op = "finishLogin"
        PROVE  \/ next = "idle"
               \/ next = "create" /\ user.status = "absent" /\ ~q.known
               \/ next = "commit" /\ user.status = "active" /\ q.known
               \/ next = "bind" /\ CanAutoLink(user) /\ ~q.known
    <2>1. user.status = "absent" => ~q.known
      <3> SUFFICES ASSUME user.status = "absent", q.known PROVE FALSE
        OBVIOUS
      <3>1. q.subject \in Subject /\ identities[q.subject] = q.account
        BY <1>1, <1>5 DEF Holds, Course, Finishing
      <3>2. Subjects(q.account) = {}
        BY <1>2 DEF IInv, Tables
      <3>3. QED
        BY <3>1, <3>2 DEF Subjects
    <2>2. CASE user.status = "absent"
      <3>1. next \in {"create", "idle"}
        BY <1>5, <2>1, <2>2 DEF AfterUser
      <3>2. QED
        BY <2>1, <2>2, <3>1
    <2>3. CASE user.status # "absent" /\ q.known
      <3>1. next = IF user.status = "active" THEN "commit" ELSE "idle"
        BY <1>5, <2>3 DEF AfterUser
      <3>2. QED
        BY <2>3, <3>1
    <2>4. CASE user.status # "absent" /\ ~q.known
      <3>1. next = IF CanAutoLink(user) THEN "bind" ELSE "idle"
        BY <1>5, <2>4 DEF AfterUser
      <3>2. QED
        BY <2>4, <3>1
    <2>5. QED
      BY <2>2, <2>3, <2>4
  <1>6. ASSUME q.op = "recover" PROVE next = "idle" \/ (next = "rows" /\ q.known)
    <2>1. After(p) = "rows"
      BY <1>1, <1>2, <1>6, Courses DEF At
    <2>2. next = IF q.known THEN After(p) ELSE "idle"
      BY <1>6 DEF AfterUser
    <2>3. QED
      BY <2>1, <2>2
  <1>7. ASSUME q.op \notin {"finishLogin", "recover"} PROVE next = After(p) /\ ~q.known
    <2>1. next = After(p)
      BY <1>7 DEF AfterUser
    <2>2. QED
      BY <1>3, <1>7, <2>1
  <1>8. /\ q.op \in {"finishLink", "changePassword", "logout"} => After(p) = "session"
        /\ q.op = "preauthorize" => After(p) = "commit"
        /\ q.op \in {"resetPassword", "disable"} => After(p) = "rows"
    BY <1>1, <1>2, Courses DEF At
  <1>9. QED
    BY <1>2, <1>3, <1>5, <1>6, <1>7, <1>8

(* LockUser keeps the invariant.                                             *)
LEMMA LockUserKeeps ==
    ASSUME IInv, NEW p \in Process, LockUser(p) PROVE IInv'
  <1> DEFINE q == request[p]
             a == q.account
             user == accounts[a]
             next == AfterUser(p, user)
             r == [q EXCEPT !.user = user, !.pc = next]
  <1>1. /\ At(p, "user") /\ UnchangedRows
        /\ IF next = "idle" THEN End(p)
           ELSE /\ IF user.status = "absent" THEN UNCHANGED holder ELSE Take(p, a)
                /\ request' = [request EXCEPT ![p].user = user, ![p].pc = next]
    BY DEF LockUser
  <1>2. CASE next = "idle"
    BY <1>1, <1>2, Refusing
  <1>3. CASE next # "idle"
    <2>1. /\ q \in Request /\ Course(q) /\ Holds(p) /\ Rests(p) /\ q.pc = "user"
      BY <1>1, Known DEF At
    <2>2. /\ a \in Account /\ q.op \in AllOps
          /\ q.op = "finishLogin" =>
                \/ next = "create" /\ user.status = "absent" /\ ~q.known
                \/ next = "commit" /\ user.status = "active" /\ q.known
                \/ next = "bind" /\ CanAutoLink(user) /\ ~q.known
          /\ q.op = "recover" => next = "rows" /\ q.known
          /\ q.op \in {"finishLink", "changePassword", "logout"} => next = "session" /\ ~q.known
          /\ q.op = "preauthorize" => next = "commit" /\ ~q.known
          /\ q.op \in {"resetPassword", "disable"} => next = "rows" /\ ~q.known
          /\ q.op # "createUser"
          /\ q.op # "finishLogin" => user.status # "absent"
      BY <1>1, <1>3, AfterUserIs
    <2>3. user \in User
      BY <2>2 DEF IInv, Types
    <2>4. user.status = "absent" => user = AbsentUser
      BY <2>2 DEF IInv, Tables
    <2>5. request' = [request EXCEPT ![p] = r]
      BY <1>1, <1>3 DEF IInv, Types
    <2>6. IF user.status = "absent" THEN UNCHANGED holder ELSE Take(p, a)
      BY <1>1, <1>3
    <2> HIDE DEF next
    <2>7. next \in Step
      BY <2>2 DEF AllOps, Finishing, Administering, Step
    <2> DEFINE row == user
    <2> HIDE DEF row
    <2>8. /\ r \in Request /\ r.op = q.op /\ r.pc = next /\ r.account = a /\ r.user = user
          /\ r.session = q.session /\ r.subject = q.subject /\ r.known = q.known
      <3> DEFINE w == [q EXCEPT !.user = row, !.pc = next]
      <3>1. row \in User
        BY <2>3 DEF row
      <3>2. /\ w \in Request /\ w.op = q.op /\ w.pc = next /\ w.account = a /\ w.user = row
            /\ w.session = q.session /\ w.subject = q.subject /\ w.known = q.known
        BY <2>1, <2>7, <3>1 DEF Request
      <3>3. QED
        BY <3>2 DEF row
    <2> HIDE DEF r
    <2>9. request'[p] = r
      BY <2>5 DEF IInv, Types
    <2>10. Course(r)
      BY <2>1, <2>2, <2>8 DEF Course, Owning, Finishing, AllOps, Administering
    <2>11. /\ UNCHANGED <<accounts, identities, sessions>>
           /\ challenges' \in [Challenge -> ChallengeRow]
           /\ \A s \in SessionId : Live(s)' <=> Live(s)
      BY <1>1, Staying
    <2>12. /\ LockStep(p)
           /\ \A m \in Locks : holder'[m] = p <=>
                 (m = a /\ user.status # "absent") \/ holder[m] = p
           /\ a \notin Subject /\ a \notin SessionId
      <3>1. CASE user.status = "absent"
        BY <2>2, <2>6, <3>1, RowsAssumption DEF LockStep
      <3>2. CASE user.status # "absent"
        BY <2>2, <2>6, <3>2, OwnLocks DEF Locks
      <3>3. QED
        BY <3>1, <3>2
    <2>13. next \in PastUser => user.status # "absent" /\ holder'[a] = p
      BY <2>2, <2>12 DEF PastUser, AllOps, Finishing, Administering, CanAutoLink, Locks
    <2>14. user.status # "absent" => next \in PastUser
      BY <2>2 DEF PastUser, AllOps, Finishing, Administering
    <2>15. Holds(p)'
      <3>1. r.pc \in PastUser =>
               holder'[r.account] = p /\ r.user = accounts'[r.account]
        BY <2>8, <2>11, <2>13
      <3>2. r.op \notin {"none", "finishLogin", "createUser"} =>
               accounts'[r.account].status # "absent"
        BY <2>2, <2>8, <2>11
      <3>3. r.op = "finishLogin" =>
               /\ r.pc = "create" => r.user = AbsentUser
               /\ r.pc \in {"bind", "commit"} /\ ~r.known => CanAutoLink(r.user)
               /\ r.pc = "commit" /\ r.known => r.user.status = "active"
        BY <2>2, <2>4, <2>8
      <3>4. r.known => /\ identities'[r.subject] = r.account
                       /\ r.op # "finishLink" => holder'[r.subject] = p
        <4>1. q.known => /\ q.subject \in Subject
                         /\ identities[q.subject] = a
                         /\ q.op # "finishLink" => holder[q.subject] = p
          BY <2>1 DEF Holds, Course, Finishing
        <4>2. QED
          BY <2>8, <2>11, <2>12, <4>1 DEF Locks
      <3>5. ~(r.op \in Finishing /\ r.pc = "commit" /\ ~r.known)
        BY <2>2, <2>8 DEF Finishing
      <3>6. r.op \in Owning =>
               /\ sessions'[r.session].state # "absent"
               /\ sessions'[r.session].state = "live" => sessions'[r.session].owner = r.account
        BY <2>1, <2>8, <2>11 DEF Holds, Live
      <3>7. /\ ~(r.op = "finishLink" /\ r.pc \in {"owners", "bind", "commit"})
            /\ ~(r.op = "changePassword" /\ r.pc \in {"rows", "commit"})
            /\ r.op # "createUser"
        BY <2>2, <2>8
      <3>8. QED
        BY <2>9, <3>1, <3>2, <3>3, <3>4, <3>5, <3>6, <3>7 DEF Holds, Live, CanAutoLink
    <2>16. Rests(p)'
      <3>1. ASSUME NEW b \in Account, holder'[b] = p PROVE r.account = b /\ r.pc \in PastUser
        <4>1. (b = a /\ user.status # "absent") \/ holder[b] = p
          BY <2>12, <3>1 DEF Locks
        <4>2. holder[b] # p
          BY <2>1 DEF Rests, PastUser
        <4>3. QED
          BY <2>8, <2>14, <4>1, <4>2
      <3>2. ASSUME NEW x \in Subject, holder'[x] = p PROVE r.subject = x /\ r.known
        BY <2>1, <2>8, <2>12, <3>2 DEF Rests, Locks
      <3>3. ASSUME NEW s \in SessionId PROVE holder'[s] # p
        BY <2>1, <2>12, <3>3 DEF Rests, Locks
      <3>4. QED
        BY <2>9, <3>1, <3>2, <3>3 DEF Rests
    <2>17. QED
      BY <2>5, <2>8, <2>10, <2>11, <2>12, <2>15, <2>16, GoingOn
  <1>4. QED
    BY <1>2, <1>3

(* A transaction that failed on a uniqueness conflict has no knowledge left. *)
LEMMA ConflictKeeps ==
    ASSUME IInv, NEW p \in Process, Conflict(p), UnchangedRows,
           request[p].pc \in {"create", "bind"}
    PROVE  IInv'
  <1> DEFINE q == request[p]
             pc == First(q.op)
             r == [q EXCEPT !.again = TRUE, !.user = AbsentUser, !.pc = pc]
  <1>1. /\ q \in Request /\ Course(q) /\ Holds(p) /\ Rests(p)
        /\ q.op \in AllOps \cup {"none"}
    BY Known
  <1>2. CASE q.op \notin Finishing
    <2>1. End(p)
      BY <1>2 DEF Conflict, End
    <2>2. QED
      BY <2>1, Refusing
  <1>3. CASE q.op \in Finishing
    <2>1. request' = [request EXCEPT ![p] = r] /\ ReleaseAll(p)
      BY <1>3 DEF Conflict
    <2>2. /\ ~q.known /\ q.account \in Account /\ q.subject \in Subject
          /\ \/ q.op = "finishLogin" /\ pc = "subject"
             \/ q.op = "finishLink" /\ pc = "user"
      BY <1>1, <1>3, FirstSteps DEF Course, Finishing
    <2> HIDE DEF pc
    <2>3. AbsentUser \in User /\ pc \in Step
      BY <2>2 DEF AbsentUser, User, Step
    <2>4. /\ r \in Request /\ r.op = q.op /\ r.pc = pc /\ r.account = q.account
          /\ r.session = q.session /\ r.subject = q.subject /\ r.known = q.known
      BY <1>1, <2>3 DEF Request
    <2> HIDE DEF r
    <2>5. request'[p] = r
      BY <2>1 DEF IInv, Types
    <2>6. Course(r)
      BY <1>1, <2>2, <2>4 DEF Course, Owning, Finishing
    <2>7. /\ UNCHANGED <<accounts, identities, sessions>> /\ LockStep(p)
          /\ challenges' \in [Challenge -> ChallengeRow]
      BY <2>1, Staying DEF LockStep
    <2>8. \A l \in Locks : holder'[l] # p
      BY <2>1, NullAssumption DEF ReleaseAll, Locks, IInv, Types, LocksTypeOK
    <2>9. Holds(p)'
      BY <1>1, <2>2, <2>4, <2>5, <2>7 DEF Holds, PastUser, Owning, Finishing, Live
    <2>10. Rests(p)'
      BY <2>8 DEF Rests, Locks
    <2>11. QED
      BY <2>1, <2>4, <2>6, <2>7, <2>9, <2>10, GoingOn
  <1>4. QED
    BY <1>2, <1>3

(* InsertUser keeps the invariant.                                           *)
LEMMA InsertUserKeeps ==
    ASSUME IInv, NEW p \in Process, InsertUser(p) PROVE IInv'
  <1> DEFINE q == request[p]
             a == q.account
             pc == After(p)
             r == [q EXCEPT !.pc = pc]
  <1>1. At(p, "create") /\ UnchangedRows
    BY DEF InsertUser
  <1>2. /\ q \in Request /\ Course(q) /\ Holds(p) /\ Rests(p) /\ q.pc = "create"
        /\ q.op \in AllOps \cup {"none"}
    BY <1>1, Known DEF At
  <1>3. CASE accounts[a].status # "absent"
    BY <1>1, <1>2, <1>3, ConflictKeeps DEF InsertUser
  <1>4. CASE accounts[a].status = "absent"
    <2>1. Take(p, a) /\ Goto(p, pc)
      BY <1>4 DEF InsertUser
    <2>2. /\ \/ q.op = "finishLogin" /\ pc = "bind"
             \/ q.op = "createUser" /\ pc = "commit"
          /\ a \in Account /\ ~q.known
      <3>1. q.op \in {"finishLogin", "createUser"}
        BY <1>2 DEF Course, AllOps, Finishing, Administering
      <3>2. QED
        BY <1>2, <3>1, Courses DEF At, Course
    <2> HIDE DEF pc
    <2>3. pc \in Step
      BY <2>2 DEF Step
    <2>4. /\ r \in Request /\ request' = [request EXCEPT ![p] = r] /\ request'[p] = r
          /\ r.pc = pc /\ r.op = q.op /\ r.account = a
          /\ r.session = q.session /\ r.subject = q.subject
          /\ r.user = q.user /\ r.known = q.known
      BY <2>1, <2>3, GotoMoves
    <2> HIDE DEF r
    <2>5. Course(r)
      BY <1>2, <2>2, <2>4 DEF Course, Owning, Finishing
    <2>6. /\ UNCHANGED <<accounts, identities, sessions>> /\ LockStep(p)
          /\ challenges' \in [Challenge -> ChallengeRow]
          /\ \A m \in Locks : holder'[m] = p <=> m = a \/ holder[m] = p
          /\ a \notin Subject /\ a \notin SessionId
      BY <1>1, <2>1, <2>2, Staying, OwnLocks DEF Locks
    <2>7. accounts[a] = AbsentUser
      BY <1>4, <2>2 DEF IInv, Tables
    <2>8. Holds(p)'
      <3>1. holder'[a] = p
        BY <2>2, <2>6 DEF Locks
      <3>2. q.op = "finishLogin" => q.user = AbsentUser
        BY <1>2 DEF Holds
      <3>3. QED
        BY <1>4, <2>2, <2>4, <2>6, <2>7, <3>1, <3>2 DEF Holds, PastUser, Owning, Finishing
    <2>9. Rests(p)'
      BY <1>2, <2>2, <2>4, <2>6 DEF Rests, Locks, PastUser
    <2>10. QED
      BY <2>4, <2>5, <2>6, <2>8, <2>9, GoingOn
  <1>5. QED
    BY <1>3, <1>4

(* What a request holds and knows once it has its account stays so while it  *)
(* goes on.                                                                  *)
LEMMA Onward ==
    ASSUME IInv, NEW p \in Process, UnchangedRows,
           request[p].pc \in PastUser, request[p].op # "createUser",
           NEW r, request'[p] = r, r.pc \in PastUser, r.op = request[p].op,
           r.account = request[p].account, r.session = request[p].session,
           r.subject = request[p].subject, r.user = request[p].user,
           r.known => request[p].known \/ (/\ r.op = "finishLink"
                                           /\ identities[r.subject] = r.account),
           r.op \in Finishing /\ r.pc = "commit" /\ ~r.known =>
              /\ holder'[r.subject] = p /\ identities[r.subject] = None
              /\ Subjects(r.account) = {},
           r.op = "finishLogin" =>
              request[p].pc = "bind" /\ ~request[p].known /\ r.pc # "create" /\ ~r.known,
           r.op = "finishLink" /\ r.pc \in {"owners", "bind", "commit"} =>
              r.user.password # "temporary" /\ r.user.status = "active" /\ Live(r.session),
           r.op = "changePassword" /\ r.pc \in {"rows", "commit"} => r.user.status = "active",
           \A m \in Locks : holder[m] = p => holder'[m] = p
    PROVE  Holds(p)'
  <1> DEFINE q == request[p]
  <1>1. /\ q \in Request /\ Course(q) /\ Holds(p) /\ q.op \in AllOps
    <2>1. q.pc # "idle"
      BY DEF PastUser
    <2>2. QED
      BY <2>1, Known DEF Course
  <1>2. q.account \in Account /\ holder[q.account] = p /\ q.user = accounts[q.account]
    BY <1>1 DEF Course, PastUser, Holds
  <1>3. /\ UNCHANGED <<accounts, identities, sessions>>
        /\ \A a \in Account : Subjects(a)' = Subjects(a)
    BY Staying
  <1>4. /\ r.pc \in PastUser => holder'[r.account] = p /\ r.user = accounts'[r.account]
    BY <1>2, <1>3 DEF Locks
  <1>5. r.op \notin {"none", "finishLogin", "createUser"} =>
            accounts'[r.account].status # "absent"
    BY <1>1, <1>3 DEF Holds
  <1>6. r.op = "finishLogin" =>
              /\ r.pc \in {"bind", "commit"} /\ ~r.known =>
                    r.user = AbsentUser \/ CanAutoLink(r.user)
    BY <1>1 DEF Holds
  <1>7. r.known => /\ identities'[r.subject] = r.account
                   /\ r.op # "finishLink" => holder'[r.subject] = p
    <2>1. q.known => q.subject \in Subject
      BY <1>1 DEF Course, Finishing
    <2>2. QED
      BY <1>1, <1>3, <2>1 DEF Holds, Locks
  <1>8. r.op \in Finishing /\ r.pc = "commit" /\ ~r.known =>
           /\ holder'[r.subject] = p /\ identities'[r.subject] = None
           /\ Subjects(r.account)' = {}
    BY <1>2, <1>3
  <1>9. r.op \in Owning =>
               /\ sessions'[r.session].state # "absent"
               /\ sessions'[r.session].state = "live" => sessions'[r.session].owner = r.account
    BY <1>1, <1>3 DEF Holds, Live
  <1>10. r.op = "finishLink" /\ r.pc \in {"owners", "bind", "commit"} =>
            /\ r.user.password # "temporary" /\ r.user.status = "active"
            /\ sessions'[r.session].state = "live"
    BY <1>3 DEF Live
  <1>11. QED
    BY <1>1, <1>4, <1>5, <1>6, <1>7, <1>8, <1>9, <1>10 DEF Holds, Live, CanAutoLink

(* LockSession keeps the invariant.                                          *)
LEMMA LockSessionKeeps ==
    ASSUME IInv, NEW p \in Process, LockSession(p) PROVE IInv'
  <1> DEFINE q == request[p]
             s == q.session
             goesOn == CASE q.op = "finishLink" -> CanLink(q.user, sessions[s]) /\ ~q.again
                         [] q.op = "changePassword" ->
                                /\ q.user.status = "active" /\ Live(s)
                                /\ q.user.password \in {"temporary", "own"}
                         [] OTHER -> Live(s)
             pc == After(p)
             r == [q EXCEPT !.pc = pc]
  <1>1. /\ At(p, "session") /\ UnchangedRows
        /\ IF goesOn THEN Take(p, s) /\ Goto(p, pc) ELSE End(p)
    BY DEF LockSession
  <1>2. /\ q \in Request /\ Course(q) /\ Holds(p) /\ Rests(p) /\ q.pc = "session"
        /\ q.op \in AllOps \cup {"none"}
    BY <1>1, Known DEF At
  <1>3. CASE ~goesOn
    BY <1>1, <1>3, Refusing
  <1>4. CASE goesOn
    <2>1. Take(p, s) /\ Goto(p, pc)
      BY <1>1, <1>4
    <2>2. /\ \/ q.op = "finishLink" /\ pc = "owners"
             \/ q.op = "changePassword" /\ pc = "rows"
             \/ q.op = "logout" /\ pc = "commit"
          /\ s \in SessionId /\ q.account \in Account /\ ~q.known
      <3>1. q.op \in {"finishLink", "changePassword", "logout"}
        BY <1>2 DEF Course, AllOps, Finishing, Administering
      <3>2. QED
        BY <1>2, <3>1, Courses DEF At, Course, Owning
    <2>3. /\ Live(s)
          /\ q.op = "finishLink" => q.user.password # "temporary" /\ q.user.status = "active"
          /\ q.op = "changePassword" => q.user.status = "active"
      BY <1>4, <2>2 DEF CanLink, Live
    <2>4. sessions[s].owner = q.account
      BY <1>2, <2>2, <2>3 DEF Holds, Owning
    <2> HIDE DEF pc, goesOn
    <2>5. pc \in Step /\ pc \in PastUser
      BY <2>2 DEF Step, PastUser
    <2>6. /\ r \in Request /\ request' = [request EXCEPT ![p] = r] /\ request'[p] = r
          /\ r.pc = pc /\ r.op = q.op /\ r.account = q.account
          /\ r.session = s /\ r.subject = q.subject
          /\ r.user = q.user /\ r.known = q.known
      BY <2>1, <2>5, GotoMoves
    <2> HIDE DEF r
    <2>7. Course(r)
      BY <1>2, <2>2, <2>6 DEF Course, Owning, Finishing
    <2>8. /\ UNCHANGED <<accounts, identities, sessions>> /\ LockStep(p)
          /\ challenges' \in [Challenge -> ChallengeRow]
          /\ \A m \in Locks : holder'[m] = p <=> m = s \/ holder[m] = p
          /\ s \notin Subject /\ s \notin Account
      BY <1>1, <2>1, <2>2, Staying, OwnLocks DEF Locks
    <2>9. Holds(p)'
      <3>1. q.pc \in PastUser /\ q.op # "createUser"
        BY <1>2, <2>2 DEF PastUser
      <3>2. ~(r.op \in Finishing /\ r.pc = "commit" /\ ~r.known) /\ r.op # "finishLogin" /\ ~r.known
        BY <2>2, <2>6 DEF Finishing
      <3>3. \A m \in Locks : holder[m] = p => holder'[m] = p
        BY <2>8
      <3>4. r.op = "finishLink" =>
              r.user.password # "temporary" /\ r.user.status = "active" /\ Live(r.session)
        BY <2>3, <2>6
      <3>5. r.op = "changePassword" => r.user.status = "active"
        BY <2>3, <2>6
      <3>6. r.pc \in PastUser
        BY <2>5, <2>6
      <3>7. QED
        BY <1>1, <2>6, <3>1, <3>2, <3>3, <3>4, <3>5, <3>6, Onward
    <2>10. Rests(p)'
      <3>1. ASSUME NEW t \in SessionId, holder'[t] = p
            PROVE  /\ r.pc \in {"owners", "bind", "rows", "commit"}
                   /\ sessions'[t].state = "live" /\ sessions'[t].owner = r.account
        <4>1. t = s
          BY <1>2, <2>8, <3>1 DEF Rests, Locks
        <4>2. QED
          BY <2>2, <2>3, <2>4, <2>6, <2>8, <4>1 DEF Live
      <3>2. ASSUME NEW x \in Subject, holder'[x] = p
            PROVE r.subject = x /\ (r.known \/ (r.op \in Finishing /\ r.pc = "commit"))
        BY <1>2, <2>6, <2>8, <3>2 DEF Rests, Locks
      <3>3. ASSUME NEW a \in Account, holder'[a] = p PROVE r.account = a /\ r.pc \in PastUser
        BY <1>2, <2>5, <2>6, <2>8, <3>3 DEF Rests, Locks
      <3>4. QED
        BY <2>6, <3>1, <3>2, <3>3 DEF Rests, Live
    <2>11. QED
      BY <2>6, <2>7, <2>8, <2>9, <2>10, GoingOn
  <1>5. QED
    BY <1>3, <1>4

(* ReadOwners keeps the invariant.                                           *)
LEMMA ReadOwnersKeeps ==
    ASSUME IInv, NEW p \in Process, ReadOwners(p) PROVE IInv'
  <1> DEFINE q == request[p]
             pc == After(p)
             known == identities[q.subject] = q.account
             next == IF known THEN "commit" ELSE pc
             r == [q EXCEPT !.known = known, !.pc = next]
  <1>1. /\ At(p, "owners") /\ UnchangedRows
        /\ \/ /\ known
              /\ request' = [request EXCEPT ![p].known = TRUE, ![p].pc = "commit"]
              /\ UNCHANGED holder
           \/ /\ ~known
              /\ Goto(p, pc) /\ UNCHANGED holder
           \/ End(p)
    <2>0. q.account # None
      BY Known, NullAssumption DEF ReadOwners, At, Course
    <2>1. CASE known
      BY <2>0, <2>1 DEF ReadOwners
    <2>2. CASE ~known /\ identities[q.subject] = None /\ Subjects(q.account) = {}
      BY <2>2 DEF ReadOwners
    <2>3. CASE ~known /\ ~(identities[q.subject] = None /\ Subjects(q.account) = {})
      BY <2>3 DEF ReadOwners
    <2>4. QED
      BY <2>1, <2>2, <2>3 DEF ReadOwners
  <1>2. CASE End(p)
    BY <1>1, <1>2, Refusing
  <1>3. CASE ~End(p)
    <2>1. /\ q \in Request /\ Course(q) /\ Holds(p) /\ Rests(p) /\ q.pc = "owners"
          /\ q.op \in AllOps \cup {"none"}
      BY <1>1, Known DEF At
    <2>2. /\ q.op = "finishLink" /\ pc = "bind" /\ ~q.known /\ q.account \in Account
      <3>1. q.op = "finishLink"
        BY <2>1 DEF Course, AllOps, Finishing, Administering
      <3>2. QED
        BY <2>1, <3>1, Courses DEF At, Course
    <2> HIDE DEF pc
    <2>3. request' = [request EXCEPT ![p] = r]
      <3>1. request \in [Process -> Request]
        BY DEF IInv, Types
      <3>2. CASE /\ known
                 /\ request' = [request EXCEPT ![p].known = TRUE, ![p].pc = "commit"]
        <4>1. known = TRUE
          BY <3>2
        <4> HIDE DEF known
        <4>2. next = "commit"
          BY <4>1
        <4> HIDE DEF next
        <4>3. request' = [request EXCEPT ![p] = [q EXCEPT !.known = TRUE, !.pc = "commit"]]
          BY <3>1, <3>2
        <4>4. QED
          BY <4>1, <4>2, <4>3
      <3>3. CASE ~known /\ Goto(p, pc)
        <4>1. known = FALSE
          BY <3>3
        <4>2. next = pc
          BY <4>1
        <4> HIDE DEF known, next
        <4>3. q = [q EXCEPT !.known = FALSE]
          BY <2>1, <2>2 DEF Request
        <4>4. [q EXCEPT !.pc = pc] = [q EXCEPT !.known = FALSE, !.pc = pc]
          BY <4>3
        <4>5. request' = [request EXCEPT ![p] = [q EXCEPT !.pc = pc]]
          BY <3>1, <3>3 DEF Goto
        <4>6. QED
          BY <4>1, <4>2, <4>4, <4>5
      <3>4. QED
        BY <1>1, <1>3, <3>2, <3>3
    <2>4. known \in BOOLEAN /\ next \in {"bind", "commit"} /\ (known <=> next = "commit")
      BY <2>2
    <2>5. known => identities[q.subject] = q.account
      OBVIOUS
    <2> HIDE DEF known, next
    <2>6. /\ r \in Request /\ r.pc = next /\ r.op = q.op /\ r.account = q.account
          /\ r.session = q.session /\ r.subject = q.subject
          /\ r.user = q.user /\ r.known = known
      BY <2>1, <2>4 DEF Request, Step
    <2> HIDE DEF r
    <2>7. request'[p] = r
      BY <2>3 DEF IInv, Types
    <2>8. Course(r)
      BY <2>1, <2>2, <2>4, <2>6 DEF Course, Owning, Finishing
    <2>9. /\ UNCHANGED <<accounts, identities, sessions>> /\ UNCHANGED holder /\ LockStep(p)
          /\ challenges' \in [Challenge -> ChallengeRow]
          /\ \A s \in SessionId : Live(s)' <=> Live(s)
      BY <1>1, <1>3, Staying DEF LockStep
    <2>10. Holds(p)'
      <3>1. q.pc \in PastUser /\ q.op # "createUser" /\ r.pc \in PastUser
        BY <2>1, <2>2, <2>4, <2>6 DEF PastUser
      <3>2. ~(r.op \in Finishing /\ r.pc = "commit" /\ ~r.known) /\ r.op = "finishLink"
        BY <2>2, <2>4, <2>6
      <3>3. r.user.password # "temporary" /\ r.user.status = "active" /\ Live(r.session)
        BY <2>1, <2>2, <2>6 DEF Holds
      <3>4. r.known => identities[r.subject] = r.account
        BY <2>5, <2>6
      <3>5. QED
        BY <1>1, <2>6, <2>7, <2>9, <3>1, <3>2, <3>3, <3>4, Onward
    <2>11. Rests(p)'
      BY <2>1, <2>2, <2>4, <2>6, <2>7, <2>9 DEF Rests, PastUser
    <2>12. QED
      BY <2>3, <2>6, <2>8, <2>9, <2>10, <2>11, GoingOn
  <1>4. QED
    BY <1>2, <1>3

(* A subject that is being deleted is in its deleter's hands.                *)
LEMMA DeletersHold ==
    ASSUME IInv, NEW x \in Subject, BeingDeleted(x)
    PROVE  \E q \in Process : /\ holder[x] = q /\ request[q].op = "recover"
                              /\ request[q].pc \in {"rows", "commit"}
  <1>1. PICK q \in Process : /\ request[q].op = "recover" /\ request[q].subject = x
                             /\ request[q].pc \in {"rows", "commit"}
    BY DEF BeingDeleted
  <1>2. request[q].known
    BY <1>1, Known DEF Course
  <1>3. QED
    BY <1>1, <1>2, Known DEF Holds

(* InsertIdentity keeps the invariant.                                       *)
LEMMA InsertIdentityKeeps ==
    ASSUME IInv, NEW p \in Process, InsertIdentity(p) PROVE IInv'
  <1> DEFINE q == request[p]
             x == q.subject
             pc == After(p)
             taken == \/ identities[x] # None /\ ~BeingDeleted(x)
                      \/ Subjects(q.account) # {}
             r == [q EXCEPT !.pc = pc]
  <1>1. At(p, "bind") /\ UnchangedRows
    BY DEF InsertIdentity
  <1>2. /\ q \in Request /\ Course(q) /\ Holds(p) /\ Rests(p) /\ q.pc = "bind"
        /\ q.op \in AllOps \cup {"none"}
    BY <1>1, Known DEF At
  <1>3. CASE taken
    BY <1>1, <1>2, <1>3, ConflictKeeps DEF InsertIdentity
  <1>4. CASE ~taken
    <2>1. Take(p, x) /\ Goto(p, pc)
      BY <1>4 DEF InsertIdentity
    <2>2. q.op \in Finishing /\ pc = "commit" /\ x \in Subject /\ ~q.known /\ q.account \in Account
      <3>1. q.op \in {"finishLogin", "finishLink"}
        BY <1>2 DEF Course, AllOps, Finishing, Administering
      <3>2. QED
        BY <1>2, <3>1, Courses DEF At, Course, Finishing
    <2>3. identities[x] = None /\ Subjects(q.account) = {}
      <3>1. ~BeingDeleted(x)
        <4> SUFFICES ASSUME BeingDeleted(x) PROVE FALSE
          OBVIOUS
        <4>1. PICK o \in Process : holder[x] = o /\ request[o].op = "recover"
          BY <2>2, DeletersHold
        <4>2. o = p
          BY <2>1, <4>1, NullAssumption DEF Take, Free
        <4>3. QED
          BY <2>2, <4>1, <4>2 DEF Finishing
      <3>2. QED
        BY <1>4, <3>1
    <2> HIDE DEF pc, taken
    <2>4. pc \in Step /\ pc \in PastUser
      BY <2>2 DEF Step, PastUser
    <2>5. /\ r \in Request /\ request' = [request EXCEPT ![p] = r] /\ request'[p] = r
          /\ r.pc = pc /\ r.op = q.op /\ r.account = q.account
          /\ r.session = q.session /\ r.subject = x
          /\ r.user = q.user /\ r.known = q.known
      BY <2>1, <2>4, GotoMoves
    <2> HIDE DEF r
    <2>6. Course(r)
      BY <1>2, <2>2, <2>5 DEF Course, Owning, Finishing
    <2>7. /\ UNCHANGED <<accounts, identities, sessions>> /\ LockStep(p)
          /\ challenges' \in [Challenge -> ChallengeRow]
          /\ \A s \in SessionId : Live(s)' <=> Live(s)
          /\ \A m \in Locks : holder'[m] = p <=> m = x \/ holder[m] = p
          /\ x \notin Account /\ x \notin SessionId
      BY <1>1, <2>1, <2>2, Staying, OwnLocks DEF Locks
    <2>8. Holds(p)'
      <3>1. q.pc \in PastUser /\ q.op # "createUser" /\ r.pc \in PastUser
        BY <1>2, <2>2, <2>4, <2>5 DEF PastUser, Finishing
      <3>2. /\ holder'[r.subject] = p /\ identities[r.subject] = None
            /\ Subjects(r.account) = {} /\ ~r.known
        BY <2>2, <2>3, <2>5, <2>7 DEF Locks
      <3>3. r.op = "finishLink" =>
              r.user.password # "temporary" /\ r.user.status = "active" /\ Live(r.session)
        BY <1>2, <2>5 DEF Holds
      <3>4. r.op = "finishLogin" => q.pc = "bind" /\ ~q.known /\ r.pc # "create"
        BY <1>2, <2>2, <2>5
      <3>5. r.op # "changePassword"
        BY <2>2, <2>5 DEF Finishing
      <3>6. \A m \in Locks : holder[m] = p => holder'[m] = p
        BY <2>7
      <3>7. QED
        BY <1>1, <2>5, <3>1, <3>2, <3>3, <3>4, <3>5, <3>6, Onward
    <2>9. Rests(p)'
      <3>1. ASSUME NEW t \in SessionId, holder'[t] = p
            PROVE  /\ r.pc \in {"owners", "bind", "rows", "commit"}
                   /\ sessions'[t].state = "live" /\ sessions'[t].owner = r.account
        <4>1. holder[t] = p
          BY <2>7, <3>1 DEF Locks
        <4>2. Live(t) /\ sessions[t].owner = q.account
          BY <1>2, <4>1 DEF Rests
        <4>3. QED
          BY <2>2, <2>5, <2>7, <4>2 DEF Live
      <3>2. ASSUME NEW y \in Subject, holder'[y] = p
            PROVE r.subject = y /\ (r.known \/ (r.op \in Finishing /\ r.pc = "commit"))
        BY <1>2, <2>2, <2>5, <2>7, <3>2 DEF Rests, Locks
      <3>3. ASSUME NEW a \in Account, holder'[a] = p PROVE r.account = a /\ r.pc \in PastUser
        BY <1>2, <2>4, <2>5, <2>7, <3>3 DEF Rests, Locks
      <3>4. QED
        BY <2>5, <3>1, <3>2, <3>3 DEF Rests, Live
    <2>10. QED
      BY <2>5, <2>6, <2>7, <2>8, <2>9, GoingOn
  <1>5. QED
    BY <1>3, <1>4

(* The requests that revoke rows, and what they are about to do.             *)
LEMMA AtRows ==
    ASSUME IInv, NEW p \in Process, At(p, "rows")
    PROVE  LET q == request[p]
           IN  /\ q \in Request /\ Course(q) /\ Holds(p) /\ Rests(p) /\ q.pc = "rows"
               /\ q.op \in {"recover", "resetPassword", "disable", "changePassword"}
               /\ q.account \in Account /\ After(p) = "commit"
  <1> DEFINE q == request[p]
  <1>1. /\ q \in Request /\ Course(q) /\ Holds(p) /\ Rests(p) /\ q.pc = "rows"
        /\ q.op \in AllOps \cup {"none"}
    BY Known DEF At
  <1>2. q.op \in {"recover", "resetPassword", "disable", "changePassword"} /\ q.account \in Account
    BY <1>1 DEF Course, AllOps, Finishing, Administering
  <1>3. After(p) = "commit"
    BY <1>1, <1>2, Courses DEF At
  <1>4. QED
    BY <1>1, <1>2, <1>3

(* LockRow keeps the invariant.                                              *)
LEMMA LockRowKeeps ==
    ASSUME IInv, NEW p \in Process, NEW s \in SessionId, LockRow(p, s) PROVE IInv'
  <1> DEFINE q == request[p]
  <1>1. /\ At(p, "rows") /\ UnchangedRows /\ Take(p, s) /\ UNCHANGED request
        /\ Live(s) /\ sessions[s].owner = q.account
    BY DEF LockRow, Remaining, LiveSessions
  <1>2. /\ q \in Request /\ Course(q) /\ Holds(p) /\ Rests(p) /\ q.pc = "rows"
        /\ q.op \in {"recover", "resetPassword", "disable", "changePassword"}
        /\ q.account \in Account /\ After(p) = "commit"
    BY <1>1, AtRows
  <1>3. request' = [request EXCEPT ![p] = q] /\ request'[p] = q
    BY <1>1 DEF IInv, Types
  <1>4. /\ UNCHANGED <<accounts, identities, sessions>> /\ LockStep(p)
        /\ challenges' \in [Challenge -> ChallengeRow]
        /\ \A t \in SessionId : Live(t)' <=> Live(t)
        /\ \A m \in Locks : holder'[m] = p <=> m = s \/ holder[m] = p
        /\ s \notin Account /\ s \notin Subject
    BY <1>1, Staying, OwnLocks DEF Locks
  <1>5. Holds(p)'
    <2>1. q.op = "changePassword" => q.user.status = "active"
      BY <1>2 DEF Holds
    <2>2. q.pc \in PastUser /\ ~(q.op \in Finishing)
      BY <1>2 DEF PastUser, Finishing
    <2>3. \A m \in Locks : holder[m] = p => holder'[m] = p
      BY <1>4
    <2>4. QED
      BY <1>1, <1>2, <1>3, <2>1, <2>2, <2>3, Onward DEF Finishing
  <1>6. Rests(p)'
    BY <1>1, <1>2, <1>3, <1>4 DEF Rests, Locks, PastUser
  <1>7. QED
    BY <1>2, <1>3, <1>4, <1>5, <1>6, GoingOn

(* EndRows keeps the invariant.                                              *)
LEMMA EndRowsKeeps ==
    ASSUME IInv, NEW p \in Process, EndRows(p) PROVE IInv'
  <1> DEFINE q == request[p]
             r == [q EXCEPT !.pc = "commit"]
  <1>1. /\ At(p, "rows") /\ UnchangedRows /\ UNCHANGED holder /\ Goto(p, After(p))
    BY DEF EndRows
  <1>2. /\ q \in Request /\ Course(q) /\ Holds(p) /\ Rests(p) /\ q.pc = "rows"
        /\ q.op \in {"recover", "resetPassword", "disable", "changePassword"}
        /\ q.account \in Account /\ After(p) = "commit"
    BY <1>1, AtRows
  <1>3. /\ r \in Request /\ request' = [request EXCEPT ![p] = r] /\ request'[p] = r
        /\ r.pc = "commit" /\ r.op = q.op /\ r.account = q.account
        /\ r.session = q.session /\ r.subject = q.subject
        /\ r.user = q.user /\ r.known = q.known
    <2>1. Goto(p, "commit") /\ "commit" \in Step
      BY <1>1, <1>2 DEF Step
    <2>2. QED
      BY <2>1, GotoMoves
  <1> HIDE DEF r
  <1>4. /\ UNCHANGED <<accounts, identities, sessions>> /\ LockStep(p)
        /\ challenges' \in [Challenge -> ChallengeRow]
        /\ \A t \in SessionId : Live(t)' <=> Live(t)
    BY <1>1, Staying DEF LockStep
  <1>5. Course(r)
    BY <1>2, <1>3 DEF Course, Owning, Finishing
  <1>6. Holds(p)'
    <2>1. r.op = "changePassword" => r.user.status = "active"
      BY <1>2, <1>3 DEF Holds
    <2>2. q.pc \in PastUser /\ r.pc \in PastUser /\ ~(r.op \in Finishing)
      BY <1>2, <1>3 DEF PastUser, Finishing
    <2>3. QED
      BY <1>1, <1>2, <1>3, <2>1, <2>2, Onward DEF Finishing
  <1>7. Rests(p)'
    BY <1>1, <1>2, <1>3, <1>4 DEF Rests, Locks, PastUser
  <1>8. QED
    BY <1>3, <1>4, <1>5, <1>6, <1>7, GoingOn

(* Every statement keeps the invariant.                                      *)
LEMMA StatementsKeep ==
    ASSUME IInv, NEW p \in Process, Statement(p) PROVE IInv'
  BY LockSubjectKeeps, LockUserKeeps, InsertUserKeeps, LockSessionKeeps, ReadOwnersKeeps,
     InsertIdentityKeeps, LockRowKeeps, EndRowsKeeps DEF Statement

-----------------------------------------------------------------------------
(* A commit gives an account at most one subject, if it has none, or takes   *)
(* its subject from it, or leaves all identities as they are;                *)
IdentityMoves(p, a) ==
    \/ UNCHANGED identities
    \/ \E x \in Subject :
          /\ holder[x] = p \/ UNCHANGED identities
          /\ \/ identities[x] = None /\ Subjects(a) = {}
             \/ identities[x] = a
          /\ \E b \in {a, None} : identities' = [identities EXCEPT ![x] = b]

(* it opens and revokes only sessions of that account;                       *)
SessionsMove(a) ==
    /\ sessions' \in [SessionId -> Session]
    /\ \A s \in SessionId : sessions'[s] # sessions[s] =>
          \/ Fresh(s) /\ sessions'[s].owner = a
          \/ /\ sessions'[s] = RevokedSession
             /\ Live(s) => sessions[s].owner = a

(* and where the account's row becomes u, it is left with a way in, and its  *)
(* live sessions with their reasons.                                         *)
WellLeft(a, u) ==
    /\ u.password = "disabled" => \E x \in Subject : identities'[x] = a
    /\ \A s \in SessionId : sessions'[s].state = "live" /\ sessions'[s].owner = a =>
          /\ u.status = "active"
          /\ sessions'[s].via # None => identities'[sessions'[s].via] = a

(* Such a commit, of an account that its request holds, keeps the invariant. *)
LEMMA CommitKeeps ==
    ASSUME IInv, NEW p \in Process, End(p), UNCHANGED challenges,
           NEW a \in Account, holder[a] = p,
           NEW u \in User, u.status # "absent", accounts' = [accounts EXCEPT ![a] = u],
           IdentityMoves(p, a), SessionsMove(a), WellLeft(a, u)
    PROVE  IInv'
  <1>1. /\ accounts \in [Account -> User] /\ identities \in [Subject -> Account \cup {None}]
        /\ challenges \in [Challenge -> ChallengeRow] /\ sessions \in [SessionId -> Session]
    BY DEF IInv, Types
  <1>2. /\ accounts' \in [Account -> User] /\ challenges' \in [Challenge -> ChallengeRow]
        /\ identities' \in [Subject -> Account \cup {None}]
    BY <1>1 DEF IdentityMoves
  <1>3. \A b \in Account : b # a => accounts'[b] = accounts[b]
    BY <1>1
  <1>4. accounts'[a] = u
    BY <1>1
  <1>5. \A x \in Subject : identities'[x] # identities[x] =>
            /\ holder[x] = p /\ identities[x] \in {a, None} /\ identities'[x] \in {a, None}
            /\ identities[x] = None => Subjects(a) = {} /\ \A y \in Subject \ {x} :
                                                             identities'[y] = identities[y]
    BY <1>1 DEF IdentityMoves
  <1>6. Gentle(p)
    <2>1. ASSUME NEW b \in Account
          PROVE  /\ accounts'[b] # accounts[b] => holder[b] = p
                 /\ accounts[b].status # "absent" => accounts'[b].status # "absent"
      BY <1>3, <1>4
    <2>2. ASSUME NEW x \in Subject, identities'[x] # identities[x]
          PROVE  /\ holder[x] = p
                 /\ identities[x] # None => holder[identities[x]] = p
                 /\ identities'[x] # None => holder[identities'[x]] = p
      BY <1>5, <2>2
    <2>3. ASSUME NEW s \in SessionId, sessions'[s] # sessions[s]
          PROVE  \/ Fresh(s)
                 \/ /\ sessions'[s] = RevokedSession
                    /\ Live(s) => holder[sessions[s].owner] = p
      BY <2>3 DEF SessionsMove
    <2>4. QED
      BY <2>1, <2>2, <2>3 DEF Gentle
  <1>7. ASSUME NEW b \in Account, accounts'[b].status = "absent"
        PROVE  accounts'[b] = AbsentUser /\ Subjects(b)' = {}
    <2>1. b # a /\ accounts'[b] = accounts[b]
      BY <1>3, <1>4, <1>7
    <2>2. accounts[b] = AbsentUser /\ Subjects(b) = {}
      BY <1>7, <2>1 DEF IInv, Tables
    <2>3. \A x \in Subject : identities'[x] # b
      BY <1>5, <2>1, <2>2, NullAssumption DEF Subjects
    <2>4. QED
      BY <2>1, <2>2, <2>3 DEF Subjects
  <1>8. ASSUME NEW b \in Account, accounts'[b].password = "disabled" PROVE Subjects(b)' # {}
    <2>1. CASE b = a
      BY <1>4, <1>8, <2>1 DEF Subjects, WellLeft
    <2>2. CASE b # a
      <3>1. Subjects(b) # {}
        BY <1>3, <1>8, <2>2 DEF IInv, Tables
      <3>2. PICK x \in Subject : identities[x] = b
        BY <3>1 DEF Subjects
      <3>3. identities'[x] = b
        BY <1>5, <2>2, <3>2, NullAssumption
      <3>4. QED
        BY <3>3 DEF Subjects
    <2>3. QED
      BY <2>1, <2>2
  <1>9. ASSUME NEW x \in Subject, NEW y \in Subject,
               identities'[x] # None, identities'[x] = identities'[y]
        PROVE  x = y
    <2>1. \A v, w \in Subject : identities[v] # None /\ identities[v] = identities[w] => v = w
      BY DEF IInv, Tables
    <2>2. ASSUME NEW v \in Subject, NEW w \in Subject, identities'[v] # identities[v],
                 identities'[v] # None, identities'[v] = identities'[w], v # w
          PROVE  FALSE
      <3>1. identities[v] = None /\ identities'[v] = a
        BY <1>5, <2>2
      <3>2. identities'[w] = identities[w] /\ Subjects(a) = {}
        BY <1>5, <2>2, <3>1
      <3>3. identities[w] = a
        BY <2>2, <3>1, <3>2
      <3>4. QED
        BY <3>2, <3>3 DEF Subjects
    <2>3. CASE identities'[x] # identities[x]
      BY <1>9, <2>2, <2>3
    <2>4. CASE identities'[y] # identities[y]
      BY <1>9, <2>2, <2>4
    <2>5. CASE identities'[x] = identities[x] /\ identities'[y] = identities[y]
      BY <1>9, <2>1, <2>5
    <2>6. QED
      BY <2>3, <2>4, <2>5
  <1>10. ASSUME NEW s \in SessionId, Live(s)'
         PROVE  /\ sessions'[s].owner \in Account
                /\ accounts'[sessions'[s].owner].status = "active"
                /\ sessions'[s].via # None => identities'[sessions'[s].via] = sessions'[s].owner
    <2>1. sessions'[s].state = "live"
      BY <1>10 DEF Live
    <2>2. CASE sessions'[s].owner = a
      BY <1>4, <2>1, <2>2 DEF WellLeft
    <2>3. CASE sessions'[s].owner # a
      <3>1. RevokedSession.state = "revoked"
        BY DEF RevokedSession, Absent
      <3>2. sessions'[s] = sessions[s]
        BY <2>1, <2>3, <3>1 DEF SessionsMove
      <3>3. /\ sessions[s].owner \in Account
            /\ accounts[sessions[s].owner].status = "active"
            /\ sessions[s].via # None => identities[sessions[s].via] = sessions[s].owner
        BY <2>1, <3>2 DEF IInv, Tables, Live
      <3>4. sessions[s].via \in Subject \cup {None}
        BY <1>1 DEF Session
      <3>5. sessions[s].via # None => identities'[sessions[s].via] = identities[sessions[s].via]
        BY <1>5, <2>3, <3>2, <3>3, <3>4, NullAssumption
      <3>6. QED
        BY <1>3, <2>3, <3>2, <3>3, <3>5
    <2>4. QED
      BY <2>2, <2>3
  <1>11. Tables'
    BY <1>7, <1>8, <1>9, <1>10 DEF Tables
  <1>12. QED
    BY <1>2, <1>6, <1>11, Ending DEF SessionsMove

(* What a request holds and knows when it commits.                           *)
LEMMA AtCommit ==
    ASSUME IInv, NEW p \in Process, NEW op \in AllOps, Committing(p, op)
    PROVE  LET q == request[p]
               a == q.account
               x == q.subject
           IN  /\ q.op = op /\ q.pc = "commit" /\ End(p) /\ UNCHANGED challenges
               /\ q \in Request /\ Course(q) /\ Holds(p) /\ Rests(p)
               /\ a \in Account /\ holder[a] = p /\ q.user \in User
               /\ op # "createUser" => q.user = accounts[a]
               /\ op \notin {"finishLogin", "createUser"} => q.user.status # "absent"
               /\ op \in Finishing \cup {"recover"} => x \in Subject
               /\ q.known => identities[x] = a
               /\ op \in Finishing /\ ~q.known =>
                     identities[x] = None /\ Subjects(a) = {} /\ holder[x] = p
               /\ op = "recover" => identities[x] = a /\ holder[x] = p
  <1> DEFINE q == request[p]
  <1>1. q.op = op /\ q.pc = "commit" /\ End(p) /\ UNCHANGED challenges
    BY DEF Committing, Doing
  <1>2. q \in Request /\ Course(q) /\ Holds(p) /\ Rests(p)
    BY Known
  <1>3. q.account \in Account /\ q.user \in User
    BY <1>1, <1>2 DEF Course, Request, AllOps, Finishing, Administering
  <1>4. holder[q.account] = p /\ (op # "createUser" => q.user = accounts[q.account])
    BY <1>1, <1>2 DEF Holds, PastUser
  <1>5. op \notin {"finishLogin", "createUser"} => q.user.status # "absent"
    <2>1. op # "none"
      BY DEF AllOps, Finishing, Administering
    <2>2. QED
      BY <1>1, <1>2, <1>4, <2>1 DEF Holds
  <1>6. op = "recover" => q.known
    BY <1>1, <1>2 DEF Course
  <1>7. op \in Finishing \cup {"recover"} => q.subject \in Subject
    BY <1>1, <1>2, <1>6 DEF Course
  <1>8. /\ q.known => identities[q.subject] = q.account
        /\ op \in Finishing /\ ~q.known =>
              /\ identities[q.subject] = None /\ Subjects(q.account) = {}
              /\ holder[q.subject] = p
        /\ op = "recover" => identities[q.subject] = q.account /\ holder[q.subject] = p
    BY <1>1, <1>2, <1>6 DEF Holds
  <1>9. QED
    BY <1>1, <1>2, <1>3, <1>4, <1>5, <1>7, <1>8

(* A login's new session.                                                    *)
Opens(s, a, v) ==
    Fresh(s) /\ sessions' = [sessions EXCEPT ![s] = NewSession(a, v)]

(* Opening a session of an account adds a live one and changes no other.     *)
LEMMA Opening ==
    ASSUME IInv, NEW s \in SessionId, NEW a \in Account, NEW v \in Subject \cup {None},
           Opens(s, a, v)
    PROVE  /\ sessions' \in [SessionId -> Session]
           /\ \A t \in SessionId : sessions'[t] # sessions[t] =>
                 Fresh(t) /\ sessions'[t].owner = a
           /\ \A t \in SessionId : sessions'[t].state = "live" =>
                 \/ sessions'[t].owner = a /\ sessions'[t].via = v
                 \/ /\ Live(t) /\ sessions'[t] = sessions[t]
                    /\ accounts[sessions[t].owner].status = "active"
                    /\ sessions[t].via # None => identities[sessions[t].via] = sessions[t].owner
  <1>1. sessions \in [SessionId -> Session]
    BY DEF IInv, Types
  <1>2. NewSession(a, v) \in Session
    BY DEF NewSession, Session
  <1>3. /\ sessions'[s] = NewSession(a, v) /\ Fresh(s)
        /\ \A t \in SessionId : t # s => sessions'[t] = sessions[t]
    BY <1>1 DEF Opens
  <1>4. sessions' \in [SessionId -> Session]
    BY <1>1, <1>2 DEF Opens
  <1>5. ASSUME NEW t \in SessionId, sessions'[t].state = "live", t # s
        PROVE  /\ Live(t) /\ sessions'[t] = sessions[t]
               /\ accounts[sessions[t].owner].status = "active"
               /\ sessions[t].via # None => identities[sessions[t].via] = sessions[t].owner
    BY <1>3, <1>5 DEF IInv, Tables, Live
  <1>6. QED
    BY <1>3, <1>4, <1>5 DEF NewSession

(* Revoking an account's sessions leaves it none and changes no other's.     *)
LEMMA Revoking ==
    ASSUME IInv, NEW a \in Account
    PROVE  /\ Revoked(a) \in [SessionId -> Session]
           /\ \A t \in SessionId : Revoked(a)[t] # sessions[t] =>
                 Revoked(a)[t] = RevokedSession /\ sessions[t].owner = a
           /\ \A t \in SessionId : Revoked(a)[t].state = "live" => Revoked(a)[t].owner # a
  <1>1. sessions \in [SessionId -> Session]
    BY DEF IInv, Types
  <1>2. RevokedSession \in Session /\ RevokedSession.state = "revoked"
    BY DEF RevokedSession, Absent, Session
  <1>3. \A t \in SessionId :
           Revoked(a)[t] = IF t \in LiveSessions(a) THEN RevokedSession ELSE sessions[t]
    BY DEF Revoked
  <1>4. Revoked(a) \in [SessionId -> Session]
    BY <1>1, <1>2 DEF Revoked
  <1>5. QED
    BY <1>2, <1>3, <1>4 DEF LiveSessions, Live

(* Writing a whole row keeps it a row.                                       *)
LEMMA RowsOfUser ==
    ASSUME NEW user \in User
    PROVE  /\ OpenUser \in User /\ OpenUser.status = "active" /\ OpenUser.password = "disabled"
           /\ DisablePassword(user) \in User /\ DisablePassword(user).status = user.status
           /\ RequirePasswordChange(user) \in User
           /\ RequirePasswordChange(user).status = user.status
           /\ RequirePasswordChange(user).password = "temporary"
           /\ ActivatePassword(user) \in User /\ ActivatePassword(user).status = user.status
           /\ ActivatePassword(user).password = "own"
           /\ [user EXCEPT !.autoLink = FALSE] \in User
           /\ [user EXCEPT !.autoLink = FALSE].status = user.status
           /\ [user EXCEPT !.autoLink = FALSE].password = user.password
           /\ [user EXCEPT !.autoLink = TRUE] \in User
           /\ [user EXCEPT !.autoLink = TRUE].status = user.status
           /\ [user EXCEPT !.autoLink = TRUE].password = user.password
           /\ [user EXCEPT !.status = "disabled"] \in User
           /\ [user EXCEPT !.status = "disabled"].status = "disabled"
           /\ [user EXCEPT !.status = "disabled"].password = user.password
  BY DEF User, OpenUser, AbsentUser, DisablePassword, RequirePasswordChange, ActivatePassword

(* LoginKnown keeps the invariant.                                           *)
LEMMA LoginKnownKeeps ==
    ASSUME IInv, NEW p \in Process, NEW s \in SessionId, LoginKnown(p, s) PROVE IInv'
  <1> DEFINE q == request[p]
             a == q.account
             x == q.subject
  <1>1. Committing(p, "finishLogin") /\ q.known /\ Fresh(s) /\ "finishLogin" \in AllOps
    BY DEF LoginKnown, AllOps, Finishing
  <1>2. /\ End(p) /\ UNCHANGED challenges /\ Holds(p) /\ q.op = "finishLogin" /\ q.pc = "commit"
        /\ a \in Account /\ holder[a] = p /\ q.user \in User /\ q.user = accounts[a]
        /\ x \in Subject /\ identities[x] = a
    BY <1>1, AtCommit DEF Finishing
  <1>3. q.user.status = "active"
    BY <1>1, <1>2 DEF Holds
  <1>4. /\ identities' = [identities EXCEPT ![x] = a] /\ UNCHANGED accounts
        /\ sessions' = [sessions EXCEPT ![s] = NewSession(a, x)]
    BY DEF LoginKnown, WriteIdentity
  <1>5. UNCHANGED identities /\ accounts' = [accounts EXCEPT ![a] = q.user]
    BY <1>2, <1>4 DEF IInv, Types
  <1>6. q.user.password = "disabled" => \E y \in Subject : identities'[y] = a
    BY <1>2, <1>5
  <1>7. x \in Subject \cup {None} /\ Opens(s, a, x)
    BY <1>1, <1>2, <1>4 DEF Opens
  <1> DEFINE u == q.user
  <1> HIDE DEF a, x, q
  <1>8. /\ sessions' \in [SessionId -> Session]
        /\ \A t \in SessionId : sessions'[t] # sessions[t] => Fresh(t) /\ sessions'[t].owner = a
        /\ \A t \in SessionId : sessions'[t].state = "live" =>
                 \/ sessions'[t].owner = a /\ sessions'[t].via = x
                 \/ /\ Live(t) /\ sessions'[t] = sessions[t]
                    /\ accounts[sessions[t].owner].status = "active"
                    /\ sessions[t].via # None => identities[sessions[t].via] = sessions[t].owner
    BY <1>2, <1>7, Opening
  <1>9. IdentityMoves(p, a) /\ SessionsMove(a)
    BY <1>5, <1>8 DEF IdentityMoves, SessionsMove
  <1>10. WellLeft(a, u)
    BY <1>2, <1>3, <1>5, <1>6, <1>8 DEF WellLeft
  <1>11. u \in User /\ u.status # "absent" /\ accounts' = [accounts EXCEPT ![a] = u]
    BY <1>2, <1>3, <1>5
  <1> HIDE DEF u
  <1>12. QED
    BY <1>2, <1>9, <1>10, <1>11, CommitKeeps

(* LoginFirst keeps the invariant.                                           *)
LEMMA LoginFirstKeeps ==
    ASSUME IInv, NEW p \in Process, NEW s \in SessionId, LoginFirst(p, s) PROVE IInv'
  <1> DEFINE q == request[p]
             a == q.account
             x == q.subject
             u == IF q.user = AbsentUser THEN OpenUser ELSE DisablePassword(q.user)
  <1>1. Committing(p, "finishLogin") /\ ~q.known /\ Fresh(s) /\ "finishLogin" \in AllOps
    BY DEF LoginFirst, AllOps, Finishing
  <1>2. /\ End(p) /\ UNCHANGED challenges /\ Holds(p) /\ q.op = "finishLogin" /\ q.pc = "commit"
        /\ a \in Account /\ holder[a] = p /\ q.user \in User /\ q.user = accounts[a]
        /\ x \in Subject /\ identities[x] = None /\ Subjects(a) = {} /\ holder[x] = p
    BY <1>1, AtCommit DEF Finishing
  <1>3. q.user = AbsentUser \/ CanAutoLink(q.user)
    BY <1>1, <1>2 DEF Holds
  <1>4. u \in User /\ u.status = "active"
    <2>1. /\ OpenUser \in User /\ OpenUser.status = "active"
          /\ DisablePassword(q.user) \in User /\ DisablePassword(q.user).status = q.user.status
      BY <1>2, RowsOfUser
    <2>2. CASE q.user = AbsentUser
      BY <2>1, <2>2
    <2>3. CASE q.user # AbsentUser
      BY <1>3, <2>1, <2>3 DEF CanAutoLink
    <2>4. QED
      BY <2>2, <2>3
  <1>5. /\ identities' = [identities EXCEPT ![x] = a] /\ accounts' = [accounts EXCEPT ![a] = u]
        /\ sessions' = [sessions EXCEPT ![s] = NewSession(a, x)]
    BY DEF LoginFirst, WriteIdentity, WriteUser
  <1>6. identities'[x] = a /\ \A y \in Subject : y # x => identities'[y] = identities[y]
    BY <1>2, <1>5 DEF IInv, Types
  <1> HIDE DEF a, x, q, u
  <1>7. /\ sessions' \in [SessionId -> Session]
        /\ \A t \in SessionId : sessions'[t] # sessions[t] => Fresh(t) /\ sessions'[t].owner = a
        /\ \A t \in SessionId : sessions'[t].state = "live" =>
                 \/ sessions'[t].owner = a /\ sessions'[t].via = x
                 \/ /\ Live(t) /\ sessions'[t] = sessions[t]
                    /\ accounts[sessions[t].owner].status = "active"
                    /\ sessions[t].via # None => identities[sessions[t].via] = sessions[t].owner
    <2>1. x \in Subject \cup {None} /\ Opens(s, a, x)
      BY <1>1, <1>2, <1>5 DEF Opens
    <2>2. QED
      BY <1>2, <2>1, Opening
  <1>8. ASSUME NEW t \in SessionId, sessions'[t].state = "live", sessions'[t].owner = a
        PROVE  /\ u.status = "active"
               /\ sessions'[t].via # None => identities'[sessions'[t].via] = a
    <2>1. CASE sessions'[t].via = x
      BY <1>4, <1>6, <2>1
    <2>2. CASE sessions'[t].via # x
      <3>1. /\ sessions'[t] = sessions[t] /\ sessions[t].owner = a
            /\ sessions[t].via # None => identities[sessions[t].via] = a
        BY <1>7, <1>8, <2>2
      <3>2. sessions[t].via \in Subject \cup {None}
        BY DEF IInv, Types, Session
      <3>3. QED
        BY <1>4, <1>6, <2>2, <3>1, <3>2
    <2>3. QED
      BY <2>1, <2>2
  <1>9. IdentityMoves(p, a)
    BY <1>2, <1>5 DEF IdentityMoves
  <1>10. SessionsMove(a)
    BY <1>7 DEF SessionsMove
  <1>11. WellLeft(a, u)
    BY <1>2, <1>6, <1>8 DEF WellLeft
  <1>12. u.status # "absent"
    BY <1>4
  <1>13. QED
    BY <1>2, <1>4, <1>5, <1>9, <1>10, <1>11, <1>12, CommitKeeps

(* CommitLink keeps the invariant.                                           *)
LEMMA CommitLinkKeeps ==
    ASSUME IInv, NEW p \in Process, CommitLink(p) PROVE IInv'
  <1> DEFINE q == request[p]
             a == q.account
             x == q.subject
             u == IF ~q.known \/ q.user.autoLink THEN [q.user EXCEPT !.autoLink = FALSE]
                  ELSE q.user
  <1>1. Committing(p, "finishLink") /\ "finishLink" \in AllOps
    BY DEF CommitLink, AllOps, Finishing
  <1>2. /\ End(p) /\ UNCHANGED challenges /\ Holds(p) /\ q.op = "finishLink" /\ q.pc = "commit"
        /\ a \in Account /\ holder[a] = p /\ q.user \in User /\ q.user = accounts[a]
        /\ x \in Subject /\ q.user.status # "absent"
        /\ q.known => identities[x] = a
        /\ ~q.known => identities[x] = None /\ Subjects(a) = {} /\ holder[x] = p
    BY <1>1, AtCommit DEF Finishing
  <1>3. q.user.status = "active"
    BY <1>2 DEF Holds
  <1>4. u \in User /\ u.status = "active" /\ u.status # "absent"
    <2>1. /\ [q.user EXCEPT !.autoLink = FALSE] \in User
          /\ [q.user EXCEPT !.autoLink = FALSE].status = q.user.status
      BY <1>2, RowsOfUser
    <2>2. QED
      BY <1>2, <1>3, <2>1
  <1>5. /\ identities' = [identities EXCEPT ![x] = a] /\ UNCHANGED sessions
        /\ accounts' = [accounts EXCEPT ![a] = u]
    <2>1. accounts = [accounts EXCEPT ![a] = q.user]
      BY <1>2 DEF IInv, Types
    <2>2. /\ identities' = [identities EXCEPT ![x] = a] /\ UNCHANGED sessions
          /\ IF ~q.known \/ q.user.autoLink
             THEN accounts' = [accounts EXCEPT ![a] = [q.user EXCEPT !.autoLink = FALSE]]
             ELSE UNCHANGED accounts
      BY DEF CommitLink, WriteIdentity, WriteUser
    <2>3. QED
      BY <2>1, <2>2
  <1>6. identities'[x] = a /\ \A y \in Subject : y # x => identities'[y] = identities[y]
    BY <1>2, <1>5 DEF IInv, Types
  <1>7. q.known => UNCHANGED identities
    BY <1>2, <1>5 DEF IInv, Types
  <1>8. ASSUME NEW t \in SessionId, sessions'[t].state = "live", sessions'[t].owner = a
        PROVE  /\ u.status = "active"
               /\ sessions'[t].via # None => identities'[sessions'[t].via] = a
    <2>1. sessions[t].via # None => identities[sessions[t].via] = a
      BY <1>5, <1>8 DEF IInv, Tables, Live
    <2>2. sessions[t].via \in Subject \cup {None}
      BY DEF IInv, Types, Session
    <2>3. QED
      BY <1>4, <1>5, <1>6, <2>1, <2>2
  <1>9. sessions' \in [SessionId -> Session] /\ sessions' = sessions
    BY <1>5 DEF IInv, Types
  <1> HIDE DEF a, x, q, u
  <1>10. IdentityMoves(p, a)
    BY <1>2, <1>5, <1>7 DEF IdentityMoves
  <1>11. SessionsMove(a)
    BY <1>9 DEF SessionsMove
  <1>12. WellLeft(a, u)
    BY <1>2, <1>6, <1>8 DEF WellLeft
  <1>13. QED
    BY <1>2, <1>4, <1>5, <1>10, <1>11, <1>12, CommitKeeps

(* CommitRecovery keeps the invariant.                                       *)
LEMMA CommitRecoveryKeeps ==
    ASSUME IInv, NEW p \in Process, CommitRecovery(p) PROVE IInv'
  <1> DEFINE q == request[p]
             a == q.account
             x == q.subject
             u == RequirePasswordChange(q.user)
  <1>1. Committing(p, "recover") /\ "recover" \in AllOps
    BY DEF CommitRecovery, AllOps, Administering
  <1>2. /\ End(p) /\ UNCHANGED challenges
        /\ a \in Account /\ holder[a] = p /\ q.user \in User /\ q.user.status # "absent"
        /\ x \in Subject /\ identities[x] = a /\ holder[x] = p
    BY <1>1, AtCommit
  <1>3. u \in User /\ u.status # "absent" /\ u.password = "temporary"
    BY <1>2, RowsOfUser
  <1>4. /\ identities' = [identities EXCEPT ![x] = None] /\ sessions' = Revoked(a)
        /\ accounts' = [accounts EXCEPT ![a] = u]
    BY DEF CommitRecovery, WriteUser
  <1>5. /\ sessions' \in [SessionId -> Session]
        /\ \A t \in SessionId : sessions'[t] # sessions[t] =>
              sessions'[t] = RevokedSession /\ sessions[t].owner = a
        /\ \A t \in SessionId : sessions'[t].state = "live" => sessions'[t].owner # a
    BY <1>2, <1>4, Revoking
  <1> HIDE DEF a, x, q, u
  <1>6. IdentityMoves(p, a)
    BY <1>2, <1>4 DEF IdentityMoves
  <1>7. SessionsMove(a)
    BY <1>5 DEF SessionsMove
  <1>8. WellLeft(a, u)
    BY <1>3, <1>5 DEF WellLeft
  <1>9. QED
    BY <1>2, <1>3, <1>4, <1>6, <1>7, <1>8, CommitKeeps

(* CommitReset and CommitDisable keep the invariant.                         *)
LEMMA RevocationsKeep ==
    ASSUME IInv, NEW p \in Process, CommitReset(p) \/ CommitDisable(p) PROVE IInv'
  <1> DEFINE q == request[p]
             a == q.account
             op == IF CommitReset(p) THEN "resetPassword" ELSE "disable"
             u == IF CommitReset(p) THEN RequirePasswordChange(q.user)
                  ELSE [q.user EXCEPT !.status = "disabled"]
  <1>1. Committing(p, op) /\ op \in AllOps /\ op \in {"resetPassword", "disable"}
    BY DEF CommitReset, CommitDisable, AllOps, Administering
  <1> HIDE DEF op
  <1>2. /\ End(p) /\ UNCHANGED challenges
        /\ a \in Account /\ holder[a] = p /\ q.user \in User /\ q.user.status # "absent"
        /\ q.user = accounts[a]
    BY <1>1, AtCommit
  <1>3. /\ u \in User /\ u.status # "absent"
        /\ u.password = "disabled" => accounts[a].password = "disabled"
    <2> DEFINE user == q.user
    <2> HIDE DEF user
    <2>1. user \in User
      BY <1>2 DEF user
    <2>2. /\ RequirePasswordChange(user) \in User
          /\ RequirePasswordChange(user).status = user.status
          /\ RequirePasswordChange(user).password = "temporary"
          /\ [user EXCEPT !.status = "disabled"] \in User
          /\ [user EXCEPT !.status = "disabled"].status = "disabled"
          /\ [user EXCEPT !.status = "disabled"].password = user.password
      BY <2>1, RowsOfUser
    <2>3. u = IF CommitReset(p) THEN RequirePasswordChange(user)
              ELSE [user EXCEPT !.status = "disabled"]
      BY DEF user
    <2>4. user = accounts[a] /\ user.status # "absent"
      BY <1>2 DEF user
    <2> HIDE DEF u
    <2>5. QED
      BY <2>2, <2>3, <2>4
  <1>4. /\ UNCHANGED identities /\ sessions' = Revoked(a)
        /\ accounts' = [accounts EXCEPT ![a] = u]
    <2>1. CASE CommitReset(p)
      BY <2>1 DEF CommitReset, WriteUser
    <2>2. CASE ~CommitReset(p)
      BY <2>2 DEF CommitDisable, WriteUser
    <2>3. QED
      BY <2>1, <2>2
  <1>5. u.password = "disabled" => \E x \in Subject : identities'[x] = a
    BY <1>2, <1>3, <1>4 DEF IInv, Tables, Subjects
  <1>6. /\ sessions' \in [SessionId -> Session]
        /\ \A t \in SessionId : sessions'[t] # sessions[t] =>
              sessions'[t] = RevokedSession /\ sessions[t].owner = a
        /\ \A t \in SessionId : sessions'[t].state = "live" => sessions'[t].owner # a
    BY <1>2, <1>4, Revoking
  <1> HIDE DEF a, q, u
  <1>7. IdentityMoves(p, a)
    BY <1>4 DEF IdentityMoves
  <1>8. SessionsMove(a)
    BY <1>6 DEF SessionsMove
  <1>9. WellLeft(a, u)
    BY <1>5, <1>6 DEF WellLeft
  <1>10. QED
    BY <1>2, <1>3, <1>4, <1>7, <1>8, <1>9, CommitKeeps

(* CommitCreation keeps the invariant.                                       *)
LEMMA CommitCreationKeeps ==
    ASSUME IInv, NEW p \in Process, CommitCreation(p) PROVE IInv'
  <1> DEFINE q == request[p]
             a == q.account
             u == q.user
  <1>1. Committing(p, "createUser") /\ "createUser" \in AllOps
    BY DEF CommitCreation, AllOps
  <1>2. /\ End(p) /\ UNCHANGED challenges /\ Holds(p) /\ Course(q)
        /\ q.op = "createUser" /\ q.pc = "commit"
        /\ a \in Account /\ holder[a] = p /\ u \in User
    BY <1>1, AtCommit
  <1>3. u.status = "active" /\ u.password = "temporary" /\ u.status # "absent"
    <2>1. PICK autoLink \in BOOLEAN : u = ProvisionedUser(autoLink)
      BY <1>2 DEF Course
    <2>2. QED
      BY <2>1 DEF ProvisionedUser
  <1>4. accounts[a].status = "absent"
    BY <1>2 DEF Holds
  <1>5. /\ UNCHANGED <<identities, sessions>> /\ accounts' = [accounts EXCEPT ![a] = u]
    BY DEF CommitCreation, WriteUser
  <1>6. \A t \in SessionId : sessions'[t].state = "live" => sessions'[t].owner # a
    BY <1>4, <1>5 DEF IInv, Tables, Live
  <1>7. sessions' \in [SessionId -> Session]
    BY <1>5 DEF IInv, Types
  <1> HIDE DEF a, q, u
  <1>8. IdentityMoves(p, a) /\ SessionsMove(a)
    BY <1>5, <1>7 DEF IdentityMoves, SessionsMove
  <1>9. WellLeft(a, u)
    BY <1>3, <1>6 DEF WellLeft
  <1>10. QED
    BY <1>2, <1>3, <1>5, <1>8, <1>9, CommitKeeps

(* CommitPreauthorization keeps the invariant.                               *)
LEMMA CommitPreauthorizationKeeps ==
    ASSUME IInv, NEW p \in Process, CommitPreauthorization(p) PROVE IInv'
  <1> DEFINE q == request[p]
             a == q.account
             u == [q.user EXCEPT !.autoLink = TRUE]
  <1>1. Committing(p, "preauthorize") /\ "preauthorize" \in AllOps
    BY DEF CommitPreauthorization, AllOps, Administering
  <1>2. /\ End(p) /\ UNCHANGED challenges
        /\ a \in Account /\ holder[a] = p /\ q.user \in User /\ q.user.status # "absent"
        /\ q.user = accounts[a]
    BY <1>1, AtCommit
  <1>3. /\ u \in User /\ u.status = accounts[a].status /\ u.password = accounts[a].password
    <2> DEFINE user == q.user
    <2> HIDE DEF user
    <2>1. user \in User
      BY <1>2 DEF user
    <2>2. /\ [user EXCEPT !.autoLink = TRUE] \in User
          /\ [user EXCEPT !.autoLink = TRUE].status = user.status
          /\ [user EXCEPT !.autoLink = TRUE].password = user.password
      BY <2>1, RowsOfUser
    <2>3. QED
      BY <1>2, <2>2 DEF user
  <1>4. /\ UNCHANGED <<identities, sessions>> /\ accounts' = [accounts EXCEPT ![a] = u]
    BY DEF CommitPreauthorization, WriteUser
  <1>5. u.password = "disabled" => \E x \in Subject : identities'[x] = a
    BY <1>2, <1>3, <1>4 DEF IInv, Tables, Subjects
  <1>6. \A t \in SessionId : sessions'[t].state = "live" /\ sessions'[t].owner = a =>
           /\ u.status = "active"
           /\ sessions'[t].via # None => identities'[sessions'[t].via] = a
    BY <1>3, <1>4 DEF IInv, Tables, Live
  <1>7. sessions' \in [SessionId -> Session] /\ UNCHANGED identities /\ UNCHANGED sessions
    BY <1>4 DEF IInv, Types
  <1>8. u.status # "absent"
    BY <1>2, <1>3
  <1> HIDE DEF a, q, u
  <1>9. IdentityMoves(p, a) /\ SessionsMove(a)
    BY <1>7 DEF IdentityMoves, SessionsMove
  <1>10. WellLeft(a, u)
    BY <1>5, <1>6 DEF WellLeft
  <1>11. QED
    BY <1>2, <1>3, <1>4, <1>8, <1>9, <1>10, CommitKeeps

(* CommitPassword keeps the invariant.                                       *)
LEMMA CommitPasswordKeeps ==
    ASSUME IInv, NEW p \in Process, NEW s \in SessionId, CommitPassword(p, s) PROVE IInv'
  <1> DEFINE q == request[p]
             a == q.account
             u == ActivatePassword(q.user)
  <1>1. Committing(p, "changePassword") /\ "changePassword" \in AllOps
    BY DEF CommitPassword, AllOps
  <1>2. /\ End(p) /\ UNCHANGED challenges /\ Holds(p) /\ q.op = "changePassword"
        /\ q.pc = "commit"
        /\ a \in Account /\ holder[a] = p /\ q.user \in User /\ q.user = accounts[a]
    BY <1>1, AtCommit
  <1>3. u \in User /\ u.status = "active" /\ u.password = "own"
    BY <1>2, RowsOfUser DEF Holds
  <1>4. /\ UNCHANGED identities /\ Fresh(s) /\ accounts' = [accounts EXCEPT ![a] = u]
        /\ sessions' = [Revoked(a) EXCEPT ![s] = NewSession(a, None)]
    BY DEF CommitPassword, WriteUser
  <1> DEFINE new == NewSession(a, None)
             old == Revoked(a)
  <1>5. new \in Session /\ new.owner = a /\ new.via = None
    BY <1>2 DEF NewSession, Session
  <1>6. /\ old \in [SessionId -> Session]
        /\ \A t \in SessionId : old[t] # sessions[t] =>
              old[t] = RevokedSession /\ sessions[t].owner = a
        /\ \A t \in SessionId : old[t].state = "live" => old[t].owner # a
    BY <1>2, Revoking
  <1>7. sessions' = [old EXCEPT ![s] = new]
    BY <1>4
  <1> HIDE DEF a, q, u, new, old
  <1>8. sessions' \in [SessionId -> Session]
    BY <1>5, <1>6, <1>7
  <1>9. sessions'[s] = new /\ \A t \in SessionId : t # s => sessions'[t] = old[t]
    BY <1>6, <1>7
  <1>10. \A t \in SessionId : sessions'[t] # sessions[t] =>
              \/ Fresh(t) /\ sessions'[t].owner = a
              \/ /\ sessions'[t] = RevokedSession
                 /\ Live(t) => sessions[t].owner = a
    BY <1>4, <1>5, <1>6, <1>9
  <1>11. \A t \in SessionId : sessions'[t].state = "live" /\ sessions'[t].owner = a =>
              /\ u.status = "active"
              /\ sessions'[t].via # None => identities'[sessions'[t].via] = a
    BY <1>3, <1>5, <1>6, <1>9
  <1>12. IdentityMoves(p, a)
    BY <1>4 DEF IdentityMoves
  <1>13. SessionsMove(a)
    BY <1>8, <1>10 DEF SessionsMove
  <1>14. WellLeft(a, u)
    BY <1>3, <1>11 DEF WellLeft
  <1>15. u.status # "absent"
    BY <1>3
  <1>16. QED
    BY <1>2, <1>3, <1>4, <1>12, <1>13, <1>14, <1>15, CommitKeeps

(* CommitLogout keeps the invariant.                                         *)
LEMMA CommitLogoutKeeps ==
    ASSUME IInv, NEW p \in Process, CommitLogout(p) PROVE IInv'
  <1> DEFINE q == request[p]
             a == q.account
             s == q.session
             u == q.user
  <1>1. Committing(p, "logout") /\ "logout" \in AllOps
    BY DEF CommitLogout, AllOps
  <1>2. /\ End(p) /\ UNCHANGED challenges /\ Holds(p) /\ Course(q) /\ q.op = "logout"
        /\ a \in Account /\ holder[a] = p /\ u \in User /\ u = accounts[a]
        /\ u.status # "absent"
    BY <1>1, AtCommit DEF Finishing
  <1>3. s \in SessionId /\ (Live(s) => sessions[s].owner = a)
    BY <1>2 DEF Course, Holds, Owning
  <1>4. /\ UNCHANGED accounts /\ UNCHANGED identities
        /\ sessions' = [sessions EXCEPT ![s] = RevokedSession]
    BY DEF CommitLogout
  <1>5. accounts' = [accounts EXCEPT ![a] = u]
    BY <1>2, <1>4 DEF IInv, Types
  <1>6. RevokedSession \in Session /\ RevokedSession.state = "revoked"
    BY DEF RevokedSession, Absent, Session
  <1>7. /\ sessions' \in [SessionId -> Session] /\ sessions'[s] = RevokedSession
        /\ \A t \in SessionId : t # s => sessions'[t] = sessions[t]
    BY <1>3, <1>4, <1>6 DEF IInv, Types
  <1>8. ASSUME NEW t \in SessionId, sessions'[t].state = "live", sessions'[t].owner = a
        PROVE  /\ u.status = "active"
               /\ sessions'[t].via # None => identities'[sessions'[t].via] = a
    <2>1. sessions'[t] = sessions[t] /\ Live(t)
      BY <1>6, <1>7, <1>8 DEF Live
    <2>2. QED
      BY <1>2, <1>4, <1>8, <2>1 DEF IInv, Tables
  <1>9. u.password = "disabled" => \E x \in Subject : identities'[x] = a
    BY <1>2, <1>4 DEF IInv, Tables, Subjects
  <1>10. \A t \in SessionId : sessions'[t] # sessions[t] =>
            sessions'[t] = RevokedSession /\ (Live(t) => sessions[t].owner = a)
    BY <1>3, <1>7
  <1> HIDE DEF a, q, u, s
  <1>11. IdentityMoves(p, a) /\ SessionsMove(a)
    BY <1>4, <1>7, <1>10 DEF IdentityMoves, SessionsMove
  <1>12. WellLeft(a, u)
    BY <1>8, <1>9 DEF WellLeft
  <1>13. QED
    BY <1>2, <1>5, <1>11, <1>12, CommitKeeps

(* Every commit keeps the invariant.                                         *)
LEMMA CommitsKeep ==
    ASSUME IInv, NEW p \in Process, Commit(p) PROVE IInv'
  BY LoginKnownKeeps, LoginFirstKeeps, CommitPasswordKeeps, CommitLinkKeeps,
     CommitRecoveryKeeps, CommitCreationKeeps, CommitPreauthorizationKeeps,
     RevocationsKeep, CommitLogoutKeeps DEF Commit

-----------------------------------------------------------------------------
(* An account has one subject at most exactly if no two are its.             *)
LEMMA OneSubject ==
    ASSUME NEW a \in Account
    PROVE  /\ Cardinality(Subjects(a)) <= 1 => \A x, y \in Subjects(a) : x = y
           /\ (\A x, y \in Subjects(a) : x = y) => Cardinality(Subjects(a)) <= 1
  <1>1. IsFiniteSet(Subjects(a))
    BY RowsAssumption, FS_Subset DEF Subjects
  <1>2. Cardinality(Subjects(a)) \in Nat
    BY <1>1, FS_CardinalityType
  <1>3. ASSUME Cardinality(Subjects(a)) <= 1, NEW x \in Subjects(a), NEW y \in Subjects(a)
        PROVE  x = y
    <2>1. Cardinality(Subjects(a)) # 0
      BY <1>1, FS_EmptySet
    <2>2. Cardinality(Subjects(a)) = 1
      BY <1>2, <1>3, <2>1
    <2>3. \E z : Subjects(a) = {z}
      BY <1>1, <2>2, FS_Singleton
    <2>4. QED
      BY <2>3
  <1>4. ASSUME \A x, y \in Subjects(a) : x = y PROVE Cardinality(Subjects(a)) <= 1
    <2>1. CASE Subjects(a) = {}
      BY <2>1, FS_EmptySet
    <2>2. CASE Subjects(a) # {}
      <3>1. PICK z \in Subjects(a) : TRUE
        BY <2>2
      <3>2. Subjects(a) = {z}
        BY <1>4
      <3>3. QED
        BY <3>2, FS_Singleton
    <2>3. QED
      BY <2>1, <2>2
  <1>5. QED
    BY <1>3, <1>4

(* The rows of the accounts that exist at first.                             *)
LEMMA InitialRows ==
    ASSUME NEW user \in InitialUsers
    PROVE  user \in User /\ (user.status = "absent" => user = AbsentUser)
  <1>1. AbsentUser \in User
    BY DEF AbsentUser, User
  <1>2. OpenUser \in User /\ OpenUser.status = "active"
    BY <1>1, RowsOfUser
  <1>3. ASSUME NEW autoLink \in BOOLEAN
        PROVE  ProvisionedUser(autoLink) \in User /\ ProvisionedUser(autoLink).status = "active"
    BY DEF ProvisionedUser, User
  <1>4. LET own == ActivatePassword(ProvisionedUser(FALSE))
        IN  own \in User /\ own.status = "active"
    <2> DEFINE first == ProvisionedUser(FALSE)
    <2> HIDE DEF first
    <2>1. first \in User /\ first.status = "active"
      BY <1>3 DEF first
    <2>2. ActivatePassword(first) \in User /\ ActivatePassword(first).status = first.status
      BY <2>1, RowsOfUser
    <2>3. QED
      BY <2>1, <2>2 DEF first
  <1>5. \/ user = AbsentUser \/ user = OpenUser
        \/ user = ProvisionedUser(FALSE) \/ user = ProvisionedUser(TRUE)
        \/ user = ActivatePassword(ProvisionedUser(FALSE))
    BY DEF InitialUsers
  <1>6. QED
    BY <1>1, <1>2, <1>3, <1>4, <1>5

(* The inductive invariant holds initially.                                  *)
LEMMA InvariantStarts == Init => IInv
  <1> SUFFICES ASSUME Init PROVE IInv
    OBVIOUS
  <1>1. InitialUsers \subseteq User
    BY InitialRows
  <1>2. /\ accounts \in [Account -> InitialUsers] /\ accounts \in [Account -> User]
        /\ identities \in [Subject -> Account \cup {None}]
        /\ \A a \in Account :
              /\ Cardinality(Subjects(a)) <= 1
              /\ accounts[a].status = "absent" => Subjects(a) = {}
              /\ accounts[a].password = "disabled" => Subjects(a) # {}
    BY <1>1 DEF Init
  <1>3. challenges \in [Challenge -> ChallengeRow]
    BY DEF Init, Unused, ChallengeRow
  <1>4. LocksTypeOK /\ \A p \in Process, l \in Locks : holder[l] # p
    BY NullAssumption DEF Init, NoLocks, LocksTypeOK, Locks
  <1>5. request \in [Process -> Request] /\ \A p \in Process : request[p] = Idle
    BY IdleType DEF Init
  <1>6. PICK session \in InitialSessions :
           /\ session # Absent =>
                 /\ accounts[session.owner].status = "active"
                 /\ session.via = None => accounts[session.owner].password # "disabled"
                 /\ session.via # None => identities[session.via] = session.owner
           /\ sessions = [[s \in SessionId |-> Absent] EXCEPT ![FirstSession] = session]
    BY DEF Init
  <1>7. /\ Absent \in Session /\ session \in Session /\ Absent.state # "live"
        /\ session # Absent => session.owner \in Account
    <2>1. Absent \in Session /\ Absent.state # "live"
      BY DEF Absent, Session
    <2>2. CASE session = Absent
      BY <2>1, <2>2
    <2>3. CASE session # Absent
      <3>1. PICK a \in Account, x \in Subject \cup {None} : session = NewSession(a, x)
        BY <1>6, <2>3 DEF InitialSessions
      <3>2. QED
        BY <2>1, <3>1 DEF NewSession, Session
    <2>4. QED
      BY <2>2, <2>3
  <1>8. /\ sessions \in [SessionId -> Session]
        /\ \A s \in SessionId : sessions[s] \in {Absent, session}
    <2> DEFINE none == [s \in SessionId |-> Absent]
    <2>1. none \in [SessionId -> Session] /\ \A s \in SessionId : none[s] = Absent
      BY <1>7
    <2> HIDE DEF none
    <2>2. sessions = [none EXCEPT ![FirstSession] = session]
      BY <1>6 DEF none
    <2>3. \A s \in SessionId :
             sessions[s] = IF s = FirstSession THEN session ELSE none[s]
      BY <2>1, <2>2
    <2>4. sessions \in [SessionId -> Session]
      BY <1>7, <2>1, <2>2, Zenon
    <2>5. QED
      BY <2>1, <2>3, <2>4
  <1>9. ASSUME NEW a \in Account, accounts[a].status = "absent"
        PROVE  accounts[a] = AbsentUser /\ Subjects(a) = {}
    <2>1. accounts[a] \in InitialUsers
      BY <1>2
    <2>2. QED
      BY <1>2, <1>9, <2>1, InitialRows
  <1>10. ASSUME NEW x \in Subject, NEW y \in Subject, identities[x] # None,
                identities[x] = identities[y]
         PROVE  x = y
    <2> DEFINE a == identities[x]
    <2>1. a \in Account
      BY <1>2, <1>10
    <2>2. x \in Subjects(a) /\ y \in Subjects(a)
      BY <1>10 DEF Subjects
    <2>3. QED
      BY <1>2, <2>1, <2>2, OneSubject
  <1>11. ASSUME NEW s \in SessionId, Live(s)
         PROVE  /\ sessions[s].owner \in Account
                /\ accounts[sessions[s].owner].status = "active"
                /\ sessions[s].via # None => identities[sessions[s].via] = sessions[s].owner
    BY <1>6, <1>7, <1>8, <1>11 DEF Live
  <1>12. Tables
    BY <1>2, <1>9, <1>10, <1>11 DEF Tables
  <1>13. ASSUME NEW p \in Process PROVE Course(request[p]) /\ Holds(p) /\ Rests(p)
    <2>1. request[p] = Idle
      BY <1>5
    <2>2. Holds(p)
      BY <2>1 DEF Holds, Idle, PastUser, Owning, Finishing
    <2>3. Rests(p)
      BY <1>4 DEF Rests, Locks
    <2>4. QED
      BY <2>1, <2>2, <2>3, IdleType
  <1>14. QED
    BY <1>2, <1>3, <1>4, <1>5, <1>8, <1>12, <1>13 DEF IInv, Types

(* Every step keeps the inductive invariant.                                 *)
LEMMA InvariantStays == IInv /\ [Next]_vars => IInv'
  <1> SUFFICES ASSUME IInv, [Next]_vars PROVE IInv'
    OBVIOUS
  <1>1. ASSUME NEW p \in Process, Abort(p) PROVE IInv'
    BY <1>1, Refusing DEF Abort
  <1>2. CASE UNCHANGED vars
    <2>1. UNCHANGED <<accounts, identities, challenges, sessions, holder, request>>
      BY <1>2 DEF vars
    <2>2. /\ \A a \in Account : Subjects(a)' = Subjects(a)
          /\ \A s \in SessionId : Live(s)' <=> Live(s)
      BY <2>1 DEF Subjects, Live
    <2>3. Types' /\ Tables'
      BY <2>1, <2>2 DEF IInv, Types, Tables, LocksTypeOK
    <2>4. ASSUME NEW p \in Process PROVE (Course(request[p]) /\ Holds(p) /\ Rests(p))'
      <3>1. request[p] \in Request /\ Course(request[p]) /\ Holds(p) /\ Rests(p)
        BY Known
      <3>2. Course(request[p])' /\ Rests(p)'
        BY <2>1, <3>1 DEF Rests, Live, Course
      <3>3. /\ request[p].op \in Finishing /\ request[p].pc = "commit" =>
                  request[p].account \in Account
            /\ request[p].op \in Owning => request[p].session \in SessionId
            /\ request[p].op = "finishLink" => request[p].op \in Owning
        BY <3>1 DEF Course, Finishing, Owning
      <3>4. Holds(p)'
        BY <2>1, <2>2, <3>1, <3>3 DEF Holds, CanAutoLink
      <3>5. QED
        BY <3>2, <3>4
    <2>5. QED
      BY <2>3, <2>4 DEF IInv
  <1>3. QED
    BY <1>1, <1>2, ArrivalsKeep, StatementsKeep, CommitsKeep DEF Next

(* The inductive invariant holds of every behaviour.                         *)
LEMMA InvariantHolds == Spec => []IInv
  BY InvariantStarts, InvariantStays, PTL DEF Spec

-----------------------------------------------------------------------------
(* Values have their types, no account has two identities, and a process     *)
(* without a request holds no lock.                                          *)
THEOREM TypeCorrect == Spec => []TypeOK
  <1>1. ASSUME IInv PROVE TypeOK
    <2>1. \A a \in Account : Cardinality(Subjects(a)) <= 1
      <3> TAKE a \in Account
      <3>1. \A x, y \in Subjects(a) : x = y
        BY <1>1, NullAssumption DEF Subjects, IInv, Tables
      <3>2. QED
        BY <3>1, OneSubject
    <2>2. ASSUME NEW p \in Process, At(p, "idle"), NEW l \in DOMAIN holder
          PROVE  holder[l] # p
      BY <1>1, <2>2, Known DEF IInv, Types, LocksTypeOK, Locks
    <2>3. QED
      BY <1>1, <2>1, <2>2 DEF TypeOK, IInv, Types
  <1>2. QED
    BY <1>1, InvariantHolds, PTL

(* In every mode, whatever links, first logins, recoveries, resets and       *)
(* password changes overlap, an account whose password is disabled has a     *)
(* Google identity, and no account has two.                                  *)
THEOREM WaysInRemain == Spec => []AlwaysAWayIn
  <1>1. IInv /\ TypeOK => AlwaysAWayIn
    BY DEF IInv, Tables, TypeOK, AlwaysAWayIn
  <1>2. QED
    BY <1>1, InvariantHolds, TypeCorrect, PTL

(* A live session is an active account's, and one that came in through a     *)
(* Google identity has not outlived it.                                      *)
THEOREM SessionsKeepTheirReasons == Spec => []SessionsRest
  <1>1. IInv => SessionsRest
    BY DEF IInv, Tables, SessionsRest
  <1>2. QED
    BY <1>1, InvariantHolds, PTL

-----------------------------------------------------------------------------
(* Only commits write accounts, identities and sessions.                     *)
LEMMA OnlyCommitsWrite ==
    ASSUME NEW p \in Process, Arrives(p) \/ Statement(p) \/ Abort(p)
    PROVE  UNCHANGED <<accounts, identities, sessions>>
  <1>1. CASE Arrives(p)
    BY <1>1 DEF Arrives, BeginLogin, BeginLink, Store, FinishLogin, FinishLink, FinishInVain,
                Consume, OwnerAsks, CreateUser, AdministratorAsks, Arrive, UnchangedRows
  <1>2. CASE Statement(p)
    BY <1>2 DEF Statement, LockSubject, LockUser, InsertUser, LockSession, ReadOwners,
                InsertIdentity, LockRow, EndRows, UnchangedRows
  <1>3. CASE Abort(p)
    BY <1>3 DEF Abort, UnchangedRows
  <1>4. QED
    BY <1>1, <1>2, <1>3

(* What stays decided about an account.                                      *)
Sticks(a) ==
    /\ accounts[a].password = "own" => accounts'[a].password # "disabled"
    /\ accounts[a].status = "disabled" => accounts'[a].status = "disabled"

(* A commit writes one account at most, and leaves it as it was decided.     *)
LEMMA CommitsStick ==
    ASSUME IInv, NEW p \in Process, Commit(p), NEW b \in Account PROVE Sticks(b)
  <1> DEFINE q == request[p]
             a == q.account
             user == accounts[a]
  <1>1. accounts \in [Account -> User]
    BY DEF IInv, Types
  <1>2. ASSUME UNCHANGED accounts PROVE Sticks(b)
    BY <1>2 DEF Sticks
  <1>3. ASSUME NEW u, a \in Account, accounts' = [accounts EXCEPT ![a] = u],
               user.password = "own" => u.password # "disabled",
               user.status = "disabled" => u.status = "disabled"
        PROVE  Sticks(b)
    BY <1>1, <1>3 DEF Sticks
  <1>4. ASSUME NEW op \in AllOps, Committing(p, op), op # "createUser"
        PROVE  /\ a \in Account /\ user \in User /\ q.user = user /\ Holds(p)
               /\ q.op = op /\ q.pc = "commit"
               /\ DisablePassword(user).status = user.status
               /\ RequirePasswordChange(user).status = user.status
               /\ RequirePasswordChange(user).password = "temporary"
               /\ ActivatePassword(user).status = user.status
               /\ ActivatePassword(user).password = "own"
               /\ [user EXCEPT !.autoLink = FALSE].status = user.status
               /\ [user EXCEPT !.autoLink = FALSE].password = user.password
               /\ [user EXCEPT !.autoLink = TRUE].status = user.status
               /\ [user EXCEPT !.autoLink = TRUE].password = user.password
               /\ [user EXCEPT !.status = "disabled"].status = "disabled"
               /\ [user EXCEPT !.status = "disabled"].password = user.password
    <2>1. a \in Account /\ q.user = user /\ Holds(p) /\ q.op = op /\ q.pc = "commit"
      BY <1>4, AtCommit
    <2>2. user \in User
      BY <1>1, <2>1
    <2> HIDE DEF user
    <2>3. QED
      BY <2>1, <2>2, RowsOfUser
  <1>5. CASE \E s \in SessionId : LoginKnown(p, s)
    BY <1>2, <1>5 DEF LoginKnown
  <1>6. ASSUME NEW s \in SessionId, LoginFirst(p, s) PROVE Sticks(b)
    <2>1. Committing(p, "finishLogin") /\ ~q.known /\ "finishLogin" \in AllOps
      BY <1>6 DEF LoginFirst, AllOps, Finishing
    <2>2. user = AbsentUser \/ CanAutoLink(user)
      BY <1>4, <2>1 DEF Holds
    <2> DEFINE u == IF q.user = AbsentUser THEN OpenUser ELSE DisablePassword(q.user)
    <2>3. accounts' = [accounts EXCEPT ![a] = u]
      BY <1>6 DEF LoginFirst, WriteUser
    <2>4. user.password # "own" /\ user.status # "disabled"
      BY <2>2 DEF AbsentUser, CanAutoLink
    <2> HIDE DEF u
    <2>5. QED
      BY <1>3, <1>4, <2>1, <2>3, <2>4
  <1>7. CASE \E s \in SessionId : CommitPassword(p, s)
    <2>1. Committing(p, "changePassword") /\ "changePassword" \in AllOps
      BY <1>7 DEF CommitPassword, AllOps
    <2>2. q.user = user /\ a \in Account /\ user.status = "active"
      BY <1>4, <2>1 DEF Holds
    <2>3. accounts' = [accounts EXCEPT ![a] = ActivatePassword(user)]
      BY <1>7, <2>2 DEF CommitPassword, WriteUser
    <2>4. QED
      BY <1>3, <1>4, <2>1, <2>2, <2>3
  <1>8. CASE CommitLink(p)
    <2>1. Committing(p, "finishLink") /\ "finishLink" \in AllOps
      BY <1>8 DEF CommitLink, AllOps, Finishing
    <2>2. q.user = user /\ a \in Account
      BY <1>4, <2>1
    <2>3. UNCHANGED accounts \/ accounts' = [accounts EXCEPT ![a] = [user EXCEPT !.autoLink = FALSE]]
      BY <1>8, <2>2 DEF CommitLink, WriteUser
    <2> DEFINE u == [user EXCEPT !.autoLink = FALSE]
    <2>4. u.status = user.status /\ u.password = user.password
      BY <1>4, <2>1
    <2> HIDE DEF u
    <2>5. CASE UNCHANGED accounts
      BY <1>2, <2>5
    <2>6. CASE accounts' = [accounts EXCEPT ![a] = u]
      BY <1>3, <2>2, <2>4, <2>6
    <2>7. QED
      BY <2>3, <2>5, <2>6 DEF u
  <1>9. CASE CommitRecovery(p)
    <2>1. Committing(p, "recover") /\ "recover" \in AllOps
      BY <1>9 DEF CommitRecovery, AllOps, Administering
    <2>2. q.user = user /\ a \in Account
      BY <1>4, <2>1
    <2>3. accounts' = [accounts EXCEPT ![a] = RequirePasswordChange(user)]
      BY <1>9, <2>2 DEF CommitRecovery, WriteUser
    <2>4. QED
      BY <1>3, <1>4, <2>1, <2>2, <2>3
  <1>10. CASE CommitCreation(p)
    <2>1. Committing(p, "createUser") /\ "createUser" \in AllOps
      BY <1>10 DEF CommitCreation, AllOps
    <2>2. /\ a \in Account /\ Holds(p) /\ q.op = "createUser" /\ q.pc = "commit"
      BY <2>1, AtCommit
    <2>3. user = AbsentUser
      BY <2>2 DEF Holds, IInv, Tables
    <2>4. accounts' = [accounts EXCEPT ![a] = q.user]
      BY <1>10 DEF CommitCreation, WriteUser
    <2>5. user.password # "own" /\ user.status # "disabled"
      BY <2>3 DEF AbsentUser
    <2> DEFINE u == q.user
    <2> HIDE DEF u
    <2>6. accounts' = [accounts EXCEPT ![a] = u]
      BY <2>4 DEF u
    <2>7. QED
      BY <1>3, <2>2, <2>5, <2>6
  <1>11. CASE CommitPreauthorization(p)
    <2>1. Committing(p, "preauthorize") /\ "preauthorize" \in AllOps
      BY <1>11 DEF CommitPreauthorization, AllOps, Administering
    <2>2. q.user = user /\ a \in Account
      BY <1>4, <2>1
    <2>3. accounts' = [accounts EXCEPT ![a] = [user EXCEPT !.autoLink = TRUE]]
      BY <1>11, <2>2 DEF CommitPreauthorization, WriteUser
    <2>4. QED
      BY <1>3, <1>4, <2>1, <2>2, <2>3
  <1>12. CASE CommitReset(p)
    <2>1. Committing(p, "resetPassword") /\ "resetPassword" \in AllOps
      BY <1>12 DEF CommitReset, AllOps, Administering
    <2>2. q.user = user /\ a \in Account
      BY <1>4, <2>1
    <2>3. accounts' = [accounts EXCEPT ![a] = RequirePasswordChange(user)]
      BY <1>12, <2>2 DEF CommitReset, WriteUser
    <2>4. QED
      BY <1>3, <1>4, <2>1, <2>2, <2>3
  <1>13. CASE CommitDisable(p)
    <2>1. Committing(p, "disable") /\ "disable" \in AllOps
      BY <1>13 DEF CommitDisable, AllOps, Administering
    <2>2. q.user = user /\ a \in Account
      BY <1>4, <2>1
    <2>3. accounts' = [accounts EXCEPT ![a] = [user EXCEPT !.status = "disabled"]]
      BY <1>13, <2>2 DEF CommitDisable, WriteUser
    <2>4. QED
      BY <1>3, <1>4, <2>1, <2>2, <2>3
  <1>14. CASE CommitLogout(p)
    BY <1>2, <1>14 DEF CommitLogout
  <1>15. QED
    BY <1>5, <1>6, <1>7, <1>8, <1>9, <1>10, <1>11, <1>12, <1>13, <1>14 DEF Commit

(* A password the owner has set is not disabled, and a disabled account is   *)
(* not enabled, by anything that was under way when it was decided.          *)
THEOREM DecisionsStand == Spec => DecisionsStick
  <1>1. ASSUME IInv, [Next]_vars, NEW b \in Account PROVE Sticks(b)
    <2>1. CASE UNCHANGED vars
      BY <2>1 DEF vars, Sticks
    <2>2. ASSUME NEW p \in Process, Arrives(p) \/ Statement(p) \/ Abort(p) PROVE Sticks(b)
      BY <2>2, OnlyCommitsWrite DEF Sticks
    <2>3. QED
      BY <1>1, <2>1, <2>2, CommitsStick DEF Next
  <1>2. IInv /\ [Next]_vars =>
           [\A a \in Account :
              /\ accounts[a].password = "own" => accounts'[a].password # "disabled"
              /\ accounts[a].status = "disabled" => accounts'[a].status = "disabled"]_vars
    BY <1>1 DEF Sticks
  <1>3. QED
    BY <1>2, InvariantHolds, PTL DEF Spec, DecisionsStick

-----------------------------------------------------------------------------
(* What stands for an account's new identity.                                *)
Consents(a) ==
    \/ accounts[a].status = "absent"
    \/ CanAutoLink(accounts[a])
    \/ /\ accounts[a].status = "active"
       /\ accounts[a].password # "temporary"
       /\ LiveSessions(a) # {}

(* A commit gives an identity only where that was agreed to, and is still.   *)
LEMMA CommitsHaveConsent ==
    ASSUME IInv, NEW p \in Process, Commit(p),
           NEW b \in Account, Subjects(b) = {}, Subjects(b)' # {}
    PROVE  Consents(b)
  <1> DEFINE q == request[p]
             a == q.account
             x == q.subject
  <1>1. PICK y \in Subject : identities'[y] = b /\ identities[y] # b
    BY DEF Subjects
  <1>2. ASSUME NEW z \in Subject, NEW c, identities' = [identities EXCEPT ![z] = c]
        PROVE  c = b
    BY <1>1, <1>2 DEF IInv, Types
  <1>3. identities' # identities
    BY <1>1
  <1>4. ASSUME NEW s \in SessionId, LoginKnown(p, s) PROVE FALSE
    <2>1. Committing(p, "finishLogin") /\ q.known /\ "finishLogin" \in AllOps
      BY <1>4 DEF LoginKnown, AllOps, Finishing
    <2>2. x \in Subject /\ identities[x] = a
      BY <2>1, AtCommit DEF Finishing
    <2>3. identities' = [identities EXCEPT ![x] = a]
      BY <1>4 DEF LoginKnown, WriteIdentity
    <2>4. QED
      BY <1>3, <2>2, <2>3 DEF IInv, Types
  <1>5. ASSUME NEW s \in SessionId, LoginFirst(p, s) PROVE Consents(b)
    <2>1. Committing(p, "finishLogin") /\ ~q.known /\ "finishLogin" \in AllOps
      BY <1>5 DEF LoginFirst, AllOps, Finishing
    <2>2. /\ x \in Subject /\ q.user = accounts[a] /\ Holds(p)
          /\ q.op = "finishLogin" /\ q.pc = "commit"
      BY <2>1, AtCommit DEF Finishing
    <2>3. identities' = [identities EXCEPT ![x] = a]
      BY <1>5 DEF LoginFirst, WriteIdentity
    <2>4. a = b
      BY <1>2, <2>2, <2>3
    <2>5. accounts[b] = AbsentUser \/ CanAutoLink(accounts[b])
      BY <2>1, <2>2, <2>4 DEF Holds
    <2>6. QED
      BY <2>5 DEF Consents, AbsentUser
  <1>6. CASE CommitLink(p)
    <2>1. Committing(p, "finishLink") /\ "finishLink" \in AllOps
      BY <1>6 DEF CommitLink, AllOps, Finishing
    <2>2. /\ x \in Subject /\ q.user = accounts[a] /\ Holds(p) /\ Course(q)
          /\ q.op = "finishLink" /\ q.pc = "commit"
      BY <2>1, AtCommit DEF Finishing
    <2>3. identities' = [identities EXCEPT ![x] = a]
      BY <1>6 DEF CommitLink, WriteIdentity
    <2>4. a = b
      BY <1>2, <2>2, <2>3
    <2>5. q.user.password # "temporary" /\ q.user.status = "active" /\ Live(q.session)
      BY <2>2 DEF Holds
    <2>6. q.session \in SessionId /\ sessions[q.session].owner = a
      BY <2>2, <2>5 DEF Holds, Course, Owning
    <2>7. q.session \in LiveSessions(b)
      BY <2>4, <2>5, <2>6 DEF LiveSessions
    <2>8. QED
      BY <2>2, <2>4, <2>5, <2>7 DEF Consents
  <1>7. ASSUME CommitRecovery(p) PROVE FALSE
    <2>1. Committing(p, "recover") /\ "recover" \in AllOps
      BY <1>7 DEF CommitRecovery, AllOps, Administering
    <2>2. x \in Subject
      BY <2>1, AtCommit
    <2>3. identities' = [identities EXCEPT ![x] = None]
      BY <1>7 DEF CommitRecovery
    <2>4. QED
      BY <1>2, <2>2, <2>3, NullAssumption
  <1>8. ASSUME \/ \E s \in SessionId : CommitPassword(p, s)
               \/ CommitCreation(p) \/ CommitPreauthorization(p) \/ CommitReset(p)
               \/ CommitDisable(p) \/ CommitLogout(p)
        PROVE  FALSE
    BY <1>3, <1>8 DEF CommitPassword, CommitCreation, CommitPreauthorization, CommitReset,
                      CommitDisable, CommitLogout
  <1>9. QED
    BY <1>4, <1>5, <1>6, <1>7, <1>8 DEF Commit

(* An account that exists gets an identity only while its temporary password *)
(* and the administrator's permission stand, or while one of its sessions is *)
(* live and no password change is pending.                                   *)
THEOREM IdentitiesHaveConsent == Spec => IdentityNeedsConsent
  <1>1. ASSUME IInv, [Next]_vars, NEW b \in Account, Subjects(b) = {}, Subjects(b)' # {}
        PROVE  Consents(b)
    <2>1. ASSUME UNCHANGED identities PROVE FALSE
      BY <1>1, <2>1 DEF Subjects
    <2>2. ASSUME NEW p \in Process, Arrives(p) \/ Statement(p) \/ Abort(p) PROVE FALSE
      BY <2>1, <2>2, OnlyCommitsWrite
    <2>3. CASE UNCHANGED vars
      BY <2>1, <2>3 DEF vars
    <2>4. QED
      BY <1>1, <2>2, <2>3, CommitsHaveConsent DEF Next
  <1>2. IInv /\ [Next]_vars =>
           [\A a \in Account :
              Subjects(a) = {} /\ Subjects(a)' # {} =>
                  \/ accounts[a].status = "absent"
                  \/ CanAutoLink(accounts[a])
                  \/ /\ accounts[a].status = "active"
                     /\ accounts[a].password # "temporary"
                     /\ LiveSessions(a) # {}]_vars
    BY <1>1 DEF Consents
  <1>3. QED
    BY <1>2, InvariantHolds, PTL DEF Spec, IdentityNeedsConsent

-----------------------------------------------------------------------------
(* What a request that could wait is waiting for.                            *)
LEMMA Waiting ==
    ASSUME IInv, NEW q \in Process, Wants[q] # {}
    PROVE  LET r == request[q]
           IN  \/ r.pc = "subject" /\ \E x \in Subject : x \in Wants[q]
               \/ r.pc = "user" /\ r.account \in Account /\ r.account \in Wants[q]
               \/ r.pc = "create" /\ r.account \in Account /\ r.account \in Wants[q]
               \/ /\ r.pc = "bind" /\ r.subject \in Subject /\ r.subject \in Wants[q]
                  /\ identities[r.subject] = None \/ BeingDeleted(r.subject)
               \/ r.pc = "session" /\ r.session \in SessionId /\ r.session \in Wants[q]
               \/ /\ r.pc = "rows"
                  /\ \E s \in SessionId : s \in Wants[q] /\ Live(s) /\ sessions[s].owner = r.account
  <1> DEFINE r == request[q]
             wants == Wants[q]
  <1>1. r \in Request /\ Course(r) /\ r.op \in AllOps \cup {"none"}
    BY Known
  <1>2. /\ r.pc = "subject" => wants = IF r.op = "recover" THEN Subjects(r.account)
                                      ELSE {x \in {r.subject} : identities[x] # None}
        /\ r.pc = "user" => wants \in {{r.account}, {}}
        /\ r.pc = "create" => wants \in {{r.account}, {}}
        /\ r.pc = "bind" =>
              \/ wants = {}
              \/ /\ wants = {r.subject}
                 /\ identities[r.subject] = None \/ BeingDeleted(r.subject)
        /\ r.pc = "session" => wants = {r.session}
        /\ r.pc = "rows" => wants = Remaining(q)
        /\ r.pc \in {"idle", "owners", "commit"} => wants = {}
    BY DEF Wants
  <1>3. wants # {}
    OBVIOUS
  <1> HIDE DEF wants
  <1>4. CASE r.pc = "subject"
    <2>1. r.op \in {"finishLogin", "recover"}
      BY <1>1, <1>4 DEF Course, AllOps, Finishing, Administering
    <2>2. r.op = "finishLogin" => r.subject \in Subject
      BY <1>1 DEF Course, Finishing
    <2>3. wants \subseteq Subject
      BY <1>2, <1>4, <2>1, <2>2 DEF Subjects
    <2>4. QED
      BY <1>3, <1>4, <2>3 DEF wants
  <1>5. CASE r.pc \in {"user", "create"}
    <2>1. r.account \in Account
      BY <1>1, <1>5 DEF Course
    <2>2. QED
      BY <1>2, <1>3, <1>5, <2>1 DEF wants
  <1>6. CASE r.pc = "bind"
    <2>1. r.op \in Finishing
      BY <1>1, <1>6 DEF Course, AllOps, Finishing, Administering
    <2>2. r.subject \in Subject
      BY <1>1, <2>1 DEF Course
    <2>3. QED
      BY <1>2, <1>3, <1>6, <2>2 DEF wants
  <1>7. CASE r.pc = "session"
    <2>1. r.op \in Owning
      BY <1>1, <1>7 DEF Course, AllOps, Finishing, Administering, Owning
    <2>2. r.session \in SessionId
      BY <1>1, <2>1 DEF Course
    <2>3. QED
      BY <1>2, <1>7, <2>2 DEF wants
  <1>8. CASE r.pc = "rows"
    <2>1. PICK s \in wants : TRUE
      BY <1>3
    <2>2. s \in SessionId /\ Live(s) /\ sessions[s].owner = r.account
      BY <1>2, <1>8, <2>1 DEF Remaining, LiveSessions
    <2>3. QED
      BY <1>8, <2>1, <2>2 DEF wants
  <1>9. r.pc \in Step
    BY <1>1 DEF Request
  <1>10. QED
    BY <1>2, <1>3, <1>4, <1>5, <1>6, <1>7, <1>8, <1>9 DEF Step

(* Nobody is in a group of requests that only wait for each other.  Those    *)
(* who wait for a session hold its account, and so does who holds the        *)
(* session.  Who waits to insert an identity waits for one that commits, or  *)
(* for a recovery that has its account and revokes sessions.  So nobody in   *)
(* the group waits with an account in hand, hence nobody for an account,     *)
(* hence nobody for a subject.                                               *)
LEMMA NobodyIsStuck ==
    ASSUME IInv PROVE NoDeadlock
  <1> SUFFICES ASSUME NEW p \in Process, NEW group \in SUBSET Process, p \in group,
                      \A q \in group :
                         /\ Wants[q] # {}
                         /\ \A l \in Wants[q] : holder[l] \in group \ {q}
               PROVE  FALSE
    BY DEF NoDeadlock, Deadlocked
  <1>1. ASSUME NEW q \in group
        PROVE  LET r == request[q]
               IN  \/ r.pc = "subject" /\ \E x \in Subject : holder[x] \in group \ {q}
                   \/ /\ r.pc \in {"user", "create"}
                      /\ r.account \in Account /\ holder[r.account] \in group \ {q}
                   \/ /\ r.pc = "bind" /\ r.subject \in Subject
                      /\ holder[r.subject] \in group \ {q}
                      /\ identities[r.subject] = None \/ BeingDeleted(r.subject)
                   \/ /\ r.pc = "session" /\ r.session \in SessionId
                      /\ holder[r.session] \in group \ {q}
                   \/ /\ r.pc = "rows"
                      /\ \E s \in SessionId : /\ holder[s] \in group \ {q}
                                              /\ Live(s) /\ sessions[s].owner = r.account
    <2> DEFINE wants == Wants[q]
    <2>1. \A l \in wants : holder[l] \in group \ {q}
      OBVIOUS
    <2>2. q \in Process /\ wants # {}
      OBVIOUS
    <2>3. LET r == request[q]
          IN  \/ r.pc = "subject" /\ \E x \in Subject : x \in wants
              \/ r.pc = "user" /\ r.account \in Account /\ r.account \in wants
              \/ r.pc = "create" /\ r.account \in Account /\ r.account \in wants
              \/ /\ r.pc = "bind" /\ r.subject \in Subject /\ r.subject \in wants
                 /\ identities[r.subject] = None \/ BeingDeleted(r.subject)
              \/ r.pc = "session" /\ r.session \in SessionId /\ r.session \in wants
              \/ /\ r.pc = "rows"
                 /\ \E s \in SessionId : s \in wants /\ Live(s) /\ sessions[s].owner = r.account
      BY <2>2, Waiting
    <2> HIDE DEF wants
    <2>4. QED
      BY <2>1, <2>3
  <1>2. ASSUME NEW q \in group, request[q].pc \in PastUser, NEW s \in SessionId,
               holder[s] \in group \ {q}, sessions[s].owner = request[q].account
        PROVE  FALSE
    <2>1. PICK o \in group : holder[s] = o /\ o # q
      BY <1>2
    <2>2. request[o].pc \in PastUser /\ sessions[s].owner = request[o].account
      BY <2>1, Known DEF Rests, PastUser
    <2>3. holder[request[o].account] = o /\ holder[request[q].account] = q
      BY <1>2, <2>2, Known DEF Holds
    <2>4. QED
      BY <1>2, <2>1, <2>2, <2>3
  <1>3. ASSUME NEW q \in group PROVE request[q].pc \notin {"session", "rows"}
    <2> DEFINE r == request[q]
    <2>1. CASE r.pc = "session"
      <3>1. r.session \in SessionId /\ holder[r.session] \in group \ {q}
        BY <1>1, <2>1
      <3>2. PICK o \in group : holder[r.session] = o
        BY <3>1
      <3>3. Live(r.session)
        BY <3>1, <3>2, Known DEF Rests
      <3>4. r.op \in Owning
        BY <2>1, Known DEF Course, AllOps, Finishing, Administering, Owning
      <3>5. sessions[r.session].owner = r.account
        BY <3>3, <3>4, Known DEF Holds
      <3>6. r.pc \in PastUser
        BY <2>1 DEF PastUser
      <3>7. QED
        BY <1>2, <3>1, <3>5, <3>6
    <2>2. CASE r.pc = "rows"
      <3>1. r.pc \in PastUser
        BY <2>2 DEF PastUser
      <3>2. QED
        BY <1>1, <1>2, <2>2, <3>1
    <2>3. QED
      BY <2>1, <2>2
  <1>4. ASSUME NEW q \in group PROVE request[q].pc # "bind"
    <2> SUFFICES ASSUME request[q].pc = "bind" PROVE FALSE
      OBVIOUS
    <2> DEFINE x == request[q].subject
    <2>1. x \in Subject /\ holder[x] \in group \ {q} /\ (identities[x] = None \/ BeingDeleted(x))
      BY <1>1
    <2>2. PICK o \in group : holder[x] = o
      BY <2>1
    <2>3. /\ request[o].subject = x
          /\ request[o].known \/ request[o].pc = "commit"
      BY <2>1, <2>2, Known DEF Rests
    <2>4. request[o].pc # "commit" /\ request[o].pc \notin {"rows", "commit"}
      BY <1>1, <1>3
    <2>5. request[o].known /\ Course(request[o]) /\ Holds(o)
      BY <2>3, <2>4, Known
    <2>6. identities[x] = request[o].account /\ request[o].account \in Account
      BY <2>3, <2>4, <2>5 DEF Holds, Course
    <2>7. BeingDeleted(x)
      BY <2>1, <2>6, NullAssumption
    <2>8. \E z \in Process : holder[x] = z /\ request[z].pc \in {"rows", "commit"}
      BY <2>1, <2>7, DeletersHold
    <2>9. QED
      BY <2>2, <2>4, <2>8
  <1>5. ASSUME NEW q \in group PROVE request[q].pc \notin {"user", "create"}
    <2> SUFFICES ASSUME request[q].pc \in {"user", "create"} PROVE FALSE
      OBVIOUS
    <2> DEFINE a == request[q].account
    <2>1. a \in Account /\ holder[a] \in group
      BY <1>1
    <2>2. PICK o \in group : holder[a] = o
      BY <2>1
    <2>3. request[o].pc \in PastUser
      BY <2>1, <2>2, Known DEF Rests
    <2>4. request[o].pc \in {"owners", "commit"}
      BY <1>3, <1>4, <2>3 DEF PastUser
    <2>5. QED
      BY <1>1, <2>4
  <1>6. request[p].pc = "subject"
    BY <1>1, <1>3, <1>4, <1>5
  <1>7. PICK x \in Subject : holder[x] \in group
    BY <1>1, <1>6
  <1>8. PICK o \in group : holder[x] = o
    BY <1>7
  <1>9. request[o].known \/ request[o].pc = "commit"
    BY <1>8, Known DEF Rests
  <1>10. request[o].pc \in {"user", "rows", "commit"}
    BY <1>9, Known DEF Course
  <1>11. QED
    BY <1>1, <1>3, <1>5, <1>10

(* The links, logins, recoveries and administration of any number of users   *)
(* never wait for each other in a circle.                                    *)
THEOREM NoCircularWait == Spec => []NoDeadlock
  <1>1. IInv => NoDeadlock
    BY NobodyIsStuck
  <1>2. QED
    BY <1>1, InvariantHolds, PTL

=============================================================================
