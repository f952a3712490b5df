---------------------- MODULE SessionTransactionsProofs ----------------------
(***************************************************************************)
(* Theorems about module SessionTransactions, for every set of requests    *)
(* and sessions, any bound on the clock and every login limit.             *)
(*                                                                         *)
(* While a request holds the account row nobody else commits, not even     *)
(* revoke_user_sessions, which takes no lock on the account before its     *)
(* last statement.  So what the request has read of the account and of the *)
(* committed sessions is so until it ends; what others may still do        *)
(* meanwhile is to lock rows, and to give them up.                         *)
(***************************************************************************)
EXTENDS SessionTransactions, TLAPS

(* The steps of a request that has the account row, if it takes it at all.   *)
Locking == {"row", "decide", "bulk", "insert", "commit"}

(* The statement a request is at belongs to its handler.                     *)
Course(p) ==
    LET r == request[p]
    IN  /\ r.pc = "idle" => r = Idle
        /\ r.pc # "idle" => r.op \in Ops
        /\ r.pc = "user" => r.op \notin {"revokeUserSessions", "authenticate"}
        /\ r.pc = "row" => r.op \in {"refresh", "logout", "changePassword"}
        /\ r.pc = "bulk" => r.op \in {"wrongPassword", "refresh", "logout", "changePassword",
                                      "disable", "revokeUserSessions"}
        /\ r.pc = "insert" => r.op \in {"login", "changePassword"}
        /\ r.pc = "session" <=> r.op = "authenticate" /\ r.pc \notin {"done", "aborted"}
        /\ r.pc \in {"user", "row", "decide", "session"} => ~r.dirty /\ r.targets = {}
        /\ r.pc # "idle" => (r.op \in NeedsToken <=> r.token # NoSession)
        /\ r.token # NoSession => r.token \in Committed
        /\ r.todo \subseteq Committed
        /\ r.now <= clock

(* The copy of the account a request works on, and the lock that keeps it    *)
(* current.                                                                  *)
Copies(p) ==
    LET r == request[p]
    IN  /\ userLock = p <=> r.pc \in Locking /\ r.op # "revokeUserSessions"
        /\ userLock = p =>
              IF r.dirty
              THEN /\ r.op \in {"login", "wrongPassword", "changePassword", "disable", "enable"}
                   /\ r.seen = Effect(r.op, account, r.now)
                   /\ r.op \notin {"disable", "enable"} => CanAuthenticate(account, r.now)
              ELSE r.seen = account
        /\ r.pc \in {"bulk", "insert", "commit"} =>
              /\ r.op \in {"refresh", "logout", "revokeUserSessions"} => ~r.dirty
              /\ r.op \in {"changePassword", "disable", "enable"} => r.dirty
              /\ r.pc = "insert" => r.dirty

(* The rows a request has inserted.                                          *)
Inserted(p) == {s \in SessionId : rowLock[s] = p /\ s \notin Committed}

(* The rows a request has locked, and the ones it has inserted.              *)
Drafts(p) ==
    LET r == request[p]
    IN  /\ \A s \in SessionId : rowLock[s] = p => r.pc \in {"decide", "bulk", "insert", "commit"}
        /\ r.pc = "decide" =>
              /\ r.op \in NeedsToken => rowLock[r.token] = p
              /\ \A s \in SessionId : rowLock[s] = p => s \in Committed /\ draft[s] = sessions[s]
        /\ \A s, t \in Inserted(p) : s = t
        /\ \A s \in Inserted(p) :
              /\ r.pc = "commit" /\ r.op \in {"login", "changePassword", "refresh"}
              /\ r.op # "refresh" => r.dirty /\ draft[s] = NewSession(s)
              /\ r.op = "refresh" =>
                    /\ draft[s] = NewSession(sessions[r.token].family)
                    /\ r.targets = {} /\ CanAuthenticate(account, r.now)
                    /\ rowLock[r.token] = p
                    /\ draft[r.token].used /\ ~draft[r.token].revoked
                    /\ ~sessions[r.token].used

(* A row of the account is revoked, or this request will see to it.          *)
Settled(p, s) ==
    \/ sessions[s].revoked
    \/ request[p].pc = "bulk" /\ s \in request[p].todo
    \/ rowLock[s] = p /\ draft[s].revoked

(* The request takes every session of the account away.                      *)
EndsAll(p) ==
    /\ request[p].pc \in {"bulk", "insert", "commit"}
    /\ \/ request[p].op \in {"disable", "changePassword"}
       \/ /\ request[p].op = "wrongPassword" /\ request[p].dirty
          /\ request[p].seen.lockedUntil # 0

(* What a request's UPDATE is about.                                         *)
Revokes(p) ==
    LET r == request[p]
    IN  /\ EndsAll(p) => \A s \in Committed : Settled(p, s)
        /\ userLock = p => \A s \in Committed : sessions[s].family \in r.targets => Settled(p, s)
        /\ \A s \in r.todo : sessions[s].family \in r.targets
        /\ \A s \in Committed : rowLock[s] = p /\ draft[s].revoked =>
              sessions[s].revoked \/ sessions[s].family \in r.targets
        /\ userLock = p /\ r.targets # {} =>
              \/ EndsAll(p)
              \/ /\ r.op \in {"refresh", "logout"}
                 /\ r.targets = {sessions[r.token].family}
                 /\ ~sessions[r.token].revoked
        /\ \A f \in r.targets : \E s \in Committed : sessions[s].family = f

(* Drafts and rows.                                                          *)
Rows ==
    /\ \A s \in SessionId : rowLock[s] = NoProcess => draft[s] = sessions[s]
    /\ \A s \in SessionId : rowLock[s] # NoProcess => draft[s].family # NoSession
    /\ \A s \in Committed :
          /\ draft[s].family = sessions[s].family
          /\ sessions[s].revoked => draft[s].revoked
          /\ sessions[s].used => draft[s].used
          /\ sessions[s].family \in Committed
          /\ sessions[sessions[s].family].family = sessions[s].family

Types ==
    /\ clock \in 0..MaxTime
    /\ account \in Account
    /\ sessions \in [SessionId -> Session]
    /\ draft \in [SessionId -> Session]
    /\ userLock \in Process \cup {NoProcess}
    /\ rowLock \in [SessionId -> Process \cup {NoProcess}]
    /\ request \in [Process -> Request]
    /\ ended \subseteq SessionId

(* The inductive invariant.                                                  *)
IInv ==
    /\ Types
    /\ Rows
    /\ \A p \in Process : Course(p) /\ Copies(p) /\ Drafts(p) /\ Revokes(p)

-----------------------------------------------------------------------------
(* What the invariant says of one request.                                   *)
Sound(p) == Course(p) /\ Copies(p) /\ Drafts(p) /\ Revokes(p)

(* What handlers write of the account row is a row of it.                    *)
LEMMA EffectType ==
    ASSUME NEW op, NEW row \in Account, NEW now \in Nat
    PROVE  Effect(op, row, now) \in Account
  <1>1. CountFailure(row, now) \in Account
    <2> DEFINE attempts == (IF row.lockedUntil # 0 /\ row.lockedUntil <= now
                            THEN 0 ELSE row.failed) + 1
               until == IF attempts >= MaxAttempts THEN now + Lockout ELSE 0
    <2>1. attempts \in Nat
      BY DEF Account
    <2>2. until \in Nat
      BY LimitsAssumption
    <2>3. CountFailure(row, now) = [row EXCEPT !.failed = attempts, !.lockedUntil = until]
      BY DEF CountFailure
    <2> HIDE DEF attempts, until
    <2>4. QED
      BY <2>1, <2>2, <2>3 DEF Account
  <1>2. QED
    BY <1>1 DEF Effect, Account

(* The types of what a request remembers, one by one.                        *)
LEMMA Fields ==
    ASSUME IInv, NEW p \in Process
    PROVE  /\ request[p] \in Request
           /\ request[p].op \in AllOps \cup {"none"}
           /\ request[p].token \in SessionId \cup {NoSession}
           /\ request[p].pc \in Step
           /\ request[p].now \in Nat
           /\ request[p].seen \in Account
           /\ request[p].dirty \in BOOLEAN
           /\ request[p].todo \subseteq SessionId
           /\ request[p].targets \subseteq SessionId
           /\ p # NoProcess
           /\ clock \in Nat
  BY NullAssumption, LimitsAssumption DEF IInv, Types, Request

(* The rows that are there stay, of their family and, if so, revoked.        *)
RowsStay ==
    \A s \in Committed :
        /\ sessions'[s].family = sessions[s].family
        /\ sessions[s].revoked => sessions'[s].revoked

(* A request does not notice a step that leaves alone what it remembers, its *)
(* locks and what they protect.                                              *)
LEMMA OthersKeep ==
    ASSUME IInv, NEW p \in Process, request'[p] = request[p],
           clock' \in Nat, clock <= clock', RowsStay,
           userLock' = p <=> userLock = p,
           userLock = p => account' = account /\ sessions' = sessions,
           \A s \in SessionId :
              /\ rowLock'[s] = p <=> rowLock[s] = p
              /\ rowLock[s] = p => draft'[s] = draft[s] /\ sessions'[s] = sessions[s]
    PROVE  Sound(p)'
  <1> DEFINE r == request[p]
  <1>1. Course(p) /\ Copies(p) /\ Drafts(p) /\ Revokes(p)
    BY DEF IInv
  <1>2. \A s \in Committed : s \in Committed' /\ s \in SessionId
    BY DEF RowsStay, Committed
  <1>3. Course(p)'
    <2>1. r.now \in Nat /\ clock \in Nat
      BY Fields
    <2>2. QED
      BY <1>1, <1>2, <2>1 DEF Course
  <1>4. Copies(p)'
    BY <1>1 DEF Copies
  <1>5. Inserted(p)' = Inserted(p)
    BY DEF Inserted, Committed
  <1>6. \A s \in Inserted(p) : userLock = p
    BY <1>1 DEF Drafts, Copies, Locking, Inserted
  <1>7. Drafts(p)'
    <2>1. \A s \in SessionId : rowLock[s] = p =>
             draft'[s] = draft[s] /\ (s \in Committed => s \in Committed')
      BY <1>2
    <2>2. \A s \in Inserted(p) : s \in SessionId /\ rowLock[s] = p
      BY DEF Inserted
    <2>3. ASSUME r.pc = "decide"
          PROVE  /\ r.op \in NeedsToken => rowLock'[r.token] = p
                 /\ \A s \in SessionId : rowLock'[s] = p =>
                      s \in Committed' /\ draft'[s] = sessions'[s]
      <3>1. r.op \in NeedsToken => r.token \in SessionId
        BY <1>1, <1>2, <2>3 DEF Course
      <3>2. QED
        BY <1>1, <1>2, <2>3, <3>1 DEF Drafts
    <2>4. ASSUME NEW s \in Inserted(p)
          PROVE  /\ r.pc = "commit" /\ r.op \in {"login", "changePassword", "refresh"}
                 /\ r.op # "refresh" => r.dirty /\ draft'[s] = NewSession(s)
                 /\ r.op = "refresh" =>
                      /\ draft'[s] = NewSession(sessions'[r.token].family)
                      /\ r.targets = {} /\ CanAuthenticate(account', r.now)
                      /\ rowLock'[r.token] = p
                      /\ draft'[r.token].used /\ ~draft'[r.token].revoked
                      /\ ~sessions'[r.token].used
      <3>1. userLock = p /\ account' = account /\ sessions' = sessions
        BY <1>6, <2>4
      <3>2. draft'[s] = draft[s]
        BY <2>1, <2>2, <2>4
      <3>3. r.op = "refresh" => r.token \in SessionId
        BY <1>1, <1>2, <2>4 DEF Course, Drafts, NeedsToken
      <3>4. QED
        BY <1>1, <2>4, <3>1, <3>2, <3>3 DEF Drafts
    <2>5. QED
      BY <1>1, <1>5, <2>3, <2>4 DEF Drafts
  <1>8. Revokes(p)'
    <2>1. EndsAll(p)' <=> EndsAll(p)
      BY DEF EndsAll
    <2>2. EndsAll(p) => userLock = p
      BY <1>1 DEF EndsAll, Copies, Locking
    <2>3. userLock = p => Committed' = Committed /\ \A s \in Committed : Settled(p, s)' <=> Settled(p, s)
      BY <1>2 DEF Settled, Committed
    <2>4. \A s \in r.todo : s \in Committed
      BY <1>1 DEF Course
    <2>5. ASSUME NEW s \in Committed', rowLock'[s] = p, draft'[s].revoked
          PROVE  sessions'[s].revoked \/ sessions'[s].family \in r.targets
      <3>1. s \in SessionId /\ s \in Committed
        BY <2>5 DEF Committed
      <3>2. QED
        BY <1>1, <2>5, <3>1 DEF Revokes
    <2>6. userLock' = p /\ r.targets # {} =>
            \/ EndsAll(p)
            \/ /\ r.op \in {"refresh", "logout"}
               /\ r.targets = {sessions'[r.token].family}
               /\ ~sessions'[r.token].revoked
      BY <1>1 DEF Revokes
    <2>7. \A f \in r.targets : \E s \in Committed' : sessions'[s].family = f
      BY <1>1, <1>2 DEF Revokes, RowsStay
    <2>8. \A s \in r.todo : sessions'[s].family \in r.targets
      BY <1>1, <2>4 DEF Revokes, RowsStay
    <2>9. QED
      BY <1>1, <2>1, <2>2, <2>3, <2>5, <2>6, <2>7, <2>8 DEF Revokes
  <1>9. QED
    BY <1>3, <1>4, <1>7, <1>8 DEF Sound

(* A step that only changes what a request remembers keeps the invariant if  *)
(* it does for that request.                                                 *)
Thinks(p, r) ==
    /\ request' = [request EXCEPT ![p] = r]
    /\ UNCHANGED <<clock, account, sessions, draft, userLock, rowLock>>

LEMMA OnlyRequest ==
    ASSUME IInv, NEW p \in Process, NEW r \in Request, Thinks(p, r),
           ended' \subseteq SessionId, Sound(p)'
    PROVE  IInv'
  <1>1. Types'
    BY DEF IInv, Types, Thinks
  <1>2. Rows'
    BY DEF IInv, Rows, Thinks, Committed
  <1>3. ASSUME NEW q \in Process, q # p PROVE Sound(q)'
    <2>1. request'[q] = request[q]
      BY <1>3 DEF Thinks, IInv, Types
    <2>2. RowsStay
      BY DEF RowsStay, Thinks
    <2>3. clock' = clock /\ clock \in Nat
      BY Fields DEF Thinks
    <2>4. QED
      BY <2>1, <2>2, <2>3, OthersKeep DEF Thinks
  <1>4. QED
    BY <1>1, <1>2, <1>3 DEF IInv, Sound

-----------------------------------------------------------------------------
(* Statements that change no row.                                            *)

(* A request that has what it needs and has changed nothing yet sees what is *)
(* committed.                                                                *)
LEMMA SeenAtDecision ==
    ASSUME IInv, NEW p \in Process, request[p].pc = "decide"
    PROVE  /\ \A s \in SessionId : Visible(p, s) = sessions[s]
           /\ Unrevoked(p) = {s \in Committed : ~sessions[s].revoked}
           /\ request[p].op \in NeedsToken =>
                 /\ request[p].token \in Committed
                 /\ draft[request[p].token] = sessions[request[p].token]
                 /\ FamilyOf(p) = {s \in Committed :
                       /\ ~sessions[s].revoked
                       /\ sessions[s].family = sessions[request[p].token].family}
           /\ ~request[p].dirty /\ request[p].targets = {}
           /\ Inserted(p) = {}
           /\ userLock = p => request[p].seen = account
           /\ userLock = p <=> request[p].op # "revokeUserSessions"
           /\ request[p].op \in Ops
  <1>1. Course(p) /\ Copies(p) /\ Drafts(p)
    BY DEF IInv
  <1>2. \A s \in SessionId : Visible(p, s) = sessions[s]
    BY <1>1 DEF Drafts, Visible
  <1>3. Unrevoked(p) = {s \in Committed : ~sessions[s].revoked}
    BY <1>2 DEF Unrevoked, Committed
  <1>4. ~request[p].dirty /\ request[p].targets = {} /\ request[p].op \in Ops
    BY <1>1 DEF Course
  <1>5. ASSUME request[p].op \in NeedsToken
        PROVE  /\ request[p].token \in Committed
               /\ draft[request[p].token] = sessions[request[p].token]
               /\ FamilyOf(p) = {s \in Committed :
                     /\ ~sessions[s].revoked
                     /\ sessions[s].family = sessions[request[p].token].family}
    <2>1. request[p].token \in Committed
      BY <1>1, <1>5 DEF Course
    <2>2. request[p].token \in SessionId
      BY <2>1 DEF Committed
    <2>3. draft[request[p].token] = sessions[request[p].token]
      BY <1>1, <1>5, <2>2 DEF Drafts
    <2>4. QED
      BY <1>2, <1>3, <2>1, <2>2, <2>3 DEF FamilyOf, Committed
  <1>6. Inserted(p) = {}
    BY <1>1 DEF Drafts, Inserted
  <1>7. userLock = p => request[p].seen = account
    BY <1>1, <1>4 DEF Copies
  <1>8. userLock = p <=> request[p].op # "revokeUserSessions"
    BY <1>1 DEF Copies, Locking
  <1>9. QED
    BY <1>2, <1>3, <1>4, <1>5, <1>6, <1>7, <1>8

(* An UPDATE begins, of the family of a live token or of all the sessions.   *)
LEMMA UpdateStarts ==
    ASSUME IInv, NEW p \in Process, request[p].pc = "decide",
           UNCHANGED <<clock, account, sessions, draft, userLock, rowLock, ended>>,
           NEW rows, NEW seen \in Account, NEW dirty \in BOOLEAN,
           StartUpdate(p, rows, seen, dirty),
           \/ /\ request[p].op \in {"refresh", "logout"}
              /\ rows = FamilyOf(p) /\ ~sessions[request[p].token].revoked
              /\ ~dirty /\ seen = request[p].seen
           \/ /\ request[p].op = "revokeUserSessions"
              /\ rows = Unrevoked(p) /\ ~dirty /\ seen = request[p].seen
           \/ /\ request[p].op \in {"wrongPassword", "changePassword", "disable"}
              /\ rows = Unrevoked(p) /\ dirty
              /\ seen = Effect(request[p].op, account, request[p].now)
              /\ request[p].op # "disable" => CanAuthenticate(account, request[p].now)
              /\ request[p].op = "wrongPassword" => seen.lockedUntil # 0
    PROVE  IInv'
  <1> DEFINE q == request[p]
             targets == {Visible(p, s).family : s \in rows}
             r == [q EXCEPT !.pc = "bulk", !.todo = rows, !.seen = seen, !.dirty = dirty,
                            !.targets = targets]
  <1>1. Course(p) /\ Copies(p) /\ Drafts(p) /\ Revokes(p) /\ Rows
    BY DEF IInv
  <1>2. rows \subseteq Committed
    BY SeenAtDecision DEF NeedsToken
  <1>3. targets = {sessions[s].family : s \in rows}
    BY <1>2, SeenAtDecision DEF Committed
  <1>4. targets \subseteq SessionId /\ Committed \subseteq SessionId
    BY <1>1, <1>2, <1>3 DEF Rows, Committed
  <1> HIDE DEF targets
  <1>5. r \in Request
    BY <1>2, <1>4, Fields DEF Request, Step
  <1>6. request' = [request EXCEPT ![p] = r]
    BY DEF StartUpdate, targets
  <1>7. request'[p] = r /\ Thinks(p, r)
    BY <1>6 DEF Thinks, IInv, Types
  <1>8. /\ r.op = q.op /\ r.token = q.token /\ r.pc = "bulk" /\ r.now = q.now /\ r.seen = seen
        /\ r.dirty = dirty /\ r.todo = rows /\ r.targets = targets
    BY Fields DEF Request
  <1> HIDE DEF r
  <1>9. Course(p)'
    BY <1>1, <1>2, <1>7, <1>8 DEF Course, Committed, NeedsToken
  <1>10. Copies(p)'
    BY <1>1, <1>7, <1>8, SeenAtDecision DEF Copies, Locking
  <1>11. Drafts(p)'
    BY <1>1, <1>7, <1>8, SeenAtDecision DEF Drafts, Inserted, Committed
  <1>12. Revokes(p)'
    <2>1. EndsAll(p)' => rows = Unrevoked(p)
      BY <1>7, <1>8 DEF EndsAll
    <2>2. rows = Unrevoked(p) => \A s \in Committed : Settled(p, s)'
      BY <1>7, <1>8, SeenAtDecision DEF Settled
    <2>3. ASSUME rows = FamilyOf(p), q.op \in {"refresh", "logout"},
                 ~sessions[q.token].revoked
          PROVE  /\ targets = {sessions[q.token].family}
                 /\ \A s \in Committed : sessions[s].family \in targets => Settled(p, s)'
      <3>1. q.token \in Committed /\ q.token \in rows
            /\ rows = {s \in Committed : /\ ~sessions[s].revoked
                                         /\ sessions[s].family = sessions[q.token].family}
        BY <2>3, SeenAtDecision DEF NeedsToken
      <3>2. targets = {sessions[q.token].family}
        BY <1>3, <3>1
      <3>3. QED
        BY <1>7, <1>8, <3>1, <3>2 DEF Settled
    <2>4. \A s \in Committed : rowLock[s] = p /\ draft[s].revoked => sessions[s].revoked
      BY <1>1, <1>4 DEF Drafts
    <2>5. q.op \in {"refresh", "logout"} \/ EndsAll(p)' \/ q.op = "revokeUserSessions"
      BY <1>7, <1>8 DEF EndsAll
    <2>6. userLock = p => q.op # "revokeUserSessions"
      BY SeenAtDecision
    <2>7. /\ \A s \in rows : sessions[s].family \in targets
          /\ \A f \in targets : \E s \in Committed : sessions[s].family = f
      BY <1>2, <1>3
    <2>8. Committed' = Committed
      BY DEF Committed
    <2>9. QED
      BY <1>7, <1>8, <2>1, <2>2, <2>3, <2>4, <2>5, <2>6, <2>7, <2>8 DEF Revokes
  <1>13. QED
    BY <1>5, <1>7, <1>9, <1>10, <1>11, <1>12, OnlyRequest DEF Sound, IInv, Types

(* A decision that revokes nothing.                                          *)
LEMMA Decides ==
    ASSUME IInv, NEW p \in Process, request[p].pc = "decide",
           UNCHANGED <<clock, account, sessions, draft, userLock, rowLock, ended>>,
           NEW pc \in {"insert", "commit"}, NEW seen \in Account, NEW dirty \in BOOLEAN,
           request' = [request EXCEPT ![p].pc = pc, ![p].seen = seen, ![p].dirty = dirty],
           \/ /\ request[p].op \in {"login", "wrongPassword", "refresh", "logout"}
              /\ pc = "commit" /\ ~dirty /\ seen = request[p].seen
           \/ /\ dirty /\ seen = Effect(request[p].op, account, request[p].now)
              /\ \/ /\ request[p].op = "login" /\ pc = "insert"
                    /\ CanAuthenticate(account, request[p].now)
                 \/ /\ request[p].op = "wrongPassword" /\ pc = "commit"
                    /\ CanAuthenticate(account, request[p].now)
                    /\ seen.lockedUntil = 0
                 \/ request[p].op = "enable" /\ pc = "commit"
    PROVE  IInv'
  <1> DEFINE q == request[p]
             r == [q EXCEPT !.pc = pc, !.seen = seen, !.dirty = dirty]
  <1>1. Course(p) /\ Copies(p) /\ Drafts(p) /\ Revokes(p) /\ Rows
    BY DEF IInv
  <1>2. r \in Request
    BY Fields DEF Request, Step
  <1>3. request' = [request EXCEPT ![p] = r]
    OBVIOUS
  <1>4. request'[p] = r /\ Thinks(p, r)
    BY <1>3 DEF Thinks, IInv, Types
  <1>5. /\ r.op = q.op /\ r.token = q.token /\ r.pc = pc /\ r.now = q.now /\ r.seen = seen
        /\ r.dirty = dirty /\ r.todo = q.todo /\ r.targets = q.targets
    BY Fields DEF Request
  <1> HIDE DEF r
  <1>6. Course(p)'
    BY <1>1, <1>4, <1>5 DEF Course, Committed, NeedsToken
  <1>7. Copies(p)'
    BY <1>1, <1>4, <1>5, SeenAtDecision DEF Copies, Locking
  <1>8. Drafts(p)'
    BY <1>1, <1>4, <1>5, SeenAtDecision DEF Drafts, Inserted, Committed
  <1>9. Revokes(p)'
    <2>1. ~EndsAll(p)'
      BY <1>4, <1>5 DEF EndsAll
    <2>2. q.targets = {}
      BY SeenAtDecision
    <2>3. \A s \in Committed : rowLock[s] = p /\ draft[s].revoked => sessions[s].revoked
      BY <1>1 DEF Drafts, Committed
    <2>4. q.todo = {}
      BY <1>1, <2>2 DEF Revokes
    <2>5. QED
      BY <1>4, <1>5, <2>1, <2>2, <2>3, <2>4 DEF Revokes, Committed
  <1>10. QED
    BY <1>2, <1>4, <1>6, <1>7, <1>8, <1>9, OnlyRequest DEF Sound, IInv, Types

(* A request arrives.                                                        *)
LEMMA BeginKeeps ==
    ASSUME IInv, NEW p \in Process, NEW op \in Ops, NEW token \in SessionId \cup {NoSession},
           Begin(p, op, token)
    PROVE  IInv'
  <1> DEFINE q == request[p]
             pc == IF op = "logout" /\ sessions[token].revoked THEN "done" ELSE FirstWait(op)
             r == [q EXCEPT !.op = op, !.token = token, !.now = clock, !.seen = account,
                            !.pc = pc]
  <1>1. q = Idle /\ q.pc = "idle" /\ Copies(p) /\ Drafts(p) /\ Rows
    BY DEF Begin, IInv, Course
  <1>2. op \in AllOps
    BY OpsAssumption
  <1>3. pc \in {"done", "user", "decide", "session"}
        /\ (pc = "decide" => op = "revokeUserSessions")
        /\ (pc = "user" => op \notin {"revokeUserSessions", "authenticate"})
        /\ (pc = "session" <=> op = "authenticate")
    BY DEF FirstWait
  <1> HIDE DEF pc
  <1>4. r \in Request
    BY <1>2, <1>3, Fields DEF Request, Step, IInv, Types
  <1>5. request' = [request EXCEPT ![p] = r]
    BY DEF Begin, pc
  <1>6. request'[p] = r /\ Thinks(p, r) /\ UNCHANGED ended
    BY <1>5 DEF Begin, Thinks, IInv, Types
  <1>7. /\ r.op = op /\ r.token = token /\ r.pc = pc /\ r.now = clock /\ r.seen = account
        /\ ~r.dirty /\ r.todo = {} /\ r.targets = {}
    BY <1>1, Fields DEF Request, Idle
  <1> HIDE DEF r
  <1>8. IF op \in NeedsToken THEN token \in Committed ELSE token = NoSession
    BY DEF Begin
  <1>9. Course(p)'
    <2>1. token \in Committed => token # NoSession
      BY NullAssumption DEF Committed
    <2>2. clock <= clock
      BY Fields
    <2>3. op = "authenticate" => op \in NeedsToken
      BY DEF NeedsToken
    <2>4. Committed' = Committed
      BY <1>6 DEF Thinks, Committed
    <2>5. QED
      BY <1>3, <1>6, <1>7, <1>8, <2>1, <2>2, <2>3, <2>4 DEF Course, Thinks
  <1>10. userLock # p /\ \A s \in SessionId : rowLock[s] # p
    BY <1>1 DEF Copies, Drafts, Locking
  <1>11. Copies(p)'
    BY <1>3, <1>6, <1>7, <1>10 DEF Copies, Locking, Thinks
  <1>12. Drafts(p)'
    BY <1>3, <1>6, <1>7, <1>10 DEF Drafts, Inserted, Thinks, NeedsToken
  <1>13. Revokes(p)'
    BY <1>3, <1>6, <1>7, <1>10 DEF Revokes, EndsAll, Thinks, Committed
  <1>14. QED
    BY <1>4, <1>6, <1>9, <1>11, <1>12, <1>13, OnlyRequest DEF Sound, IInv, Types

(* authenticate has read the session, too.                                   *)
LEMMA AuthenticateKeeps ==
    ASSUME IInv, NEW p \in Process, AuthenticateReadsSession(p)
    PROVE  IInv'
  <1> DEFINE q == request[p]
             accepted == Standing(p) /\ ~sessions[q.token].revoked
             r == [q EXCEPT !.accepted = accepted, !.pc = "done"]
  <1>1. Course(p) /\ Copies(p) /\ Drafts(p) /\ Revokes(p) /\ Rows
    BY DEF IInv
  <1>2. q.pc = "session" /\ request' = [request EXCEPT ![p] = r]
    BY DEF AuthenticateReadsSession
  <1>3. accepted \in BOOLEAN
    BY DEF Standing, CanAuthenticate
  <1> HIDE DEF accepted
  <1>4. r \in Request
    BY <1>3, Fields DEF Request, Step
  <1>5. request'[p] = r /\ Thinks(p, r) /\ UNCHANGED ended
    BY <1>2 DEF AuthenticateReadsSession, UnchangedTables, Thinks, IInv, Types
  <1>6. /\ r.op = q.op /\ r.token = q.token /\ r.pc = "done" /\ r.now = q.now
        /\ r.todo = q.todo /\ r.targets = q.targets
    BY Fields DEF Request
  <1> HIDE DEF r
  <1>7. userLock # p /\ \A s \in SessionId : rowLock[s] # p
    BY <1>1, <1>2 DEF Copies, Drafts, Locking
  <1>8. Committed' = Committed
    BY <1>5 DEF Thinks, Committed
  <1>9. Course(p)'
    BY <1>1, <1>2, <1>5, <1>6, <1>8 DEF Course, Thinks
  <1>10. Copies(p)'
    BY <1>5, <1>6, <1>7 DEF Copies, Locking, Thinks
  <1>11. Drafts(p)'
    BY <1>5, <1>6, <1>7 DEF Drafts, Inserted, Thinks
  <1>12. Revokes(p)'
    <2>1. ~EndsAll(p)'
      BY <1>5, <1>6 DEF EndsAll
    <2>2. \A s \in SessionId : rowLock'[s] # p
      BY <1>5, <1>7 DEF Thinks
    <2>3. QED
      BY <1>1, <1>5, <1>6, <1>7, <1>8, <2>1, <2>2 DEF Revokes, Thinks, Committed
  <1>13. QED
    BY <1>4, <1>5, <1>9, <1>10, <1>11, <1>12, OnlyRequest DEF Sound, IInv, Types

(* An UPDATE has visited all its rows.                                       *)
LEMMA EndUpdateKeeps ==
    ASSUME IInv, NEW p \in Process, EndUpdate(p)
    PROVE  IInv'
  <1> DEFINE q == request[p]
             pc == IF q.op = "changePassword" THEN "insert" ELSE "commit"
             r == [q EXCEPT !.pc = pc]
  <1>1. Course(p) /\ Copies(p) /\ Drafts(p) /\ Revokes(p) /\ Rows
    BY DEF IInv
  <1>2. q.pc = "bulk" /\ q.todo = {} /\ request' = [request EXCEPT ![p] = r]
    BY DEF EndUpdate, Goto
  <1>3. pc \in {"insert", "commit"} /\ (pc = "insert" <=> q.op = "changePassword")
    OBVIOUS
  <1> HIDE DEF pc
  <1>4. r \in Request
    BY <1>3, Fields DEF Request, Step
  <1>5. request'[p] = r /\ Thinks(p, r) /\ UNCHANGED ended
    BY <1>2 DEF EndUpdate, Thinks, IInv, Types
  <1>6. /\ r.op = q.op /\ r.token = q.token /\ r.pc = pc /\ r.now = q.now /\ r.seen = q.seen
        /\ r.dirty = q.dirty /\ r.todo = q.todo /\ r.targets = q.targets
    BY Fields DEF Request
  <1> HIDE DEF r
  <1>7. Committed' = Committed /\ Inserted(p)' = Inserted(p) /\ Inserted(p) = {}
    BY <1>1, <1>2, <1>5 DEF Thinks, Committed, Inserted, Drafts
  <1>8. Course(p)'
    BY <1>1, <1>2, <1>3, <1>5, <1>6, <1>7 DEF Course, Thinks
  <1>9. Copies(p)'
    BY <1>1, <1>2, <1>3, <1>5, <1>6 DEF Copies, Locking, Thinks
  <1>10. Drafts(p)'
    BY <1>1, <1>2, <1>3, <1>5, <1>6, <1>7 DEF Drafts, Thinks
  <1>11. Revokes(p)'
    <2>1. EndsAll(p)' <=> EndsAll(p)
      BY <1>2, <1>3, <1>5, <1>6 DEF EndsAll
    <2>2. \A s \in Committed : Settled(p, s) => Settled(p, s)'
      BY <1>2, <1>5 DEF Settled, Thinks
    <2>3. QED
      BY <1>1, <1>5, <1>6, <1>7, <2>1, <2>2 DEF Revokes, Thinks
  <1>12. QED
    BY <1>4, <1>5, <1>8, <1>9, <1>10, <1>11, OnlyRequest DEF Sound, IInv, Types

(* The decisions that change no row.                                         *)
LEMMA DecisionsKeep ==
    ASSUME IInv, NEW p \in Process,
           \/ Login(p) \/ WrongPassword(p) \/ RefreshRefused(p)
           \/ \E expired \in BOOLEAN : RefreshEndsFamily(p, expired)
           \/ Logout(p) \/ ChangePassword(p) \/ Disable(p) \/ Enable(p)
           \/ RevokeUserSessions(p)
    PROVE  IInv'
  <1> DEFINE q == request[p]
  <1>1. q.pc = "decide"
        /\ UNCHANGED <<clock, account, sessions, draft, userLock, rowLock, ended>>
    BY DEF Login, WrongPassword, RefreshRefused, RefreshEndsFamily, Logout, ChangePassword,
           Disable, Enable, RevokeUserSessions, Deciding, UnchangedTables
  <1>2. q.seen \in Account /\ q.dirty \in BOOLEAN /\ Updated(p) \in Account /\ ~q.dirty
    BY <1>1, Fields, EffectType, SeenAtDecision DEF Updated
  <1>3. q.op # "revokeUserSessions" =>
           /\ Updated(p) = Effect(q.op, account, q.now)
           /\ Standing(p) <=> CanAuthenticate(account, q.now)
    BY <1>1, SeenAtDecision DEF Updated, Standing
  <1>4. ASSUME q.op \in {"login", "wrongPassword", "refresh", "logout"}, Goto(p, "commit")
        PROVE  IInv'
    <2>1. request' = [request EXCEPT ![p].pc = "commit", ![p].seen = q.seen, ![p].dirty = q.dirty]
      BY <1>4, Fields DEF Goto, IInv, Types, Request
    <2>2. QED
      BY <1>1, <1>2, <1>4, <2>1, Decides
  <1>5. CASE Login(p)
    <2>1. q.op = "login"
      BY <1>5 DEF Login, Deciding
    <2>2. CASE Standing(p)
      <3>1. request' = [request EXCEPT ![p].pc = "insert", ![p].seen = Updated(p), ![p].dirty = TRUE]
        BY <1>5, <2>2 DEF Login
      <3>2. QED
        BY <1>1, <1>2, <1>3, <2>1, <2>2, <3>1, Decides
    <2>3. CASE ~Standing(p)
      BY <1>4, <1>5, <2>1, <2>3 DEF Login, Goto
    <2>4. QED
      BY <2>2, <2>3
  <1>6. CASE WrongPassword(p)
    <2>1. q.op = "wrongPassword"
      BY <1>6 DEF WrongPassword, Deciding
    <2>2. CASE ~Standing(p)
      BY <1>4, <1>6, <2>1, <2>2 DEF WrongPassword
    <2>3. CASE Standing(p) /\ Updated(p).lockedUntil # 0
      <3>1. StartUpdate(p, Unrevoked(p), Updated(p), TRUE)
        BY <1>6, <2>3 DEF WrongPassword
      <3>2. QED
        BY <1>1, <1>2, <1>3, <2>1, <2>3, <3>1, UpdateStarts
    <2>4. CASE Standing(p) /\ Updated(p).lockedUntil = 0
      <3>1. request' = [request EXCEPT ![p].pc = "commit", ![p].seen = Updated(p), ![p].dirty = TRUE]
        BY <1>6, <2>4 DEF WrongPassword
      <3>2. QED
        BY <1>1, <1>2, <1>3, <2>1, <2>4, <3>1, Decides
    <2>5. QED
      BY <2>2, <2>3, <2>4
  <1>7. CASE RefreshRefused(p)
    BY <1>4, <1>7 DEF RefreshRefused, Deciding
  <1>8. CASE \E expired \in BOOLEAN : RefreshEndsFamily(p, expired)
    <2>1. /\ q.op = "refresh" /\ ~draft[q.token].revoked
          /\ StartUpdate(p, FamilyOf(p), q.seen, FALSE)
      BY <1>8 DEF RefreshEndsFamily, Deciding
    <2>2. ~sessions[q.token].revoked
      BY <1>1, <2>1, SeenAtDecision DEF NeedsToken
    <2>3. QED
      BY <1>1, <1>2, <2>1, <2>2, UpdateStarts
  <1>9. CASE Logout(p)
    <2>1. q.op = "logout"
      BY <1>9 DEF Logout, Deciding
    <2>2. CASE draft[q.token].revoked
      BY <1>4, <1>9, <2>1, <2>2 DEF Logout
    <2>3. CASE ~draft[q.token].revoked
      <3>1. ~sessions[q.token].revoked
        BY <1>1, <2>1, <2>3, SeenAtDecision DEF NeedsToken
      <3>2. StartUpdate(p, FamilyOf(p), q.seen, FALSE)
        BY <1>9, <2>3 DEF Logout
      <3>3. QED
        BY <1>1, <1>2, <2>1, <3>1, <3>2, UpdateStarts
    <2>4. QED
      BY <2>2, <2>3
  <1>10. CASE ChangePassword(p)
    <2>1. q.op = "changePassword" /\ Standing(p)
          /\ StartUpdate(p, Unrevoked(p), Updated(p), TRUE)
      BY <1>10 DEF ChangePassword, Deciding
    <2>2. QED
      BY <1>1, <1>2, <1>3, <2>1, UpdateStarts
  <1>11. CASE Disable(p)
    <2>1. q.op = "disable" /\ StartUpdate(p, Unrevoked(p), Updated(p), TRUE)
      BY <1>11 DEF Disable, Deciding
    <2>2. QED
      BY <1>1, <1>2, <1>3, <2>1, UpdateStarts
  <1>12. CASE Enable(p)
    <2>1. q.op = "enable"
          /\ request' = [request EXCEPT ![p].pc = "commit", ![p].seen = Updated(p), ![p].dirty = TRUE]
      BY <1>12 DEF Enable, Deciding
    <2>2. QED
      BY <1>1, <1>2, <1>3, <2>1, Decides
  <1>13. CASE RevokeUserSessions(p)
    <2>1. q.op = "revokeUserSessions" /\ StartUpdate(p, Unrevoked(p), q.seen, FALSE)
      BY <1>13 DEF RevokeUserSessions, Deciding
    <2>2. QED
      BY <1>1, <1>2, <2>1, UpdateStarts
  <1>14. QED
    BY <1>5, <1>6, <1>7, <1>8, <1>9, <1>10, <1>11, <1>12, <1>13

-----------------------------------------------------------------------------
(* Statements that take locks.                                               *)

(* A step of p that commits nothing, and takes no lock of another.           *)
LEMMA OnlyOwnLocks ==
    ASSUME IInv, NEW p \in Process, NEW r \in Request,
           request' = [request EXCEPT ![p] = r],
           UNCHANGED <<clock, account, sessions, ended>>,
           userLock' \in Process \cup {NoProcess},
           rowLock' \in [SessionId -> Process \cup {NoProcess}],
           draft' \in [SessionId -> Session],
           userLock' # userLock => {userLock, userLock'} \subseteq {p, NoProcess},
           \A s \in SessionId :
              /\ rowLock'[s] # rowLock[s] => {rowLock[s], rowLock'[s]} \subseteq {p, NoProcess}
              /\ draft'[s] # draft[s] => rowLock[s] \in {p, NoProcess},
           Rows', request'[p] = r => Sound(p)'
    PROVE  IInv'
  <1>1. request'[p] = r
    BY DEF IInv, Types
  <1>2. Types'
    BY DEF IInv, Types
  <1>3. ASSUME NEW q \in Process, q # p PROVE Sound(q)'
    <2>1. request'[q] = request[q]
      BY <1>3 DEF IInv, Types
    <2>2. RowsStay /\ clock' = clock /\ clock \in Nat /\ q # NoProcess
      BY Fields DEF RowsStay
    <2>3. userLock' = q <=> userLock = q
      BY <1>3, <2>2
    <2>4. \A s \in SessionId :
             /\ rowLock'[s] = q <=> rowLock[s] = q
             /\ rowLock[s] = q => draft'[s] = draft[s] /\ sessions'[s] = sessions[s]
      BY <1>3, <2>2
    <2>5. QED
      BY <2>1, <2>2, <2>3, <2>4, OthersKeep
  <1>4. QED
    BY <1>1, <1>2, <1>3 DEF IInv, Sound

(* The account row, and what it says now.                                    *)
LEMMA LockUserKeeps ==
    ASSUME IInv, NEW p \in Process, LockUser(p)
    PROVE  IInv'
  <1> DEFINE q == request[p]
             pc == IF q.op \in NeedsToken THEN "row" ELSE "decide"
             r == [q EXCEPT !.seen = account, !.pc = pc]
  <1>1. Course(p) /\ Copies(p) /\ Drafts(p) /\ Revokes(p) /\ Rows
    BY DEF IInv
  <1>2. q.pc = "user" /\ userLock = NoProcess /\ request' = [request EXCEPT ![p] = r]
        /\ UNCHANGED <<clock, account, sessions, draft, rowLock, ended>> /\ userLock' = p
    BY DEF LockUser
  <1>3. pc \in {"row", "decide"} /\ (pc = "row" <=> q.op \in NeedsToken)
    OBVIOUS
  <1> HIDE DEF pc
  <1>4. r \in Request
    BY <1>3, Fields DEF Request, Step, IInv, Types
  <1>5. /\ r.op = q.op /\ r.token = q.token /\ r.pc = pc /\ r.now = q.now /\ r.seen = account
        /\ r.dirty = q.dirty /\ r.todo = q.todo /\ r.targets = q.targets
    BY Fields DEF Request
  <1> HIDE DEF r
  <1>6. ASSUME request'[p] = r PROVE Sound(p)'
    <2>1. Committed' = Committed
      BY <1>2 DEF Committed
    <2>2. \A s \in SessionId : rowLock'[s] # p
      BY <1>1, <1>2 DEF Drafts
    <2>3. Course(p)'
      BY <1>1, <1>2, <1>3, <1>5, <1>6, <2>1 DEF Course, NeedsToken
    <2>4. Copies(p)'
      BY <1>1, <1>2, <1>3, <1>5, <1>6 DEF Copies, Course, Locking
    <2>5. Drafts(p)'
      BY <1>2, <1>3, <1>5, <1>6, <2>2 DEF Drafts, Inserted
    <2>6. Revokes(p)'
      <3>1. q.targets = {} /\ ~EndsAll(p)'
        BY <1>1, <1>2, <1>3, <1>5, <1>6 DEF Course, EndsAll
      <3>2. \A s \in Committed : rowLock'[s] # p
        BY <2>2 DEF Committed
      <3>3. QED
        BY <1>1, <1>2, <1>5, <1>6, <2>1, <3>1, <3>2 DEF Revokes
    <2>7. QED
      BY <2>3, <2>4, <2>5, <2>6 DEF Sound
  <1>7. Rows'
    BY <1>1, <1>2 DEF Rows, Committed
  <1>8. QED
    BY <1>2, <1>4, <1>6, <1>7, OnlyOwnLocks, Fields DEF IInv, Types

(* The row of the presented token.                                           *)
LEMMA LockRowKeeps ==
    ASSUME IInv, NEW p \in Process, LockRow(p)
    PROVE  IInv'
  <1> DEFINE q == request[p]
             r == [q EXCEPT !.pc = "decide"]
             x == q.token
  <1>1. Course(p) /\ Copies(p) /\ Drafts(p) /\ Revokes(p) /\ Rows
    BY DEF IInv
  <1>2. q.pc = "row" /\ rowLock[x] = NoProcess /\ request' = [request EXCEPT ![p] = r]
        /\ UNCHANGED <<clock, account, sessions, draft, userLock, ended>>
        /\ rowLock' = [rowLock EXCEPT ![x] = p]
    BY DEF LockRow, Goto
  <1>3. x \in Committed /\ x \in SessionId /\ q.op \in NeedsToken
    BY <1>1, <1>2 DEF Course, Committed, NeedsToken
  <1>4. r \in Request
    BY Fields DEF Request, Step
  <1>5. /\ r.op = q.op /\ r.token = x /\ r.pc = "decide" /\ r.now = q.now /\ r.seen = q.seen
        /\ r.dirty = q.dirty /\ r.todo = q.todo /\ r.targets = q.targets
    BY Fields DEF Request
  <1> HIDE DEF r
  <1>6. rowLock'[x] = p /\ \A s \in SessionId : s # x => rowLock'[s] = rowLock[s]
    BY <1>2, <1>3 DEF IInv, Types
  <1>7. Committed' = Committed
    BY <1>2 DEF Committed
  <1>8. ASSUME request'[p] = r PROVE Sound(p)'
    <2>1. \A s \in SessionId : rowLock'[s] = p => s = x
      BY <1>1, <1>2, <1>6 DEF Drafts
    <2>2. draft[x] = sessions[x]
      BY <1>1, <1>2, <1>3 DEF Rows
    <2>3. Course(p)'
      BY <1>1, <1>2, <1>5, <1>7, <1>8 DEF Course
    <2>4. Copies(p)'
      BY <1>1, <1>2, <1>5, <1>8 DEF Copies, Locking
    <2>5. Drafts(p)'
      BY <1>2, <1>3, <1>5, <1>6, <1>7, <1>8, <2>1, <2>2 DEF Drafts, Inserted
    <2>6. Revokes(p)'
      <3>1. q.targets = {} /\ ~EndsAll(p)'
        BY <1>1, <1>2, <1>5, <1>8 DEF Course, EndsAll
      <3>2. \A s \in Committed : rowLock'[s] = p => s = x
        BY <2>1 DEF Committed
      <3>3. QED
        BY <1>1, <1>2, <1>5, <1>7, <1>8, <2>2, <3>1, <3>2 DEF Revokes
    <2>7. QED
      BY <2>3, <2>4, <2>5, <2>6 DEF Sound
  <1>9. Rows'
    <2>1. p # NoProcess
      BY Fields
    <2>2. draft[x].family # NoSession
      BY <1>1, <1>2, <1>3 DEF Rows, Committed
    <2>3. QED
      BY <1>1, <1>2, <1>6, <1>7, <2>1, <2>2 DEF Rows
  <1>10. rowLock' \in [SessionId -> Process \cup {NoProcess}]
    BY <1>2 DEF IInv, Types
  <1>11. \A s \in SessionId : rowLock'[s] # rowLock[s] =>
            {rowLock[s], rowLock'[s]} \subseteq {p, NoProcess}
    BY <1>2, <1>6
  <1>12. QED
    BY <1>2, <1>4, <1>8, <1>9, <1>10, <1>11, OnlyOwnLocks DEF IInv, Types

(* The next row of an UPDATE.                                                *)
LEMMA UpdateRowKeeps ==
    ASSUME IInv, NEW p \in Process, NEW s \in SessionId, UpdateRow(p, s)
    PROVE  IInv'
  <1> DEFINE q == request[p]
             r == [q EXCEPT !.todo = q.todo \ {s}]
  <1>1. Course(p) /\ Copies(p) /\ Drafts(p) /\ Revokes(p) /\ Rows
    BY DEF IInv
  <1>2. q.pc = "bulk" /\ s \in q.todo /\ rowLock[s] \in {NoProcess, p}
        /\ UNCHANGED <<clock, account, sessions, userLock, ended>>
        /\ rowLock' = [rowLock EXCEPT ![s] = p]
        /\ draft' = [draft EXCEPT ![s].revoked = TRUE]
        /\ request' = [request EXCEPT ![p] = r]
    BY DEF UpdateRow
  <1>3. s \in Committed /\ p # NoProcess
    BY <1>1, <1>2, Fields DEF Course
  <1>4. r \in Request
    BY Fields DEF Request
  <1>5. /\ r.op = q.op /\ r.token = q.token /\ r.pc = "bulk" /\ r.now = q.now /\ r.seen = q.seen
        /\ r.dirty = q.dirty /\ r.todo = q.todo \ {s} /\ r.targets = q.targets
    BY <1>2, Fields DEF Request
  <1> HIDE DEF r
  <1>6. /\ rowLock'[s] = p
        /\ \A t \in SessionId : t # s => rowLock'[t] = rowLock[t] /\ draft'[t] = draft[t]
        /\ draft'[s].family = draft[s].family /\ draft'[s].used = draft[s].used
        /\ draft'[s].revoked
        /\ draft' \in [SessionId -> Session]
        /\ rowLock' \in [SessionId -> Process \cup {NoProcess}]
    BY <1>2 DEF IInv, Types, Session
  <1>7. Committed' = Committed /\ Committed \subseteq SessionId
    BY <1>2 DEF Committed
  <1>8. ASSUME request'[p] = r PROVE Sound(p)'
    <2>1. Inserted(p)' = {}
      BY <1>1, <1>2, <1>3, <1>6, <1>7 DEF Inserted, Drafts
    <2>2. Course(p)'
      BY <1>1, <1>2, <1>5, <1>7, <1>8 DEF Course
    <2>3. Copies(p)'
      BY <1>1, <1>2, <1>5, <1>8 DEF Copies, Locking
    <2>4. Drafts(p)'
      BY <1>5, <1>8, <2>1 DEF Drafts
    <2>5. Revokes(p)'
      <3>1. EndsAll(p)' <=> EndsAll(p)
        BY <1>2, <1>5, <1>8 DEF EndsAll
      <3>2. \A t \in Committed : Settled(p, t) => Settled(p, t)'
        BY <1>2, <1>5, <1>6, <1>7, <1>8 DEF Settled
      <3>3. ASSUME NEW t \in Committed, rowLock'[t] = p, draft'[t].revoked
            PROVE  sessions[t].revoked \/ sessions[t].family \in q.targets
        BY <1>1, <1>2, <1>6, <1>7, <3>3 DEF Revokes
      <3>4. QED
        BY <1>1, <1>2, <1>5, <1>7, <1>8, <3>1, <3>2, <3>3 DEF Revokes
    <2>6. QED
      BY <2>2, <2>3, <2>4, <2>5 DEF Sound
  <1>9. Rows'
    <2>1. draft[s].family # NoSession
      BY <1>1, <1>3 DEF Rows, Committed
    <2>2. QED
      BY <1>1, <1>2, <1>3, <1>6, <1>7, <2>1 DEF Rows
  <1>10. \A t \in SessionId :
            /\ rowLock'[t] # rowLock[t] => {rowLock[t], rowLock'[t]} \subseteq {p, NoProcess}
            /\ draft'[t] # draft[t] => rowLock[t] \in {p, NoProcess}
    BY <1>2, <1>6
  <1>11. QED
    BY <1>2, <1>4, <1>6, <1>8, <1>9, <1>10, OnlyOwnLocks DEF IInv, Types

(* An identifier is nobody's as long as no draft has it.                     *)
LEMMA FreshIsFree ==
    ASSUME IInv, NEW n \in Fresh
    PROVE  n \in SessionId /\ rowLock[n] = NoProcess /\ n \notin Committed
           /\ sessions[n].family = NoSession
  BY DEF Fresh, IInv, Rows, Committed

(* A new row is a row.                                                       *)
LEMMA NewSessionType ==
    ASSUME NEW f \in SessionId
    PROVE  NewSession(f) \in Session /\ NewSession(f).family = f
           /\ NewSession(f).used = FALSE /\ NewSession(f).revoked = FALSE
  BY DEF NewSession, Absent, Session

(* The first row of a family.                                                *)
LEMMA InsertSessionKeeps ==
    ASSUME IInv, NEW p \in Process, NEW n \in SessionId, InsertSession(p, n)
    PROVE  IInv'
  <1> DEFINE q == request[p]
             r == [q EXCEPT !.pc = "commit"]
  <1>1. Course(p) /\ Copies(p) /\ Drafts(p) /\ Revokes(p) /\ Rows
    BY DEF IInv
  <1>2. q.pc = "insert" /\ n \in Fresh
        /\ UNCHANGED <<clock, account, sessions, userLock, ended>>
        /\ rowLock' = [rowLock EXCEPT ![n] = p]
        /\ draft' = [draft EXCEPT ![n] = NewSession(n)]
        /\ request' = [request EXCEPT ![p] = r]
    BY DEF InsertSession, Goto
  <1>3. rowLock[n] = NoProcess /\ n \notin Committed /\ p # NoProcess
    BY <1>2, FreshIsFree, Fields
  <1>4. r \in Request
    BY Fields DEF Request, Step
  <1>5. /\ r.op = q.op /\ r.token = q.token /\ r.pc = "commit" /\ r.now = q.now /\ r.seen = q.seen
        /\ r.dirty = q.dirty /\ r.todo = q.todo /\ r.targets = q.targets
    BY Fields DEF Request
  <1> HIDE DEF r
  <1>6. /\ rowLock'[n] = p /\ draft'[n] = NewSession(n) /\ draft'[n].family # NoSession
        /\ \A t \in SessionId : t # n => rowLock'[t] = rowLock[t] /\ draft'[t] = draft[t]
        /\ draft' \in [SessionId -> Session]
        /\ rowLock' \in [SessionId -> Process \cup {NoProcess}]
    BY <1>2, NewSessionType, NullAssumption DEF IInv, Types
  <1>7. Committed' = Committed /\ Committed \subseteq SessionId
    BY <1>2 DEF Committed
  <1>8. ASSUME request'[p] = r PROVE Sound(p)'
    <2>1. Inserted(p) = {}
      BY <1>1, <1>2 DEF Drafts
    <2>2. Inserted(p)' = {n}
      BY <1>3, <1>6, <1>7, <2>1 DEF Inserted
    <2>3. Course(p)'
      BY <1>1, <1>2, <1>5, <1>7, <1>8 DEF Course
    <2>4. Copies(p)'
      BY <1>1, <1>2, <1>5, <1>8 DEF Copies, Locking
    <2>5. q.op \in {"login", "changePassword"} /\ q.dirty
      BY <1>1, <1>2 DEF Course, Copies
    <2>6. Drafts(p)'
      BY <1>5, <1>6, <1>8, <2>2, <2>5 DEF Drafts
    <2>7. Revokes(p)'
      <3>1. EndsAll(p)' <=> EndsAll(p)
        BY <1>2, <1>5, <1>8 DEF EndsAll
      <3>2. \A t \in Committed : Settled(p, t) => Settled(p, t)'
        BY <1>2, <1>3, <1>5, <1>6, <1>7, <1>8 DEF Settled
      <3>3. ASSUME NEW t \in Committed, rowLock'[t] = p, draft'[t].revoked
            PROVE  sessions[t].revoked \/ sessions[t].family \in q.targets
        BY <1>1, <1>3, <1>6, <1>7, <3>3 DEF Revokes
      <3>4. QED
        BY <1>1, <1>2, <1>5, <1>7, <1>8, <3>1, <3>2, <3>3 DEF Revokes
    <2>8. QED
      BY <2>3, <2>4, <2>6, <2>7 DEF Sound
  <1>9. Rows'
    BY <1>1, <1>2, <1>3, <1>6, <1>7 DEF Rows
  <1>10. \A t \in SessionId :
            /\ rowLock'[t] # rowLock[t] => {rowLock[t], rowLock'[t]} \subseteq {p, NoProcess}
            /\ draft'[t] # draft[t] => rowLock[t] \in {p, NoProcess}
    BY <1>2, <1>3, <1>6
  <1>11. QED
    BY <1>2, <1>4, <1>6, <1>8, <1>9, <1>10, OnlyOwnLocks DEF IInv, Types

(* A successor, and the mark on the row it replaces.                         *)
LEMMA RefreshRotatesKeeps ==
    ASSUME IInv, NEW p \in Process, NEW n \in SessionId, RefreshRotates(p, n)
    PROVE  IInv'
  <1> DEFINE q == request[p]
             r == [q EXCEPT !.pc = "commit"]
             x == q.token
             f == draft[x].family
  <1>1. Course(p) /\ Copies(p) /\ Drafts(p) /\ Revokes(p) /\ Rows
    BY DEF IInv
  <1>2. q.pc = "decide" /\ q.op = "refresh" /\ n \in Fresh
        /\ ~draft[x].revoked /\ ~draft[x].used /\ CanAuthenticate(q.seen, q.now)
        /\ UNCHANGED <<clock, account, sessions, userLock, ended>>
        /\ rowLock' = [rowLock EXCEPT ![n] = p]
        /\ draft' = [draft EXCEPT ![n] = NewSession(f), ![x].used = TRUE]
        /\ request' = [request EXCEPT ![p] = r]
    BY DEF RefreshRotates, Deciding, Standing, Goto, UnchangedTables
  <1>3. rowLock[n] = NoProcess /\ n \notin Committed /\ p # NoProcess
    BY <1>2, FreshIsFree, Fields
  <1>4. r \in Request
    BY Fields DEF Request, Step
  <1>5. /\ r.op = q.op /\ r.token = x /\ r.pc = "commit" /\ r.now = q.now /\ r.seen = q.seen
        /\ r.dirty = q.dirty /\ r.todo = q.todo /\ r.targets = q.targets
    BY Fields DEF Request
  <1> HIDE DEF r
  <1>6. /\ x \in Committed /\ x \in SessionId /\ draft[x] = sessions[x] /\ rowLock[x] = p
        /\ userLock = p /\ q.seen = account /\ ~q.dirty /\ q.targets = {}
    BY <1>1, <1>2, SeenAtDecision DEF NeedsToken, Committed, Drafts
  <1>7. f \in SessionId /\ f = sessions[x].family
    BY <1>1, <1>6 DEF Rows, Committed
  <1>8. x # n /\ NewSession(f) \in Session /\ f # NoSession /\ NewSession(f).family = f
    BY <1>3, <1>6, <1>7, NewSessionType, NullAssumption
  <1> HIDE DEF f
  <1>9. /\ rowLock'[n] = p /\ draft'[n] = NewSession(f) /\ draft'[n].family # NoSession
        /\ \A t \in SessionId : t # n => rowLock'[t] = rowLock[t]
        /\ \A t \in SessionId \ {n, x} : draft'[t] = draft[t]
        /\ draft'[x].family = draft[x].family /\ draft'[x].revoked = draft[x].revoked
        /\ draft'[x].used = TRUE
        /\ draft' \in [SessionId -> Session]
        /\ rowLock' \in [SessionId -> Process \cup {NoProcess}]
    BY <1>2, <1>6, <1>8 DEF IInv, Types, Session
  <1>10. Committed' = Committed /\ Committed \subseteq SessionId
    BY <1>2 DEF Committed
  <1>11. ASSUME request'[p] = r PROVE Sound(p)'
    <2>1. Inserted(p) = {}
      BY <1>2, SeenAtDecision
    <2>2. Inserted(p)' = {n}
      BY <1>3, <1>9, <1>10, <2>1 DEF Inserted
    <2>3. Course(p)'
      BY <1>1, <1>2, <1>5, <1>10, <1>11 DEF Course
    <2>4. Copies(p)'
      BY <1>1, <1>2, <1>5, <1>6, <1>11 DEF Copies, Locking
    <2>5. Drafts(p)'
      <3>1. /\ draft'[n] = NewSession(sessions'[x].family) /\ rowLock'[x] = p
            /\ draft'[x].used /\ ~draft'[x].revoked /\ ~sessions'[x].used
            /\ CanAuthenticate(account', q.now)
        BY <1>2, <1>6, <1>7, <1>8, <1>9
      <3>2. QED
        BY <1>2, <1>5, <1>6, <1>11, <2>2, <3>1 DEF Drafts
    <2>6. Revokes(p)'
      <3>1. ~EndsAll(p)'
        BY <1>2, <1>5, <1>11 DEF EndsAll
      <3>2. ASSUME NEW t \in Committed, rowLock'[t] = p, draft'[t].revoked
            PROVE  sessions[t].revoked
        BY <1>1, <1>2, <1>3, <1>6, <1>9, <1>10, <3>2 DEF Drafts
      <3>3. QED
        BY <1>1, <1>2, <1>5, <1>6, <1>10, <1>11, <3>1, <3>2 DEF Revokes
    <2>7. QED
      BY <2>3, <2>4, <2>5, <2>6 DEF Sound
  <1>12. Rows'
    BY <1>1, <1>2, <1>3, <1>6, <1>8, <1>9, <1>10 DEF Rows
  <1>13. \A t \in SessionId :
            /\ rowLock'[t] # rowLock[t] => {rowLock[t], rowLock'[t]} \subseteq {p, NoProcess}
            /\ draft'[t] # draft[t] => rowLock[t] \in {p, NoProcess}
    BY <1>2, <1>3, <1>6, <1>9
  <1>14. QED
    BY <1>2, <1>4, <1>9, <1>11, <1>12, <1>13, OnlyOwnLocks DEF IInv, Types

-----------------------------------------------------------------------------
(* The ends of transactions.                                                 *)

(* What a commit makes of the rows.                                          *)
LEMMA CommittedRows ==
    ASSUME IInv, NEW p \in Process, Commit(p)
    PROVE  /\ \A s \in SessionId : sessions'[s] = IF rowLock[s] = p THEN draft[s] ELSE sessions[s]
           /\ sessions' \in [SessionId -> Session]
           /\ Committed' = Committed \cup Inserted(p)
           /\ \A s \in Committed : s \in SessionId /\ s \notin Inserted(p)
           /\ RowsStay
           /\ \A s \in Committed : sessions[s].used => sessions'[s].used
           /\ \A s \in Inserted(p) :
                 /\ s \in SessionId /\ sessions'[s] = draft[s] /\ s \notin Committed
                 /\ ~sessions'[s].revoked /\ ~sessions'[s].used
                 /\ \/ request[p].op \in {"login", "changePassword"} /\ request[p].dirty
                       /\ sessions'[s].family = s
                    \/ /\ request[p].op = "refresh"
                       /\ request[p].token \in Committed
                       /\ sessions'[s].family = sessions[request[p].token].family
                       /\ ~sessions[request[p].token].used /\ ~sessions[request[p].token].revoked
                       /\ sessions'[request[p].token].used /\ request[p].targets = {}
                 /\ userLock = p /\ CanAuthenticate(account, request[p].now)
  <1> DEFINE q == request[p]
  <1>1. Course(p) /\ Copies(p) /\ Drafts(p) /\ Rows
    BY DEF IInv
  <1>2. \A s \in SessionId : sessions'[s] = IF rowLock[s] = p THEN draft[s] ELSE sessions[s]
    BY DEF Commit, Visible
  <1>3. sessions' \in [SessionId -> Session]
    BY DEF Commit, Visible, IInv, Types
  <1>4. \A s \in Committed : s \in SessionId /\ s \notin Inserted(p)
    BY DEF Committed, Inserted
  <1>5. p # NoProcess
    BY Fields
  <1>6. Committed' = Committed \cup Inserted(p)
    <2>1. ASSUME NEW s \in SessionId
          PROVE  sessions'[s].family # NoSession <=> s \in Committed \cup Inserted(p)
      <3>1. CASE s \in Committed
        BY <1>1, <1>2, <3>1 DEF Rows, Committed
      <3>2. CASE s \notin Committed
        BY <1>1, <1>2, <1>5, <3>2 DEF Rows, Committed, Inserted
      <3>3. QED
        BY <3>1, <3>2
    <2>2. QED
      BY <2>1 DEF Committed, Inserted
  <1>7. RowsStay
    BY <1>1, <1>2, <1>4 DEF Rows, RowsStay
  <1>8. \A s \in Committed : sessions[s].used => sessions'[s].used
    BY <1>1, <1>2, <1>4 DEF Rows
  <1>9. ASSUME NEW s \in Inserted(p)
        PROVE  /\ s \in SessionId /\ sessions'[s] = draft[s] /\ s \notin Committed
               /\ ~sessions'[s].revoked /\ ~sessions'[s].used
               /\ \/ q.op \in {"login", "changePassword"} /\ q.dirty /\ sessions'[s].family = s
                  \/ /\ q.op = "refresh" /\ q.token \in Committed
                     /\ sessions'[s].family = sessions[q.token].family
                     /\ ~sessions[q.token].used /\ ~sessions[q.token].revoked
                     /\ sessions'[q.token].used /\ q.targets = {}
               /\ userLock = p /\ CanAuthenticate(account, q.now)
    <2>1. s \in SessionId /\ rowLock[s] = p /\ s \notin Committed /\ sessions'[s] = draft[s]
      BY <1>2 DEF Inserted
    <2>2. q.pc = "commit" /\ q.op \in {"login", "changePassword", "refresh"} /\ userLock = p
      BY <1>1, <1>9 DEF Drafts, Copies, Locking
    <2>3. CASE q.op # "refresh"
      <3>1. q.dirty /\ draft[s] = NewSession(s) /\ CanAuthenticate(account, q.now)
        BY <1>1, <1>9, <2>2, <2>3 DEF Drafts, Copies
      <3>2. QED
        BY <2>1, <2>2, <2>3, <3>1, NewSessionType
    <2>4. CASE q.op = "refresh"
      <3>1. q.token \in Committed /\ q.token \in SessionId
        BY <1>1, <2>2, <2>4 DEF Course, NeedsToken, Committed
      <3>2. /\ draft[s] = NewSession(sessions[q.token].family) /\ CanAuthenticate(account, q.now)
            /\ q.targets = {} /\ rowLock[q.token] = p /\ ~sessions[q.token].used
            /\ draft[q.token].used /\ ~draft[q.token].revoked
        BY <1>1, <1>9, <2>4 DEF Drafts
      <3>3. sessions[q.token].family \in SessionId /\ ~sessions[q.token].revoked
        BY <1>1, <3>1, <3>2 DEF Rows, Committed
      <3>4. sessions'[q.token].used
        BY <1>2, <3>1, <3>2
      <3>5. ~draft[s].revoked /\ ~draft[s].used /\ draft[s].family = sessions[q.token].family
        BY <3>2, <3>3, NewSessionType
      <3>6. QED
        BY <2>1, <2>2, <2>4, <3>1, <3>2, <3>3, <3>4, <3>5
    <2>5. QED
      BY <2>3, <2>4
  <1>10. QED
    BY <1>2, <1>3, <1>4, <1>6, <1>7, <1>8, <1>9

(* The locks a request gives up when it ends.                                *)
LEMMA Released ==
    ASSUME IInv, NEW p \in Process, Release(p)
    PROVE  /\ userLock' \in Process \cup {NoProcess} /\ userLock' # p
           /\ rowLock' \in [SessionId -> Process \cup {NoProcess}]
           /\ \A s \in SessionId : rowLock'[s] = IF rowLock[s] = p THEN NoProcess ELSE rowLock[s]
           /\ \A q \in Process : q # p =>
                 /\ userLock' = q <=> userLock = q
                 /\ \A s \in SessionId : rowLock'[s] = q <=> rowLock[s] = q
           /\ \A s \in SessionId : rowLock'[s] # p
  BY NullAssumption DEF Release, IInv, Types

(* A request that has ended has nothing left to keep.                        *)
LEMMA EndedIsSound ==
    ASSUME IInv, NEW p \in Process, Release(p), RowsStay,
           clock' = clock, NEW pc \in {"done", "aborted"},
           request[p].pc \notin {"idle", "done", "aborted"},
           Goto(p, pc)
    PROVE  request' \in [Process -> Request] /\ Sound(p)'
  <1> DEFINE q == request[p]
             r == [q EXCEPT !.pc = pc]
  <1>1. Course(p) /\ Copies(p) /\ Drafts(p) /\ Revokes(p)
    BY DEF IInv
  <1>2. r \in Request /\ request' = [request EXCEPT ![p] = r]
    BY Fields DEF Request, Step, Goto
  <1>3. request' \in [Process -> Request] /\ request'[p] = r
    BY <1>2 DEF IInv, Types
  <1>4. /\ r.op = q.op /\ r.token = q.token /\ r.pc = pc /\ r.now = q.now
        /\ r.dirty = q.dirty /\ r.todo = q.todo /\ r.targets = q.targets
    BY Fields DEF Request
  <1> HIDE DEF r
  <1>5. userLock' # p /\ \A s \in SessionId : rowLock'[s] # p
    BY Released
  <1>6. \A s \in Committed : s \in Committed' /\ s \in SessionId
    BY DEF RowsStay, Committed
  <1>7. Course(p)'
    BY <1>1, <1>3, <1>4, <1>6 DEF Course
  <1>8. Copies(p)'
    BY <1>3, <1>4, <1>5 DEF Copies, Locking
  <1>9. Drafts(p)'
    BY <1>3, <1>4, <1>5 DEF Drafts, Inserted
  <1>10. Revokes(p)'
    <2>1. ~EndsAll(p)'
      BY <1>3, <1>4 DEF EndsAll
    <2>2. \A s \in q.todo : sessions'[s].family \in q.targets
      BY <1>1 DEF Revokes, Course, RowsStay
    <2>3. \A f \in q.targets : \E s \in Committed' : sessions'[s].family = f
      BY <1>1, <1>6 DEF Revokes, RowsStay
    <2>4. \A s \in Committed' : rowLock'[s] # p
      BY <1>5 DEF Committed
    <2>5. QED
      BY <1>3, <1>4, <1>5, <2>1, <2>2, <2>3, <2>4 DEF Revokes
  <1>11. QED
    BY <1>3, <1>7, <1>8, <1>9, <1>10 DEF Sound

(* Drafts become rows.                                                       *)
LEMMA CommitKeeps ==
    ASSUME IInv, NEW p \in Process, Commit(p)
    PROVE  IInv'
  <1> DEFINE q == request[p]
  <1>1. Rows /\ p # NoProcess /\ Copies(p)
    BY Fields DEF IInv
  <1>2. /\ q.pc = "commit" /\ userLock \in {NoProcess, p} /\ Release(p) /\ Goto(p, "done")
        /\ account' = (IF q.dirty THEN q.seen ELSE account)
        /\ ended' = ended \cup q.targets
        /\ UNCHANGED <<clock, draft>>
    BY DEF Commit
  <1>3. request' \in [Process -> Request] /\ Sound(p)'
    BY <1>2, CommittedRows, EndedIsSound
  <1>4. Types'
    BY <1>2, <1>3, CommittedRows, Released, Fields DEF IInv, Types
  <1>5. Rows'
    <2>1. \A s \in SessionId :
             /\ rowLock'[s] = NoProcess => draft'[s] = sessions'[s]
             /\ rowLock'[s] # NoProcess => draft'[s].family # NoSession
      BY <1>1, <1>2, CommittedRows, Released DEF Rows
    <2>2. ASSUME NEW s \in Committed'
          PROVE  /\ draft'[s].family = sessions'[s].family
                 /\ sessions'[s].revoked => draft'[s].revoked
                 /\ sessions'[s].used => draft'[s].used
      BY <1>1, <1>2, CommittedRows DEF Rows
    <2>3. ASSUME NEW s \in Committed
          PROVE  /\ sessions'[s].family \in Committed'
                 /\ sessions'[sessions'[s].family].family = sessions'[s].family
      <3>1. /\ sessions'[s].family = sessions[s].family
            /\ sessions[s].family \in Committed
            /\ sessions[sessions[s].family].family = sessions[s].family
        BY <1>1, CommittedRows DEF Rows, RowsStay
      <3>2. QED
        BY <3>1, CommittedRows DEF RowsStay
    <2>4. ASSUME NEW s \in Inserted(p)
          PROVE  /\ sessions'[s].family \in Committed'
                 /\ sessions'[sessions'[s].family].family = sessions'[s].family
      <3>1. CASE sessions'[s].family = s
        BY <3>1, CommittedRows
      <3>2. CASE q.token \in Committed /\ sessions'[s].family = sessions[q.token].family
        BY <2>3, <3>2, CommittedRows DEF RowsStay
      <3>3. QED
        BY <3>1, <3>2, CommittedRows
    <2>5. QED
      BY <2>1, <2>2, <2>3, <2>4, CommittedRows DEF Rows
  <1>6. ASSUME NEW o \in Process, o # p PROVE Sound(o)'
    <2>1. request'[o] = request[o]
      BY <1>2, <1>6 DEF Goto, IInv, Types
    <2>2. userLock # o /\ (userLock' = o <=> userLock = o) /\ clock \in Nat
      BY <1>2, <1>6, Released, Fields
    <2>3. \A s \in SessionId :
             /\ rowLock'[s] = o <=> rowLock[s] = o
             /\ rowLock[s] = o => draft'[s] = draft[s] /\ sessions'[s] = sessions[s]
      BY <1>2, <1>6, Released, CommittedRows
    <2>4. QED
      BY <1>2, <2>1, <2>2, <2>3, CommittedRows, OthersKeep
  <1>7. QED
    BY <1>3, <1>4, <1>5, <1>6 DEF IInv, Sound

(* Drafts vanish.                                                            *)
LEMMA RollbackKeeps ==
    ASSUME IInv, NEW p \in Process, Rollback(p)
    PROVE  IInv'
  <1>1. Rows /\ p # NoProcess
    BY Fields DEF IInv
  <1>2. /\ request[p].pc \notin {"idle", "done", "aborted"} /\ Release(p) /\ Goto(p, "aborted")
        /\ draft' = [s \in SessionId |-> IF rowLock[s] = p THEN sessions[s] ELSE draft[s]]
        /\ UNCHANGED <<clock, account, sessions, ended>>
    BY DEF Rollback
  <1>3. RowsStay /\ Committed' = Committed /\ Committed \subseteq SessionId
    BY <1>2 DEF RowsStay, Committed
  <1>4. request' \in [Process -> Request] /\ Sound(p)'
    BY <1>2, <1>3, EndedIsSound
  <1>5. Types'
    BY <1>2, <1>4, Released DEF IInv, Types
  <1>6. Rows'
    BY <1>1, <1>2, <1>3, Released DEF Rows
  <1>7. ASSUME NEW o \in Process, o # p PROVE Sound(o)'
    <2>1. request'[o] = request[o]
      BY <1>2, <1>7 DEF Goto, IInv, Types
    <2>2. \A s \in SessionId :
             /\ rowLock'[s] = o <=> rowLock[s] = o
             /\ rowLock[s] = o => draft'[s] = draft[s] /\ sessions'[s] = sessions[s]
      BY <1>2, <1>7, Released
    <2>3. QED
      BY <1>2, <1>3, <1>7, <2>1, <2>2, Released, Fields, OthersKeep
  <1>8. QED
    BY <1>4, <1>5, <1>6, <1>7 DEF IInv, Sound

-----------------------------------------------------------------------------
(* The invariant holds.                                                      *)

(* The first family has a spent token and its successor.                     *)
LEMMA FirstRows ==
    ASSUME Init
    PROVE  /\ First \in SessionId /\ Second \in SessionId /\ First # Second
           /\ sessions \in [SessionId -> Session]
           /\ Committed = {First, Second}
           /\ sessions[First].family = First /\ sessions[First].used /\ ~sessions[First].revoked
           /\ sessions[Second].family = First /\ ~sessions[Second].used
           /\ ~sessions[Second].revoked
  <1>1. First \in SessionId
    BY SessionsAssumption DEF First
  <1>2. \E s \in SessionId \ {First} : TRUE
    BY SessionsAssumption
  <1>3. Second \in SessionId \ {First}
    BY <1>2 DEF Second
  <1> DEFINE spent == [NewSession(First) EXCEPT !.used = TRUE]
  <1>4. /\ NewSession(First) \in Session /\ spent \in Session
        /\ spent.family = First /\ spent.used /\ ~spent.revoked
    BY <1>1, NewSessionType DEF Session
  <1>5. Absent \in Session /\ Absent.family = NoSession
    BY DEF Absent, Session
  <1>6. sessions = [[s \in SessionId |-> Absent] EXCEPT ![First] = spent,
                                                        ![Second] = NewSession(First)]
    BY DEF Init
  <1> HIDE DEF spent
  <1>7. sessions \in [SessionId -> Session]
    BY <1>1, <1>3, <1>4, <1>5, <1>6
  <1>8. /\ sessions[First] = spent /\ sessions[Second] = NewSession(First)
        /\ \A s \in SessionId \ {First, Second} : sessions[s] = Absent
    BY <1>1, <1>3, <1>6
  <1>9. Committed = {First, Second}
    <2>1. First # NoSession /\ NewSession(First).family = First
      BY <1>1, NewSessionType, NullAssumption
    <2>2. \A s \in SessionId : sessions[s].family # NoSession <=> s \in {First, Second}
      BY <1>4, <1>5, <1>8, <2>1
    <2>3. QED
      BY <1>1, <1>3, <2>2 DEF Committed
  <1>10. QED
    BY <1>1, <1>3, <1>4, <1>7, <1>8, <1>9, NewSessionType

(* It holds at first.                                                        *)
LEMMA InvariantStarts == Init => IInv
  <1> SUFFICES ASSUME Init PROVE IInv
    OBVIOUS
  <1>1. /\ clock = 0 /\ draft = sessions /\ userLock = NoProcess /\ ended = {}
        /\ rowLock = [s \in SessionId |-> NoProcess]
        /\ request = [p \in Process |-> Idle]
        /\ account \in [status : {"active"}, failed : {0, MaxAttempts - 1}, lockedUntil : {0}]
    BY DEF Init
  <1>2. account \in Account
    BY <1>1, LimitsAssumption DEF Account
  <1>3. Idle \in Request
    BY DEF Idle, Request, Step, Account
  <1>4. Types
    BY <1>1, <1>2, <1>3, FirstRows, LimitsAssumption DEF Types
  <1>5. Rows
    BY <1>1, FirstRows, NullAssumption DEF Rows
  <1>6. ASSUME NEW p \in Process
        PROVE  Course(p) /\ Copies(p) /\ Drafts(p) /\ Revokes(p)
    <2>1. request[p] = Idle /\ p # NoProcess /\ \A s \in SessionId : rowLock[s] # p
      BY <1>1, NullAssumption
    <2>2. /\ Idle.op = "none" /\ Idle.pc = "idle" /\ Idle.token = NoSession /\ Idle.now = 0
          /\ ~Idle.dirty /\ Idle.todo = {} /\ Idle.targets = {}
      BY DEF Idle
    <2>3. Course(p)
      BY <1>1, <2>1, <2>2, NullAssumption DEF Course, Committed
    <2>4. Copies(p)
      BY <1>1, <2>1, <2>2 DEF Copies, Locking
    <2>5. Drafts(p)
      BY <2>1, <2>2 DEF Drafts, Inserted
    <2>6. Revokes(p)
      BY <1>1, <2>1, <2>2 DEF Revokes, EndsAll, Committed
    <2>7. QED
      BY <2>3, <2>4, <2>5, <2>6
  <1>7. QED
    BY <1>4, <1>5, <1>6 DEF IInv

(* Time passes.                                                              *)
LEMMA TickKeeps ==
    ASSUME IInv, Tick PROVE IInv'
  <1>1. /\ clock < MaxTime /\ clock' = clock + 1
        /\ UNCHANGED <<account, sessions, draft, userLock, rowLock, request, ended>>
    BY DEF Tick
  <1>2. clock \in 0..MaxTime /\ MaxTime \in Nat
    BY LimitsAssumption DEF IInv, Types
  <1>3. clock' \in 0..MaxTime /\ clock' \in Nat /\ clock <= clock'
    BY <1>1, <1>2
  <1>4. Types' /\ Rows'
    BY <1>1, <1>3 DEF IInv, Types, Rows, Committed
  <1>5. ASSUME NEW p \in Process PROVE Sound(p)'
    BY <1>1, <1>3, OthersKeep DEF RowsStay
  <1>6. QED
    BY <1>4, <1>5 DEF IInv, Sound

(* Statements keep it.                                                       *)
LEMMA StatementsKeep ==
    ASSUME IInv, NEW p \in Process, Statement(p) PROVE IInv'
  BY LockUserKeeps, LockRowKeeps, DecisionsKeep, RefreshRotatesKeeps, AuthenticateKeeps,
     UpdateRowKeeps, EndUpdateKeeps, InsertSessionKeeps, CommitKeeps DEF Statement

(* Every step keeps it.                                                      *)
LEMMA InvariantStays == IInv /\ [Next]_vars => IInv'
  <1> SUFFICES ASSUME IInv, [Next]_vars PROVE IInv'
    OBVIOUS
  <1>1. CASE UNCHANGED vars
    BY <1>1 DEF vars, IInv, Types, Rows, Committed, Course, Copies, Drafts, Revokes, Inserted,
                Settled, EndsAll
  <1>2. CASE Next
    BY <1>2, TickKeeps, BeginKeeps, StatementsKeep, RollbackKeeps DEF Next
  <1>3. QED
    BY <1>1, <1>2

(* So it holds in every reachable state.                                     *)
LEMMA InvariantHolds == Spec => []IInv
  BY InvariantStarts, InvariantStays, PTL DEF Spec

-----------------------------------------------------------------------------
(* Types, and a draft differs from its row only under a lock.                *)
THEOREM TypeCorrect == Spec => []TypeOK
  <1>1. IInv => TypeOK
    BY DEF IInv, Types, Rows, TypeOK
  <1>2. QED
    BY <1>1, InvariantHolds, PTL

-----------------------------------------------------------------------------
(* What steps do to what is committed.                                       *)

(* Only a commit changes what is committed.                                  *)
LEMMA OnlyCommitsWrite ==
    ASSUME NEW p \in Process, Statement(p), ~Commit(p)
    PROVE  UNCHANGED <<clock, account, sessions, ended>>
  BY DEF Statement, LockUser, LockRow, Login, WrongPassword, RefreshRefused, RefreshEndsFamily,
         RefreshRotates, Logout, ChangePassword, Disable, Enable, RevokeUserSessions,
         AuthenticateReadsSession, UpdateRow, EndUpdate, InsertSession, UnchangedTables

(* A request is changed by its own steps only.                               *)
LEMMA OneMoves ==
    ASSUME IInv, NEW p \in Process, NEW o \in Process, o # p,
           \/ \E op \in Ops, token \in SessionId \cup {NoSession} : Begin(p, op, token)
           \/ Statement(p) \/ Rollback(p)
    PROVE  request'[o] = request[o]
  BY DEF IInv, Types, Begin, Rollback, Statement, LockUser, LockRow, Login, WrongPassword,
         RefreshRefused, RefreshEndsFamily, RefreshRotates, Logout, ChangePassword, Disable,
         Enable, RevokeUserSessions, AuthenticateReadsSession, UpdateRow, EndUpdate,
         InsertSession, Commit, Goto, StartUpdate

(* A step of the system, by what it may change.                              *)
LEMMA StepKinds ==
    ASSUME IInv, Next
    PROVE  \/ Tick
           \/ \E p \in Process : Commit(p)
           \/ UNCHANGED <<clock, account, sessions, ended>>
  <1>1. ASSUME NEW p \in Process, Rollback(p)
        PROVE  UNCHANGED <<clock, account, sessions, ended>>
    BY <1>1 DEF Rollback
  <1>2. ASSUME NEW p \in Process, NEW op \in Ops, NEW token \in SessionId \cup {NoSession},
               Begin(p, op, token)
        PROVE  UNCHANGED <<clock, account, sessions, ended>>
    BY <1>2 DEF Begin
  <1>3. QED
    BY <1>1, <1>2, OnlyCommitsWrite DEF Next

(* What a commit writes of the account is its own effect on it, decided      *)
(* under the lock.                                                           *)
LEMMA CommittedAccount ==
    ASSUME IInv, NEW p \in Process, Commit(p)
    PROVE  \/ account' = account
           \/ /\ request[p].dirty /\ userLock = p
              /\ account' = request[p].seen
              /\ account' = Effect(request[p].op, account, request[p].now)
              /\ request[p].op \in {"login", "wrongPassword", "changePassword", "disable", "enable"}
              /\ request[p].op \notin {"disable", "enable"} =>
                    CanAuthenticate(account, request[p].now)
  <1>1. Course(p) /\ Copies(p) /\ request[p].pc = "commit"
    BY DEF IInv, Commit
  <1>2. request[p].dirty => userLock = p
    BY <1>1 DEF Copies, Locking
  <1>3. account' = IF request[p].dirty THEN request[p].seen ELSE account
    BY DEF Commit
  <1>4. QED
    BY <1>1, <1>2, <1>3 DEF Copies

(* Who can authenticate at one time can do so later, unless the row changes. *)
LEMMA StillAble ==
    ASSUME NEW row \in Account, NEW t \in Nat, NEW u \in Nat, t <= u, CanAuthenticate(row, t)
    PROVE  CanAuthenticate(row, u)
  BY DEF CanAuthenticate, Account

(* A commit that takes the account's standing away, at whatever time, takes  *)
(* its sessions away, too.                                                   *)
LEMMA LosingStanding ==
    ASSUME IInv, NEW p \in Process, Commit(p), NEW t \in Nat,
           CanAuthenticate(account, t), ~CanAuthenticate(account', t)
    PROVE  EndsAll(p) /\ Inserted(p) = {} /\ \A s \in Committed' : sessions'[s].revoked
  <1> DEFINE q == request[p]
  <1>1. Course(p) /\ Copies(p) /\ Drafts(p) /\ Revokes(p) /\ q.pc = "commit"
    BY DEF IInv, Commit
  <1>2. /\ q.dirty /\ account' = q.seen /\ account' = Effect(q.op, account, q.now)
        /\ q.op \in {"login", "wrongPassword", "changePassword", "disable", "enable"}
        /\ q.op \notin {"disable", "enable"} => CanAuthenticate(account, q.now)
    BY CommittedAccount
  <1>3. account \in Account /\ q.now \in Nat
    BY Fields DEF IInv, Types
  <1>4. q.op \notin {"login", "changePassword"}
    BY <1>2, <1>3 DEF Effect, CanAuthenticate, Account
  <1>5. q.op # "enable"
    BY <1>2, <1>3 DEF Effect, CanAuthenticate, Account
  <1>6. q.op = "wrongPassword" => q.seen.lockedUntil # 0
    <2> SUFFICES ASSUME q.op = "wrongPassword", q.seen.lockedUntil = 0 PROVE FALSE
      OBVIOUS
    <2>1. account'.status = account.status /\ account'.lockedUntil = 0
      BY <1>2, <1>3 DEF Effect, CountFailure, Account
    <2>2. QED
      BY <1>3, <2>1 DEF CanAuthenticate, Account
  <1>7. q.op \in {"wrongPassword", "disable"} /\ EndsAll(p)
    BY <1>1, <1>2, <1>4, <1>5, <1>6 DEF EndsAll
  <1>8. Inserted(p) = {}
    BY <1>1, <1>7 DEF Drafts
  <1>9. ASSUME NEW s \in Committed PROVE sessions'[s].revoked
    <2>1. sessions[s].revoked \/ (rowLock[s] = p /\ draft[s].revoked)
      BY <1>1, <1>7 DEF Revokes, Settled
    <2>2. sessions[s].revoked => sessions'[s].revoked
      BY CommittedRows DEF RowsStay
    <2>3. s \in SessionId /\ (rowLock[s] = p => sessions'[s] = draft[s])
      BY CommittedRows
    <2>4. QED
      BY <2>1, <2>2, <2>3
  <1>10. QED
    BY <1>7, <1>8, <1>9, CommittedRows

-----------------------------------------------------------------------------
(* Two refreshes of a family, however their statements overlap, never both   *)
(* rotate it: it has one unused token at most, whatever else goes on.        *)
THEOREM RefreshesRotateOnce == Spec => []OneUnusedToken
  <1>1. Init => OneUnusedToken
    BY FirstRows DEF OneUnusedToken
  <1>2. IInv /\ OneUnusedToken /\ [Next]_vars => OneUnusedToken'
    <2> SUFFICES ASSUME IInv, OneUnusedToken, [Next]_vars PROVE OneUnusedToken'
      OBVIOUS
    <2>1. CASE UNCHANGED sessions
      BY <2>1 DEF OneUnusedToken, Committed
    <2>2. ASSUME NEW p \in Process, Commit(p) PROVE OneUnusedToken'
      <3> SUFFICES ASSUME NEW s \in Committed', NEW t \in Committed',
                          sessions'[s].family = sessions'[t].family,
                          ~sessions'[s].used, ~sessions'[t].used
                   PROVE  s = t
        BY DEF OneUnusedToken
      <3> DEFINE x == request[p].token
      <3>1. \A r \in Committed : ~sessions'[r].used => ~sessions[r].used
        BY <2>2, CommittedRows
      <3>2. \A r \in Committed : sessions'[r].family = sessions[r].family
                                 /\ sessions[r].family \in Committed
        BY <2>2, CommittedRows DEF RowsStay, IInv, Rows
      <3>3. CASE s \in Committed /\ t \in Committed
        BY <3>1, <3>2, <3>3 DEF OneUnusedToken
      <3>4. CASE s \in Inserted(p) /\ t \in Inserted(p)
        BY <3>4 DEF IInv, Drafts
      <3>5. ASSUME NEW n \in Inserted(p), NEW r \in Committed,
                   sessions'[n].family = sessions'[r].family, ~sessions'[r].used
            PROVE  FALSE
        <4>1. sessions'[n].family # n
          BY <2>2, <3>2, <3>5, CommittedRows
        <4>2. /\ x \in Committed /\ sessions'[n].family = sessions[x].family
              /\ ~sessions[x].used /\ sessions'[x].used
          BY <2>2, <4>1, CommittedRows
        <4>3. sessions[r].family = sessions[x].family /\ ~sessions[r].used
          BY <3>1, <3>2, <3>5, <4>2
        <4>4. r = x
          BY <4>2, <4>3 DEF OneUnusedToken
        <4>5. QED
          BY <3>5, <4>2, <4>4
      <3>6. s \in Committed \cup Inserted(p) /\ t \in Committed \cup Inserted(p)
        BY <2>2, CommittedRows
      <3>7. QED
        BY <3>3, <3>4, <3>5, <3>6
    <2>3. QED
      BY <2>1, <2>2, StepKinds DEF vars, Tick
  <1>3. QED
    BY <1>1, <1>2, InvariantHolds, PTL DEF Spec

(* Whatever begins while the account loses its standing, and whenever the    *)
(* handlers read their clocks: an account that is disabled or locked has no  *)
(* live session in the table.                                                *)
THEOREM LostStandingEndsSessions == Spec => []NoSessionWithoutAccount
  <1>1. Init => NoSessionWithoutAccount
    BY DEF Init, NoSessionWithoutAccount, CanAuthenticate
  <1>2. IInv /\ NoSessionWithoutAccount /\ [Next]_vars => NoSessionWithoutAccount'
    <2> SUFFICES ASSUME IInv, NoSessionWithoutAccount, [Next]_vars,
                        ~CanAuthenticate(account', clock')
                 PROVE  \A s \in Committed' : sessions'[s].revoked
      BY DEF NoSessionWithoutAccount
    <2>1. account \in Account /\ clock \in Nat
      BY LimitsAssumption DEF IInv, Types
    <2>2. CASE UNCHANGED <<clock, account, sessions>>
      BY <2>2 DEF NoSessionWithoutAccount, Committed
    <2>3. CASE Tick
      <3>1. UNCHANGED <<account, sessions>> /\ clock' = clock + 1
        BY <2>3 DEF Tick
      <3>2. ~CanAuthenticate(account, clock)
        BY <2>1, <3>1, StillAble
      <3>3. QED
        BY <3>1, <3>2 DEF NoSessionWithoutAccount, Committed
    <2>4. ASSUME NEW p \in Process, Commit(p) PROVE \A s \in Committed' : sessions'[s].revoked
      <3>1. clock' = clock
        BY <2>4 DEF Commit
      <3>2. CASE CanAuthenticate(account, clock)
        BY <2>1, <2>4, <3>1, <3>2, LosingStanding
      <3>3. CASE ~CanAuthenticate(account, clock)
        <4>1. request[p].now \in Nat /\ request[p].now <= clock
          BY Fields DEF IInv, Course
        <4>2. Inserted(p) = {}
          BY <2>1, <2>4, <3>3, <4>1, CommittedRows, StillAble
        <4>3. \A s \in Committed : sessions[s].revoked
          BY <3>3 DEF NoSessionWithoutAccount
        <4>4. QED
          BY <2>4, <4>2, <4>3, CommittedRows DEF RowsStay
      <3>4. QED
        BY <3>2, <3>3
    <2>5. QED
      BY <2>2, <2>3, <2>4, StepKinds DEF vars
  <1>3. QED
    BY <1>1, <1>2, InvariantHolds, PTL DEF Spec

(* Where no revoke_user_sessions runs: after a committed logout, replay,     *)
(* lockout, disabling or password change no row of the families it was about *)
(* is usable, not the one a concurrent refresh was inserting, either.  The   *)
(* run transactions_revoke shows that the hypothesis is needed.              *)
THEOREM EndedFamiliesStayDead ==
    ASSUME "revokeUserSessions" \notin Ops
    PROVE  Spec => []EndedFamiliesAreDead
  <1> DEFINE Ended == ended \subseteq Committed
             Dead == IInv /\ Ended /\ EndedFamiliesAreDead
  <1>1. Init => Dead
    BY InvariantStarts DEF Init, EndedFamiliesAreDead
  <1>2. Dead /\ [Next]_vars => Dead'
    <2> SUFFICES ASSUME IInv, Ended, EndedFamiliesAreDead, [Next]_vars
                 PROVE  Ended' /\ EndedFamiliesAreDead'
      BY InvariantStays
    <2>1. CASE UNCHANGED <<sessions, ended>>
      BY <2>1 DEF Committed, EndedFamiliesAreDead
    <2>2. ASSUME NEW p \in Process, Commit(p) PROVE Ended' /\ EndedFamiliesAreDead'
      <3> DEFINE q == request[p]
      <3>1. q.pc = "commit" /\ ended' = ended \cup q.targets
        BY <2>2 DEF Commit
      <3>2. Course(p) /\ Copies(p) /\ Revokes(p) /\ Rows
        BY DEF IInv
      <3>3. userLock = p
        BY <3>1, <3>2 DEF Course, Copies, Locking
      <3>4. q.targets \subseteq Committed
        BY <3>2 DEF Revokes, Rows
      <3>5. Ended'
        BY <2>2, <3>1, <3>4, CommittedRows
      <3>6. ASSUME NEW s \in Committed, sessions'[s].family \in ended'
            PROVE  sessions'[s].revoked
        <4>1. sessions'[s].family = sessions[s].family
              /\ (sessions[s].revoked => sessions'[s].revoked)
          BY <2>2, CommittedRows DEF RowsStay
        <4>2. CASE sessions[s].family \in ended
          BY <4>1, <4>2 DEF EndedFamiliesAreDead
        <4>3. CASE sessions[s].family \in q.targets
          <5>1. sessions[s].revoked \/ (rowLock[s] = p /\ draft[s].revoked)
            BY <3>1, <3>2, <3>3, <4>3 DEF Revokes, Settled
          <5>2. s \in SessionId /\ (rowLock[s] = p => sessions'[s] = draft[s])
            BY <2>2, CommittedRows
          <5>3. QED
            BY <4>1, <5>1, <5>2
        <4>4. QED
          BY <3>1, <3>6, <4>1, <4>2, <4>3
      <3>7. ASSUME NEW n \in Inserted(p) PROVE sessions'[n].family \notin ended'
        <4>1. CASE sessions'[n].family = n
          BY <2>2, <3>1, <3>4, <4>1, CommittedRows
        <4>2. CASE sessions'[n].family # n
          <5>1. /\ q.token \in Committed /\ sessions'[n].family = sessions[q.token].family
                /\ ~sessions[q.token].revoked /\ q.targets = {}
            BY <2>2, <4>2, CommittedRows
          <5>2. QED
            BY <3>1, <5>1 DEF EndedFamiliesAreDead
        <4>3. QED
          BY <4>1, <4>2
      <3>8. EndedFamiliesAreDead'
        BY <2>2, <3>6, <3>7, CommittedRows DEF EndedFamiliesAreDead
      <3>9. QED
        BY <3>5, <3>8
    <2>3. QED
      BY <2>1, <2>2, StepKinds DEF vars, Tick
  <1>3. Dead => EndedFamiliesAreDead
    OBVIOUS
  <1>4. QED
    BY <1>1, <1>2, <1>3, PTL DEF Spec

-----------------------------------------------------------------------------
(* Where a request is after a step of its own.                               *)
LEMMA OwnSteps ==
    ASSUME IInv, NEW p \in Process,
           \/ \E op \in Ops, token \in SessionId \cup {NoSession} : Begin(p, op, token)
           \/ Statement(p) \/ Rollback(p)
    PROVE  /\ request[p].pc = "commit" /\ request'[p].pc = "done" => Commit(p)
           /\ request'[p].pc = "session" =>
                 /\ request'[p].seen = account /\ UNCHANGED account
           /\ request'[p].accepted => request[p].accepted \/ AuthenticateReadsSession(p)
  <1>1. request \in [Process -> Request]
    BY DEF IInv, Types
  <1>2. CASE \E op \in Ops, token \in SessionId \cup {NoSession} : Begin(p, op, token)
    <2>1. PICK op \in Ops, token \in SessionId \cup {NoSession} : Begin(p, op, token)
      BY <1>2
    <2>2. request[p].pc = "idle" /\ UNCHANGED account
      BY <2>1 DEF Begin
    <2> DEFINE pc == IF op = "logout" /\ sessions[token].revoked THEN "done" ELSE FirstWait(op)
               r == [request[p] EXCEPT !.op = op, !.token = token, !.now = clock,
                                       !.seen = account, !.pc = pc]
    <2>3. request'[p].seen = account /\ request'[p].accepted = request[p].accepted
      <3>1. request' = [request EXCEPT ![p] = r]
        BY <2>1 DEF Begin
      <3>2. request'[p] = r
        BY <1>1, <3>1
      <3>3. r.seen = account /\ r.accepted = request[p].accepted
        BY Fields DEF Request
      <3>4. QED
        BY <3>2, <3>3
    <2>4. QED
      BY <2>2, <2>3
  <1>3. CASE Rollback(p)
    BY <1>1, <1>3 DEF Rollback, Goto, Request
  <1>4. CASE Statement(p)
    <2>1. CASE LockUser(p) \/ LockRow(p) \/ EndUpdate(p) \/ Commit(p)
               \/ AuthenticateReadsSession(p)
      BY <1>1, <2>1 DEF LockUser, LockRow, EndUpdate, Commit, AuthenticateReadsSession, Goto,
                        Request
    <2>2. CASE (\E s \in SessionId : UpdateRow(p, s)) \/ (\E n \in SessionId : InsertSession(p, n))
               \/ (\E n \in SessionId : RefreshRotates(p, n)) \/ RefreshRefused(p)
      BY <1>1, <2>2 DEF UpdateRow, InsertSession, RefreshRotates, RefreshRefused, Deciding, Goto,
                        Request
    <2>3. CASE Login(p) \/ Enable(p)
      BY <1>1, <2>3 DEF Login, Enable, Deciding, Request
    <2>4. CASE WrongPassword(p) \/ Logout(p)
      BY <1>1, <2>4 DEF WrongPassword, Logout, Deciding, StartUpdate, Goto, Request
    <2>5. CASE (\E expired \in BOOLEAN : RefreshEndsFamily(p, expired)) \/ ChangePassword(p)
               \/ Disable(p) \/ RevokeUserSessions(p)
      BY <1>1, <2>5 DEF RefreshEndsFamily, ChangePassword, Disable, RevokeUserSessions, Deciding,
                        StartUpdate, Request
    <2>6. QED
      BY <1>4, <2>1, <2>2, <2>3, <2>4, <2>5 DEF Statement
  <1>5. QED
    BY <1>2, <1>3, <1>4

(* No update of the account is lost: although handlers write whole rows from *)
(* copies, what is committed is the handler's effect on the row as it is.    *)
THEOREM AccountWritesSerialize == Spec => AccountWritesAreSerial
  <1>1. ASSUME IInv, [Next]_vars, NEW p \in Process,
               request[p].pc = "commit", request'[p].pc = "done", request[p].dirty
        PROVE  account' = Effect(request[p].op, account, request[p].now)
    <2>1. Next /\ request'[p] # request[p]
      BY <1>1 DEF vars
    <2>2. Commit(p)
      <3>1. ~Tick
        BY <2>1 DEF Tick
      <3>2. QED
        BY <1>1, <2>1, <3>1, OwnSteps, OneMoves DEF Next
    <2>3. Copies(p) /\ account' = request[p].seen /\ Course(p)
      BY <1>1, <2>2 DEF IInv, Commit
    <2>4. QED
      BY <1>1, <2>3 DEF Copies, Locking
  <1>2. IInv /\ [Next]_vars =>
          [\A p \in Process :
             request[p].pc = "commit" /\ request'[p].pc = "done" /\ request[p].dirty
             => account' = Effect(request[p].op, account, request[p].now)]_vars
    BY <1>1
  <1>3. QED
    BY <1>2, InvariantHolds, PTL DEF Spec, AccountWritesAreSerial

(* What authenticate has read of the account is still so as long as the      *)
(* session it will read next is not revoked.                                 *)
Accepts(p) ==
    /\ request[p].pc = "session"
    /\ CanAuthenticate(request[p].seen, request[p].now)
    /\ ~sessions[request[p].token].revoked
    => CanAuthenticate(account, request[p].now)

AllAccept == \A p \in Process : Accepts(p)

(* Who takes the standing away revokes the sessions in the same commit, so   *)
(* an acceptance that is still possible is still right.                      *)
LEMMA AcceptsAlways == Spec => []AllAccept
  <1> DEFINE All == IInv /\ AllAccept
  <1>1. Init => All
    <2>1. ASSUME Init, NEW p \in Process PROVE Accepts(p)
      BY <2>1 DEF Init, Idle, Accepts
    <2>2. QED
      BY <2>1, InvariantStarts DEF AllAccept
  <1>2. All /\ [Next]_vars => All'
    <2> SUFFICES ASSUME IInv, AllAccept, [Next]_vars,
                        NEW p \in Process, request'[p].pc = "session",
                        CanAuthenticate(request'[p].seen, request'[p].now),
                        ~sessions'[request'[p].token].revoked
                 PROVE  CanAuthenticate(account', request'[p].now)
      BY InvariantStays DEF AllAccept, Accepts
    <2>1. CASE request'[p] = request[p]
      <3> DEFINE q == request[p]
      <3>1. CASE UNCHANGED <<account, sessions>>
        BY <2>1, <3>1 DEF AllAccept, Accepts
      <3>2. ASSUME NEW o \in Process, Commit(o) PROVE CanAuthenticate(account', q.now)
        <4>1. q.token \in Committed /\ q.now \in Nat
          <5>1. Course(p) /\ q.pc = "session"
            BY <2>1 DEF IInv
          <5>2. QED
            BY <5>1, Fields DEF Course, NeedsToken
        <4>2. ~sessions[q.token].revoked /\ q.token \in Committed'
          BY <2>1, <3>2, <4>1, CommittedRows DEF RowsStay
        <4>3. CanAuthenticate(account, q.now)
          BY <2>1, <4>2 DEF AllAccept, Accepts
        <4>4. QED
          BY <2>1, <3>2, <4>1, <4>2, <4>3, LosingStanding
      <3>3. QED
        BY <2>1, <3>1, <3>2, StepKinds DEF vars, Tick
    <2>2. CASE request'[p] # request[p]
      <3>1. \/ \E op \in Ops, token \in SessionId \cup {NoSession} : Begin(p, op, token)
            \/ Statement(p) \/ Rollback(p)
        BY <2>2, OneMoves DEF Next, Tick, vars
      <3>2. QED
        BY <3>1, OwnSteps
    <2>3. QED
      BY <2>1, <2>2
  <1>3. All => AllAccept
    OBVIOUS
  <1>4. QED
    BY <1>1, <1>2, <1>3, PTL DEF Spec

(* authenticate accepts only an account that still has its standing, though  *)
(* it reads the account and the session one after the other without a lock.  *)
THEOREM AcceptancesAreCurrent == Spec => AcceptanceIsCurrent
  <1>1. ASSUME IInv, AllAccept, [Next]_vars, NEW p \in Process,
               request'[p].accepted, ~request[p].accepted
        PROVE  CanAuthenticate(account, request[p].now)
    <2>1. request'[p] # request[p]
      BY <1>1
    <2>2. AuthenticateReadsSession(p)
      BY <1>1, <2>1, OneMoves, OwnSteps DEF Next, Tick, vars
    <2>3. request[p].pc = "session" /\ Standing(p) /\ ~sessions[request[p].token].revoked
      BY <1>1, <2>2 DEF AuthenticateReadsSession, IInv, Types, Request
    <2>4. QED
      BY <1>1, <2>3 DEF AllAccept, Accepts, Standing
  <1>2. IInv /\ AllAccept /\ [Next]_vars =>
          [\A p \in Process : request'[p].accepted /\ ~request[p].accepted
             => CanAuthenticate(account, request[p].now)]_vars
    BY <1>1
  <1>3. QED
    BY <1>2, InvariantHolds, AcceptsAlways, PTL DEF Spec, AcceptanceIsCurrent

-----------------------------------------------------------------------------
(* Where no revoke_user_sessions runs, requests never wait in a circle: who  *)
(* has a session's row has the account's, and who has the account's waits    *)
(* for nobody.  With revoke_user_sessions they do (transactions_mixed).      *)
THEOREM NoCircularWait ==
    ASSUME "revokeUserSessions" \notin Ops
    PROVE  Spec => []NoDeadlock
  <1>1. ASSUME IInv PROVE NoDeadlock
    <2> SUFFICES ASSUME NEW p \in Process, NEW group \in SUBSET Process, p \in group,
                        \A q \in group : Blocked(q) /\ Blockers(q) \subseteq group
                 PROVE  FALSE
      BY DEF NoDeadlock, Deadlocked
    <2>1. ASSUME NEW q \in group
          PROVE  /\ request[q].pc \in {"user", "row", "bulk", "commit"}
                 /\ request[q].op # "revokeUserSessions"
                 /\ Course(q) /\ Copies(q) /\ Drafts(q)
      <3>1. Course(q) /\ Copies(q) /\ Drafts(q)
        BY <1>1 DEF IInv
      <3>2. Blockers(q) # {}
        BY DEF Blocked
      <3>3. request[q].pc \in {"user", "row", "bulk", "commit"}
        BY <3>2 DEF Blockers
      <3>4. QED
        BY <3>1, <3>3 DEF Course
    <2>2. ASSUME NEW q \in group, NEW s \in SessionId, rowLock[s] \in group
          PROVE  userLock = rowLock[s]
      BY <2>1, <2>2 DEF Drafts, Copies, Locking
    <2>3. ASSUME NEW q \in group, userLock = q PROVE FALSE
      <3>1. PICK b \in Blockers(q) : b \notin {NoProcess, q} /\ b \in group
        BY DEF Blocked
      <3>2. request[q].pc \in {"row", "bulk"}
        BY <2>1, <2>3, <3>1 DEF Blockers, Copies, Locking
      <3>3. \E s \in SessionId : b = rowLock[s]
        <4>1. request[q].pc = "row" => request[q].token \in SessionId
          BY <2>1 DEF Course, NeedsToken, Committed
        <4>2. request[q].todo \subseteq SessionId
          BY <2>1 DEF Course, Committed
        <4>3. QED
          BY <3>1, <3>2, <4>1, <4>2 DEF Blockers
      <3>4. QED
        BY <2>2, <2>3, <3>1, <3>3
    <2>4. userLock # p /\ request[p].pc = "user"
      <3>1. userLock # p
        BY <2>3
      <3>2. QED
        BY <2>1, <3>1 DEF Copies, Locking
    <2>5. Blockers(p) = {userLock}
      BY <2>4 DEF Blockers
    <2>6. QED
      BY <2>3, <2>5
  <1>2. QED
    BY <1>1, InvariantHolds, PTL

-----------------------------------------------------------------------------
(* The refinement.  What has been committed shows which families are open,   *)
(* which are closed and whether the account is barred; a commit is a step of *)
(* the authority, and every other statement leaves it alone.                 *)

Barred == IF CanAuthenticate(account, clock) THEN {} ELSE {"account"}

Opened == [u \in {"account"} |-> OpenFamilies]

Families == {sessions[s].family : s \in Committed}

Closed == Families \ OpenFamilies

(* What is open has rows.                                                    *)
LEMMA OpenHasRows ==
    ASSUME IInv
    PROVE  OpenFamilies \subseteq Families /\ Families \subseteq SessionId
  BY DEF OpenFamilies, Families, Committed, IInv, Rows

(* Nothing opens or closes, and the account is not barred anew.              *)
LEMMA Unbarring ==
    ASSUME OpenFamilies' = OpenFamilies, Families' = Families, Barred' \subseteq Barred
    PROVE  Authority!Next
  <1>1. Authority!Unbar
    BY DEF Authority!Unbar, Barred, Families
  <1>2. QED
    BY <1>1 DEF Authority!Next

(* An account in good standing opens a family, beside its others or in their *)
(* place.                                                                    *)
LEMMA Opening ==
    ASSUME IInv, Barred = {}, Barred' = {}, NEW f \in SessionId, f \notin Families,
           Families' = Families \cup {f},
           OpenFamilies' = OpenFamilies \cup {f} \/ OpenFamilies' = {f}
    PROVE  Authority!Next
  <1>1. OpenFamilies \subseteq Families
    BY OpenHasRows
  <1>2. f \in Authority!Unborn
    BY <1>1 DEF Authority!Unborn, Families
  <1>3. CASE OpenFamilies' = OpenFamilies \cup {f}
    <2>1. Opened' = [Opened EXCEPT !["account"] = @ \cup {f}] /\ Closed' = Closed
      BY <1>1, <1>3 DEF Opened, Closed
    <2>2. Authority!Open("account", f)
      BY <1>2, <2>1 DEF Authority!Open, Barred, Opened, Closed, Families
    <2>3. QED
      BY <2>2 DEF Authority!Next
  <1>4. CASE OpenFamilies' = {f}
    <2>1. Opened' = [Opened EXCEPT !["account"] = {f}] /\ Closed' = Closed \cup OpenFamilies
      BY <1>1, <1>4 DEF Opened, Closed
    <2>2. Authority!Exchange("account", f)
      BY <1>2, <2>1 DEF Authority!Exchange, Barred, Opened, Closed, Families
    <2>3. QED
      BY <2>2 DEF Authority!Next
  <1>5. QED
    BY <1>3, <1>4

(* One family ends, or all of them.                                          *)
LEMMA Closing ==
    ASSUME IInv, Barred' = Barred, Families' = Families, NEW F \in SUBSET OpenFamilies,
           F = OpenFamilies \/ \E f \in OpenFamilies : F = {f},
           OpenFamilies' = OpenFamilies \ F
    PROVE  Authority!Next
  <1>1. OpenFamilies \subseteq Families
    BY OpenHasRows
  <1>2. Opened' = [Opened EXCEPT !["account"] = @ \ F] /\ Closed' = Closed \cup F
    BY <1>1 DEF Opened, Closed
  <1>3. Authority!Close("account", F)
    BY <1>2 DEF Authority!Close, Barred, Opened, Closed, Families
  <1>4. QED
    BY <1>3 DEF Authority!Next

(* revoke_user_sessions ends any of the families.                            *)
LEMMA ClosingSome ==
    ASSUME IInv, "revokeUserSessions" \in Ops, Barred' = Barred, Families' = Families,
           NEW F \in SUBSET OpenFamilies, OpenFamilies' = OpenFamilies \ F
    PROVE  Authority!Next
  <1>1. OpenFamilies \subseteq Families
    BY OpenHasRows
  <1>2. Opened' = [Opened EXCEPT !["account"] = @ \ F] /\ Closed' = Closed \cup F
    BY <1>1 DEF Opened, Closed
  <1>3. Authority!CloseSome("account", F)
    BY <1>2 DEF Authority!CloseSome, Barred, Opened, Closed, Families
  <1>4. QED
    BY <1>3 DEF Authority!Next

(* The account loses its right, and with it everything it had.               *)
LEMMA Barring ==
    ASSUME IInv, Barred' = {"account"}, Families' = Families, OpenFamilies' = {}
    PROVE  Authority!Next
  <1>1. OpenFamilies \subseteq Families
    BY OpenHasRows
  <1>2. Opened' = [Opened EXCEPT !["account"] = {}] /\ Closed' = Closed \cup OpenFamilies
        /\ Barred' = Barred \cup {"account"}
    BY <1>1 DEF Opened, Closed, Barred
  <1>3. Authority!Bar("account")
    BY <1>2 DEF Authority!Bar, Barred, Opened, Closed, Families
  <1>4. QED
    BY <1>3 DEF Authority!Next

(* What a commit revokes: everything, or the families it was about.          *)
LEMMA CommittedRevocations ==
    ASSUME IInv, NEW p \in Process, request[p].op # "revokeUserSessions", Commit(p)
    PROVE  /\ EndsAll(p) => \A s \in Committed : sessions'[s].revoked
           /\ ~EndsAll(p) => \A s \in Committed :
                 sessions'[s].revoked <=>
                    sessions[s].revoked \/ sessions[s].family \in request[p].targets
  <1> DEFINE q == request[p]
  <1>1. Course(p) /\ Copies(p) /\ Revokes(p) /\ Rows /\ q.pc = "commit"
    BY DEF IInv, Commit
  <1>2. userLock = p
    BY <1>1 DEF Course, Copies, Locking
  <1>3. ASSUME NEW s \in Committed
        PROVE  /\ Settled(p, s) => sessions'[s].revoked
               /\ sessions'[s].revoked =>
                     sessions[s].revoked \/ sessions[s].family \in q.targets
    <2>1. s \in SessionId /\ sessions'[s] = IF rowLock[s] = p THEN draft[s] ELSE sessions[s]
      BY CommittedRows
    <2>2. sessions[s].revoked => sessions'[s].revoked
      BY CommittedRows DEF RowsStay
    <2>3. QED
      BY <1>1, <2>1, <2>2 DEF Settled, Revokes
  <1>4. QED
    BY <1>1, <1>2, <1>3, CommittedRows DEF Revokes, Settled, RowsStay

(* revoke_user_sessions revokes rows and does nothing else.                  *)
LEMMA RevokeUserSessionsIsAbstract ==
    ASSUME IInv, NEW p \in Process, request[p].op = "revokeUserSessions", Commit(p)
    PROVE  Authority!Next
  <1> DEFINE Live == {s \in Committed : ~sessions[s].revoked}
             F == OpenFamilies \ OpenFamilies'
  <1>1. Course(p) /\ Copies(p) /\ request[p].pc = "commit" /\ clock' = clock
    BY DEF IInv, Commit
  <1>2. "revokeUserSessions" \in Ops
    BY <1>1 DEF Course
  <1>3. account' = account
    BY <1>1 DEF Commit, Copies
  <1>4. Barred' = Barred
    BY <1>1, <1>3 DEF Barred
  <1>5. Inserted(p) = {}
    BY CommittedRows
  <1>6. /\ Committed' = Committed
        /\ \A s \in Committed : /\ sessions'[s].family = sessions[s].family
                                /\ sessions[s].revoked => sessions'[s].revoked
    BY <1>5, CommittedRows DEF RowsStay
  <1>7. Families' = Families
    BY <1>6 DEF Families
  <1>8. OpenFamilies = {sessions[s].family : s \in Live}
    BY DEF OpenFamilies
  <1>9. OpenFamilies' = {sessions[s].family : s \in {r \in Committed : ~sessions'[r].revoked}}
    BY <1>6 DEF OpenFamilies
  <1>10. OpenFamilies' \subseteq OpenFamilies
    BY <1>6, <1>8, <1>9
  <1>11. F \in SUBSET OpenFamilies /\ OpenFamilies' = OpenFamilies \ F
    BY <1>10
  <1>12. QED
    BY <1>2, <1>4, <1>7, <1>11, ClosingSome

(* The commit of any other handler is a step of the authority.               *)
LEMMA CommitIsAbstract ==
    ASSUME IInv, NEW p \in Process, request[p].op # "revokeUserSessions", Commit(p)
    PROVE  Authority!Next
  <1> DEFINE q == request[p]
             Live == {s \in Committed : ~sessions[s].revoked}
  <1>1. Course(p) /\ Copies(p) /\ Drafts(p) /\ Revokes(p) /\ Rows /\ q.pc = "commit"
        /\ clock' = clock
    BY DEF IInv, Commit
  <1>2. /\ Committed' = Committed \cup Inserted(p)
        /\ \A s \in Committed : sessions'[s].family = sessions[s].family
    BY CommittedRows DEF RowsStay
  <1>3. userLock = p /\ account \in Account /\ clock \in Nat /\ q.now \in Nat /\ q.now <= clock
    BY <1>1, Fields DEF Course, Copies, Locking, IInv, Types
  <1>4. Families' = Families \cup {sessions'[s].family : s \in Inserted(p)}
    BY <1>2 DEF Families
  <1>5. OpenFamilies = {sessions[s].family : s \in Live}
    BY DEF OpenFamilies
  <1>6. OpenFamilies' = {sessions[s].family : s \in {r \in Committed : ~sessions'[r].revoked}}
                        \cup {sessions'[s].family : s \in Inserted(p)}
    BY <1>2, CommittedRows DEF OpenFamilies
  <1>7. CanAuthenticate(account, q.now) => Barred = {}
    BY <1>3, StillAble DEF Barred
  <1>8. EndsAll(p) => OpenFamilies' = {sessions'[s].family : s \in Inserted(p)}
    BY <1>6, CommittedRevocations
  <1>9. ~EndsAll(p) => Barred' \subseteq Barred
    BY <1>1, <1>3, LosingStanding DEF Barred
  <1>10. ~EndsAll(p) /\ q.targets = {} =>
            OpenFamilies' = OpenFamilies \cup {sessions'[s].family : s \in Inserted(p)}
    BY <1>5, <1>6, CommittedRevocations
  <1>11. CASE Inserted(p) # {}
    <2>1. PICK n \in Inserted(p) : Inserted(p) = {n}
      BY <1>1, <1>11 DEF Drafts
    <2>2. {sessions'[s].family : s \in Inserted(p)} = {sessions'[n].family}
      BY <2>1
    <2>3. CanAuthenticate(account, q.now) /\ n \in SessionId /\ n \notin Committed
      BY <2>1, CommittedRows
    <2>4. Barred = {} /\ Barred' = {}
      <3>1. Barred = {}
        BY <1>7, <2>3
      <3>2. CASE EndsAll(p)
        BY <1>1, <1>3, <2>3, <3>1, LosingStanding, <2>1, CommittedRows DEF Barred
      <3>3. QED
        BY <1>9, <3>1, <3>2
    <2>5. CASE sessions'[n].family = n
      <3>1. n \notin Families
        BY <1>1, <2>3 DEF Rows, Families
      <3>2. EndsAll(p) => OpenFamilies' = {n}
        BY <1>8, <2>2, <2>5
      <3>3. ~EndsAll(p) => OpenFamilies' = OpenFamilies \cup {n}
        <4>1. ~EndsAll(p) => q.targets = {}
          BY <1>1, <1>3, <2>1 DEF Revokes, Drafts
        <4>2. QED
          BY <1>10, <2>2, <2>5, <4>1
      <3>4. Families' = Families \cup {n}
        BY <1>4, <2>2, <2>5
      <3>5. QED
        BY <2>3, <2>4, <3>1, <3>2, <3>3, <3>4, Opening
    <2>6. CASE sessions'[n].family # n
      <3>1. /\ q.op = "refresh" /\ q.token \in Live /\ q.targets = {}
            /\ sessions'[n].family = sessions[q.token].family
        BY <2>1, <2>6, CommittedRows
      <3>2. ~EndsAll(p) /\ sessions'[n].family \in OpenFamilies
        BY <1>5, <3>1 DEF EndsAll
      <3>3. OpenFamilies' = OpenFamilies /\ Families' = Families
        BY <1>4, <1>10, <2>2, <3>1, <3>2, OpenHasRows
      <3>4. QED
        BY <2>4, <3>3, Unbarring
    <2>7. QED
      BY <2>5, <2>6
  <1>12. CASE Inserted(p) = {}
    <2>1. Families' = Families
      BY <1>4, <1>12
    <2>2. CASE EndsAll(p)
      <3>1. OpenFamilies' = {}
        BY <1>8, <1>12, <2>2
      <3>2. CASE Barred' = {}
        <4>1. q.op # "disable"
          <5> SUFFICES ASSUME q.op = "disable" PROVE FALSE
            OBVIOUS
          <5>1. account' = [account EXCEPT !.status = "disabled"]
            BY <1>1, <1>3 DEF Commit, Copies, Effect
          <5>2. ~CanAuthenticate(account', clock')
            BY <1>3, <5>1 DEF CanAuthenticate, Account
          <5>3. QED
            BY <3>2, <5>2 DEF Barred
        <4>2. q.dirty
          BY <1>1, <2>2 DEF Copies, EndsAll
        <4>3. Barred = {}
          BY <1>1, <1>3, <1>7, <2>2, <4>1, <4>2 DEF Copies, EndsAll
        <4>4. QED
          BY <2>1, <3>1, <3>2, <4>3, Closing
      <3>3. CASE Barred' = {"account"}
        BY <2>1, <3>1, <3>3, Barring
      <3>4. QED
        BY <3>2, <3>3 DEF Barred
    <2>3. CASE ~EndsAll(p) /\ q.targets = {}
      <3>1. OpenFamilies' = OpenFamilies
        BY <1>10, <1>12, <2>3
      <3>2. QED
        BY <1>9, <2>1, <2>3, <3>1, Unbarring
    <2>4. CASE ~EndsAll(p) /\ q.targets # {}
      <3> DEFINE f == sessions[q.token].family
      <3>1. q.op \in {"refresh", "logout"} /\ q.targets = {f} /\ ~sessions[q.token].revoked
        BY <1>1, <1>3, <2>4 DEF Revokes
      <3>2. q.token \in Live
        BY <1>1, <3>1 DEF Course, NeedsToken
      <3>3. account' = account
        BY <1>1, <3>1 DEF Commit, Copies
      <3>4. Barred' = Barred
        BY <1>1, <3>3 DEF Barred
      <3>5. OpenFamilies' = OpenFamilies \ {f}
        <4>1. {r \in Committed : ~sessions'[r].revoked} = {s \in Live : sessions[s].family # f}
          BY <2>4, <3>1, CommittedRevocations
        <4>2. QED
          BY <1>5, <1>6, <1>12, <4>1
      <3>6. f \in OpenFamilies
        BY <1>5, <3>2
      <3>7. QED
        BY <2>1, <3>4, <3>5, <3>6, Closing
    <2>5. QED
      BY <2>2, <2>3, <2>4
  <1>13. QED
    BY <1>11, <1>12

(* Seen through what is committed, the statements of the handlers implement  *)
(* what the session services promise, however requests interleave, fail and  *)
(* are cancelled: with families that end one at a time or all together when  *)
(* revoke_user_sessions is not among the handlers, and, when it is, with any *)
(* of them ending.                                                           *)
THEOREM TransactionsImplementAuthority == Spec => ImplementsAuthority
  <1>1. Init => Authority!Init
    <2> SUFFICES ASSUME Init PROVE Authority!Init
      OBVIOUS
    <2>1. Barred = {}
      BY DEF Init, Barred, CanAuthenticate
    <2>2. OpenFamilies = {First} /\ Families = {First} /\ First \in SessionId
      BY FirstRows DEF OpenFamilies, Families
    <2>3. Closed = {} /\ Opened \in [{"account"} -> SUBSET SessionId]
      BY <2>2 DEF Closed, Opened
    <2>4. QED
      BY <2>1, <2>3 DEF Authority!Init, Barred, Opened, Closed, Families
  <1>2. IInv /\ [Next]_vars => [Authority!Next]_(Authority!vars)
    <2> SUFFICES ASSUME IInv, [Next]_vars PROVE [Authority!Next]_(Authority!vars)
      OBVIOUS
    <2>1. CASE UNCHANGED <<clock, account, sessions>>
      BY <2>1 DEF Authority!vars, OpenFamilies, Committed
    <2>2. CASE Tick
      <3>1. UNCHANGED <<account, sessions>> /\ clock' = clock + 1
        BY <2>2 DEF Tick
      <3>2. account \in Account /\ clock \in Nat /\ clock' \in Nat /\ clock <= clock'
        BY <3>1, LimitsAssumption DEF IInv, Types
      <3>3. Barred' \subseteq Barred
        BY <3>1, <3>2, StillAble DEF Barred
      <3>4. QED
        BY <3>1, <3>3, Unbarring DEF OpenFamilies, Families, Committed
    <2>3. CASE \E p \in Process : Commit(p)
      BY <2>3, CommitIsAbstract, RevokeUserSessionsIsAbstract
    <2>4. QED
      BY <2>1, <2>2, <2>3, StepKinds DEF vars
  <1>3. QED
    BY <1>1, <1>2, InvariantHolds, PTL DEF Spec, ImplementsAuthority, Authority!Spec
=============================================================================
