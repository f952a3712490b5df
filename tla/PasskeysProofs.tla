---------------------------- MODULE PasskeysProofs ----------------------------
(***************************************************************************)
(* Theorems about module Passkeys, for every set of requests, accounts,    *)
(* credentials, challenges and sessions.                                   *)
(*                                                                         *)
(* The argument is the one the code relies on: a request that decides      *)
(* holds the locks of the rows it decides on and has their present values, *)
(* so that no other request changes them before it commits; and a          *)
(* challenge, once consumed, is in the hands of one request.               *)
(***************************************************************************)
EXTENDS Passkeys, TLAPS, FiniteSetTheorems

Locks == Account \cup Credential \cup SessionId

(* The requests that come with a session's principal.                        *)
WithPrincipal == {"beginRegistration", "beginReauthentication", "finishRegistration",
                  "finishReauthentication", "revokePasskey", "logout"}

(* The requests that lock an existing passkey.                               *)
WithPasskey == {"finishAuthentication", "finishReauthentication", "revokePasskey"}

(* The statements after the passkey's, and after the account's.              *)
PastPasskey == {"user", "verify", "session", "commit"}

PastUser == {"insert", "verify", "session", "rows", "commit"}

(* The statement a request is at belongs to its handler, and it has read     *)
(* what the statement needs.                                                 *)
Course(r) ==
    /\ r.op = "none" <=> r.pc = "idle"
    /\ r.op \in Beginning => r.pc = "begin"
    /\ r.op = "finishRegistration" => r.pc \in {"consume", "user", "insert", "commit"}
    /\ r.op = "finishAuthentication" =>
          r.pc \in {"consume", "passkey", "user", "verify", "commit"}
    /\ r.op = "finishReauthentication" =>
          r.pc \in {"consume", "passkey", "user", "verify", "session", "commit"}
    /\ r.op = "revokePasskey" => r.pc \in {"passkey", "user", "commit"}
    /\ r.op = "logout" => r.pc \in {"user", "session", "commit"}
    /\ r.op = "disable" => r.pc \in {"user", "rows", "commit"}
    /\ r.op \in WithPrincipal => r.session \in SessionId /\ r.account \in Account
    /\ r.op = "disable" => r.account \in Account
    /\ r.op = "beginAuthentication" => r.account = None
    /\ r.op = "finishAuthentication" =>
          (r.account = None) <=> (r.pc \in {"consume", "passkey"})
    /\ r.challenge # None <=> r.op \in Finishing /\ r.pc # "consume"
    /\ r.credential # None <=> r.challenge # None \/ r.op = "revokePasskey"

(* What a request holds and knows at each statement.                         *)
Holds(p) ==
    LET r == request[p]
    IN  /\ r.op \in WithPrincipal => sessions[r.session].owner = r.account
        /\ r.op \in WithPasskey /\ r.pc \in PastPasskey =>
              /\ holder[r.credential] = p /\ r.stored = passkeys[r.credential]
              /\ r.stored.owner = r.account /\ ~r.stored.revoked
        /\ r.pc \in PastUser =>
              /\ holder[r.account] = p /\ r.user = accounts[r.account]
              /\ r.op \notin {"logout", "disable"} => r.user = "active"
        /\ r.op = "finishRegistration" /\ r.pc = "commit" =>
              /\ holder[r.credential] = p /\ passkeys[r.credential].owner = None
              /\ Cardinality(Active(r.account)) < MaxCredentials
        /\ \/ r.op = "finishAuthentication" /\ r.pc = "commit"
           \/ r.op = "finishReauthentication" /\ r.pc \in {"session", "commit"}
           => CounterGrows(r.stored.count, r.count)
        /\ r.op \in {"finishReauthentication", "logout"} /\ r.pc = "commit" =>
              holder[r.session] = p /\ ~sessions[r.session].revoked
        /\ r.op = "disable" /\ r.pc = "commit" =>
              \A s \in LiveSessions(r.account) : holder[s] = p

(* A challenge is open, is in one request's hands, or has had its outcome.   *)
Spent(ch) == challenges[ch].purpose = "closed"

InHand(ch) == {p \in Process : request[p].challenge = ch}

ChallengeOK(ch) ==
    /\ ~Spent(ch) => InHand(ch) = {} /\ outcomes[ch] = 0
    /\ InHand(ch) # {} => outcomes[ch] = 0
    /\ outcomes[ch] <= 1
    /\ \A p, q \in InHand(ch) : p = q

(* The inductive invariant.                                                  *)
IInv ==
    /\ TypeOK
    /\ WithinLimit
    /\ \A p \in Process : Course(request[p])
    /\ \A p \in Process : Holds(p)
    /\ \A ch \in Challenge : ChallengeOK(ch)


-----------------------------------------------------------------------------
(* What comes next in each handler.                                          *)
LEMMA Courses ==
    ASSUME NEW p \in Process, Course(request[p]), request[p].op \in AllOps,
           request[p].pc \notin {"begin", "consume", "commit"}
    PROVE  /\ request[p].op = "finishRegistration" =>
                 \/ At(p, "user") /\ After(p) = "insert"
                 \/ At(p, "insert") /\ After(p) = "commit"
           /\ request[p].op = "finishAuthentication" =>
                 \/ At(p, "passkey") /\ After(p) = "user"
                 \/ At(p, "user") /\ After(p) = "verify"
                 \/ At(p, "verify") /\ After(p) = "commit"
           /\ request[p].op = "finishReauthentication" =>
                 \/ At(p, "passkey") /\ After(p) = "user"
                 \/ At(p, "user") /\ After(p) = "verify"
                 \/ At(p, "verify") /\ After(p) = "session"
                 \/ At(p, "session") /\ After(p) = "commit"
           /\ request[p].op = "revokePasskey" =>
                 \/ At(p, "passkey") /\ After(p) = "user"
                 \/ At(p, "user") /\ After(p) = "commit"
           /\ request[p].op = "logout" =>
                 \/ At(p, "user") /\ After(p) = "session"
                 \/ At(p, "session") /\ After(p) = "commit"
           /\ request[p].op = "disable" =>
                 \/ At(p, "user") /\ After(p) = "rows"
                 \/ At(p, "rows") /\ After(p) = "commit"
           /\ request[p].op \notin Beginning
  <1> DEFINE op == request[p].op
             pc == request[p].pc
  <1>1. CASE op = "finishRegistration"
    <2>1. pc \in {"user", "insert"}
      BY <1>1 DEF Course
    <2>2. After(p) = [idle |-> "user", user |-> "insert", insert |-> "commit"][pc]
      BY <1>1 DEF After, Order
    <2>3. QED
      BY <1>1, <2>1, <2>2 DEF At, Beginning
  <1>2. CASE op = "finishAuthentication"
    <2>1. pc \in {"passkey", "user", "verify"}
      BY <1>2 DEF Course
    <2>2. After(p) = [idle |-> "passkey", passkey |-> "user", user |-> "verify",
                      verify |-> "commit"][pc]
      BY <1>2 DEF After, Order
    <2>3. QED
      BY <1>2, <2>1, <2>2 DEF At, Beginning
  <1>3. CASE op = "finishReauthentication"
    <2>1. pc \in {"passkey", "user", "verify", "session"}
      BY <1>3 DEF Course
    <2>2. After(p) = [idle |-> "passkey", passkey |-> "user", user |-> "verify",
                      verify |-> "session", session |-> "commit"][pc]
      BY <1>3 DEF After, Order
    <2>3. QED
      BY <1>3, <2>1, <2>2 DEF At, Beginning
  <1>4. CASE op = "revokePasskey"
    <2>1. pc \in {"passkey", "user"}
      BY <1>4 DEF Course
    <2>2. After(p) = RevocationOrder[pc]
      BY <1>4 DEF After, Order
    <2>3. QED
      BY <1>4, <2>1, <2>2 DEF At, Beginning, RevocationOrder
  <1>5. CASE op = "logout"
    <2>1. pc \in {"user", "session"}
      BY <1>5 DEF Course
    <2>2. After(p) = [idle |-> "user", user |-> "session", session |-> "commit"][pc]
      BY <1>5 DEF After, Order
    <2>3. QED
      BY <1>5, <2>1, <2>2 DEF At, Beginning
  <1>6. CASE op = "disable"
    <2>1. pc \in {"user", "rows"}
      BY <1>6 DEF Course
    <2>2. After(p) = [idle |-> "user", user |-> "rows", rows |-> "commit"][pc]
      BY <1>6 DEF After, Order
    <2>3. QED
      BY <1>6, <2>1, <2>2 DEF At, Beginning
  <1>7. op \notin Beginning
    BY DEF Course
  <1>8. QED
    BY <1>1, <1>2, <1>3, <1>4, <1>5, <1>6, <1>7 DEF AllOps, Finishing

(* A deciding transaction's first statement.                                 *)
LEMMA FirstSteps ==
    /\ First("finishRegistration") = "user" /\ First("finishAuthentication") = "passkey"
    /\ First("finishReauthentication") = "passkey" /\ First("revokePasskey") = "passkey"
    /\ First("logout") = "user" /\ First("disable") = "user"
  BY DEF First, Order, RevocationOrder

(* Nobody's locks but its own change when a request takes or releases some.  *)
LEMMA OthersKeepLocks ==
    ASSUME LocksTypeOK, NEW p \in Process, NEW q \in Process, p # q,
           NEW l \in Locks, holder[l] = q,
           \/ UNCHANGED holder
           \/ ReleaseAll(p)
           \/ \E m \in Locks : Take(p, m)
    PROVE  holder'[l] = q
  BY NullAssumption DEF LocksTypeOK, ReleaseAll, Take, Free, Locks

(* Locks keep their type.                                                    *)
LEMMA LocksType ==
    ASSUME LocksTypeOK, NEW p \in Process,
           \/ UNCHANGED holder
           \/ ReleaseAll(p)
           \/ \E m \in Locks : Take(p, m)
    PROVE  LocksTypeOK'
  BY DEF LocksTypeOK, ReleaseAll, Take, Locks

-----------------------------------------------------------------------------
(* What a step of p may do to the rows that others rely on: no session       *)
(* changes hands, no row changes that another request holds, and an account  *)
(* that another request holds gets no new passkey and no new session.        *)
Gentle(p) ==
    /\ \A s \in SessionId : sessions[s].owner # None => sessions'[s].owner = sessions[s].owner
    /\ \A q \in Process \ {p} :
          /\ \A c \in Credential : holder[c] = q => passkeys'[c] = passkeys[c]
          /\ \A a \in Account : holder[a] = q =>
                /\ accounts'[a] = accounts[a]
                /\ Active(a)' \subseteq Active(a)
                /\ LiveSessions(a)' \subseteq LiveSessions(a)
          /\ \A s \in Committed : holder[s] = q => sessions'[s] = sessions[s]

(* Fewer passkeys are fewer.                                                 *)
LEMMA FewerPasskeys ==
    ASSUME NEW a \in Account, Active(a)' \subseteq Active(a)
    PROVE  /\ Cardinality(Active(a))' <= Cardinality(Active(a))
           /\ Cardinality(Active(a)) \in Nat /\ Cardinality(Active(a))' \in Nat
  <1>1. IsFiniteSet(Active(a)) /\ IsFiniteSet(Active(a)')
    BY RowsAssumption, FS_Subset DEF Active
  <1>2. QED
    BY <1>1, FS_Subset, FS_CardinalityType

(* What another request holds and knows is not disturbed.                    *)
LEMMA OthersHold ==
    ASSUME LocksTypeOK, NEW p \in Process, NEW q \in Process, p # q,
           request[q] \in Request, Course(request[q]), Holds(q), Gentle(p),
           request'[q] = request[q],
           \/ UNCHANGED holder
           \/ ReleaseAll(p)
           \/ \E m \in Locks : Take(p, m)
    PROVE  Holds(q)'
  <1> DEFINE r == request[q]
  <1>1. \A l \in Locks : holder[l] = q => holder'[l] = q
    BY OthersKeepLocks
  <1>2. /\ r.pc \in PastUser => r.account \in Account
        /\ r.op \in WithPasskey /\ r.pc \in PastPasskey => r.credential \in Credential
        /\ r.op = "finishRegistration" /\ r.pc = "commit" => r.credential \in Credential
        /\ r.op \in WithPrincipal => r.session \in SessionId /\ r.account \in Account
    BY DEF Course, PastUser, WithPasskey, PastPasskey, WithPrincipal, Request, AllOps,
           Finishing, Beginning
  <1>3. r.op \in WithPrincipal => sessions'[r.session].owner = r.account
    BY <1>2, NullAssumption DEF Holds, Gentle
  <1>4. r.op \in WithPasskey /\ r.pc \in PastPasskey =>
              /\ holder'[r.credential] = q /\ r.stored = passkeys'[r.credential]
              /\ r.stored.owner = r.account /\ ~r.stored.revoked
    BY <1>1, <1>2 DEF Holds, Gentle, Locks
  <1>5. r.pc \in PastUser =>
              /\ holder'[r.account] = q /\ r.user = accounts'[r.account]
              /\ r.op \notin {"logout", "disable"} => r.user = "active"
    BY <1>1, <1>2 DEF Holds, Gentle, Locks
  <1>6. ASSUME r.op = "finishRegistration", r.pc = "commit"
        PROVE  /\ holder'[r.credential] = q /\ passkeys'[r.credential].owner = None
               /\ Cardinality(Active(r.account))' < MaxCredentials
    <2>1. r.account \in Account /\ holder[r.account] = q
      BY <1>2, <1>6 DEF Holds, PastUser
    <2>2. Active(r.account)' \subseteq Active(r.account)
      BY <2>1 DEF Gentle
    <2>3. /\ Cardinality(Active(r.account))' <= Cardinality(Active(r.account))
          /\ Cardinality(Active(r.account)) \in Nat /\ Cardinality(Active(r.account))' \in Nat
      BY <2>1, <2>2, FewerPasskeys
    <2>4. Cardinality(Active(r.account)) < MaxCredentials
      BY <1>6 DEF Holds
    <2>5. holder'[r.credential] = q /\ passkeys'[r.credential].owner = None
      BY <1>1, <1>2, <1>6 DEF Holds, Gentle, Locks
    <2>6. QED
      BY <2>3, <2>4, <2>5, LimitsAssumption
  <1>7. \/ r.op = "finishAuthentication" /\ r.pc = "commit"
        \/ r.op = "finishReauthentication" /\ r.pc \in {"session", "commit"}
        => CounterGrows(r.stored.count, r.count)
    BY DEF Holds
  <1>8. r.op \in {"finishReauthentication", "logout"} /\ r.pc = "commit" =>
            holder'[r.session] = q /\ ~sessions'[r.session].revoked
    BY <1>1, <1>2, NullAssumption DEF Holds, Gentle, Locks, WithPrincipal, Committed
  <1>9. ASSUME r.op = "disable", r.pc = "commit", NEW s \in LiveSessions(r.account)'
        PROVE  holder'[s] = q
    <2>1. r.account \in Account /\ holder[r.account] = q
      BY <1>2, <1>9 DEF Holds, PastUser
    <2>2. s \in LiveSessions(r.account) /\ s \in SessionId
      BY <2>1, <1>9 DEF Gentle, LiveSessions
    <2>3. holder[s] = q
      BY <1>9, <2>2 DEF Holds
    <2>4. QED
      BY <1>1, <2>2, <2>3 DEF Locks
  <1>10. QED
    BY <1>3, <1>4, <1>5, <1>6, <1>7, <1>8, <1>9 DEF Holds, CounterGrows

-----------------------------------------------------------------------------
(* Challenges.  A step may leave a challenge and its request alone, put a    *)
(* challenge that was not spent into the request's hands, or turn one in its *)
(* hands into an outcome.                                                    *)
Handles(p, r, ch) ==
    \/ /\ outcomes'[ch] = outcomes[ch]
       /\ Spent(ch) => Spent(ch)'
       /\ r.challenge = ch => request[p].challenge = ch
    \/ /\ ~Spent(ch) /\ Spent(ch)'
       /\ outcomes'[ch] = outcomes[ch]
    \/ /\ request[p].challenge = ch /\ r.challenge # ch
       /\ outcomes'[ch] = outcomes[ch] + 1
       /\ Spent(ch) => Spent(ch)'

(* However a challenge is handled, it has one outcome at most.               *)
LEMMA ChallengesKept ==
    ASSUME request \in [Process -> Request], NEW p \in Process, NEW r,
           request' = [request EXCEPT ![p] = r],
           NEW ch \in Challenge, ChallengeOK(ch), Handles(p, r, ch), outcomes[ch] \in Nat
    PROVE  ChallengeOK(ch)'
  <1>1. request'[p] = r /\ \A q \in Process : q # p => request'[q] = request[q]
    OBVIOUS
  <1>2. CASE /\ outcomes'[ch] = outcomes[ch]
             /\ Spent(ch) => Spent(ch)'
             /\ r.challenge = ch => request[p].challenge = ch
    <2>1. InHand(ch)' \subseteq InHand(ch)
      BY <1>1, <1>2 DEF InHand
    <2>2. QED
      BY <1>2, <2>1 DEF ChallengeOK
  <1>3. CASE ~Spent(ch) /\ Spent(ch)' /\ outcomes'[ch] = outcomes[ch]
    <2>1. InHand(ch) = {} /\ outcomes[ch] = 0
      BY <1>3 DEF ChallengeOK
    <2>2. InHand(ch)' \subseteq {p}
      BY <1>1, <2>1 DEF InHand
    <2>3. QED
      BY <1>3, <2>1, <2>2 DEF ChallengeOK
  <1>4. CASE /\ request[p].challenge = ch /\ r.challenge # ch
             /\ outcomes'[ch] = outcomes[ch] + 1
             /\ Spent(ch) => Spent(ch)'
    <2>1. p \in InHand(ch)
      BY <1>4 DEF InHand
    <2>2. InHand(ch)' = {}
      <3>1. \A q \in InHand(ch) : q = p
        BY <2>1 DEF ChallengeOK
      <3>2. QED
        BY <1>1, <1>4, <3>1 DEF InHand
    <2>3. outcomes[ch] = 0 /\ Spent(ch)
      BY <2>1 DEF ChallengeOK
    <2>4. QED
      BY <1>4, <2>2, <2>3 DEF ChallengeOK
  <1>5. QED
    BY <1>2, <1>3, <1>4 DEF Handles

(* A challenge's row is of its type and names whom its purpose says.         *)
ChallengesTyped ==
    /\ challenges \in [Challenge -> ChallengeRow]
    /\ \A ch \in Open :
          /\ (challenges[ch].account = None) <=> (challenges[ch].purpose = "authentication")
          /\ (challenges[ch].session # None) <=> (challenges[ch].purpose = "reauthentication")

(* One request moves, gently: then it has only itself to look after.         *)
LEMMA OneMoves ==
    ASSUME IInv, NEW p \in Process, NEW r \in Request,
           request' = [request EXCEPT ![p] = r],
           Course(r), Holds(p)', Gentle(p),
           accounts' \in [Account -> Status], passkeys' \in [Credential -> Passkey],
           sessions' \in [SessionId -> Session], outcomes' \in [Challenge -> Nat],
           ChallengesTyped', WithinLimit',
           \A ch \in Challenge : Handles(p, r, ch),
           \/ ReleaseAll(p)
           \/ /\ r.pc # "idle"
              /\ \/ UNCHANGED holder
                 \/ \E m \in Locks : Take(p, m)
    PROVE  IInv'
  <1>1. LocksTypeOK'
    BY LocksType DEF IInv, TypeOK
  <1>2. request' \in [Process -> Request]
    BY DEF IInv, TypeOK
  <1>3. request'[p] = r /\ \A q \in Process : q # p => request'[q] = request[q]
    BY DEF IInv, TypeOK
  <1>4. ASSUME NEW q \in Process, At(q, "idle")', NEW l \in DOMAIN holder'
        PROVE  holder'[l] # q
    <2>1. l \in Locks /\ l \in DOMAIN holder
      BY <1>1 DEF LocksTypeOK, Locks, IInv, TypeOK
    <2>2. CASE q = p
      BY <2>1, <2>2, <1>3, <1>4, NullAssumption
         DEF At, ReleaseAll, IInv, TypeOK, LocksTypeOK, Locks
    <2>3. CASE q # p
      <3>1. At(q, "idle")
        BY <2>3, <1>3, <1>4 DEF At
      <3>2. holder[l] # q
        BY <2>1, <3>1 DEF IInv, TypeOK
      <3>3. QED
        BY <2>1, <2>3, <3>2, NullAssumption
           DEF ReleaseAll, Take, IInv, TypeOK, LocksTypeOK, Locks
    <2>4. QED
      BY <2>2, <2>3
  <1>5. TypeOK'
    BY <1>1, <1>2, <1>4 DEF TypeOK, ChallengesTyped
  <1>6. \A q \in Process : Course(request[q])'
    BY <1>3 DEF IInv, Course
  <1>7. ASSUME NEW q \in Process PROVE Holds(q)'
    <2>1. CASE q = p
      BY <2>1
    <2>2. CASE q # p
      BY <2>2, <1>3, OthersHold DEF IInv, TypeOK
    <2>3. QED
      BY <2>1, <2>2
  <1>8. \A ch \in Challenge : ChallengeOK(ch)'
    BY ChallengesKept DEF IInv, TypeOK
  <1>9. QED
    BY <1>5, <1>6, <1>7, <1>8 DEF IInv

-----------------------------------------------------------------------------
(* A transaction that ends: its request has nothing to hold any more.        *)
LEMMA Ending ==
    ASSUME IInv, NEW p \in Process, End(p), Gentle(p),
           accounts' \in [Account -> Status], passkeys' \in [Credential -> Passkey],
           sessions' \in [SessionId -> Session], outcomes' \in [Challenge -> Nat],
           ChallengesTyped', WithinLimit',
           \A ch \in Challenge : Handles(p, Idle, ch)
    PROVE  IInv'
  <1>1. Idle \in Request
    BY LimitsAssumption DEF Idle, Request, Step, Status, Passkey, NoPasskey
  <1>2. Course(Idle)
    BY DEF Idle, Course, Beginning, Finishing, WithPrincipal
  <1>3. request' = [request EXCEPT ![p] = Idle] /\ ReleaseAll(p)
    BY DEF End
  <1>4. request'[p] = Idle
    BY <1>3 DEF IInv, TypeOK
  <1>5. Holds(p)'
    BY <1>4 DEF Holds, Idle, WithPrincipal, WithPasskey, PastUser
  <1> QED
    BY <1>1, <1>2, <1>3, <1>5, OneMoves

(* A statement that writes no row disturbs nobody.                           *)
LEMMA Quiet ==
    ASSUME IInv, NEW p \in Process, UNCHANGED <<accounts, passkeys, sessions>>
    PROVE  /\ Gentle(p)
           /\ WithinLimit'
           /\ accounts' \in [Account -> Status] /\ passkeys' \in [Credential -> Passkey]
           /\ sessions' \in [SessionId -> Session]
  <1>1. Gentle(p)
    BY DEF Gentle, Active, LiveSessions
  <1>2. \A a \in Account : Active(a)' = Active(a)
    BY DEF Active
  <1>3. WithinLimit'
    BY <1>2 DEF IInv, WithinLimit
  <1>4. QED
    BY <1>1, <1>3 DEF IInv, TypeOK

(* Where challenges rest, nothing happens to one that is not picked up.      *)
LEMMA ChallengesRest ==
    ASSUME IInv, NEW p \in Process, UNCHANGED <<challenges, outcomes>>,
           NEW r, r.challenge \in {None, request[p].challenge}
    PROVE  /\ ChallengesTyped'
           /\ outcomes' \in [Challenge -> Nat]
           /\ \A ch \in Challenge : Handles(p, r, ch)
  <1>1. ChallengesTyped'
    BY DEF IInv, TypeOK, ChallengesTyped, Open
  <1>2. QED
    BY <1>1, NullAssumption DEF IInv, TypeOK, Handles, Spent

(* Refusals, conflicts and rollbacks.                                        *)
LEMMA Refusing ==
    ASSUME IInv, NEW p \in Process, End(p), UnchangedRows PROVE IInv'
  <1>1. Idle.challenge = None
    BY DEF Idle
  <1>2. QED
    BY <1>1, Ending, Quiet, ChallengesRest DEF UnchangedRows

(* The rows stay and the request goes on.                                    *)
LEMMA GoingOn ==
    ASSUME IInv, NEW p \in Process, NEW r \in Request, UnchangedRows,
           request' = [request EXCEPT ![p] = r], r.pc # "idle",
           r.challenge \in {None, request[p].challenge},
           Course(r), Holds(p)',
           \/ UNCHANGED holder
           \/ \E m \in Locks : Take(p, m)
    PROVE  IInv'
  <1>1. /\ Gentle(p) /\ WithinLimit'
        /\ accounts' \in [Account -> Status] /\ passkeys' \in [Credential -> Passkey]
        /\ sessions' \in [SessionId -> Session]
    BY Quiet DEF UnchangedRows
  <1>2. /\ ChallengesTyped' /\ outcomes' \in [Challenge -> Nat]
        /\ \A ch \in Challenge : Handles(p, r, ch)
    BY ChallengesRest DEF UnchangedRows
  <1>3. QED
    BY <1>1, <1>2, OneMoves

-----------------------------------------------------------------------------
(* What a request that has just come is.                                     *)
Sent(r, op, pc, a, s, c) ==
    /\ r \in Request /\ r.op = op /\ r.pc = pc /\ r.account = a /\ r.session = s
    /\ r.challenge = None /\ r.credential = c

(* An idle process has a request's fields, all of them empty.                *)
LEMMA IdleType == Sent(Idle, "none", "idle", None, None, None)
  BY LimitsAssumption DEF Sent, Idle, Request, Step, Status, Passkey, NoPasskey

(* A request without a principal.                                            *)
LEMMA SentAlone ==
    ASSUME NEW op \in AllOps, NEW pc \in Step
    PROVE  Sent([Idle EXCEPT !.op = op, !.pc = pc], op, pc, None, None, None)
  BY IdleType DEF Sent, Request

(* A request with one.                                                       *)
LEMMA SentWithPrincipal ==
    ASSUME NEW op \in AllOps, NEW pc \in Step, NEW s \in SessionId,
           sessions[s].owner \in Account
    PROVE  Sent(As(s, op, pc), op, pc, sessions[s].owner, s, None)
  BY IdleType DEF Sent, Request, As

(* A request comes with no lock, and with its principal's session if it has  *)
(* one.                                                                      *)
LEMMA Arriving ==
    ASSUME IInv, NEW p \in Process, NEW r \in Request, Arrive(p, r),
           r.op # "none", r.pc \in {"begin", "consume", "passkey", "user"},
           r.op \in WithPasskey => r.pc \in {"consume", "passkey"},
           r.challenge = None, Course(r),
           r.op \in WithPrincipal => sessions[r.session].owner = r.account
    PROVE  IInv'
  <1>1. request' = [request EXCEPT ![p] = r] /\ UNCHANGED holder /\ UnchangedRows
    BY DEF Arrive
  <1>2. request'[p] = r
    BY <1>1 DEF IInv, TypeOK
  <1>3. Holds(p)'
    BY <1>1, <1>2 DEF Holds, PastPasskey, PastUser, UnchangedRows
  <1>4. QED
    BY <1>1, <1>3, GoingOn

(* Every arrival.                                                            *)
LEMMA ArrivalsKeep ==
    ASSUME IInv, NEW p \in Process, Arrives(p)
    PROVE  IInv'
  <1> USE DEF AllOps, Beginning, Finishing, WithPrincipal, WithPasskey
  <1> USE DEF Step
  <1>1. ASSUME NEW op \in {"beginAuthentication", "finishAuthentication"},
               NEW pc \in {"begin", "consume"},
               op = "beginAuthentication" <=> pc = "begin",
               NEW r, Sent(r, op, pc, None, None, None), Arrive(p, r)
        PROVE  IInv'
    <2>1. Course(r)
      BY <1>1 DEF Course, Sent
    <2>2. QED
      BY <1>1, <2>1, Arriving DEF Sent
  <1>2. ASSUME NEW a \in Account, NEW r, Sent(r, "disable", "user", a, None, None),
               Arrive(p, r)
        PROVE  IInv'
    <2>1. Course(r)
      BY <1>2 DEF Course, Sent
    <2>2. QED
      BY <1>2, <2>1, Arriving DEF Sent
  <1>3. \A s \in Committed : s \in SessionId /\ sessions[s].owner \in Account
    BY DEF IInv, TypeOK, Committed, Session
  <1>4. ASSUME NEW op \in WithPrincipal, NEW pc \in {"begin", "consume", "passkey", "user"},
               NEW s \in Committed, NEW c \in Credential \cup {None},
               NEW r, Sent(r, op, pc, sessions[s].owner, s, c), Arrive(p, r),
               (op = "revokePasskey") <=> (c # None),
               op \in {"beginRegistration", "beginReauthentication"} => pc = "begin",
               op \in {"finishRegistration", "finishReauthentication"} => pc = "consume",
               op = "revokePasskey" => pc = "passkey",
               op = "logout" => pc = "user"
        PROVE  IInv'
    <2>1. Course(r)
      BY <1>3, <1>4 DEF Course, Sent
    <2>2. QED
      BY <1>4, <2>1, Arriving DEF Sent
  <1>5. ASSUME NEW op \in AllOps, NEW pc \in Step
        PROVE  Sent([Idle EXCEPT !.op = op, !.pc = pc], op, pc, None, None, None)
    BY SentAlone
  <1>6. CASE BeginAuthentication(p)
    <2>1. Sent([Idle EXCEPT !.op = "beginAuthentication", !.pc = "begin"],
               "beginAuthentication", "begin", None, None, None)
      BY <1>5
    <2>2. QED
      BY <1>1, <1>6, <2>1 DEF BeginAuthentication
  <1>7. CASE FinishAuthentication(p)
    <2>1. Sent([Idle EXCEPT !.op = "finishAuthentication", !.pc = "consume"],
               "finishAuthentication", "consume", None, None, None)
      BY <1>5
    <2>2. QED
      BY <1>1, <1>7, <2>1 DEF FinishAuthentication
  <1>8. ASSUME NEW a \in Account, Disable(p, a) PROVE IInv'
    <2> DEFINE r == [Idle EXCEPT !.op = "disable", !.pc = First("disable"), !.account = a]
    <2>1. Sent(r, "disable", "user", a, None, None)
      BY FirstSteps, IdleType DEF Sent, Request
    <2>2. Arrive(p, r)
      BY <1>8 DEF Disable
    <2> HIDE DEF r
    <2>3. QED
      BY <1>2, <2>1, <2>2
  <1>9. ASSUME NEW s \in Committed, NEW op \in AllOps, NEW pc \in Step
        PROVE  Sent(As(s, op, pc), op, pc, sessions[s].owner, s, None)
    BY <1>3, SentWithPrincipal
  <1>10. ASSUME NEW s \in Committed, Logout(p, s) PROVE IInv'
    <2>1. Sent(As(s, "logout", "user"), "logout", "user", sessions[s].owner, s, None)
      BY <1>9
    <2>2. Arrive(p, As(s, "logout", "user"))
      BY <1>10, FirstSteps DEF Logout
    <2>3. QED
      BY <1>4, <2>1, <2>2
  <1>11. ASSUME NEW s \in Committed,
                NEW op \in {"beginRegistration", "beginReauthentication"},
                Arrive(p, As(s, op, "begin"))
         PROVE  IInv'
    <2>1. Sent(As(s, op, "begin"), op, "begin", sessions[s].owner, s, None)
      BY <1>9
    <2>2. QED
      BY <1>4, <1>11, <2>1
  <1>12. ASSUME NEW s \in Committed,
                NEW op \in {"finishRegistration", "finishReauthentication"},
                Arrive(p, As(s, op, "consume"))
         PROVE  IInv'
    <2>1. Sent(As(s, op, "consume"), op, "consume", sessions[s].owner, s, None)
      BY <1>9
    <2>2. QED
      BY <1>4, <1>12, <2>1
  <1>13. ASSUME NEW s \in Committed, NEW c \in Credential, RevokePasskey(p, s, c)
         PROVE  IInv'
    <2> DEFINE r == [As(s, "revokePasskey", "passkey") EXCEPT !.credential = c]
    <2>1. Sent(As(s, "revokePasskey", "passkey"), "revokePasskey", "passkey",
               sessions[s].owner, s, None)
      BY <1>9
    <2>2. Sent(r, "revokePasskey", "passkey", sessions[s].owner, s, c)
      BY <2>1 DEF Sent, Request
    <2>3. Arrive(p, r)
      BY <1>13, FirstSteps DEF RevokePasskey
    <2> HIDE DEF r
    <2>4. QED
      BY <1>4, <2>2, <2>3, NullAssumption
  <1>14. QED
    BY <1>6, <1>7, <1>8, <1>10, <1>11, <1>12, <1>13
       DEF Arrives, Principal, BeginRegistration, BeginReauthentication,
           FinishRegistration, FinishReauthentication

-----------------------------------------------------------------------------
(* What a request holds it keeps, and what it takes it has.                  *)
LEMMA OwnLocks ==
    ASSUME LocksTypeOK, NEW p \in Process
    PROVE  /\ UNCHANGED holder => \A l \in Locks : holder[l] = p => holder'[l] = p
           /\ \A m \in Locks : Take(p, m) =>
                 holder'[m] = p /\ \A l \in Locks : holder[l] = p => holder'[l] = p
  BY DEF LocksTypeOK, Take, Locks

(* What is known of a request wherever it is.                                *)
LEMMA Known ==
    ASSUME IInv, NEW p \in Process
    PROVE  LET r == request[p]
           IN  /\ r \in Request /\ Course(r) /\ Holds(p) /\ LocksTypeOK
               /\ ~At(p, "idle") => r.op \in AllOps
               /\ r.op \in WithPrincipal => r.session \in SessionId /\ r.account \in Account
               /\ r.pc \in PastUser => r.account \in Account
               /\ r.op \in Finishing /\ r.pc # "consume" =>
                     r.challenge \in Challenge /\ r.credential \in Credential
               /\ r.op = "revokePasskey" => r.credential \in Credential
  <1>1. request[p] \in Request /\ Course(request[p]) /\ Holds(p) /\ LocksTypeOK
    BY DEF IInv, TypeOK
  <1>2. QED
    BY <1>1 DEF Course, Request, At, AllOps, Beginning, Finishing, WithPrincipal, PastUser

(* A passkey that is usable is locked when it is read: what the request goes *)
(* on with is the row's present value.                                       *)
LEMMA LockPasskeyKeeps ==
    ASSUME IInv, NEW p \in Process, LockPasskey(p) PROVE IInv'
  <1> DEFINE r == request[p]
             c == r.credential
             n == [r EXCEPT !.stored = passkeys[c], !.account = passkeys[c].owner,
                            !.pc = After(p)]
  <1>1. CASE End(p)
    BY <1>1, Refusing DEF LockPasskey
  <1>2. CASE ~End(p)
    <2>1. /\ request' = [request EXCEPT ![p] = n] /\ UnchangedRows /\ Take(p, c)
          /\ passkeys[c].owner # None /\ ~passkeys[c].revoked
          /\ r.op # "finishAuthentication" => passkeys[c].owner = r.account
          /\ r.pc = "passkey"
      BY <1>2 DEF LockPasskey, At
    <2>2. /\ r \in Request /\ Course(r) /\ Holds(p) /\ LocksTypeOK /\ r.op \in AllOps
          /\ r.op \in WithPasskey
      BY <2>1, Known DEF At, Course, AllOps, Beginning, Finishing, WithPasskey
    <2>3. /\ c \in Credential /\ passkeys[c] \in Passkey /\ passkeys[c].owner \in Account
      BY <2>1, <2>2, Known DEF Finishing, WithPasskey, IInv, TypeOK, Passkey
    <2>4. After(p) = "user"
      BY <2>1, <2>2, Courses DEF At, WithPasskey
    <2>5. /\ n \in Request /\ n.pc = "user" /\ n.stored = passkeys[c]
          /\ n.account = passkeys[c].owner /\ n.op = r.op /\ n.session = r.session
          /\ n.challenge = r.challenge /\ n.credential = c
      BY <2>2, <2>3, <2>4 DEF Request, Step
    <2> HIDE DEF n
    <2>6. Course(n)
      BY <2>1, <2>2, <2>3, <2>5, NullAssumption
         DEF Course, WithPasskey, WithPrincipal, Beginning, Finishing
    <2>7. request'[p] = n
      BY <2>1 DEF IInv, TypeOK
    <2>8. holder'[c] = p
      BY <2>1, <2>2, <2>3, OwnLocks DEF Locks
    <2>9. n.op \in WithPrincipal => sessions'[n.session].owner = n.account
      BY <2>1, <2>2, <2>5 DEF Holds, WithPrincipal, UnchangedRows
    <2>10. Holds(p)'
      BY <2>1, <2>5, <2>7, <2>8, <2>9 DEF Holds, PastUser, UnchangedRows
    <2>11. QED
      BY <2>1, <2>3, <2>5, <2>6, <2>10, GoingOn DEF Locks
  <1>3. QED
    BY <1>1, <1>2

(* So is an account that may go on.                                          *)
LEMMA LockUserKeeps ==
    ASSUME IInv, NEW p \in Process, LockUser(p) PROVE IInv'
  <1> DEFINE r == request[p]
             a == r.account
             n == [r EXCEPT !.user = accounts[a], !.pc = After(p)]
  <1>1. CASE End(p)
    BY <1>1, Refusing DEF LockUser
  <1>2. CASE ~End(p)
    <2>1. /\ request' = [request EXCEPT ![p] = n] /\ UnchangedRows /\ Take(p, a)
          /\ accounts[a] = "active" \/ r.op \in {"logout", "disable"}
          /\ r.pc = "user"
      BY <1>2 DEF LockUser, At
    <2>2. /\ r \in Request /\ Course(r) /\ Holds(p) /\ LocksTypeOK /\ r.op \in AllOps
          /\ r.op \notin Beginning
      BY <2>1, Known DEF At, Course
    <2>3. a \in Account /\ accounts[a] \in Status
      BY <2>1, <2>2, Known DEF AllOps, Finishing, WithPrincipal, Course, IInv, TypeOK, Request
    <2>4. /\ r.op = "finishRegistration" => After(p) = "insert"
          /\ r.op \in {"finishAuthentication", "finishReauthentication"} => After(p) = "verify"
          /\ r.op = "revokePasskey" => After(p) = "commit"
          /\ r.op = "logout" => After(p) = "session"
          /\ r.op = "disable" => After(p) = "rows"
      BY <2>1, <2>2, Courses DEF At
    <2>5. After(p) \in PastUser
      BY <2>2, <2>4 DEF AllOps, Finishing, PastUser
    <2>6. /\ n \in Request /\ n.pc = After(p) /\ n.user = accounts[a]
          /\ n.account = a /\ n.op = r.op /\ n.session = r.session /\ n.stored = r.stored
          /\ n.challenge = r.challenge /\ n.credential = r.credential
      BY <2>2, <2>3, <2>5 DEF Request, Step, PastUser
    <2> HIDE DEF n
    <2>7. Course(n)
      BY <2>1, <2>2, <2>3, <2>4, <2>5, <2>6, NullAssumption
         DEF Course, AllOps, WithPrincipal, Beginning, Finishing
    <2>8. request'[p] = n
      BY <2>1 DEF IInv, TypeOK
    <2>9. holder'[a] = p /\ \A l \in Locks : holder[l] = p => holder'[l] = p
      BY <2>1, <2>2, <2>3, OwnLocks DEF Locks
    <2>10. /\ n.op \in WithPrincipal => sessions'[n.session].owner = n.account
           /\ n.user = accounts'[a]
           /\ n.op \notin {"logout", "disable"} => n.user = "active"
      BY <2>1, <2>2, <2>6 DEF Holds, UnchangedRows
    <2>11. n.op \in WithPasskey =>
              /\ holder'[n.credential] = p /\ n.stored = passkeys'[n.credential]
              /\ n.stored.owner = n.account /\ ~n.stored.revoked
      <3>1. r.op \in WithPasskey => r.credential \in Locks
        BY <2>1, Known DEF WithPasskey, Finishing, Locks
      <3>2. QED
        BY <2>1, <2>2, <2>6, <2>9, <3>1 DEF Holds, PastPasskey, UnchangedRows
    <2>12. Holds(p)'
      BY <2>4, <2>6, <2>8, <2>9, <2>10, <2>11 DEF Holds
    <2>13. QED
      BY <2>1, <2>3, <2>5, <2>6, <2>7, <2>12, GoingOn DEF Locks, PastUser
  <1>3. QED
    BY <1>1, <1>2

(* An insertion has counted under the account's lock and has the credential. *)
LEMMA InsertPasskeyKeeps ==
    ASSUME IInv, NEW p \in Process, InsertPasskey(p) PROVE IInv'
  <1> DEFINE r == request[p]
             c == r.credential
             n == [r EXCEPT !.pc = After(p)]
  <1>1. CASE End(p)
    BY <1>1, Refusing DEF InsertPasskey
  <1>2. CASE ~End(p)
    <2>1. /\ request' = [request EXCEPT ![p] = n] /\ UnchangedRows /\ Take(p, c)
          /\ Cardinality(Active(r.account)) < MaxCredentials /\ passkeys[c].owner = None
          /\ r.pc = "insert"
      BY <1>2 DEF InsertPasskey, At, Goto
    <2>2. /\ r \in Request /\ Course(r) /\ Holds(p) /\ LocksTypeOK
          /\ r.op = "finishRegistration"
      BY <2>1, Known DEF At, Course, AllOps, Beginning, Finishing
    <2>3. c \in Credential /\ r.account \in Account
      BY <2>1, <2>2, Known DEF Finishing, PastUser
    <2>4. After(p) = "commit"
      BY <2>1, <2>2, Courses DEF At, AllOps, Finishing
    <2>5. /\ n \in Request /\ n.pc = "commit" /\ n.user = r.user
          /\ n.account = r.account /\ n.op = r.op /\ n.session = r.session
          /\ n.challenge = r.challenge /\ n.credential = c
      BY <2>2, <2>4 DEF Request, Step
    <2> HIDE DEF n
    <2>6. Course(n)
      BY <2>1, <2>2, <2>3, <2>5 DEF Course, WithPrincipal, Beginning, Finishing
    <2>7. request'[p] = n
      BY <2>1 DEF IInv, TypeOK
    <2>8. holder'[c] = p /\ \A l \in Locks : holder[l] = p => holder'[l] = p
      BY <2>1, <2>2, <2>3, OwnLocks DEF Locks
    <2>9. /\ sessions'[n.session].owner = n.account
          /\ holder'[n.account] = p /\ n.user = accounts'[n.account] /\ n.user = "active"
      BY <2>1, <2>2, <2>3, <2>5, <2>8
         DEF Holds, WithPrincipal, PastUser, UnchangedRows, Locks
    <2>10. passkeys'[c].owner = None /\ Cardinality(Active(request[p].account)') < MaxCredentials
      <3>1. Active(request[p].account)' = Active(r.account)
        BY <2>1, <2>5, <2>7 DEF UnchangedRows, Active
      <3>2. QED
        BY <2>1, <3>1 DEF UnchangedRows
    <2>11. Holds(p)'
      BY <2>2, <2>5, <2>7, <2>8, <2>9, <2>10 DEF Holds, WithPasskey
    <2>12. QED
      BY <2>1, <2>3, <2>5, <2>6, <2>11, GoingOn DEF Locks
  <1>3. QED
    BY <1>1, <1>2

(* What is verified is the passkey the request holds.                        *)
LEMMA VerifyKeeps ==
    ASSUME IInv, NEW p \in Process, NEW count \in Counts, NEW good \in BOOLEAN,
           Verify(p, count, good)
    PROVE  IInv'
  <1> DEFINE r == request[p]
             n == [r EXCEPT !.count = count, !.pc = After(p)]
  <1>1. CASE End(p)
    BY <1>1, Refusing DEF Verify
  <1>2. CASE ~End(p)
    <2>1. /\ request' = [request EXCEPT ![p] = n] /\ UnchangedRows /\ UNCHANGED holder
          /\ CounterGrows(r.stored.count, count)
          /\ r.pc = "verify"
      BY <1>2 DEF Verify, At
    <2>2. /\ r \in Request /\ Course(r) /\ Holds(p) /\ LocksTypeOK
          /\ r.op \in {"finishAuthentication", "finishReauthentication"}
      BY <2>1, Known DEF At, Course, AllOps, Beginning, Finishing
    <2>3. /\ r.op = "finishAuthentication" => After(p) = "commit"
          /\ r.op = "finishReauthentication" => After(p) = "session"
      BY <2>1, <2>2, Courses DEF At, AllOps, Finishing
    <2>4. /\ n \in Request /\ n.pc = After(p) /\ n.user = r.user /\ n.count = count
          /\ n.account = r.account /\ n.op = r.op /\ n.session = r.session
          /\ n.stored = r.stored /\ n.challenge = r.challenge /\ n.credential = r.credential
      BY <2>2, <2>3 DEF Request, Step, Counts
    <2> HIDE DEF n
    <2>5. Course(n)
      BY <2>1, <2>2, <2>3, <2>4 DEF Course, WithPrincipal, Beginning, Finishing
    <2>6. request'[p] = n
      BY <2>1 DEF IInv, TypeOK
    <2>7. /\ n.op \in WithPrincipal => sessions'[n.session].owner = n.account
          /\ holder'[n.account] = p /\ n.user = accounts'[n.account] /\ n.user = "active"
          /\ holder'[n.credential] = p /\ n.stored = passkeys'[n.credential]
          /\ n.stored.owner = n.account /\ ~n.stored.revoked
      BY <2>1, <2>2, <2>4 DEF Holds, PastUser, WithPasskey, PastPasskey, UnchangedRows
    <2>8. CounterGrows(n.stored.count, n.count)
      BY <2>1, <2>4
    <2>9. Holds(p)'
      BY <2>2, <2>3, <2>4, <2>6, <2>7, <2>8 DEF Holds, CounterGrows
    <2>10. QED
      BY <2>1, <2>2, <2>3, <2>4, <2>5, <2>9, GoingOn
  <1>3. QED
    BY <1>1, <1>2

(* The session comes last: it is there, and stays.                           *)
LEMMA LockSessionKeeps ==
    ASSUME IInv, NEW p \in Process, LockSession(p) PROVE IInv'
  <1> DEFINE r == request[p]
             n == [r EXCEPT !.pc = After(p)]
  <1>1. CASE End(p)
    BY <1>1, Refusing DEF LockSession
  <1>2. CASE ~End(p)
    <2>1. /\ request' = [request EXCEPT ![p] = n] /\ UnchangedRows /\ Take(p, r.session)
          /\ ~sessions[r.session].revoked
          /\ r.pc = "session"
      BY <1>2 DEF LockSession, At, Goto
    <2>2. /\ r \in Request /\ Course(r) /\ Holds(p) /\ LocksTypeOK
          /\ r.op \in {"finishReauthentication", "logout"}
      BY <2>1, Known DEF At, Course, AllOps, Beginning, Finishing
    <2>3. r.session \in SessionId /\ r.account \in Account
      BY <2>2, Known DEF WithPrincipal
    <2>4. After(p) = "commit"
      BY <2>1, <2>2, Courses DEF At, AllOps, Finishing
    <2>5. /\ n \in Request /\ n.pc = "commit" /\ n.user = r.user /\ n.count = r.count
          /\ n.account = r.account /\ n.op = r.op /\ n.session = r.session
          /\ n.stored = r.stored /\ n.challenge = r.challenge /\ n.credential = r.credential
      BY <2>2, <2>4 DEF Request, Step
    <2> HIDE DEF n
    <2>6. Course(n)
      BY <2>1, <2>2, <2>5 DEF Course, WithPrincipal, Beginning, Finishing
    <2>7. request'[p] = n
      BY <2>1 DEF IInv, TypeOK
    <2>8. holder'[r.session] = p /\ \A l \in Locks : holder[l] = p => holder'[l] = p
      BY <2>1, <2>2, <2>3, OwnLocks DEF Locks
    <2>9. /\ sessions'[n.session].owner = n.account /\ ~sessions'[n.session].revoked
          /\ holder'[n.account] = p /\ n.user = accounts'[n.account]
          /\ n.op # "logout" => n.user = "active"
      BY <2>1, <2>2, <2>3, <2>5, <2>8
         DEF Holds, WithPrincipal, PastUser, UnchangedRows, Locks
    <2>10. n.op = "finishReauthentication" =>
              /\ holder'[n.credential] = p /\ n.stored = passkeys'[n.credential]
              /\ n.stored.owner = n.account /\ ~n.stored.revoked
              /\ CounterGrows(n.stored.count, n.count)
      <3>1. r.op = "finishReauthentication" => r.credential \in Locks
        BY <2>1, Known DEF Finishing, Locks
      <3>2. QED
        BY <2>1, <2>2, <2>5, <2>8, <3>1 DEF Holds, WithPasskey, PastPasskey, UnchangedRows
    <2>11. Holds(p)'
      BY <2>2, <2>5, <2>7, <2>8, <2>9, <2>10 DEF Holds, WithPasskey, CounterGrows
    <2>12. QED
      BY <2>1, <2>3, <2>5, <2>6, <2>11, GoingOn DEF Locks
  <1>3. QED
    BY <1>1, <1>2

(* A disabling collects the account's sessions, one lock after the other.    *)
LEMMA LockRowKeeps ==
    ASSUME IInv, NEW p \in Process, NEW s \in SessionId, LockRow(p, s) PROVE IInv'
  <1> DEFINE r == request[p]
  <1>1. /\ r \in Request /\ Course(r) /\ Holds(p) /\ LocksTypeOK /\ r.pc = "rows"
        /\ r.op = "disable" /\ r.account \in Account
    BY Known DEF LockRow, At, Course, AllOps, Beginning, Finishing, PastUser
  <1>2. request' = [request EXCEPT ![p] = r] /\ request'[p] = r
    BY DEF LockRow, IInv, TypeOK
  <1>3. \A l \in Locks : holder[l] = p => holder'[l] = p
    BY <1>1, OwnLocks DEF LockRow, Locks
  <1>4. holder'[r.account] = p /\ r.user = accounts'[r.account]
    BY <1>1, <1>3 DEF Holds, PastUser, Locks, LockRow, UnchangedRows
  <1> HIDE DEF r
  <1>5. Holds(p)'
    BY <1>1, <1>2, <1>4 DEF Holds, WithPrincipal, WithPasskey
  <1>6. Take(p, s) /\ UnchangedRows /\ s \in Locks
    BY DEF LockRow, Locks
  <1>7. r.challenge = request[p].challenge
    BY DEF r
  <1>8. QED
    BY <1>1, <1>2, <1>5, <1>6, <1>7, GoingOn

(* In the end it has them all.                                               *)
LEMMA EndRowsKeeps ==
    ASSUME IInv, NEW p \in Process, EndRows(p) PROVE IInv'
  <1> DEFINE r == request[p]
             n == [r EXCEPT !.pc = After(p)]
  <1>1. /\ request' = [request EXCEPT ![p] = n] /\ UnchangedRows /\ UNCHANGED holder
        /\ Remaining(p) = {} /\ r.pc = "rows"
    BY DEF EndRows, At, Goto
  <1>2. /\ r \in Request /\ Course(r) /\ Holds(p) /\ r.op = "disable" /\ r.account \in Account
    BY <1>1, Known DEF At, Course, AllOps, Beginning, Finishing, PastUser
  <1>3. After(p) = "commit"
    BY <1>1, <1>2, Courses DEF At, AllOps, Finishing
  <1>4. /\ n \in Request /\ n.pc = "commit" /\ n.user = r.user
        /\ n.account = r.account /\ n.op = r.op /\ n.session = r.session
        /\ n.challenge = r.challenge /\ n.credential = r.credential
    BY <1>2, <1>3 DEF Request, Step
  <1>5. \A s \in LiveSessions(r.account) : holder[s] = p
    BY <1>1 DEF Remaining, LiveSessions
  <1> HIDE DEF n
  <1>6. Course(n)
    BY <1>1, <1>2, <1>4 DEF Course, WithPrincipal, Beginning, Finishing
  <1>7. request'[p] = n
    BY <1>1 DEF IInv, TypeOK
  <1>8. holder'[n.account] = p /\ n.user = accounts'[n.account]
    BY <1>1, <1>2, <1>4 DEF Holds, PastUser, UnchangedRows
  <1>9. \A s \in LiveSessions(request[p].account)' : holder'[s] = p
    BY <1>1, <1>4, <1>5, <1>7 DEF LiveSessions, UnchangedRows
  <1>10. Holds(p)'
    BY <1>2, <1>4, <1>7, <1>8, <1>9 DEF Holds, WithPrincipal, WithPasskey
  <1>11. QED
    BY <1>1, <1>4, <1>6, <1>10, GoingOn

-----------------------------------------------------------------------------
(* A new challenge is nobody's yet; an expired one is not brought back.      *)
LEMMA BeginKeeps ==
    ASSUME IInv, NEW p \in Process, NEW ch \in Challenge, NEW expired \in SUBSET Open,
           Begin(p, ch, expired)
    PROVE  IInv'
  <1> DEFINE r == request[p]
             new == [purpose |-> PurposeOf[r.op], account |-> r.account,
                     session |-> BoundSession(r)]
  <1>1. /\ r.pc = "begin" /\ challenges[ch] = Unused /\ End(p)
        /\ UNCHANGED <<accounts, passkeys, sessions, outcomes>>
        /\ \/ challenges' = [Without(expired) EXCEPT ![ch] = new]
           \/ challenges' = challenges
    BY DEF Begin, At
  <1>2. r \in Request /\ Course(r) /\ r.op \in Beginning
    BY <1>1, Known DEF At, Course, AllOps, Finishing
  <1>3. ChallengesTyped
    BY DEF IInv, TypeOK, ChallengesTyped
  <1>4. /\ new \in ChallengeRow /\ new.purpose \in Purpose
        /\ new.account = None <=> new.purpose = "authentication"
        /\ new.session # None <=> new.purpose = "reauthentication"
    <2>1. CASE r.op = "beginAuthentication"
      <3>1. PurposeOf[r.op] = "authentication" /\ r.account = None
        BY <1>2, <2>1 DEF PurposeOf, Course
      <3>2. QED
        BY <3>1 DEF BoundSession, ChallengeRow, Purpose
    <2>2. CASE r.op = "beginRegistration"
      <3>1. PurposeOf[r.op] = "registration" /\ r.account \in Account
        BY <1>2, <2>2 DEF PurposeOf, Course, WithPrincipal
      <3>2. QED
        BY <3>1, NullAssumption DEF BoundSession, ChallengeRow, Purpose
    <2>3. CASE r.op = "beginReauthentication"
      <3>1. PurposeOf[r.op] = "reauthentication" /\ r.account \in Account
            /\ r.session \in SessionId
        BY <1>2, <2>3 DEF PurposeOf, Course, WithPrincipal
      <3>2. QED
        BY <3>1, NullAssumption DEF BoundSession, ChallengeRow, Purpose
    <2>4. QED
      BY <1>2, <2>1, <2>2, <2>3 DEF Beginning
  <1> HIDE DEF new
  <1>5. ASSUME NEW h \in Challenge
        PROVE  \/ challenges'[h] = challenges[h]
               \/ h = ch /\ challenges'[h] = new
               \/ challenges[h].purpose \in Purpose /\ challenges'[h] = Closed
    BY <1>1, <1>3 DEF Without, Open, ChallengesTyped
  <1>6. Closed \in ChallengeRow /\ Closed.purpose = "closed"
    BY DEF Closed, Unused, ChallengeRow
  <1>7. ChallengesTyped'
    <2>1. challenges' \in [Challenge -> ChallengeRow]
      BY <1>1, <1>3, <1>4, <1>6 DEF ChallengesTyped, Without
    <2>2. ASSUME NEW h \in Challenge, challenges'[h].purpose \in Purpose
          PROVE  /\ challenges'[h].account = None <=> challenges'[h].purpose = "authentication"
                 /\ challenges'[h].session # None
                      <=> challenges'[h].purpose = "reauthentication"
      BY <1>3, <1>4, <1>5, <1>6, <2>2 DEF ChallengesTyped, Open, Purpose
    <2>3. QED
      BY <2>1, <2>2 DEF ChallengesTyped, Open
  <1>8. ASSUME NEW h \in Challenge PROVE Handles(p, Idle, h)
    <2>1. Spent(h) => Spent(h)'
      BY <1>1, <1>5, <1>6 DEF Spent, Unused
    <2>2. Idle.challenge = None
      BY DEF Idle
    <2>3. QED
      BY <1>1, <2>1, <2>2, NullAssumption DEF Handles
  <1>9. QED
    BY <1>1, <1>7, <1>8, Quiet, Ending DEF IInv, TypeOK

(* Consuming a challenge puts it into one request's hands, or nobody's.      *)
LEMMA ConsumeKeeps ==
    ASSUME IInv, NEW p \in Process, NEW ch \in Challenge, NEW c \in Credential,
           NEW expired \in BOOLEAN, NEW good \in BOOLEAN, Consume(p, ch, c, expired, good)
    PROVE  IInv'
  <1> DEFINE r == request[p]
             n == [r EXCEPT !.challenge = ch, !.credential = c, !.pc = First(r.op)]
             matches == ~expired /\ Matches(challenges[ch], r)
  <1>1. /\ r \in Request /\ Course(r) /\ Holds(p) /\ r.pc = "consume" /\ r.op \in Finishing
    BY Known DEF Consume, At, Course, AllOps, Beginning
  <1>2. UNCHANGED <<accounts, passkeys, sessions, outcomes>>
    BY DEF Consume
  <1>3. CASE ~matches
    <2>1. End(p) /\ UnchangedRows
      BY <1>3 DEF Consume, UnchangedRows
    <2>2. QED
      BY <2>1, Refusing
  <1>4. CASE matches
    <2>1. challenges' = Without({ch})
      BY <1>4 DEF Consume
    <2>2. ChallengesTyped
      BY DEF IInv, TypeOK, ChallengesTyped
    <2>3. Closed \in ChallengeRow /\ Closed.purpose = "closed"
      BY DEF Closed, Unused, ChallengeRow
    <2>4. ChallengesTyped'
      BY <2>1, <2>2, <2>3 DEF ChallengesTyped, Without, Open, Purpose
    <2>5. ~Spent(ch) /\ Spent(ch)'
      <3>1. challenges[ch].purpose = PurposeOf[r.op]
        BY <1>4 DEF Matches
      <3>2. PurposeOf[r.op] # "closed"
        BY <1>1 DEF PurposeOf, Finishing
      <3>3. QED
        BY <2>1, <2>3, <3>1, <3>2 DEF Spent, Without
    <2>6. ASSUME NEW m, m.challenge \in {None, ch}, NEW h \in Challenge
          PROVE  Handles(p, m, h)
      <3>1. CASE h = ch
        BY <1>2, <2>5, <3>1 DEF Handles
      <3>2. CASE h # ch
        BY <1>2, <2>1, <2>6, <3>2, NullAssumption DEF Handles, Spent, Without
      <3>3. QED
        BY <3>1, <3>2
    <2>7. /\ Gentle(p) /\ WithinLimit'
          /\ accounts' \in [Account -> Status] /\ passkeys' \in [Credential -> Passkey]
          /\ sessions' \in [SessionId -> Session] /\ outcomes' \in [Challenge -> Nat]
      BY <1>2, Quiet DEF IInv, TypeOK
    <2>8. CASE ~good
      <3>1. End(p)
        BY <2>8 DEF Consume
      <3>2. Idle.challenge = None
        BY DEF Idle
      <3>3. QED
        BY <2>4, <2>6, <2>7, <3>1, <3>2, Ending
    <2>9. CASE good
      <3>1. request' = [request EXCEPT ![p] = n] /\ UNCHANGED holder
        BY <1>4, <2>9 DEF Consume
      <3>2. /\ r.op = "finishRegistration" => First(r.op) = "user"
            /\ r.op \in {"finishAuthentication", "finishReauthentication"}
                  => First(r.op) = "passkey"
        BY FirstSteps
      <3>3. /\ n \in Request /\ n.pc = First(r.op) /\ n.challenge = ch /\ n.credential = c
            /\ n.op = r.op /\ n.account = r.account /\ n.session = r.session
        BY <1>1, <3>2 DEF Request, Step, Finishing
      <3> HIDE DEF n
      <3>4. Course(n)
        <4>1. ch # None /\ c # None
          BY NullAssumption
        <4>2. /\ r.op \in {"finishRegistration", "finishReauthentication"}
                    => r.session \in SessionId /\ r.account \in Account
              /\ r.op = "finishAuthentication" => r.account = None
          BY <1>1 DEF Course, WithPrincipal
        <4>3. QED
          BY <1>1, <3>2, <3>3, <4>1, <4>2 DEF Course, Finishing, Beginning, WithPrincipal
      <3>5. request'[p] = n
        BY <3>1 DEF IInv, TypeOK
      <3>6. n.op \in WithPrincipal => sessions'[n.session].owner = n.account
        BY <1>1, <1>2, <3>3 DEF Holds
      <3>7. Holds(p)'
        BY <1>1, <3>2, <3>3, <3>5, <3>6 DEF Holds, PastUser, PastPasskey, WithPasskey, Finishing
      <3>8. n.pc # "idle"
        BY <1>1, <3>2, <3>3 DEF Finishing
      <3>9. QED
        <4>1. \A h \in Challenge : Handles(p, n, h)
          BY <2>6, <3>3
        <4>2. n \in Request
          BY <3>3
        <4>3. QED
          BY <2>4, <2>7, <3>1, <3>4, <3>7, <3>8, <4>1, <4>2, OneMoves
    <2>10. QED
      BY <2>8, <2>9
  <1>5. QED
    BY <1>3, <1>4

-----------------------------------------------------------------------------
(* The commits.  A success is the outcome of the challenge in the request's  *)
(* hands.                                                                    *)
LEMMA CommitHandles ==
    ASSUME IInv, NEW p \in Process, UNCHANGED challenges,
           \/ request[p].challenge \in Challenge /\ Succeeds(p)
           \/ UNCHANGED outcomes
    PROVE  /\ ChallengesTyped' /\ outcomes' \in [Challenge -> Nat]
           /\ \A h \in Challenge : Handles(p, Idle, h)
  <1>1. ChallengesTyped'
    BY DEF IInv, TypeOK, ChallengesTyped, Open
  <1>2. Idle.challenge = None
    BY DEF Idle
  <1>3. outcomes \in [Challenge -> Nat]
    BY DEF IInv, TypeOK
  <1>4. CASE UNCHANGED outcomes
    BY <1>1, <1>2, <1>3, <1>4, NullAssumption DEF Handles, Spent
  <1>5. CASE request[p].challenge \in Challenge /\ Succeeds(p)
    <2>1. outcomes' \in [Challenge -> Nat]
      BY <1>3, <1>5 DEF Succeeds
    <2>2. QED
      BY <1>1, <1>2, <1>3, <1>5, <2>1, NullAssumption DEF Handles, Spent, Succeeds
  <1>6. QED
    BY <1>4, <1>5

(* A passkey row is written by the request that holds it and its account.    *)
PasskeysGentle(p) ==
    \A q \in Process \ {p} :
        /\ \A c \in Credential : holder[c] = q => passkeys'[c] = passkeys[c]
        /\ \A a \in Account : holder[a] = q => Active(a)' \subseteq Active(a)

(* It gives nobody else's account a passkey.                                 *)
LEMMA WritingPasskey ==
    ASSUME IInv, NEW p \in Process, NEW c \in Credential, NEW row \in Passkey,
           passkeys' = [passkeys EXCEPT ![c] = row],
           holder[c] = p, ~row.revoked => holder[row.owner] = p
    PROVE  PasskeysGentle(p) /\ passkeys' \in [Credential -> Passkey]
  <1>1. passkeys \in [Credential -> Passkey]
    BY DEF IInv, TypeOK
  <1>2. passkeys'[c] = row /\ \A x \in Credential : x # c => passkeys'[x] = passkeys[x]
    BY <1>1
  <1>3. QED
    BY <1>1, <1>2 DEF PasskeysGentle, Active

(* A row written back with its owner and its revocation, or revoked, leaves  *)
(* no account more passkeys than it had.                                     *)
LEMMA NoMorePasskeys ==
    ASSUME IInv, NEW c \in Credential, NEW row,
           \/ passkeys' = passkeys
           \/ /\ passkeys' = [passkeys EXCEPT ![c] = row]
              /\ ~row.revoked => row.owner = passkeys[c].owner /\ ~passkeys[c].revoked
    PROVE  WithinLimit'
  <1>1. \A a \in Account : Active(a)' \subseteq Active(a)
    BY DEF IInv, TypeOK, Active
  <1>2. ASSUME NEW a \in Account PROVE Cardinality(Active(a))' <= MaxCredentials
    <2>1. Cardinality(Active(a)) <= MaxCredentials
      BY DEF IInv, WithinLimit
    <2>2. QED
      BY <1>1, <2>1, FewerPasskeys, LimitsAssumption
  <1>3. QED
    BY <1>2 DEF WithinLimit

(* What each transaction has made sure of when it commits.                   *)
LEMMA AtCommit ==
    ASSUME IInv, NEW p \in Process, At(p, "commit")
    PROVE  LET r == request[p]
           IN  /\ r \in Request /\ r.account \in Account /\ holder[r.account] = p
               /\ r.user = accounts[r.account]
               /\ r.op \notin {"logout", "disable"} => r.user = "active"
               /\ r.op \in Finishing => r.challenge \in Challenge
               /\ r.op \in WithPasskey =>
                     /\ r.credential \in Credential /\ holder[r.credential] = p
                     /\ r.stored = passkeys[r.credential]
                     /\ r.stored.owner = r.account /\ ~r.stored.revoked
               /\ r.op = "finishRegistration" =>
                     /\ r.credential \in Credential /\ holder[r.credential] = p
                     /\ passkeys[r.credential].owner = None
                     /\ Cardinality(Active(r.account)) < MaxCredentials
               /\ r.op \in {"finishAuthentication", "finishReauthentication"} =>
                     CounterGrows(r.stored.count, r.count)
               /\ r.op \in {"finishReauthentication", "logout"} =>
                     /\ r.session \in SessionId /\ holder[r.session] = p
                     /\ sessions[r.session].owner = r.account
                     /\ ~sessions[r.session].revoked
               /\ r.op = "disable" => \A s \in LiveSessions(r.account) : holder[s] = p
  <1>1. request[p] \in Request /\ Holds(p) /\ request[p].pc = "commit"
    BY Known DEF At
  <1>2. /\ request[p].account \in Account
        /\ request[p].op \in WithPasskey \cup {"finishRegistration"}
              => request[p].credential \in Credential
        /\ request[p].op \in Finishing => request[p].challenge \in Challenge
        /\ request[p].op \in {"finishReauthentication", "logout"}
              => request[p].session \in SessionId
    BY <1>1, Known DEF PastUser, WithPasskey, Finishing, WithPrincipal
  <1>3. QED
    BY <1>1, <1>2 DEF Holds, PastUser, PastPasskey, WithPasskey, WithPrincipal

(* Where the other tables rest too, a passkey write is gentle.               *)
LEMMA GentleParts ==
    ASSUME NEW p \in Process, PasskeysGentle(p),
           \A s \in SessionId :
              sessions[s].owner # None => sessions'[s].owner = sessions[s].owner,
           \A q \in Process \ {p} :
              /\ \A a \in Account : holder[a] = q =>
                    /\ accounts'[a] = accounts[a]
                    /\ LiveSessions(a)' \subseteq LiveSessions(a)
              /\ \A s \in Committed : holder[s] = q => sessions'[s] = sessions[s]
    PROVE  Gentle(p)
  BY DEF Gentle, PasskeysGentle

(* A registration adds the passkey it counted for.                           *)
LEMMA RegisterKeeps ==
    ASSUME IInv, NEW p \in Process, NEW count \in Counts, Register(p, count)
    PROVE  IInv'
  <1> DEFINE r == request[p]
             c == r.credential
             a == r.account
             row == NewPasskey(a, count)
  <1>1. /\ At(p, "commit") /\ r.op = "finishRegistration" /\ End(p) /\ UNCHANGED challenges
        /\ passkeys' = [passkeys EXCEPT ![c] = row]
        /\ accounts' = [accounts EXCEPT ![a] = r.user]
        /\ Succeeds(p) /\ UNCHANGED sessions
    BY DEF Register, Committing, Doing, At, WriteUser
  <1>2. /\ a \in Account /\ holder[a] = p /\ r.user = accounts[a]
        /\ c \in Credential /\ holder[c] = p /\ passkeys[c].owner = None
        /\ Cardinality(Active(a)) < MaxCredentials /\ r.challenge \in Challenge
    BY <1>1, AtCommit DEF Finishing
  <1>3. row \in Passkey /\ row.owner = a /\ ~row.revoked
    BY <1>2 DEF NewPasskey, Passkey, Counts
  <1> HIDE DEF row
  <1>4. PasskeysGentle(p) /\ passkeys' \in [Credential -> Passkey]
    BY <1>1, <1>2, <1>3, WritingPasskey
  <1>5. accounts' = accounts
    BY <1>1, <1>2 DEF IInv, TypeOK
  <1>6. Gentle(p)
    BY <1>1, <1>4, <1>5, GentleParts DEF LiveSessions
  <1>7. WithinLimit'
    <2>1. passkeys'[c] = row /\ \A x \in Credential : x # c => passkeys'[x] = passkeys[x]
      BY <1>1, <1>2 DEF IInv, TypeOK
    <2>2. ASSUME NEW b \in Account, b = a PROVE Cardinality(Active(b))' <= MaxCredentials
      <3>1. Active(b)' = Active(b) \cup {c} /\ c \notin Active(b)
        BY <1>2, <1>3, <2>1, <2>2, NullAssumption DEF Active
      <3>2. IsFiniteSet(Active(b))
        BY RowsAssumption, FS_Subset DEF Active
      <3>3. Cardinality(Active(b) \cup {c}) = Cardinality(Active(b)) + 1
            /\ Cardinality(Active(b)) \in Nat
        BY <3>1, <3>2, FS_AddElement, FS_CardinalityType
      <3>4. Cardinality(Active(b))' = Cardinality(Active(b)) + 1
        BY <3>1, <3>3
      <3>5. QED
        BY <1>2, <2>2, <3>3, <3>4, LimitsAssumption
    <2>3. ASSUME NEW b \in Account, b # a PROVE Cardinality(Active(b))' <= MaxCredentials
      <3>1. Active(b)' = Active(b)
        BY <1>2, <1>3, <2>1, <2>3, NullAssumption DEF Active
      <3>2. QED
        BY <3>1 DEF IInv, WithinLimit
    <2>4. QED
      BY <2>2, <2>3 DEF WithinLimit
  <1>8. QED
    BY <1>1, <1>2, <1>4, <1>5, <1>6, <1>7, CommitHandles, Ending DEF IInv, TypeOK

(* The assertion's counter is written to the row it was compared with.       *)
LEMMA CounterWrite ==
    ASSUME IInv, NEW p \in Process, At(p, "commit"),
           request[p].op \in {"finishAuthentication", "finishReauthentication"},
           WritePasskey(p)
    PROVE  /\ PasskeysGentle(p) /\ passkeys' \in [Credential -> Passkey] /\ WithinLimit'
  <1> DEFINE r == request[p]
             c == r.credential
             row == [r.stored EXCEPT !.count = r.count]
  <1>1. /\ r \in Request /\ holder[r.account] = p /\ c \in Credential /\ holder[c] = p
        /\ r.stored = passkeys[c] /\ r.stored.owner = r.account /\ ~r.stored.revoked
    BY AtCommit DEF WithPasskey
  <1>2. /\ row \in Passkey /\ row.owner = r.account /\ row.owner = passkeys[c].owner
        /\ ~row.revoked /\ ~passkeys[c].revoked
    BY <1>1 DEF Request, Passkey
  <1>3. passkeys' = [passkeys EXCEPT ![c] = row]
    BY DEF WritePasskey
  <1> HIDE DEF row
  <1>4. PasskeysGentle(p) /\ passkeys' \in [Credential -> Passkey]
    BY <1>1, <1>2, <1>3, WritingPasskey
  <1>5. WithinLimit'
    BY <1>1, <1>2, <1>3, NoMorePasskeys
  <1>6. QED
    BY <1>4, <1>5

(* An authentication opens a session for the account it holds.               *)
LEMMA AuthenticateKeeps ==
    ASSUME IInv, NEW p \in Process, NEW s \in SessionId, Authenticate(p, s)
    PROVE  IInv'
  <1> DEFINE r == request[p]
             a == r.account
  <1>1. /\ At(p, "commit") /\ r.op = "finishAuthentication" /\ End(p) /\ UNCHANGED challenges
        /\ WritePasskey(p) /\ Succeeds(p) /\ UNCHANGED accounts
        /\ s \notin Committed /\ sessions' = [sessions EXCEPT ![s] = NewSession(a)]
    BY DEF Authenticate, Committing, Doing, At
  <1>2. a \in Account /\ holder[a] = p /\ r.challenge \in Challenge
    BY <1>1, AtCommit DEF Finishing
  <1>3. NewSession(a) \in Session /\ NewSession(a).owner = a
    BY <1>2 DEF NewSession, Session
  <1>4. PasskeysGentle(p) /\ passkeys' \in [Credential -> Passkey] /\ WithinLimit'
    BY <1>1, CounterWrite
  <1>5. sessions \in [SessionId -> Session] /\ sessions' \in [SessionId -> Session]
    BY <1>1, <1>3 DEF IInv, TypeOK
  <1>6. sessions'[s].owner = a /\ sessions[s].owner = None
        /\ \A t \in SessionId : t # s => sessions'[t] = sessions[t]
    BY <1>1, <1>3, <1>5 DEF Committed
  <1>7. Gentle(p)
    BY <1>1, <1>2, <1>4, <1>6, GentleParts DEF LiveSessions, Committed
  <1>8. QED
    BY <1>1, <1>2, <1>4, <1>5, <1>7, CommitHandles, Ending DEF IInv, TypeOK

(* A reauthentication only writes the passkey.                               *)
LEMMA ReauthenticateKeeps ==
    ASSUME IInv, NEW p \in Process, Reauthenticate(p)
    PROVE  IInv'
  <1>1. /\ At(p, "commit") /\ request[p].op = "finishReauthentication" /\ End(p)
        /\ UNCHANGED challenges /\ WritePasskey(p) /\ Succeeds(p)
        /\ UNCHANGED <<accounts, sessions>>
    BY DEF Reauthenticate, Committing, Doing, At
  <1>2. request[p].challenge \in Challenge
    BY <1>1, AtCommit DEF Finishing
  <1>3. PasskeysGentle(p) /\ passkeys' \in [Credential -> Passkey] /\ WithinLimit'
    BY <1>1, CounterWrite
  <1>4. Gentle(p)
    BY <1>1, <1>3, GentleParts DEF LiveSessions
  <1>5. QED
    BY <1>1, <1>2, <1>3, <1>4, CommitHandles, Ending DEF IInv, TypeOK

(* A revocation takes one passkey away.                                      *)
LEMMA RevocationKeeps ==
    ASSUME IInv, NEW p \in Process, CommitRevocation(p)
    PROVE  IInv'
  <1> DEFINE r == request[p]
             c == r.credential
             row == [r.stored EXCEPT !.revoked = TRUE]
  <1>1. /\ At(p, "commit") /\ r.op = "revokePasskey" /\ End(p) /\ UNCHANGED challenges
        /\ passkeys' = [passkeys EXCEPT ![c] = row]
        /\ accounts' = [accounts EXCEPT ![r.account] = r.user]
        /\ UNCHANGED <<sessions, outcomes>>
    BY DEF CommitRevocation, Committing, Doing, At, WriteUser
  <1>2. /\ r \in Request /\ r.account \in Account /\ r.user = accounts[r.account]
        /\ c \in Credential /\ holder[c] = p
    BY <1>1, AtCommit DEF WithPasskey
  <1>3. row \in Passkey /\ row.revoked
    BY <1>2 DEF Request, Passkey
  <1> HIDE DEF row
  <1>4. PasskeysGentle(p) /\ passkeys' \in [Credential -> Passkey]
    BY <1>1, <1>2, <1>3, WritingPasskey
  <1>5. WithinLimit'
    BY <1>1, <1>2, <1>3, NoMorePasskeys
  <1>6. accounts' = accounts
    BY <1>1, <1>2 DEF IInv, TypeOK
  <1>7. Gentle(p)
    BY <1>1, <1>4, <1>6, GentleParts DEF LiveSessions
  <1>8. QED
    BY <1>1, <1>4, <1>5, <1>6, <1>7, CommitHandles, Ending DEF IInv, TypeOK

(* A logout revokes the session it holds.                                    *)
LEMMA LogoutKeeps ==
    ASSUME IInv, NEW p \in Process, CommitLogout(p)
    PROVE  IInv'
  <1> DEFINE s == request[p].session
  <1>1. /\ At(p, "commit") /\ request[p].op = "logout" /\ End(p) /\ UNCHANGED challenges
        /\ sessions' = [sessions EXCEPT ![s].revoked = TRUE]
        /\ UNCHANGED <<accounts, passkeys, outcomes>>
    BY DEF CommitLogout, Committing, Doing, At
  <1>2. s \in SessionId /\ holder[s] = p
    BY <1>1, AtCommit
  <1>3. sessions \in [SessionId -> Session] /\ sessions' \in [SessionId -> Session]
    BY <1>1, <1>2 DEF IInv, TypeOK, Session
  <1>4. sessions'[s].owner = sessions[s].owner /\ sessions'[s].revoked
        /\ \A t \in SessionId : t # s => sessions'[t] = sessions[t]
    BY <1>1, <1>2, <1>3 DEF Session
  <1> HIDE DEF s
  <1>5. PasskeysGentle(p)
    BY <1>1 DEF PasskeysGentle, Active
  <1>6. Gentle(p)
    BY <1>1, <1>2, <1>4, <1>5, GentleParts DEF LiveSessions, Committed
  <1>7. WithinLimit'
    BY <1>1 DEF IInv, WithinLimit, Active
  <1>8. QED
    BY <1>1, <1>3, <1>6, <1>7, CommitHandles, Ending DEF IInv, TypeOK

(* A disabling takes the account it holds, and its sessions, all held.       *)
LEMMA DisableKeeps ==
    ASSUME IInv, NEW p \in Process, CommitDisable(p)
    PROVE  IInv'
  <1> DEFINE a == request[p].account
  <1>1. /\ At(p, "commit") /\ request[p].op = "disable" /\ End(p) /\ UNCHANGED challenges
        /\ accounts' = [accounts EXCEPT ![a] = "disabled"]
        /\ sessions' = [s \in SessionId |->
                          [sessions[s] EXCEPT !.revoked = @ \/ s \in LiveSessions(a)]]
        /\ UNCHANGED <<passkeys, outcomes>>
    BY DEF CommitDisable, Committing, Doing, At
  <1>2. a \in Account /\ holder[a] = p /\ \A s \in LiveSessions(a) : holder[s] = p
    BY <1>1, AtCommit
  <1>3. sessions \in [SessionId -> Session] /\ accounts \in [Account -> Status]
    BY DEF IInv, TypeOK
  <1>4. sessions' \in [SessionId -> Session] /\ accounts' \in [Account -> Status]
    BY <1>1, <1>3 DEF Session, Status
  <1>5. \A s \in SessionId :
           /\ sessions'[s].owner = sessions[s].owner
           /\ sessions[s].revoked => sessions'[s].revoked
           /\ s \notin LiveSessions(a) => sessions'[s] = sessions[s]
    BY <1>1, <1>3 DEF Session
  <1>6. PasskeysGentle(p)
    BY <1>1 DEF PasskeysGentle, Active
  <1>7. \A b \in Account : LiveSessions(b)' \subseteq LiveSessions(b)
    BY <1>5 DEF LiveSessions
  <1>8. \A b \in Account : b # a => accounts'[b] = accounts[b]
    BY <1>1, <1>3
  <1> HIDE DEF a
  <1>9. Gentle(p)
    BY <1>2, <1>5, <1>6, <1>7, <1>8, GentleParts DEF Committed
  <1>10. WithinLimit'
    BY <1>1 DEF IInv, WithinLimit, Active
  <1>11. QED
    BY <1>1, <1>4, <1>9, <1>10, CommitHandles, Ending DEF IInv, TypeOK

(* A rollback leaves the rows, and a challenge consumed stays consumed.      *)
LEMMA AbortKeeps ==
    ASSUME IInv, NEW p \in Process, Abort(p)
    PROVE  IInv'
  BY Refusing DEF Abort

-----------------------------------------------------------------------------
(* The invariant holds at the start.                                         *)
LEMMA InvariantStarts == Init => IInv
  <1> SUFFICES ASSUME Init PROVE IInv
    OBVIOUS
  <1>1. NoPasskey \in Passkey /\ \A a \in Account : NewPasskey(a, 0) \in Passkey
    BY LimitsAssumption DEF NoPasskey, NewPasskey, Passkey
  <1>2. passkeys \in [Credential -> Passkey] /\ WithinLimit
    BY <1>1 DEF Init, WithinLimit
  <1>3. sessions \in [SessionId -> Session]
    <2>1. PICK a \in Account :
             sessions = [[s \in SessionId |-> Absent] EXCEPT ![FirstSession] = NewSession(a)]
      BY DEF Init
    <2>2. Absent \in Session /\ NewSession(a) \in Session
      BY DEF Absent, NewSession, Session
    <2>3. QED
      BY <2>1, <2>2
  <1>4. Unused \in ChallengeRow /\ Unused.purpose = "unused"
    BY DEF Unused, ChallengeRow
  <1>5. challenges \in [Challenge -> ChallengeRow] /\ Open = {}
    BY <1>4 DEF Init, Open, Purpose
  <1>6. Idle \in Request /\ Idle.pc = "idle" /\ Idle.op = "none" /\ Idle.challenge = None
        /\ Idle.credential = None
    BY IdleType DEF Idle, Sent
  <1>7. TypeOK
    BY <1>2, <1>3, <1>5, <1>6, NullAssumption
       DEF Init, TypeOK, Status, NoLocks, LocksTypeOK
  <1>8. \A p \in Process : request[p] = Idle
    BY DEF Init
  <1>9. \A p \in Process : Course(request[p])
    BY <1>6, <1>8 DEF Course, Finishing, Beginning, WithPrincipal
  <1>10. \A p \in Process : Holds(p)
    BY <1>6, <1>8 DEF Holds, WithPrincipal, WithPasskey, PastUser, Finishing
  <1>11. \A ch \in Challenge : ChallengeOK(ch)
    <2>1. \A ch \in Challenge : InHand(ch) = {} /\ outcomes[ch] = 0
      BY <1>6, <1>8, NullAssumption DEF InHand, Init
    <2>2. QED
      BY <2>1 DEF ChallengeOK
  <1>12. QED
    BY <1>2, <1>7, <1>9, <1>10, <1>11 DEF IInv

(* Every statement keeps it.                                                 *)
LEMMA StatementKeeps ==
    ASSUME IInv, NEW p \in Process, Statement(p)
    PROVE  IInv'
  <1>1. CASE \E ch \in Challenge, expired \in SUBSET Open : Begin(p, ch, expired)
    BY <1>1, BeginKeeps
  <1>2. CASE \E ch \in Challenge, c \in Credential, expired, good \in BOOLEAN :
                Consume(p, ch, c, expired, good)
    BY <1>2, ConsumeKeeps
  <1>3. CASE LockPasskey(p) \/ LockUser(p) \/ InsertPasskey(p)
    BY <1>3, LockPasskeyKeeps, LockUserKeeps, InsertPasskeyKeeps
  <1>4. CASE \E count \in Counts, good \in BOOLEAN : Verify(p, count, good)
    BY <1>4, VerifyKeeps
  <1>5. CASE LockSession(p) \/ (\E s \in SessionId : LockRow(p, s)) \/ EndRows(p)
    BY <1>5, LockSessionKeeps, LockRowKeeps, EndRowsKeeps
  <1>6. CASE Commit(p)
    BY <1>6, RegisterKeeps, AuthenticateKeeps, ReauthenticateKeeps, RevocationKeeps,
       LogoutKeeps, DisableKeeps DEF Commit
  <1>7. QED
    BY <1>1, <1>2, <1>3, <1>4, <1>5, <1>6 DEF Statement

(* So does every step.                                                       *)
LEMMA InvariantStays == IInv /\ [Next]_vars => IInv'
  <1> SUFFICES ASSUME IInv, [Next]_vars PROVE IInv'
    OBVIOUS
  <1>1. CASE UNCHANGED vars
    <2>1. TypeOK'
      BY <1>1 DEF vars, IInv, TypeOK, LocksTypeOK, Open, At
    <2>2. WithinLimit'
      BY <1>1 DEF vars, IInv, WithinLimit, Active
    <2>3. \A p \in Process : Course(request[p])'
      BY <1>1 DEF vars, IInv
    <2>4. ASSUME NEW p \in Process PROVE Holds(p)'
      <3>1. Holds(p)
        BY DEF IInv
      <3>2. Active(request[p].account)' = Active(request[p].account)
            /\ LiveSessions(request[p].account)' = LiveSessions(request[p].account)
        BY <1>1 DEF vars, Active, LiveSessions
      <3>3. QED
        BY <1>1, <3>1, <3>2 DEF vars, Holds, CounterGrows
    <2>5. ASSUME NEW ch \in Challenge PROVE ChallengeOK(ch)'
      <3>1. Spent(ch)' = Spent(ch) /\ InHand(ch)' = InHand(ch)
        BY <1>1 DEF vars, Spent, InHand
      <3>2. QED
        BY <1>1, <3>1 DEF vars, IInv, ChallengeOK
    <2>6. QED
      BY <2>1, <2>2, <2>3, <2>4, <2>5 DEF IInv
  <1>2. ASSUME NEW p \in Process, Arrives(p) PROVE IInv'
    BY <1>2, ArrivalsKeep
  <1>3. ASSUME NEW p \in Process, Statement(p) PROVE IInv'
    BY <1>3, StatementKeeps
  <1>4. ASSUME NEW p \in Process, Abort(p) PROVE IInv'
    BY <1>4, AbortKeeps
  <1>5. QED
    BY <1>1, <1>2, <1>3, <1>4 DEF Next

(* The invariant of every state.                                             *)
LEMMA InvariantHolds == Spec => []IInv
  BY InvariantStarts, InvariantStays, PTL DEF Spec

-----------------------------------------------------------------------------
(* Values keep their types, challenges name whom they should, and the idle   *)
(* hold no locks.                                                            *)
THEOREM TypeCorrect == Spec => []TypeOK
  <1>1. IInv => TypeOK
    BY DEF IInv
  <1>2. QED
    BY <1>1, InvariantHolds, PTL

(* No account ever has more passkeys than allowed, although the limit is     *)
(* counted before the insert: finish_registration holds the account.         *)
THEOREM LimitHolds == Spec => []WithinLimit
  <1>1. IInv => WithinLimit
    BY DEF IInv
  <1>2. QED
    BY <1>1, InvariantHolds, PTL

(* A challenge leads to one success at most, however many requests carry it. *)
THEOREM OneOutcome == Spec => []OneOutcomePerChallenge
  <1>1. IInv => OneOutcomePerChallenge
    BY DEF IInv, ChallengeOK, OneOutcomePerChallenge
  <1>2. QED
    BY <1>1, InvariantHolds, PTL

(* Whatever a ceremony was decided on is still so when it commits.           *)
THEOREM DecisionsStillHold == Spec => []DecisionsHold
  <1>1. ASSUME IInv PROVE DecisionsHold
    <2> DEFINE r(p) == request[p]
    <2>1. ASSUME NEW p \in Process, At(p, "commit"), r(p).op \in Finishing
          PROVE  /\ accounts[r(p).account] = "active"
                 /\ r(p).op # "finishRegistration" =>
                       /\ passkeys[r(p).credential] = NewPasskey(r(p).account, r(p).stored.count)
                       /\ CounterGrows(passkeys[r(p).credential].count, r(p).count)
                 /\ r(p).op = "finishReauthentication" =>
                       r(p).session \in LiveSessions(r(p).account)
      <3>1. accounts[r(p).account] = "active"
        BY <1>1, <2>1, AtCommit DEF Finishing
      <3>2. ASSUME r(p).op # "finishRegistration"
            PROVE  /\ passkeys[r(p).credential] = NewPasskey(r(p).account, r(p).stored.count)
                   /\ CounterGrows(passkeys[r(p).credential].count, r(p).count)
        <4>1. /\ passkeys[r(p).credential] = r(p).stored /\ r(p) \in Request
              /\ r(p).stored.owner = r(p).account /\ ~r(p).stored.revoked
              /\ CounterGrows(r(p).stored.count, r(p).count)
          BY <1>1, <2>1, <3>2, AtCommit DEF Finishing, WithPasskey
        <4>2. r(p).stored \in Passkey
          BY <4>1 DEF Request
        <4>3. r(p).stored = NewPasskey(r(p).account, r(p).stored.count)
          BY <4>1, <4>2 DEF Passkey, NewPasskey
        <4>4. QED
          BY <4>1, <4>3
      <3>3. r(p).op = "finishReauthentication" => r(p).session \in LiveSessions(r(p).account)
        BY <1>1, <2>1, AtCommit DEF LiveSessions
      <3>4. QED
        BY <3>1, <3>2, <3>3
    <2>2. QED
      BY <2>1 DEF DecisionsHold
  <1>2. QED
    BY <1>1, InvariantHolds, PTL

-----------------------------------------------------------------------------
(* Only a commit writes passkeys or accounts.                                *)
LEMMA OnlyCommitsWrite ==
    ASSUME IInv, NEW p \in Process, Arrives(p) \/ Statement(p) \/ Abort(p), ~Commit(p)
    PROVE  UNCHANGED <<accounts, passkeys>>
  BY DEF Arrives, Statement, Abort, UnchangedRows, Arrive, BeginAuthentication, Disable,
         FinishAuthentication, Logout, BeginRegistration, BeginReauthentication,
         FinishRegistration, FinishReauthentication, RevokePasskey, Begin, Consume,
         LockPasskey, LockUser, InsertPasskey, Verify, LockSession, LockRow, EndRows

(* A row that nobody owns is one that has never been written.                *)
Vacant == \A c \in Credential : passkeys[c].owner = None => passkeys[c] = NoPasskey

(* What a commit makes of one row: a new passkey, or a later state of one    *)
(* that was not revoked.                                                     *)
Advances(old, new) ==
    /\ new \in Passkey /\ new.owner # None
    /\ old.owner # None => ~old.revoked /\ new.count >= old.count

(* Every commit writes at most one passkey, and writes it on.                *)
LEMMA CommitsAdvance ==
    ASSUME IInv, NEW p \in Process, Commit(p)
    PROVE  \/ passkeys' = passkeys
           \/ \E c \in Credential, row \in Passkey :
                 /\ passkeys' = [passkeys EXCEPT ![c] = row]
                 /\ Advances(passkeys[c], row)
  <1> DEFINE r == request[p]
             c == r.credential
  <1>1. CASE \E count \in Counts : Register(p, count)
    <2>1. PICK count \in Counts : Register(p, count)
      BY <1>1
    <2>2. /\ At(p, "commit") /\ r.op = "finishRegistration"
          /\ passkeys' = [passkeys EXCEPT ![c] = NewPasskey(r.account, count)]
      BY <2>1 DEF Register, Committing, Doing, At
    <2>3. c \in Credential /\ passkeys[c].owner = None /\ r.account \in Account
      BY <2>2, AtCommit
    <2>4. Advances(passkeys[c], NewPasskey(r.account, count))
      BY <2>3, NullAssumption DEF Advances, NewPasskey, Passkey, Counts
    <2>5. QED
      BY <2>2, <2>3, <2>4 DEF Advances
  <1>2. CASE (\E s \in SessionId : Authenticate(p, s)) \/ Reauthenticate(p)
    <2>1. /\ At(p, "commit") /\ r.op \in {"finishAuthentication", "finishReauthentication"}
          /\ WritePasskey(p)
      BY <1>2 DEF Authenticate, Reauthenticate, Committing, Doing, At
    <2>2. /\ c \in Credential /\ r.account \in Account /\ r.stored = passkeys[c]
          /\ r.stored.owner = r.account /\ ~r.stored.revoked
          /\ r \in Request /\ CounterGrows(r.stored.count, r.count)
      BY <2>1, AtCommit DEF WithPasskey
    <2>3. r.count \in Nat /\ r.stored.count \in Nat
      BY <2>2, LimitsAssumption DEF Request, Passkey
    <2>4. r.count >= r.stored.count
      BY <2>2, <2>3 DEF CounterGrows
    <2> DEFINE row == [r.stored EXCEPT !.count = r.count]
    <2>5. row \in Passkey /\ row.count = r.count /\ row.owner = r.account
      BY <2>2 DEF Request, Passkey
    <2>6. passkeys' = [passkeys EXCEPT ![c] = row]
      BY <2>1 DEF WritePasskey
    <2> HIDE DEF row
    <2>7. Advances(passkeys[c], row)
      BY <2>2, <2>4, <2>5, NullAssumption DEF Advances
    <2>8. QED
      BY <2>2, <2>5, <2>6, <2>7
  <1>3. CASE CommitRevocation(p)
    <2>1. /\ At(p, "commit") /\ r.op = "revokePasskey"
          /\ passkeys' = [passkeys EXCEPT ![c] = [r.stored EXCEPT !.revoked = TRUE]]
      BY <1>3 DEF CommitRevocation, Committing, Doing, At
    <2>2. /\ c \in Credential /\ r.account \in Account /\ r.stored = passkeys[c]
          /\ r.stored.owner = r.account /\ ~r.stored.revoked /\ r \in Request
      BY <2>1, AtCommit DEF WithPasskey
    <2>3. r.stored.count \in Nat
      BY <2>2, LimitsAssumption DEF Request, Passkey
    <2> DEFINE row == [r.stored EXCEPT !.revoked = TRUE]
    <2>4. row \in Passkey /\ row.count = r.stored.count /\ row.owner = r.account
      BY <2>2 DEF Request, Passkey
    <2>5. passkeys' = [passkeys EXCEPT ![c] = row]
      BY <2>1
    <2> HIDE DEF row
    <2>6. Advances(passkeys[c], row)
      BY <2>2, <2>3, <2>4, NullAssumption DEF Advances
    <2>7. QED
      BY <2>2, <2>4, <2>5, <2>6
  <1>4. CASE CommitLogout(p) \/ CommitDisable(p)
    BY <1>4 DEF CommitLogout, CommitDisable
  <1>5. QED
    BY <1>1, <1>2, <1>3, <1>4 DEF Commit

(* An account is written back as it was found, or disabled.                  *)
LEMMA AccountsAdvance ==
    ASSUME IInv, NEW p \in Process, Commit(p), NEW a \in Account,
           accounts[a] = "disabled"
    PROVE  accounts'[a] = "disabled"
  <1> DEFINE r == request[p]
  <1>1. CASE (\E count \in Counts : Register(p, count)) \/ CommitRevocation(p)
    <2>1. At(p, "commit") /\ WriteUser(p)
      BY <1>1 DEF Register, CommitRevocation, Committing, Doing, At
    <2>2. r.user = accounts[r.account]
      BY <2>1, AtCommit
    <2>3. QED
      BY <2>1, <2>2 DEF WriteUser, IInv, TypeOK
  <1>2. CASE (\E s \in SessionId : Authenticate(p, s)) \/ Reauthenticate(p) \/ CommitLogout(p)
    BY <1>2 DEF Authenticate, Reauthenticate, CommitLogout
  <1>3. CASE CommitDisable(p)
    BY <1>3 DEF CommitDisable, IInv, TypeOK
  <1>4. QED
    BY <1>1, <1>2, <1>3 DEF Commit

(* What a step does to passkeys and accounts.                                *)
LEMMA StepsAdvance ==
    ASSUME IInv, [Next]_vars
    PROVE  /\ \/ passkeys' = passkeys
              \/ \E c \in Credential, row \in Passkey :
                    /\ passkeys' = [passkeys EXCEPT ![c] = row]
                    /\ Advances(passkeys[c], row)
           /\ \A a \in Account : accounts[a] = "disabled" => accounts'[a] = "disabled"
  <1>1. CASE UNCHANGED vars
    BY <1>1 DEF vars
  <1>2. ASSUME NEW p \in Process, Commit(p)
        PROVE  /\ \/ passkeys' = passkeys
                  \/ \E c \in Credential, row \in Passkey :
                        /\ passkeys' = [passkeys EXCEPT ![c] = row]
                        /\ Advances(passkeys[c], row)
               /\ \A a \in Account : accounts[a] = "disabled" => accounts'[a] = "disabled"
    BY <1>2, CommitsAdvance, AccountsAdvance
  <1>3. ASSUME NEW p \in Process, Arrives(p) \/ Statement(p) \/ Abort(p), ~Commit(p)
        PROVE  UNCHANGED <<accounts, passkeys>>
    BY <1>3, OnlyCommitsWrite
  <1>4. QED
    BY <1>1, <1>2, <1>3 DEF Next

(* An owner once there stays there.                                          *)
LEMMA VacantStays == IInv /\ Vacant /\ [Next]_vars => Vacant'
  <1> SUFFICES ASSUME IInv, Vacant, [Next]_vars PROVE Vacant'
    OBVIOUS
  <1>1. CASE passkeys' = passkeys
    BY <1>1 DEF Vacant
  <1>2. ASSUME NEW c \in Credential, NEW row \in Passkey, Advances(passkeys[c], row),
               passkeys' = [passkeys EXCEPT ![c] = row]
        PROVE  Vacant'
    BY <1>2 DEF Vacant, Advances, IInv, TypeOK
  <1>3. QED
    BY <1>1, <1>2, StepsAdvance

(* Rows are written back whole and yet no counter goes back, no revocation   *)
(* and no disabling is undone.                                               *)
THEOREM RowsAdvance == Spec => RowsOnlyAdvance
  <1>1. Init => Vacant
    <2> SUFFICES ASSUME Init PROVE Vacant
      OBVIOUS
    <2>1. \A c \in Credential : \/ passkeys[c] = NoPasskey
                                \/ \E a \in Account : passkeys[c] = NewPasskey(a, 0)
      BY DEF Init
    <2>2. \A a \in Account : NewPasskey(a, 0).owner # None
      BY NullAssumption DEF NewPasskey
    <2>3. QED
      BY <2>1, <2>2 DEF Vacant
  <1>2. ASSUME IInv, Vacant, [Next]_vars
        PROVE  /\ \A c \in Credential :
                     /\ passkeys'[c].count >= passkeys[c].count
                     /\ passkeys[c].revoked => passkeys'[c] = passkeys[c]
               /\ \A a \in Account : accounts[a] = "disabled" => accounts'[a] = "disabled"
    <2>1. \A c \in Credential : passkeys[c] \in Passkey /\ passkeys[c].count \in Nat
      BY <1>2, LimitsAssumption DEF IInv, TypeOK, Passkey
    <2>2. CASE passkeys' = passkeys
      BY <1>2, <2>1, <2>2, StepsAdvance
    <2>3. ASSUME NEW d \in Credential, NEW row \in Passkey, Advances(passkeys[d], row),
                 passkeys' = [passkeys EXCEPT ![d] = row]
          PROVE  \A c \in Credential :
                     /\ passkeys'[c].count >= passkeys[c].count
                     /\ passkeys[c].revoked => passkeys'[c] = passkeys[c]
      <3>1. row.count \in Nat
        BY LimitsAssumption DEF Passkey
      <3>2. row.count >= passkeys[d].count /\ ~passkeys[d].revoked
        <4>1. CASE passkeys[d].owner = None
          BY <1>2, <3>1, <4>1 DEF Vacant, NoPasskey
        <4>2. CASE passkeys[d].owner # None
          BY <2>3, <4>2 DEF Advances
        <4>3. QED
          BY <4>1, <4>2
      <3>3. passkeys'[d] = row /\ \A c \in Credential : c # d => passkeys'[c] = passkeys[c]
        BY <1>2, <2>3 DEF IInv, TypeOK
      <3>4. QED
        BY <2>1, <3>2, <3>3
    <2>4. QED
      BY <1>2, <2>2, <2>3, StepsAdvance
  <1>3. IInv /\ Vacant /\ [Next]_vars
          => [/\ \A c \in Credential :
                    /\ passkeys'[c].count >= passkeys[c].count
                    /\ passkeys[c].revoked => passkeys'[c] = passkeys[c]
              /\ \A a \in Account : accounts[a] = "disabled" => accounts'[a] = "disabled"]_vars
    BY <1>2
  <1>4. QED
    BY <1>1, <1>3, InvariantHolds, VacantStays, PTL DEF Spec, RowsOnlyAdvance

-----------------------------------------------------------------------------
(* Which statement a request can be at with a lock in its hands: a passkey   *)
(* is held from its statement on, an account from its own, and a session     *)
(* only at the end and with its account.                                     *)
Rests(q) ==
    LET r == request[q]
    IN  /\ \A a \in Account : holder[a] = q => r.account = a /\ r.pc \in PastUser
        /\ \A c \in Credential : holder[c] = q =>
              /\ r.credential = c
              /\ \/ r.pc = "commit"
                 \/ /\ r.op \in WithPasskey /\ r.pc \in PastPasskey
                    /\ passkeys[c].owner # None
        /\ \A s \in SessionId : holder[s] = q =>
              r.pc \in {"rows", "commit"} /\ sessions[s].owner = r.account

AllRest == \A q \in Process : Rests(q)

(* Rows have their owners for good.                                          *)
LEMMA OwnersStay ==
    ASSUME IInv, [Next]_vars
    PROVE  /\ \A c \in Credential : passkeys[c].owner # None => passkeys'[c].owner # None
           /\ \A s \in Committed : sessions'[s].owner = sessions[s].owner
  <1>1. \A c \in Credential : passkeys[c].owner # None => passkeys'[c].owner # None
    BY StepsAdvance DEF Advances, IInv, TypeOK
  <1>2. sessions \in [SessionId -> Session]
    BY DEF IInv, TypeOK
  <1>3. ASSUME NEW p \in Process, Commit(p)
        PROVE  \A s \in Committed : sessions'[s].owner = sessions[s].owner
    <2>1. CASE \E s \in SessionId : Authenticate(p, s)
      BY <1>2, <2>1 DEF Authenticate, Committed
    <2>2. CASE CommitLogout(p)
      BY <1>2, <2>2 DEF CommitLogout, Committed, Session
    <2>3. CASE CommitDisable(p)
      BY <1>2, <2>3 DEF CommitDisable, Committed, Session
    <2>4. CASE (\E count \in Counts : Register(p, count)) \/ Reauthenticate(p)
                 \/ CommitRevocation(p)
      BY <2>4 DEF Register, Reauthenticate, CommitRevocation
    <2>5. QED
      BY <1>3, <2>1, <2>2, <2>3, <2>4 DEF Commit
  <1>4. ASSUME NEW p \in Process, Arrives(p) \/ Statement(p) \/ Abort(p), ~Commit(p)
        PROVE  UNCHANGED sessions
    BY <1>4
       DEF Arrives, Statement, Abort, UnchangedRows, Arrive, BeginAuthentication, Disable,
         FinishAuthentication, Logout, BeginRegistration, BeginReauthentication,
         FinishRegistration, FinishReauthentication, RevokePasskey, Begin, Consume,
         LockPasskey, LockUser, InsertPasskey, Verify, LockSession, LockRow, EndRows
  <1>5. \A s \in Committed : sessions'[s].owner = sessions[s].owner
    BY <1>3, <1>4 DEF Next, vars
  <1>6. QED
    BY <1>1, <1>5

(* The others' locks and statements are as before.                           *)
LEMMA OthersRest ==
    ASSUME IInv, AllRest, [Next]_vars, NEW p \in Process, Rests(p)',
           \A q \in Process : q # p => request'[q] = request[q],
           \/ UNCHANGED holder
           \/ ReleaseAll(p)
           \/ \E m \in Locks : Take(p, m)
    PROVE  AllRest'
  <1>1. ASSUME NEW q \in Process, q # p PROVE Rests(q)'
    <2>1. \A l \in Locks : holder'[l] = q => holder[l] = q
      BY <1>1, NullAssumption DEF ReleaseAll, Take, IInv, TypeOK, LocksTypeOK, Locks
    <2>2. Rests(q) /\ request'[q] = request[q]
      BY <1>1 DEF AllRest
    <2>3. request[q].pc \in {"rows", "commit"} => request[q].account \in Account
      BY Known DEF PastUser
    <2>4. /\ \A c \in Credential : passkeys[c].owner # None => passkeys'[c].owner # None
          /\ \A s \in Committed : sessions'[s].owner = sessions[s].owner
      BY OwnersStay
    <2>5. \A s \in SessionId : holder[s] = q => sessions'[s].owner = sessions[s].owner
      BY <2>2, <2>3, <2>4, NullAssumption DEF Rests, Committed
    <2>6. QED
      BY <2>1, <2>2, <2>4, <2>5 DEF Rests, Locks
  <1>2. QED
    BY <1>1 DEF AllRest

(* Whoever ends holds nothing, and neither does who just came.               *)
LEMMA EmptyHands ==
    ASSUME IInv, AllRest, [Next]_vars, NEW p \in Process,
           \E r : request' = [request EXCEPT ![p] = r],
           ReleaseAll(p) \/ (UNCHANGED holder /\ At(p, "idle"))
    PROVE  AllRest'
  <1>1. \A l \in Locks : holder'[l] # p
    BY NullAssumption DEF ReleaseAll, IInv, TypeOK, LocksTypeOK, Locks
  <1>2. Rests(p)'
    BY <1>1 DEF Rests, Locks
  <1>3. \A q \in Process : q # p => request'[q] = request[q]
    BY DEF IInv, TypeOK
  <1>4. QED
    BY <1>2, <1>3, OthersRest

(* A statement that goes on: what its request holds fits where it goes.      *)
LEMMA StatementRests ==
    ASSUME IInv, AllRest, NEW p \in Process, Statement(p), ~End(p)
    PROVE  AllRest'
  <1> DEFINE r == request[p]
             n == request'[p]
  <1> USE NullAssumption
  <1>1. r \in Request /\ Course(r) /\ Holds(p) /\ Rests(p) /\ LocksTypeOK /\ [Next]_vars
    BY Known DEF AllRest, Next
  <1>2. /\ r.op \in AllOps => r.op \in Beginning \cup {"finishRegistration", "logout", "disable"}
                                         \cup WithPasskey
        /\ r.pc # "idle" => r.op \in AllOps
    BY <1>1, Known DEF AllOps, Finishing, WithPasskey, At
  <1>3. ASSUME \E m \in Request : request' = [request EXCEPT ![p] = m], Rests(p)',
               UNCHANGED holder \/ \E m \in Locks : Take(p, m)
        PROVE  AllRest'
    <2>1. \A q \in Process : q # p => request'[q] = request[q]
      BY <1>3 DEF IInv, TypeOK
    <2>2. QED
      BY <1>1, <1>3, <2>1, OthersRest
  <1>4. CASE LockPasskey(p)
    <2> DEFINE c == r.credential
               m == [r EXCEPT !.stored = passkeys[c], !.account = passkeys[c].owner,
                              !.pc = After(p)]
    <2>1. /\ r.pc = "passkey" /\ Take(p, c) /\ passkeys[c].owner # None
          /\ request' = [request EXCEPT ![p] = m] /\ UNCHANGED passkeys
      BY <1>4 DEF LockPasskey, At, UnchangedRows
    <2>2. r.op \in WithPasskey /\ c \in Credential
      BY <1>1, <1>2, <2>1, Known DEF Course, WithPasskey, Finishing
    <2>3. After(p) = "user" /\ passkeys[c] \in Passkey /\ passkeys[c].owner \in Account
      BY <1>1, <1>2, <2>1, <2>2, Courses DEF At, AllOps, WithPasskey, Finishing, IInv, TypeOK, Passkey
    <2>4. m \in Request /\ m.pc = "user" /\ m.credential = c /\ m.op = r.op
      BY <1>1, <2>3 DEF Request, Step
    <2> HIDE DEF m
    <2>5. n = m
      BY <2>1 DEF IInv, TypeOK
    <2>6. \A l \in Locks : holder[l] # p
      BY <1>1, <2>1 DEF Rests, Locks, PastUser, PastPasskey
    <2>7. \A l \in Locks : holder'[l] = p => l = c
      BY <1>1, <2>1, <2>6 DEF Take, LocksTypeOK, Locks
    <2>8. Rests(p)'
      BY <2>1, <2>2, <2>4, <2>5, <2>7, RowsAssumption DEF Rests, Locks, PastPasskey
    <2>9. QED
      BY <1>3, <2>1, <2>2, <2>4, <2>8 DEF Locks
  <1>5. CASE LockUser(p)
    <2> DEFINE a == r.account
               m == [r EXCEPT !.user = accounts[a], !.pc = After(p)]
    <2>1. /\ r.pc = "user" /\ Take(p, a)
          /\ request' = [request EXCEPT ![p] = m] /\ UNCHANGED passkeys
      BY <1>5 DEF LockUser, At, UnchangedRows
    <2>2. r.op \notin Beginning /\ a \in Account /\ accounts[a] \in Status
      BY <1>1, <1>2, <2>1 DEF Course, WithPrincipal, WithPasskey, Request, IInv, TypeOK
    <2>3. /\ After(p) \in PastUser
          /\ r.op \in WithPasskey => After(p) \in PastPasskey
      BY <1>1, <1>2, <2>1, <2>2, Courses DEF At, PastUser, PastPasskey, WithPasskey
    <2>4. m \in Request /\ m.pc = After(p) /\ m.credential = r.credential /\ m.op = r.op
            /\ m.account = a
      BY <1>1, <2>2, <2>3 DEF Request, Step, PastUser
    <2> HIDE DEF m
    <2>5. n = m
      BY <2>1 DEF IInv, TypeOK
    <2>6. /\ \A x \in Account : holder[x] # p
          /\ \A x \in SessionId : holder[x] # p
          /\ \A x \in Credential : holder[x] = p =>
                r.credential = x /\ r.op \in WithPasskey /\ passkeys[x].owner # None
      BY <1>1, <2>1 DEF Rests, PastUser
    <2>7. \A l \in Locks : holder'[l] = p => l = a \/ holder[l] = p
      BY <1>1, <2>1 DEF Take, LocksTypeOK, Locks
    <2>8. /\ \A x \in Account : holder'[x] = p => x = a
          /\ \A x \in Credential : holder'[x] = p => holder[x] = p
          /\ \A x \in SessionId : holder'[x] # p
      BY <2>2, <2>6, <2>7, RowsAssumption DEF Locks
    <2>9. Rests(p)'
      BY <2>1, <2>3, <2>4, <2>5, <2>6, <2>8 DEF Rests
    <2>10. QED
      BY <1>3, <2>1, <2>2, <2>4, <2>9 DEF Locks
  <1>6. ASSUME r.pc \in PastUser, NEW m \in Request, request' = [request EXCEPT ![p] = m],
               m.account = r.account, m.credential = r.credential, m.op = r.op,
               m.pc \in PastUser, UNCHANGED <<passkeys, sessions>>,
               m.pc = r.pc \/ m.pc = "commit" \/ (r.pc = "verify" /\ m.pc = "session"),
               \/ UNCHANGED holder
               \/ m.pc = "commit" /\ \E c \in Credential : c = r.credential /\ Take(p, c)
               \/ /\ m.pc \in {"rows", "commit"}
                  /\ \E s \in SessionId : sessions[s].owner = r.account /\ Take(p, s)
        PROVE  AllRest'
    <2>1. n = m
      BY <1>6 DEF IInv, TypeOK
    <2>2. \A x \in Account : holder'[x] = p => holder[x] = p
      BY <1>1, <1>6, RowsAssumption DEF Take, LocksTypeOK
    <2>3. \A x \in Credential : holder'[x] = p =>
             holder[x] = p \/ (m.pc = "commit" /\ x = r.credential)
      BY <1>1, <1>6, RowsAssumption DEF Take, LocksTypeOK
    <2>4. \A x \in SessionId : holder'[x] = p =>
             \/ holder[x] = p
             \/ m.pc \in {"rows", "commit"} /\ sessions[x].owner = r.account
      BY <1>1, <1>6, RowsAssumption DEF Take, LocksTypeOK
    <2>5. Rests(p)'
      BY <1>1, <1>6, <2>1, <2>2, <2>3, <2>4 DEF Rests, PastPasskey
    <2>6. QED
      BY <1>3, <1>6, <2>5 DEF Locks
  <1>7. CASE InsertPasskey(p) \/ LockSession(p) \/ EndRows(p)
    <2> DEFINE m == [r EXCEPT !.pc = After(p)]
    <2>1. /\ r.pc \in {"insert", "session", "rows"} /\ UNCHANGED <<passkeys, sessions>>
          /\ request' = [request EXCEPT ![p] = m]
      BY <1>7 DEF InsertPasskey, LockSession, EndRows, At, Goto, UnchangedRows
    <2>2. /\ r.op \notin Beginning /\ After(p) = "commit"
          /\ r.pc = "insert" => r.op = "finishRegistration"
          /\ r.pc = "session" => r.op \in {"finishReauthentication", "logout"}
      BY <1>1, <1>2, <2>1, Courses DEF At, WithPasskey, Course
    <2>3. m \in Request /\ m.pc = "commit" /\ m.account = r.account
            /\ m.credential = r.credential /\ m.op = r.op
      BY <1>1, <2>2 DEF Request, Step
    <2> HIDE DEF m
    <2>4. InsertPasskey(p) => r.credential \in Credential /\ Take(p, r.credential)
      BY <1>1, <1>7, <2>2, Known DEF InsertPasskey, At, Finishing
    <2>5. LockSession(p) => /\ r.session \in SessionId /\ Take(p, r.session)
                            /\ sessions[r.session].owner = r.account
      BY <1>1, <1>7, <2>2, Known DEF LockSession, At, WithPrincipal, Holds
    <2>6. EndRows(p) => UNCHANGED holder
      BY DEF EndRows
    <2>7. QED
      BY <1>6, <1>7, <2>1, <2>3, <2>4, <2>5, <2>6 DEF PastUser
  <1>8. CASE \E count \in Counts, good \in BOOLEAN : Verify(p, count, good)
    <2>1. PICK count \in Counts, good \in BOOLEAN : Verify(p, count, good)
      BY <1>8
    <2> DEFINE m == [r EXCEPT !.count = count, !.pc = After(p)]
    <2>2. /\ r.pc = "verify" /\ UNCHANGED <<passkeys, sessions, holder>>
          /\ request' = [request EXCEPT ![p] = m]
      BY <2>1 DEF Verify, At, UnchangedRows
    <2>3. r.op \notin Beginning /\ After(p) \in {"session", "commit"}
      BY <1>1, <1>2, <2>2, Courses DEF At, WithPasskey, Course
    <2>4. m \in Request /\ m.pc = After(p) /\ m.account = r.account
            /\ m.credential = r.credential /\ m.op = r.op
      BY <1>1, <2>3 DEF Request, Step, Counts
    <2> HIDE DEF m
    <2>5. QED
      BY <1>6, <2>2, <2>3, <2>4 DEF PastUser
  <1>9. CASE \E s \in SessionId : LockRow(p, s)
    <2>1. PICK s \in SessionId : LockRow(p, s)
      BY <1>9
    <2>2. /\ r.pc = "rows" /\ UNCHANGED <<passkeys, sessions, request>> /\ Take(p, s)
          /\ sessions[s].owner = r.account
      BY <2>1 DEF LockRow, At, UnchangedRows, Remaining, LiveSessions
    <2>3. request' = [request EXCEPT ![p] = r]
      BY <2>2 DEF IInv, TypeOK
    <2>4. QED
      BY <1>1, <1>6, <2>2, <2>3 DEF PastUser
  <1>10. CASE \E ch \in Challenge, c \in Credential, expired, good \in BOOLEAN :
                 Consume(p, ch, c, expired, good)
    <2>1. PICK ch \in Challenge, c \in Credential :
             /\ r.pc = "consume" /\ UNCHANGED holder
             /\ request' = [request EXCEPT ![p].challenge = ch, ![p].credential = c,
                                           ![p].pc = First(r.op)]
      BY <1>10 DEF Consume, At
    <2> DEFINE m == [r EXCEPT !.challenge = ch, !.credential = c, !.pc = First(r.op)]
    <2>2. r.op \in Finishing
      BY <1>1, <1>2, <2>1 DEF Course, Finishing, WithPasskey
    <2>3. First(r.op) \in {"passkey", "user"}
      BY <2>2, FirstSteps DEF Finishing
    <2>4. m \in Request
      BY <1>1, <2>3 DEF Request, Step
    <2>5. request' = [request EXCEPT ![p] = m]
      BY <2>1
    <2>6. \A l \in Locks : holder'[l] # p
      BY <1>1, <2>1 DEF Rests, Locks, PastUser, PastPasskey
    <2>7. Rests(p)'
      BY <2>6 DEF Rests, Locks
    <2> HIDE DEF m
    <2>8. QED
      BY <1>3, <2>1, <2>4, <2>5, <2>7
  <1>11. QED
    BY <1>4, <1>5, <1>7, <1>8, <1>9, <1>10
       DEF Statement, Begin, Commit, Register, Authenticate, Reauthenticate,
           CommitRevocation, CommitLogout, CommitDisable, Committing

(* Every step keeps it so.                                                   *)
LEMMA RestStays == IInv /\ AllRest /\ [Next]_vars => AllRest'
  <1> SUFFICES ASSUME IInv, AllRest, [Next]_vars PROVE AllRest'
    OBVIOUS
  <1>1. CASE UNCHANGED vars
    BY <1>1 DEF vars, AllRest, Rests
  <1>2. ASSUME NEW p \in Process, End(p) PROVE AllRest'
    BY <1>2, EmptyHands DEF End
  <1>3. ASSUME NEW p \in Process, Arrives(p) PROVE AllRest'
    <2>1. At(p, "idle") /\ UNCHANGED holder /\ \E r : request' = [request EXCEPT ![p] = r]
      BY <1>3 DEF Arrives, Arrive, BeginAuthentication, Disable, FinishAuthentication,
         Logout, BeginRegistration, BeginReauthentication, FinishRegistration,
         FinishReauthentication, RevokePasskey
    <2>2. QED
      BY <2>1, EmptyHands
  <1>4. ASSUME NEW p \in Process, Statement(p) PROVE AllRest'
    BY <1>2, <1>4, StatementRests
  <1>5. ASSUME NEW p \in Process, Abort(p) PROVE AllRest'
    BY <1>2, <1>5 DEF Abort
  <1>6. QED
    BY <1>1, <1>3, <1>4, <1>5 DEF Next

(* Of requests that only wait for each other, none waits for a session, who  *)
(* waits for a new credential waits for one that commits, so nobody waits    *)
(* for an account, nor, in the end, for a passkey.                           *)
LEMMA NobodyIsStuck ==
    ASSUME IInv, AllRest PROVE NoDeadlock
  <1> SUFFICES ASSUME NEW p \in Process, NEW group \in SUBSET Process, p \in group,
                      \A q \in group :
                         /\ Wants[q] # {}
                         /\ \A l \in Wants[q] : holder[l] \in group \ {q}
               PROVE  FALSE
    BY DEF NoDeadlock, Deadlocked
  <1>1. ASSUME NEW q \in group
        PROVE  LET r == request[q]
               IN  /\ r.pc = "passkey" => holder[r.credential] \in group
                   /\ r.pc = "insert" => /\ passkeys[r.credential].owner = None
                                         /\ holder[r.credential] \in group
                   /\ r.pc \in {"user", "begin"} => /\ r.account # None
                                                    /\ holder[r.account] \in group
                   /\ r.pc = "session" => holder[r.session] \in group \ {q}
                   /\ r.pc = "rows" => \E s \in Remaining(q) : holder[s] \in group \ {q}
                   /\ r.pc \notin {"idle", "consume", "verify", "commit"}
    <2> DEFINE r == request[q]
    <2>1. q \in Process
      OBVIOUS
    <2>2. /\ r.pc = "passkey" => Wants[q] \in {{}, {r.credential}}
          /\ r.pc = "insert" => /\ passkeys[r.credential].owner = None
                                      => Wants[q] = {r.credential}
                                /\ passkeys[r.credential].owner # None => Wants[q] = {}
          /\ r.pc \in {"user", "begin"} => /\ r.account # None => Wants[q] = {r.account}
                                           /\ r.account = None => Wants[q] = {}
          /\ r.pc = "session" => Wants[q] = {r.session}
          /\ r.pc = "rows" => Wants[q] = Remaining(q)
          /\ r.pc \in {"idle", "consume", "verify", "commit"} => Wants[q] = {}
      BY <2>1 DEF Wants
    <2> DEFINE wants == Wants[q]
    <2>3. wants # {} /\ \A l \in wants : holder[l] \in group \ {q}
      OBVIOUS
    <2> HIDE DEF wants
    <2>4. \E l \in wants : holder[l] \in group \ {q}
      BY <2>3
    <2>5. QED
      BY <2>2, <2>3, <2>4 DEF wants
  <1>2. ASSUME NEW q \in group, NEW s \in SessionId, request[q].pc \in PastUser,
               sessions[s].owner = request[q].account, holder[s] \in group \ {q}
        PROVE  FALSE
    <2>1. PICK o \in group : holder[s] = o /\ o # q
      BY <1>2
    <2>2. request[o].pc \in PastUser /\ sessions[s].owner = request[o].account
      BY <2>1 DEF AllRest, Rests, PastUser
    <2>3. holder[request[o].account] = o /\ holder[request[q].account] = q
      BY <1>2, <2>2, Known DEF Holds
    <2>4. QED
      BY <1>2, <2>1, <2>2, <2>3
  <1>3. ASSUME NEW q \in group PROVE request[q].pc \notin {"session", "rows"}
    <2>1. /\ request[q] \in Request /\ Course(request[q]) /\ Holds(q)
          /\ request[q].pc # "idle" => request[q].op \in AllOps
      BY Known DEF At
    <2>2. CASE request[q].pc = "session"
      <3>1. request[q].op \in WithPrincipal
        BY <2>1, <2>2 DEF Course, AllOps, Beginning, Finishing, WithPrincipal
      <3>2. request[q].session \in SessionId
              /\ sessions[request[q].session].owner = request[q].account
        BY <2>1, <3>1, Known DEF Holds
      <3>3. holder[request[q].session] \in group \ {q}
        BY <1>1, <2>2
      <3>4. QED
        BY <1>2, <2>2, <3>2, <3>3 DEF PastUser
    <2>3. CASE request[q].pc = "rows"
      <3>1. PICK s \in Remaining(q) : holder[s] \in group \ {q}
        BY <1>1, <2>3
      <3>2. s \in SessionId /\ sessions[s].owner = request[q].account
        BY DEF Remaining, LiveSessions
      <3>3. QED
        BY <1>2, <2>3, <3>1, <3>2 DEF PastUser
    <2>4. QED
      BY <2>2, <2>3
  <1>4. ASSUME NEW q \in group PROVE request[q].pc # "insert"
    <2> SUFFICES ASSUME request[q].pc = "insert" PROVE FALSE
      OBVIOUS
    <2> DEFINE c == request[q].credential
    <2>1. passkeys[c].owner = None /\ holder[c] \in group
      BY <1>1
    <2>2. request[q].op = "finishRegistration"
      BY Known DEF Course, At, AllOps, Beginning, Finishing
    <2>3. c \in Credential
      BY <2>2, Known DEF Finishing
    <2>4. PICK o \in group : holder[c] = o
      BY <2>1
    <2>5. request[o].pc = "commit"
      BY <2>1, <2>3, <2>4 DEF AllRest, Rests
    <2>6. QED
      BY <1>1, <2>5
  <1>5. ASSUME NEW q \in group PROVE request[q].pc \notin {"user", "begin"}
    <2> SUFFICES ASSUME request[q].pc \in {"user", "begin"} PROVE FALSE
      OBVIOUS
    <2> DEFINE a == request[q].account
    <2>1. a # None /\ holder[a] \in group
      BY <1>1
    <2>2. a \in Account
      BY <2>1, Known DEF Request
    <2>3. PICK o \in group : holder[a] = o
      BY <2>1
    <2>4. request[o].pc \in PastUser
      BY <2>2, <2>3 DEF AllRest, Rests
    <2>5. request[o].pc \in {"verify", "commit"}
      BY <1>3, <1>4, <2>4 DEF PastUser
    <2>6. QED
      BY <1>1, <2>5
  <1>6. request[p].pc \in Step
    BY Known DEF Request
  <1>7. request[p].pc = "passkey"
    BY <1>1, <1>3, <1>4, <1>5, <1>6 DEF Step
  <1> DEFINE c == request[p].credential
  <1>8. holder[c] \in group
    BY <1>1, <1>7
  <1>9. c \in Credential
    <2>1. request[p].op \in WithPasskey
      BY <1>7, Known DEF Course, At, AllOps, Beginning, Finishing, WithPasskey
    <2>2. QED
      BY <1>7, <2>1, Known DEF WithPasskey, Finishing
  <1>10. PICK o \in group : holder[c] = o
    BY <1>8
  <1>11. request[o].pc \in PastPasskey
    BY <1>9, <1>10 DEF AllRest, Rests, PastPasskey
  <1>12. request[o].pc \in {"verify", "commit"}
    BY <1>3, <1>5, <1>11 DEF PastPasskey
  <1>13. QED
    BY <1>1, <1>12

(* The ceremonies, revocations, logouts and disablings of any number of      *)
(* users never wait for each other in a circle.                              *)
THEOREM NoCircularWait == Spec => []NoDeadlock
  <1>1. Init => AllRest
    BY NullAssumption DEF Init, NoLocks, AllRest, Rests
  <1>2. IInv /\ AllRest => NoDeadlock
    BY NobodyIsStuck
  <1>3. QED
    BY <1>1, <1>2, InvariantHolds, RestStays, PTL DEF Spec

=============================================================================
