--------------------------- MODULE EmailLinksProofs ---------------------------
(***************************************************************************)
(* Theorems about module EmailLinks, for every set of accounts and links   *)
(* and every lifetime, window, retention and lag.                          *)
(*                                                                         *)
(* The argument: a link's version fences it.  Whatever changes an account  *)
(* in a way that matters advances its version, so that a link which still  *)
(* has the account's version finds the account as it was when the link was *)
(* issued; and generations grow, so that the newest link delivered is the  *)
(* one that stays.                                                         *)
(***************************************************************************)
EXTENDS EmailLinks, TLAPS, FiniteSetTheorems, WellFoundedInduction

(* An identifier that has been given to a link.                              *)
Used(l) == links[l].state # "none"

(* A link names an account that is there.  As long as its version is the     *)
(* account's, the account is as it was when the link was issued and may      *)
(* still ask for such a link.                                                *)
LinkOK(l) ==
    LET link == links[l]
        account == accounts[link.user]
    IN  /\ Used(l) =>
              /\ link.user \in User /\ account.status # "absent"
              /\ link.created <= clock
              /\ link.version = issuedTo[l].version /\ link.version <= account.version
              /\ link.version = account.version =>
                    /\ Settled(account) = Settled(issuedTo[l])
                    /\ CanRequest(account, link.purpose, link.created)
        /\ link.state = "deleted" => link.created + Retention < clock
        /\ ~Used(l) => link = Absent

(* What dispatch, queue and worker have done of a link's mail.               *)
MailOK(l) ==
    /\ ~Used(l) => dispatch[l] = "none"
    /\ dispatch[l] \in {"none", "ready"} => job[l] = "none"
    /\ job[l] \in {"accepted", "finished"} => l \in inbox
    /\ job[l] = "finished" => links[l].state # "pending"

Bounded == \E g \in Nat : \A l \in LinkId : links[l].generation <= g

(* The clocks of two requests disagree by MaxLag at most.                    *)
InTurn ==
    \A l, m \in Row :
        /\ links[l].user = links[m].user /\ links[l].purpose = links[m].purpose
        /\ links[l].generation <= links[m].generation
        => links[l].created <= links[m].created + MaxLag

(* A request that found its link active has not waited longer than MaxLag.   *)
Timely == \A c \in checked : c.now \in Nows

(* The inductive invariant.                                                  *)
IInv ==
    /\ TypeOK
    /\ Timely
    /\ \A l \in LinkId : LinkOK(l) /\ MailOK(l)
    /\ Bounded
    /\ NewestWins
    /\ InTurn
    /\ NoSessionWithoutStanding

-----------------------------------------------------------------------------
(* A set of naturals under a bound has a greatest element, and Max is it.    *)
LEMMA GreatestExists ==
    ASSUME NEW S \in SUBSET Nat, S # {}, NEW g \in Nat, \A x \in S : x <= g
    PROVE  Max(S) \in S /\ \A x \in S : x <= Max(S)
  <1> DEFINE B == {b \in Nat : \A x \in S : x <= b}
             R == {pair \in Nat \X Nat : pair[1] < pair[2]}
  <1>1. \E b \in B : \A c \in B : ~(<<c, b>> \in R)
    <2>1. IsWellFoundedOn(R, Nat)
      BY NatLessThanWellFounded DEF OpToRel
    <2>2. B \subseteq Nat /\ g \in B
      OBVIOUS
    <2> HIDE DEF B, R
    <2>3. QED
      BY <2>1, <2>2, WFMin
  <1>2. PICK b \in B : \A c \in B : ~(c < b)
    BY <1>1
  <1>3. b \in S
    <2> SUFFICES ASSUME b \notin S PROVE FALSE
      OBVIOUS
    <2>1. \A x \in S : x < b /\ x <= b - 1
      OBVIOUS
    <2>2. PICK x \in S : x \in Nat /\ x < b
      BY <2>1
    <2>3. b > 0 /\ b - 1 \in Nat
      BY <1>2, <2>2
    <2>4. b - 1 \in B
      BY <2>1, <2>3
    <2>5. QED
      BY <1>2, <2>3, <2>4
  <1>4. \E x \in S : \A y \in S : x >= y
    BY <1>3
  <1>5. QED
    BY <1>4 DEF Max

(* A new link's generation is above those of its rivals.                     *)
LEMMA NewGeneration ==
    ASSUME NEW table \in [LinkId -> Link], NEW g \in Nat,
           \A l \in LinkId : table[l].generation <= g,
           NEW u, NEW purpose, NEW now, NEW version
    PROVE  LET new == NewLink(table, u, purpose, now, version)
           IN  /\ new.generation \in Nat /\ new.generation <= g + 1
               /\ \A l \in Issued(table, u, purpose) : table[l].generation < new.generation
  <1> DEFINE S == {0} \cup {table[l].generation : l \in Issued(table, u, purpose)}
  <1>1. \A l \in Issued(table, u, purpose) :
           table[l].generation \in Nat /\ table[l].generation <= g
    BY DEF Issued, Link
  <1>2. S \in SUBSET Nat /\ S # {} /\ \A x \in S : x <= g
    BY <1>1
  <1>3. NewLink(table, u, purpose, now, version).generation = 1 + Max(S)
    BY DEF NewLink
  <1>4. \A l \in Issued(table, u, purpose) : table[l].generation \in S
    OBVIOUS
  <1> HIDE DEF S
  <1>5. Max(S) \in S /\ \A x \in S : x <= Max(S)
    BY <1>2, GreatestExists
  <1>6. Max(S) \in Nat /\ Max(S) <= g
    BY <1>2, <1>5
  <1> DEFINE m == Max(S)
  <1>7. \A l \in Issued(table, u, purpose) :
           table[l].generation \in Nat /\ table[l].generation <= m
    BY <1>1, <1>4, <1>5
  <1> HIDE DEF m
  <1>8. 1 + m \in Nat /\ 1 + m <= g + 1
        /\ \A l \in Issued(table, u, purpose) : table[l].generation < 1 + m
    BY <1>6, <1>7 DEF m
  <1>9. QED
    BY <1>3, <1>8 DEF m

-----------------------------------------------------------------------------
(* What a step makes of the table of links: nothing; what retention deletes; *)
(* a new link; another state for one link; or the delivered link in the      *)
(* place of the active ones.                                                 *)
Deleting(now) == links' = DeleteOld(now) /\ UNCHANGED issuedTo

Issuing(u, purpose, l, now, account) ==
    LET kept == DeleteOld(now)
    IN  /\ ~Used(l)
        /\ links' = [kept EXCEPT ![l] = NewLink(kept, u, purpose, now, account.version)]
        /\ Requests(kept, u, purpose, now) < MaxRequests
        /\ issuedTo' = [issuedTo EXCEPT ![l] = account]
        /\ dispatch[l] = "none"
        /\ CanRequest(account, purpose, now) /\ account.status # "absent"
        /\ accounts'[u] = account
        /\ accounts[u] = account \/ accounts[u].status = "absent"

Settling(l, to, now) ==
    /\ links' = SetState(l, to) /\ TimesInOrder(now) /\ UNCHANGED issuedTo
    /\ \/ /\ links[l].state = "pending" /\ to = "failed"
          /\ dispatch'[l] = "failed" \/ (job[l] = "refused" /\ job'[l] = "failed")
       \/ /\ links[l].state \in {"pending", "active"} /\ to = "revoked"
          /\ \/ ~StillGood(l, now)
             \/ job[l] = "accepted" /\ (links[l].state = "active" \/ ~IsLatest(l))
       \/ links[l].state = "active" /\ to = "consumed" /\ StillGood(l, now)

Delivering(l, now) ==
    /\ links[l].state = "pending" /\ IsLatest(l) /\ StillGood(l, now)
    /\ job[l] = "accepted" /\ job' = [job EXCEPT ![l] = "finished"]
    /\ links' = RevokeOtherActive(l) /\ TimesInOrder(now) /\ UNCHANGED issuedTo

LinksMove ==
    \/ UNCHANGED <<links, issuedTo>>
    \/ \E now \in Nows : Deleting(now)
    \/ \E u \in User, purpose \in Purpose, l \in LinkId, now \in Nows, account \in Account :
          Issuing(u, purpose, l, now, account)
    \/ \E l \in LinkId, now \in Nows :
          \/ \E to \in {"failed", "revoked", "consumed"} : Settling(l, to, now)
          \/ Delivering(l, now)

(* What a step makes of an account: nothing, or a lock forgotten, or a later *)
(* version.                                                                  *)
Follows(old, new) ==
    /\ new.status # "absent"
    /\ \/ new = old
       \/ new = [old EXCEPT !.lockedUntil = 0]
       \/ new.version > old.version

(* A new password is a new version.                                          *)
LEMMA NewPasswords ==
    ASSUME NEW account \in Account
    PROVE  /\ NewPassword(account) \in Account
           /\ NewPassword(account).status = account.status
           /\ NewPassword(account).version = account.version + 1
           /\ NewPassword(account).lockedUntil = 0
  <1> DEFINE unlocked == [account EXCEPT !.lockedUntil = 0]
             later == [unlocked EXCEPT !.version = account.version + 1]
             settled == [later EXCEPT !.mustChange = FALSE]
  <1>1. unlocked \in Account /\ unlocked.status = account.status /\ unlocked.lockedUntil = 0
        /\ unlocked.version = account.version
    BY DEF Account
  <1>2. NewPassword(account) = [settled EXCEPT !.passwordLogin = TRUE]
    BY <1>1 DEF NewPassword
  <1> HIDE DEF unlocked
  <1>3. later \in Account /\ later.status = account.status /\ later.lockedUntil = 0
        /\ later.version = account.version + 1
    BY <1>1 DEF Account
  <1> HIDE DEF later
  <1>4. settled \in Account /\ settled.status = account.status /\ settled.lockedUntil = 0
        /\ settled.version = account.version + 1
    BY <1>3 DEF Account
  <1> HIDE DEF settled
  <1>5. QED
    BY <1>2, <1>4 DEF Account

(* Administrators and owners.                                                *)
LEMMA AccountsFollow ==
    ASSUME IInv, NEW u \in User, AccountStep(u)
    PROVE  /\ \E new \in Account : /\ accounts' = [accounts EXCEPT ![u] = new]
                                   /\ accounts[u].status # "absent" => Follows(accounts[u], new)
                                   /\ u \in live' => CanAuthenticate(new, clock)
           /\ live' \subseteq live \cup {u}
           /\ UNCHANGED <<clock, links, mail, checked, history>>
  <1> DEFINE old == accounts[u]
  <1>1. old \in Account /\ clock \in Nat /\ (u \in live => CanAuthenticate(old, clock))
    BY DEF IInv, TypeOK, NoSessionWithoutStanding
  <1>2. ASSUME NEW now \in Nows, CanAuthenticate(old, now) PROVE CanAuthenticate(old, clock)
    BY <1>1, <1>2 DEF CanAuthenticate, Nows, Account
  <1>3. ASSUME NEW status \in {"pending", "active", "disabled"}, NEW admin \in BOOLEAN,
               NEW emailLogin \in BOOLEAN, NEW other \in BOOLEAN,
               UpdateUser(u, status, admin, emailLogin, other)
        PROVE  /\ \E new \in Account : /\ accounts' = [accounts EXCEPT ![u] = new]
                                       /\ Follows(old, new)
                                       /\ u \in live' => CanAuthenticate(new, clock)
               /\ live' \subseteq live \cup {u}
               /\ UNCHANGED <<clock, links, mail, checked, history>>
    <2> DEFINE updated == [old EXCEPT !.status = status, !.admin = admin,
                                      !.emailLogin = emailLogin]
               new == IF updated # old \/ other
                      THEN [updated EXCEPT !.version = old.version + 1] ELSE updated
    <2>1. /\ accounts' = [accounts EXCEPT ![u] = new]
          /\ live' = IF status = "disabled" THEN live \ {u} ELSE live
          /\ UNCHANGED <<clock, links, mail, checked, history>>
          /\ status \in {old.status, "disabled"}
                 \cup (IF old.status = "disabled" THEN {"active"} ELSE {})
      BY <1>3 DEF UpdateUser
    <2>2. updated \in Account /\ updated.status = status /\ updated.version = old.version
          /\ updated.lockedUntil = old.lockedUntil
      <3> DEFINE a == [old EXCEPT !.status = status]
                 b == [a EXCEPT !.admin = admin]
      <3>1. a \in Account /\ a.status = status /\ a.version = old.version
            /\ a.lockedUntil = old.lockedUntil
        BY <1>1 DEF Account
      <3>2. updated = [b EXCEPT !.emailLogin = emailLogin]
        OBVIOUS
      <3> HIDE DEF a
      <3>3. b \in Account /\ b.status = status /\ b.version = old.version
            /\ b.lockedUntil = old.lockedUntil
        BY <3>1 DEF Account
      <3> HIDE DEF b
      <3>4. QED
        BY <3>2, <3>3 DEF Account
    <2>3. new = old \/ new = [updated EXCEPT !.version = old.version + 1]
      OBVIOUS
    <2> HIDE DEF updated, new
    <2>4. /\ new \in Account /\ new.lockedUntil = old.lockedUntil
          /\ new = old \/ (new.version = old.version + 1 /\ new.status = status)
      BY <1>1, <2>2, <2>3 DEF Account
    <2>5. new.status = status
      BY <2>2, <2>3, <2>4 DEF new
    <2>6. Follows(old, new)
      BY <1>1, <2>4, <2>5 DEF Follows, Account
    <2>7. u \in live' => CanAuthenticate(new, clock)
      BY <1>1, <2>1, <2>4, <2>5 DEF CanAuthenticate
    <2>8. QED
      BY <2>1, <2>4, <2>6, <2>7 DEF new
  <1>4. CASE AdministratorReset(u)
    <2> DEFINE new == [NewPassword(old) EXCEPT !.mustChange = TRUE]
    <2>1. new \in Account /\ new.status = old.status /\ new.version = old.version + 1
      BY <1>1, NewPasswords DEF Account
    <2>2. old.status # "absent" /\ live' = live \ {u} /\ accounts' = [accounts EXCEPT ![u] = new]
            /\ UNCHANGED <<clock, links, mail, checked, history>>
      BY <1>4 DEF AdministratorReset
    <2> HIDE DEF new
    <2>3. Follows(old, new)
      BY <1>1, <2>1, <2>2 DEF Follows, Account
    <2>4. QED
      BY <2>1, <2>2, <2>3
  <1>5. ASSUME NEW now \in Nows, PasswordLogin(u, now)
        PROVE  /\ \E new \in Account : /\ accounts' = [accounts EXCEPT ![u] = new]
                                       /\ Follows(old, new)
                                       /\ u \in live' => CanAuthenticate(new, clock)
               /\ live' \subseteq live \cup {u}
               /\ UNCHANGED <<clock, links, mail, checked, history>>
    <2> DEFINE new == [old EXCEPT !.lockedUntil = 0]
    <2>1. /\ new \in Account /\ new.status = old.status /\ new.lockedUntil = 0
          /\ old.status = "active"
      BY <1>1, <1>5 DEF Account, PasswordLogin, CanAuthenticate
    <2>2. /\ accounts' = [accounts EXCEPT ![u] = new] /\ live' = live \cup {u}
          /\ UNCHANGED <<clock, links, mail, checked, history>>
      BY <1>5 DEF PasswordLogin
    <2>3. Follows(old, new)
      BY <2>1 DEF Follows
    <2>4. CanAuthenticate(new, clock)
      BY <1>1, <2>1 DEF CanAuthenticate
    <2>5. QED
      BY <2>1, <2>2, <2>3, <2>4
  <1>6. ASSUME NEW now \in Nows, ChangePassword(u, now)
        PROVE  /\ \E new \in Account : /\ accounts' = [accounts EXCEPT ![u] = new]
                                       /\ Follows(old, new)
                                       /\ u \in live' => CanAuthenticate(new, clock)
               /\ live' \subseteq live \cup {u}
               /\ UNCHANGED <<clock, links, mail, checked, history>>
    <2>1. /\ accounts' = [accounts EXCEPT ![u] = NewPassword(old)] /\ live' = live
          /\ UNCHANGED <<clock, links, mail, checked, history>>
          /\ old.status = "active"
      BY <1>6 DEF ChangePassword, CanAuthenticate
    <2>2. Follows(old, NewPassword(old)) /\ CanAuthenticate(NewPassword(old), clock)
      BY <1>1, <2>1, NewPasswords DEF Follows, CanAuthenticate, Account
    <2>3. QED
      BY <1>1, <2>1, <2>2, NewPasswords
  <1>7. ASSUME NEW now \in Nows, LockAccount(u, now)
        PROVE  /\ \E new \in Account : /\ accounts' = [accounts EXCEPT ![u] = new]
                                       /\ Follows(old, new)
                                       /\ u \in live' => CanAuthenticate(new, clock)
               /\ live' \subseteq live \cup {u}
               /\ UNCHANGED <<clock, links, mail, checked, history>>
    <2> DEFINE locked == [old EXCEPT !.lockedUntil = now + Lockout]
               new == [locked EXCEPT !.version = old.version + 1]
    <2>1. /\ locked \in Account /\ locked.status = old.status /\ locked.version = old.version
          /\ old.status = "active"
      BY <1>1, <1>7, LinkAssumption DEF Account, LockAccount, CanAuthenticate, Nows
    <2>2. /\ accounts' = [accounts EXCEPT ![u] = new] /\ live' = live \ {u}
          /\ UNCHANGED <<clock, links, mail, checked, history>>
      BY <1>7 DEF LockAccount, IInv, TypeOK
    <2> HIDE DEF locked
    <2>3. new \in Account /\ new.status = old.status /\ new.version = old.version + 1
      BY <1>1, <2>1 DEF Account
    <2> HIDE DEF new
    <2>4. Follows(old, new)
      BY <1>1, <2>1, <2>3 DEF Follows, Account
    <2>5. QED
      BY <2>2, <2>3, <2>4
  <1>8. QED
    BY <1>3, <1>4, <1>5, <1>6, <1>7 DEF AccountStep

(* What a step may do to the accounts and their sessions.                    *)
AccountsMove ==
    /\ accounts' \in [User -> Account]
    /\ \A u \in User : accounts[u].status # "absent" => Follows(accounts[u], accounts'[u])
    /\ live' \subseteq User
    /\ \A u \in live' : CanAuthenticate(accounts'[u], clock')

(* Where one account and its session change, the others keep theirs.         *)
LEMMA OneAccount ==
    ASSUME IInv, NEW u \in User, NEW new \in Account,
           accounts' = [accounts EXCEPT ![u] = new],
           accounts[u].status # "absent" => Follows(accounts[u], new),
           live' \subseteq live \cup {u}, u \in live' => CanAuthenticate(new, clock),
           UNCHANGED clock
    PROVE  AccountsMove
  <1>1. accounts \in [User -> Account] /\ live \subseteq User
        /\ \A v \in live : CanAuthenticate(accounts[v], clock)
    BY DEF IInv, TypeOK, NoSessionWithoutStanding
  <1>2. accounts' \in [User -> Account] /\ accounts'[u] = new
        /\ \A v \in User : v # u => accounts'[v] = accounts[v]
    BY <1>1
  <1>3. \A v \in User : accounts[v].status # "absent" => Follows(accounts[v], accounts'[v])
    BY <1>2 DEF Follows
  <1>4. \A v \in live' : CanAuthenticate(accounts'[v], clock')
    BY <1>1, <1>2
  <1>5. QED
    BY <1>1, <1>2, <1>3, <1>4 DEF AccountsMove

(* Where no account changes, all sessions stand.                             *)
LEMMA AccountsRest ==
    ASSUME IInv, UNCHANGED <<accounts, live>>, clock' \in Nat, clock <= clock'
    PROVE  AccountsMove
  <1>1. accounts \in [User -> Account] /\ live \subseteq User /\ clock \in Nat
        /\ \A v \in live : CanAuthenticate(accounts[v], clock)
    BY DEF IInv, TypeOK, NoSessionWithoutStanding
  <1>2. \A v \in live : CanAuthenticate(accounts[v], clock')
    BY <1>1 DEF CanAuthenticate, Account
  <1>3. QED
    BY <1>1, <1>2 DEF AccountsMove, Follows

(* What consumption does to the link, its account and its session.           *)
LEMMA Consuming ==
    ASSUME IInv, NEW l \in LinkId, NEW now \in Nows, NEW outcome \in Account,
           NEW sessions, Consume(l, now, outcome, sessions), UNCHANGED <<clock, issuedTo>>,
           Follows(accounts[links[l].user], outcome),
           sessions \subseteq live \cup {links[l].user},
           StillGood(l, now) /\ links[l].user \in sessions => CanAuthenticate(outcome, clock)
    PROVE  LinksMove /\ AccountsMove
  <1>1. links[l].state = "active" /\ links[l].user \in User
    BY DEF Consume, IInv, LinkOK, Used
  <1> DEFINE u == links[l].user
  <1>2. TimesInOrder(now) /\ UNCHANGED issuedTo
    BY DEF Consume
  <1>3. CASE StillGood(l, now)
    <2>1. /\ links' = SetState(l, "consumed") /\ live' = sessions
          /\ accounts' = [accounts EXCEPT ![u] = outcome]
      BY <1>3 DEF Consume
    <2>2. Settling(l, "consumed", now)
      BY <1>1, <1>2, <1>3, <2>1 DEF Settling
    <2>3. AccountsMove
      <3> HIDE DEF u
      <3>1. /\ u \in User /\ Follows(accounts[u], outcome) /\ live' \subseteq live \cup {u}
            /\ u \in live' => CanAuthenticate(outcome, clock)
            /\ UNCHANGED clock
        BY <1>1, <1>3, <2>1 DEF u
      <3>2. QED
        BY <2>1, <3>1, OneAccount
    <2>4. QED
      BY <2>2, <2>3 DEF LinksMove
  <1>4. CASE ~StillGood(l, now)
    <2>1. links' = SetState(l, "revoked") /\ UNCHANGED <<accounts, live>>
      BY <1>4 DEF Consume
    <2>2. Settling(l, "revoked", now)
      BY <1>1, <1>2, <1>4, <2>1 DEF Settling
    <2>3. QED
      BY <2>1, <2>2, AccountsRest DEF LinksMove, IInv, TypeOK
  <1>5. QED
    BY <1>3, <1>4

(* The requests of a window are a number.                                    *)
LEMMA RequestsCounted ==
    ASSUME NEW table, NEW u, NEW purpose, NEW now
    PROVE  Requests(table, u, purpose, now) \in Nat
  <1> DEFINE S == {l \in Issued(table, u, purpose) : table[l].created + Window >= now}
  <1>1. S \subseteq LinkId
    BY DEF Issued
  <1>2. IsFiniteSet(S)
    BY <1>1, IdsAssumption, FS_Subset
  <1>3. Cardinality(S) \in Nat
    BY <1>2, FS_CardinalityType
  <1>4. QED
    BY <1>3 DEF Requests

(* A request that is over the limit only deletes.                            *)
LEMMA IssuingOrDeleting ==
    ASSUME NEW u, NEW purpose, NEW l \in LinkId, NEW now, NEW account,
           IssueLink(u, purpose, l, now, account),
           dispatch[l] = "none" \/ Used(l),
           CanRequest(account, purpose, now), account.status # "absent",
           accounts'[u] = account, accounts[u] = account \/ accounts[u].status = "absent"
    PROVE  Deleting(now) \/ Issuing(u, purpose, l, now, account)
  <1> DEFINE n == Requests(DeleteOld(now), u, purpose, now)
  <1>1. n \in Nat /\ MaxRequests \in Nat
    BY RequestsCounted, LinkAssumption
  <1>2. n >= MaxRequests \/ n < MaxRequests
    <2> HIDE DEF n
    <2>1. QED
      BY <1>1
  <1>3. CASE n >= MaxRequests
    BY <1>3 DEF IssueLink, Deleting
  <1>4. CASE ~(n >= MaxRequests)
    <2>1. /\ links[l].state = "none" /\ issuedTo' = [issuedTo EXCEPT ![l] = account]
          /\ links' = [DeleteOld(now) EXCEPT
                          ![l] = NewLink(DeleteOld(now), u, purpose, now, account.version)]
      BY <1>4 DEF IssueLink
    <2>2. QED
      BY <1>2, <1>4, <2>1 DEF Issuing, Used
  <1>5. QED
    BY <1>3, <1>4

(* Every step moves links and accounts in these ways only.                   *)
LEMMA StepsMove ==
    ASSUME IInv, [Next]_vars
    PROVE  LinksMove /\ AccountsMove /\ clock' \in Nat /\ clock <= clock'
  <1>1. clock \in Nat /\ accounts \in [User -> Account]
    BY DEF IInv, TypeOK
  <1>2. CASE UNCHANGED vars
    BY <1>1, <1>2, AccountsRest DEF vars, LinksMove, history
  <1>3. CASE Tick
    BY <1>1, <1>3, AccountsRest DEF Tick, LinksMove, history
  <1>4. ASSUME NEW u \in User, AccountStep(u)
        PROVE  LinksMove /\ AccountsMove /\ UNCHANGED clock
    <2>1. PICK new \in Account : /\ accounts' = [accounts EXCEPT ![u] = new]
                                 /\ accounts[u].status # "absent" => Follows(accounts[u], new)
                                 /\ u \in live' => CanAuthenticate(new, clock)
      BY <1>4, AccountsFollow
    <2>2. live' \subseteq live \cup {u} /\ UNCHANGED <<clock, links, issuedTo>>
      BY <1>4, AccountsFollow DEF history
    <2>3. QED
      BY <2>1, <2>2, OneAccount DEF LinksMove
  <1>5. ASSUME NEW u \in User, NEW l \in LinkId, IssueStep(u, l)
        PROVE  LinksMove /\ AccountsMove /\ UNCHANGED clock
    <2>1. ASSUME NEW purpose \in Purpose, NEW now \in Nows, Request(u, purpose, l, now)
          PROVE  LinksMove /\ AccountsMove /\ UNCHANGED clock
      <3>1. UNCHANGED <<clock, accounts, live>> /\ CanRequest(accounts[u], purpose, now)
            /\ IssueLink(u, purpose, l, now, accounts[u])
        BY <2>1 DEF Request
      <3>2. accounts[u].status # "absent"
        BY <3>1 DEF CanRequest, CanAuthenticate
      <3>3. dispatch[l] = "none" \/ Used(l)
        BY DEF IInv, MailOK
      <3>4. Deleting(now) \/ Issuing(u, purpose, l, now, accounts[u])
        BY <3>1, <3>2, <3>3, IssuingOrDeleting
      <3>5. QED
        BY <1>1, <3>1, <3>4, AccountsRest DEF LinksMove
    <2>2. ASSUME NEW admin \in BOOLEAN, NEW now \in Nows, Provision(u, admin, l, now)
          PROVE  LinksMove /\ AccountsMove /\ UNCHANGED clock
      <3> DEFINE new == PendingAccount(admin)
      <3>1. UNCHANGED <<clock, live>> /\ accounts' = [accounts EXCEPT ![u] = new]
            /\ IssueLink(u, "activation", l, now, new) /\ accounts[u].status = "absent"
        BY <2>2 DEF Provision
      <3>2. new \in Account /\ new.status = "pending"
        BY DEF PendingAccount, Account
      <3>3. CanRequest(new, "activation", now) /\ accounts'[u] = new
        BY <1>1, <3>1, <3>2 DEF CanRequest
      <3> HIDE DEF new
      <3>4. dispatch[l] = "none" \/ Used(l)
        BY DEF IInv, MailOK
      <3>5. Deleting(now) \/ Issuing(u, "activation", l, now, new)
        BY <3>1, <3>2, <3>3, <3>4, IssuingOrDeleting
      <3>6. LinksMove
        BY <3>2, <3>5 DEF LinksMove, Purpose
      <3>7. u \notin live
        BY <3>1 DEF IInv, NoSessionWithoutStanding, CanAuthenticate
      <3>8. AccountsMove
        BY <3>1, <3>2, <3>7, OneAccount
      <3>9. QED
        BY <3>1, <3>6, <3>8
    <2>3. QED
      BY <1>5, <2>1, <2>2 DEF IssueStep
  <1>6. ASSUME NEW l \in LinkId, MailStep(l)
        PROVE  LinksMove /\ AccountsMove /\ UNCHANGED clock
    <2>1. UNCHANGED <<clock, accounts, live, issuedTo>>
      BY <1>6 DEF MailStep, Dispatch, WebCrash, Send, Redeliver, DispatchFailed,
                  MarkDelivered, MarkDeliveryFailed, history
    <2>2. LinksMove
      <3>1. CASE Dispatch(l) \/ WebCrash(l) \/ Send(l) \/ Redeliver(l)
        BY <2>1, <3>1 DEF Dispatch, WebCrash, Send, Redeliver, LinksMove
      <3>2. ASSUME NEW now \in Nows, DispatchFailed(l, now) \/ MarkDeliveryFailed(l, now)
            PROVE  LinksMove
        <4>1. dispatch'[l] = "failed" \/ (job[l] = "refused" /\ job'[l] = "failed")
          <5>1. dispatch \in [LinkId -> {"none", "ready", "raised", "failed", "done"}]
                /\ DOMAIN job = LinkId
            BY DEF IInv, TypeOK
          <5>2. CASE DispatchFailed(l, now)
            BY <5>1, <5>2 DEF DispatchFailed
          <5>3. CASE MarkDeliveryFailed(l, now)
            BY <5>1, <5>3 DEF MarkDeliveryFailed
          <5>4. QED
            BY <3>2, <5>2, <5>3
        <4>2. FailLink(l, now)
          BY <3>2 DEF DispatchFailed, MarkDeliveryFailed
        <4>3. QED
          BY <2>1, <4>1, <4>2 DEF FailLink, LinksMove, Settling
      <3>3. ASSUME NEW now \in Nows, MarkDelivered(l, now) PROVE LinksMove
        <4> DEFINE good == l \in Row /\ links[l].state = "pending" /\ IsLatest(l)
                                      /\ StillGood(l, now)
        <4>1. /\ job[l] = "accepted" /\ job' = [job EXCEPT ![l] = "finished"]
              /\ TimesInOrder(now) /\ UNCHANGED issuedTo
          BY <2>1, <3>3 DEF MarkDelivered
        <4>2. CASE good
          <5>1. links' = RevokeOtherActive(l)
            BY <3>3, <4>2 DEF MarkDelivered
          <5>2. Delivering(l, now)
            BY <4>1, <4>2, <5>1 DEF Delivering
          <5>3. QED
            BY <5>2 DEF LinksMove
        <4>3. CASE ~good /\ links[l].state \in {"pending", "active"}
          <5>1. links' = SetState(l, "revoked")
            BY <3>3, <4>3 DEF MarkDelivered
          <5>2. l \in Row
            BY <4>3 DEF Row
          <5>3. Settling(l, "revoked", now)
            BY <4>1, <4>3, <5>1, <5>2 DEF Settling
          <5>4. QED
            BY <5>3 DEF LinksMove
        <4>4. CASE ~good /\ links[l].state \notin {"pending", "active"}
          <5>1. UNCHANGED links
            BY <3>3, <4>4 DEF MarkDelivered
          <5>2. QED
            BY <2>1, <5>1 DEF LinksMove
        <4>5. QED
          BY <4>2, <4>3, <4>4
      <3>4. QED
        BY <1>6, <3>1, <3>2, <3>3 DEF MailStep
    <2>3. QED
      BY <1>1, <2>1, <2>2, AccountsRest
  <1>7. ASSUME NEW l \in LinkId, ConsumeStep(l)
        PROVE  LinksMove /\ AccountsMove /\ UNCHANGED clock
    <2>1. ASSUME NEW now \in Nows, NEW ownBrowser \in BOOLEAN, Login(l, now, ownBrowser)
          PROVE  LinksMove /\ AccountsMove /\ UNCHANGED clock
      <3> DEFINE u == links[l].user
      <3>1. Consume(l, now, accounts[u], live \cup {u}) /\ UNCHANGED <<clock, issuedTo>>
            /\ links[l].purpose = "login"
        BY <2>1 DEF Login, history
      <3>2. u \in User /\ accounts[u].status # "absent"
        BY <3>1 DEF Consume, IInv, LinkOK, Used
      <3>3. Follows(accounts[u], accounts[u]) /\ accounts[u] \in Account
        BY <1>1, <3>2 DEF Follows
      <3>4. StillGood(l, now) => CanAuthenticate(accounts[u], clock)
        BY <1>1, <3>1, <3>3 DEF StillGood, CanRequest, CanAuthenticate, Nows, Account
      <3>5. QED
        BY <3>1, <3>3, <3>4, Consuming
    <2>2. ASSUME NEW now \in Nows, Check(l, now)
          PROVE  LinksMove /\ AccountsMove /\ UNCHANGED clock
      BY <1>1, <2>2, AccountsRest DEF Check, LinksMove, history
    <2>3. ASSUME NEW c \in checked, c.link = l, NEW purpose, NEW outcome,
                 Complete(c, purpose, outcome),
                 Follows(accounts[links[l].user], outcome), outcome \in Account
          PROVE  LinksMove /\ AccountsMove /\ UNCHANGED clock
      <3>1. Consume(l, c.now, outcome, live \ {links[l].user}) /\ UNCHANGED <<clock, issuedTo>>
        BY <2>3 DEF Complete
      <3>2. c.now \in Nows
        BY DEF IInv, Timely
      <3>3. QED
        BY <2>3, <3>1, <3>2, Consuming
    <2>4. ASSUME NEW c \in checked, c.link = l,
                 ResetPassword(c) \/ ActivateInvitation(c) \/ Activate(c)
          PROVE  LinksMove /\ AccountsMove /\ UNCHANGED clock
      <3> DEFINE u == links[l].user
                 new == NewPassword(accounts[u])
      <3>1. links[l].state = "active"
        BY <2>4 DEF ResetPassword, ActivateInvitation, Activate, Complete, Consume
      <3>2. u \in User /\ accounts[u] \in Account /\ accounts[u].status # "absent"
        BY <1>1, <3>1 DEF IInv, LinkOK, Used
      <3>3. /\ new \in Account /\ new.status = accounts[u].status
            /\ new.version = accounts[u].version + 1
        BY <3>2, NewPasswords
      <3>4. ASSUME NEW outcome \in Account, outcome.status # "absent",
                   outcome.version = new.version, NEW purpose, Complete(c, purpose, outcome)
            PROVE  LinksMove /\ AccountsMove /\ UNCHANGED clock
        <4>1. Follows(accounts[u], outcome)
          BY <3>2, <3>3, <3>4 DEF Follows, Account
        <4>2. QED
          BY <2>3, <2>4, <3>4, <4>1
      <3> HIDE DEF new
      <3>5. CASE ResetPassword(c)
        BY <2>4, <3>2, <3>3, <3>4, <3>5 DEF ResetPassword, new
      <3>6. CASE ActivateInvitation(c)
        <4> DEFINE a == [new EXCEPT !.passwordLogin = FALSE]
                   b == [a EXCEPT !.emailLogin = TRUE]
        <4>1. a \in Account /\ a.status = new.status /\ a.version = new.version
          BY <3>3 DEF Account
        <4> HIDE DEF a
        <4>2. b \in Account /\ b.status = new.status /\ b.version = new.version
          BY <4>1 DEF Account
        <4>3. Complete(c, "invitation", b)
          BY <2>4, <3>6 DEF ActivateInvitation, a, new
        <4> HIDE DEF b
        <4>4. QED
          BY <3>2, <3>3, <3>4, <4>2, <4>3
      <3>7. CASE Activate(c)
        <4> DEFINE b == [new EXCEPT !.status = "active"]
        <4>1. b \in Account /\ b.status = "active" /\ b.version = new.version
          BY <3>3 DEF Account
        <4>2. Complete(c, "activation", b)
          BY <2>4, <3>7 DEF Activate, new
        <4> HIDE DEF b
        <4>3. QED
          BY <3>4, <4>1, <4>2
      <3>8. QED
        BY <2>4, <3>5, <3>6, <3>7
    <2>5. QED
      BY <1>7, <2>1, <2>2, <2>4 DEF ConsumeStep
  <1>8. QED
    BY <1>1, <1>2, <1>3, <1>4, <1>5, <1>6, <1>7 DEF Next, Tick

-----------------------------------------------------------------------------
(* A link keeps what it was issued with.                                     *)
Same(l) ==
    /\ links'[l].user = links[l].user /\ links'[l].purpose = links[l].purpose
    /\ links'[l].generation = links[l].generation
    /\ links'[l].version = links[l].version /\ links'[l].created = links[l].created
    /\ issuedTo'[l] = issuedTo[l]

Fresh(l) ==
    \E u \in User, purpose \in Purpose, now \in Nows, account \in Account :
        /\ Issuing(u, purpose, l, now, account)
        /\ links'[l] = NewLink(DeleteOld(now), u, purpose, now, account.version)
        /\ issuedTo'[l] = account

(* The reasons for which a link changes its state.                           *)
Moves(l) ==
    LET to == links'[l].state
    IN  \/ to = "deleted" /\ links[l].created + Retention < clock
        \/ \E now \in Nows : Settling(l, to, now)
        \/ to = "active" /\ links'[l].delivered /\ \E now \in Nows : Delivering(l, now)
        \/ /\ to = "revoked" /\ links[l].state = "active"
           /\ \E k \in LinkId, now \in Nows : Delivering(k, now) /\ l \in Rivals(k)

LinkStep(l) ==
    \/ Fresh(l)
    \/ links'[l] = links[l] /\ issuedTo'[l] = issuedTo[l]
    \/ /\ l \in Row /\ Same(l) /\ Moves(l) /\ links'[l] \in Link
       /\ links[l].delivered => links'[l].delivered
       /\ links'[l].state # "active" => links'[l].delivered = links[l].delivered

(* What deletion leaves of a link.                                           *)
LEMMA Kept ==
    ASSUME TypeOK, NEW now \in Nows, NEW l \in LinkId
    PROVE  LET kept == DeleteOld(now)
           IN  /\ kept \in [LinkId -> Link]
               /\ \/ kept[l] = links[l]
                  \/ /\ l \in Row /\ links[l].created + Retention < clock
                     /\ links[l].created + Retention < now
                     /\ kept[l] = [links[l] EXCEPT !.state = "deleted"]
  <1>1. links \in [LinkId -> Link] /\ clock \in Nat /\ now \in Nat /\ now <= clock
    BY DEF TypeOK, Nows
  <1>2. \A m \in LinkId : [links[m] EXCEPT !.state = "deleted"] \in Link
    BY <1>1 DEF Link
  <1>3. links[l].created \in Nat /\ Retention \in Nat
    BY <1>1, LinkAssumption DEF Link
  <1>4. QED
    BY <1>1, <1>2, <1>3 DEF DeleteOld

(* A link whose state alone changes.                                         *)
LEMMA OtherState ==
    ASSUME NEW link \in Link, NEW to \in {"active", "failed", "consumed", "revoked", "deleted"}
    PROVE  LET new == [link EXCEPT !.state = to]
           IN  /\ new \in Link /\ new.state = to /\ new.user = link.user
               /\ new.purpose = link.purpose /\ new.generation = link.generation
               /\ new.version = link.version /\ new.created = link.created
               /\ new.delivered = link.delivered
  BY DEF Link

(* The same of a link in the table.                                          *)
LEMMA OtherStateOf ==
    ASSUME TypeOK, NEW l \in LinkId,
           NEW to \in {"active", "failed", "consumed", "revoked", "deleted"},
           links'[l] = [links[l] EXCEPT !.state = to], issuedTo'[l] = issuedTo[l]
    PROVE  /\ Same(l) /\ links'[l] \in Link /\ links'[l].state = to
           /\ links'[l].delivered = links[l].delivered
  <1> DEFINE link == links[l]
             new == [link EXCEPT !.state = to]
  <1>1. link \in Link /\ links'[l] = new
    BY DEF TypeOK
  <1>2. /\ new \in Link /\ new.state = to /\ new.user = link.user
        /\ new.purpose = link.purpose /\ new.generation = link.generation
        /\ new.version = link.version /\ new.created = link.created
        /\ new.delivered = link.delivered
    <2> HIDE DEF link
    <2>1. QED
      BY <1>1, OtherState
  <1> HIDE DEF new
  <1>3. QED
    BY <1>1, <1>2 DEF Same

(* Every link of every step.                                                 *)
LEMMA LinkSteps ==
    ASSUME IInv, LinksMove, NEW l \in LinkId
    PROVE  LinkStep(l)
  <1>1. /\ links \in [LinkId -> Link] /\ issuedTo \in [LinkId -> Account] /\ TypeOK
        /\ links[l] \in Link
    BY DEF IInv, TypeOK
  <1>2. CASE UNCHANGED <<links, issuedTo>>
    BY <1>2 DEF LinkStep
  <1>3. ASSUME NEW now \in Nows, links'[l] = DeleteOld(now)[l], issuedTo'[l] = issuedTo[l]
        PROVE  LinkStep(l)
    <2>1. CASE DeleteOld(now)[l] = links[l]
      BY <1>3, <2>1 DEF LinkStep
    <2>2. CASE DeleteOld(now)[l] # links[l]
      <3>1. /\ l \in Row /\ links[l].created + Retention < clock
            /\ links'[l] = [links[l] EXCEPT !.state = "deleted"]
        BY <1>1, <1>3, <2>2, Kept
      <3>2. QED
        BY <1>1, <1>3, <3>1, OtherStateOf DEF LinkStep, Moves
    <2>3. QED
      BY <2>1, <2>2
  <1>4. ASSUME NEW u \in User, NEW purpose \in Purpose, NEW k \in LinkId, NEW now \in Nows,
               NEW account \in Account, Issuing(u, purpose, k, now, account)
        PROVE  LinkStep(l)
    <2>1. /\ DeleteOld(now) \in [LinkId -> Link]
          /\ issuedTo' = [issuedTo EXCEPT ![k] = account]
          /\ links' = [DeleteOld(now) EXCEPT
                          ![k] = NewLink(DeleteOld(now), u, purpose, now, account.version)]
      BY <1>1, <1>4, Kept DEF Issuing
    <2>2. CASE l = k
      <3>1. Fresh(l)
        BY <1>1, <1>4, <2>1, <2>2 DEF Fresh
      <3>2. QED
        BY <3>1 DEF LinkStep
    <2>3. CASE l # k
      BY <1>1, <1>3, <2>1, <2>3
    <2>4. QED
      BY <2>2, <2>3
  <1>5. ASSUME NEW k \in LinkId, NEW now \in Nows, NEW to \in {"failed", "revoked", "consumed"},
               Settling(k, to, now)
        PROVE  LinkStep(l)
    <2>1. UNCHANGED issuedTo /\ links' = SetState(k, to)
          /\ links[k].state \in {"pending", "active"}
      BY <1>5 DEF Settling
    <2>2. CASE l = k
      <3>1. links'[l] = [links[l] EXCEPT !.state = to] /\ l \in Row
        BY <1>1, <2>1, <2>2 DEF SetState, Row
      <3> to \in {"active", "failed", "consumed", "revoked", "deleted"}
        OBVIOUS
      <3>2. /\ Same(l) /\ links'[l] \in Link /\ links'[l].delivered = links[l].delivered
            /\ links'[l].state = to
        BY <1>1, <2>1, <3>1, OtherStateOf
      <3>3. Moves(l)
        BY <1>5, <2>2, <3>2 DEF Moves
      <3>4. QED
        BY <3>1, <3>2, <3>3 DEF LinkStep
    <2>3. CASE l # k
      BY <1>1, <2>1, <2>3 DEF SetState, LinkStep
    <2>4. QED
      BY <2>2, <2>3
  <1>6. ASSUME NEW k \in LinkId, NEW now \in Nows, Delivering(k, now)
        PROVE  LinkStep(l)
    <2>1. UNCHANGED issuedTo /\ links' = RevokeOtherActive(k) /\ links[k].state = "pending"
      BY <1>6 DEF Delivering
    <2>2. CASE l \in Rivals(k) /\ links[l].state = "active"
      <3>1. links'[l] = [links[l] EXCEPT !.state = "revoked"] /\ l \in Row
        BY <2>1, <2>2 DEF RevokeOtherActive, Row
      <3>2. /\ Same(l) /\ links'[l] \in Link /\ links'[l].delivered = links[l].delivered
            /\ links'[l].state = "revoked"
        BY <1>1, <2>1, <3>1, OtherStateOf
      <3>3. Moves(l)
        BY <1>6, <2>2, <3>2 DEF Moves
      <3>4. QED
        BY <3>1, <3>2, <3>3 DEF LinkStep
    <2>3. CASE l = k
      <3> DEFINE a == [links[l] EXCEPT !.state = "active"]
      <3>1. links'[l] = [a EXCEPT !.delivered = TRUE] /\ l \in Row
        BY <2>1, <2>3 DEF RevokeOtherActive, Row, Rivals
      <3>2. /\ a \in Link /\ a.state = "active" /\ a.user = links[l].user
            /\ a.purpose = links[l].purpose /\ a.generation = links[l].generation
            /\ a.version = links[l].version /\ a.created = links[l].created
        BY <1>1, OtherState
      <3> HIDE DEF a
      <3>3. /\ Same(l) /\ links'[l] \in Link /\ links'[l].delivered
            /\ links'[l].state = "active"
        BY <1>1, <2>1, <3>1, <3>2 DEF Same, Link
      <3>4. Moves(l)
        BY <1>6, <2>3, <3>3 DEF Moves
      <3>5. QED
        BY <3>1, <3>3, <3>4 DEF LinkStep
    <2>4. CASE l # k /\ ~(l \in Rivals(k) /\ links[l].state = "active")
      BY <1>1, <2>1, <2>4 DEF RevokeOtherActive, LinkStep
    <2>5. QED
      BY <2>2, <2>3, <2>4
  <1>7. ASSUME NEW now \in Nows, Deleting(now) PROVE LinkStep(l)
    BY <1>3, <1>7 DEF Deleting
  <1>8. QED
    BY <1>2, <1>4, <1>5, <1>6, <1>7 DEF LinksMove

-----------------------------------------------------------------------------
(* An account of the same version is the same account, its lock aside, and   *)
(* may ask for what it might ask for before.                                 *)
LEMMA SameVersion ==
    ASSUME NEW old \in Account, NEW new \in Account, Follows(old, new)
    PROVE  /\ new.status # "absent"
           /\ old.version <= new.version
           /\ new.version = old.version =>
                 /\ Settled(new) = Settled(old)
                 /\ \A purpose \in Purpose, now \in Nat :
                       CanRequest(old, purpose, now) => CanRequest(new, purpose, now)
  <1>1. CASE new = old
    BY <1>1 DEF Follows, Account
  <1>2. CASE new.version > old.version
    BY <1>2 DEF Follows, Account
  <1>3. CASE new = [old EXCEPT !.lockedUntil = 0]
    <2>1. /\ new.status = old.status /\ new.version = old.version /\ new.lockedUntil = 0
          /\ new.admin = old.admin /\ new.emailLogin = old.emailLogin
          /\ new.passwordLogin = old.passwordLogin /\ new.mustChange = old.mustChange
      BY <1>3 DEF Account
    <2>2. Settled(new) = Settled(old)
      BY <1>3 DEF Settled, Account
    <2>3. \A now \in Nat : CanAuthenticate(old, now) => CanAuthenticate(new, now)
      BY <2>1 DEF CanAuthenticate
    <2>4. \A purpose \in Purpose, now \in Nat :
             CanRequest(old, purpose, now) => CanRequest(new, purpose, now)
      BY <2>1, <2>3 DEF CanRequest
    <2>5. QED
      BY <2>1, <2>2, <2>4 DEF Follows, Account
  <1>4. QED
    BY <1>1, <1>2, <1>3 DEF Follows

(* A link keeps its fence.                                                   *)
LEMMA LinksKeepFence ==
    ASSUME IInv, LinksMove, AccountsMove, clock' \in Nat, clock <= clock', NEW l \in LinkId
    PROVE  LinkOK(l)'
  <1>1. /\ clock \in Nat /\ accounts \in [User -> Account] /\ links[l] \in Link
        /\ accounts' \in [User -> Account] /\ LinkOK(l) /\ LinkStep(l)
    BY LinkSteps DEF IInv, TypeOK, AccountsMove
  <1>2. /\ links[l].created \in Nat /\ Retention \in Nat /\ links[l].version \in Nat
        /\ links[l].purpose \in Purpose
    BY <1>1, LinkAssumption DEF Link
  <1>3. CASE Fresh(l)
    <2>1. PICK u \in User, purpose \in Purpose, now \in Nows, account \in Account :
             /\ Issuing(u, purpose, l, now, account)
             /\ links'[l] = NewLink(DeleteOld(now), u, purpose, now, account.version)
             /\ issuedTo'[l] = account
      BY <1>3 DEF Fresh
    <2>2. /\ links'[l].user = u /\ links'[l].version = account.version
          /\ links'[l].purpose = purpose /\ links'[l].created = now
          /\ links'[l].state = "pending"
      BY <2>1 DEF NewLink
    <2>3. accounts'[u] = account /\ account.status # "absent" /\ CanRequest(account, purpose, now)
      BY <2>1 DEF Issuing
    <2>4. now <= clock' /\ account.version <= account.version
      BY <1>1 DEF Nows, Account
    <2>5. QED
      BY <2>1, <2>2, <2>3, <2>4 DEF LinkOK, Used
  <1>4. CASE ~Fresh(l) /\ Used(l)
    <2> DEFINE u == links[l].user
               link == links[l]
               new == accounts'[u]
    <2>1. Same(l)
      BY <1>1, <1>4 DEF LinkStep, Same
    <2>2. /\ u \in User /\ accounts[u].status # "absent" /\ link.created <= clock
          /\ link.version = issuedTo[l].version /\ link.version <= accounts[u].version
          /\ link.version = accounts[u].version =>
                /\ Settled(accounts[u]) = Settled(issuedTo[l])
                /\ CanRequest(accounts[u], link.purpose, link.created)
      BY <1>1, <1>4 DEF LinkOK
    <2>3. Follows(accounts[u], new) /\ accounts[u] \in Account /\ new \in Account
      BY <1>1, <2>2 DEF AccountsMove
    <2>4. /\ new.status # "absent" /\ accounts[u].version <= new.version
          /\ new.version = accounts[u].version =>
                /\ Settled(new) = Settled(accounts[u])
                /\ \A purpose \in Purpose, now \in Nat :
                      CanRequest(accounts[u], purpose, now) => CanRequest(new, purpose, now)
      BY <2>3, SameVersion
    <2>5. accounts[u].version \in Nat /\ new.version \in Nat
      BY <2>3 DEF Account
    <2>6. link.version <= new.version /\ link.created <= clock'
      BY <1>1, <1>2, <2>2, <2>4, <2>5
    <2>7. link.version = new.version =>
                /\ Settled(new) = Settled(issuedTo[l])
                /\ CanRequest(new, link.purpose, link.created)
      <3> SUFFICES ASSUME link.version = new.version
                   PROVE  /\ Settled(new) = Settled(issuedTo[l])
                          /\ CanRequest(new, link.purpose, link.created)
        OBVIOUS
      <3>1. accounts[u].version = new.version
        BY <1>2, <2>2, <2>4, <2>5
      <3>2. QED
        BY <1>2, <2>2, <2>4, <3>1
    <2>8. Used(l)'
      BY <1>1, <1>4 DEF LinkStep, Moves, Settling, Used
    <2>9. links'[l].state = "deleted" => link.created + Retention < clock'
      <3> SUFFICES ASSUME links'[l].state = "deleted"
                   PROVE  link.created + Retention < clock
        BY <1>1, <1>2
      <3>1. CASE links'[l] = links[l]
        BY <1>1, <3>1 DEF LinkOK
      <3>2. CASE Moves(l)
        BY <3>2 DEF Moves, Settling
      <3>3. QED
        BY <1>1, <1>4, <3>1, <3>2 DEF LinkStep
    <2>10. QED
      <3> HIDE DEF new
      <3>1. /\ links'[l].user = u /\ links'[l].purpose = link.purpose
            /\ links'[l].version = link.version /\ links'[l].created = link.created
            /\ issuedTo'[l] = issuedTo[l] /\ accounts'[u] = new
        BY <2>1 DEF Same, new
      <3>2. QED
        BY <2>2, <2>4, <2>6, <2>7, <2>8, <2>9, <3>1 DEF LinkOK, Used
  <1>5. CASE ~Fresh(l) /\ ~Used(l)
    <2>1. links'[l] = links[l]
      BY <1>1, <1>5 DEF LinkStep, Used, Row
    <2>2. links'[l] = Absent
      BY <1>1, <1>5, <2>1 DEF LinkOK
    <2>3. QED
      BY <2>2 DEF LinkOK, Used, Absent
  <1>6. QED
    BY <1>3, <1>4, <1>5

-----------------------------------------------------------------------------
(* A new link is above its rivals, and the table remains a table.            *)
LEMMA FreshLinks ==
    ASSUME IInv, NEW g \in Nat, \A l \in LinkId : links[l].generation <= g,
           NEW u \in User, NEW purpose \in Purpose, NEW now \in Nows, NEW version \in Nat
    PROVE  LET new == NewLink(DeleteOld(now), u, purpose, now, version)
           IN  /\ new \in Link /\ new.generation <= g + 1 /\ ~new.delivered
               /\ \A l \in Issued(DeleteOld(now), u, purpose) :
                     links[l].generation < new.generation
  <1> DEFINE kept == DeleteOld(now)
             new == NewLink(kept, u, purpose, now, version)
  <1>1. TypeOK /\ now \in Nat
    BY DEF IInv, Nows
  <1>2. \A l \in LinkId : kept[l].generation = links[l].generation
    <2> TAKE l \in LinkId
    <2>1. kept[l] = links[l] \/ kept[l] = [links[l] EXCEPT !.state = "deleted"]
      BY <1>1, Kept
    <2>2. links[l] \in Link
      BY <1>1 DEF TypeOK
    <2>3. QED
      BY <2>1, <2>2 DEF Link
  <1>3. kept \in [LinkId -> Link]
    <2>1. \A l \in LinkId : kept[l] \in Link
      BY <1>1, Kept
    <2>2. QED
      BY <2>1 DEF DeleteOld
  <1> HIDE DEF kept
  <1>4. /\ new.generation \in Nat /\ new.generation <= g + 1
        /\ \A l \in Issued(kept, u, purpose) : kept[l].generation < new.generation
    BY <1>2, <1>3, NewGeneration
  <1>5. new \in Link /\ ~new.delivered
    BY <1>1, <1>4 DEF NewLink, Link
  <1>6. \A l \in Issued(kept, u, purpose) : links[l].generation < new.generation
    BY <1>2, <1>4 DEF Issued
  <1>7. QED
    BY <1>4, <1>5, <1>6 DEF kept

(* The table keeps its type.                                                 *)
LEMMA LinksTyped ==
    ASSUME IInv, LinksMove
    PROVE  links' \in [LinkId -> Link] /\ issuedTo' \in [LinkId -> Account] /\ Bounded'
  <1>1. TypeOK /\ links \in [LinkId -> Link] /\ issuedTo \in [LinkId -> Account]
    BY DEF IInv, TypeOK
  <1>2. links' = [l \in LinkId |-> links'[l]] /\ issuedTo' = [l \in LinkId |-> issuedTo'[l]]
    <2>1. CASE UNCHANGED <<links, issuedTo>>
      BY <1>1, <2>1
    <2>2. ASSUME NEW now \in Nows, Deleting(now)
          PROVE  /\ links' = [l \in LinkId |-> links'[l]]
                 /\ issuedTo' = [l \in LinkId |-> issuedTo'[l]]
      BY <1>1, <2>2 DEF Deleting, DeleteOld
    <2>3. ASSUME NEW u, NEW purpose, NEW k \in LinkId, NEW now, NEW account,
                 Issuing(u, purpose, k, now, account)
          PROVE  /\ links' = [l \in LinkId |-> links'[l]]
                 /\ issuedTo' = [l \in LinkId |-> issuedTo'[l]]
      <3> DEFINE kept == DeleteOld(now)
                 new == NewLink(kept, u, purpose, now, account.version)
      <3>1. /\ links' = [kept EXCEPT ![k] = new] /\ DOMAIN kept = LinkId
            /\ issuedTo' = [issuedTo EXCEPT ![k] = account]
        BY <2>3 DEF Issuing, DeleteOld
      <3> HIDE DEF kept, new
      <3>2. QED
        BY <1>1, <3>1
    <2>4. ASSUME NEW k \in LinkId, NEW now, NEW to, Settling(k, to, now)
          PROVE  /\ links' = [l \in LinkId |-> links'[l]]
                 /\ issuedTo' = [l \in LinkId |-> issuedTo'[l]]
      <3>1. links' = [links EXCEPT ![k].state = to] /\ UNCHANGED issuedTo
        BY <2>4 DEF Settling, SetState
      <3>2. QED
        BY <1>1, <3>1
    <2>5. ASSUME NEW k \in LinkId, NEW now, Delivering(k, now)
          PROVE  /\ links' = [l \in LinkId |-> links'[l]]
                 /\ issuedTo' = [l \in LinkId |-> issuedTo'[l]]
      BY <1>1, <2>5 DEF Delivering, RevokeOtherActive
    <2>6. QED
      BY <2>1, <2>2, <2>3, <2>4, <2>5 DEF LinksMove
  <1>3. PICK g \in Nat : \A l \in LinkId : links[l].generation <= g
    BY DEF IInv, Bounded
  <1>4. ASSUME NEW l \in LinkId
        PROVE  /\ links'[l] \in Link /\ links'[l].generation <= g + 1
               /\ issuedTo'[l] \in Account
    <2>1. LinkStep(l) /\ links[l] \in Link /\ issuedTo[l] \in Account
          /\ links[l].generation \in Nat /\ links[l].generation <= g
      BY <1>1, <1>3, LinkSteps DEF Link
    <2>2. CASE Fresh(l)
      <3>1. PICK u \in User, purpose \in Purpose, now \in Nows, account \in Account :
               /\ links'[l] = NewLink(DeleteOld(now), u, purpose, now, account.version)
               /\ issuedTo'[l] = account
        BY <2>2 DEF Fresh
      <3>2. account.version \in Nat
        BY DEF Account
      <3>3. QED
        BY <1>3, <3>1, <3>2, FreshLinks
    <2>3. CASE ~Fresh(l)
      BY <2>1, <2>3 DEF LinkStep, Same
    <2>4. QED
      BY <2>2, <2>3
  <1>5. links' \in [LinkId -> Link] /\ issuedTo' \in [LinkId -> Account]
    BY <1>2, <1>4
  <1>6. g + 1 \in Nat
    OBVIOUS
  <1>7. Bounded'
    BY <1>4, <1>6 DEF Bounded
  <1>8. QED
    BY <1>5, <1>7

-----------------------------------------------------------------------------
(* What a step makes of a link's mail: nothing; the issue of the link; its   *)
(* dispatch; its sending; its confirmation; or another try.                  *)
JobStep(l) ==
    \/ UNCHANGED <<dispatch[l], job[l], attempts[l]>>
    \/ dispatch'[l] = "ready" /\ UNCHANGED <<job[l], attempts[l]>> /\ ~Used(l) /\ Used(l)'
    \/ /\ dispatch[l] \in {"ready", "raised"} /\ dispatch'[l] \in {"raised", "failed", "done"}
       /\ UNCHANGED attempts[l]
       /\ \/ UNCHANGED job[l]
          \/ dispatch[l] = "ready" /\ job'[l] = "queued"
    \/ /\ UNCHANGED dispatch[l] /\ job[l] = "queued" /\ attempts'[l] = attempts[l] + 1
       /\ (job'[l] = "accepted" /\ l \in inbox') \/ job'[l] = "refused"
    \/ /\ UNCHANGED <<dispatch[l], attempts[l]>>
       /\ \/ job[l] = "accepted" /\ job'[l] = "finished" /\ links'[l].state # "pending"
          \/ job[l] = "refused" /\ job'[l] = "failed"
          \/ /\ job[l] \in {"accepted", "refused", "failed", "finished"}
             /\ job[l] = "finished" => AckLost
             /\ job'[l] = "queued"

MailTypes ==
    /\ dispatch \in [LinkId -> {"none", "ready", "raised", "failed", "done"}]
    /\ job \in [LinkId -> {"none", "queued", "accepted", "refused", "finished",
                          "failed"}]
    /\ attempts \in [LinkId -> Nat]
    /\ inbox \subseteq LinkId

MailMoves ==
    /\ MailTypes'
    /\ inbox \subseteq inbox'
    /\ \A l \in LinkId : JobStep(l)

(* The steps that leave the mail alone.                                      *)
LEMMA MailRests ==
    ASSUME MailTypes, UNCHANGED mail
    PROVE  MailMoves
  BY DEF MailTypes, MailMoves, JobStep, mail

(* Delivery.                                                                 *)
LEMMA MailStepsMove ==
    ASSUME IInv, MailTypes, NEW l \in LinkId, MailStep(l)
    PROVE  MailMoves
  <1>1. CASE Dispatch(l)
    <2>1. UNCHANGED <<attempts, inbox>>
          /\ dispatch[l] = "ready"
          /\ dispatch' \in {[dispatch EXCEPT ![l] = "done"], [dispatch EXCEPT ![l] = "raised"]}
          /\ job' \in {job, [job EXCEPT ![l] = "queued"]}
      BY <1>1 DEF Dispatch
    <2>2. QED
      BY <2>1 DEF MailTypes, MailMoves, JobStep
  <1>2. CASE WebCrash(l)
    BY <1>2 DEF WebCrash, MailTypes, MailMoves, JobStep
  <1>3. CASE Send(l)
    <2>1. UNCHANGED dispatch /\ job[l] = "queued"
          /\ attempts' = [attempts EXCEPT ![l] = @ + 1]
          /\ \/ job' = [job EXCEPT ![l] = "accepted"] /\ inbox' = inbox \cup {l}
             \/ job' = [job EXCEPT ![l] = "refused"] /\ inbox' \in {inbox, inbox \cup {l}}
      BY <1>3 DEF Send
    <2>2. MailTypes' /\ inbox \subseteq inbox'
      BY <2>1 DEF MailTypes
    <2>3. \A m \in LinkId : JobStep(m)
      BY <2>1 DEF MailTypes, JobStep
    <2>4. QED
      BY <2>2, <2>3 DEF MailMoves
  <1>4. CASE Redeliver(l)
    <2>1. /\ UNCHANGED <<dispatch, attempts, inbox>> /\ job' = [job EXCEPT ![l] = "queued"]
          /\ job[l] \in {"accepted", "refused", "failed", "finished"}
          /\ job[l] = "finished" => AckLost
      BY <1>4, LinkAssumption DEF Redeliver
    <2>2. MailTypes' /\ inbox \subseteq inbox'
      BY <2>1 DEF MailTypes
    <2>3. ASSUME NEW m \in LinkId PROVE JobStep(m)
      <3>1. CASE m = l
        <4>1. UNCHANGED <<dispatch[l], attempts[l]>> /\ job'[l] = "queued"
          BY <2>1 DEF MailTypes
        <4>2. QED
          BY <2>1, <3>1, <4>1 DEF JobStep
      <3>2. CASE m # l
        BY <2>1, <3>2 DEF MailTypes, JobStep
      <3>3. QED
        BY <3>1, <3>2
    <2>4. QED
      BY <2>2, <2>3 DEF MailMoves
  <1>5. ASSUME NEW now \in Nows, DispatchFailed(l, now) PROVE MailMoves
    BY <1>5 DEF DispatchFailed, MailTypes, MailMoves, JobStep
  <1>6. ASSUME NEW now \in Nows, MarkDelivered(l, now) PROVE MailMoves
    <2>1. UNCHANGED <<dispatch, attempts, inbox>> /\ job' = [job EXCEPT ![l] = "finished"]
          /\ job[l] = "accepted"
      BY <1>6 DEF MarkDelivered
    <2>2. links \in [LinkId -> Link]
      BY DEF IInv, TypeOK
    <2>3. links'[l].state # "pending"
      <3>1. CASE links' = RevokeOtherActive(l)
        <4> DEFINE a == [links[l] EXCEPT !.state = "active"]
        <4>1. links'[l] = [a EXCEPT !.delivered = TRUE]
          BY <3>1 DEF RevokeOtherActive, Rivals
        <4>2. a \in Link /\ a.state = "active"
          BY <2>2 DEF Link
        <4> HIDE DEF a
        <4>3. QED
          BY <4>1, <4>2 DEF Link
      <3>2. CASE links' = SetState(l, "revoked")
        BY <2>2, <3>2 DEF SetState, Link
      <3>3. CASE links' = links /\ links[l].state # "pending"
        BY <3>3
      <3>4. QED
        BY <1>6, <3>1, <3>2, <3>3 DEF MarkDelivered
    <2>4. QED
      BY <2>1, <2>3 DEF MailTypes, MailMoves, JobStep
  <1>7. ASSUME NEW now \in Nows, MarkDeliveryFailed(l, now) PROVE MailMoves
    BY <1>7 DEF MarkDeliveryFailed, MailTypes, MailMoves, JobStep
  <1>8. QED
    BY <1>1, <1>2, <1>3, <1>4, <1>5, <1>6, <1>7 DEF MailStep

(* Every step.                                                               *)
LEMMA MailsMove ==
    ASSUME IInv, [Next]_vars
    PROVE  MailMoves
  <1>1. MailTypes /\ links \in [LinkId -> Link]
    BY DEF IInv, TypeOK, MailTypes
  <1>2. CASE UNCHANGED mail
    BY <1>1, <1>2, MailRests
  <1>3. ASSUME NEW u \in User, NEW l \in LinkId, IssueStep(u, l) PROVE MailMoves
    <2>1. ASSUME NEW purpose, NEW now, NEW account, IssueLink(u, purpose, l, now, account),
                 UNCHANGED <<job, attempts, inbox>>
          PROVE  MailMoves
      <3>1. CASE UNCHANGED dispatch
        BY <1>1, <2>1, <3>1, MailRests DEF mail
      <3>2. CASE dispatch' # dispatch
        <4> DEFINE kept == DeleteOld(now)
                   new == NewLink(kept, u, purpose, now, account.version)
        <4>1. /\ links[l].state = "none" /\ links' = [kept EXCEPT ![l] = new]
              /\ dispatch' = [dispatch EXCEPT ![l] = "ready"]
          BY <2>1, <3>2 DEF IssueLink
        <4>2. DOMAIN kept = LinkId /\ new.state = "pending"
          BY DEF DeleteOld, NewLink
        <4> HIDE DEF kept, new
        <4>3. ~Used(l) /\ Used(l)'
          BY <4>1, <4>2 DEF Used
        <4>4. \A m \in LinkId : JobStep(m)
          BY <1>1, <2>1, <4>1, <4>3 DEF JobStep, MailTypes
        <4>5. MailTypes'
          BY <1>1, <2>1, <4>1 DEF MailTypes
        <4>6. QED
          BY <2>1, <4>4, <4>5 DEF MailMoves
      <3>3. QED
        BY <3>1, <3>2
    <2>2. QED
      BY <1>3, <2>1 DEF IssueStep, Request, Provision
  <1>4. ASSUME NEW l \in LinkId, MailStep(l) PROVE MailMoves
    BY <1>1, <1>4, MailStepsMove
  <1>5. ASSUME NEW u \in User, AccountStep(u) PROVE UNCHANGED mail
    BY <1>5, AccountsFollow
  <1>6. ASSUME NEW l \in LinkId, ConsumeStep(l) PROVE UNCHANGED mail
    BY <1>6 DEF ConsumeStep, Login, Check, ResetPassword, ActivateInvitation, Activate,
                Complete
  <1>7. CASE Tick \/ UNCHANGED vars
    BY <1>2, <1>7 DEF Tick, vars, mail
  <1>8. QED
    BY <1>2, <1>3, <1>4, <1>5, <1>6, <1>7 DEF Next

(* A link that is used stays used, and is pending only from its issue.       *)
LEMMA UsedStays ==
    ASSUME NEW l \in LinkId, LinkStep(l)
    PROVE  /\ Used(l) => Used(l)'
           /\ links'[l].state = "pending" => links[l].state = "pending" \/ ~Used(l)
  <1>1. CASE Fresh(l)
    BY <1>1 DEF Fresh, Issuing
  <1>2. CASE Moves(l)
    BY <1>2 DEF Moves, Settling, Used
  <1>3. CASE links'[l] = links[l]
    BY <1>3 DEF Used
  <1>4. QED
    BY <1>1, <1>2, <1>3 DEF LinkStep

(* A link's mail keeps its course.                                           *)
LEMMA MailsKeepCourse ==
    ASSUME IInv, MailMoves, NEW l \in LinkId, LinkStep(l)
    PROVE  MailOK(l)'
  <1>1. MailOK(l) /\ JobStep(l) /\ inbox \subseteq inbox'
    BY DEF IInv, MailMoves
  <1>2. /\ ~Used(l)' => ~Used(l)
        /\ links'[l].state = "pending" => links[l].state = "pending" \/ ~Used(l)
    BY UsedStays
  <1>3. ~Used(l) => job[l] = "none"
    BY <1>1 DEF MailOK
  <1>4. (~Used(l) => dispatch[l] = "none")'
    BY <1>1, <1>2 DEF MailOK, JobStep
  <1>5. (dispatch[l] \in {"none", "ready"} => job[l] = "none")'
    BY <1>1, <1>3 DEF MailOK, JobStep
  <1>6. (job[l] \in {"accepted", "finished"} => l \in inbox)'
    BY <1>1 DEF MailOK, JobStep
  <1>7. (job[l] = "finished" => links[l].state # "pending")'
    BY <1>1, <1>2, <1>3 DEF MailOK, JobStep
  <1>8. QED
    BY <1>4, <1>5, <1>6, <1>7 DEF MailOK

-----------------------------------------------------------------------------
(* The newest link wins: delivery compares it with its rivals and revokes    *)
(* those that are active.                                                    *)
LEMMA NewestStays ==
    ASSUME IInv, LinksMove, MailMoves
    PROVE  NewestWins'
  <1>1. TypeOK /\ NewestWins /\ inbox \subseteq inbox' /\ \A l \in LinkId : MailOK(l) /\ LinkStep(l)
    BY LinkSteps DEF IInv, MailMoves
  <1>2. links \in [LinkId -> Link]
    BY <1>1 DEF TypeOK
  <1> SUFFICES ASSUME NEW l \in Row', links'[l].state = "active"
               PROVE  /\ links'[l].delivered /\ l \in inbox'
                      /\ \A m \in Rivals(l)' :
                            links'[m].delivered => links'[m].generation < links'[l].generation
    BY DEF NewestWins
  <1>3. l \in LinkId
    BY DEF Row
  <1>4. \A m \in LinkId : Fresh(m) => links'[m].state = "pending" /\ ~links'[m].delivered
    BY DEF Fresh, NewLink
  <1>5. ~Fresh(l)
    BY <1>3, <1>4
  <1>6. \A m \in Rivals(l)' : /\ m \in LinkId /\ m # l /\ links'[m].state \notin {"none", "deleted"}
                              /\ links'[m].user = links'[l].user
                              /\ links'[m].purpose = links'[l].purpose
    BY DEF Rivals, Issued
  <1>7. CASE links'[l] = links[l]
    <2>1. l \in Row
      BY <1>3, <1>7 DEF Row
    <2>2. links[l].delivered /\ l \in inbox
      BY <1>1, <1>7, <2>1 DEF NewestWins
    <2>3. ASSUME NEW m \in Rivals(l)', links'[m].delivered
          PROVE  links'[m].generation < links'[l].generation
      <3>1. ~Fresh(m) /\ m \in LinkId /\ m # l
        BY <1>4, <1>6, <2>3
      <3>2. CASE links[m].delivered /\ links[m].state \notin {"none", "deleted"}
                 /\ links[m].user = links'[m].user /\ links[m].purpose = links'[m].purpose
                 /\ links[m].generation = links'[m].generation
        <4>1. m \in Rivals(l)
          BY <1>6, <1>7, <3>1, <3>2 DEF Rivals, Issued
        <4>2. QED
          BY <1>1, <1>7, <2>1, <3>2, <4>1 DEF NewestWins
      <3>3. CASE links'[m] = links[m]
        BY <1>6, <2>3, <3>1, <3>2, <3>3
      <3>4. CASE m \in Row /\ Same(m) /\ links[m].delivered
        BY <3>2, <3>4 DEF Row, Same
      <3>5. CASE m \in Row /\ Same(m) /\ links'[m].state = "active" /\ ~links[m].delivered /\ Moves(m)
        <4>1. PICK now \in Nows : Delivering(m, now)
          BY <3>5 DEF Moves, Settling
        <4>2. l \in Rivals(m)
          BY <1>3, <1>6, <1>7, <2>1, <3>1, <3>5 DEF Rivals, Issued, Same, Row
        <4>3. links'[l] = [links[l] EXCEPT !.state = "revoked"]
          BY <1>3, <1>7, <4>1, <4>2 DEF Delivering, RevokeOtherActive
        <4>4. QED
          BY <1>2, <1>3, <4>3 DEF Link
      <3>6. QED
        BY <1>1, <2>3, <3>1, <3>3, <3>4, <3>5 DEF LinkStep
    <2>4. QED
      BY <1>1, <1>7, <2>2, <2>3
  <1>8. CASE l \in Row /\ Same(l) /\ Moves(l) /\ links'[l].delivered
    <2>1. PICK now \in Nows : Delivering(l, now)
      BY <1>8 DEF Moves, Settling
    <2>2. job[l] = "accepted" /\ IsLatest(l) /\ links' = RevokeOtherActive(l)
      BY <2>1 DEF Delivering
    <2>3. l \in inbox'
      BY <1>1, <1>3, <2>2 DEF MailOK
    <2>4. ASSUME NEW m \in Rivals(l)'
          PROVE  links'[m].generation < links'[l].generation
      <3>1. m \in LinkId /\ m # l
        BY <1>6
      <3>2. links'[m] = links[m] \/ links'[m] = [links[m] EXCEPT !.state = "revoked"]
        BY <2>2, <3>1 DEF RevokeOtherActive
      <3>3. /\ links'[m].user = links[m].user /\ links'[m].purpose = links[m].purpose
            /\ links'[m].generation = links[m].generation
            /\ links'[m].state = links[m].state \/ m \in Rivals(l)
        BY <1>2, <2>2, <3>1, <3>2 DEF Link, RevokeOtherActive
      <3>4. m \in Rivals(l)
        BY <1>6, <1>8, <3>1, <3>3 DEF Rivals, Issued, Same
      <3>5. QED
        BY <1>8, <2>2, <3>3, <3>4 DEF IsLatest, Same
    <2>5. QED
      BY <1>8, <2>3, <2>4
  <1>9. QED
    BY <1>1, <1>3, <1>5, <1>7, <1>8 DEF LinkStep, Moves, Settling

(* Requests that are issued later are created later, MaxLag aside.           *)
LEMMA TurnsStay ==
    ASSUME IInv, LinksMove
    PROVE  InTurn'
  <1>1. TypeOK /\ InTurn /\ \A l \in LinkId : LinkOK(l) /\ LinkStep(l)
    BY LinkSteps DEF IInv
  <1>2. links \in [LinkId -> Link] /\ links' \in [LinkId -> Link] /\ clock \in Nat /\ MaxLag \in Nat
    BY <1>1, LinksTyped, LinkAssumption DEF TypeOK
  <1>3. PICK g \in Nat : \A l \in LinkId : links[l].generation <= g
    BY DEF IInv, Bounded
  <1> SUFFICES ASSUME NEW l \in Row', NEW m \in Row',
                      links'[l].user = links'[m].user, links'[l].purpose = links'[m].purpose,
                      links'[l].generation <= links'[m].generation
               PROVE  links'[l].created <= links'[m].created + MaxLag
    BY DEF InTurn
  <1>4. /\ l \in LinkId /\ m \in LinkId
        /\ links'[l].created \in Nat /\ links'[m].created \in Nat
        /\ links'[l].generation \in Nat /\ links'[m].generation \in Nat
    BY <1>2 DEF Row, Link
  <1>5. \A k \in {l, m} : ~Fresh(k) => k \in Row /\ Same(k)
    BY <1>1, <1>4 DEF LinkStep, Row, Same
  <1>6. CASE ~Fresh(l) /\ ~Fresh(m)
    BY <1>1, <1>5, <1>6 DEF InTurn, Same
  <1>7. CASE Fresh(m)
    <2>1. PICK now \in Nows : links'[m].created = now
      BY <1>7 DEF Fresh, NewLink
    <2>2. clock <= links'[m].created + MaxLag
      BY <2>1 DEF Nows
    <2>3. links'[l].created <= clock
      <3>1. CASE Fresh(l)
        <4>1. PICK t \in Nows : links'[l].created = t
          BY <3>1 DEF Fresh, NewLink
        <4>2. QED
          BY <1>2, <4>1 DEF Nows
      <3>2. CASE ~Fresh(l)
        BY <1>1, <1>4, <1>5, <3>2 DEF Same, Row, LinkOK, Used
      <3>3. QED
        BY <3>1, <3>2
    <2>4. QED
      BY <1>2, <1>4, <2>2, <2>3
  <1>8. CASE Fresh(l) /\ ~Fresh(m)
    <2>1. PICK u \in User, purpose \in Purpose, now \in Nows, account \in Account :
             /\ Issuing(u, purpose, l, now, account)
             /\ links'[l] = NewLink(DeleteOld(now), u, purpose, now, account.version)
      BY <1>8 DEF Fresh
    <2>2. links'[l].user = u /\ links'[l].purpose = purpose
      BY <2>1 DEF NewLink
    <2>3. m # l
      BY <1>8
    <2>4. links'[m] = DeleteOld(now)[m]
      <3> DEFINE kept == DeleteOld(now)
                 new == NewLink(kept, u, purpose, now, account.version)
      <3>1. links' = [kept EXCEPT ![l] = new] /\ DOMAIN kept = LinkId
        BY <2>1 DEF Issuing, DeleteOld
      <3> HIDE DEF kept, new
      <3>2. links'[m] = kept[m]
        BY <1>4, <2>3, <3>1
      <3>3. QED
        BY <3>2 DEF kept
    <2>5. m \in Issued(DeleteOld(now), u, purpose)
      BY <1>4, <2>2, <2>4 DEF Issued, Row
    <2>6. links[m].generation < links'[l].generation
      <3>1. account.version \in Nat
        BY DEF Account
      <3>2. QED
        BY <1>3, <2>1, <2>5, <3>1, FreshLinks
    <2>7. links'[m].generation = links[m].generation
      BY <1>5, <1>8 DEF Same
    <2>8. QED
      BY <1>4, <2>6, <2>7
  <1>9. QED
    BY <1>6, <1>7, <1>8

-----------------------------------------------------------------------------
(* The requests that hash a password, and the accounts that wait.            *)
LEMMA OthersStay ==
    ASSUME IInv, [Next]_vars
    PROVE  /\ checked' \subseteq [link : LinkId, now : Nat] /\ Timely'
           /\ awaiting' \subseteq User
  <1>1. TypeOK /\ Timely /\ clock \in Nat /\ MaxLag \in Nat
    BY LinkAssumption DEF IInv, TypeOK
  <1>2. CASE UNCHANGED <<clock, checked, awaiting>>
    BY <1>1, <1>2 DEF TypeOK, Timely, Nows
  <1>3. CASE Tick
    BY <1>1, <1>3 DEF Tick, TypeOK, Timely, Nows, history
  <1>4. ASSUME NEW u \in User, NEW l \in LinkId, IssueStep(u, l)
        PROVE  UNCHANGED <<clock, checked>> /\ awaiting' \subseteq awaiting \cup {u}
    BY <1>4 DEF IssueStep, Request, Provision
  <1>5. ASSUME NEW l \in LinkId, NEW now \in Nows, Check(l, now)
        PROVE  /\ UNCHANGED <<clock, awaiting>>
               /\ checked' = checked \cup {[link |-> l, now |-> now]}
    BY <1>5 DEF Check, history
  <1>6. ASSUME NEW c \in checked, ResetPassword(c) \/ ActivateInvitation(c) \/ Activate(c)
        PROVE  UNCHANGED <<clock, checked>> /\ awaiting' \subseteq awaiting
    BY <1>6 DEF ResetPassword, ActivateInvitation, Activate, Complete
  <1>7. ASSUME NEW l \in LinkId, NEW now \in Nows, NEW ownBrowser, Login(l, now, ownBrowser)
        PROVE  UNCHANGED <<clock, checked, awaiting>>
    BY <1>7 DEF Login, history
  <1>8. ASSUME NEW u \in User, AccountStep(u) PROVE UNCHANGED <<clock, checked, awaiting>>
    BY <1>8, AccountsFollow DEF history
  <1>9. ASSUME NEW l \in LinkId, MailStep(l) PROVE UNCHANGED <<clock, checked, awaiting>>
    BY <1>9 DEF MailStep, Dispatch, WebCrash, Send, Redeliver, DispatchFailed,
                MarkDelivered, MarkDeliveryFailed, history
  <1>10. CASE UNCHANGED <<clock, checked>> /\ awaiting' \subseteq User
    BY <1>1, <1>10 DEF TypeOK, Timely, Nows
  <1>11. ASSUME NEW l \in LinkId, NEW now \in Nows, Check(l, now)
         PROVE  /\ checked' \subseteq [link : LinkId, now : Nat] /\ Timely'
                /\ awaiting' \subseteq User
    <2>1. now \in Nat
      BY DEF Nows
    <2>2. QED
      BY <1>1, <1>5, <1>11, <2>1 DEF TypeOK, Timely, Nows
  <1>12. ASSUME NEW l \in LinkId, ConsumeStep(l)
         PROVE  /\ checked' \subseteq [link : LinkId, now : Nat] /\ Timely'
                /\ awaiting' \subseteq User
    <2>1. CASE \E now \in Nows : Check(l, now)
      BY <1>11, <2>1
    <2>2. CASE \E now \in Nows, ownBrowser \in BOOLEAN : Login(l, now, ownBrowser)
      BY <1>2, <1>7, <2>2
    <2>3. CASE \E c \in checked : ResetPassword(c) \/ ActivateInvitation(c) \/ Activate(c)
      BY <1>1, <1>6, <1>10, <2>3 DEF TypeOK
    <2>4. QED
      BY <1>12, <2>1, <2>2, <2>3 DEF ConsumeStep
  <1>13. CASE UNCHANGED vars
    BY <1>2, <1>13 DEF vars
  <1>14. ASSUME NEW u \in User, NEW l \in LinkId, IssueStep(u, l)
         PROVE  /\ checked' \subseteq [link : LinkId, now : Nat] /\ Timely'
                /\ awaiting' \subseteq User
    BY <1>1, <1>4, <1>10, <1>14 DEF TypeOK
  <1>15. QED
    BY <1>2, <1>3, <1>8, <1>9, <1>12, <1>13, <1>14 DEF Next

(* The invariant holds at the start.                                         *)
LEMMA InvariantStarts == Init => IInv
  <1> SUFFICES ASSUME Init PROVE IInv
    OBVIOUS
  <1>1. NoAccount \in Account /\ NewUser \in Account /\ Established \in Account
    <2>1. NoAccount \in Account
      BY DEF NoAccount, PendingAccount, Account
    <2> DEFINE a == [NoAccount EXCEPT !.status = "active"]
               b == [a EXCEPT !.passwordLogin = TRUE]
               c == [NewUser EXCEPT !.mustChange = FALSE]
    <2>2. a \in Account
      BY <2>1 DEF Account
    <2> HIDE DEF a
    <2>3. b \in Account
      BY <2>2 DEF Account
    <2>4. NewUser = [b EXCEPT !.mustChange = TRUE]
      BY DEF NewUser, a
    <2> HIDE DEF b
    <2>5. NewUser \in Account
      BY <2>3, <2>4 DEF Account
    <2>6. c \in Account
      BY <2>5 DEF Account
    <2>7. Established = [c EXCEPT !.emailLogin = TRUE]
      BY DEF Established
    <2> HIDE DEF c
    <2>8. Established \in Account
      BY <2>6, <2>7 DEF Account
    <2>9. QED
      BY <2>1, <2>5, <2>8
  <1>2. Absent \in Link
    BY DEF Absent, Link, Purpose
  <1>3. TypeOK
    BY <1>1, <1>2 DEF Init, TypeOK
  <1>4. \A l \in LinkId : links[l] = Absent /\ ~Used(l)
    BY DEF Init, Used, Absent
  <1>5. ASSUME NEW l \in LinkId PROVE LinkOK(l)
    <2>1. ~Used(l) /\ links[l] = Absent /\ links[l].state # "deleted"
      BY <1>4 DEF Absent, Used
    <2>2. QED
      BY <2>1 DEF LinkOK
  <1>6. \A l \in LinkId : MailOK(l)
    BY <1>4 DEF Init, MailOK, Absent
  <1>7. Bounded
    BY <1>4 DEF Bounded, Absent
  <1>8. Row = {}
    BY <1>4 DEF Row, Absent
  <1>9. NewestWins /\ InTurn
    BY <1>8 DEF NewestWins, InTurn
  <1>10. Timely /\ NoSessionWithoutStanding
    BY DEF Init, Timely, NoSessionWithoutStanding
  <1>11. QED
    BY <1>3, <1>5, <1>6, <1>7, <1>9, <1>10 DEF IInv

(* Every step keeps it.                                                      *)
LEMMA InvariantStays == IInv /\ [Next]_vars => IInv'
  <1> SUFFICES ASSUME IInv, [Next]_vars PROVE IInv'
    OBVIOUS
  <1>1. LinksMove /\ AccountsMove /\ clock' \in Nat /\ clock <= clock' /\ MailMoves
    BY StepsMove, MailsMove
  <1>2. \A l \in LinkId : LinkStep(l)
    BY <1>1, LinkSteps
  <1>3. TypeOK'
    BY <1>1, LinksTyped, OthersStay DEF TypeOK, AccountsMove, MailMoves, MailTypes
  <1>4. \A l \in LinkId : LinkOK(l)'
    BY <1>1, LinksKeepFence
  <1>5. \A l \in LinkId : MailOK(l)'
    BY <1>1, <1>2, MailsKeepCourse
  <1>6. NewestWins' /\ InTurn' /\ Bounded' /\ Timely'
    BY <1>1, NewestStays, TurnsStay, LinksTyped, OthersStay
  <1>7. NoSessionWithoutStanding'
    BY <1>1 DEF AccountsMove, NoSessionWithoutStanding
  <1>8. QED
    BY <1>3, <1>4, <1>5, <1>6, <1>7 DEF IInv

(* The invariant of every execution.                                         *)
THEOREM InvariantHolds == Spec => []IInv
  BY InvariantStarts, InvariantStays, PTL DEF Spec

-----------------------------------------------------------------------------
(* Every row, job and request holds values of its type (TypeOK).             *)
THEOREM TypeCorrect == Spec => []TypeOK
  <1>1. IInv => TypeOK
    BY DEF IInv
  <1>2. QED
    BY <1>1, InvariantHolds, PTL

(* The active link is the newest of those delivered, in whatever order the   *)
(* worker confirms them (NewestWins).                                        *)
THEOREM NewestLinkWins == Spec => []NewestWins
  <1>1. IInv => NewestWins
    BY DEF IInv
  <1>2. QED
    BY <1>1, InvariantHolds, PTL

(* Every session belongs to an account that may authenticate                 *)
(* (NoSessionWithoutStanding).                                               *)
THEOREM SessionsStand == Spec => []NoSessionWithoutStanding
  <1>1. IInv => NoSessionWithoutStanding
    BY DEF IInv
  <1>2. QED
    BY <1>1, InvariantHolds, PTL

(* A closed link stays closed, and retention deletes what has expired        *)
(* (LinksOnlyAdvance).                                                       *)
THEOREM LinksAdvance == Spec => LinksOnlyAdvance
  <1>1. ASSUME IInv, [Next]_vars PROVE \A l \in LinkId : LinkAdvances(l)
    <2> TAKE l \in LinkId
    <2>1. LinkStep(l) /\ links[l] \in Link /\ clock \in Nat
      BY <1>1, StepsMove, LinkSteps DEF IInv, TypeOK
    <2>2. CASE Fresh(l)
      BY <2>2 DEF Fresh, NewLink, Issuing, Used, LinkAdvances
    <2>3. CASE links'[l] = links[l]
      BY <2>3 DEF LinkAdvances
    <2>4. CASE Moves(l)
      <3>1. CASE links'[l].state = "deleted" /\ links[l].created + Retention < clock
        BY <2>1, <3>1, LinkAssumption DEF LinkAdvances, Expired, RetentionCovers, Link
      <3>2. CASE links'[l].state # "deleted"
        BY <2>4, <3>2 DEF Moves, Settling, Delivering, LinkAdvances
      <3>3. QED
        BY <2>4, <3>1, <3>2 DEF Moves, Settling
    <2>5. QED
      BY <2>1, <2>2, <2>3, <2>4 DEF LinkStep
  <1>2. IInv /\ [Next]_vars => [\A l \in LinkId : LinkAdvances(l)]_links
    BY <1>1
  <1>3. QED
    BY <1>2, InvariantHolds, PTL DEF Spec, LinksOnlyAdvance

(* A link is consumed only on the account as it was when it was issued       *)
(* (ConsumptionIsFenced).                                                    *)
THEOREM ConsumptionsAreFenced == Spec => ConsumptionIsFenced
  <1>1. ASSUME IInv, [Next]_vars, NEW l \in Row,
               links[l].state # "consumed", links'[l].state = "consumed"
        PROVE  Settled(accounts[links[l].user]) = Settled(issuedTo[l])
    <2>1. l \in LinkId /\ Used(l) /\ ~Fresh(l)
      BY DEF Row, Used, Fresh, Issuing
    <2>2. LinkOK(l) /\ LinkStep(l)
      BY <1>1, <2>1, StepsMove, LinkSteps DEF IInv
    <2>3. PICK now \in Nows : Settling(l, "consumed", now)
      BY <1>1, <2>1, <2>2 DEF LinkStep, Moves
    <2>4. links[l].version = accounts[links[l].user].version
      BY <2>3 DEF Settling, StillGood
    <2>5. QED
      BY <2>1, <2>2, <2>4 DEF LinkOK
  <1>2. IInv /\ [Next]_vars =>
           [\A l \in Row : links[l].state # "consumed" /\ links'[l].state = "consumed" =>
               Settled(accounts[links[l].user]) = Settled(issuedTo[l])]_links
    BY <1>1
  <1>3. QED
    BY <1>2, InvariantHolds, PTL DEF Spec, ConsumptionIsFenced

-----------------------------------------------------------------------------
(* Where a finished job does not come again, an active link has had its      *)
(* mail confirmed, and only a link that is outdated has been revoked.        *)
ActiveIsFinished ==
    ~AckLost => \A l \in Row : links[l].state = "active" => job[l] = "finished"

Outdated(l) ==
    \/ Expired(links[l], clock)
    \/ links[l].version < accounts[links[l].user].version
    \/ ~IsLatest(l)

RevokedIsOutdated ==
    ~AckLost => \A l \in Row : links[l].state = "revoked" => Outdated(l)

(* A handler that finds a link no longer good finds it expired or fenced.    *)
LEMMA NoLongerGood ==
    ASSUME IInv, NEW l \in Row, NEW now \in Nows, links[l].created <= now, ~StillGood(l, now)
    PROVE  \/ Expired(links[l], now) /\ Expired(links[l], clock)
           \/ links[l].version < accounts[links[l].user].version
  <1> DEFINE link == links[l]
             account == accounts[link.user]
  <1>1. /\ TypeOK /\ l \in LinkId /\ LinkOK(l) /\ Used(l)
        /\ clock \in Nat /\ now \in Nat /\ now <= clock
    BY DEF IInv, Row, Nows, TypeOK, Used
  <1>2. /\ link \in Link /\ link.user \in User /\ account \in Account
        /\ link.version <= account.version
        /\ link.version = account.version => CanRequest(account, link.purpose, link.created)
    BY <1>1 DEF TypeOK, LinkOK
  <1>3. /\ link.created \in Nat /\ link.version \in Nat /\ account.version \in Nat
        /\ account.lockedUntil \in Nat /\ TTL \in Nat
    BY <1>2, LinkAssumption DEF Link, Account
  <1>4. Expired(link, now) => Expired(link, clock)
    BY <1>1, <1>3 DEF Expired
  <1>5. CanRequest(account, link.purpose, link.created) => CanRequest(account, link.purpose, now)
    <2> HIDE DEF link, account
    <2>1. CanAuthenticate(account, link.created) => CanAuthenticate(account, now)
      BY <1>1, <1>3 DEF CanAuthenticate, link
    <2>2. QED
      BY <2>1 DEF CanRequest
  <1>6. CASE link.version = account.version
    <2>1. CanRequest(account, link.purpose, now)
      BY <1>2, <1>5, <1>6
    <2>2. Expired(link, now)
      BY <1>6, <2>1 DEF StillGood
    <2>3. QED
      BY <1>4, <2>2
  <1>7. CASE link.version # account.version
    BY <1>2, <1>3, <1>7
  <1>8. QED
    BY <1>6, <1>7

(* The table's CHECK on its times: a link is not revoked before its creation. *)
LEMMA RevokedInOrder ==
    ASSUME IInv, NEW l \in LinkId, NEW now \in Nows, Settling(l, "revoked", now)
    PROVE  links[l].created <= now
  <1>1. links[l] \in Link /\ links \in [LinkId -> Link]
    BY DEF IInv, TypeOK
  <1>2. /\ links' = SetState(l, "revoked") /\ TimesInOrder(now)
        /\ links[l].state \in {"pending", "active"}
    BY DEF Settling
  <1>3. links'[l].state = "revoked" /\ links'[l].created = links[l].created
    BY <1>1, <1>2 DEF SetState, Link
  <1>4. QED
    BY <1>2, <1>3 DEF TimesInOrder

(* An active link has had its mail confirmed.                                *)
LEMMA ActiveStaysFinished ==
    ASSUME IInv, ActiveIsFinished, LinksMove, MailMoves
    PROVE  ActiveIsFinished'
  <1> SUFFICES ASSUME ~AckLost, NEW l \in Row', links'[l].state = "active"
               PROVE  job'[l] = "finished"
    BY DEF ActiveIsFinished
  <1>1. l \in LinkId /\ LinkStep(l) /\ JobStep(l) /\ MailOK(l) /\ MailTypes
    BY LinkSteps DEF IInv, Row, MailMoves, TypeOK, MailTypes
  <1>2. ~Fresh(l)
    <2>1. Fresh(l) => links'[l].state = "pending"
      BY DEF Fresh, NewLink
    <2>2. QED
      BY <2>1
  <1>3. CASE links'[l] = links[l]
    <2>1. job[l] = "finished"
      BY <1>1, <1>3 DEF ActiveIsFinished, Row
    <2>2. QED
      BY <1>1, <2>1 DEF JobStep, MailOK
  <1>4. CASE Moves(l)
    <2>1. PICK now \in Nows : Delivering(l, now)
      BY <1>4 DEF Moves, Settling
    <2>2. QED
      BY <1>1, <2>1 DEF Delivering, MailTypes
  <1>5. QED
    BY <1>1, <1>2, <1>3, <1>4 DEF LinkStep

(* The invariant of every execution, with it.                                *)
LEMMA ActiveLinksAreFinished == Spec => [](IInv /\ ActiveIsFinished)
  <1>1. Init => IInv /\ ActiveIsFinished
    <2>1. Init => \A l \in LinkId : links[l].state = "none"
      BY DEF Init, Absent
    <2>2. QED
      BY <2>1, InvariantStarts DEF ActiveIsFinished, Row
  <1>2. IInv /\ ActiveIsFinished /\ [Next]_vars => (IInv /\ ActiveIsFinished)'
    BY InvariantStays, StepsMove, MailsMove, ActiveStaysFinished
  <1>3. QED
    BY <1>1, <1>2, PTL DEF Spec

(* A request, a failed mail or a superseded delivery does not cost the user  *)
(* the working link, provided that the queue does not hand out a finished    *)
(* job again (ReplacementKeepsOld).                                          *)
THEOREM ReplacementsKeepOld == ASSUME ~AckLost PROVE Spec => ReplacementKeepsOld
  <1>1. ASSUME IInv, ActiveIsFinished, [Next]_vars, NEW l \in Row,
               links[l].state = "active", links'[l].state = "revoked"
        PROVE  \/ \E m \in Rivals(l) :
                      links[m].state = "pending" /\ links'[m].state = "active"
               \/ ~StillGood(l, clock)
    <2>1. /\ l \in LinkId /\ LinkStep(l) /\ links \in [LinkId -> Link] /\ clock \in Nat
          /\ job[l] = "finished"
      BY <1>1, StepsMove, LinkSteps DEF IInv, TypeOK, Row, ActiveIsFinished
    <2>2. Moves(l)
      BY <1>1, <2>1 DEF LinkStep, Fresh, Issuing, Used
    <2>3. ASSUME NEW now \in Nows, Settling(l, "revoked", now) PROVE ~StillGood(l, clock)
      <3>1. ~StillGood(l, now) /\ links[l].created <= now
        BY <1>1, <2>1, <2>3, RevokedInOrder DEF Settling
      <3>2. \/ Expired(links[l], clock)
            \/ links[l].version < accounts[links[l].user].version
        BY <1>1, <3>1, NoLongerGood
      <3>3. links[l].version \in Nat
        BY <2>1 DEF Link
      <3>4. QED
        BY <3>2, <3>3 DEF StillGood
    <2>4. ASSUME NEW k \in LinkId, NEW now \in Nows, Delivering(k, now), l \in Rivals(k)
          PROVE  \E m \in Rivals(l) : links[m].state = "pending" /\ links'[m].state = "active"
      <3>1. links[k].state = "pending" /\ links' = RevokeOtherActive(k)
        BY <2>4 DEF Delivering
      <3>2. k \in Rivals(l)
        BY <2>4, <3>1 DEF Rivals, Issued
      <3> DEFINE a == [links[k] EXCEPT !.state = "active"]
      <3>3. links'[k] = [a EXCEPT !.delivered = TRUE]
        BY <3>1 DEF RevokeOtherActive, Rivals
      <3>4. a \in Link /\ a.state = "active"
        BY <2>1 DEF Link
      <3> HIDE DEF a
      <3>5. links'[k].state = "active"
        BY <3>3, <3>4 DEF Link
      <3>6. QED
        BY <3>1, <3>2, <3>5
    <2>5. QED
      BY <1>1, <2>2, <2>3, <2>4 DEF Moves
  <1>2. IInv /\ ActiveIsFinished /\ [Next]_vars =>
           [\A l \in Row :
              links[l].state = "active" /\ links'[l].state = "revoked" =>
                \/ \E m \in Rivals(l) :
                       links[m].state = "pending" /\ links'[m].state = "active"
                \/ ~StillGood(l, clock)]_links
    BY <1>1
  <1>3. QED
    BY <1>2, ActiveLinksAreFinished, PTL DEF Spec, ReplacementKeepsOld

(* A link that is outdated stays so: where retention deletes the rival that  *)
(* outdated it, the link has expired itself.                                 *)
LEMMA OutdatedStays ==
    ASSUME IInv, LinksMove, AccountsMove, clock' \in Nat, clock <= clock',
           TTL + MaxLag <= Retention, NEW l \in Row, l \in Row', Outdated(l)
    PROVE  Outdated(l)'
  <1>1. /\ TypeOK /\ InTurn /\ clock \in Nat /\ TTL \in Nat /\ MaxLag \in Nat
        /\ Retention \in Nat /\ links \in [LinkId -> Link]
    BY LinkAssumption DEF IInv, TypeOK
  <1>2. ASSUME NEW m \in Row PROVE m \in LinkId /\ Same(m) /\ links[m] \in Link /\ LinkOK(m)'
    BY <1>1, LinkSteps, LinksKeepFence DEF Row, LinkStep, Fresh, Issuing, Used, Same
  <1>3. /\ Same(l) /\ l \in LinkId /\ links[l].created \in Nat /\ links[l].version \in Nat
        /\ links[l].generation \in Nat
    BY <1>2 DEF Link
  <1>4. CASE Expired(links[l], clock)
    BY <1>1, <1>3, <1>4 DEF Expired, Outdated, Same
  <1>5. CASE links[l].version < accounts[links[l].user].version
    <2> DEFINE u == links[l].user
    <2>1. u \in User /\ accounts[u].status # "absent"
      BY <1>3 DEF IInv, LinkOK, Row, Used
    <2>2. accounts[u] \in Account /\ accounts'[u] \in Account /\ Follows(accounts[u], accounts'[u])
      BY <1>1, <2>1 DEF TypeOK, AccountsMove
    <2>3. accounts[u].version <= accounts'[u].version
      BY <2>2, SameVersion
    <2>4. accounts[u].version \in Nat /\ accounts'[u].version \in Nat
      BY <2>2 DEF Account
    <2>5. links'[l].version < accounts'[u].version
      BY <1>3, <1>5, <2>3, <2>4 DEF Same
    <2>6. QED
      BY <1>3, <2>5 DEF Outdated, Same
  <1>6. CASE ~IsLatest(l)
    <2>1. PICK m \in Rivals(l) : ~(links[m].generation < links[l].generation)
      BY <1>6 DEF IsLatest
    <2>2. /\ m \in Row /\ m # l /\ links[m].user = links[l].user
          /\ links[m].purpose = links[l].purpose
      BY DEF Rivals, Issued, Row
    <2>3. m \in LinkId /\ Same(m) /\ links[m].created \in Nat /\ links[m].generation \in Nat
      BY <1>2, <2>2 DEF Link
    <2>4. CASE m \in Row'
      <3>1. m \in Rivals(l)'
        BY <1>3, <2>2, <2>3, <2>4 DEF Rivals, Issued, Row, Same
      <3>2. ~(links'[m].generation < links'[l].generation)
        BY <1>3, <2>1, <2>3 DEF Same
      <3>3. QED
        BY <3>1, <3>2 DEF Outdated, IsLatest
    <2>5. CASE m \notin Row'
      <3>1. links'[m].state = "deleted"
        BY <1>1, <2>2, <2>3, <2>5, LinkSteps, UsedStays DEF Row, Used
      <3>2. links[m].created + Retention < clock'
        BY <1>2, <2>2, <2>3, <3>1 DEF LinkOK, Same
      <3>3. links[l].created <= links[m].created + MaxLag
        BY <1>1, <1>3, <2>1, <2>2, <2>3 DEF InTurn
      <3>4. links[l].created + TTL <= clock'
        BY <1>1, <1>3, <2>3, <3>2, <3>3
      <3>5. QED
        BY <1>3, <3>4 DEF Outdated, Expired, Same
    <2>6. QED
      BY <2>4, <2>5
  <1>7. QED
    BY <1>4, <1>5, <1>6 DEF Outdated

(* Only an outdated link is revoked.                                         *)
LEMMA RevokedStaysOutdated ==
    ASSUME IInv, ActiveIsFinished, RevokedIsOutdated, LinksMove, AccountsMove,
           clock' \in Nat, clock <= clock', TTL + MaxLag <= Retention
    PROVE  RevokedIsOutdated'
  <1> SUFFICES ASSUME ~AckLost, NEW l \in Row', links'[l].state = "revoked"
               PROVE  Outdated(l)'
    BY DEF RevokedIsOutdated
  <1>1. l \in LinkId /\ LinkStep(l) /\ links \in [LinkId -> Link]
    BY LinkSteps DEF IInv, Row, TypeOK
  <1>2. ~Fresh(l)
    <2>1. Fresh(l) => links'[l].state = "pending"
      BY DEF Fresh, NewLink
    <2>2. QED
      BY <2>1
  <1>3. l \in Row
    BY <1>1, <1>2 DEF LinkStep, Row
  <1>4. CASE links'[l] = links[l]
    BY <1>3, <1>4, OutdatedStays DEF RevokedIsOutdated
  <1>5. ASSUME NEW now \in Nows, Settling(l, "revoked", now) PROVE Outdated(l)
    <2>1. links[l].created <= now
      BY <1>1, <1>5, RevokedInOrder
    <2>2. CASE ~StillGood(l, now)
      BY <1>3, <2>1, <2>2, NoLongerGood DEF Outdated
    <2>3. CASE job[l] = "accepted" /\ links[l].state = "active"
      BY <1>3, <2>3 DEF ActiveIsFinished
    <2>4. CASE ~IsLatest(l)
      BY <2>4 DEF Outdated
    <2>5. QED
      BY <1>5, <2>2, <2>3, <2>4 DEF Settling
  <1>6. ASSUME NEW k \in LinkId, NEW now \in Nows, Delivering(k, now), l \in Rivals(k)
        PROVE  Outdated(l)
    <2>1. links[l].generation < links[k].generation /\ links[k].state = "pending"
      BY <1>6 DEF Delivering, IsLatest
    <2>2. k \in Rivals(l)
      BY <1>6, <2>1 DEF Rivals, Issued
    <2>3. ~(links[k].generation < links[l].generation)
      BY <1>1, <2>1 DEF Link
    <2>4. QED
      BY <2>2, <2>3 DEF Outdated, IsLatest
  <1>7. CASE Moves(l)
    <2>1. Outdated(l)
      BY <1>5, <1>6, <1>7 DEF Moves
    <2>2. QED
      BY <1>3, <2>1, OutdatedStays
  <1>8. QED
    BY <1>1, <1>2, <1>4, <1>7 DEF LinkStep

(* A failed link is one whose dispatch failed, or whose job was refused: a   *)
(* job confirmed after that was taken from the queue more than once.         *)
FailedIsReported ==
    \A l \in LinkId :
        /\ job[l] \in {"accepted", "refused", "finished", "failed"} => attempts[l] >= 1
        /\ links[l].state = "failed" =>
              \/ dispatch[l] = "failed"
              \/ attempts[l] > 1
              \/ attempts[l] = 1 /\ job[l] \in {"failed", "queued"}

LEMMA FailedStaysReported ==
    ASSUME IInv, FailedIsReported, LinksMove, MailMoves
    PROVE  FailedIsReported'
  <1> SUFFICES ASSUME NEW l \in LinkId
               PROVE  /\ job'[l] \in {"accepted", "refused", "finished", "failed"}
                            => attempts'[l] >= 1
                      /\ links'[l].state = "failed" =>
                            \/ dispatch'[l] = "failed"
                            \/ attempts'[l] > 1
                            \/ attempts'[l] = 1 /\ job'[l] \in {"failed", "queued"}
    BY DEF FailedIsReported
  <1>1. /\ JobStep(l) /\ LinkStep(l) /\ MailOK(l) /\ attempts[l] \in Nat
        /\ (links[l].state = "failed" => Used(l))
    BY LinkSteps DEF IInv, TypeOK, MailMoves, Used
  <1>2. /\ job[l] \in {"accepted", "refused", "finished", "failed"} => attempts[l] >= 1
        /\ links[l].state = "failed" =>
              \/ dispatch[l] = "failed"
              \/ attempts[l] > 1
              \/ attempts[l] = 1 /\ job[l] \in {"failed", "queued"}
    BY DEF FailedIsReported
  <1>3. job'[l] \in {"accepted", "refused", "finished", "failed"} => attempts'[l] >= 1
    BY <1>1, <1>2 DEF JobStep
  <1>4. CASE links[l].state = "failed" /\ links'[l].state = "failed"
    BY <1>1, <1>2, <1>4 DEF JobStep, MailOK
  <1>5. CASE links[l].state # "failed" /\ links'[l].state = "failed"
    <2>1. ~Fresh(l)
      <3>1. Fresh(l) => links'[l].state = "pending"
        BY DEF Fresh, NewLink
      <3>2. QED
        BY <1>5, <3>1
    <2>2. PICK now \in Nows : Settling(l, "failed", now)
      BY <1>1, <1>5, <2>1 DEF LinkStep, Moves
    <2>3. dispatch'[l] = "failed" \/ (job[l] = "refused" /\ job'[l] = "failed")
      BY <2>2 DEF Settling
    <2>4. QED
      BY <1>1, <1>2, <2>3 DEF JobStep
  <1>6. QED
    BY <1>3, <1>4, <1>5

(* When the provider has accepted the newest link's mail and the worker has  *)
(* confirmed it, the link works, or had been reported failed before: by its  *)
(* dispatch or by an earlier attempt (AcceptedLinkWorks).  Provided that the *)
(* queue does not hand out a finished job again and that retention outlives  *)
(* a link by the lag between two handlers.                                   *)
THEOREM AcceptedLinksWork ==
    ASSUME ~AckLost, TTL + MaxLag <= Retention
    PROVE  Spec => []AcceptedLinkWorks
  <1> DEFINE All == IInv /\ ActiveIsFinished /\ RevokedIsOutdated /\ FailedIsReported
  <1>1. Init => All
    <2>1. Init => \A l \in LinkId : links[l].state = "none" /\ job[l] = "none"
      BY DEF Init, Absent
    <2>2. QED
      BY <2>1, InvariantStarts DEF ActiveIsFinished, RevokedIsOutdated, FailedIsReported, Row
  <1>2. All /\ [Next]_vars => All'
    <2> SUFFICES ASSUME All, [Next]_vars PROVE All'
      OBVIOUS
    <2>1. IInv' /\ LinksMove /\ AccountsMove /\ MailMoves /\ clock' \in Nat /\ clock <= clock'
      BY InvariantStays, StepsMove, MailsMove
    <2>2. QED
      BY <2>1, ActiveStaysFinished, RevokedStaysOutdated, FailedStaysReported
  <1>3. All => AcceptedLinkWorks
    <2> SUFFICES ASSUME All, NEW l \in Row, job[l] = "finished", IsLatest(l),
                        StillGood(l, clock)
                 PROVE  links[l].state \in {"active", "consumed"} \/ ReportedFailed(l)
      BY DEF AcceptedLinkWorks
    <2>1. l \in LinkId /\ links[l] \in Link /\ MailOK(l)
      BY DEF IInv, TypeOK, Row
    <2>2. links[l].state # "pending" /\ links[l].state \notin {"none", "deleted"}
      BY <2>1 DEF MailOK, Row
    <2>3. links[l].state # "revoked"
      <3>1. links[l].version \in Nat
        BY <2>1 DEF Link
      <3>2. ~Outdated(l)
        BY <3>1 DEF Outdated, StillGood
      <3>3. QED
        BY <3>2 DEF RevokedIsOutdated
    <2>4. links[l].state = "failed" => ReportedFailed(l)
      BY <2>1 DEF FailedIsReported, ReportedFailed
    <2>5. QED
      BY <2>1, <2>2, <2>3, <2>4 DEF Link
  <1> HIDE DEF All
  <1>4. QED
    BY <1>1, <1>2, <1>3, PTL DEF Spec

-----------------------------------------------------------------------------
(* The requests of an account for a purpose that fall in a window.           *)
Asked(table, u, purpose, t) ==
    {l \in LinkId : /\ table[l].user = u /\ table[l].purpose = purpose
                    /\ table[l].created \in t..(t + Window)}

(* A new request counts every other one in its window: retention deletes     *)
(* none of them before the last handler that might count it.                 *)
LEMMA WindowIsCounted ==
    ASSUME IInv, Window + MaxLag <= Retention,
           NEW u \in User, NEW purpose \in Purpose, NEW l \in LinkId, NEW now \in Nows,
           NEW account, Issuing(u, purpose, l, now, account), NEW t \in Nat,
           l \in Asked(links', u, purpose, t)
    PROVE  Cardinality(Asked(links', u, purpose, t)) <= MaxRequests
  <1> DEFINE kept == DeleteOld(now)
             new == NewLink(kept, u, purpose, now, account.version)
             C == {m \in Issued(kept, u, purpose) : kept[m].created + Window >= now}
             T == Asked(links', u, purpose, t)
  <1>1. /\ TypeOK /\ clock \in Nat /\ now \in Nat /\ now <= clock /\ clock <= now + MaxLag
        /\ Window \in Nat /\ MaxLag \in Nat /\ Retention \in Nat /\ MaxRequests \in Nat
        /\ links \in [LinkId -> Link]
    BY LinkAssumption DEF IInv, TypeOK, Nows
  <1>2. links' = [kept EXCEPT ![l] = new] /\ DOMAIN kept = LinkId /\ new.created = now
    BY DEF Issuing, DeleteOld, NewLink
  <1>3. Cardinality(C) < MaxRequests
    BY DEF Issuing, Requests
  <1>4. \A m \in LinkId \ {l} : links'[m] = kept[m]
    <2> HIDE DEF kept, new
    <2>1. QED
      BY <1>2
  <1>5. t <= now /\ now <= t + Window
    <2>1. links'[l].created = now
      <3> HIDE DEF kept, new
      <3>1. QED
        BY <1>2
    <2>2. QED
      BY <1>1, <2>1 DEF Asked
  <1>6. ASSUME NEW m \in T, m # l PROVE m \in C
    <2>1. /\ m \in LinkId /\ kept[m].user = u /\ kept[m].purpose = purpose
          /\ t <= kept[m].created
      BY <1>4, <1>6 DEF Asked
    <2>2. /\ kept[m] \in Link
          /\ \/ kept[m] = links[m]
             \/ /\ links[m].created + Retention < now
                /\ kept[m] = [links[m] EXCEPT !.state = "deleted"]
      BY <1>1, <2>1, Kept
    <2>3. kept[m].created \in Nat /\ links[m] \in Link /\ LinkOK(m)
      BY <1>1, <2>1, <2>2 DEF Link, IInv
    <2>4. kept[m].created + Window >= now
      BY <1>1, <1>5, <2>1, <2>3
    <2>5. CASE kept[m] = links[m]
      <3>1. Used(m)
        BY <2>1, <2>3, <2>5, LinkAssumption DEF LinkOK, Absent
      <3>2. links[m].state # "deleted"
        BY <1>1, <2>3, <2>4, <2>5 DEF LinkOK
      <3>3. QED
        BY <2>1, <2>4, <2>5, <3>1, <3>2 DEF Issued, Used
    <2>6. CASE links[m].created + Retention < now /\ kept[m] = [links[m] EXCEPT !.state = "deleted"]
      <3>1. kept[m].created = links[m].created
        BY <2>3, <2>6 DEF Link
      <3>2. QED
        BY <1>1, <2>3, <2>4, <2>6, <3>1
    <2>7. QED
      BY <2>2, <2>5, <2>6
  <1>7. C \subseteq LinkId /\ IsFiniteSet(LinkId)
    BY IdsAssumption DEF Issued
  <1> HIDE DEF C, T
  <1>8. T \subseteq C \cup {l}
    BY <1>6
  <1>9. IsFiniteSet(C) /\ Cardinality(C) \in Nat
    BY <1>7, FS_Subset, FS_CardinalityType
  <1>10. /\ IsFiniteSet(C \cup {l}) /\ Cardinality(C \cup {l}) \in Nat
         /\ Cardinality(C \cup {l}) <= Cardinality(C) + 1
    <2>1. /\ IsFiniteSet(C \cup {l})
          /\ Cardinality(C \cup {l}) = IF l \in C THEN Cardinality(C) ELSE Cardinality(C) + 1
      BY <1>9, FS_AddElement
    <2>2. QED
      BY <1>9, <2>1
  <1>11. IsFiniteSet(T) /\ Cardinality(T) <= Cardinality(C \cup {l}) /\ Cardinality(T) \in Nat
    BY <1>8, <1>10, FS_Subset, FS_CardinalityType
  <1>12. QED
    BY <1>1, <1>3, <1>9, <1>10, <1>11 DEF T

(* No step exceeds the limit.                                                *)
LEMMA LimitStays ==
    ASSUME IInv, RequestsLimited, Window + MaxLag <= Retention, LinksMove,
           clock' \in Nat, clock <= clock'
    PROVE  RequestsLimited'
  <1> SUFFICES ASSUME NEW u \in User, NEW purpose \in Purpose, NEW t \in 0..clock'
               PROVE  Cardinality(Asked(links', u, purpose, t)) <= MaxRequests
    BY DEF RequestsLimited, Asked
  <1> DEFINE S == Asked(links, u, purpose, t)
             T == Asked(links', u, purpose, t)
  <1>1. /\ clock \in Nat /\ t \in Nat /\ MaxRequests \in Nat
        /\ \A l \in LinkId : LinkOK(l) /\ LinkStep(l)
    BY LinkSteps, LinkAssumption DEF IInv, TypeOK
  <1>2. CASE \E l \in T : Fresh(l)
    <2>1. PICK l \in T : Fresh(l)
      BY <1>2
    <2>2. l \in LinkId /\ links'[l].user = u /\ links'[l].purpose = purpose
      BY DEF Asked
    <2>3. PICK v \in User, q \in Purpose, now \in Nows, account \in Account :
             /\ Issuing(v, q, l, now, account)
             /\ links'[l] = NewLink(DeleteOld(now), v, q, now, account.version)
      BY <2>1 DEF Fresh
    <2>4. v = u /\ q = purpose
      BY <2>2, <2>3 DEF NewLink
    <2>5. QED
      BY <1>1, <2>1, <2>2, <2>3, <2>4, WindowIsCounted
  <1>3. CASE \A l \in T : ~Fresh(l)
    <2>1. T \subseteq S
      BY <1>1, <1>3 DEF LinkStep, Same, Asked
    <2>2. IsFiniteSet(S) /\ Cardinality(S) \in Nat
      BY IdsAssumption, FS_Subset, FS_CardinalityType DEF Asked
    <2>3. Cardinality(S) <= MaxRequests
      <3>1. CASE t <= clock
        BY <1>1, <3>1 DEF RequestsLimited, Asked
      <3>2. CASE ~(t <= clock)
        <4>1. ASSUME NEW l \in S PROVE FALSE
          <5>1. l \in LinkId /\ links[l].user = u /\ t <= links[l].created
            BY DEF Asked
          <5>2. Used(l)
            BY <1>1, <5>1, LinkAssumption DEF LinkOK, Absent
          <5>3. links[l].created <= clock /\ links[l].created \in Nat
            BY <1>1, <5>1, <5>2 DEF LinkOK, IInv, TypeOK, Link
          <5>4. QED
            BY <1>1, <3>2, <5>1, <5>3
        <4>2. S = {}
          BY <4>1
        <4>3. QED
          BY <1>1, <4>2, FS_EmptySet
      <3>3. QED
        BY <3>1, <3>2
    <2>4. Cardinality(T) <= Cardinality(S) /\ Cardinality(T) \in Nat
      BY <2>1, <2>2, FS_Subset, FS_CardinalityType
    <2>5. QED
      BY <1>1, <2>2, <2>3, <2>4
  <1>4. QED
    BY <1>2, <1>3

(* No window holds more requests than the limit (RequestsLimited), provided  *)
(* that retention outlives the window by the lag between two handlers.       *)
THEOREM RequestsStayLimited ==
    ASSUME Window + MaxLag <= Retention
    PROVE  Spec => []RequestsLimited
  <1>1. Init => RequestsLimited
    <2> SUFFICES ASSUME Init, NEW u \in User, NEW purpose \in Purpose, NEW t \in 0..clock
                 PROVE  Cardinality(Asked(links, u, purpose, t)) <= MaxRequests
      BY DEF RequestsLimited, Asked
    <2>1. Asked(links, u, purpose, t) = {}
      BY LinkAssumption DEF Init, Asked, Absent
    <2>2. QED
      BY <2>1, FS_EmptySet, LinkAssumption
  <1>2. IInv /\ RequestsLimited /\ [Next]_vars => RequestsLimited'
    BY StepsMove, LimitStays
  <1>3. QED
    BY <1>1, <1>2, InvariantHolds, PTL DEF Spec

=============================================================================
