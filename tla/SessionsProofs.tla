--------------------------- MODULE SessionsProofs ---------------------------
(***************************************************************************)
(* Theorems about module Sessions, for every set of accounts and rows,     *)
(* every timing constant and every lag.                                    *)
(***************************************************************************)
EXTENDS Sessions, TLAPS

-----------------------------------------------------------------------------
(* A session issued at some time with some absolute deadline is a row.       *)
LEMMA NewSessionType ==
    ASSUME NEW u \in User, NEW f \in SessionId, NEW now \in Nat,
           NEW absolute \in Nat, NEW authenticated \in Nat
    PROVE  NewSession(u, f, now, absolute, authenticated) \in Session
  BY TimingAssumption DEF NewSession, Absent, Session

(* Revoking a family gives a session table.                                  *)
LEMMA RevokeFamilyType ==
    ASSUME NEW table \in [SessionId -> Session], NEW f
    PROVE  RevokeFamily(table, f) \in [SessionId -> Session]
  BY DEF RevokeFamily, Session

(* Revoking an account's sessions gives a session table.                     *)
LEMMA RevokeUserType ==
    ASSUME NEW table \in [SessionId -> Session], NEW u
    PROVE  RevokeUser(table, u) \in [SessionId -> Session]
  BY DEF RevokeUser, Session

(* Revoking the rows of a snapshot gives a session table.                    *)
LEMMA RevokeRowsType ==
    ASSUME NEW table \in [SessionId -> Session], NEW rows
    PROVE  RevokeRows(table, rows) \in [SessionId -> Session]
  BY DEF RevokeRows, Session

(* A handler's now is a time no later than the clock.                        *)
LEMMA NowsAreTimes == TypeOK => Nows \subseteq Nat /\ \A t \in Nows : t <= clock
  BY DEF TypeOK, Nows

(* A stored row has an owner.                                                *)
LEMMA RowOwner == TypeOK => \A s \in Row : s \in SessionId /\ sessions[s].user \in User
  BY DEF TypeOK, Row, Session

(* What the writes of the account row return.                                *)
LEMMA AccountWritesType ==
    ASSUME NEW account \in Account, NEW now \in Nat
    PROVE  /\ ClearFailures(account) \in Account
           /\ RequirePasswordChange(account) \in Account
           /\ ActivatePassword(account) \in Account
           /\ DisablePassword(account) \in Account
           /\ CountFailure(account, now) \in Account
  <1>1. ClearFailures(account) \in Account
    BY DEF ClearFailures, Account
  <1>2. /\ RequirePasswordChange(account) \in Account
        /\ ActivatePassword(account) \in Account
        /\ DisablePassword(account) \in Account
    <2>1. account.password + 1 \in Nat
      BY DEF Account
    <2>2. ReplacePassword(account) \in Account
      BY <1>1, <2>1 DEF ReplacePassword, Account
    <2>3. QED
      BY <2>2 DEF RequirePasswordChange, ActivatePassword, DisablePassword, Account
  <1>3. CountFailure(account, now) \in Account
    <2> DEFINE previous == IF account.lockedUntil # 0 /\ account.lockedUntil <= now
                           THEN 0 ELSE account.failed
               until == IF previous + 1 >= MaxAttempts THEN now + Lockout ELSE 0
    <2>1. previous + 1 \in Nat
      BY DEF Account
    <2>2. until \in Nat
      BY TimingAssumption
    <2>3. CountFailure(account, now)
            = [account EXCEPT !.failed = previous + 1, !.lockedUntil = until]
      BY DEF CountFailure
    <2> HIDE DEF previous, until
    <2>4. QED
      BY <2>1, <2>2, <2>3 DEF Account
  <1>4. QED
    BY <1>1, <1>2, <1>3

(* Recording a failed password keeps the tables' types.                      *)
LEMMA RecordPasswordFailureType ==
    ASSUME TypeOK, NEW u \in User, NEW now \in Nat, RecordPasswordFailure(u, now)
    PROVE  users' \in [User -> Account] /\ sessions' \in [SessionId -> Session]
  <1>1. CountFailure(users[u], now) \in Account
    BY AccountWritesType DEF TypeOK
  <1>2. QED
    BY <1>1, RevokeUserType DEF TypeOK, RecordPasswordFailure

(* Inserting the first row of a family keeps the tables' types.              *)
LEMMA OpenFamilyType ==
    ASSUME NEW table \in [SessionId -> Session], NEW u \in User, NEW s \in SessionId,
           NEW now \in Nat, NEW password \in Nat,
           credential \in [SessionId -> Nat],
           OpenFamily(table, u, s, now, password)
    PROVE  sessions' \in [SessionId -> Session] /\ credential' \in [SessionId -> Nat]
  <1>1. NewSession(u, s, now, now + AbsoluteTTL, now) \in Session
    BY NewSessionType, TimingAssumption
  <1>2. QED
    BY <1>1 DEF OpenFamily

-----------------------------------------------------------------------------
(* Type correctness: no handler stores a value outside its column's type.    *)
THEOREM TypeCorrect == Spec => []TypeOK
  <1>1. Init => TypeOK
    <2> SUFFICES ASSUME Init PROVE TypeOK
      OBVIOUS
    <2>1. \A p, c \in BOOLEAN : NewAccount(p, c) \in Account
      BY DEF NewAccount, Account
    <2>2. users \in [User -> Account]
      BY <2>1 DEF Init
    <2>3. Absent \in Session
      BY DEF Absent, Session
    <2>4. sessions \in [SessionId -> Session] /\ credential \in [SessionId -> Nat]
      BY <2>3 DEF Init
    <2>5. revoking \in [User -> SUBSET SUBSET SessionId]
      BY DEF Init
    <2>6. QED
      BY <2>2, <2>4, <2>5 DEF Init, TypeOK
  <1>2. TypeOK /\ [Next]_vars => TypeOK'
    <2> SUFFICES ASSUME TypeOK, [Next]_vars PROVE TypeOK'
      OBVIOUS
    <2> USE DEF revocations
    <2>1. CASE Tick
      BY <2>1 DEF Tick, TypeOK
    <2>2. ASSUME NEW u \in User, UserStep(u) PROVE TypeOK'
      <3>1. ASSUME NEW now \in Nows, LoginFails(u, now) PROVE TypeOK'
        BY <3>1, RecordPasswordFailureType, NowsAreTimes DEF LoginFails, TypeOK
      <3>2. ASSUME NEW now \in Nows, NEW s \in SessionId, LoginSucceeds(u, s, now)
            PROVE TypeOK'
        <4>1. users' \in [User -> Account]
          BY <3>2, AccountWritesType, NowsAreTimes DEF LoginSucceeds, TypeOK
        <4>2. users[u].password \in Nat
          BY DEF TypeOK, Account
        <4>3. QED
          BY <3>2, <4>1, <4>2, OpenFamilyType, NowsAreTimes DEF LoginSucceeds, TypeOK
      <3>3. ASSUME NEW now \in Nows, NEW s \in SessionId, LoginWithoutPassword(u, s, now)
            PROVE TypeOK'
        <4>1. users[u].password \in Nat
          BY DEF TypeOK, Account
        <4>2. QED
          BY <3>3, <4>1, OpenFamilyType, NowsAreTimes DEF LoginWithoutPassword, TypeOK
      <3>4. CASE ResetPassword(u) \/ ResetByLink(u) \/ ActivateInvitation(u)
        <4>1. ASSUME NEW account \in Account, ReplaceAndRevoke(u, account)
              PROVE  TypeOK'
          BY <4>1, RevokeUserType DEF ReplaceAndRevoke, TypeOK
        <4>2. clock \in Nat /\ users[u] \in Account
          BY DEF TypeOK
        <4>3. QED
          BY <3>4, <4>1, <4>2, AccountWritesType
             DEF ResetPassword, ResetByLink, ActivateInvitation
      <3>5. ASSUME NEW status \in {"active", "disabled"}, UpdateStatus(u, status)
            PROVE TypeOK'
        <4>1. users' \in [User -> Account]
          BY <3>5 DEF UpdateStatus, TypeOK, Account
        <4>2. QED
          BY <3>5, <4>1, RevokeUserType DEF UpdateStatus, TypeOK
      <3>6. CASE RevokeUserSessionsBegins(u)
        BY <3>6 DEF RevokeUserSessionsBegins, RowsOfUser, Row, TypeOK
      <3>7. ASSUME NEW rows \in revoking[u], RevokeUserSessionsEnds(u, rows)
            PROVE TypeOK'
        BY <3>7, RevokeRowsType DEF RevokeUserSessionsEnds, LeftBehind, TypeOK
      <3>8. ASSUME NEW now \in Nows, NEW s \in SessionId, AutoLink(u, s, now)
            PROVE TypeOK'
        <4> DEFINE linked == DisablePassword(users[u])
        <4>1. linked \in Account /\ linked.password \in Nat
          BY AccountWritesType, NowsAreTimes DEF TypeOK, Account
        <4>2. QED
          BY <3>8, <4>1, OpenFamilyType, NowsAreTimes DEF AutoLink, TypeOK
      <3>9. QED
        BY <2>2, <3>1, <3>2, <3>3, <3>4, <3>5, <3>6, <3>7, <3>8 DEF UserStep
    <2>3. ASSUME NEW s \in SessionId, SessionStep(s) PROVE TypeOK'
      <3>1. ASSUME NEW now \in Nows, ReauthenticationFails(s, now) PROVE TypeOK'
        BY <3>1, RecordPasswordFailureType, NowsAreTimes, RowOwner
           DEF ReauthenticationFails, ValidPrincipal, TypeOK
      <3>2. ASSUME NEW now \in Nows, ReauthenticationSucceeds(s, now) PROVE TypeOK'
        BY <3>2, AccountWritesType, NowsAreTimes, RowOwner
           DEF ReauthenticationSucceeds, ValidPrincipal, TypeOK
      <3>3. ASSUME NEW now \in Nows, NEW csrfMatches \in BOOLEAN,
                   RefreshEndsFamily(s, now, csrfMatches)
            PROVE TypeOK'
        BY <3>3, RevokeFamilyType DEF RefreshEndsFamily, Present, TypeOK
      <3>4. ASSUME NEW now \in Nows, NEW n \in SessionId, RefreshRotates(s, n, now)
            PROVE TypeOK'
        <4> DEFINE row == sessions[s]
                   new == NewSession(row.user, row.family, now, row.absolute,
                                     row.authenticated)
        <4>1. s \in Row /\ row \in Session /\ row.user \in User
          BY <3>4, RowOwner DEF RefreshRotates, TypeOK
        <4>2. new \in Session
          BY <4>1, NowsAreTimes, TimingAssumption DEF NewSession, Absent, Session
        <4>3. [row EXCEPT !.used = TRUE, !.replacedBy = n] \in Session
          BY <4>1 DEF Session
        <4>4. sessions' \in [SessionId -> Session]
          BY <3>4, <4>2, <4>3 DEF RefreshRotates, Rotate, TypeOK
        <4>5. credential' \in [SessionId -> Nat]
          BY <3>4 DEF RefreshRotates, TypeOK
        <4>6. replayed' \subseteq SessionId
          BY <3>4 DEF RefreshRotates, Present, TypeOK
        <4>7. QED
          BY <3>4, <4>4, <4>5, <4>6 DEF RefreshRotates, TypeOK
      <3>5. ASSUME NEW now \in Nows, NEW n \in SessionId, ChangePassword(s, n, now)
            PROVE TypeOK'
        <4> DEFINE u == sessions[s].user
                   changed == ActivatePassword(users[u])
        <4>1. u \in User /\ changed \in Account /\ changed.password \in Nat
          BY <3>5, RowOwner, AccountWritesType, NowsAreTimes
             DEF ChangePassword, ValidPrincipal, TypeOK, Account
        <4>2. QED
          BY <3>5, <4>1, OpenFamilyType, RevokeUserType, NowsAreTimes
             DEF ChangePassword, TypeOK
      <3>6. CASE Logout(s)
        BY <3>6, RevokeFamilyType DEF Logout, TypeOK
      <3>7. CASE RefreshRefused(s)
        BY <3>7 DEF RefreshRefused, Present, TypeOK
      <3>8. QED
        BY <2>3, <3>1, <3>2, <3>3, <3>4, <3>5, <3>6, <3>7 DEF SessionStep
    <2>4. CASE UNCHANGED vars
      BY <2>4 DEF vars, TypeOK
    <2>5. QED
      BY <2>1, <2>2, <2>3, <2>4 DEF Next
  <1>3. QED
    BY <1>1, <1>2, PTL DEF Spec

-----------------------------------------------------------------------------
(* Revoking a family revokes its rows and changes nothing else of any row.   *)
LEMMA RevokeFamilyRow ==
    ASSUME NEW table \in [SessionId -> Session], NEW f, NEW s \in SessionId
    PROVE  /\ RevokeFamily(table, f)[s].user = table[s].user
           /\ RevokeFamily(table, f)[s].family = table[s].family
           /\ RevokeFamily(table, f)[s].revoked
                <=> table[s].revoked \/ table[s].family = f
  BY DEF RevokeFamily, Session

(* Revoking an account's sessions revokes its rows and changes nothing else. *)
LEMMA RevokeUserRow ==
    ASSUME NEW table \in [SessionId -> Session], NEW u, NEW s \in SessionId
    PROVE  /\ RevokeUser(table, u)[s].user = table[s].user
           /\ RevokeUser(table, u)[s].family = table[s].family
           /\ RevokeUser(table, u)[s].revoked
                <=> table[s].revoked \/ table[s].user = u
  BY DEF RevokeUser, Session

(* Revoking the rows of a snapshot changes nothing else of any row.          *)
LEMMA RevokeRowsRow ==
    ASSUME NEW table \in [SessionId -> Session], NEW rows, NEW s \in SessionId
    PROVE  /\ RevokeRows(table, rows)[s].user = table[s].user
           /\ RevokeRows(table, rows)[s].family = table[s].family
           /\ RevokeRows(table, rows)[s].revoked = (table[s].revoked \/ s \in rows)
  BY DEF RevokeRows, Session

(* A family is opened by one new row; the others keep what they say.         *)
LEMMA OpenFamilyRow ==
    ASSUME NEW table \in [SessionId -> Session], NEW u \in User, NEW n \in SessionId,
           NEW now \in Nat, NEW password \in Nat,
           credential \in [SessionId -> Nat],
           OpenFamily(table, u, n, now, password), NEW s \in SessionId
    PROVE  /\ s # n => sessions'[s] = table[s] /\ credential'[s] = credential[s]
           /\ s = n => /\ sessions'[s].user = u
                       /\ sessions'[s].family = n
                       /\ ~sessions'[s].revoked
                       /\ credential'[s] = password
  BY DEF OpenFamily, NewSession

(* Rotation keeps owner, family and revocation of every row, and gives the   *)
(* successor those of the row it replaces.                                   *)
LEMMA RotateRow ==
    ASSUME TypeOK, NEW p \in SessionId, NEW n \in SessionId, NEW now, p # n,
           NEW s \in SessionId
    PROVE  LET row == Rotate(p, n, now)[s]
           IN  /\ s \notin {p, n} => row = sessions[s]
               /\ s = p => /\ row.user = sessions[p].user
                           /\ row.family = sessions[p].family
                           /\ row.revoked = sessions[p].revoked
               /\ s = n => /\ row.user = sessions[p].user
                           /\ row.family = sessions[p].family
                           /\ ~row.revoked
  BY DEF Rotate, NewSession, TypeOK, Session

-----------------------------------------------------------------------------
(* Families are revoked whole, the torn ones apart.  The strengthening: a    *)
(* family is named after one of its rows and has that row's owner            *)
(* (FamilyIsRooted); so an account owns all of a family or none of it, and a *)
(* new row's name is the family of no other row.                             *)

RowsOf(table) == {s \in SessionId : table[s].user # NoUser}

Rooted(table) ==
    \A s \in RowsOf(table) :
        /\ table[s].family \in RowsOf(table)
        /\ table[table[s].family].user = table[s].user

RevokedTogether(table, cut) ==
    \A s, t \in RowsOf(table) :
        table[s].family = table[t].family /\ table[s].family \notin cut
            => table[s].revoked = table[t].revoked

FamilyOK(table, cut) == Rooted(table) /\ RevokedTogether(table, cut)

(* Revoking an account's sessions does not cut a family in two: families have *)
(* one owner.                                                                *)
LEMMA RevokeUserKeepsFamilies ==
    ASSUME NEW cut, NEW table \in [SessionId -> Session], FamilyOK(table, cut), NEW u \in User
    PROVE  FamilyOK(RevokeUser(table, u), cut)
  <1> DEFINE new == RevokeUser(table, u)
  <1>1. \A s \in SessionId :
          /\ new[s].user = table[s].user
          /\ new[s].family = table[s].family
          /\ new[s].revoked <=> table[s].revoked \/ table[s].user = u
    BY RevokeUserRow
  <1>2. new \in [SessionId -> Session]
    BY RevokeUserType
  <1>3. \A s \in SessionId : new[s].revoked \in BOOLEAN /\ table[s].revoked \in BOOLEAN
    BY <1>2 DEF Session
  <1> HIDE DEF new
  <1>4. RowsOf(new) = RowsOf(table)
    BY <1>1 DEF RowsOf
  <1>5. Rooted(new)
    BY <1>1, <1>4 DEF FamilyOK, Rooted, RowsOf
  <1>6. RevokedTogether(new, cut)
    <2> SUFFICES ASSUME NEW s \in RowsOf(table), NEW t \in RowsOf(table),
                        table[s].family = table[t].family,
                        table[s].family \notin cut
                 PROVE  new[s].revoked = new[t].revoked
      BY <1>1, <1>4 DEF RevokedTogether, RowsOf
    <2>1. table[s].user = table[t].user
      BY DEF FamilyOK, Rooted
    <2>2. table[s].revoked = table[t].revoked
      BY DEF FamilyOK, RevokedTogether
    <2>3. s \in SessionId /\ t \in SessionId
      BY DEF RowsOf
    <2>4. QED
      BY <1>1, <1>3, <2>1, <2>2, <2>3
  <1>7. QED
    BY <1>5, <1>6 DEF FamilyOK, new

(* Revoking a family revokes all of it.                                      *)
LEMMA RevokeFamilyKeepsFamilies ==
    ASSUME NEW cut, NEW table \in [SessionId -> Session], FamilyOK(table, cut), NEW f
    PROVE  FamilyOK(RevokeFamily(table, f), cut)
  <1> DEFINE new == RevokeFamily(table, f)
  <1>1. \A s \in SessionId :
          /\ new[s].user = table[s].user
          /\ new[s].family = table[s].family
          /\ new[s].revoked <=> table[s].revoked \/ table[s].family = f
    BY RevokeFamilyRow
  <1>2. new \in [SessionId -> Session]
    BY RevokeFamilyType
  <1>3. \A s \in SessionId : new[s].revoked \in BOOLEAN /\ table[s].revoked \in BOOLEAN
    BY <1>2 DEF Session
  <1> HIDE DEF new
  <1>4. RowsOf(new) = RowsOf(table)
    BY <1>1 DEF RowsOf
  <1>5. Rooted(new)
    BY <1>1, <1>4 DEF FamilyOK, Rooted, RowsOf
  <1>6. RevokedTogether(new, cut)
    <2> SUFFICES ASSUME NEW s \in RowsOf(table), NEW t \in RowsOf(table),
                        table[s].family = table[t].family,
                        table[s].family \notin cut
                 PROVE  new[s].revoked = new[t].revoked
      BY <1>1, <1>4 DEF RevokedTogether, RowsOf
    <2>1. table[s].revoked = table[t].revoked
      BY DEF FamilyOK, RevokedTogether
    <2>2. s \in SessionId /\ t \in SessionId
      BY DEF RowsOf
    <2>3. QED
      BY <1>1, <1>3, <2>1, <2>2
  <1>7. QED
    BY <1>5, <1>6 DEF FamilyOK, new

(* One new row n that starts its own family.                                 *)
LEMMA OpeningKeepsFamilies ==
    ASSUME NEW cut, NEW table \in [SessionId -> Session], FamilyOK(table, cut),
           NEW n \in SessionId, n \notin RowsOf(table), NEW u \in User,
           NEW row, row.user = u, row.family = n
    PROVE  FamilyOK([table EXCEPT ![n] = row], cut)
  <1> DEFINE new == [table EXCEPT ![n] = row]
  <1>1. \A s \in SessionId : s # n => new[s] = table[s]
    OBVIOUS
  <1>2. new[n] = row
    OBVIOUS
  <1> HIDE DEF new
  <1>3. RowsOf(new) = RowsOf(table) \cup {n}
    BY <1>1, <1>2, SentinelAssumption DEF RowsOf
  <1>4. \A s \in RowsOf(table) : s # n /\ table[s].family # n
    BY DEF FamilyOK, Rooted
  <1>5. RowsOf(table) \subseteq SessionId
    BY DEF RowsOf
  <1>6. Rooted(new)
    BY <1>1, <1>2, <1>3, <1>4, <1>5 DEF FamilyOK, Rooted
  <1>7. RevokedTogether(new, cut)
    BY <1>1, <1>2, <1>3, <1>4, <1>5 DEF FamilyOK, RevokedTogether
  <1>8. QED
    BY <1>6, <1>7 DEF FamilyOK, new

(* Rotation: a new row n of an unrevoked row p's family.                     *)
LEMMA RotationKeepsFamilies ==
    ASSUME TypeOK, FamilyOK(sessions, torn), NEW p \in Row, ~sessions[p].revoked,
           NEW n \in Fresh, NEW now
    PROVE  FamilyOK(Rotate(p, n, now), torn)
  <1> DEFINE new == Rotate(p, n, now)
  <1>1. p \in SessionId /\ n \in SessionId /\ p # n
    BY DEF Row, Fresh
  <1>2. \A s \in SessionId :
          /\ s \notin {p, n} => new[s] = sessions[s]
          /\ s = p => /\ new[s].user = sessions[p].user
                      /\ new[s].family = sessions[p].family
                      /\ new[s].revoked = sessions[p].revoked
          /\ s = n => /\ new[s].user = sessions[p].user
                      /\ new[s].family = sessions[p].family
                      /\ ~new[s].revoked
    BY <1>1, RotateRow
  <1>3. new[n].revoked = FALSE /\ new[p].revoked = FALSE /\ sessions[p].revoked = FALSE
    BY <1>1 DEF Rotate, NewSession, TypeOK, Session
  <1> HIDE DEF new
  <1>4. RowsOf(sessions) = Row /\ Row \subseteq SessionId /\ n \notin Row
    BY DEF RowsOf, Row, Fresh
  <1>5. RowsOf(new) = Row \cup {n}
    BY <1>1, <1>2, <1>4 DEF RowsOf, Row
  <1>6. Rooted(new)
    <2> SUFFICES ASSUME NEW s \in Row \cup {n}
                 PROVE  /\ new[s].family \in Row
                        /\ new[new[s].family].user = new[s].user
      BY <1>5 DEF Rooted
    <2>1. \A r \in Row : new[r].user = sessions[r].user /\ new[r].family = sessions[r].family
      BY <1>2, <1>4
    <2>2. \A r \in Row : sessions[r].family \in Row
                          /\ sessions[sessions[r].family].user = sessions[r].user
      BY <1>4 DEF FamilyOK, Rooted
    <2>3. QED
      BY <1>1, <1>2, <1>4, <2>1, <2>2
  <1>7. RevokedTogether(new, torn)
    <2>1. \A r \in Row : new[r].revoked = sessions[r].revoked
      BY <1>2, <1>3, <1>4
    <2>2. \A r \in Row : new[r].family = sessions[r].family
      BY <1>2, <1>4
    <2>3. \A r, t \in Row : sessions[r].family = sessions[t].family
                                /\ sessions[r].family \notin torn
                             => sessions[r].revoked = sessions[t].revoked
      BY <1>4 DEF FamilyOK, RevokedTogether
    <2>4. new[n].family = sessions[p].family
      BY <1>1, <1>2
    <2>5. \A r \in Row : sessions[r].family = sessions[p].family
                            /\ sessions[p].family \notin torn
                         => new[r].revoked = FALSE
      BY <1>3, <2>1, <2>3
    <2> SUFFICES ASSUME NEW s \in Row \cup {n}, NEW t \in Row \cup {n},
                        new[s].family = new[t].family, new[s].family \notin torn
                 PROVE  new[s].revoked = new[t].revoked
      BY <1>5 DEF RevokedTogether
    <2>6. CASE s \in Row /\ t \in Row
      BY <2>6, <2>1, <2>2, <2>3
    <2>7. CASE s = n \/ t = n
      BY <2>7, <1>3, <2>2, <2>4, <2>5
    <2>8. QED
      BY <2>6, <2>7
  <1>8. QED
    BY <1>6, <1>7 DEF FamilyOK, new

(* The rows of a snapshot may be a part of a family: then it is torn.        *)
LEMMA RevokeRowsTears ==
    ASSUME TypeOK, FamilyOK(sessions, torn), NEW rows \in SUBSET SessionId
    PROVE  FamilyOK(RevokeRows(sessions, rows), torn \cup LeftBehind(rows))
  <1> DEFINE new == RevokeRows(sessions, rows)
  <1>1. \A s \in SessionId :
          /\ new[s].user = sessions[s].user
          /\ new[s].family = sessions[s].family
          /\ new[s].revoked = (sessions[s].revoked \/ s \in rows)
    BY RevokeRowsRow DEF TypeOK
  <1> HIDE DEF new
  <1>2. RowsOf(new) = Row /\ RowsOf(sessions) = Row /\ Row \subseteq SessionId
    BY <1>1 DEF RowsOf, Row
  <1>3. Rooted(new)
    BY <1>1, <1>2 DEF FamilyOK, Rooted
  <1>4. RevokedTogether(new, torn \cup LeftBehind(rows))
    <2> SUFFICES ASSUME NEW s \in Row, NEW t \in Row,
                        sessions[s].family = sessions[t].family,
                        sessions[s].family \notin torn \cup LeftBehind(rows)
                 PROVE  new[s].revoked = new[t].revoked
      BY <1>1, <1>2 DEF RevokedTogether
    <2>1. sessions[s].revoked = sessions[t].revoked
      BY <1>2 DEF FamilyOK, RevokedTogether
    <2>2. sessions[s].family \in SessionId
      BY <1>2 DEF FamilyOK, Rooted
    <2>3. s \in rows => t \in rows \/ sessions[t].revoked
      BY <2>2 DEF LeftBehind
    <2>4. t \in rows => s \in rows \/ sessions[s].revoked
      BY <2>2 DEF LeftBehind
    <2>5. s \in SessionId /\ t \in SessionId
      BY <1>2
    <2>6. QED
      BY <1>1, <2>1, <2>3, <2>4, <2>5
  <1>5. QED
    BY <1>3, <1>4 DEF FamilyOK, new

(* The empty table has no family to torn.                                     *)
LEMMA FamiliesInitially == Init => FamilyOK(sessions, torn)
  BY DEF Init, Absent, FamilyOK, Rooted, RevokedTogether, RowsOf

(* No step cuts a family in two: one case per handler.                       *)
LEMMA FamiliesKept ==
    ASSUME TypeOK, FamilyOK(sessions, torn), [Next]_vars
    PROVE  FamilyOK(sessions', torn')
  <1> USE DEF revocations
  <1>1. \A u \in User : FamilyOK(RevokeUser(sessions, u), torn)
    BY RevokeUserKeepsFamilies DEF TypeOK
  <1>2. \A f : FamilyOK(RevokeFamily(sessions, f), torn)
    BY RevokeFamilyKeepsFamilies DEF TypeOK
  <1>3. \A s \in Row : sessions[s].user \in User
    BY RowOwner
  <1>4. ASSUME NEW table \in [SessionId -> Session], FamilyOK(table, torn),
               RowsOf(table) = Row, NEW u \in User, NEW s \in SessionId,
               NEW now, NEW password, OpenFamily(table, u, s, now, password),
               UNCHANGED torn
        PROVE  FamilyOK(sessions', torn')
    <2> DEFINE row == NewSession(u, s, now, now + AbsoluteTTL, now)
    <2>1. row.user = u /\ row.family = s
      BY DEF NewSession
    <2>2. s \notin RowsOf(table) /\ sessions' = [table EXCEPT ![s] = row]
      BY <1>4 DEF OpenFamily, Fresh
    <2> HIDE DEF row
    <2>3. QED
      BY <1>4, <2>1, <2>2, OpeningKeepsFamilies
  <1>5. RowsOf(sessions) = Row
    BY DEF RowsOf, Row
  <1>6. CASE Tick
    BY <1>6 DEF Tick
  <1>7. ASSUME NEW u \in User, UserStep(u) PROVE FamilyOK(sessions', torn')
    <2>1. ASSUME NEW now \in Nows, LoginFails(u, now) PROVE FamilyOK(sessions', torn')
      BY <2>1, <1>1 DEF LoginFails, RecordPasswordFailure
    <2>2. ASSUME NEW now \in Nows, NEW s \in SessionId,
                 \/ LoginSucceeds(u, s, now) \/ LoginWithoutPassword(u, s, now)
                 \/ AutoLink(u, s, now)
          PROVE  FamilyOK(sessions', torn')
      BY <2>2, <1>4, <1>5 DEF LoginSucceeds, LoginWithoutPassword, AutoLink, TypeOK
    <2>3. CASE ResetPassword(u) \/ ResetByLink(u) \/ ActivateInvitation(u)
      BY <2>3, <1>1 DEF ResetPassword, ResetByLink, ActivateInvitation, ReplaceAndRevoke
    <2>4. ASSUME NEW status \in {"active", "disabled"}, UpdateStatus(u, status)
          PROVE  FamilyOK(sessions', torn')
      BY <2>4, <1>1 DEF UpdateStatus
    <2>5. CASE RevokeUserSessionsBegins(u)
      BY <2>5 DEF RevokeUserSessionsBegins
    <2>6. ASSUME NEW rows \in revoking[u], RevokeUserSessionsEnds(u, rows)
          PROVE  FamilyOK(sessions', torn')
      <3>1. rows \in SUBSET SessionId
        BY DEF TypeOK
      <3>2. QED
        BY <2>6, <3>1, RevokeRowsTears DEF RevokeUserSessionsEnds
    <2>7. QED
      BY <1>7, <2>1, <2>2, <2>3, <2>4, <2>5, <2>6 DEF UserStep
  <1>8. ASSUME NEW s \in SessionId, SessionStep(s) PROVE FamilyOK(sessions', torn')
    <2>1. ASSUME NEW now \in Nows, ReauthenticationFails(s, now)
          PROVE  FamilyOK(sessions', torn')
      BY <2>1, <1>1, <1>3 DEF ReauthenticationFails, RecordPasswordFailure, ValidPrincipal
    <2>2. ASSUME NEW now \in Nows, ReauthenticationSucceeds(s, now)
          PROVE  FamilyOK(sessions', torn')
      BY <2>2 DEF ReauthenticationSucceeds
    <2>3. ASSUME NEW now \in Nows, NEW csrfMatches \in BOOLEAN,
                 RefreshEndsFamily(s, now, csrfMatches)
          PROVE  FamilyOK(sessions', torn')
      BY <2>3, <1>2 DEF RefreshEndsFamily
    <2>4. ASSUME NEW now \in Nows, NEW n \in SessionId, RefreshRotates(s, n, now)
          PROVE  FamilyOK(sessions', torn')
      BY <2>4, RotationKeepsFamilies DEF RefreshRotates
    <2>5. ASSUME NEW now \in Nows, NEW n \in SessionId, ChangePassword(s, n, now)
          PROVE  FamilyOK(sessions', torn')
      <3> DEFINE u == sessions[s].user
                 table == RevokeUser(sessions, u)
      <3>1. u \in User
        BY <2>5, <1>3 DEF ChangePassword, ValidPrincipal
      <3>2. table \in [SessionId -> Session] /\ FamilyOK(table, torn)
        BY <3>1, <1>1, RevokeUserType DEF TypeOK
      <3>3. RowsOf(table) = Row
        BY RevokeUserRow DEF RowsOf, Row, TypeOK
      <3>4. /\ OpenFamily(table, u, n, now, ActivatePassword(users[u]).password)
            /\ UNCHANGED torn
        BY <2>5 DEF ChangePassword
      <3> HIDE DEF table, u
      <3>5. QED
        BY <3>1, <3>2, <3>3, <3>4, <1>4
    <2>6. CASE Logout(s)
      BY <2>6, <1>2 DEF Logout
    <2>7. CASE RefreshRefused(s)
      BY <2>7 DEF RefreshRefused
    <2>8. QED
      BY <1>8, <2>1, <2>2, <2>3, <2>4, <2>5, <2>6, <2>7 DEF SessionStep
  <1>9. CASE UNCHANGED vars
    BY <1>9 DEF vars
  <1>10. QED
    BY <1>6, <1>7, <1>8, <1>9 DEF Next

(* The strengthening holds in every reachable state.                         *)
LEMMA FamiliesAlways == Spec => []FamilyOK(sessions, torn)
  <1>1. Init => FamilyOK(sessions, torn)
    BY FamiliesInitially
  <1>2. TypeOK /\ FamilyOK(sessions, torn) /\ [Next]_vars => FamilyOK(sessions, torn)'
    <2> SUFFICES ASSUME TypeOK, FamilyOK(sessions, torn), [Next]_vars
                 PROVE  FamilyOK(sessions', torn')
      BY DEF FamilyOK, Rooted, RevokedTogether, RowsOf
    <2>1. QED
      BY FamiliesKept
  <1>3. QED
    BY <1>1, <1>2, TypeCorrect, PTL DEF Spec

-----------------------------------------------------------------------------
(* Live sessions.  A row that is not revoked belongs to an account that may  *)
(* authenticate now and was begun under that account's password of today,    *)
(* or under the temporary one that auto-link put an unusable one in place    *)
(* of; an account is not waiting for a password change after that.           *)

BegunUnder(begun, account, linked) ==
    \/ begun = account.password
    \/ linked /\ begun + 1 = account.password

Standing(s) ==
    sessions[s].user # NoUser /\ ~sessions[s].revoked =>
        /\ CanAuthenticate(users[sessions[s].user], clock)
        /\ BegunUnder(credential[s], users[sessions[s].user],
                      sessions[s].user \in autoLinked)

StandingOK == \A s \in SessionId : Standing(s)

LinkedOK == \A u \in autoLinked : ~users[u].mustChange

(* A handler's late view of an account that could authenticate then still    *)
(* holds: a lock only ends as the clock advances.                            *)
LEMMA StillStanding ==
    ASSUME NEW account \in Account, NEW now \in Nat, NEW later \in Nat,
           now <= later, CanAuthenticate(account, now)
    PROVE  CanAuthenticate(account, later)
  BY DEF CanAuthenticate, Locked, Account

(* Clearing the failures lifts the lock and leaves the password.             *)
LEMMA ClearedStands ==
    ASSUME NEW account \in Account, NEW now \in Nat, account.status = "active"
    PROVE  /\ CanAuthenticate(ClearFailures(account), now)
           /\ ClearFailures(account).password = account.password
  BY DEF CanAuthenticate, Locked, ClearFailures, Account

(* A counted failure that does not lock leaves the account as able as it was. *)
LEMMA CountedStands ==
    ASSUME NEW account \in Account, NEW now \in Nat, NEW later \in Nat,
           account.status = "active",
           CountFailure(account, now).lockedUntil = 0
    PROVE  /\ CanAuthenticate(CountFailure(account, now), later)
           /\ CountFailure(account, now).password = account.password
  <1> DEFINE counted == CountFailure(account, now)
  <1>1. counted.status = account.status /\ counted.password = account.password
    BY DEF CountFailure, Account
  <1> HIDE DEF counted
  <1>2. QED
    BY <1>1 DEF CanAuthenticate, Locked, counted

(* Failures recorded for an account spare only sessions it may keep.         *)
LEMMA FailureKeepsStanding ==
    ASSUME TypeOK, StandingOK, NEW u \in User, NEW now \in Nat,
           RecordPasswordFailure(u, now), UNCHANGED <<clock, credential, autoLinked>>
    PROVE  StandingOK'
  <1>1. CASE UNCHANGED <<users, sessions>>
    BY <1>1 DEF StandingOK, Standing, BegunUnder, CanAuthenticate, Locked
  <1>2. ASSUME users[u].passwordLogin, CanAuthenticate(users[u], now),
               users' = [users EXCEPT ![u] = CountFailure(users[u], now)],
               sessions' = IF CountFailure(users[u], now).lockedUntil # 0
                           THEN RevokeUser(sessions, u) ELSE sessions
        PROVE  StandingOK'
    <2> SUFFICES ASSUME NEW s \in SessionId, sessions'[s].user # NoUser,
                        ~sessions'[s].revoked
                 PROVE  /\ CanAuthenticate(users'[sessions'[s].user], clock)
                        /\ BegunUnder(credential[s], users'[sessions'[s].user],
                                      sessions'[s].user \in autoLinked)
      BY DEF StandingOK, Standing, CanAuthenticate, Locked
    <2>1. /\ sessions'[s].user = sessions[s].user
          /\ ~sessions[s].revoked
          /\ sessions[s].user = u => CountFailure(users[u], now).lockedUntil = 0
      BY <1>2, RevokeUserRow DEF TypeOK
    <2>2. sessions[s].user \in User
      BY <2>1, RowOwner DEF Row
    <2>3. /\ CanAuthenticate(users[sessions[s].user], clock)
          /\ BegunUnder(credential[s], users[sessions[s].user],
                        sessions[s].user \in autoLinked)
      BY <2>1 DEF StandingOK, Standing
    <2>4. CASE sessions[s].user = u
      <3>1. users'[u] = CountFailure(users[u], now) /\ users[u] \in Account
        BY <1>2 DEF TypeOK
      <3>2. users[u].status = "active" /\ clock \in Nat
        BY <1>2 DEF CanAuthenticate, TypeOK
      <3>3. QED
        BY <2>1, <2>3, <2>4, <3>1, <3>2, CountedStands DEF BegunUnder
    <2>5. CASE sessions[s].user # u
      <3>1. users'[sessions[s].user] = users[sessions[s].user]
        BY <1>2, <2>2, <2>5 DEF TypeOK
      <3>2. QED
        BY <2>1, <2>3, <3>1 DEF BegunUnder
    <2>6. QED
      BY <2>4, <2>5
  <1>3. QED
    BY <1>1, <1>2 DEF RecordPasswordFailure

(* A new family keeps the rule when it is opened for an account that can     *)
(* authenticate, under the password it will have, and the other sessions of  *)
(* that account began under that password, or under one that auto-link has   *)
(* disabled, or are revoked in the table it is added to.                     *)
LEMMA OpeningKeepsStanding ==
    ASSUME TypeOK, StandingOK, NEW table \in [SessionId -> Session],
           NEW u \in User, NEW n \in SessionId, NEW now \in Nat,
           NEW password \in Nat, NEW account,
           OpenFamily(table, u, n, now, password),
           users' = [users EXCEPT ![u] = account],
           CanAuthenticate(account, clock), account.password = password,
           UNCHANGED clock,
           \A s \in SessionId : /\ table[s].user = sessions[s].user
                                /\ ~table[s].revoked => ~sessions[s].revoked,
           \A v \in autoLinked : v # u => v \in autoLinked',
           \A s \in SessionId : table[s].user = u /\ ~table[s].revoked =>
               BegunUnder(credential[s], account, u \in autoLinked')
    PROVE  StandingOK'
  <1> SUFFICES ASSUME NEW s \in SessionId, sessions'[s].user # NoUser,
                      ~sessions'[s].revoked
               PROVE  /\ CanAuthenticate(users'[sessions'[s].user], clock)
                      /\ BegunUnder(credential'[s], users'[sessions'[s].user],
                                    sessions'[s].user \in autoLinked')
    BY DEF StandingOK, Standing, CanAuthenticate, Locked
  <1>1. users'[u] = account
    BY DEF TypeOK
  <1>2. CASE s = n
    <2>1. sessions'[s].user = u /\ credential'[s] = password
      <3>1. credential \in [SessionId -> Nat]
        BY DEF TypeOK
      <3>2. QED
        BY <1>2, <3>1, OpenFamilyRow
    <2>2. QED
      BY <1>1, <2>1 DEF BegunUnder
  <1>3. CASE s # n
    <2>1. sessions'[s] = table[s] /\ credential'[s] = credential[s]
      <3>1. credential \in [SessionId -> Nat]
        BY DEF TypeOK
      <3>2. QED
        BY <1>3, <3>1 DEF OpenFamily
    <2>2. sessions[s].user = sessions'[s].user /\ ~sessions[s].revoked
      BY <2>1
    <2>3. /\ CanAuthenticate(users[sessions[s].user], clock)
          /\ BegunUnder(credential[s], users[sessions[s].user],
                        sessions[s].user \in autoLinked)
      BY <2>2 DEF StandingOK, Standing
    <2>4. CASE sessions[s].user = u
      BY <1>1, <2>1, <2>2, <2>4
    <2>5. CASE sessions[s].user # u
      <3>1. sessions[s].user \in User
        BY <2>2, RowOwner DEF Row
      <3>2. users'[sessions[s].user] = users[sessions[s].user]
        BY <2>5, <3>1 DEF TypeOK
      <3>3. QED
        BY <2>1, <2>2, <2>3, <2>5, <3>2 DEF BegunUnder
    <2>6. QED
      BY <2>4, <2>5
  <1>4. QED
    BY <1>2, <1>3

(* No step leaves a live session without standing: one case per handler.     *)
LEMMA StandingKept ==
    ASSUME TypeOK, StandingOK, LinkedOK, [Next]_vars
    PROVE  StandingOK'
  <1>0. \A u \in User, s \in SessionId : sessions[s].user = u /\ ~sessions[s].revoked =>
           BegunUnder(credential[s], users[u], u \in autoLinked)
    BY SentinelAssumption DEF StandingOK, Standing
  <1> USE DEF StandingOK, Standing, BegunUnder, revocations
  <1>1. clock \in Nat /\ \A now \in Nows : now \in Nat /\ now <= clock
    BY NowsAreTimes DEF TypeOK
  <1>2. \A s \in SessionId : sessions[s].user # NoUser => sessions[s].user \in User
    BY RowOwner DEF Row
  <1>3. ASSUME sessions' \in [SessionId -> Session],
               UNCHANGED <<clock, users, credential, autoLinked>>,
               \A s \in SessionId : /\ sessions'[s].user = sessions[s].user
                                    /\ ~sessions'[s].revoked => ~sessions[s].revoked
        PROVE  StandingOK'
    BY <1>3 DEF CanAuthenticate, Locked
  <1>4. CASE Tick
    <2>1. clock' \in Nat /\ clock <= clock'
      BY <1>1, <1>4 DEF Tick
    <2>2. \A u \in User : CanAuthenticate(users[u], clock)
                           => CanAuthenticate(users[u], clock')
      BY <1>1, <2>1, StillStanding DEF TypeOK
    <2>3. UNCHANGED <<users, sessions, credential, autoLinked>>
      BY <1>4 DEF Tick
    <2>4. QED
      BY <1>2, <2>2, <2>3 DEF CanAuthenticate, Locked
  <1>5. ASSUME NEW u \in User, UserStep(u) PROVE StandingOK'
    <2>1. ASSUME NEW now \in Nows, LoginFails(u, now) PROVE StandingOK'
      BY <1>1, <2>1, FailureKeepsStanding DEF LoginFails
    <2>2. ASSUME NEW now \in Nows, NEW s \in SessionId, LoginSucceeds(u, s, now)
          PROVE  StandingOK'
      <3>1. users[u] \in Account /\ users[u].password \in Nat
        BY DEF TypeOK, Account
      <3>2. /\ CanAuthenticate(ClearFailures(users[u]), clock)
            /\ ClearFailures(users[u]).password = users[u].password
        BY <1>1, <2>2, <3>1, ClearedStands DEF LoginSucceeds, CanAuthenticate
      <3> DEFINE account == ClearFailures(users[u])
      <3>3. /\ users' = [users EXCEPT ![u] = account]
            /\ OpenFamily(sessions, u, s, now, users[u].password)
            /\ UNCHANGED <<clock, autoLinked>>
        BY <2>2 DEF LoginSucceeds
      <3>4. \A r \in SessionId : sessions[r].user = u /\ ~sessions[r].revoked =>
               BegunUnder(credential[r], account, u \in autoLinked')
        BY <1>0, <3>2, <3>3
      <3>5. now \in Nat /\ sessions \in [SessionId -> Session]
        BY <1>1 DEF TypeOK
      <3> HIDE DEF account, StandingOK, Standing, BegunUnder
      <3>6. QED
        BY <3>1, <3>2, <3>3, <3>4, <3>5, OpeningKeepsStanding DEF account
    <2>3. ASSUME NEW now \in Nows, NEW s \in SessionId, LoginWithoutPassword(u, s, now)
          PROVE  StandingOK'
      <3>1. users[u] \in Account /\ users[u].password \in Nat
        BY DEF TypeOK, Account
      <3>2. CanAuthenticate(users[u], clock)
        BY <1>1, <2>3, <3>1, StillStanding DEF LoginWithoutPassword
      <3>3. users' = [users EXCEPT ![u] = users[u]]
        BY <2>3 DEF LoginWithoutPassword, TypeOK
      <3>4. /\ OpenFamily(sessions, u, s, now, users[u].password)
            /\ UNCHANGED <<clock, autoLinked>>
        BY <2>3 DEF LoginWithoutPassword
      <3>5. \A r \in SessionId : sessions[r].user = u /\ ~sessions[r].revoked =>
               BegunUnder(credential[r], users[u], u \in autoLinked')
        BY <1>0, <3>4
      <3>6. now \in Nat /\ sessions \in [SessionId -> Session]
        BY <1>1 DEF TypeOK
      <3> HIDE DEF StandingOK, Standing, BegunUnder
      <3>7. QED
        BY <3>1, <3>2, <3>3, <3>4, <3>5, <3>6, OpeningKeepsStanding
    <2>4. CASE ResetPassword(u) \/ ResetByLink(u) \/ ActivateInvitation(u)
      <3> PICK account : ReplaceAndRevoke(u, account)
        BY <2>4 DEF ResetPassword, ResetByLink, ActivateInvitation
      <3>1. \A v \in User \ {u} : /\ users'[v] = users[v]
                                  /\ v \in autoLinked => v \in autoLinked'
        BY DEF ReplaceAndRevoke, TypeOK
      <3>2. \A s \in SessionId :
               /\ sessions'[s].user = sessions[s].user
               /\ ~sessions'[s].revoked => ~sessions[s].revoked /\ sessions[s].user # u
        BY RevokeUserRow DEF ReplaceAndRevoke, TypeOK
      <3>3. UNCHANGED <<clock, credential>>
        BY DEF ReplaceAndRevoke
      <3>4. QED
        BY <1>2, <3>1, <3>2, <3>3 DEF CanAuthenticate, Locked
    <2>5. ASSUME NEW status \in {"active", "disabled"}, UpdateStatus(u, status)
          PROVE  StandingOK'
      <3>1. /\ \A v \in User \ {u} : users'[v] = users[v]
            /\ users'[u] = [users[u] EXCEPT !.status = status]
        BY <2>5 DEF UpdateStatus, TypeOK
      <3>2. CASE status = "disabled"
        <4>1. \A s \in SessionId :
                 /\ sessions'[s].user = sessions[s].user
                 /\ ~sessions'[s].revoked => ~sessions[s].revoked
                                             /\ sessions[s].user # u
          BY <2>5, <3>2, RevokeUserRow DEF UpdateStatus, TypeOK
        <4>2. QED
          BY <1>2, <2>5, <3>1, <4>1 DEF UpdateStatus, CanAuthenticate, Locked
      <3>3. CASE status = "active"
        <4>1. /\ users'[u].status = "active"
              /\ users'[u].lockedUntil = users[u].lockedUntil
              /\ users'[u].password = users[u].password
          BY <3>1, <3>3 DEF TypeOK, Account
        <4>2. QED
          BY <1>2, <2>5, <3>1, <3>3, <4>1 DEF UpdateStatus, CanAuthenticate, Locked
      <3>4. QED
        BY <3>2, <3>3
    <2>6. CASE RevokeUserSessionsBegins(u)
      BY <2>6 DEF RevokeUserSessionsBegins, CanAuthenticate, Locked
    <2>7. ASSUME NEW rows \in revoking[u], RevokeUserSessionsEnds(u, rows)
          PROVE  StandingOK'
      <3>1. /\ sessions' = RevokeRows(sessions, rows)
            /\ UNCHANGED <<clock, users, credential, autoLinked>>
        BY <2>7 DEF RevokeUserSessionsEnds
      <3>2. sessions' \in [SessionId -> Session]
        BY <3>1, RevokeRowsType DEF TypeOK
      <3>3. \A s \in SessionId : /\ sessions'[s].user = sessions[s].user
                                 /\ sessions'[s].revoked = (sessions[s].revoked \/ s \in rows)
        BY <3>1, RevokeRowsRow DEF TypeOK
      <3> HIDE DEF StandingOK, Standing, BegunUnder
      <3>4. QED
        BY <1>3, <3>1, <3>2, <3>3
    <2>8. ASSUME NEW now \in Nows, NEW s \in SessionId, AutoLink(u, s, now)
          PROVE  StandingOK'
      <3> DEFINE linked == DisablePassword(users[u])
      <3>1. users[u] \in Account /\ users[u].status = "active" /\ u \notin autoLinked
        BY <2>8 DEF AutoLink, CanAuthenticate, LinkedOK, TypeOK
      <3>2. linked \in Account /\ linked.password \in Nat
        BY <1>1, <3>1, AccountWritesType DEF Account
      <3>3. /\ CanAuthenticate(linked, clock)
            /\ linked.password = users[u].password + 1
        <4>1. /\ linked.status = "active" /\ linked.lockedUntil = 0
              /\ linked.password = users[u].password + 1
          BY <3>1 DEF DisablePassword, ReplacePassword, ClearFailures, Account
        <4>2. QED
          BY <1>1, <4>1 DEF CanAuthenticate, Locked
      <3>4. /\ users' = [users EXCEPT ![u] = linked]
            /\ OpenFamily(sessions, u, s, now, linked.password)
            /\ autoLinked' = autoLinked \cup {u} /\ UNCHANGED clock
        BY <2>8 DEF AutoLink
      <3>5. \A r \in SessionId : sessions[r].user = u /\ ~sessions[r].revoked =>
               BegunUnder(credential[r], linked, u \in autoLinked')
        BY <1>0, <3>1, <3>3, <3>4
      <3>6. now \in Nat /\ sessions \in [SessionId -> Session]
        BY <1>1 DEF TypeOK
      <3> HIDE DEF linked, StandingOK, Standing, BegunUnder
      <3>7. QED
        BY <3>2, <3>3, <3>4, <3>5, <3>6, OpeningKeepsStanding
    <2>9. QED
      BY <1>5, <2>1, <2>2, <2>3, <2>4, <2>5, <2>6, <2>7, <2>8 DEF UserStep
  <1>6. ASSUME NEW s \in SessionId, SessionStep(s) PROVE StandingOK'
    <2>1. ASSUME NEW now \in Nows, ReauthenticationFails(s, now) PROVE StandingOK'
      BY <1>1, <2>1, RowOwner, FailureKeepsStanding
         DEF ReauthenticationFails, ValidPrincipal
    <2>2. ASSUME NEW now \in Nows, ReauthenticationSucceeds(s, now) PROVE StandingOK'
      <3> DEFINE u == sessions[s].user
      <3>1. u \in User /\ users[u] \in Account /\ users[u].status = "active"
        BY <2>2, RowOwner
           DEF ReauthenticationSucceeds, ValidPrincipal, CanAuthenticate, TypeOK
      <3>2. /\ users'[u] = ClearFailures(users[u])
            /\ \A v \in User \ {u} : users'[v] = users[v]
        BY <2>2, <3>1 DEF ReauthenticationSucceeds, TypeOK
      <3>3. CanAuthenticate(users'[u], clock) /\ users'[u].password = users[u].password
        BY <1>1, <3>1, <3>2, ClearedStands
      <3>4. UNCHANGED <<clock, sessions, credential, autoLinked>>
        BY <2>2 DEF ReauthenticationSucceeds
      <3> HIDE DEF u
      <3>5. QED
        BY <1>2, <3>2, <3>3, <3>4 DEF CanAuthenticate, Locked
    <2>3. ASSUME NEW now \in Nows, NEW csrfMatches \in BOOLEAN,
                 RefreshEndsFamily(s, now, csrfMatches)
          PROVE  StandingOK'
      BY <1>3, <2>3, RevokeFamilyRow, RevokeFamilyType DEF RefreshEndsFamily, TypeOK
    <2>4. ASSUME NEW now \in Nows, NEW n \in SessionId, RefreshRotates(s, n, now)
          PROVE  StandingOK'
      <3>1. s # n /\ sessions[s].user # NoUser /\ ~sessions[s].revoked
        BY <2>4 DEF RefreshRotates, Row, Fresh
      <3>2. \A r \in SessionId :
               /\ r \notin {s, n} => sessions'[r] = sessions[r]
               /\ r = s => /\ sessions'[r].user = sessions[s].user
                           /\ sessions'[r].revoked = sessions[s].revoked
               /\ r = n => sessions'[r].user = sessions[s].user
        BY <2>4, <3>1, RotateRow DEF RefreshRotates
      <3>3. /\ credential' = [credential EXCEPT ![n] = credential[s]]
            /\ UNCHANGED <<clock, users, autoLinked>>
        BY <2>4 DEF RefreshRotates
      <3>4. \A r \in SessionId : credential'[r] = IF r = n THEN credential[s]
                                                          ELSE credential[r]
        BY <3>3 DEF TypeOK
      <3>5. QED
        BY <3>1, <3>2, <3>3, <3>4 DEF CanAuthenticate, Locked
    <2>5. ASSUME NEW now \in Nows, NEW n \in SessionId, ChangePassword(s, n, now)
          PROVE  StandingOK'
      <3> DEFINE u == sessions[s].user
                 table == RevokeUser(sessions, u)
                 changed == ActivatePassword(users[u])
      <3>1. u \in User /\ users[u] \in Account /\ users[u].status = "active"
        BY <2>5, RowOwner DEF ChangePassword, ValidPrincipal, CanAuthenticate, TypeOK
      <3>2. changed \in Account /\ changed.password \in Nat
        BY <3>1, AccountWritesType DEF Account
      <3>3. CanAuthenticate(changed, clock)
        <4>1. changed.status = "active" /\ changed.lockedUntil = 0
          BY <3>1 DEF ActivatePassword, ReplacePassword, ClearFailures, Account
        <4>2. QED
          BY <1>1, <4>1 DEF CanAuthenticate, Locked
      <3>4. table \in [SessionId -> Session]
        BY RevokeUserType DEF TypeOK
      <3>5. \A r \in SessionId : /\ table[r].user = sessions[r].user
                                 /\ ~table[r].revoked => ~sessions[r].revoked
                                                         /\ table[r].user # u
        BY RevokeUserRow DEF TypeOK
      <3>6. /\ users' = [users EXCEPT ![u] = changed]
            /\ OpenFamily(table, u, n, now, changed.password)
            /\ autoLinked' = autoLinked \ {u} /\ UNCHANGED clock
        BY <2>5 DEF ChangePassword
      <3> HIDE DEF u, table, changed, StandingOK, Standing, BegunUnder
      <3>7. \A r \in SessionId : table[r].user = u /\ ~table[r].revoked =>
               BegunUnder(credential[r], changed, u \in autoLinked')
        BY <3>5
      <3>8. now \in Nat
        BY <1>1
      <3>9. /\ \A r \in SessionId : /\ table[r].user = sessions[r].user
                                    /\ ~table[r].revoked => ~sessions[r].revoked
            /\ \A v \in autoLinked : v # u => v \in autoLinked'
        BY <3>5, <3>6
      <3>10. QED
        BY <3>1, <3>2, <3>3, <3>4, <3>6, <3>7, <3>8, <3>9, OpeningKeepsStanding
    <2>6. CASE Logout(s)
      BY <1>3, <2>6, RevokeFamilyRow, RevokeFamilyType DEF Logout, TypeOK
    <2>7. CASE RefreshRefused(s)
      BY <2>7 DEF RefreshRefused, CanAuthenticate, Locked
    <2>8. QED
      BY <1>6, <2>1, <2>2, <2>3, <2>4, <2>5, <2>6, <2>7 DEF SessionStep
  <1>7. CASE UNCHANGED vars
    BY <1>7 DEF vars, CanAuthenticate, Locked
  <1>8. QED
    BY <1>4, <1>5, <1>6, <1>7 DEF Next

(* An account that auto-link has served waits for no password change until   *)
(* its password is replaced again.                                           *)
LEMMA LinkedKept ==
    ASSUME TypeOK, LinkedOK, [Next]_vars
    PROVE  LinkedOK'
  <1>1. users \in [User -> Account] /\ autoLinked \subseteq User
    BY DEF TypeOK
  <1>2. ASSUME NEW u \in User, NEW account, users' = [users EXCEPT ![u] = account],
               \/ autoLinked' = autoLinked /\ account.mustChange = users[u].mustChange
               \/ autoLinked' \subseteq autoLinked \cup {u} /\ ~account.mustChange
               \/ autoLinked' = autoLinked \ {u}
        PROVE  LinkedOK'
    BY <1>1, <1>2 DEF LinkedOK
  <1>3. ASSUME UNCHANGED <<users, autoLinked>> PROVE LinkedOK'
    BY <1>3 DEF LinkedOK
  <1>4. ASSUME NEW u \in User, NEW now
        PROVE  /\ ClearFailures(users[u]).mustChange = users[u].mustChange
               /\ CountFailure(users[u], now).mustChange = users[u].mustChange
               /\ ~ActivatePassword(users[u]).mustChange
               /\ ~DisablePassword(users[u]).mustChange
    BY <1>1 DEF ClearFailures, CountFailure, ActivatePassword, DisablePassword,
                ReplacePassword, Account
  <1>5. ASSUME NEW u \in User, NEW now, RecordPasswordFailure(u, now),
               UNCHANGED autoLinked
        PROVE  LinkedOK'
    BY <1>2, <1>3, <1>4, <1>5 DEF RecordPasswordFailure
  <1>6. ASSUME NEW u \in User, UserStep(u) PROVE LinkedOK'
    <2>1. ASSUME NEW now \in Nows, LoginFails(u, now) PROVE LinkedOK'
      BY <1>5, <2>1 DEF LoginFails
    <2>2. ASSUME NEW now \in Nows, NEW s \in SessionId, LoginSucceeds(u, s, now)
          PROVE  LinkedOK'
      BY <1>2, <1>4, <2>2 DEF LoginSucceeds
    <2>3. ASSUME NEW now \in Nows, NEW s \in SessionId, LoginWithoutPassword(u, s, now)
          PROVE  LinkedOK'
      BY <1>3, <2>3 DEF LoginWithoutPassword
    <2>4. ASSUME NEW now \in Nows, NEW s \in SessionId, AutoLink(u, s, now)
          PROVE  LinkedOK'
      BY <1>2, <1>4, <2>4 DEF AutoLink
    <2>5. CASE ResetPassword(u) \/ ResetByLink(u) \/ ActivateInvitation(u)
      BY <1>2, <2>5 DEF ResetPassword, ResetByLink, ActivateInvitation, ReplaceAndRevoke
    <2>6. ASSUME NEW status \in {"active", "disabled"}, UpdateStatus(u, status)
          PROVE  LinkedOK'
      <3>1. [users[u] EXCEPT !.status = status].mustChange = users[u].mustChange
        BY <1>1 DEF Account
      <3>2. QED
        BY <1>2, <2>6, <3>1 DEF UpdateStatus
    <2>7. CASE \/ RevokeUserSessionsBegins(u)
               \/ \E rows \in revoking[u] : RevokeUserSessionsEnds(u, rows)
      BY <1>3, <2>7 DEF RevokeUserSessionsBegins, RevokeUserSessionsEnds
    <2>8. QED
      BY <1>6, <2>1, <2>2, <2>3, <2>4, <2>5, <2>6, <2>7 DEF UserStep
  <1>7. ASSUME NEW s \in SessionId, SessionStep(s) PROVE LinkedOK'
    <2>1. s \in Row => sessions[s].user \in User
      BY RowOwner
    <2>2. ASSUME NEW now \in Nows, ReauthenticationFails(s, now) PROVE LinkedOK'
      BY <1>5, <2>1, <2>2 DEF ReauthenticationFails, ValidPrincipal
    <2>3. ASSUME NEW now \in Nows, ReauthenticationSucceeds(s, now) PROVE LinkedOK'
      BY <1>2, <1>4, <2>1, <2>3 DEF ReauthenticationSucceeds, ValidPrincipal
    <2>4. ASSUME NEW now \in Nows, NEW n \in SessionId, ChangePassword(s, n, now)
          PROVE  LinkedOK'
      BY <1>2, <2>1, <2>4 DEF ChangePassword, ValidPrincipal
    <2>5. QED
      BY <1>3, <1>7, <2>2, <2>3, <2>4
         DEF SessionStep, RefreshEndsFamily, RefreshRotates, RefreshRefused, Logout
  <1>8. QED
    BY <1>3, <1>6, <1>7 DEF Next, Tick, vars

(* No live session lacks standing in any reachable state.                    *)
LEMMA StandingAlways == Spec => []StandingOK
  <1>1. Init => StandingOK /\ LinkedOK
    BY DEF Init, Absent, StandingOK, Standing, LinkedOK
  <1>2. TypeOK /\ StandingOK /\ LinkedOK /\ [Next]_vars => (StandingOK /\ LinkedOK)'
    BY StandingKept, LinkedKept
  <1>3. QED
    BY <1>1, <1>2, TypeCorrect, PTL DEF Spec

(* An account that is disabled or locked has no live session, however late   *)
(* the handlers' clocks were when they decided.                              *)
THEOREM LiveSessionsHaveAccounts == Spec => []NoSessionWithoutAccount
  <1>1. StandingOK => NoSessionWithoutAccount
    BY DEF StandingOK, Standing, NoSessionWithoutAccount, Row
  <1>2. QED
    BY <1>1, StandingAlways, PTL

(* A replaced password leaves no live session that began before it, except   *)
(* that auto-link leaves the ones begun under the temporary password it      *)
(* disables.                                                                 *)
THEOREM SessionsEndWithTheirPassword == Spec => []NoSessionOutlivesPassword
  <1>1. StandingOK => NoSessionOutlivesPassword
    BY DEF StandingOK, Standing, BegunUnder, NoSessionOutlivesPassword, Row
  <1>2. QED
    BY <1>1, StandingAlways, PTL

-----------------------------------------------------------------------------
(* The rows of a family: rotation builds a chain, extends no deadline, and a *)
(* token that is presented twice ends its family; revocation reaches the     *)
(* older rows of a family first.  Then the count of failed passwords and the *)
(* lock it leads to.                                                         *)
(*                                                                           *)
(* Every handler does one of five things to the session table (TableWrites): *)
(* it revokes rows and changes nothing else of any, it refuses or ends the   *)
(* family of a presented token, it rotates one, or it inserts the first row  *)
(* of a family.  Each invariant is kept by each of the five.                 *)

(* What RotationIsAChain says of a table.                                    *)
Linked(table, s) ==
    /\ table[s].used <=> table[s].replacedBy # NoSession
    /\ table[s].used =>
          /\ table[s].replacedBy \in RowsOf(table) \ {s}
          /\ table[table[s].replacedBy].family = table[s].family

Chained(table) ==
    /\ \A s \in RowsOf(table) : Linked(table, s)
    /\ \A s, t \in RowsOf(table) : s # t /\ table[s].family = table[t].family =>
          /\ table[s].used \/ table[t].used
          /\ table[s].used => table[s].replacedBy # table[t].replacedBy

(* The snapshots of revoke_user_sessions: rows of the account it names, and  *)
(* with a row every row that it replaced.                                    *)
Snapshot(rows, u) ==
    /\ rows \subseteq Row
    /\ \A s \in rows : sessions[s].user = u
    /\ \A s \in Row : sessions[s].used /\ sessions[s].replacedBy \in rows => s \in rows

SnapshotsOK == \A u \in User : \A rows \in revoking[u] : Snapshot(rows, u)

(* The writes.                                                               *)

(* Rows are revoked, and say what they said otherwise.                       *)
OnlyRevokes(new, old) ==
    /\ new \in [SessionId -> Session]
    /\ \A s \in SessionId :
          /\ new[s].user = old[s].user
          /\ new[s].family = old[s].family
          /\ new[s].created = old[s].created
          /\ new[s].idle = old[s].idle
          /\ new[s].absolute = old[s].absolute
          /\ new[s].authenticated = old[s].authenticated
          /\ new[s].used = old[s].used
          /\ new[s].replacedBy = old[s].replacedBy
          /\ old[s].revoked => new[s].revoked

(* No row is revoked without the one it replaced.                            *)
OldestFirst(new, old) ==
    \A s \in RowsOf(old) : old[s].used /\ new[old[s].replacedBy].revoked
        => new[s].revoked \/ old[old[s].replacedBy].revoked

Revokes ==
    /\ OnlyRevokes(sessions', sessions)
    /\ OldestFirst(sessions', sessions)
    /\ UNCHANGED replayed

Refuses(s) ==
    /\ sessions[s].revoked
    /\ sessions' = sessions
    /\ Present(s)

Ends(s) ==
    /\ ~sessions[s].revoked
    /\ sessions' = RevokeFamily(sessions, sessions[s].family)
    /\ Present(s)

Rotates(s, n, now) ==
    /\ ~sessions[s].revoked /\ ~sessions[s].used
    /\ now < sessions[s].absolute
    /\ sessions' = Rotate(s, n, now)
    /\ Present(s)

Opens(table, u, n, now) ==
    /\ OnlyRevokes(table, sessions)
    /\ OldestFirst(table, sessions)
    /\ sessions' = [table EXCEPT ![n] = NewSession(u, n, now, now + AbsoluteTTL, now)]
    /\ UNCHANGED replayed

Begins ==
    \E table \in [SessionId -> Session], u \in User, n \in Fresh, now \in Nat :
        Opens(table, u, n, now)

Writes ==
    \/ Revokes
    \/ \E s \in Row : Refuses(s) \/ Ends(s)
    \/ \E s \in Row, n \in Fresh, now \in Nat : Rotates(s, n, now)
    \/ Begins

(* Revoking a family only revokes.                                           *)
LEMMA RevokeFamilyOnly ==
    ASSUME NEW table \in [SessionId -> Session], NEW f
    PROVE  OnlyRevokes(RevokeFamily(table, f), table)
  <1>1. RevokeFamily(table, f) \in [SessionId -> Session]
    BY RevokeFamilyType
  <1>2. QED
    BY <1>1 DEF OnlyRevokes, RevokeFamily, Session

(* Revoking an account's sessions only revokes.                              *)
LEMMA RevokeUserOnly ==
    ASSUME NEW table \in [SessionId -> Session], NEW u
    PROVE  OnlyRevokes(RevokeUser(table, u), table)
  <1>1. RevokeUser(table, u) \in [SessionId -> Session]
    BY RevokeUserType
  <1>2. QED
    BY <1>1 DEF OnlyRevokes, RevokeUser, Session

(* Revoking a snapshot only revokes.                                         *)
LEMMA RevokeRowsOnly ==
    ASSUME NEW table \in [SessionId -> Session], NEW rows
    PROVE  OnlyRevokes(RevokeRows(table, rows), table)
  <1>1. RevokeRows(table, rows) \in [SessionId -> Session]
    BY RevokeRowsType
  <1>2. QED
    BY <1>1 DEF OnlyRevokes, RevokeRows, Session

(* Writing nothing only revokes.                                             *)
LEMMA NothingOnlyRevokes ==
    ASSUME NEW table \in [SessionId -> Session]
    PROVE  OnlyRevokes(table, table) /\ OldestFirst(table, table)
  BY DEF OnlyRevokes, OldestFirst

(* A row and the one it replaced have one family and one owner, so neither a *)
(* family nor an account's sessions are revoked in part, and a snapshot has  *)
(* them both or the older one.                                               *)
LEMMA RevokedOldestFirst ==
    ASSUME TypeOK, Rooted(sessions), Chained(sessions)
    PROVE  /\ \A f : OldestFirst(RevokeFamily(sessions, f), sessions)
           /\ \A u : OldestFirst(RevokeUser(sessions, u), sessions)
           /\ \A rows, u : Snapshot(rows, u)
                 => OldestFirst(RevokeRows(sessions, rows), sessions)
  <1>1. RowsOf(sessions) = Row /\ Row \subseteq SessionId
    BY DEF RowsOf, Row
  <1>2. \A s \in Row : sessions[s].used =>
           /\ sessions[s].replacedBy \in Row
           /\ sessions[sessions[s].replacedBy].family = sessions[s].family
           /\ sessions[sessions[s].replacedBy].user = sessions[s].user
    BY <1>1 DEF Chained, Linked, Rooted
  <1>3. ASSUME NEW f PROVE OldestFirst(RevokeFamily(sessions, f), sessions)
    <2>1. \A s \in Row : RevokeFamily(sessions, f)[s].revoked
                           <=> sessions[s].revoked \/ sessions[s].family = f
      BY <1>1, RevokeFamilyRow DEF TypeOK
    <2>2. QED
      BY <1>1, <1>2, <2>1 DEF OldestFirst
  <1>4. ASSUME NEW u PROVE OldestFirst(RevokeUser(sessions, u), sessions)
    <2>1. \A s \in Row : RevokeUser(sessions, u)[s].revoked
                           <=> sessions[s].revoked \/ sessions[s].user = u
      BY <1>1, RevokeUserRow DEF TypeOK
    <2>2. QED
      BY <1>1, <1>2, <2>1 DEF OldestFirst
  <1>5. ASSUME NEW rows, NEW u, Snapshot(rows, u)
        PROVE  OldestFirst(RevokeRows(sessions, rows), sessions)
    <2>1. \A s \in Row : RevokeRows(sessions, rows)[s].revoked
                           <=> sessions[s].revoked \/ s \in rows
      BY <1>1, RevokeRowsRow DEF TypeOK
    <2>2. QED
      BY <1>1, <1>2, <1>5, <2>1 DEF OldestFirst, Snapshot
  <1>6. QED
    BY <1>3, <1>4, <1>5

(* Every step writes the session table in one of the five ways.              *)
LEMMA TableWrites ==
    ASSUME TypeOK, Rooted(sessions), Chained(sessions), SnapshotsOK, [Next]_vars
    PROVE  Writes
  <1> USE DEF revocations
  <1>1. sessions \in [SessionId -> Session] /\ Nows \subseteq Nat
    BY NowsAreTimes DEF TypeOK
  <1>2. ASSUME sessions' = sessions, replayed' = replayed PROVE Writes
    BY <1>1, <1>2, NothingOnlyRevokes DEF Writes, Revokes
  <1>3. ASSUME NEW u, sessions' = RevokeUser(sessions, u), replayed' = replayed
        PROVE  Writes
    BY <1>1, <1>3, RevokeUserOnly, RevokedOldestFirst DEF Writes, Revokes
  <1>4. ASSUME NEW u, NEW now \in Nows, RecordPasswordFailure(u, now),
               replayed' = replayed
        PROVE  Writes
    BY <1>2, <1>3, <1>4 DEF RecordPasswordFailure
  <1>5. ASSUME NEW table \in [SessionId -> Session], OnlyRevokes(table, sessions),
               OldestFirst(table, sessions), NEW u \in User, NEW n \in SessionId, NEW now \in Nows, NEW password,
               OpenFamily(table, u, n, now, password), replayed' = replayed
        PROVE  Writes
    BY <1>1, <1>5 DEF OpenFamily, Writes, Opens, Begins
  <1>6. CASE Tick
    BY <1>2, <1>6 DEF Tick
  <1>7. ASSUME NEW u \in User, UserStep(u) PROVE Writes
    <2>1. ASSUME NEW now \in Nows, LoginFails(u, now) PROVE Writes
      BY <1>4, <2>1 DEF LoginFails
    <2>2. ASSUME NEW now \in Nows, NEW s \in SessionId, LoginSucceeds(u, s, now)
          PROVE  Writes
      BY <1>1, <1>5, <2>2, NothingOnlyRevokes DEF LoginSucceeds
    <2>3. ASSUME NEW now \in Nows, NEW s \in SessionId, LoginWithoutPassword(u, s, now)
          PROVE  Writes
      BY <1>1, <1>5, <2>3, NothingOnlyRevokes DEF LoginWithoutPassword
    <2>4. CASE ResetPassword(u) \/ ResetByLink(u) \/ ActivateInvitation(u)
      BY <1>3, <2>4 DEF ResetPassword, ResetByLink, ActivateInvitation, ReplaceAndRevoke
    <2>5. ASSUME NEW status \in {"active", "disabled"}, UpdateStatus(u, status)
          PROVE  Writes
      BY <1>2, <1>3, <2>5 DEF UpdateStatus
    <2>6. CASE RevokeUserSessionsBegins(u)
      BY <1>2, <2>6 DEF RevokeUserSessionsBegins
    <2>7. ASSUME NEW rows \in revoking[u], RevokeUserSessionsEnds(u, rows)
          PROVE  Writes
      BY <1>1, <2>7, RevokeRowsOnly, RevokedOldestFirst
         DEF RevokeUserSessionsEnds, SnapshotsOK, Writes, Revokes
    <2>8. ASSUME NEW now \in Nows, NEW s \in SessionId, AutoLink(u, s, now)
          PROVE  Writes
      BY <1>1, <1>5, <2>8, NothingOnlyRevokes DEF AutoLink
    <2>9. QED
      BY <1>7, <2>1, <2>2, <2>3, <2>4, <2>5, <2>6, <2>7, <2>8 DEF UserStep
  <1>8. ASSUME NEW s \in SessionId, SessionStep(s) PROVE Writes
    <2>1. ASSUME NEW now \in Nows, ReauthenticationFails(s, now) PROVE Writes
      BY <1>4, <2>1 DEF ReauthenticationFails
    <2>2. ASSUME NEW now \in Nows, ReauthenticationSucceeds(s, now) PROVE Writes
      BY <1>2, <2>2 DEF ReauthenticationSucceeds
    <2>3. ASSUME NEW now \in Nows, NEW csrfMatches \in BOOLEAN,
                 RefreshEndsFamily(s, now, csrfMatches)
          PROVE  Writes
      BY <2>3 DEF RefreshEndsFamily, Writes, Ends
    <2>4. ASSUME NEW now \in Nows, NEW n \in SessionId, RefreshRotates(s, n, now)
          PROVE  Writes
      <3>1. s \in Row /\ n \in Fresh /\ now \in Nat
        BY <1>1, <2>4 DEF RefreshRotates
      <3>2. now < sessions[s].absolute
        BY <1>1, <2>4, <3>1 DEF RefreshRotates, EndsFamily, Session
      <3>3. Rotates(s, n, now)
        BY <2>4, <3>2 DEF RefreshRotates, EndsFamily, Rotates
      <3>4. QED
        BY <3>1, <3>3 DEF Writes
    <2>5. ASSUME NEW now \in Nows, NEW n \in SessionId, ChangePassword(s, n, now)
          PROVE  Writes
      <3> DEFINE u == sessions[s].user
                 table == RevokeUser(sessions, u)
      <3>1. u \in User
        BY <2>5, RowOwner DEF ChangePassword, ValidPrincipal
      <3>2. /\ table \in [SessionId -> Session] /\ OnlyRevokes(table, sessions)
            /\ OldestFirst(table, sessions)
        BY <1>1, RevokeUserType, RevokeUserOnly, RevokedOldestFirst
      <3>3. /\ OpenFamily(table, u, n, now, ActivatePassword(users[u]).password)
            /\ replayed' = replayed
        BY <2>5 DEF ChangePassword
      <3> HIDE DEF u, table
      <3>4. QED
        BY <1>5, <3>1, <3>2, <3>3
    <2>6. CASE Logout(s)
      BY <1>1, <2>6, RevokeFamilyOnly, RevokedOldestFirst DEF Logout, Writes, Revokes
    <2>7. CASE RefreshRefused(s)
      BY <2>7 DEF RefreshRefused, Writes, Refuses
    <2>8. QED
      BY <1>8, <2>1, <2>2, <2>3, <2>4, <2>5, <2>6, <2>7 DEF SessionStep
  <1>9. CASE UNCHANGED vars
    BY <1>2, <1>9 DEF vars
  <1>10. QED
    BY <1>6, <1>7, <1>8, <1>9 DEF Next

-----------------------------------------------------------------------------
(* What FamilySharesDeadline says, row by row: a row has the deadline and    *)
(* the authentication time of the row its family is named after, and was     *)
(* created before it expires.                                                *)
Dated(row) ==
    /\ row.created < row.idle
    /\ row.idle <= row.absolute
    /\ row.absolute = row.authenticated + AbsoluteTTL

DeadlinesOK(table) ==
    \A s \in RowsOf(table) :
        /\ Dated(table[s])
        /\ table[table[s].family].absolute = table[s].absolute
        /\ table[table[s].family].authenticated = table[s].authenticated

(* A session is dated if it is issued before its absolute deadline.          *)
LEMMA NewSessionDated ==
    ASSUME NEW u, NEW f, NEW now \in Nat, NEW absolute \in Nat, NEW authenticated \in Nat,
           now < absolute, absolute = authenticated + AbsoluteTTL
    PROVE  Dated(NewSession(u, f, now, absolute, authenticated))
  BY TimingAssumption DEF NewSession, Dated

(* Revoking leaves the rows and their dates alone.                           *)
LEMMA RevokingKeepsDeadlines ==
    ASSUME NEW old \in [SessionId -> Session], NEW new, OnlyRevokes(new, old),
           Rooted(old), DeadlinesOK(old)
    PROVE  Rooted(new) /\ DeadlinesOK(new) /\ RowsOf(new) = RowsOf(old)
  <1>1. RowsOf(new) = RowsOf(old) /\ RowsOf(old) \subseteq SessionId
    BY DEF OnlyRevokes, RowsOf
  <1>2. \A s \in RowsOf(old) : old[s].family \in RowsOf(old)
    BY DEF Rooted
  <1>3. QED
    BY <1>1, <1>2 DEF OnlyRevokes, Rooted, DeadlinesOK, Dated

(* A new family has the dates of its only row.                               *)
LEMMA OpeningKeepsDeadlines ==
    ASSUME NEW table \in [SessionId -> Session], Rooted(table), DeadlinesOK(table),
           NEW u \in User, NEW n \in SessionId, n \notin RowsOf(table), NEW now \in Nat
    PROVE  DeadlinesOK([table EXCEPT ![n] = NewSession(u, n, now, now + AbsoluteTTL, now)])
  <1> DEFINE row == NewSession(u, n, now, now + AbsoluteTTL, now)
             new == [table EXCEPT ![n] = row]
  <1>1. Dated(row)
    <2>1. now + AbsoluteTTL \in Nat /\ now < now + AbsoluteTTL
      BY TimingAssumption
    <2>2. QED
      BY <2>1, NewSessionDated
  <1>2. row.user = u /\ row.family = n
    BY DEF NewSession
  <1> HIDE DEF row
  <1>3. new[n] = row /\ \A s \in SessionId : s # n => new[s] = table[s]
    OBVIOUS
  <1> HIDE DEF new
  <1>4. RowsOf(new) = RowsOf(table) \cup {n} /\ RowsOf(table) \subseteq SessionId
    BY <1>2, <1>3, SentinelAssumption DEF RowsOf
  <1>5. \A s \in RowsOf(table) : s # n /\ table[s].family \in RowsOf(table)
    BY DEF Rooted
  <1>6. DeadlinesOK(new)
    BY <1>1, <1>2, <1>3, <1>4, <1>5 DEF DeadlinesOK
  <1>7. QED
    BY <1>6 DEF new, row

(* Rotation copies the deadline and the authentication time.                 *)
LEMMA RotationKeepsDeadlines ==
    ASSUME TypeOK, Rooted(sessions), DeadlinesOK(sessions),
           NEW p \in Row, NEW n \in Fresh, NEW now \in Nat, now < sessions[p].absolute
    PROVE  DeadlinesOK(Rotate(p, n, now))
  <1> DEFINE row == sessions[p]
             old == [row EXCEPT !.used = TRUE, !.replacedBy = n]
             successor == NewSession(row.user, row.family, now, row.absolute,
                                     row.authenticated)
             new == Rotate(p, n, now)
  <1>1. /\ p \in SessionId /\ n \in SessionId /\ p # n /\ p \in RowsOf(sessions)
        /\ n \notin RowsOf(sessions) /\ row \in Session
    BY DEF Row, Fresh, RowsOf, TypeOK
  <1>2. Dated(row)
    BY <1>1 DEF DeadlinesOK
  <1>3. Dated(successor)
    BY <1>1, <1>2, NewSessionDated DEF Dated, Session
  <1>4. /\ successor.user = row.user /\ successor.family = row.family
        /\ successor.absolute = row.absolute
        /\ successor.authenticated = row.authenticated
    BY DEF NewSession
  <1>5. /\ old.user = row.user /\ old.family = row.family /\ old.created = row.created
        /\ old.idle = row.idle /\ old.absolute = row.absolute
        /\ old.authenticated = row.authenticated
    BY <1>1 DEF Session
  <1>6. new = [sessions EXCEPT ![n] = successor, ![p] = old]
    BY DEF Rotate
  <1> HIDE DEF row, old, successor
  <1>7. /\ new[n] = successor /\ new[p] = old
        /\ \A s \in SessionId \ {p, n} : new[s] = sessions[s]
    BY <1>1, <1>6 DEF TypeOK
  <1> HIDE DEF new
  <1>8. /\ RowsOf(new) = RowsOf(sessions) \cup {n}
        /\ RowsOf(sessions) \subseteq SessionId
    BY <1>1, <1>4, <1>5, <1>7 DEF RowsOf, row
  <1>9. \A s \in RowsOf(sessions) :
           /\ sessions[s].family \in RowsOf(sessions)
           /\ new[s].family = sessions[s].family
           /\ new[s].absolute = sessions[s].absolute
           /\ new[s].authenticated = sessions[s].authenticated
           /\ Dated(new[s]) <=> Dated(sessions[s])
    BY <1>1, <1>5, <1>7, <1>8 DEF Rooted, row, Dated
  <1>10. \A s \in RowsOf(sessions) :
            /\ Dated(sessions[s])
            /\ sessions[sessions[s].family].absolute = sessions[s].absolute
            /\ sessions[sessions[s].family].authenticated = sessions[s].authenticated
    BY DEF DeadlinesOK
  <1>11. DeadlinesOK(new)
    BY <1>1, <1>3, <1>4, <1>7, <1>8, <1>9, <1>10 DEF DeadlinesOK, row
  <1>12. QED
    BY <1>11 DEF new

-----------------------------------------------------------------------------
(* Revoking leaves the chains alone.                                         *)
LEMMA RevokingKeepsChains ==
    ASSUME NEW old \in [SessionId -> Session], NEW new, OnlyRevokes(new, old),
           Chained(old)
    PROVE  Chained(new)
  <1>1. RowsOf(new) = RowsOf(old) /\ RowsOf(old) \subseteq SessionId
    BY DEF OnlyRevokes, RowsOf
  <1>2. QED
    BY <1>1 DEF OnlyRevokes, Chained, Linked

(* A new family is a chain of one row; its name is no other row's family.    *)
LEMMA OpeningKeepsChains ==
    ASSUME NEW table \in [SessionId -> Session], Rooted(table), Chained(table),
           NEW u \in User, NEW n \in SessionId, n \notin RowsOf(table), NEW now
    PROVE  Chained([table EXCEPT ![n] = NewSession(u, n, now, now + AbsoluteTTL, now)])
  <1> DEFINE row == NewSession(u, n, now, now + AbsoluteTTL, now)
             new == [table EXCEPT ![n] = row]
  <1>1. row.user = u /\ row.family = n /\ row.used = FALSE /\ row.replacedBy = NoSession
    BY DEF NewSession
  <1> HIDE DEF row
  <1>2. new[n] = row /\ \A s \in SessionId : s # n => new[s] = table[s]
    OBVIOUS
  <1> HIDE DEF new
  <1>3. RowsOf(new) = RowsOf(table) \cup {n} /\ RowsOf(table) \subseteq SessionId
    BY <1>1, <1>2, SentinelAssumption DEF RowsOf
  <1>4. \A s \in RowsOf(table) : s # n /\ table[s].family # n
    BY DEF Rooted
  <1>5. \A s \in RowsOf(new) : Linked(new, s)
    BY <1>1, <1>2, <1>3, <1>4 DEF Chained, Linked
  <1>6. Chained(new)
    BY <1>1, <1>2, <1>3, <1>4, <1>5 DEF Chained
  <1>7. QED
    BY <1>6 DEF new, row

(* Rotation adds a row after the only one of its family that was left to     *)
(* rotate.                                                                   *)
LEMMA RotationKeepsChains ==
    ASSUME TypeOK, Chained(sessions),
           NEW p \in Row, ~sessions[p].used, NEW n \in Fresh, NEW now
    PROVE  Chained(Rotate(p, n, now))
  <1> DEFINE new == Rotate(p, n, now)
             R == RowsOf(sessions)
  <1>1. /\ p \in SessionId /\ n \in SessionId /\ p # n /\ p \in R /\ n \notin R
        /\ R \subseteq SessionId /\ n # NoSession
    BY SentinelAssumption DEF Row, Fresh, RowsOf
  <1>2. /\ new[n].family = sessions[p].family /\ new[n].user = sessions[p].user
        /\ new[n].used = FALSE /\ new[n].replacedBy = NoSession
        /\ new[p].family = sessions[p].family /\ new[p].user = sessions[p].user
        /\ new[p].used = TRUE /\ new[p].replacedBy = n
        /\ \A s \in SessionId \ {p, n} : new[s] = sessions[s]
    BY <1>1 DEF Rotate, NewSession, TypeOK, Session
  <1> HIDE DEF new
  <1>3. RowsOf(new) = R \cup {n}
    BY <1>1, <1>2 DEF RowsOf
  <1>4. \A s \in R : Linked(sessions, s) /\ sessions[s].replacedBy # n
    BY <1>1 DEF Chained, Linked
  <1>5. \A s \in R : new[s].family = sessions[s].family
    BY <1>1, <1>2
  <1>6. \A s \in R \cup {n} : Linked(new, s)
    BY <1>1, <1>2, <1>3, <1>4, <1>5 DEF Linked
  <1>7. \A s \in R \ {p} : sessions[s].family = sessions[p].family => sessions[s].used
    BY <1>1 DEF Chained
  <1>8. \A s, t \in R : s # t /\ sessions[s].family = sessions[t].family =>
           /\ sessions[s].used \/ sessions[t].used
           /\ sessions[s].used => sessions[s].replacedBy # sessions[t].replacedBy
    BY DEF Chained
  <1> HIDE DEF R
  <1>9. ASSUME NEW s \in R \cup {n}, NEW t \in R \cup {n}, s # t,
               new[s].family = new[t].family
        PROVE  /\ new[s].used \/ new[t].used
               /\ new[s].used => new[s].replacedBy # new[t].replacedBy
    <2>1. CASE s = n \/ t = n
      BY <1>1, <1>2, <1>4, <1>5, <1>6, <1>7, <1>9, <2>1 DEF Linked
    <2>2. CASE s # n /\ t # n
      <3>1. s \in R /\ t \in R /\ sessions[s].family = sessions[t].family
        BY <1>5, <1>9, <2>2
      <3>2. CASE s = p \/ t = p
        BY <1>1, <1>2, <1>4, <1>7, <1>9, <2>2, <3>1, <3>2
      <3>3. CASE s # p /\ t # p
        BY <1>1, <1>2, <1>8, <1>9, <2>2, <3>1, <3>3
      <3>4. QED
        BY <3>2, <3>3
    <2>3. QED
      BY <2>1, <2>2
  <1>10. Chained(new)
    BY <1>3, <1>6, <1>9 DEF Chained
  <1>11. QED
    BY <1>10 DEF new

-----------------------------------------------------------------------------
(* Replays.  A token that was presented after its exchange is revoked: what  *)
(* ReplayEndsFamily needs beside whole families.                             *)
ReplayedOK == \A s \in replayed : s \in Row /\ sessions[s].revoked

(* Revocation reaches the older rows of a family first.                      *)
NewestLast(table) ==
    \A s \in RowsOf(table) :
        table[s].used /\ ~table[s].revoked => ~table[table[s].replacedBy].revoked

(* A rotated row and its successor are both alive.                           *)
LEMMA RotationKeepsNewestLast ==
    ASSUME TypeOK, Chained(sessions), NewestLast(sessions), NEW p \in Row,
           ~sessions[p].revoked, NEW n \in Fresh, NEW now
    PROVE  NewestLast(Rotate(p, n, now))
  <1> DEFINE new == Rotate(p, n, now)
             R == RowsOf(sessions)
  <1>1. /\ p \in SessionId /\ n \in SessionId /\ p # n /\ p \in R /\ n \notin R
        /\ R \subseteq SessionId
    BY DEF Row, Fresh, RowsOf
  <1>2. /\ new[n].user = sessions[p].user /\ ~new[n].revoked /\ ~new[n].used
        /\ new[p].user = sessions[p].user /\ new[p].replacedBy = n
        /\ new[p].revoked = sessions[p].revoked
        /\ \A s \in SessionId \ {p, n} : new[s] = sessions[s]
    BY <1>1 DEF Rotate, NewSession, TypeOK, Session
  <1> HIDE DEF new
  <1>3. RowsOf(new) = R \cup {n}
    BY <1>1, <1>2 DEF RowsOf
  <1>4. \A s \in R : sessions[s].used => sessions[s].replacedBy \in R
    BY DEF Chained, Linked
  <1>5. \A s \in R : sessions[s].used /\ ~sessions[s].revoked
                        => ~sessions[sessions[s].replacedBy].revoked
    BY DEF NewestLast
  <1> HIDE DEF R
  <1>6. NewestLast(new)
    <2> SUFFICES ASSUME NEW s \in R \cup {n}, new[s].used, ~new[s].revoked
                 PROVE  ~new[new[s].replacedBy].revoked
      BY <1>3 DEF NewestLast
    <2>1. CASE s = n \/ s = p
      BY <1>2, <2>1
    <2>2. CASE s \notin {p, n}
      <3>1. new[s] = sessions[s] /\ s \in R
        BY <1>1, <1>2, <2>2
      <3>2. sessions[s].replacedBy \in R /\ ~sessions[sessions[s].replacedBy].revoked
        BY <1>4, <1>5, <3>1
      <3>3. \A r \in R : new[r].revoked => sessions[r].revoked
        BY <1>1, <1>2
      <3>4. QED
        BY <3>1, <3>2, <3>3
    <2>3. QED
      BY <2>1, <2>2
  <1>7. QED
    BY <1>6 DEF new

(* The first row of a family has no successor.                               *)
LEMMA OpeningKeepsNewestLast ==
    ASSUME NEW table \in [SessionId -> Session], Chained(table), NewestLast(table),
           NEW u \in User, NEW n \in SessionId, n \notin RowsOf(table), NEW now
    PROVE  NewestLast([table EXCEPT ![n] = NewSession(u, n, now, now + AbsoluteTTL, now)])
  <1> DEFINE row == NewSession(u, n, now, now + AbsoluteTTL, now)
             new == [table EXCEPT ![n] = row]
  <1>1. ~row.used /\ row.user = u
    BY DEF NewSession
  <1> HIDE DEF row
  <1>2. new[n] = row /\ \A s \in SessionId : s # n => new[s] = table[s]
    OBVIOUS
  <1> HIDE DEF new
  <1>3. RowsOf(new) = RowsOf(table) \cup {n} /\ RowsOf(table) \subseteq SessionId
    BY <1>1, <1>2, SentinelAssumption DEF RowsOf
  <1>4. \A s \in RowsOf(table) : table[s].used => table[s].replacedBy \in RowsOf(table)
    BY DEF Chained, Linked
  <1>5. NewestLast(new)
    BY <1>1, <1>2, <1>3, <1>4 DEF NewestLast
  <1>6. QED
    BY <1>5 DEF new, row

(* Revoking keeps the rule when it takes the older row with the newer one.   *)
LEMMA RevokingKeepsNewestLast ==
    ASSUME NewestLast(sessions), NEW table, OnlyRevokes(table, sessions),
           OldestFirst(table, sessions)
    PROVE  NewestLast(table)
  BY DEF NewestLast, OnlyRevokes, OldestFirst, RowsOf

(* Rows stay, with their owners, and only unused rows of a snapshot are      *)
(* given a successor.                                                        *)
LEMMA SnapshotsKept ==
    ASSUME TypeOK, Rooted(sessions), Chained(sessions), SnapshotsOK, Writes, [Next]_vars
    PROVE  SnapshotsOK'
  <1>1. ASSUME NEW u \in User, NEW rows \in revoking'[u]
        PROVE  rows \in revoking[u] \/ (sessions' = sessions /\ rows = RowsOfUser(u))
    <2>1. CASE UNCHANGED revoking
      BY <1>1, <2>1
    <2>2. ASSUME NEW v \in User, RevokeUserSessionsBegins(v)
          PROVE  rows \in revoking[u] \/ (sessions' = sessions /\ rows = RowsOfUser(u))
      <3>1. /\ revoking' = [revoking EXCEPT ![v] = @ \cup {RowsOfUser(v)}]
            /\ sessions' = sessions
        BY <2>2 DEF RevokeUserSessionsBegins
      <3>2. QED
        BY <1>1, <3>1 DEF TypeOK
    <2>3. ASSUME NEW v \in User, NEW taken, RevokeUserSessionsEnds(v, taken)
          PROVE  rows \in revoking[u]
      <3>1. revoking' = [revoking EXCEPT ![v] = @ \ {taken}]
        BY <2>3 DEF RevokeUserSessionsEnds
      <3>2. QED
        BY <1>1, <3>1 DEF TypeOK
    <2>4. ASSUME NEW s \in SessionId, SessionStep(s) PROVE UNCHANGED revoking
      BY <2>4 DEF SessionStep, revocations, ReauthenticationFails, Logout,
                  ReauthenticationSucceeds, RefreshRefused, RefreshEndsFamily,
                  RefreshRotates, ChangePassword
    <2>5. ASSUME NEW v \in User, UserStep(v)
          PROVE  \/ UNCHANGED revoking
                 \/ RevokeUserSessionsBegins(v)
                 \/ \E taken \in revoking[v] : RevokeUserSessionsEnds(v, taken)
      BY <2>5 DEF UserStep, revocations, LoginFails, LoginSucceeds, LoginWithoutPassword,
                  AutoLink, ResetPassword, ResetByLink, ActivateInvitation,
                  ReplaceAndRevoke, UpdateStatus
    <2>6. CASE Tick \/ UNCHANGED vars
      BY <2>1, <2>6 DEF Tick, vars, revocations
    <2>7. QED
      BY <2>1, <2>2, <2>3, <2>4, <2>5, <2>6 DEF Next
  <1>2. RowsOf(sessions) = Row /\ Row \subseteq SessionId
    BY DEF RowsOf, Row
  <1>3. ASSUME NEW u \in User PROVE Snapshot(RowsOfUser(u), u)
    <2>1. \A s \in Row : sessions[s].used =>
             /\ sessions[s].replacedBy \in Row
             /\ sessions[sessions[s].replacedBy].user = sessions[s].user
      BY <1>2 DEF Chained, Linked, Rooted
    <2>2. QED
      BY <2>1 DEF Snapshot, RowsOfUser
  <1>4. ASSUME NEW u \in User, NEW rows, Snapshot(rows, u) PROVE Snapshot(rows, u)'
    <2>1. ASSUME \A s \in SessionId : /\ sessions'[s].user = sessions[s].user
                                      /\ sessions'[s].used = sessions[s].used
                                      /\ sessions'[s].replacedBy = sessions[s].replacedBy
          PROVE  Snapshot(rows, u)'
      BY <1>2, <1>4, <2>1 DEF Snapshot, Row
    <2>2. CASE Revokes
      BY <2>1, <2>2 DEF Revokes, OnlyRevokes
    <2>3. ASSUME NEW s \in Row, Refuses(s) \/ Ends(s) PROVE Snapshot(rows, u)'
      <3>1. OnlyRevokes(sessions', sessions)
        BY <2>3, RevokeFamilyOnly, NothingOnlyRevokes DEF Refuses, Ends, TypeOK
      <3>2. QED
        BY <2>1, <3>1 DEF OnlyRevokes
    <2>4. ASSUME NEW s \in Row, NEW n \in Fresh, NEW now \in Nat, Rotates(s, n, now)
          PROVE  Snapshot(rows, u)'
      <3>1. s \in SessionId /\ n \in SessionId /\ s # n /\ n \notin Row
        BY DEF Row, Fresh
      <3>2. /\ sessions'[s].user = sessions[s].user /\ sessions'[s].replacedBy = n
            /\ sessions'[n].user = sessions[s].user /\ ~sessions'[n].used
            /\ \A t \in SessionId \ {s, n} : sessions'[t] = sessions[t]
        BY <2>4, <3>1 DEF Rotates, Rotate, NewSession, TypeOK, Session
      <3>3. Row' = Row \cup {n}
        BY <3>1, <3>2 DEF Row
      <3>4. QED
        BY <1>2, <1>4, <3>1, <3>2, <3>3 DEF Snapshot
    <2>5. ASSUME NEW table \in [SessionId -> Session], NEW v \in User, NEW n \in Fresh,
                 NEW now \in Nat, Opens(table, v, n, now)
          PROVE  Snapshot(rows, u)'
      <3>1. n \in SessionId /\ n \notin Row
        BY DEF Fresh
      <3>2. /\ sessions'[n].user = v /\ ~sessions'[n].used
            /\ \A t \in SessionId \ {n} : /\ sessions'[t].user = sessions[t].user
                                          /\ sessions'[t].used = sessions[t].used
                                          /\ sessions'[t].replacedBy = sessions[t].replacedBy
        BY <2>5, <3>1 DEF Opens, OnlyRevokes, NewSession
      <3>3. Row' = Row \cup {n}
        BY <3>1, <3>2, SentinelAssumption DEF Row
      <3>4. QED
        BY <1>2, <1>4, <3>1, <3>2, <3>3 DEF Snapshot
    <2>6. QED
      BY <2>2, <2>3, <2>4, <2>5 DEF Writes, Begins
  <1>5. ASSUME NEW u \in User, NEW rows \in revoking'[u] PROVE Snapshot(rows, u)'
    BY <1>1, <1>3, <1>4, <1>5 DEF SnapshotsOK
  <1>6. QED
    BY <1>5 DEF SnapshotsOK

-----------------------------------------------------------------------------
(* The rows of every family, together.                                       *)
RotationInv ==
    /\ FamilyOK(sessions, torn)
    /\ DeadlinesOK(sessions)
    /\ Chained(sessions)
    /\ NewestLast(sessions)
    /\ SnapshotsOK
    /\ ReplayedOK

(* No step breaks a chain, moves a deadline or forgets a presentation.       *)
LEMMA RotationInvKept ==
    ASSUME TypeOK, RotationInv, [Next]_vars
    PROVE  RotationInv'
  <1> DEFINE Good(table) == DeadlinesOK(table) /\ Chained(table) /\ NewestLast(table)
  <1>1. /\ Rooted(sessions) /\ Good(sessions) /\ SnapshotsOK /\ ReplayedOK
        /\ sessions \in [SessionId -> Session] /\ RowsOf(sessions) = Row
    BY DEF RotationInv, FamilyOK, TypeOK, RowsOf, Row
  <1>2. Writes /\ FamilyOK(sessions', torn')
    BY <1>1, TableWrites, FamiliesKept DEF RotationInv
  <1>3. SnapshotsOK'
    BY <1>1, <1>2, SnapshotsKept
  <1>4. ASSUME NEW table, OnlyRevokes(table, sessions), OldestFirst(table, sessions)
        PROVE  /\ Rooted(table) /\ Good(table)
               /\ RowsOf(table) = Row /\ table \in [SessionId -> Session]
    BY <1>1, <1>4, RevokingKeepsDeadlines, RevokingKeepsChains, RevokingKeepsNewestLast
       DEF OnlyRevokes
  <1>5. Good(sessions') /\ ReplayedOK'
    <2>1. CASE Revokes
      BY <1>1, <1>4, <2>1 DEF Revokes, OnlyRevokes, ReplayedOK, Row
    <2>2. ASSUME NEW s \in Row, Refuses(s) PROVE Good(sessions') /\ ReplayedOK'
      BY <1>1, <2>2 DEF Refuses, Present, ReplayedOK, Row
    <2>3. ASSUME NEW s \in Row, Ends(s) PROVE Good(sessions') /\ ReplayedOK'
      <3>1. OnlyRevokes(sessions', sessions) /\ OldestFirst(sessions', sessions)
        BY <1>1, <2>3, RevokeFamilyOnly, RevokedOldestFirst DEF Ends
      <3>2. s \in SessionId /\ sessions'[s].revoked
        BY <1>1, <2>3, RevokeFamilyRow DEF Ends, Row
      <3>3. replayed' \subseteq replayed \cup {s}
        BY <2>3 DEF Ends, Present
      <3>4. ReplayedOK'
        BY <1>1, <3>1, <3>2, <3>3 DEF OnlyRevokes, ReplayedOK, Row
      <3>5. QED
        BY <1>4, <3>1, <3>4
    <2>4. ASSUME NEW s \in Row, NEW n \in Fresh, NEW now \in Nat, Rotates(s, n, now)
          PROVE  Good(sessions') /\ ReplayedOK'
      <3>1. Good(sessions')
        BY <1>1, <2>4, RotationKeepsDeadlines, RotationKeepsChains,
           RotationKeepsNewestLast DEF Rotates
      <3>2. s \in SessionId /\ n \in SessionId /\ s # n /\ n \notin Row
        BY DEF Row, Fresh
      <3>3. \A t \in SessionId \ {s, n} : sessions'[t] = sessions[t]
        BY <1>1, <2>4, <3>2 DEF Rotates, Rotate
      <3>4. replayed' = replayed /\ ~sessions[s].revoked
        BY <2>4 DEF Rotates, Present
      <3>5. ReplayedOK'
        BY <1>1, <3>2, <3>3, <3>4 DEF ReplayedOK, Row
      <3>6. QED
        BY <3>1, <3>5
    <2>5. ASSUME NEW table \in [SessionId -> Session], NEW u \in User, NEW n \in Fresh,
                 NEW now \in Nat, Opens(table, u, n, now)
          PROVE  Good(sessions') /\ ReplayedOK'
      <3>1. /\ Rooted(table) /\ Good(table)
            /\ n \in SessionId /\ n \notin RowsOf(table) /\ n \notin Row
        BY <1>4, <2>5 DEF Opens, Fresh
      <3>2. Good(sessions')
        BY <2>5, <3>1, OpeningKeepsDeadlines, OpeningKeepsChains, OpeningKeepsNewestLast
           DEF Opens
      <3>3. \A t \in SessionId \ {n} : sessions'[t] = table[t]
        BY <2>5 DEF Opens
      <3>4. ReplayedOK'
        BY <1>1, <2>5, <3>1, <3>3 DEF Opens, OnlyRevokes, ReplayedOK, Row
      <3>5. QED
        BY <3>2, <3>4
    <2>6. QED
      BY <1>2, <2>1, <2>2, <2>3, <2>4, <2>5 DEF Writes, Begins
  <1>6. QED
    BY <1>2, <1>3, <1>5 DEF RotationInv, FamilyOK, Rooted, RevokedTogether, DeadlinesOK,
                            Chained, Linked, NewestLast, RowsOf

(* It holds in every reachable state.                                        *)
LEMMA RotationInvHolds == Spec => []RotationInv
  <1>1. Init => RotationInv
    <2> SUFFICES ASSUME Init PROVE RotationInv
      OBVIOUS
    <2>1. RowsOf(sessions) = {} /\ Row = {}
      BY DEF Init, Absent, RowsOf, Row
    <2>2. ReplayedOK /\ SnapshotsOK
      BY DEF Init, ReplayedOK, SnapshotsOK
    <2>3. QED
      BY <2>1, <2>2, FamiliesInitially DEF RotationInv, DeadlinesOK, Chained, NewestLast
  <1>2. TypeOK /\ RotationInv /\ [Next]_vars => RotationInv'
    BY RotationInvKept
  <1>3. QED
    BY <1>1, <1>2, TypeCorrect, PTL DEF Spec

(* In every reachable state each family is revoked as a whole or not at all, *)
(* unless revoke_user_sessions missed a row of it, and then the newer rows   *)
(* are the ones alive.                                                       *)
THEOREM FamiliesRevokedTogether == Spec => []FamilyRevokedTogether
  <1>1. RotationInv => FamilyRevokedTogether
    BY DEF RotationInv, FamilyOK, RevokedTogether, NewestLast, RowsOf,
           FamilyRevokedTogether, Row
  <1>2. QED
    BY <1>1, RotationInvHolds, PTL

(* However a session is refreshed, its family keeps one absolute deadline    *)
(* and one authentication time, and no row is created after it expires.      *)
THEOREM DeadlinesAreShared == Spec => []FamilySharesDeadline
  <1>1. RotationInv => FamilySharesDeadline
    <2> SUFFICES ASSUME RotationInv PROVE FamilySharesDeadline
      OBVIOUS
    <2>1. RowsOf(sessions) = Row
      BY DEF RowsOf, Row
    <2>2. FamilyIsRooted
      BY <2>1 DEF RotationInv, FamilyOK, Rooted, FamilyIsRooted
    <2>3. \A s \in Row :
             /\ Dated(sessions[s])
             /\ sessions[sessions[s].family].absolute = sessions[s].absolute
             /\ sessions[sessions[s].family].authenticated = sessions[s].authenticated
      BY <2>1 DEF RotationInv, DeadlinesOK
    <2>4. QED
      BY <2>2, <2>3 DEF FamilySharesDeadline, Dated
  <1>2. QED
    BY <1>1, RotationInvHolds, PTL

(* Rotation builds a chain: every used row has its own successor in its      *)
(* family, and at most one row of a family is left to rotate.                *)
THEOREM RotationsAreChains == Spec => []RotationIsAChain
  <1>1. RotationInv => RotationIsAChain
    <2> SUFFICES ASSUME RotationInv PROVE RotationIsAChain
      OBVIOUS
    <2>1. RowsOf(sessions) = Row /\ Chained(sessions)
      BY DEF RowsOf, Row, RotationInv
    <2>2. QED
      BY <2>1 DEF Chained, Linked, RotationIsAChain
  <1>2. QED
    BY <1>1, RotationInvHolds, PTL

(* A refresh token that is presented again after its exchange leaves nothing *)
(* of its family alive, unless revoke_user_sessions missed a row of it.      *)
THEOREM ReplaysEndFamilies == Spec => []ReplayEndsFamily
  <1>1. RotationInv => ReplayEndsFamily
    BY DEF RotationInv, ReplayedOK, FamilyOK, RevokedTogether, RowsOf, Row,
           ReplayEndsFamily
  <1>2. QED
    BY <1>1, RotationInvHolds, PTL

-----------------------------------------------------------------------------
(* The counter of failures and the lock of one account.                      *)
Counted(account) ==
    /\ account.failed <= MaxAttempts
    /\ account.lockedUntil # 0 <=> account.failed = MaxAttempts

(* A failure is only counted while no lock is in force, and forgets the      *)
(* count of a lock that is over; so it reaches the limit exactly when it     *)
(* locks.                                                                    *)
LEMMA CountingKeepsCount ==
    ASSUME NEW account \in Account, Counted(account), NEW now \in Nat,
           CanAuthenticate(account, now)
    PROVE  Counted(CountFailure(account, now))
  <1> DEFINE previous == IF account.lockedUntil # 0 /\ account.lockedUntil <= now
                         THEN 0 ELSE account.failed
             until == IF previous + 1 >= MaxAttempts THEN now + Lockout ELSE 0
             counted == CountFailure(account, now)
  <1>1. /\ account.failed \in Nat /\ account.lockedUntil \in Nat
        /\ account.lockedUntil <= now
    BY DEF Account, CanAuthenticate, Locked
  <1>2. previous \in Nat /\ previous < MaxAttempts
    BY <1>1, TimingAssumption DEF Counted
  <1>3. until # 0 <=> previous + 1 = MaxAttempts
    BY <1>2, TimingAssumption
  <1>4. counted = [account EXCEPT !.failed = previous + 1, !.lockedUntil = until]
    BY DEF CountFailure
  <1>5. counted.failed = previous + 1 /\ counted.lockedUntil = until
    BY <1>4 DEF Account
  <1> HIDE DEF previous, until, counted
  <1>6. Counted(counted)
    BY <1>2, <1>3, <1>5, TimingAssumption DEF Counted
  <1>7. QED
    BY <1>6 DEF counted

(* Clearing the failures, with or without a new password, and changing the   *)
(* status keep count and lock in step.                                       *)
LEMMA OtherWritesKeepCount ==
    ASSUME NEW account \in Account, Counted(account), NEW status
    PROVE  /\ Counted(ClearFailures(account))
           /\ Counted(RequirePasswordChange(account))
           /\ Counted(ActivatePassword(account))
           /\ Counted(DisablePassword(account))
           /\ Counted([account EXCEPT !.status = status])
  BY TimingAssumption
     DEF Counted, ClearFailures, ReplacePassword, RequirePasswordChange,
         ActivatePassword, DisablePassword, Account

CountsOK == \A u \in User : Counted(users[u])

(* Every step writes one account at most, in one of these ways.              *)
LEMMA CountsKept ==
    ASSUME TypeOK, CountsOK, [Next]_vars
    PROVE  CountsOK'
  <1>1. users \in [User -> Account] /\ Nows \subseteq Nat
    BY NowsAreTimes DEF TypeOK
  <1>2. ASSUME UNCHANGED users PROVE CountsOK'
    BY <1>2 DEF CountsOK, Counted
  <1>3. ASSUME NEW u \in User, NEW account, Counted(account),
               users' = [users EXCEPT ![u] = account]
        PROVE  CountsOK'
    BY <1>1, <1>3 DEF CountsOK, Counted
  <1>4. ASSUME NEW u \in User, NEW now \in Nows, RecordPasswordFailure(u, now)
        PROVE  CountsOK'
    <2>1. CASE UNCHANGED users
      BY <1>2, <2>1
    <2>2. ASSUME CanAuthenticate(users[u], now),
                 users' = [users EXCEPT ![u] = CountFailure(users[u], now)]
          PROVE  CountsOK'
      BY <1>1, <1>3, <2>2, CountingKeepsCount DEF CountsOK
    <2>3. QED
      BY <1>4, <2>1, <2>2 DEF RecordPasswordFailure
  <1>5. ASSUME NEW u \in User,
               \/ users' = [users EXCEPT ![u] = ClearFailures(@)]
               \/ users' = [users EXCEPT ![u] = RequirePasswordChange(@)]
               \/ users' = [users EXCEPT ![u] = ActivatePassword(@)]
               \/ users' = [users EXCEPT ![u] = DisablePassword(@)]
               \/ \E status : users' = [users EXCEPT ![u].status = status]
        PROVE  CountsOK'
    <2>1. users[u] \in Account /\ Counted(users[u])
      BY <1>1 DEF CountsOK
    <2>2. QED
      BY <1>3, <1>5, <2>1, OtherWritesKeepCount
  <1>6. ASSUME NEW u \in User, UserStep(u) PROVE CountsOK'
    BY <1>2, <1>4, <1>5, <1>6
       DEF UserStep, LoginFails, LoginSucceeds, LoginWithoutPassword, AutoLink,
           ResetPassword, ResetByLink, ActivateInvitation, ReplaceAndRevoke,
           UpdateStatus, RevokeUserSessionsBegins, RevokeUserSessionsEnds
  <1>7. ASSUME NEW s \in SessionId, SessionStep(s) PROVE CountsOK'
    <2>1. s \in Row => sessions[s].user \in User
      BY RowOwner
    <2>2. ASSUME NEW now \in Nows, ReauthenticationFails(s, now) PROVE CountsOK'
      BY <1>4, <2>1, <2>2 DEF ReauthenticationFails, ValidPrincipal
    <2>3. ASSUME NEW now \in Nows, ReauthenticationSucceeds(s, now) PROVE CountsOK'
      BY <1>5, <2>1, <2>3 DEF ReauthenticationSucceeds, ValidPrincipal
    <2>4. ASSUME NEW now \in Nows, NEW n \in SessionId, ChangePassword(s, n, now)
          PROVE  CountsOK'
      BY <1>5, <2>1, <2>4 DEF ChangePassword, ValidPrincipal
    <2>5. QED
      BY <1>2, <1>7, <2>2, <2>3, <2>4
         DEF SessionStep, RefreshRefused, RefreshEndsFamily, RefreshRotates, Logout
  <1>8. QED
    BY <1>2, <1>6, <1>7 DEF Next, Tick, vars

(* An account is marked locked exactly when its failures have reached the    *)
(* limit, which they never pass, whatever the handlers' clocks.              *)
THEOREM LocksAreFullCounts == Spec => []LockIsFullCount
  <1>1. Init => CountsOK
    BY TimingAssumption DEF Init, NewAccount, CountsOK, Counted
  <1>2. TypeOK /\ CountsOK /\ [Next]_vars => CountsOK'
    BY CountsKept
  <1>3. CountsOK => LockIsFullCount
    BY DEF CountsOK, Counted, LockIsFullCount
  <1>4. QED
    BY <1>1, <1>2, <1>3, TypeCorrect, PTL DEF Spec

=============================================================================
