-------------------------- MODULE SessionsRefinement --------------------------
(***************************************************************************)
(* The handlers of module Sessions implement SessionAuthority, for every   *)
(* set of accounts and rows, every timing constant and every lag.          *)
(*                                                                         *)
(* What a table shows of authority: the families that are open for each    *)
(* account, and those that are closed.  Lemmas say what each write of the  *)
(* table does to them, and what change of the abstract state that is; then *)
(* there is one case per handler.                                          *)
(***************************************************************************)
EXTENDS SessionsProofs

-----------------------------------------------------------------------------
LiveOf(table, u) == {s \in RowsOf(table) : table[s].user = u /\ ~table[s].revoked}

OpenOf(table, u) == {table[s].family : s \in LiveOf(table, u)}

Families(table) == {table[s].family : s \in RowsOf(table)}

(* What the abstract variables are, before a step and after it.              *)
LEMMA Mapping ==
    /\ Opened = [u \in User |-> OpenOf(sessions, u)]
    /\ Closed = Families(sessions) \ UNION {OpenOf(sessions, u) : u \in User}
    /\ Opened' = [u \in User |-> OpenOf(sessions', u)]
    /\ Closed' = Families(sessions') \ UNION {OpenOf(sessions', u) : u \in User}
  BY DEF Opened, Closed, OpenOf, LiveOf, Families, RowsOf, OpenFamilies, Row

-----------------------------------------------------------------------------
(* The abstract steps, as changes of what the tables show.                   *)

(* Nothing opens or closes, and whoever is barred was barred.                *)
LEMMA Unbarring ==
    ASSUME Opened' = Opened, Closed' = Closed, Barred' \subseteq Barred
    PROVE  Whole!Next
  <1>1. Whole!Unbar
    BY DEF Whole!Unbar, Barred, Opened, Closed
  <1>2. QED
    BY <1>1 DEF Whole!Next

(* An account in good standing opens a family, beside its others or in their *)
(* place.                                                                    *)
LEMMA Opening ==
    ASSUME NEW u \in User, u \notin Barred, Barred' = Barred,
           NEW f \in SessionId, f \notin Closed,
           \A v \in User : f \notin Opened[v],
           \/ Opened' = [Opened EXCEPT ![u] = @ \cup {f}] /\ Closed' = Closed
           \/ Opened' = [Opened EXCEPT ![u] = {f}] /\ Closed' = Closed \cup Opened[u]
    PROVE  Whole!Next
  <1>1. f \in Whole!Unborn
    BY DEF Whole!Unborn, Barred, Opened, Closed
  <1>2. Whole!Open(u, f) \/ Whole!Exchange(u, f)
    BY <1>1 DEF Whole!Open, Whole!Exchange, Barred, Opened, Closed
  <1>3. QED
    BY <1>2 DEF Whole!Next

(* revoke_user_sessions ends any of an account's families.                   *)
LEMMA ClosingSome ==
    ASSUME NEW u \in User, Barred' = Barred, NEW F \in SUBSET Opened[u],
           Opened' = [Opened EXCEPT ![u] = @ \ F], Closed' = Closed \cup F
    PROVE  Authority!Next
  <1>1. Authority!CloseSome(u, F)
    BY DEF Authority!CloseSome, Barred, Opened, Closed
  <1>2. QED
    BY <1>1 DEF Authority!Next, Barred, Opened, Closed

(* One family of an account ends, or all of them.                            *)
LEMMA Closing ==
    ASSUME NEW u \in User, Barred' = Barred,
           \/ \E f \in Opened[u] : /\ Opened' = [Opened EXCEPT ![u] = @ \ {f}]
                                    /\ Closed' = Closed \cup {f}
           \/ Opened' = [Opened EXCEPT ![u] = {}] /\ Closed' = Closed \cup Opened[u]
    PROVE  Whole!Next
  <1>1. PICK F \in SUBSET Opened[u] :
           /\ F \in {{f} : f \in Opened[u]} \cup {Opened[u]}
           /\ Opened' = [Opened EXCEPT ![u] = @ \ F]
           /\ Closed' = Closed \cup F
    <2>1. CASE \E f \in Opened[u] : /\ Opened' = [Opened EXCEPT ![u] = @ \ {f}]
                                    /\ Closed' = Closed \cup {f}
      BY <2>1
    <2>2. CASE Opened' = [Opened EXCEPT ![u] = {}] /\ Closed' = Closed \cup Opened[u]
      <3>1. Opened[u] \ Opened[u] = {}
        OBVIOUS
      <3>2. QED
        BY <2>2, <3>1
    <2>3. QED
      BY <2>1, <2>2
  <1>2. Whole!Close(u, F)
    BY <1>1 DEF Whole!Close, Barred, Opened, Closed
  <1>3. QED
    BY <1>1, <1>2 DEF Whole!Next, Barred, Opened, Closed

(* An account loses its right, and with it everything it had.                *)
LEMMA Barring ==
    ASSUME NEW u \in User, Barred' = Barred \cup {u},
           Opened' = [Opened EXCEPT ![u] = {}], Closed' = Closed \cup Opened[u]
    PROVE  Whole!Next
  <1>1. Whole!Bar(u)
    BY DEF Whole!Bar, Barred, Opened, Closed
  <1>2. QED
    BY <1>1 DEF Whole!Next

-----------------------------------------------------------------------------
(* What each write of the session table does to the open families.           *)

(* A family is open for one account, and a family that is open has rows.     *)
LEMMA OneOwner ==
    ASSUME NEW table, Rooted(table), NEW u \in User
    PROVE  /\ OpenOf(table, u) \subseteq Families(table)
           /\ \A v \in User : u # v => OpenOf(table, u) \cap OpenOf(table, v) = {}
  BY DEF OpenOf, LiveOf, Families, Rooted

(* An account's families stay, and none of them stays open.                  *)
LEMMA RevokingUser ==
    ASSUME NEW table \in [SessionId -> Session], NEW u \in User
    PROVE  /\ Families(RevokeUser(table, u)) = Families(table)
           /\ \A v \in User : OpenOf(RevokeUser(table, u), v)
                                 = IF v = u THEN {} ELSE OpenOf(table, v)
  <1> DEFINE new == RevokeUser(table, u)
  <1>1. \A s \in SessionId :
          /\ new[s].user = table[s].user
          /\ new[s].family = table[s].family
          /\ new[s].revoked <=> table[s].revoked \/ table[s].user = u
    BY RevokeUserRow
  <1> HIDE DEF new
  <1>2. RowsOf(new) = RowsOf(table) /\ RowsOf(table) \subseteq SessionId
    BY <1>1 DEF RowsOf
  <1>3. Families(new) = Families(table)
    BY <1>1, <1>2 DEF Families
  <1>4. ASSUME NEW v \in User
        PROVE  OpenOf(new, v) = IF v = u THEN {} ELSE OpenOf(table, v)
    <2>1. LiveOf(new, v) = IF v = u THEN {} ELSE LiveOf(table, v)
      BY <1>1, <1>2 DEF LiveOf
    <2>2. \A s \in LiveOf(table, v) : new[s].family = table[s].family
      BY <1>1, <1>2 DEF LiveOf
    <2>3. QED
      BY <2>1, <2>2 DEF OpenOf
  <1>5. QED
    BY <1>3, <1>4 DEF new

(* A family stays, and is no longer open for its account.                    *)
LEMMA RevokingFamily ==
    ASSUME NEW table \in [SessionId -> Session], Rooted(table),
           NEW s \in RowsOf(table), ~table[s].revoked
    PROVE  LET u == table[s].user
               f == table[s].family
           IN  /\ f \in OpenOf(table, u)
               /\ Families(RevokeFamily(table, f)) = Families(table)
               /\ \A v \in User : OpenOf(RevokeFamily(table, f), v)
                       = IF v = u THEN OpenOf(table, v) \ {f} ELSE OpenOf(table, v)
  <1> DEFINE u == table[s].user
             f == table[s].family
             new == RevokeFamily(table, f)
  <1>1. \A r \in SessionId :
          /\ new[r].user = table[r].user
          /\ new[r].family = table[r].family
          /\ new[r].revoked <=> table[r].revoked \/ table[r].family = f
    BY RevokeFamilyRow
  <1>2. \A r \in RowsOf(table) : table[r].family = f => table[r].user = u
    BY DEF Rooted
  <1>3. f \in OpenOf(table, u)
    BY DEF OpenOf, LiveOf
  <1> HIDE DEF new, f, u
  <1>4. RowsOf(new) = RowsOf(table) /\ RowsOf(table) \subseteq SessionId
    BY <1>1 DEF RowsOf
  <1>5. Families(new) = Families(table)
    BY <1>1, <1>4 DEF Families
  <1>6. ASSUME NEW v \in User
        PROVE  OpenOf(new, v) = IF v = u THEN OpenOf(table, v) \ {f} ELSE OpenOf(table, v)
    <2>1. LiveOf(new, v) = {r \in LiveOf(table, v) : table[r].family # f}
      BY <1>1, <1>4 DEF LiveOf
    <2>2. LiveOf(table, v) \subseteq RowsOf(table)
      BY DEF LiveOf
    <2>3. OpenOf(new, v) = {table[r].family : r \in LiveOf(new, v)}
      BY <1>1, <1>4, <2>1, <2>2 DEF OpenOf
    <2>4. OpenOf(new, v) = OpenOf(table, v) \ {f}
      BY <2>1, <2>3 DEF OpenOf
    <2>5. v # u => f \notin OpenOf(table, v)
      BY <1>2 DEF OpenOf, LiveOf
    <2>6. QED
      BY <2>4, <2>5
  <1>7. QED
    BY <1>3, <1>5, <1>6 DEF new, f, u

(* A new row that is named after itself opens a family nobody had.           *)
LEMMA OpeningFamily ==
    ASSUME NEW table \in [SessionId -> Session], Rooted(table), NEW u \in User,
           NEW n \in SessionId, n \notin RowsOf(table), NEW new,
           new[n].user = u, new[n].family = n, ~new[n].revoked,
           \A s \in SessionId : s # n => new[s] = table[s]
    PROVE  /\ n \notin Families(table)
           /\ Families(new) = Families(table) \cup {n}
           /\ \A v \in User : OpenOf(new, v)
                 = IF v = u THEN OpenOf(table, v) \cup {n} ELSE OpenOf(table, v)
  <1>1. RowsOf(new) = RowsOf(table) \cup {n} /\ RowsOf(table) \subseteq SessionId
    BY SentinelAssumption DEF RowsOf
  <1>2. \A s \in RowsOf(table) : new[s] = table[s]
    BY <1>1
  <1>3. n \notin Families(table)
    BY DEF Families, Rooted
  <1>4. Families(new) = Families(table) \cup {n}
    BY <1>1, <1>2 DEF Families
  <1>5. ASSUME NEW v \in User
        PROVE  OpenOf(new, v)
                 = IF v = u THEN OpenOf(table, v) \cup {n} ELSE OpenOf(table, v)
    <2>1. LiveOf(new, v) = IF v = u THEN LiveOf(table, v) \cup {n} ELSE LiveOf(table, v)
      BY <1>1, <1>2 DEF LiveOf
    <2>2. \A s \in LiveOf(table, v) : new[s] = table[s]
      BY <1>2 DEF LiveOf
    <2>3. QED
      BY <2>1, <2>2 DEF OpenOf
  <1>6. QED
    BY <1>3, <1>4, <1>5

(* Rotation opens and closes nothing.                                        *)
LEMMA Rotating ==
    ASSUME TypeOK, NEW p \in Row, ~sessions[p].revoked, NEW n \in Fresh, NEW now
    PROVE  LET new == Rotate(p, n, now)
           IN  /\ Families(new) = Families(sessions)
               /\ \A v \in User : OpenOf(new, v) = OpenOf(sessions, v)
  <1> DEFINE new == Rotate(p, n, now)
  <1>1. p \in SessionId /\ n \in SessionId /\ p # n
    BY DEF Row, Fresh
  <1>2. \A s \in SessionId :
          /\ s \notin {p, n} => new[s] = sessions[s]
          /\ s = p => /\ new[s].user = sessions[p].user
                      /\ new[s].family = sessions[p].family
                      /\ new[s].revoked = sessions[p].revoked
          /\ s = n => /\ new[s].user = sessions[p].user
                      /\ new[s].family = sessions[p].family
                      /\ ~new[s].revoked
    BY <1>1, RotateRow
  <1> HIDE DEF new
  <1>3. /\ RowsOf(new) = RowsOf(sessions) \cup {n} /\ RowsOf(sessions) \subseteq SessionId
        /\ p \in RowsOf(sessions) /\ n \notin RowsOf(sessions)
    BY <1>1, <1>2 DEF RowsOf, Row, Fresh
  <1>4. \A s \in RowsOf(sessions) : /\ new[s].user = sessions[s].user
                                     /\ new[s].family = sessions[s].family
                                     /\ new[s].revoked = sessions[s].revoked
    BY <1>2, <1>3
  <1>5. Families(new) = Families(sessions)
    BY <1>1, <1>2, <1>3, <1>4 DEF Families
  <1>6. ASSUME NEW v \in User PROVE OpenOf(new, v) = OpenOf(sessions, v)
    <2>1. LiveOf(new, v) = IF v = sessions[p].user THEN LiveOf(sessions, v) \cup {n}
                                                    ELSE LiveOf(sessions, v)
      BY <1>1, <1>2, <1>3, <1>4 DEF LiveOf
    <2>2. \A s \in LiveOf(sessions, v) : new[s].family = sessions[s].family
      BY <1>4 DEF LiveOf
    <2>3. v = sessions[p].user => p \in LiveOf(sessions, v)
      BY <1>3 DEF LiveOf
    <2>4. new[n].family = sessions[p].family
      BY <1>1, <1>2
    <2>5. QED
      BY <2>1, <2>2, <2>3, <2>4 DEF OpenOf
  <1>7. QED
    BY <1>5, <1>6 DEF new

-----------------------------------------------------------------------------
(* The two together: what each write of the tables is in the abstract.       *)

(* The accounts that are barred after one account row is written.            *)
LEMMA BarredAfter ==
    ASSUME TypeOK, NEW u \in User, NEW account, users' = [users EXCEPT ![u] = account],
           clock' = clock
    PROVE  Barred' = IF CanAuthenticate(account, clock) THEN Barred \ {u}
                                                       ELSE Barred \cup {u}
  BY DEF Barred, TypeOK, CanAuthenticate, Locked

(* The same accounts are barred while no account row is written.             *)
LEMMA BarredStays == UNCHANGED <<users, clock>> => Barred' = Barred
  BY DEF Barred, CanAuthenticate, Locked

(* Where no family opens or ends, none does in the abstract.                 *)
LEMMA SameFamilies ==
    ASSUME \/ sessions' = sessions
           \/ /\ Families(sessions') = Families(sessions)
              /\ \A v \in User : OpenOf(sessions', v) = OpenOf(sessions, v)
    PROVE  Opened' = Opened /\ Closed' = Closed
  BY Mapping

(* Revoking an account's sessions closes all that was open.                  *)
LEMMA ClosesAll ==
    ASSUME TypeOK, Rooted(sessions), NEW u \in User,
           sessions' = RevokeUser(sessions, u)
    PROVE  /\ Opened' = [Opened EXCEPT ![u] = {}]
           /\ Closed' = Closed \cup Opened[u]
  <1>1. /\ Families(sessions') = Families(sessions)
        /\ \A v \in User : OpenOf(sessions', v)
                                = IF v = u THEN {} ELSE OpenOf(sessions, v)
    BY RevokingUser DEF TypeOK
  <1>2. /\ OpenOf(sessions, u) \subseteq Families(sessions)
        /\ \A v \in User : u # v => OpenOf(sessions, u) \cap OpenOf(sessions, v) = {}
    BY OneOwner
  <1>3. Opened' = [Opened EXCEPT ![u] = {}]
    BY <1>1, Mapping
  <1>4. UNION {OpenOf(sessions', v) : v \in User}
          = (UNION {OpenOf(sessions, v) : v \in User}) \ OpenOf(sessions, u)
    BY <1>1, <1>2
  <1>5. Opened[u] = OpenOf(sessions, u)
       /\ OpenOf(sessions, u) \subseteq UNION {OpenOf(sessions, v) : v \in User}
    BY Mapping
  <1>6. Closed' = Closed \cup Opened[u]
    BY <1>1, <1>2, <1>4, <1>5, Mapping
  <1>7. QED
    BY <1>3, <1>6

(* Revoking a snapshot of an account's rows closes the families that have no *)
(* unrevoked row outside of it.                                              *)
LEMMA ClosesSome ==
    ASSUME TypeOK, Rooted(sessions), NEW u \in User, NEW rows, Snapshot(rows, u),
           sessions' = RevokeRows(sessions, rows)
    PROVE  \E F \in SUBSET Opened[u] : /\ Opened' = [Opened EXCEPT ![u] = @ \ F]
                                       /\ Closed' = Closed \cup F
  <1> DEFINE F == OpenOf(sessions, u) \ OpenOf(sessions', u)
             before == UNION {OpenOf(sessions, v) : v \in User}
             after == UNION {OpenOf(sessions', v) : v \in User}
  <1>1. \A s \in SessionId : /\ sessions'[s].user = sessions[s].user
                             /\ sessions'[s].family = sessions[s].family
                             /\ sessions'[s].revoked = (sessions[s].revoked \/ s \in rows)
    BY RevokeRowsRow DEF TypeOK
  <1>2. RowsOf(sessions') = RowsOf(sessions) /\ RowsOf(sessions) \subseteq SessionId
    BY <1>1 DEF RowsOf
  <1>3. Families(sessions') = Families(sessions)
    BY <1>1, <1>2 DEF Families
  <1>4. \A v \in User : LiveOf(sessions', v) = LiveOf(sessions, v) \ rows
    BY <1>1, <1>2 DEF LiveOf
  <1>5. ASSUME NEW v \in User
        PROVE  /\ OpenOf(sessions', v) \subseteq OpenOf(sessions, v)
               /\ v # u => OpenOf(sessions', v) = OpenOf(sessions, v)
    <2>1. \A s \in LiveOf(sessions, v) : sessions'[s].family = sessions[s].family
      BY <1>1, <1>2 DEF LiveOf
    <2>2. v # u => LiveOf(sessions', v) = LiveOf(sessions, v)
      BY <1>4 DEF LiveOf, Snapshot
    <2>3. QED
      BY <1>4, <2>1, <2>2 DEF OpenOf
  <1>6. /\ OpenOf(sessions, u) \subseteq Families(sessions)
        /\ \A v \in User : u # v => OpenOf(sessions, u) \cap OpenOf(sessions, v) = {}
    BY OneOwner
  <1>7. OpenOf(sessions', u) = OpenOf(sessions, u) \ F
    BY <1>5
  <1>8. F \subseteq OpenOf(sessions, u)
    OBVIOUS
  <1> HIDE DEF F
  <1>9. Opened[u] = OpenOf(sessions, u)
    BY Mapping
  <1>10. Opened' = [Opened EXCEPT ![u] = Opened[u] \ F]
    BY <1>5, <1>7, <1>9, Mapping
  <1>11. after = before \ F
    BY <1>5, <1>6, <1>7, <1>8
  <1>12. F \subseteq before
    BY <1>8
  <1>13. Closed = Families(sessions) \ before /\ Closed' = Families(sessions') \ after
    BY Mapping
  <1> HIDE DEF before, after
  <1>14. Closed' = Closed \cup F
    BY <1>3, <1>6, <1>8, <1>11, <1>12, <1>13
  <1>15. QED
    BY <1>8, <1>9, <1>10, <1>14

(* Revoking the family of a row that is not revoked closes that family.      *)
LEMMA ClosesOne ==
    ASSUME TypeOK, Rooted(sessions), NEW s \in Row, ~sessions[s].revoked,
           sessions' = RevokeFamily(sessions, sessions[s].family)
    PROVE  LET u == sessions[s].user
           IN  \E f \in Opened[u] : /\ Opened' = [Opened EXCEPT ![u] = @ \ {f}]
                                    /\ Closed' = Closed \cup {f}
  <1> DEFINE u == sessions[s].user
             f == sessions[s].family
  <1>1. u \in User /\ s \in RowsOf(sessions)
    BY RowOwner DEF RowsOf, Row
  <1>2. /\ f \in OpenOf(sessions, u)
        /\ Families(sessions') = Families(sessions)
        /\ \A v \in User : OpenOf(sessions', v)
             = IF v = u THEN OpenOf(sessions, v) \ {f} ELSE OpenOf(sessions, v)
    BY <1>1, RevokingFamily DEF TypeOK
  <1>3. /\ OpenOf(sessions, u) \subseteq Families(sessions)
        /\ \A v \in User : u # v => OpenOf(sessions, u) \cap OpenOf(sessions, v) = {}
    BY <1>1, OneOwner
  <1> HIDE DEF u, f
  <1>4. f \in Opened[u]
    BY <1>1, <1>2, Mapping
  <1>5. Opened' = [Opened EXCEPT ![u] = Opened[u] \ {f}]
    BY <1>1, <1>2, Mapping
  <1>6. UNION {OpenOf(sessions', v) : v \in User}
          = (UNION {OpenOf(sessions, v) : v \in User}) \ {f}
    <2>1. \A v \in User : OpenOf(sessions', v) = OpenOf(sessions, v) \ {f}
      BY <1>1, <1>2, <1>3
    <2>2. QED
      BY <2>1
  <1>7. f \in Families(sessions) /\ f \in UNION {OpenOf(sessions, v) : v \in User}
    BY <1>1, <1>2, <1>3
  <1>8. Closed' = Closed \cup {f}
    BY <1>2, <1>6, <1>7, Mapping
  <1>9. QED
    BY <1>4, <1>5, <1>8 DEF u

(* A family is opened beside the others of its account, or after they were   *)
(* revoked.                                                                  *)
LEMMA OpensOne ==
    ASSUME TypeOK, Rooted(sessions), NEW u \in User, NEW n \in SessionId,
           NEW now, NEW password, NEW table, table \in {sessions, RevokeUser(sessions, u)},
           OpenFamily(table, u, n, now, password)
    PROVE  /\ n \notin Closed
           /\ \A v \in User : n \notin Opened[v]
           /\ \/ Opened' = [Opened EXCEPT ![u] = @ \cup {n}] /\ Closed' = Closed
              \/ Opened' = [Opened EXCEPT ![u] = {n}] /\ Closed' = Closed \cup Opened[u]
  <1> DEFINE row == NewSession(u, n, now, now + AbsoluteTTL, now)
             all == UNION {OpenOf(sessions, v) : v \in User}
  <1>1. /\ sessions \in [SessionId -> Session] /\ table \in [SessionId -> Session]
    BY RevokeUserType DEF TypeOK
  <1>11. Rooted(table)
    <2>1. \A s \in SessionId :
             LET ended == RevokeUser(sessions, u)[s]
             IN  ended.user = sessions[s].user /\ ended.family = sessions[s].family
      BY <1>1, RevokeUserRow
    <2>2. RowsOf(RevokeUser(sessions, u)) = RowsOf(sessions)
      BY <2>1 DEF RowsOf
    <2>3. QED
      BY <2>1, <2>2 DEF Rooted, RowsOf
  <1>2. n \notin RowsOf(table)
    <2>1. n \notin RowsOf(sessions)
      BY DEF OpenFamily, Fresh, Row, RowsOf
    <2>2. QED
      BY <1>1, <2>1, RevokeUserRow DEF RowsOf
  <1>3. sessions' = [table EXCEPT ![n] = row] /\ row.user = u /\ row.family = n /\ ~row.revoked
    BY DEF OpenFamily, NewSession
  <1> HIDE DEF row
  <1>4. /\ n \notin Families(table)
        /\ Families(sessions') = Families(table) \cup {n}
        /\ \A v \in User : OpenOf(sessions', v)
              = IF v = u THEN OpenOf(table, v) \cup {n} ELSE OpenOf(table, v)
    <2>1. /\ sessions'[n].user = u /\ sessions'[n].family = n /\ ~sessions'[n].revoked
          /\ \A s \in SessionId : s # n => sessions'[s] = table[s]
      BY <1>1, <1>3
    <2>2. QED
      BY <1>1, <1>11, <1>2, <2>1, OpeningFamily
  <1>5. Families(table) = Families(sessions)
    BY <1>1, RevokingUser
  <1>6. \A v \in User : OpenOf(sessions, v) \subseteq Families(sessions)
    BY OneOwner
  <1>7. n \notin Closed /\ \A v \in User : n \notin Opened[v]
    BY <1>4, <1>5, <1>6, Mapping
  <1>8. CASE table = sessions
    <2>1. Opened' = [Opened EXCEPT ![u] = Opened[u] \cup {n}]
      BY <1>4, <1>8, Mapping
    <2>2. UNION {OpenOf(sessions', v) : v \in User} = all \cup {n}
      BY <1>4, <1>8
    <2>3. Closed' = Closed
      BY <1>4, <1>5, <2>2, Mapping
    <2>4. QED
      BY <1>7, <2>1, <2>3
  <1>9. CASE table = RevokeUser(sessions, u)
    <2>1. \A v \in User : OpenOf(table, v) = IF v = u THEN {} ELSE OpenOf(sessions, v)
      BY <1>1, <1>9, RevokingUser
    <2>2. \A v \in User : u # v => OpenOf(sessions, u) \cap OpenOf(sessions, v) = {}
      BY OneOwner
    <2>3. Opened' = [Opened EXCEPT ![u] = {n}]
      BY <1>4, <2>1, Mapping
    <2>4. UNION {OpenOf(sessions', v) : v \in User} = (all \ OpenOf(sessions, u)) \cup {n}
      BY <1>4, <2>1, <2>2
    <2>5. Opened[u] = OpenOf(sessions, u) /\ OpenOf(sessions, u) \subseteq all
      BY Mapping
    <2>6. Closed = Families(sessions) \ all
          /\ Closed' = Families(sessions') \ UNION {OpenOf(sessions', v) : v \in User}
      BY Mapping
    <2> HIDE DEF all
    <2>7. Closed' = Closed \cup Opened[u]
      BY <1>4, <1>5, <1>6, <2>4, <2>5, <2>6
    <2>8. QED
      BY <1>7, <2>3, <2>7
  <1>10. QED
    BY <1>8, <1>9

-----------------------------------------------------------------------------
(* The handlers.  What is known of the tables before each one: no family is  *)
(* open for two accounts, and none for an account that is barred.            *)
Sound ==
    /\ TypeOK
    /\ Rooted(sessions)
    /\ StandingOK
    /\ SnapshotsOK

(* A barred account has nothing open.                                        *)
LEMMA BarredHaveNothing ==
    ASSUME Sound, NEW u \in Barred
    PROVE  OpenOf(sessions, u) = {}
  <1>1. LiveOf(sessions, u) = {}
    BY DEF Sound, StandingOK, Standing, Barred, LiveOf, RowsOf
  <1>2. QED
    BY <1>1 DEF OpenOf

(* A handler that found an account able to authenticate still finds it so.   *)
LEMMA NotBarred ==
    ASSUME TypeOK, NEW u \in User, NEW now \in Nows, CanAuthenticate(users[u], now)
    PROVE  u \notin Barred /\ users[u].status = "active"
  <1>1. now \in Nat /\ clock \in Nat /\ now <= clock /\ users[u] \in Account
    BY NowsAreTimes DEF TypeOK
  <1>2. QED
    BY <1>1, StillStanding DEF Barred, CanAuthenticate

(* A failed password that is the last one allowed bars its account, or, when *)
(* its lock is already over at the latest clock, ends its sessions; any      *)
(* other leaves authority as it was.                                         *)
LEMMA FailureIsAbstract ==
    ASSUME Sound, NEW u \in User, NEW now \in Nows,
           RecordPasswordFailure(u, now), UNCHANGED clock
    PROVE  Whole!Next
  <1> DEFINE counted == CountFailure(users[u], now)
  <1>1. CASE UNCHANGED <<users, sessions>>
    BY <1>1, BarredStays, SameFamilies, Unbarring
  <1>2. ASSUME CanAuthenticate(users[u], now), users' = [users EXCEPT ![u] = counted],
               sessions' = IF counted.lockedUntil # 0
                           THEN RevokeUser(sessions, u) ELSE sessions
        PROVE  Whole!Next
    <2>1. u \notin Barred /\ users[u].status = "active"
      BY <1>2, NotBarred DEF Sound
    <2>2. Barred' = IF CanAuthenticate(counted, clock) THEN Barred \ {u} ELSE Barred \cup {u}
      BY <1>2, BarredAfter DEF Sound
    <2>3. CASE counted.lockedUntil = 0
      <3>1. CanAuthenticate(counted, clock)
        <4>1. users[u] \in Account /\ now \in Nat /\ clock \in Nat
          BY NowsAreTimes DEF Sound, TypeOK
        <4>2. QED
          BY <4>1, <2>1, <2>3, CountedStands
      <3>2. Opened' = Opened /\ Closed' = Closed
        BY <1>2, <2>3, SameFamilies
      <3>3. Barred' \subseteq Barred
        BY <2>2, <3>1
      <3>4. QED
        BY <3>2, <3>3, Unbarring
    <2>4. CASE counted.lockedUntil # 0
      <3>1. /\ Opened' = [Opened EXCEPT ![u] = {}]
            /\ Closed' = Closed \cup Opened[u]
        BY <1>2, <2>4, ClosesAll DEF Sound
      <3>2. Barred' = Barred \/ Barred' = Barred \cup {u}
        BY <2>1, <2>2
      <3>3. QED
        BY <3>1, <3>2, Closing, Barring
    <2>5. QED
      BY <2>3, <2>4
  <1>3. QED
    BY <1>1, <1>2 DEF RecordPasswordFailure

(* A family opened for an account that stays able to authenticate.           *)
LEMMA OpeningIsAbstract ==
    ASSUME Sound, NEW u \in User, NEW n \in SessionId, NEW now \in Nows, NEW password,
           NEW account, NEW table,
           CanAuthenticate(users[u], now), CanAuthenticate(account, clock),
           users' = [users EXCEPT ![u] = account], UNCHANGED clock,
           table \in {sessions, RevokeUser(sessions, u)},
           OpenFamily(table, u, n, now, password)
    PROVE  Whole!Next
  <1>1. u \notin Barred
    BY NotBarred DEF Sound
  <1>2. Barred' = Barred
    BY <1>1, BarredAfter DEF Sound
  <1>3. /\ n \notin Closed
        /\ \A v \in User : n \notin Opened[v]
        /\ \/ Opened' = [Opened EXCEPT ![u] = @ \cup {n}] /\ Closed' = Closed
           \/ Opened' = [Opened EXCEPT ![u] = {n}] /\ Closed' = Closed \cup Opened[u]
    BY OpensOne DEF Sound
  <1>4. QED
    BY <1>1, <1>2, <1>3, Opening

(* A replaced password lifts the lock.                                       *)
LEMMA ReplacedStands ==
    ASSUME NEW account \in Account, account.status = "active", NEW now \in Nat
    PROVE  /\ CanAuthenticate(RequirePasswordChange(account), now)
           /\ CanAuthenticate(ActivatePassword(account), now)
           /\ CanAuthenticate(DisablePassword(account), now)
  BY DEF RequirePasswordChange, ActivatePassword, DisablePassword, ReplacePassword,
         ClearFailures, CanAuthenticate, Locked, Account

(* A password reset ends every session; of a barred account, which has none, *)
(* it may lift the lock.                                                     *)
LEMMA ResetIsAbstract ==
    ASSUME Sound, NEW u \in User,
           NEW account \in {RequirePasswordChange(users[u]), ActivatePassword(users[u]),
                            DisablePassword(users[u])},
           ReplaceAndRevoke(u, account)
    PROVE  Whole!Next
  <1>1. /\ Opened' = [Opened EXCEPT ![u] = {}]
        /\ Closed' = Closed \cup Opened[u]
    BY ClosesAll DEF Sound, ReplaceAndRevoke
  <1>2. CASE u \in Barred
    <2>1. Opened[u] = {} /\ Opened = [v \in User |-> OpenOf(sessions, v)]
      BY <1>2, BarredHaveNothing, Mapping
    <2>2. Opened' = Opened /\ Closed' = Closed
      BY <1>1, <2>1
    <2>3. Barred' \subseteq Barred
      BY <1>2, BarredAfter DEF Sound, ReplaceAndRevoke
    <2>4. QED
      BY <2>2, <2>3, Unbarring
  <1>3. CASE u \notin Barred
    <2>1. CanAuthenticate(account, clock)
      <3>1. users[u].status = "active" /\ users[u] \in Account /\ clock \in Nat
        BY <1>3 DEF Barred, CanAuthenticate, Sound, TypeOK
      <3>2. QED
        BY <3>1, ReplacedStands
    <2>2. Barred' = Barred
      BY <1>3, <2>1, BarredAfter DEF Sound, ReplaceAndRevoke
    <2>3. QED
      BY <1>1, <2>2, Closing
  <1>4. QED
    BY <1>2, <1>3

(* Disabling an account bars it; enabling one lifts only that bar.           *)
LEMMA StatusIsAbstract ==
    ASSUME Sound, NEW u \in User, NEW status \in {"active", "disabled"},
           UpdateStatus(u, status)
    PROVE  Whole!Next
  <1> DEFINE account == [users[u] EXCEPT !.status = status]
  <1>1. users[u] \in Account /\ users' = [users EXCEPT ![u] = account] /\ clock' = clock
    BY DEF UpdateStatus, Sound, TypeOK
  <1>2. account.status = status /\ account.lockedUntil = users[u].lockedUntil
    BY <1>1 DEF Account
  <1> HIDE DEF account
  <1>3. Barred' = IF CanAuthenticate(account, clock) THEN Barred \ {u} ELSE Barred \cup {u}
    BY <1>1, BarredAfter DEF Sound
  <1>4. CASE status = "disabled"
    <2>1. /\ Opened' = [Opened EXCEPT ![u] = {}]
          /\ Closed' = Closed \cup Opened[u]
      BY <1>4, ClosesAll DEF Sound, UpdateStatus
    <2>2. Barred' = Barred \cup {u}
      BY <1>2, <1>3, <1>4 DEF CanAuthenticate
    <2>3. QED
      BY <2>1, <2>2, Barring
  <1>5. CASE status = "active"
    <2>1. Opened' = Opened /\ Closed' = Closed
      BY <1>5, SameFamilies DEF UpdateStatus
    <2>2. Barred' \subseteq Barred
      BY <1>2, <1>3, <1>5 DEF CanAuthenticate, Locked, Barred
    <2>3. QED
      BY <2>1, <2>2, Unbarring
  <1>6. QED
    BY <1>4, <1>5

(* Every step of the services but one is a step of the abstract              *)
(* specification, and that one is a CloseSome.                               *)
LEMMA StepIsAbstract ==
    ASSUME Sound, [Next]_vars
    PROVE  \/ Whole!Next
           \/ Authority!Next /\ SomeRevocationEnds
  <1>1. \A s \in Row : s \in SessionId /\ sessions[s].user \in User
    BY RowOwner DEF Sound
  <1>2. CASE Tick
    <2>1. Opened' = Opened /\ Closed' = Closed
      BY <1>2, SameFamilies DEF Tick
    <2>2. \A u \in User : CanAuthenticate(users[u], clock) => CanAuthenticate(users[u], clock')
      BY <1>2, StillStanding DEF Sound, TypeOK, Tick
    <2>3. Barred' \subseteq Barred
      BY <1>2, <2>2 DEF Tick, Barred, CanAuthenticate, Locked
    <2>4. QED
      BY <2>1, <2>3, Unbarring
  <1>3. ASSUME NEW u \in User, UserStep(u)
        PROVE  \/ Whole!Next
               \/ Authority!Next /\ SomeRevocationEnds
    <2>1. ASSUME NEW now \in Nows, LoginFails(u, now) PROVE Whole!Next
      BY <2>1, FailureIsAbstract DEF LoginFails
    <2>2. ASSUME NEW now \in Nows, NEW s \in SessionId, LoginSucceeds(u, s, now)
          PROVE  Whole!Next
      <3>1. CanAuthenticate(ClearFailures(users[u]), clock)
        <4>1. users[u] \in Account /\ clock \in Nat /\ users[u].status = "active"
          BY <2>2 DEF Sound, TypeOK, LoginSucceeds, CanAuthenticate
        <4>2. QED
          BY <4>1, ClearedStands
      <3>2. QED
        BY <2>2, <3>1, OpeningIsAbstract DEF LoginSucceeds
    <2>3. ASSUME NEW now \in Nows, NEW s \in SessionId, LoginWithoutPassword(u, s, now)
          PROVE  Whole!Next
      <3>1. CanAuthenticate(users[u], clock)
        BY <2>3, NotBarred DEF Sound, LoginWithoutPassword, Barred
      <3>2. users' = [users EXCEPT ![u] = users[u]]
        BY <2>3 DEF LoginWithoutPassword, Sound, TypeOK
      <3>3. QED
        BY <2>3, <3>1, <3>2, OpeningIsAbstract DEF LoginWithoutPassword
    <2>4. CASE ResetPassword(u) \/ ResetByLink(u) \/ ActivateInvitation(u)
      BY <2>4, ResetIsAbstract DEF ResetPassword, ResetByLink, ActivateInvitation
    <2>5. ASSUME NEW status \in {"active", "disabled"}, UpdateStatus(u, status)
          PROVE  Whole!Next
      BY <2>5, StatusIsAbstract
    <2>6. CASE RevokeUserSessionsBegins(u)
      BY <2>6, BarredStays, SameFamilies, Unbarring DEF RevokeUserSessionsBegins
    <2>7. ASSUME NEW rows \in revoking[u], RevokeUserSessionsEnds(u, rows)
          PROVE  Authority!Next /\ SomeRevocationEnds
      <3>1. Snapshot(rows, u)
        BY DEF Sound, SnapshotsOK
      <3>2. PICK F \in SUBSET Opened[u] : /\ Opened' = [Opened EXCEPT ![u] = @ \ F]
                                          /\ Closed' = Closed \cup F
        BY <2>7, <3>1, ClosesSome DEF Sound, RevokeUserSessionsEnds
      <3>3. Barred' = Barred
        BY <2>7, BarredStays DEF RevokeUserSessionsEnds
      <3>4. QED
        BY <2>7, <3>2, <3>3, ClosingSome DEF SomeRevocationEnds
    <2>8. ASSUME NEW now \in Nows, NEW s \in SessionId, AutoLink(u, s, now)
          PROVE  Whole!Next
      <3> DEFINE linked == DisablePassword(users[u])
      <3>1. /\ users' = [users EXCEPT ![u] = linked] /\ clock' = clock
            /\ CanAuthenticate(users[u], now)
            /\ OpenFamily(sessions, u, s, now, linked.password)
        BY <2>8 DEF AutoLink
      <3>2. CanAuthenticate(linked, clock)
        <4>1. users[u] \in Account /\ clock \in Nat /\ users[u].status = "active"
          BY <3>1 DEF Sound, TypeOK, CanAuthenticate
        <4>2. QED
          BY <4>1, ReplacedStands
      <3> HIDE DEF linked
      <3>3. QED
        BY <3>1, <3>2, OpeningIsAbstract
    <2>9. QED
      BY <1>3, <2>1, <2>2, <2>3, <2>4, <2>5, <2>6, <2>7, <2>8 DEF UserStep
  <1>4. ASSUME NEW s \in SessionId, SessionStep(s) PROVE Whole!Next
    <2>1. ASSUME NEW now \in Nows, ReauthenticationFails(s, now) PROVE Whole!Next
      BY <2>1, <1>1, FailureIsAbstract DEF ReauthenticationFails, ValidPrincipal
    <2>2. ASSUME NEW now \in Nows, ReauthenticationSucceeds(s, now) PROVE Whole!Next
      <3> DEFINE u == sessions[s].user
      <3>1. /\ u \in User /\ clock' = clock
            /\ users' = [users EXCEPT ![u] = ClearFailures(users[u])]
            /\ CanAuthenticate(users[u], now)
        BY <2>2, <1>1 DEF ReauthenticationSucceeds, ValidPrincipal
      <3>2. CanAuthenticate(ClearFailures(users[u]), clock)
        <4>1. users[u] \in Account /\ clock \in Nat /\ users[u].status = "active"
          BY <3>1 DEF Sound, TypeOK, CanAuthenticate
        <4>2. QED
          BY <4>1, ClearedStands
      <3>3. Barred' \subseteq Barred
        BY <3>1, <3>2, BarredAfter DEF Sound
      <3>4. Opened' = Opened /\ Closed' = Closed
        BY <2>2, SameFamilies DEF ReauthenticationSucceeds
      <3>5. QED
        BY <3>3, <3>4, Unbarring
    <2>3. ASSUME s \in Row, ~sessions[s].revoked, UNCHANGED <<users, clock>>,
                 sessions' = RevokeFamily(sessions, sessions[s].family)
          PROVE  Whole!Next
      <3>1. \E f \in Opened[sessions[s].user] :
               /\ Opened' = [Opened EXCEPT ![sessions[s].user] = @ \ {f}]
               /\ Closed' = Closed \cup {f}
        BY <2>3, ClosesOne DEF Sound
      <3>2. QED
        BY <2>3, <3>1, <1>1, BarredStays, Closing
    <2>4. ASSUME NEW now \in Nows, NEW csrfMatches \in BOOLEAN,
                 RefreshEndsFamily(s, now, csrfMatches)
          PROVE  Whole!Next
      BY <2>3, <2>4 DEF RefreshEndsFamily
    <2>5. ASSUME NEW now \in Nows, NEW n \in SessionId, RefreshRotates(s, n, now)
          PROVE  Whole!Next
      <3>1. Opened' = Opened /\ Closed' = Closed
        BY <2>5, Rotating, SameFamilies DEF RefreshRotates, Sound
      <3>2. QED
        BY <2>5, <3>1, BarredStays, Unbarring DEF RefreshRotates
    <2>6. ASSUME NEW now \in Nows, NEW n \in SessionId, ChangePassword(s, n, now)
          PROVE  Whole!Next
      <3> DEFINE u == sessions[s].user
                 changed == ActivatePassword(users[u])
      <3>1. /\ u \in User /\ clock' = clock
            /\ users' = [users EXCEPT ![u] = changed]
            /\ CanAuthenticate(users[u], now)
            /\ OpenFamily(RevokeUser(sessions, u), u, n, now, changed.password)
        BY <2>6, <1>1 DEF ChangePassword, ValidPrincipal
      <3>2. CanAuthenticate(changed, clock)
        <4>1. users[u] \in Account /\ clock \in Nat /\ users[u].status = "active"
          BY <3>1 DEF Sound, TypeOK, CanAuthenticate
        <4>2. QED
          BY <4>1, ReplacedStands
      <3> HIDE DEF u, changed
      <3>3. QED
        BY <3>1, <3>2, OpeningIsAbstract
    <2>7. CASE Logout(s)
      BY <2>3, <2>7 DEF Logout
    <2>8. CASE RefreshRefused(s)
      BY <2>8, BarredStays, SameFamilies, Unbarring DEF RefreshRefused
    <2>9. QED
      BY <1>4, <2>1, <2>2, <2>4, <2>5, <2>6, <2>7, <2>8 DEF SessionStep
  <1>5. CASE UNCHANGED vars
    BY <1>5, BarredStays, SameFamilies, Unbarring DEF vars
  <1>6. QED
    BY <1>2, <1>3, <1>4, <1>5 DEF Next

(* What the authority does without CloseSome, it does with it.               *)
LEMMA WholeIsAuthority == Whole!Next => Authority!Next
  BY DEF Whole!Next, Whole!Open, Whole!Exchange, Whole!Close, Whole!CloseSome, Whole!Bar,
         Whole!Unbar, Whole!Unborn, Authority!Next, Authority!Open, Authority!Exchange,
         Authority!Close, Authority!CloseSome, Authority!Bar, Authority!Unbar,
         Authority!Unborn

(* The empty table shows no family and bars nobody.                          *)
LEMMA InitIsAbstract == Init => Authority!Init
  <1> SUFFICES ASSUME Init PROVE Authority!Init
    OBVIOUS
  <1>1. Barred = {}
    BY DEF Init, Barred, CanAuthenticate, Locked, NewAccount
  <1>2. \A u \in User : OpenOf(sessions, u) = {}
    BY DEF Init, Absent, OpenOf, LiveOf, RowsOf
  <1>3. Opened = [u \in User |-> {}]
    BY <1>2, Mapping
  <1>4. Families(sessions) = {}
    BY DEF Init, Absent, Families, RowsOf
  <1>5. Closed = {}
    BY <1>4, Mapping
  <1>6. QED
    BY <1>1, <1>3, <1>5 DEF Authority!Init, Barred, Opened, Closed

(* The session services implement what they promise: every behaviour of the  *)
(* handlers is, seen through the families that are open and closed and the   *)
(* accounts that are barred, a behaviour of SessionAuthority; and every step *)
(* that is not the commit of revoke_user_sessions ends one family of an      *)
(* account, or all of them, or none.                                         *)
THEOREM SessionsImplementAuthority == Spec => ImplementsAuthority
  <1>1. Init => Authority!Init
    BY InitIsAbstract
  <1>2. TypeOK /\ RotationInv /\ StandingOK /\ [Next]_vars
          => [Authority!Next]_(Authority!vars) /\ [Whole!Next \/ SomeRevocationEnds]_vars
    BY StepIsAbstract, WholeIsAuthority DEF Sound, RotationInv, FamilyOK
  <1>3. Spec => Authority!Spec /\ [][Whole!Next \/ SomeRevocationEnds]_vars
    BY <1>1, <1>2, TypeCorrect, RotationInvHolds, StandingAlways, PTL
       DEF Spec, Authority!Spec
  <1>4. QED
    BY <1>3 DEF ImplementsAuthority

=============================================================================
