----------------------- MODULE SessionAuthorityProofs -----------------------
(***************************************************************************)
(* What SessionAuthority promises holds for every set of accounts and      *)
(* families.                                                               *)
(***************************************************************************)
EXTENDS SessionAuthority, TLAPS

TypeOK ==
    /\ barred \subseteq User
    /\ open \in [User -> SUBSET Family]
    /\ closed \subseteq Family

IInv == TypeOK /\ AuthorityIsSound

(* Whatever opens, closes, exchanges or bars: no family is open for a barred *)
(* account, open again after it was closed, or open for two accounts.        *)
THEOREM AuthorityStaysSound == Spec => []AuthorityIsSound
  <1>1. Init => IInv
    BY DEF Init, IInv, TypeOK, AuthorityIsSound
  <1>2. IInv /\ [Next]_vars => IInv'
    <2> SUFFICES ASSUME IInv, [Next]_vars PROVE IInv'
      OBVIOUS
    <2> USE DEF IInv, TypeOK, AuthorityIsSound
    <2>1. ASSUME NEW u \in User, NEW f \in Family, Open(u, f) PROVE IInv'
      BY <2>1 DEF Open, Unborn
    <2>2. ASSUME NEW u \in User, NEW f \in Family, Exchange(u, f) PROVE IInv'
      BY <2>2 DEF Exchange, Unborn
    <2>3. ASSUME NEW u \in User, NEW F \in SUBSET open[u], Close(u, F) PROVE IInv'
      BY <2>3 DEF Close
    <2>4. ASSUME NEW u \in User, NEW F \in SUBSET open[u], CloseSome(u, F)
          PROVE  IInv'
      BY <2>4 DEF CloseSome
    <2>5. ASSUME NEW u \in User, Bar(u) PROVE IInv'
      BY <2>5 DEF Bar
    <2>6. CASE Unbar
      BY <2>6 DEF Unbar
    <2>7. CASE UNCHANGED vars
      BY <2>7 DEF vars
    <2>8. QED
      BY <2>1, <2>2, <2>3, <2>4, <2>5, <2>6, <2>7 DEF Next
  <1>3. IInv => AuthorityIsSound
    BY DEF IInv
  <1>4. QED
    BY <1>1, <1>2, <1>3, PTL DEF Spec

=============================================================================
