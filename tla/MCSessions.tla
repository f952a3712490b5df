----------------------------- MODULE MCSessions -----------------------------
(***************************************************************************)
(* Finite instances of Sessions.  Identifiers are interchangeable, so both *)
(* sets are symmetric; no property tells two of them apart.                *)
(***************************************************************************)
EXTENDS Sessions, TLC

Symmetry == Permutations(User) \cup Permutations(SessionId)

=============================================================================
