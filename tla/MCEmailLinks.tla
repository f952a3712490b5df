---------------------------- MODULE MCEmailLinks ----------------------------
(***************************************************************************)
(* Finite instances of EmailLinks.  Accounts and link identifiers are      *)
(* interchangeable; the liveness run uses no symmetry.                     *)
(***************************************************************************)
EXTENDS EmailLinks, TLC

Symmetry == Permutations(User) \cup Permutations(LinkId)

=============================================================================
