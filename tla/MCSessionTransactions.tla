----------------------- MODULE MCSessionTransactions -----------------------
(***************************************************************************)
(* Finite instances of SessionTransactions.  Requests are interchangeable, *)
(* and so are session identifiers; the liveness run uses no symmetry.      *)
(***************************************************************************)
EXTENDS SessionTransactions, TLC

Symmetry == Permutations(Process) \cup Permutations(SessionId)

=============================================================================
