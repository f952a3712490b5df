------------------------------ MODULE MCGoogle ------------------------------
EXTENDS Google, TLC

Symmetry == Permutations(Process) \cup Permutations(Subject)
                \cup Permutations(Challenge)

=============================================================================
