-------------------------- MODULE MCAdministrators --------------------------
EXTENDS Administrators, TLC

Symmetry == Permutations(Process) \cup Permutations(Account)

=============================================================================
