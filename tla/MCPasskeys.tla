----------------------------- MODULE MCPasskeys -----------------------------
EXTENDS Passkeys, TLC

Symmetry == Permutations(Process) \cup Permutations(Account) \cup Permutations(Credential)
                \cup Permutations(Challenge)

=============================================================================
