----------------------------- MODULE MCShellPublish -----------------------------
EXTENDS ShellPublish

Symmetry == Permutations(Call) \cup Permutations(Attempt)

=============================================================================
