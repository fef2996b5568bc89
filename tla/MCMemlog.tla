------------------------------ MODULE MCMemlog ------------------------------
EXTENDS Memlog, TLC

Symmetry == Permutations(Procs) \union Permutations(Inodes)
=============================================================================
