---------------------------- MODULE MCDiskCache ----------------------------
EXTENDS DiskCache, TLC

\* The processes differ in nothing but their names.
Sym == Permutations(Procs)
=============================================================================
