---------------------------- MODULE MCUtilQueue ----------------------------
EXTENDS UtilQueue, TLC

\* The sizes of the jobs in the instances: all the same.
MCJobSize == [j \in Jobs |-> 1]

\* Jobs whose size is not given.
MCNoSize == [j \in Jobs |-> 0]

Symmetry == Permutations(Jobs) \cup Permutations(Clients)
=============================================================================
