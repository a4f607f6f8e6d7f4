------------------------------ MODULE MCSched -------------------------------
\* Small instances of Sched.
EXTENDS Sched, TLC

CONSTANTS c1, c2

Symmetry == Permutations(Cpus)
=============================================================================
