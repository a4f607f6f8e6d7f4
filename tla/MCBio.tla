------------------------------- MODULE MCBio --------------------------------
\* Small instances of Bio.
EXTENDS Bio, TLC

CONSTANTS u1, u2, b1, b2, b3, b4, d0, d1

Symmetry == Permutations(Procs) \cup Permutations(Blocks) \cup Permutations(Data)
=============================================================================
