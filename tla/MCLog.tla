-------------------------------- MODULE MCLog -------------------------------
(* Instances of Log for TLC. *)
EXTENDS Log, TLC

CONSTANTS p1, p2, p3, p4, b1, b2, b3, b4, d0, d1

Symmetry == Permutations(Procs) \cup Permutations(Blocks) \cup Permutations(Data)
=============================================================================
