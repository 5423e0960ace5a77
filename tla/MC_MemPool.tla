---------------------------- MODULE MC_MemPool ----------------------------
(* Model-checking instance of MemPool: threads and frames are model values *)
(* and interchangeable, so TLC may use symmetry over both.                 *)
EXTENDS MemPool, TLC

Symmetry == Permutations(Threads) \cup Permutations(Frames)
=============================================================================
