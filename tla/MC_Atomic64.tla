----------------------------- MODULE MC_Atomic64 -----------------------------
(* Two threads on one counter of base 2: an increment from 1 to 2 carries   *)
(* from lo into hi, the case a torn load can split.                          *)
EXTENDS Atomic64, TLC

Symmetry == Permutations(Procs)

(* add_return/inc and sub_return/dec. *)
MC_Deltas == {1, -1}

=============================================================================
