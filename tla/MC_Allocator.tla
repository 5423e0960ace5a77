---------------------------- MODULE MC_Allocator ----------------------------
(* Model-checking instance of Allocator: two threads pinned on CPUs of the *)
(* two sockets of the machine; frames stay interchangeable.                *)
EXTENDS Allocator, TLC

CONSTANTS t1, t2  \* the two client threads, model values

(* t1 runs on CPU 1, t2 on CPU 2. *)
MC_ThreadCpu == (t1 :> 1) @@ (t2 :> 2)

(* A two-socket machine: CPUs 0 and 1 are the two hardware threads of     *)
(* core 0 of socket 0, CPU 2 is core 0 of socket 1, CPU 3 is not present. *)
SmtMachine ==
  [present |-> {0, 1, 2}, socket |-> (0 :> 0 @@ 1 :> 0 @@ 2 :> 1 @@ 3 :> 0),
   core |-> [c \in 0..3 |-> 0], nodes |-> {0, 1}]

MC_Machines == {SmtMachine}

(* The same machine with CPU 0 absent: an offline CPU, a gap in the CPU   *)
(* indices below the threads' CPUs.                                       *)
MC_GapMachines == {[SmtMachine EXCEPT !.present = {1, 2}]}

(* Requests around each pool boundary: a zero size, one byte, one byte   *)
(* past the small pool, one byte past the largest pool, and one byte with *)
(* a non-power-of-two, a hugepage-sized and a too large alignment.        *)
MC_Requests ==
  {[size |-> s, align |-> 0] : s \in {0, 1, 129, 257}} \cup
  {[size |-> 1, align |-> al] : al \in {3, 256, 512}}

(* One small request, for the node placement run. *)
MC_SmallRequest == {[size |-> 1, align |-> 0]}

Symmetry == Permutations(Frames)
=============================================================================
