--------------------------- MODULE AtomicCounter ---------------------------
(***************************************************************************)
(* What nvme_atomic64_t promises: a counter modulo M whose every operation *)
(* takes effect at one instant.  ret[p] is what p's last read, add_return  *)
(* or test_and_set returned.                                               *)
(***************************************************************************)
EXTENDS Integers

CONSTANTS Procs, M, Vals, Deltas

VARIABLES c, ret

Init == c = 0 /\ ret = [p \in Procs |-> 0]

Read(p) == ret' = [ret EXCEPT ![p] = c] /\ UNCHANGED c

Set(p) == \E v \in Vals : c' = v /\ UNCHANGED ret

AddReturn(p) ==
  \E d \in Deltas : c' = (c + d) % M /\ ret' = [ret EXCEPT ![p] = c']

TestAndSet(p) ==
  IF c = 0 THEN c' = 1 /\ ret' = [ret EXCEPT ![p] = 1]
           ELSE ret' = [ret EXCEPT ![p] = 0] /\ UNCHANGED c

Next == \E p \in Procs : Read(p) \/ Set(p) \/ AddReturn(p) \/ TestAndSet(p)

Spec == Init /\ [][Next]_<<c, ret>>

=============================================================================
