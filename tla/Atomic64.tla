------------------------------ MODULE Atomic64 ------------------------------
(***************************************************************************)
(* nvme_atomic64_t of src/lib/common/nvme_atomic.h as built without        *)
(* __LP64__.  There a plain load of the volatile int64_t is two 32-bit     *)
(* loads, in an order the compiler picks, so it can return halves of two   *)
(* different values.  read, set, init and clear therefore loop: load tmp,  *)
(* then __sync_bool_compare_and_swap(&v->cnt, tmp, new) (new = tmp for a  *)
(* read), until the CAS succeeds.  add/sub/inc/dec (_return) and           *)
(* test_and_set are single __sync builtins, atomic on the whole word.      *)
(*                                                                         *)
(* The counter is kept as halves lo and hi of base B (value hi * B + lo,   *)
(* modulo M = B * B): small, but an add can carry from lo into hi, which   *)
(* is what makes a torn load see a value the counter never held.           *)
(***************************************************************************)
EXTENDS Integers

CONSTANTS
  Procs,
  B,       \* base of one half
  Vals,    \* values nvme_atomic64_set is called with (0 covers init and clear)
  Deltas   \* increments of add/sub/inc/dec, e.g. {1, -1}

ASSUME B >= 2 /\ Vals \subseteq 0..B*B-1 /\ 0 \in Vals

M == B * B

VARIABLES
  lo, hi,  \* the two halves of v->cnt
  pc,      \* process -> "idle" | "load" | "cas"
  op,      \* process -> its current or last call: [kind, v |-> value to store]
  tmp,     \* process -> [lo, hi] loaded so far, Unloaded when not yet
  ret,     \* process -> value last returned
  seen     \* process -> values v->cnt held since its current call began

vars == <<lo, hi, pc, op, tmp, ret, seen>>

Unloaded == -1
NoTmp == [lo |-> Unloaded, hi |-> Unloaded]
Cur == hi * B + lo
ValOf(t) == t.hi * B + t.lo

Ops == [kind : {"read"}, v : {0}] \cup [kind : {"set"}, v : Vals]
Atomic(k) == [kind |-> k, v |-> 0]

(* NVME_ATOMIC64_INIT(0) *)
Init ==
  /\ lo = 0 /\ hi = 0
  /\ pc = [p \in Procs |-> "idle"]
  /\ op = [p \in Procs |-> [kind |-> "read", v |-> 0]]
  /\ tmp = [p \in Procs |-> NoTmp]
  /\ ret = [p \in Procs |-> 0]
  /\ seen = [p \in Procs |-> {0}]

(* The history of values each pending call sees, for ReadReturnsHeldValue. *)
Observe(p, new) ==
  seen' = [q \in Procs |->
             IF q = p THEN seen[q] \cup {new}
             ELSE IF pc[q] # "idle" THEN seen[q] \cup {new} ELSE seen[q]]

(* nvme_atomic64_read / _set / _init / _clear: enter the CAS loop. *)
Call(p) ==
  /\ pc[p] = "idle"
  /\ \E o \in Ops : op' = [op EXCEPT ![p] = o]
  /\ pc' = [pc EXCEPT ![p] = "load"]
  /\ seen' = [seen EXCEPT ![p] = {Cur}]
  /\ UNCHANGED <<lo, hi, tmp, ret>>

(* tmp = v->cnt: one 32-bit half at a time, in either order. *)
LoadHalf(p) ==
  /\ pc[p] = "load"
  /\ \E h \in {"lo", "hi"} :
       /\ tmp[p][h] = Unloaded
       /\ tmp' = [tmp EXCEPT ![p][h] = IF h = "lo" THEN lo ELSE hi]
  /\ pc' = [pc EXCEPT ![p] = IF Unloaded \in {tmp'[p].lo, tmp'[p].hi} THEN "load" ELSE "cas"]
  /\ UNCHANGED <<lo, hi, op, ret, seen>>

(* Mutant: the compare of the CAS is dropped (a plain 64-bit load/store). *)
MatchesAlways(p) == TRUE

(* The compare of __sync_bool_compare_and_swap(&v->cnt, tmp, ...). *)
Matches(p) == tmp[p].lo = lo /\ tmp[p].hi = hi

(* The CAS: on success a read returns tmp and a set stores its value;      *)
(* on failure the loop loads again.                                        *)
Cas(p) ==
  /\ pc[p] = "cas"
  /\ tmp' = [tmp EXCEPT ![p] = NoTmp]
  /\ IF Matches(p)
       THEN /\ pc' = [pc EXCEPT ![p] = "idle"]
            /\ IF op[p].kind = "read"
                 THEN /\ ret' = [ret EXCEPT ![p] = ValOf(tmp[p])]
                      /\ UNCHANGED <<lo, hi, seen>>
                 ELSE /\ lo' = op[p].v % B /\ hi' = op[p].v \div B
                      /\ Observe(p, op[p].v)
                      /\ UNCHANGED ret
       ELSE pc' = [pc EXCEPT ![p] = "load"] /\ UNCHANGED <<lo, hi, ret, seen>>
  /\ UNCHANGED op

(* Two's-complement addition on the whole word. *)
Sum(d) == (Cur + d) % M

(* nvme_atomic64_add_return / _sub_return (and add/sub/inc/dec):          *)
(* __sync_add_and_fetch, returning the new value.                          *)
AddReturn(p) ==
  /\ pc[p] = "idle"
  /\ \E d \in Deltas :
       /\ lo' = Sum(d) % B /\ hi' = Sum(d) \div B
       /\ ret' = [ret EXCEPT ![p] = Sum(d)]
       /\ Observe(p, Sum(d))
  /\ op' = [op EXCEPT ![p] = Atomic("add")]
  /\ UNCHANGED <<pc, tmp>>

(* nvme_atomic64_test_and_set: __sync_bool_compare_and_swap(&v->cnt, 0, 1). *)
TestAndSet(p) ==
  /\ pc[p] = "idle"
  /\ IF Cur = 0 THEN lo' = 1 % B /\ hi' = 1 \div B /\ ret' = [ret EXCEPT ![p] = 1] /\ Observe(p, 1)
               ELSE ret' = [ret EXCEPT ![p] = 0] /\ UNCHANGED <<lo, hi, seen>>
  /\ op' = [op EXCEPT ![p] = Atomic("tas")]
  /\ UNCHANGED <<pc, tmp>>

Next ==
  \E p \in Procs : Call(p) \/ LoadHalf(p) \/ Cas(p) \/ AddReturn(p) \/ TestAndSet(p)

Spec == Init /\ [][Next]_vars

(***************************************************************************)
(* Properties                                                              *)
(***************************************************************************)

(***************************************************************************)
(* A completed nvme_atomic64_read returns a value the counter really held  *)
(* at some instant of the call, however its two half-loads interleave with *)
(* concurrent adds, sets and test_and_sets.                                *)
(***************************************************************************)
ReadReturnsHeldValue ==
  \A p \in Procs : pc[p] = "idle" /\ op[p].kind = "read" => ret[p] \in seen[p]

Abs == INSTANCE AtomicCounter WITH c <- Cur

(***************************************************************************)
(* The CAS-loop counter is linearizable: with the value hi * B + lo, each  *)
(* successful CAS, add and test_and_set is one atomic step of an abstract  *)
(* counter, and half-loads and failed CASes are invisible.                 *)
(***************************************************************************)
AtomicCounterSpec == Abs!Spec

=============================================================================
