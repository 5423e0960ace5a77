------------------------------ MODULE SpinLock ------------------------------
(***************************************************************************)
(* The test-and-set spinlock of src/lib/common/nvme_spinlock.h, used as    *)
(* mm.hp_lock around the hugepage hash table.  Each process loops          *)
(* lock / critical section / unlock, or tries the lock once with           *)
(* nvme_spinlock_trylock.                                                   *)
(*                                                                         *)
(* nvme_spin_lock is                                                       *)
(*     while (__sync_lock_test_and_set(&sl->locked, 1))                    *)
(*         while (sl->locked) nvme_pause();                                *)
(* so a waiter alternates one atomic exchange ("tas") with plain reads of  *)
(* the flag ("spin").  A read that sees 1 changes nothing and is left out. *)
(***************************************************************************)
EXTENDS Naturals

CONSTANTS Procs, None

VARIABLES
  locked,  \* sl->locked
  pc       \* process -> "idle" | "tas" | "spin" | "cs"

vars == <<locked, pc>>

(* NVME_SPINLOCK_INITIALIZER / nvme_spinlock_init *)
Init ==
  /\ locked = 0
  /\ pc = [p \in Procs |-> "idle"]

(* A process calls nvme_spin_lock. *)
Lock(p) ==
  /\ pc[p] = "idle"
  /\ pc' = [pc EXCEPT ![p] = "tas"]
  /\ UNCHANGED locked

(* Mutant: the exchange is a fetch-and-add, as __sync_fetch_and_add would be. *)
ExchangeAdd(p) ==
  /\ locked' = locked + 1
  /\ pc' = [pc EXCEPT ![p] = IF locked = 0 THEN "cs" ELSE "spin"]

(* Mutant: the exchange's old value is ignored, the caller always enters. *)
ExchangeIgnored(p) ==
  /\ locked' = 1
  /\ pc' = [pc EXCEPT ![p] = "cs"]

(* __sync_lock_test_and_set(&sl->locked, 1): old value 0 means acquired. *)
Exchange(p) ==
  /\ locked' = 1
  /\ pc' = [pc EXCEPT ![p] = IF locked = 0 THEN "cs" ELSE "spin"]

TestAndSet(p) == pc[p] = "tas" /\ Exchange(p)

(* The inner while (sl->locked) loop ends once it reads 0. *)
Spin(p) ==
  /\ pc[p] = "spin"
  /\ locked = 0
  /\ pc' = [pc EXCEPT ![p] = "tas"]
  /\ UNCHANGED locked

(* nvme_spinlock_trylock: one exchange, success iff the old value was 0. *)
TryLock(p) ==
  /\ pc[p] = "idle"
  /\ locked' = 1
  /\ pc' = [pc EXCEPT ![p] = IF locked = 0 THEN "cs" ELSE "idle"]

(* Mutant: the release does not clear the flag. *)
ReleaseNoClear(p) == pc' = [pc EXCEPT ![p] = "idle"] /\ UNCHANGED locked

(* __sync_lock_release(&sl->locked): store 0. *)
Release(p) == locked' = 0 /\ pc' = [pc EXCEPT ![p] = "idle"]

(* nvme_spin_unlock by the holder. *)
Unlock(p) == pc[p] = "cs" /\ Release(p)

Next == \E p \in Procs : Lock(p) \/ TestAndSet(p) \/ Spin(p) \/ TryLock(p) \/ Unlock(p)

(***************************************************************************)
(* Fairness: a runnable thread keeps being scheduled (weak fairness of its *)
(* spin-loop steps), and a holder leaves its critical section (hp_lock is  *)
(* held only around a hash-list insert, remove or bucket scan).  Nothing   *)
(* obliges a thread to ask for the lock.                                   *)
(***************************************************************************)
Fairness == \A p \in Procs : WF_vars(TestAndSet(p)) /\ WF_vars(Spin(p)) /\ WF_vars(Unlock(p))

Spec == Init /\ [][Next]_vars /\ Fairness

(***************************************************************************)
(* Properties                                                              *)
(***************************************************************************)

TypeOK ==
  /\ locked \in {0, 1}
  /\ pc \in [Procs -> {"idle", "tas", "spin", "cs"}]

(* The process in its critical section, as the abstract lock's owner. *)
Holder == IF \E p \in Procs : pc[p] = "cs" THEN CHOOSE p \in Procs : pc[p] = "cs" ELSE None

AbsLock == INSTANCE AbstractLock WITH owner <- Holder

(***************************************************************************)
(* The spinlock implements an abstract lock: under the mapping "owner is   *)
(* the process in its critical section", every step of nvme_spin_lock,     *)
(* nvme_spinlock_trylock and nvme_spin_unlock is an acquire of a free      *)
(* lock, a release by the owner, or invisible.  Mutual exclusion follows.  *)
(***************************************************************************)
AbstractLockSpec == AbsLock!Spec

(***************************************************************************)
(* The lock is deadlock-free though unfair: whenever some thread is inside *)
(* nvme_spin_lock, some thread eventually holds the lock.                  *)
(***************************************************************************)
DeadlockFree ==
  (\E p \in Procs : pc[p] \in {"tas", "spin"}) ~> (\E p \in Procs : pc[p] = "cs")

=============================================================================
