------------------------------- MODULE MC_Locks -------------------------------
(***************************************************************************)
(* The two locks of src/lib/common, checked side by side: the hp_lock      *)
(* spinlock (nvme_spinlock.h) contended by SpinProcs and a reader/writer   *)
(* lock (nvme_rwlock.h) shared by RWProcs.  The locks share no state, so   *)
(* each step is a step of one of them; both keep their own fairness.       *)
(***************************************************************************)
EXTENDS TLC

CONSTANTS SpinProcs, RWProcs, None

VARIABLES
  locked, spc,   \* the spinlock's flag and its threads' program counters
  cnt, rpc, x    \* the rwlock's counter, its threads' counters and loads

svars == <<locked, spc>>
rvars == <<cnt, rpc, x>>
vars  == <<locked, spc, cnt, rpc, x>>

S == INSTANCE SpinLock WITH Procs <- SpinProcs, pc <- spc
R == INSTANCE RWLock   WITH Procs <- RWProcs,   pc <- rpc

Init == S!Init /\ R!Init

Next ==
  \/ S!Next /\ UNCHANGED rvars
  \/ R!Next /\ UNCHANGED svars

Spec == Init /\ [][Next]_vars /\ S!Fairness /\ R!Fairness

(* Both locks keep their flag, counter and program counters in range. *)
TypeOK == S!TypeOK /\ R!TypeOK

(***************************************************************************)
(* nvme_spin_lock / nvme_spinlock_trylock / nvme_spin_unlock implement an  *)
(* abstract lock with the thread in its critical section as owner.         *)
(***************************************************************************)
AbstractLockSpec == S!AbstractLockSpec

(***************************************************************************)
(* The spinlock is deadlock-free: a thread inside nvme_spin_lock means     *)
(* some thread eventually holds hp_lock.                                   *)
(***************************************************************************)
SpinDeadlockFree == S!DeadlockFree

(***************************************************************************)
(* rwl->cnt is -1 exactly while a writer holds the lock and otherwise the  *)
(* number of readers inside, across stale loads and failed CAS retries.    *)
(***************************************************************************)
CounterMatchesHolders == R!CounterMatchesHolders

(***************************************************************************)
(* The counter lock implements an abstract reader/writer lock: each        *)
(* successful cmpset is an acquire the abstract lock allows.               *)
(***************************************************************************)
AbstractRWLockSpec == R!AbstractRWLockSpec

(***************************************************************************)
(* The rwlock is deadlock-free: a thread in either lock loop means some    *)
(* thread eventually holds the lock.                                       *)
(***************************************************************************)
RWDeadlockFree == R!DeadlockFree

=============================================================================
