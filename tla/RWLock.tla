------------------------------- MODULE RWLock -------------------------------
(***************************************************************************)
(* The reader/writer lock of src/lib/common/nvme_rwlock.h: one 32-bit      *)
(* counter, -1 while a writer holds it and the number of readers           *)
(* otherwise.  Both lock loops read the counter with a plain load and then *)
(* try nvme_atomic32_cmpset on the value they read, so another thread can  *)
(* run between the load and the compare-and-set.  A load that sees a value *)
(* the loop waits on (negative for a reader, non-zero for a writer)        *)
(* changes nothing and is left out.                                        *)
(***************************************************************************)
EXTENDS Integers, FiniteSets

CONSTANTS Procs, None

VARIABLES
  cnt,  \* rwl->cnt
  pc,   \* process -> "idle" | "r_load" | "r_cas" | "rcs" | "w_load" | "w_cas" | "wcs"
  x     \* process -> the counter value its last load returned

vars == <<cnt, pc, x>>

(* NVME_RWLOCK_INITIALIZER / nvme_rwlock_init *)
Init ==
  /\ cnt = 0
  /\ pc = [p \in Procs |-> "idle"]
  /\ x = [p \in Procs |-> 0]

Goto(p, l) == pc' = [pc EXCEPT ![p] = l]

(* A process calls nvme_rwlock_read_lock or nvme_rwlock_write_lock. *)
ReadLock(p)  == pc[p] = "idle" /\ Goto(p, "r_load") /\ UNCHANGED <<cnt, x>>
WriteLock(p) == pc[p] = "idle" /\ Goto(p, "w_load") /\ UNCHANGED <<cnt, x>>

(* Mutant: the reader does not wait while a writer holds the lock. *)
ReadLoadNoWriterCheck(p) ==
  /\ x' = [x EXCEPT ![p] = cnt]
  /\ Goto(p, "r_cas")

(* x = rwl->cnt; a non-negative value lets the reader try its CAS. *)
ReadLoad(p) ==
  /\ cnt >= 0
  /\ x' = [x EXCEPT ![p] = cnt]
  /\ Goto(p, "r_cas")

RLoad(p) == pc[p] = "r_load" /\ ReadLoad(p) /\ UNCHANGED cnt

(* Mutant: the compare-and-set is a plain store of x + 1. *)
ReadCasStore(p) == cnt' = x[p] + 1 /\ Goto(p, "rcs")

(* nvme_atomic32_cmpset(&rwl->cnt, x, x + 1); on failure, load again. *)
ReadCas(p) ==
  IF cnt = x[p] THEN cnt' = x[p] + 1 /\ Goto(p, "rcs")
                ELSE Goto(p, "r_load") /\ UNCHANGED cnt

RCas(p) == pc[p] = "r_cas" /\ ReadCas(p) /\ UNCHANGED x

(* nvme_rwlock_read_unlock: nvme_atomic32_dec *)
ReadUnlock(p) ==
  /\ pc[p] = "rcs"
  /\ cnt' = cnt - 1
  /\ Goto(p, "idle")
  /\ UNCHANGED x

(* x = rwl->cnt; only 0 lets the writer try its CAS. *)
WLoad(p) ==
  /\ pc[p] = "w_load"
  /\ cnt = 0
  /\ x' = [x EXCEPT ![p] = cnt]
  /\ Goto(p, "w_cas")
  /\ UNCHANGED cnt

(* nvme_atomic32_cmpset(&rwl->cnt, 0, -1); on failure, load again. *)
WCas(p) ==
  /\ pc[p] = "w_cas"
  /\ IF cnt = 0 THEN cnt' = -1 /\ Goto(p, "wcs")
                ELSE Goto(p, "w_load") /\ UNCHANGED cnt
  /\ UNCHANGED x

(* Mutant: the writer releases with nvme_atomic32_dec. *)
WriteReleaseDec == cnt' = cnt - 1

(* nvme_rwlock_write_unlock: nvme_atomic32_inc takes -1 back to 0. *)
WriteRelease == cnt' = cnt + 1

WriteUnlock(p) ==
  /\ pc[p] = "wcs"
  /\ WriteRelease
  /\ Goto(p, "idle")
  /\ UNCHANGED x

Next ==
  \E p \in Procs :
    \/ ReadLock(p) \/ RLoad(p) \/ RCas(p) \/ ReadUnlock(p)
    \/ WriteLock(p) \/ WLoad(p) \/ WCas(p) \/ WriteUnlock(p)

(***************************************************************************)
(* Fairness: runnable threads keep running their lock loops and holders    *)
(* eventually unlock; no thread is obliged to ask for the lock.            *)
(***************************************************************************)
Fairness ==
  \A p \in Procs :
    /\ WF_vars(RLoad(p)) /\ WF_vars(RCas(p)) /\ WF_vars(ReadUnlock(p))
    /\ WF_vars(WLoad(p)) /\ WF_vars(WCas(p)) /\ WF_vars(WriteUnlock(p))

Spec == Init /\ [][Next]_vars /\ Fairness

(***************************************************************************)
(* Properties                                                              *)
(***************************************************************************)

Labels == {"idle", "r_load", "r_cas", "rcs", "w_load", "w_cas", "wcs"}

TypeOK ==
  /\ cnt \in -1..Cardinality(Procs)
  /\ pc \in [Procs -> Labels]
  /\ x \in [Procs -> -1..Cardinality(Procs)]

Readers == {p \in Procs : pc[p] = "rcs"}
Writer  == IF \E p \in Procs : pc[p] = "wcs" THEN CHOOSE p \in Procs : pc[p] = "wcs" ELSE None

AbsRW == INSTANCE AbstractRWLock WITH readers <- Readers, writer <- Writer

(***************************************************************************)
(* The counter lock implements an abstract reader/writer lock: with the    *)
(* holders as readers and writer, each successful CAS is an acquire the    *)
(* abstract lock allows (no reader while a writer holds it, no writer      *)
(* while anyone does), each unlock a release, every other step invisible. *)
(***************************************************************************)
AbstractRWLockSpec == AbsRW!Spec

(***************************************************************************)
(* The counter says who holds the lock, across any interleaving of loads,  *)
(* CAS retries and unlocks: -1 exactly while a writer holds it, otherwise  *)
(* the number of readers inside.  A reader's CAS from a stale load must    *)
(* fail for this to hold.                                                  *)
(***************************************************************************)
CounterMatchesHolders ==
  cnt = IF Writer # None THEN -1 ELSE Cardinality(Readers)

(***************************************************************************)
(* Unfair, but deadlock-free: whenever a thread is in one of the lock      *)
(* loops, some thread eventually holds the lock.                           *)
(***************************************************************************)
DeadlockFree ==
  (\E p \in Procs : pc[p] \in {"r_load", "r_cas", "w_load", "w_cas"})
    ~> (\E p \in Procs : pc[p] \in {"rcs", "wcs"})

=============================================================================
