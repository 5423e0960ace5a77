---------------------------- MODULE AbstractLock ----------------------------
(***************************************************************************)
(* What a mutual-exclusion lock promises its users: at most one owner,     *)
(* taken atomically when free and given back only by its owner.  The       *)
(* spinlock of src/lib/common/nvme_spinlock.h is shown to implement it.    *)
(***************************************************************************)
CONSTANTS Procs, None

VARIABLE owner  \* the process holding the lock, or None

Init == owner = None

Acquire(p) == owner = None /\ owner' = p

Release(p) == owner = p /\ owner' = None

Next == \E p \in Procs : Acquire(p) \/ Release(p)

Spec == Init /\ [][Next]_owner

=============================================================================
