--------------------------- MODULE AbstractRWLock ---------------------------
(***************************************************************************)
(* What a reader/writer lock promises: any number of readers or a single   *)
(* writer, never both; each taken atomically and given back by its holder. *)
(* The counter lock of src/lib/common/nvme_rwlock.h is shown to implement  *)
(* it.                                                                     *)
(***************************************************************************)
CONSTANTS Procs, None

VARIABLES
  readers,  \* processes holding a read lock
  writer    \* process holding the write lock, or None

vars == <<readers, writer>>

Init == readers = {} /\ writer = None

AcquireRead(p) ==
  /\ writer = None
  /\ p \notin readers
  /\ readers' = readers \cup {p}
  /\ UNCHANGED writer

ReleaseRead(p) ==
  /\ p \in readers
  /\ readers' = readers \ {p}
  /\ UNCHANGED writer

AcquireWrite(p) ==
  /\ writer = None
  /\ readers = {}
  /\ writer' = p
  /\ UNCHANGED readers

ReleaseWrite(p) ==
  /\ writer = p
  /\ writer' = None
  /\ UNCHANGED readers

Next == \E p \in Procs :
          AcquireRead(p) \/ ReleaseRead(p) \/ AcquireWrite(p) \/ ReleaseWrite(p)

Spec == Init /\ [][Next]_vars

=============================================================================
