\* Three threads on hp_lock (a holder, a spinner and a trylock caller) and
\* three on a rwlock (two readers racing a CAS from the same load, or a
\* writer slipping in between a reader's load and its CAS).  No symmetry:
\* liveness is checked.
CONSTANTS
  SpinProcs = {p1, p2, p3}
  RWProcs = {q1, q2, q3}
  None = None
SPECIFICATION Spec
INVARIANT TypeOK
INVARIANT CounterMatchesHolders
PROPERTY AbstractLockSpec
PROPERTY SpinDeadlockFree
PROPERTY AbstractRWLockSpec
PROPERTY RWDeadlockFree
