CONSTANTS
  Procs = {p1, p2}
  B = 2
  Vals = {0, 3}
  Deltas <- MC_Deltas
SPECIFICATION Spec
SYMMETRY Symmetry
INVARIANT ReadReturnsHeldValue
PROPERTY AtomicCounterSpec
