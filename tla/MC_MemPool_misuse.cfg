\* Two clients, two frames, the same classes as MC_MemPool.cfg and three
\* hugepage allocations: enough for a class-0 heap to be freed by shrink and
\* its frame to be reused by a class-1 heap. Clients may also free addresses
\* they already freed.
CONSTANTS
  Threads = {t1, t2}
  Frames = {f1, f2}
  Classes = {0, 1}
  HP_UNITS = 2
  MaxHp = 3
  AllowDoubleFree = TRUE
  None = None
SPECIFICATION Spec
SYMMETRY Symmetry
INVARIANT PoolCountsConsistent
