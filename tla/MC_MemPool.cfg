\* Two clients, three hugepage frames, a hugepage of two smallest slots and
\* two size classes: class 0 (two slots per heap) and class 1 (one slot per
\* heap, the hugepage-sized class).  Four hugepage allocations per up phase
\* let a pool grow a second heap, shrink one and grow again on a reused frame.
CONSTANTS
  Threads = {t1, t2}
  Frames = {f1, f2, f3}
  Classes = {0, 1}
  HP_UNITS = 2
  MaxHp = 4
  AllowDoubleFree = FALSE
  None = None
SPECIFICATION Spec
SYMMETRY Symmetry
INVARIANT TypeOK
INVARIANT HeapListsConsistent
INVARIANT PoolCountsConsistent
INVARIANT SlotsOwnedExactlyOnce
INVARIANT NoStaleDescriptor
INVARIANT AtMostOneEmptyHeap
