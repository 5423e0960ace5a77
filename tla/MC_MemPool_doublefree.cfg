\* Same bounds as MC_MemPool_misuse.cfg; checks the spec's claim that a
\* double free is a detected no-op.
CONSTANTS
  Threads = {t1, t2}
  Frames = {f1, f2}
  Classes = {0, 1}
  HP_UNITS = 2
  MaxHp = 3
  AllowDoubleFree = TRUE
  None = None
SPECIFICATION Spec
PROPERTY DoubleFreeIsNoOp
