\* Two pools (128 B and 256 B slots, the 256 B one hugepage-sized), two
\* hugepage frames, two hugepage allocations per up phase, two sockets.
\* The requests straddle each pool boundary (MC_Requests); every request
\* names node 2, one past the last socket, which the code replaces by the
\* caller's socket.
\* The machine (SmtMachine) is two sockets, one of them with two hardware
\* threads on one core; the threads run on CPU 1 and CPU 2.
CONSTANTS
  t1 = t1
  t2 = t2
  Threads = {t1, t2}
  Frames = {f1, f2}
  Classes = {0, 1}
  HP_UNITS = 2
  MaxHp = 2
  AllowDoubleFree = FALSE
  None = None
  NVME_MP_SIZE_BITS_MIN = 7
  NVME_NODE_ID_ANY = 2147483647
  NVME_CPU_MAX = 4
  NVME_SOCKET_MAX = 2
  ThreadCpu <- MC_ThreadCpu
  Machines <- MC_Machines
  Requests <- MC_Requests
  ReqNodes = {2}
SPECIFICATION Spec
SYMMETRY Symmetry
INVARIANT TypeOK
INVARIANT AllocatedObjectFitsRequest
INVARIANT TopologyMatchesMachine
