\* Node placement: one 1-byte request asked on node 0, on node 1 or on any
\* node, by two threads pinned on sockets 0 and 1.  The spec promises memory
\* of the requested node; TLC looks for an object on another node.
CONSTANTS
  t1 = t1
  t2 = t2
  Threads = {t1, t2}
  Frames = {f1, f2}
  Classes = {0, 1}
  HP_UNITS = 2
  MaxHp = 2
  AllowDoubleFree = FALSE
  None = None
  NVME_MP_SIZE_BITS_MIN = 7
  NVME_NODE_ID_ANY = 2147483647
  NVME_CPU_MAX = 4
  NVME_SOCKET_MAX = 2
  ThreadCpu <- MC_ThreadCpu
  Machines <- MC_Machines
  Requests <- MC_SmallRequest
  ReqNodes = {0, 1, 2147483647}
SPECIFICATION Spec
SYMMETRY Symmetry
INVARIANT AllocOnRequestedNode
