\* Topology with a gap in the CPU indices: CPU 0 is offline, CPUs 1 and 2
\* (the threads' CPUs) are present.  Spec 4.B: each present CPU gets its
\* descriptor, thread index counted over prior present CPUs, and
\* current_cpu() returns its entry.  TLC looks for a present CPU whose
\* descriptor or nvme_get_cpu() answer is wrong after nvme_cpu_init.
CONSTANTS
  t1 = t1
  t2 = t2
  Threads = {t1, t2}
  Frames = {f1, f2}
  Classes = {0, 1}
  HP_UNITS = 2
  MaxHp = 2
  AllowDoubleFree = FALSE
  None = None
  NVME_MP_SIZE_BITS_MIN = 7
  NVME_NODE_ID_ANY = 2147483647
  NVME_CPU_MAX = 4
  NVME_SOCKET_MAX = 2
  ThreadCpu <- MC_ThreadCpu
  Machines <- MC_GapMachines
  Requests <- MC_Requests
  ReqNodes = {2}
SPECIFICATION Spec
SYMMETRY Symmetry
INVARIANT TopologyMatchesMachine
