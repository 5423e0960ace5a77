------------------------------ MODULE Topology ------------------------------
(***************************************************************************)
(* CPU / NUMA topology discovery, src/lib/common/nvme_cpu.c and the        *)
(* inline queries of nvme_cpu.h.  nvme_cpu_init clears the global table    *)
(* cpui, counts the NUMA node directories, then walks CPU indices          *)
(* 0..NVME_CPU_MAX-1 and fills one descriptor per index.  nvme_get_cpu and *)
(* nvme_socket_id answer "which CPU / socket am I on" from that table.     *)
(*                                                                         *)
(* The sysfs tree the code reads is the machine, chosen once in Init from  *)
(* the constant set Machines and never changed (the code has no hot-plug   *)
(* handling).  A machine is a record:                                      *)
(*   present  the CPU indices whose topology/core_id file exists;          *)
(*   socket   physical_package_id of each CPU;                             *)
(*   core     core_id of each CPU;                                         *)
(*   nodes    the indices of the /sys/devices/system/node/nodeN dirs.      *)
(* File names, snprintf and the decimal parse are abstracted to the value  *)
(* read.                                                                   *)
(***************************************************************************)
EXTENDS Integers, FiniteSets

CONSTANTS
  NVME_CPU_MAX,     \* size of cpui.cpu[] (64 in the code)
  NVME_SOCKET_MAX,  \* bound of the node directory probe (32 in the code)
  UINT_MAX,         \* the unsigned value of -1
  Machines,         \* the sysfs topology trees considered
  Null              \* the NULL descriptor pointer

VARIABLES
  cpui,   \* struct nvme_cpu_info cpui
  i,      \* the loop index of nvme_cpu_init
  tpc,    \* "down" (static zero state), "scan" (in the loop), "done"
  mach    \* the machine the process runs on

vars == <<cpui, i, tpc, mach>>

Cpus == 0..NVME_CPU_MAX - 1

(* nvme_cpu_socket_id / nvme_cpu_core_id return an unsigned id. *)
ASSUME \A m \in Machines :
  /\ m.present \subseteq Cpus
  /\ m.nodes \subseteq 0..NVME_SOCKET_MAX - 1
  /\ \A c \in m.present : m.socket[c] \in Nat /\ m.core[c] \in Nat

(* NVME_SOCKET_ID_ANY is UINT_MAX; an absent CPU's id is -1 as unsigned. *)
NVME_SOCKET_ID_ANY == UINT_MAX

(* A zeroed struct nvme_cpu (static storage and the memset). *)
ZeroCpu == [id |-> 0, socket |-> 0, core |-> 0, thread |-> 0, present |-> FALSE]

ZeroInfo == [nr_cpus |-> 0, nr_sockets |-> 0, nr_cores |-> 0,
             cpu |-> [c \in Cpus |-> ZeroCpu]]

(***************************************************************************)
(* nvme_socket_count: the number of node directories node0, node1, ...     *)
(* before the first missing one, at most NVME_SOCKET_MAX.                  *)
(***************************************************************************)
nvme_socket_count(m) ==
  LET gaps == {s \in 0..NVME_SOCKET_MAX - 1 : s \notin m.nodes}
  IN IF gaps = {} THEN NVME_SOCKET_MAX
     ELSE CHOOSE s \in gaps : \A g \in gaps : s <= g

(* nvme_cpu_present: the CPU's topology/core_id file exists. *)
nvme_cpu_present(m, c) == c \in m.present

(* nvme_cpu_socket_id / nvme_cpu_core_id: the value of physical_package_id *)
(* and core_id.  (Their parse-failure return of 0 is not reached: the spec *)
(* has the files yield decimal integers.)                                  *)
nvme_cpu_socket_id(m, c) == m.socket[c]
nvme_cpu_core_id(m, c) == m.core[c]

(* Mutant: the sibling count also looks at index nr_cpus, i.e. <=. *)
ThreadIdInclusive(info, c) ==
  Cardinality({j \in 0..info.nr_cpus : j \in Cpus /\
                 info.cpu[j].socket = info.cpu[c].socket /\
                 info.cpu[j].core = info.cpu[c].core})

(***************************************************************************)
(* nvme_cpu_thread_id(c), called once cpu c's socket and core are stored:  *)
(* the number of table entries with index below cpui.nr_cpus on the same   *)
(* (socket, core).  The range is by count, not by index of present CPUs.   *)
(***************************************************************************)
nvme_cpu_thread_id(info, c) ==
  Cardinality({j \in 0..info.nr_cpus - 1 :
                 info.cpu[j].socket = info.cpu[c].socket /\
                 info.cpu[j].core = info.cpu[c].core})

(***************************************************************************)
(* nvme_get_cpu for a thread that sched_getcpu reports on CPU c: the       *)
(* descriptor, or NULL when c >= cpui.nr_cpus.  (A failing sched_getcpu,   *)
(* the other NULL return, is outside the model: threads are pinned.)      *)
(***************************************************************************)
nvme_get_cpu(c) == IF c >= cpui.nr_cpus THEN Null ELSE cpui.cpu[c]

(* nvme_socket_id: the caller's socket, or NVME_SOCKET_ID_ANY. *)
nvme_socket_id(c) ==
  IF nvme_get_cpu(c) = Null THEN NVME_SOCKET_ID_ANY ELSE nvme_get_cpu(c).socket

Init ==
  /\ cpui = ZeroInfo
  /\ i = 0
  /\ tpc = "down"
  /\ mach \in Machines

(* nvme_cpu_init entry: memset(&cpui, 0) and nr_sockets. *)
CpuInit ==
  /\ tpc = "down"
  /\ cpui' = [ZeroInfo EXCEPT !.nr_sockets = nvme_socket_count(mach)]
  /\ i' = 0
  /\ tpc' = "scan"
  /\ UNCHANGED mach

(* One iteration for an index whose core_id file is missing. *)
CpuAbsent ==
  /\ tpc = "scan"
  /\ i < NVME_CPU_MAX
  /\ ~nvme_cpu_present(mach, i)
  /\ cpui' = [cpui EXCEPT !.cpu[i].id = UINT_MAX, !.cpu[i].present = FALSE]
  /\ i' = i + 1
  /\ UNCHANGED <<tpc, mach>>

(***************************************************************************)
(* One iteration for a present CPU: id, socket and core are stored, then   *)
(* the thread index is computed over the table so far, then the counters.  *)
(***************************************************************************)
CpuPresent ==
  /\ tpc = "scan"
  /\ i < NVME_CPU_MAX
  /\ nvme_cpu_present(mach, i)
  /\ LET read == [cpui EXCEPT !.cpu[i].id = i, !.cpu[i].present = TRUE,
                              !.cpu[i].socket = nvme_cpu_socket_id(mach, i),
                              !.cpu[i].core = nvme_cpu_core_id(mach, i)]
         th   == nvme_cpu_thread_id(read, i)
     IN cpui' = [read EXCEPT !.cpu[i].thread = th,
                             !.nr_cpus = @ + 1,
                             !.nr_cores = IF th = 0 THEN @ + 1 ELSE @]
  /\ i' = i + 1
  /\ UNCHANGED <<tpc, mach>>

(* The loop test fails: nvme_cpu_init returns 0. *)
CpuInitDone ==
  /\ tpc = "scan"
  /\ i = NVME_CPU_MAX
  /\ tpc' = "done"
  /\ UNCHANGED <<cpui, i, mach>>

Next == CpuInit \/ CpuAbsent \/ CpuPresent \/ CpuInitDone

Spec == Init /\ [][Next]_vars /\ WF_vars(Next)

Done == tpc = "done"

(***************************************************************************)
(* Properties                                                              *)
(***************************************************************************)

CpuRec == [id : Cpus \cup {0, UINT_MAX}, socket : Nat, core : Nat,
           thread : 0..NVME_CPU_MAX, present : BOOLEAN]

TypeOK ==
  /\ cpui.nr_cpus \in 0..NVME_CPU_MAX
  /\ cpui.nr_cores \in 0..NVME_CPU_MAX
  /\ cpui.nr_sockets \in 0..NVME_SOCKET_MAX
  /\ cpui.cpu \in [Cpus -> CpuRec]
  /\ i \in 0..NVME_CPU_MAX
  /\ tpc \in {"down", "scan", "done"}
  /\ mach \in Machines

(* Reference topology: the hardware-thread index of a present CPU is the   *)
(* number of present CPUs before it on the same (socket, core).            *)
SiblingsBefore(m, c) ==
  Cardinality({d \in m.present : d < c /\ m.socket[d] = m.socket[c]
                                        /\ m.core[d] = m.core[c]})

PhysicalCores(m) == {<<m.socket[c], m.core[c]>> : c \in m.present}

(***************************************************************************)
(* Spec 4.B: once nvme_cpu_init has returned, every present CPU has its    *)
(* descriptor (id, socket, core, and as thread index the count of prior    *)
(* matches among present CPUs), the core count is the number of distinct   *)
(* (socket, core) pairs, and nvme_get_cpu on any present CPU returns that  *)
(* CPU's descriptor rather than the NULL sentinel.  This ties the          *)
(* count-bounded loop of nvme_cpu_thread_id and the nr_cpus range test of  *)
(* nvme_get_cpu to the CPU indices the kernel actually reports.            *)
(***************************************************************************)
TopologyMatchesMachine ==
  Done =>
    /\ \A c \in mach.present :
         /\ cpui.cpu[c] = [id |-> c, socket |-> mach.socket[c], core |-> mach.core[c],
                           thread |-> SiblingsBefore(mach, c), present |-> TRUE]
         /\ nvme_get_cpu(c) = cpui.cpu[c]
    /\ cpui.nr_cores = Cardinality(PhysicalCores(mach))

=============================================================================
