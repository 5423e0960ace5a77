------------------------------ MODULE Allocator ------------------------------
(***************************************************************************)
(* The public allocation entry point nvme_mem_alloc_node (and               *)
(* nvme_malloc_node, which only drops the physical address) of             *)
(* src/lib/common/nvme_mem.c, composed with the memory pools of MemPool.   *)
(* A request (size, align, node) is validated, mapped to a size class and  *)
(* served by nvme_mem_pool_alloc of that class's pool.                     *)
(*                                                                         *)
(* Sizes and alignments are in bytes.  Size class c of MemPool is the pool *)
(* mm.mp[c] of slot size 2^(NVME_MP_SIZE_BITS_MIN + c); its slot unit is    *)
(* 2^NVME_MP_SIZE_BITS_MIN bytes, and the largest class holds one object   *)
(* per hugepage, as NVME_MP_SIZE_BITS_MAX is the hugepage size in the code. *)
(*                                                                         *)
(* NUMA: each client thread is pinned (sched_setaffinity) on the CPU       *)
(* ThreadCpu[t] of the machine; its socket, as nvme_node_id() sees it, is  *)
(* read from the topology table of Topology, which nvme_cpu_init fills     *)
(* before the memory subsystem starts.  nvme_mem_pool_grow asks for a hugepage *)
(* on mp->node_id, which nothing ever sets, and nvme_mem_alloc_hp turns    *)
(* node 0 into mbind(MPOL_PREFERRED, nodemask 0, maxnodes 1): an empty     *)
(* preferred set, i.e. the page is faulted in on the node of the thread    *)
(* running the memset.  hpNode records that node per hugepage descriptor.  *)
(***************************************************************************)
EXTENDS Integers, FiniteSets, FiniteSetsExt

CONSTANTS
  Threads, Frames, Classes, HP_UNITS, MaxHp, AllowDoubleFree, None,
  NVME_MP_SIZE_BITS_MIN,  \* log2 of the smallest pool's slot size
  NVME_NODE_ID_ANY,       \* the "any node" request value (UINT_MAX)
  NVME_CPU_MAX, NVME_SOCKET_MAX, Machines,  \* see Topology
  ThreadCpu,              \* thread -> the CPU it is pinned on
  Requests,               \* [size, align] pairs tried, in bytes
  ReqNodes                \* request node ids tried

VARIABLES
  phase, hpTmp, nrHp, hpTable, hp,
  useList, fullList, nrUse, nrFull, nrObjs, nrFreeObjs,
  pc, req, owned, released,
  hpNode,  \* descriptor id -> NUMA node its page was faulted in on
  res,     \* thread -> its last served request and the address returned
  cpui, cpuIdx, tpc, mach  \* the topology table and nvme_cpu_init's loop

MP == INSTANCE MemPool
Topo == INSTANCE Topology WITH i <- cpuIdx, UINT_MAX <- NVME_NODE_ID_ANY, Null <- None

Nodes == 0..NVME_SOCKET_MAX - 1

ASSUME \A m \in Machines : \A t \in Threads : ThreadCpu[t] \in m.present
ASSUME Classes = 0..Cardinality(Classes) - 1
ASSUME HP_UNITS = 2^(Cardinality(Classes) - 1)

poolState == <<phase, hpTmp, nrHp, hpTable, hp, useList, fullList, nrUse, nrFull,
               nrObjs, nrFreeObjs, pc, req, owned, released>>
allocVars == <<hpNode, res>>
topoVars == <<cpui, cpuIdx, tpc, mach>>
vars == <<poolState, allocVars, topoVars>>

(* NVME_MP_SIZE_BITS_MAX: the largest pool, one object per hugepage. *)
NVME_MP_SIZE_BITS_MAX == NVME_MP_SIZE_BITS_MIN + Cardinality(Classes) - 1

NoRes == [node |-> None, size |-> 0, align |-> 0, addr |-> None]

(***************************************************************************)
(* Integer helpers used by nvme_mem_alloc_node.                            *)
(***************************************************************************)
RECURSIVE AlignUpPow2(_, _)
AlignUpPow2(p, x) == IF p >= x THEN p ELSE AlignUpPow2(2 * p, x)

(* nvme_align_pow2: the smallest power of two not below x (x > 0). *)
nvme_align_pow2(x) == AlignUpPow2(1, x)

(* nvme_is_pow2 *)
nvme_is_pow2(x) == x > 0 /\ nvme_align_pow2(x) = x

(* nvme_log2 of a power of two *)
RECURSIVE nvme_log2(_)
nvme_log2(x) == IF x <= 1 THEN 0 ELSE 1 + nvme_log2(x \div 2)

(* Mutant: the pool is chosen from the size alone, the alignment dropped. *)
SizeClassIgnoringAlign(size, align) ==
  LET size_bits == nvme_log2(nvme_align_pow2(size))
  IN IF size_bits <= NVME_MP_SIZE_BITS_MIN THEN 0
     ELSE IF size_bits <= NVME_MP_SIZE_BITS_MAX THEN size_bits - NVME_MP_SIZE_BITS_MIN
     ELSE None

(***************************************************************************)
(* The pool index nvme_mem_alloc_node picks for a valid request, or None   *)
(* ("No memory pool") when max(size, align) exceeds the largest pool.      *)
(***************************************************************************)
SizeClass(size, align) ==
  LET size_bits == nvme_log2(nvme_align_pow2(Max({size, align})))
  IN IF size_bits <= NVME_MP_SIZE_BITS_MIN THEN 0
     ELSE IF size_bits <= NVME_MP_SIZE_BITS_MAX THEN size_bits - NVME_MP_SIZE_BITS_MIN
     ELSE None

(* The request checks of nvme_mem_alloc_node: a zero size or an alignment *)
(* that is not a power of two is refused.                                 *)
ValidRequest(size, align) == size # 0 /\ (align = 0 \/ nvme_is_pow2(align))

(* Mutant: an out-of-range node is only replaced when above the maximum. *)
NodeOfAbove(t, node) ==
  IF node = NVME_NODE_ID_ANY \/ node > cpui.nr_sockets
  THEN Topo!nvme_socket_id(ThreadCpu[t]) ELSE node

(* The node the request asks for: "any" or unknown nodes (at or above     *)
(* nvme_node_max(), i.e. cpui.nr_sockets) become the caller's socket,     *)
(* nvme_node_id().  The code computes it and then never uses it.          *)
NodeOf(t, node) ==
  IF node = NVME_NODE_ID_ANY \/ node >= cpui.nr_sockets
  THEN Topo!nvme_socket_id(ThreadCpu[t]) ELSE node

(* The node a hugepage faulted in by thread t lands on (mp->node_id = 0): *)
(* the physical socket of the CPU it runs on.                             *)
HugepageNode(t) == mach.socket[ThreadCpu[t]]

Init ==
  /\ Topo!Init
  /\ MP!Init
  /\ hpNode = [i \in MP!Ids |-> None]
  /\ res = [t \in Threads |-> NoRes]

(***************************************************************************)
(* nvme_mem_alloc_node refusing a request: invalid arguments or no pool   *)
(* large enough.  It returns NULL before any pool is touched.             *)
(***************************************************************************)
AllocRefused(t, size, align, node) ==
  /\ phase = "up"
  /\ pc[t] = "idle"
  /\ ~ValidRequest(size, align) \/ SizeClass(size, align) = None
  /\ UNCHANGED vars

(***************************************************************************)
(* nvme_mem_alloc_node serving a request from pool SizeClass(size, align)  *)
(* with nvme_mem_pool_alloc.  A hugepage created on the way is placed on   *)
(* the caller's node; a NULL return (grow failed) records no result.       *)
(***************************************************************************)
AllocNode(t, size, align, node) ==
  /\ ValidRequest(size, align)
  /\ SizeClass(size, align) # None
  /\ MP!Alloc(t, SizeClass(size, align))
  /\ hpNode' = [i \in MP!Ids |-> IF i \in hpTable' \ hpTable THEN HugepageNode(t)
                                                          ELSE hpNode[i]]
  /\ res' = [res EXCEPT ![t] =
               IF owned'[t] = owned[t] THEN NoRes
               ELSE [node |-> NodeOf(t, node), size |-> size, align |-> align,
                     addr |-> CHOOSE a \in owned'[t] \ owned[t] : TRUE]]
  /\ UNCHANGED topoVars

(* nvme_cpu_init runs first and once (spec: topology is established at    *)
(* startup, before the memory subsystem).                                  *)
Next ==
  \/ Topo!Next /\ UNCHANGED <<poolState, allocVars>>
  \/ Topo!Done /\ MP!MemInit /\ UNCHANGED <<allocVars, topoVars>>
  \/ MP!Cleanup /\ UNCHANGED <<allocVars, topoVars>>
  \/ \E t \in Threads, r \in Requests, n \in ReqNodes :
       AllocNode(t, r.size, r.align, n) \/ AllocRefused(t, r.size, r.align, n)
  \/ \E t \in Threads, a \in MP!Addr : MP!Free(t, a) /\ UNCHANGED <<allocVars, topoVars>>
  \/ \E t \in Threads : MP!FreeLocked(t) /\ UNCHANGED <<allocVars, topoVars>>

Spec == Init /\ [][Next]_vars

(***************************************************************************)
(* Properties                                                              *)
(***************************************************************************)

Res == {NoRes} \cup {[node |-> n, size |-> r.size, align |-> r.align, addr |-> a] :
                      n \in Nodes \cup {NVME_NODE_ID_ANY}, r \in Requests, a \in MP!Addr}

TypeOK ==
  /\ MP!TypeOK
  /\ hpNode \in [MP!Ids -> Nodes \cup {None}]
  /\ res \in [Threads -> Res]
  /\ Topo!TypeOK

(* Byte offset of an address in its hugepage, and the hugepage size. *)
ByteOffset(a) == a.o * 2^NVME_MP_SIZE_BITS_MIN
HpBytes == HP_UNITS * 2^NVME_MP_SIZE_BITS_MIN

(***************************************************************************)
(* Spec 8.4: an object returned by nvme_mem_alloc_node, while its caller   *)
(* holds it, starts on an align boundary (hugepages are mapped on a        *)
(* hugepage boundary) and its size bytes fit in the slot it was given,     *)
(* inside one hugepage.  This ties the pool choice of nvme_mem_alloc_node  *)
(* to the slot arithmetic of nvme_mem_pool_alloc.                          *)
(***************************************************************************)
AllocatedObjectFitsRequest ==
  \A t \in Threads :
    res[t].addr \in owned[t] =>
      \A i \in MP!SearchHp(res[t].addr) :
        LET off  == ByteOffset(res[t].addr)
            slot == 2^(NVME_MP_SIZE_BITS_MIN + hp[i].mp)
        IN /\ res[t].size <= slot
           /\ off + slot <= HpBytes
           /\ res[t].align = 0 \/ (HpBytes % res[t].align = 0 /\ off % res[t].align = 0)

(***************************************************************************)
(* The spec's NUMA-aware allocator: memory returned for a request on node  *)
(* n (or, for "any", on the caller's socket) is memory of node n, for as   *)
(* long as the caller holds it.                                            *)
(***************************************************************************)
AllocOnRequestedNode ==
  \A t \in Threads :
    res[t].addr \in owned[t] =>
      \A i \in MP!SearchHp(res[t].addr) : hpNode[i] = res[t].node

(***************************************************************************)
(* Spec 4.B, as the allocator relies on it: the topology table the         *)
(* allocator consults describes the machine (see Topology).                *)
(***************************************************************************)
TopologyMatchesMachine == Topo!TopologyMatchesMachine

=============================================================================
