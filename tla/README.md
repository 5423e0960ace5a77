# TLA+ models of libnvme's memory manager and runtime helpers

This directory holds TLA+ specifications of the user-space NVMe driver library
under `src/`. The models are checked with TLC. `PROJECT.json` lists:

- every component and its modelling status;
- every run, with the properties it checks;
- the mutants that show each property can fail;
- the map from each TLA+ definition to the source lines it translates;
- the findings and the hazards.

## 1. Inventory of the system

| Component | Source | State | Operations | Concurrency |
|---|---|---|---|---|
| Hugepage manager | `nvme_mem.c` 24-347, `nvme_mem.h` | `mm.hp_tmp` (atomic file counter), `mm.nr_hp`, the hash table `mm.hp_list[]` under `hp_lock`, and per hugepage its `vaddr`, `paddr`, `mp` and `heap` | `nvme_mem_alloc_hp`, `nvme_mem_free_hp`, `nvme_mem_search_hp`, `nvme_mem_hp_init`, `nvme_mem_hp_cleanup` | `hp_lock` (spinlock) around the table; alloc_hp runs under the caller's pool mutex |
| Memory pools | `nvme_mem.c` 352-558 | per size class: `use_list`, `full_list`, `nr_use`, `nr_full`, `nr_objs`, `nr_free_objs`; per heap: `bitmap`, `nr_free_objs` | `pool_grow`, `pool_alloc`, `pool_shrink`, `pool_free`, `nvme_free`, `nvme_mem_init`, `nvme_mem_cleanup` | pool mutex per size class; `nvme_free` looks up the hugepage under `hp_lock` and only then takes the pool mutex |
| Allocator entry points | `nvme_mem.c` 563-693 | none of its own | `nvme_mem_alloc_node` (size-class choice, NUMA node), `nvme_malloc_node`, `nvme_memstat` | memstat locks one pool at a time |
| Address translation | `nvme_mem.c` 633-662 | the pagemap fd | `nvme_mem_vtophys` | lock-free read after `search_hp` |
| Locks and atomics | `nvme_spinlock.h`, `nvme_rwlock.h`, `nvme_atomic.h` | `locked`, `cnt` | lock, trylock, unlock; read/write lock and unlock; CAS-based atomics | spinning CAS or test-and-set |
| CPU topology | `nvme_cpu.c`, `nvme_cpu.h` | `cpui` (CPUs, sockets, cores, threads) | `nvme_cpu_init`, `nvme_cpu_thread_id`, `nvme_get_cpu`, socket and node queries | init runs once; queries use `sched_getcpu` |
| Logging | `nvme_log.c` | `log.level`, `log.facility`, `log.file` | set/get facility and level, `nvme_vlog` | no lock at all |
| PCI helpers | `nvme_pci.c` | none | probe, config-space reads | sequential |
| `nvme_perf` tool | `tools/perf/*` | `free_ioq`, `pend_ioq`, `io_ofst`, `abort`, counters | submit loop, completion callback, run loop, SIGINT handler | a signal handler sets `abort` |
| `nvme_info` tool | `tools/info/*` | none | argument parsing, printing | sequential |

### How the components interact

- Every allocation goes through `nvme_mem_alloc_node`, which picks a size class and calls `nvme_mem_pool_alloc`.
- When no heap of the pool has a free slot, `pool_alloc` calls `pool_grow`. That calls `alloc_hp`, which creates a hugetlbfs file and maps it, translates it with `vtophys`, and inserts it in the hash table.
- `nvme_free` finds the hugepage in the hash table, reads its owning pool and heap, and calls `pool_free`. The pool lock is taken inside `pool_free`.
- Freeing the last object of a heap calls `pool_shrink`, which releases every empty heap of the pool except the first. A released heap's hugepage is unmapped, and the kernel may hand the same virtual range to the next `mmap`.
- The locks, the CPU topology and the log are used by all of the above.

### Hard behaviours

- Interleavings between threads that allocate and free in the same or different pools.
- The unlocked window in `nvme_free` and in `vtophys`, between the hash-table lookup and the use of the descriptor.
- Reuse of virtual addresses after a hugepage is unmapped.
- Failure in the middle of `pool_grow` or `alloc_hp`.
- Counter updates that must follow list moves.
- Cleanup with full heaps.
- Lock fairness.
- Unsynchronised log reconfiguration, racing a thread that is logging.
- A signal arriving between two steps of the perf submit loop.

## 2. Modules and their correspondence to the code

### `MemPool.tla` — hugepages and memory pools

Constants:

- `Threads`: the callers.
- `Frames`: virtual hugepage-sized ranges that `mmap` can return.
- `Classes`: size classes. Class `c` has slots of `2^c` units.
- `HP_UNITS`: the hugepage size in units.
- `MaxHp`: the bound on `mm.hp_tmp`, and so on the number of hugepages ever created.
- `AllowDoubleFree`: whether callers may pass an address they no longer hold.

An address is a record `[f, o]`: a frame and an offset in units. A hugepage descriptor is named by the value of `hp_tmp` that named its file (`Ids`).

| Variable | Code |
|---|---|
| `phase` | whether `nvme_mem_init` has run (`up`) or `nvme_mem_cleanup` has (`down`) |
| `hpTmp` | `mm.hp_tmp` |
| `nrHp` | `mm.nr_hp` |
| `hpTable` | the ids in `mm.hp_list[]` |
| `hp[i]` | `vaddr` as `frame`, `mp`, and the heap's `bitmap` and `nr_free_objs` |
| `useList[c]`, `fullList[c]` | the heap lists of `mm.mp[c]`, head first |
| `nrUse`, `nrFull`, `nrObjs`, `nrFreeObjs` | the pool counters |
| `pc[t]`, `req[t]` | a thread inside `nvme_free` (between the lookup and `pool_free`) or inside `nvme_mem_vtophys` (between the lookup and the read of `hp->paddr`) |
| `owned[t]` | the objects the caller holds (`released` is the last object freed, kept for the double-free property) |

`hp[i]` keeps its contents after the descriptor is freed, which models a later read of freed memory.

| Action | Code |
|---|---|
| `MemInit` | `nvme_mem_init`: the `memset` of `mm`, `HpInit` (the start of `nvme_mem_hp_init`) and `PoolsInit` (the pool loop). The subsystem comes up only if the pagemap opens and `HpInitResult` holds for the results of `nvme_mem_get_hp_dir` (`GetHpDirResults`: made the directory, or one of its three error returns), `nvme_mem_get_hp_size` (`GetHpSizeResults`: a size, or 0) and the `open` of the directory. A failure leaves `mm` zeroed and the subsystem down |
| `Alloc(t, c)` | `nvme_mem_pool_alloc`. It is one of: `AllocFromUse` (the head of the use list has a slot); `AllocGrow` (the use list is empty, `pool_grow` and `alloc_hp` succeed, and `mmap` returns any frame that is not currently mapped); `AllocGrowFails` (`hp_tmp` was incremented and the file could not be made or mapped). `TakeSlot` is the bit scan and the move to the full list. |
| `Free(t, a)` | the first half of `nvme_free`: the lookup under `hp_lock`, with `FreeInvalid` when none is found |
| `FreeLocked(t)` | `nvme_mem_pool_free` under the pool mutex: the double-free test, `clear_bit`, the move back from the full list, and `Shrink` (`pool_shrink(mp, false)`), which frees heaps with `FreeHeaps` (`free_hp`) |
| `Vtophys(t, a)`, `VtophysRead(t)` | `nvme_mem_vtophys` of an address the caller holds: `search_hp` under `hp_lock`, then, with no lock, `hp->paddr + vaddr - hp->vaddr` |
| `Cleanup` | `nvme_mem_cleanup`: moves full heaps to the use list, force-shrinks every pool, and runs `HpCleanup` (`nvme_mem_hp_cleanup`) |

Every pool operation is one atomic step, because the code holds the pool mutex for all of it and `alloc_hp`/`free_hp` take `hp_lock` inside it. The only places where another thread can run between two steps of one operation are the gaps in `nvme_free` and in `nvme_mem_vtophys`, each modelled as two actions. The pagemap path of `vtophys` (an address outside every hugepage) reads a kernel file and touches no shared state; it is not modelled.

### `Allocator.tla` — `nvme_mem_alloc_node` over the pools

`Allocator` instantiates `MemPool` as `MP` and `Topology` as `Topo` (its loop index renamed `cpuIdx`). Variables and constants of the same name are substituted implicitly. `nvme_cpu_init` runs to its end before `nvme_mem_init` may run: no code in `src/` calls either, and the spec establishes the topology once at startup, before any allocation. Besides the topology variables, it adds two:

- `hpNode[i]`: the NUMA node that hugepage `i` was faulted in on.
- `res[t]`: the last request thread `t` was served, with the address it got.

Its constants:

- `NVME_MP_SIZE_BITS_MIN`: the smallest pool is 2^7 = 128 B. Pool `c` has slots of 2^(7 + c) bytes, and the largest pool is hugepage-sized, as pool 14 is in the code.
- `ThreadCpu`: the CPU each pinned thread runs on. `nvme_node_max()` is `cpui.nr_sockets` and `nvme_node_id()` is `Topo!nvme_socket_id` of that CPU, both read from the table `nvme_cpu_init` built.
- `NVME_CPU_MAX`, `NVME_SOCKET_MAX`, `Machines`: as in `Topology`.
- `Requests`, `ReqNodes`: the `[size, align]` pairs and the node ids the clients try.

| Action | Code |
|---|---|
| `AllocRefused` | an early `return NULL` of `nvme_mem_alloc_node`: zero size, an alignment that is not a power of two, or no pool large enough. Nothing changes. |
| `AllocNode` | the rest of `nvme_mem_alloc_node`: `NodeOf` (the node substitution that is computed but not used), `SizeClass` (the `nvme_log2(nvme_align_pow2(max(size, align)))` pool choice), and `MP!Alloc` of that pool. A hugepage created on the way is placed by `HugepageNode`. |

`mp->node_id` is never set, so `alloc_hp(0)` calls `mbind` with `nodemask = 0, maxnodes = 1`. That is an empty preferred set, and the page is faulted in on the socket of the thread running the `memset`.

`HugepageNode(t)` is the physical socket of thread `t`'s CPU in the machine, not the table's view of it.

The helpers `nvme_log2`, `nvme_align_pow2` and `nvme_is_pow2` live in a header that is not in this tree. They are modelled from their names and the spec: a RECURSIVE `nvme_log2`, and the smallest power of two not below `x`.

### `Topology.tla` — CPU topology discovery

The sysfs tree is the constant `mach`, chosen in `Init` from `Machines`. A machine has `present` (the CPUs whose `topology/core_id` exists), `socket` and `core` (their `physical_package_id` and `core_id`) and `nodes` (the `node<N>` directories). File paths and the decimal parse are abstracted to the value read.

| Variable | Code |
|---|---|
| `cpui` | `struct nvme_cpu_info cpui`: `nr_cpus`, `nr_sockets`, `nr_cores` and `cpu[]` |
| `i` | the loop index of `nvme_cpu_init` |
| `tpc` | before the call (`down`, the static zero state), inside the loop (`scan`), returned (`done`) |

| Definition | Code |
|---|---|
| `CpuInit` | the `memset` and `nvme_socket_count` (node directories up to the first gap, at most `NVME_SOCKET_MAX`) |
| `CpuAbsent` | one iteration for a missing CPU: `id = -1` (`UINT_MAX`), `present = false` |
| `CpuPresent` | one iteration for a present CPU: `id`, `socket`, `core`, then `nvme_cpu_thread_id` over the table so far, then `nr_cpus++` and `nr_cores++` when the thread index is 0 |
| `CpuInitDone` | the loop test failing at `NVME_CPU_MAX` |
| `nvme_get_cpu(c)`, `nvme_socket_id(c)` | the descriptor of CPU `c` as `sched_getcpu` reports it, or `NULL`/`NVME_SOCKET_ID_ANY` when `c >= nr_cpus` |

`nvme_cpu_thread_id` counts entries with *index* below `nr_cpus`, and `nvme_get_cpu` refuses an index at or above `nr_cpus`; both equal the CPU indices only when the present CPUs are `0..n-1`. The reference definitions `SiblingsBefore` and `PhysicalCores` count over the present CPUs instead. A failing `sched_getcpu` is left out: the modelled threads are pinned.

### `SpinLock.tla`, `RWLock.tla`, `Atomic64.tla` — the synchronisation primitives

Each primitive is a step machine with one step per atomic instruction or plain load. Each is shown to implement an abstract module with `INSTANCE ... WITH`, and the abstract `Spec` is checked as a `PROPERTY`.

`MC_Locks.tla` checks the spinlock and the rwlock in one run. It instantiates both, with their program counters renamed (`spc`, `rpc`) and separate thread sets. A step of the product is a step of one lock with the other's variables unchanged, and each lock keeps its own fairness. The two locks share no state, so the product has exactly the behaviours of each lock on its own.

| Module | State | Actions | Refines |
|---|---|---|---|
| `SpinLock` | `locked` (`sl->locked`), `pc[p]` | `Lock`, `TestAndSet` (`__sync_lock_test_and_set`), `Spin` (the inner `while (sl->locked)` ending on 0), `TryLock`, `Unlock` (`__sync_lock_release`) | `AbstractLock`, with the owner = the process in its critical section |
| `RWLock` | `cnt` (`rwl->cnt`), `pc[p]`, `x[p]` (the value the loop loaded) | `ReadLock`/`WriteLock` (call), `RLoad`/`WLoad` (`x = rwl->cnt`, passing only a value the loop does not wait on), `RCas`/`WCas` (`nvme_atomic32_cmpset`, retry on failure), `ReadUnlock` (`atomic32_dec`), `WriteUnlock` (`atomic32_inc`) | `AbstractRWLock`, with the readers and the writer = the processes inside |
| `Atomic64` | `lo`, `hi` (the halves of `v->cnt`), `pc[p]`, `op[p]`, `tmp[p]`, `ret[p]` | `Call` (enter the CAS loop of read, set, init or clear), `LoadHalf` (one 32-bit half of the plain load, in either order), `Cas` (`__sync_bool_compare_and_swap`, retry on failure), `AddReturn` (`__sync_add_and_fetch`, covering add, sub, inc and dec), `TestAndSet` | `AtomicCounter`, with the value `hi * B + lo` |

Notes on these modules:

- A load that sees a value the loop waits on changes nothing, so it is left out.
- `Atomic64` models the non-`__LP64__` build, where the plain load of the `int64_t` is two loads.
- Its counter has base `B` = 2 per half. That is small, but an increment from 1 to 2 carries from `lo` into `hi`, which is the case a torn load can split.
- `seen[p]` is a history variable: the values the counter took during `p`'s current call.
- The 32-bit atomics are single builtins with nothing to interleave, and the barriers have no state, so they are not modelled.

### `IoQueue.tla`, `Perf.tla` — the `nvme_perf` tool

- **`IoQueue`** models the intrusive doubly linked lists of `nvme_perf.h`.
  - A state of both queues is a record: `head[q]`, `tail[q]`, `next[io]`, `prev[io]`.
  - `IoqAdd`, `IoqGet`, `IoqRemove` and `IoqEmpty` translate the four functions line by line. Each is an operator from one state to the next, so `Perf` composes them in the order the code calls them within one step.
  - `WellFormed(s)` says every queue is an acyclic list, with `prev` the inverse of `next`, disjoint queues, and unlinked I/Os on no queue.
- **`Perf`** models `main` from its call of `nvme_perf_init`, then `nvme_perf_run`.
  - `ioq` holds both lists. `free` and `pend` are the lists read from `head` along `next`.
  - `Init` is the state before `nvme_perf_init`, with both queues empty. `PerfInit` is `nvme_perf_init` up to its I/O loop. Its checks (`InitChecks`: the I/O size is a multiple of the sector size, and `qd <= max_qd`) can fail, and so can each call into libnvme; any failure ends the program. `PerfInitIo` is one turn of the loop: the buffer allocation may fail, and otherwise I/O `i` is added to `free_ioq` with `IoqAdd`. After I/O qd the run starts.
  - Nothing checks that an I/O fits in the namespace, so `Perf` keeps that as an `ASSUME` (hazard at `nvme_perf.c:474`).
  - A failed submission is `IoqAdd` to `pend_ioq`, then `IoqRemove` from it, then `IoqAdd` to `free_ioq`. A completion (`IoEnd`) is `IoqRemove` from `pend_ioq`, then `IoqAdd` to `free_ioq`.
  - Refinement: the two lists implement `FifoQueues`. A step takes the front of a queue, appends an I/O that is on no queue, or moves one I/O from any position of a queue to the end of another.
  - `device` is the set of I/Os the queue pair still owns.

  | Action | Code |
  |---|---|
  | `PerfInit`, `PerfInitIo` | `nvme_perf_init`: signal handlers, device, checks, queue pair, then the buffer loop |
  | `RunLoop` | the test of the `while` in `nvme_perf_run` |
  | `SubmitGet`, `SubmitCheck` | the two halves of `(io = ioq_get(&free_ioq)) && !nt.abort` |
  | `SubmitIo` | add to `pend_ioq`, `nvme_perf_set_io`, and the `nvme_ns_read`/`write` call with its success and failure paths |
  | `Complete(io)` | `nvme_ioqp_poll` reaping one completion, in any order, and running `nvme_perf_io_end` |
  | `Wait` | `while (ioq_empty(&free_ioq)) poll` |
  | `Drain` | `while (!ioq_empty(&pend_ioq)) poll` |
  | `Signal` | `nvme_perf_sigcatcher`, enabled between any two steps |
  | `Clock` | the run time elapsing |

  The read/write choice and the statistics change no queue state and are left out. Random offsets are any value in `0..nr_sectors - size`.

### `Log.tla` — the log sink

`Log` models `nvme_log.c`: the static `struct nvme_log log` and the functions that change it. None of them takes a lock. A control thread reconfigures the sink, while the threads in `Threads` log messages.

- A `FILE` is a number: `fopen` returns 1, 2, ... (bounded by `MaxFiles`), and 0 is NULL. `closed` holds the `FILE`s that have been `fclose`d.
- The eight levels are 0 (emerg) to 7 (debug), in the order of the `nvme_emerg` ... `nvme_debug` macros of `nvme_log.h`. The enum values themselves are in a header that is not in this tree.

| Action | Code |
|---|---|
| `SetLogFacilityClose(fac)` | `nvme_set_log_facility` entering `nvme_close_log`: `fflush` and `fclose` of the current `FILE` (the `closelog` of the syslog case changes no modelled state) |
| `CloseLogReset` | the rest of `nvme_close_log`: `log.file = NULL` for a `FILE` sink, `log.facility = NVME_LOG_STDOUT` |
| `SetLogFacilityOpen` | the switch on the new facility: stdout; `fopen`, which may fail; `openlog`; an invalid value. A failure falls back to stdout with no file |
| `SetLogLevel(l)` | `nvme_set_log_level`, which ignores a value outside emerg..debug |
| `VlogStart(t, l)` | a `nvme_<level>` macro of `nvme_log.h` (`LogMacroLevel` gives the level each passes; `LogMacros` are the ones the threads use) calling `nvme_log`, which enters `nvme_vlog`: `FILE *f = log.file` |
| `VlogLevel(t)` | `if (level > log.level) return` |
| `VlogFacility(t)` | `switch (log.facility)`: stdout and syslog finish the call; a `FILE` sink goes on to write if `f` is not NULL |
| `VlogWrite(t)` | `vfprintf(f, ...)` and `fflush(f)` |

Each of these steps reads or writes one field of `log`, so the model interleaves the threads at the points where the compiled code can. The getters change nothing and are left out. So are the message text and the syslog call.

## 3. Runs

| Run | cfg | Bounds | Checks | Result |
|---|---|---|---|---|
| `mempool_core` | `MC_MemPool.cfg` | 2 threads, 3 frames, classes {0,1}, `HP_UNITS` = 2, `MaxHp` = 4; symmetry on threads and frames | `TypeOK`, `HeapListsConsistent`, `PoolCountsConsistent`, `SlotsOwnedExactlyOnce`, `NoStaleDescriptor` (for both `nvme_free` and `vtophys`), `AtMostOneEmptyHeap` | passes, about 444 000 distinct states in about 40 s |
| `mempool_misuse` | `MC_MemPool_misuse.cfg` | 2 frames, `MaxHp` = 3, `AllowDoubleFree` | `PoolCountsConsistent` under invalid and repeated frees | passes |
| `double_free` | `MC_MemPool_doublefree.cfg` | as misuse | `DoubleFreeIsNoOp` | violated (finding 1) |
| `allocator_fit` | `MC_Allocator.cfg` | the machine `SmtMachine` (CPUs 0 and 1 are two hardware threads of socket 0, core 0; CPU 2 is socket 1; CPU 3 absent; `NVME_CPU_MAX` = 4, node directories 0 and 1 with `NVME_SOCKET_MAX` = 2), 2 threads on CPUs 1 and 2, 2 frames, `MaxHp` = 2, pools of 128 B and 256 B; requests of 0, 1, 129 and 257 bytes, and alignments of 3, 256 and 512; node 2 (out of range) | `TypeOK`, `AllocatedObjectFitsRequest`, `TopologyMatchesMachine` | passes, about 60 500 distinct states |
| `topology_gaps` | `MC_Allocator_topology.cfg` | as above, with CPU 0 offline (present CPUs 1 and 2) | `TopologyMatchesMachine` | violated (finding 7) |
| `numa_placement` | `MC_Allocator_numa.cfg` | as above, with a 1-byte request on node 0, node 1 or "any" | `AllocOnRequestedNode` | violated (finding 3) |
| `locks` | `MC_Locks.cfg` | 3 threads on the spinlock, 3 on the rwlock | `TypeOK`, `CounterMatchesHolders`, `AbstractLockSpec`, `SpinDeadlockFree`, `AbstractRWLockSpec`, `RWDeadlockFree` | passes, about 223 000 states in about 70 s |
| `atomic64` | `MC_Atomic64.cfg` | 2 processes, halves of base 2, set values {0, 3}, deltas ±1; symmetry on processes | `ReadReturnsHeldValue`, `AtomicCounterSpec` | passes, about 173 000 states |
| `perf_loop` | `MC_Perf.cfg` | qd 3 (`max_qd` 3), a 4-sector namespace, I/Os of 2 sectors, random and sequential, with init failing at each step | `TypeOK`, `PendingMatchesDevice`, `ListWellFormed`, `FifoQueuesSpec`, `RunTerminates` | passes, 24 972 states |
| `perf_overrun` | `MC_Perf_overrun.cfg` | qd 2, a 3-sector namespace, I/Os of 2 sectors, sequential | `IoWithinNamespace` | violated (finding 5) |
| `perf_hang` | `MC_Perf_hang.cfg` | qd 1 (the default), sequential | `RunTerminates` | violated (finding 4) |
| `log_race` | `MC_Log.cfg` | 2 logging threads, messages from `nvme_emerg` and `nvme_debug`, `MaxFiles` = 2 | `NoWriteToClosedFile` | violated (finding 8), 8 steps |

Why the bounds are enough:

- Class 0 has two slots per hugepage and class 1 has one. So there are heaps that become full, heaps that are full from birth, and heaps that go from full straight to empty.
- Three frames let two hugepages live at once while a third is created, and let a frame be reused by the other class.
- `MaxHp` = 4 allows a hugepage to be released and replaced twice.
- Two threads are enough for the `nvme_free` window: one thread is between lookup and lock while the other frees the last object and shrinks the pool.

Every action and every disjunct of `FreeLocked` is reached by the two passing runs. The double-free branch is reached only in the misuse run.

### Findings

1. **Undetected double free after address reuse** (`nvme_mem.c:530`).
   - A class-0 heap on frame f1 is released by shrink, because another empty heap stays cached.
   - `mmap` returns f1 for a new class-1 hugepage, and t1 allocates its slot.
   - A stale second free of the old class-0 object at offset 1 is looked up in the new hugepage. It maps to bit 0, which is set, and it frees t1's live object.
   - The bitmap test cannot tell a stale pointer from a live one once the range has been reused.
2. **`nvme_mem_cleanup` leaves `nr_use` and `nr_full` wrong, with no effect** (`nvme_mem.c:758-764`). No run checks this.
   - Full heaps are moved to the use list without moving the count from `nr_full` to `nr_use`.
   - The forced shrink then decrements `nr_use` once per heap. With one full heap, `nr_use` ends at `(size_t)-1` and `nr_full` stays 1.
   - Nothing reads these two counters after cleanup. `nvme_memstat` reads `nr_hp`, `nr_objs` and `nr_free_objs`, which cleanup does bring to zero. `nvme_mem_init` then clears `mm` with `memset` (`:704`).
   - So no caller can observe the wrong values, and no property is stated about them. The hazard stays listed, with this note, in case the counters ever gain a reader.

3. **Requested NUMA node ignored** (`nvme_mem.c:575`).
   - Thread t2, pinned on socket 1, asks for 1 byte on node 0.
   - The pool grows a hugepage, which is faulted in on node 1.
   - Even with `mp->node_id` set, the pools are shared by all nodes. So a later request for node 0 is served from a heap that a thread on node 1 filled.
   - The spec describes per-node pools and memory on the requested node.

The request set of `allocator_fit` hits every branch of the pool choice:

- a size that is clamped to the smallest pool;
- a size that needs the next pool;
- an alignment that forces the larger pool;
- the sizes and alignments that are refused.

`MaxHp` = 2 keeps `res` (one request and address per thread) within a short run. The properties of this run concern the slot a request gets, and two hugepages already give each pool a second heap.

The lock, atomic and queue runs need a few processes or I/Os to make the cases happen:

- Three threads give the rwlock two readers racing a CAS from the same load while a writer waits.
- Three threads give the spinlock a holder, a waiter in the read-only spin and one retrying the exchange or calling trylock.
- Two processes on the 64-bit counter let one thread's half-loads straddle the other's carrying increment.
- In `perf_loop`, three I/Os let completions arrive in any order. So `nvme_perf_io_end` unlinks the head, the middle and the tail of `pend_ioq`, and the sequential offset wraps after the second I/O.

4. **A signal hangs `nvme_perf`** (`nvme_perf.c:495`).
   - `nvme_perf_submit_io` takes an I/O off `free_ioq` and only then tests `nt.abort`. A signal that arrived in between makes it return 0 with the I/O on neither queue.
   - With one I/O (the default queue depth), `nvme_perf_run` then spins in `while (ioq_empty(&free_ioq)) poll` with nothing pending. SIGINT, SIGTERM and SIGQUIT are all caught, so the tool cannot be stopped this way.
   - With more I/Os, another completion refills `free_ioq`, and the run ends (`perf_loop`).
5. **The last sequential I/O runs past the namespace** (`nvme_perf.c:479`).
   - `nt.io_ofst` wraps only when it reaches the capacity. With 2-sector I/Os on 3 sectors, the second I/O covers sectors 2-3.
   - The completion status is not looked at in `nvme_perf_io_end`.
   - The random branch of the same function draws from `0..nr_sectors - size`, so that every random I/O fits. The sequential branch has no such limit.
   - `perf_overrun` shows this with `QD = 2`, `NrSectors = 3` and sequential offsets. `perf_loop` does not check `IoWithinNamespace`, because its namespace is a multiple of the I/O size.
6. **A negative I/O size is accepted** (`nvme_perf.c:216-217`).
   - `atoi("-1")` is stored in the `size_t` `nt.io_size`, and `io_size <= 0` only refuses 0. So the command line `perf 0 -1` is accepted, with an I/O size of `SIZE_MAX`.
   - `nvme_perf_init` then fails with a sector-size or buffer allocation message.
   - A unit test of `nvme_perf_get_params` reaches this as easily as a model, so the parser is not modelled.

7. **Gaps in the CPU numbering break the topology table** (`nvme_cpu.c:123`, `:196`).
   - With CPU 0 offline, `nvme_cpu_init` stores CPUs 1 and 2 and sets `nr_cpus` = 2.
   - `nvme_get_cpu` then refuses CPU 2 as out of range, so `nvme_socket_id()` answers `NVME_SOCKET_ID_ANY` for a thread pinned on a present CPU, and `nvme_mem_alloc_node` records that as the caller's node.
   - The same bound makes `nvme_cpu_thread_id` count zeroed entries of absent CPUs and skip present siblings, so thread indices and `nr_cores` are wrong.
   - Spec 4.B: `current_cpu()` returns the CPU's entry, and the sentinel only for an index out of range. The contiguous machine of `allocator_fit` satisfies the same property.
8. **A log write to a closed `FILE`** (`nvme_log.c:164`, `:58-61`).
   - The sink is a file, and thread t1 calls `nvme_vlog`: it reads `log.file`.
   - The control thread calls `nvme_set_log_facility`, and `nvme_close_log` runs `fclose` on that `FILE`.
   - Before `log.file` and `log.facility` are reset, t1 passes the level test and reads the facility, which is still `NVME_LOG_FILE`. It then calls `vfprintf` and `fflush` on the closed `FILE`, a use after free.
   - The same happens without that narrow window if the control thread finishes the change and opens a new file after t1 has read `log.file` and before it reads `log.facility`.
   - Spec 4.G says a new sink closes the prior one, and that emission is safe as far as the sink serializes. Nothing serializes the old `FILE` against a writer that already holds it.

### Known defects not checked by a run

These are recorded as hazards in `PROJECT.json`, each with a note saying why no run checks it.

9. **A failed `nvme_mem_init` leaks what it set up** (`nvme_mem.c:302-322`, `:713`).
   - `nvme_mem_get_hp_dir` makes `libnvme.<pid>.XXXXXX` under the hugetlbfs mount.
   - If `nvme_mem_get_hp_size` then returns 0, or the `open` of the directory fails, `nvme_mem_hp_init` returns at once. The directory stays on disk, `mm.hp_dir` is never freed, and the pagemap descriptor opened by `nvme_mem_init` stays open.
   - Spec: "Setup failures in `init` return a negative code and clean up what was established."
   - `MemInit` models every one of these outcomes. The directory and the descriptor are not model state, because no property of the pools or the hugepage table depends on them.
   - `nvme_mem_cleanup` never closes the pagemap descriptor either.
10. **The printed throughput overflows** (`nvme_perf.c:604`).
    - `nt.io_bytes * 1000000000` is computed in unsigned 64-bit arithmetic, and it wraps once a run has moved about 18.4 GB.
    - At 2 GB/s that is a 10-second run, the default length, so the MB/sec figure is wrong for a fast device.
    - The statistics are left out of `Perf`.
11. **The read/write ratio is off by one** (`nvme_perf.c:463-466`).
    - `rw = 100 * rand() / RAND_MAX` lies in 0..100, and a read is chosen when `rw <= nt.rw`. So `-rw p` reads with probability of about (p+1)%, and `-rw 99` writes only when `rand()` returns `RAND_MAX`.
    - On a 32-bit build, `100UL * rand()` also overflows.
    - The choice changes no queue state, so it is left out of `Perf`.

Also in `nvme_log.c`: `nvme_vlog_syslog` sends every message with priority `log.level - 1`, the threshold, rather than the message's own level (`nvme_log.c:87`). A single call shows this, so it is not listed as a hazard.

### Fairness

- The MemPool, Allocator and Log runs (and the topology scan inside the Allocator runs) check safety only.
- The lock runs assume weak fairness of each process's spin-loop steps and of unlock.
  - A runnable thread is scheduled again, and `hp_lock` is held only around a list insert, remove or bucket scan.
  - No process is obliged to ask for the lock.
  - The spec calls both locks unfair, so only deadlock freedom (`SpinDeadlockFree`, `RWDeadlockFree`: some waiter gets in) is claimed, not starvation freedom. A writer can starve behind overlapping readers.
- `Perf` assumes weak fairness of each main-thread step and of the clock (time passes).
  - It also assumes the device completes every command it was given.
  - A signal is never forced.

## 4. Plan for the remaining components

1. **Log sink properties**: one sink open at a time, no `FILE` left open after a change, and the fallback to stdout (spec 4.G). These need a passing run of `Log`. With the race of finding 8 fixed, that run would also check `NoWriteToClosedFile`.
2. **Perf random offsets**: drop the `ASSUME` that an I/O fits in the namespace, and model the unsigned `nr_sectors - io->size` of `nvme_perf_set_io` at a reduced width, so that `perf_overrun` also covers the hazard at `nvme_perf.c:474`.

## 5. Not modelled

These parts are not modelled because they are file and sysfs parsing, or sequential I/O glue with no state to check:

- the parsing inside `get_hp_dir` and `get_hp_size` (of `/proc/mounts` and `/proc/meminfo`), which `MemInit` abstracts to the results the functions return;
- `nvme_pci.c`;
- `nvme_info`;
- `nvme_memstat`: a read-only report. It reads `nr_hp`, then each pool under its own mutex; the spec calls the result per-pool consistent and not transactional across pools, so its interleavings can break no promise.
- The pagemap path of `nvme_mem_vtophys`, a `pread` of a kernel file.
- `nvme_perf_get_params`, the command-line parser: a sequential function of `argv` that a unit test reaches directly (finding 6).
- `nvme_perf`'s device setup (`nvme_perf_open_device`, queue-pair and buffer allocation, `nvme_perf_end`), which calls into libnvme outside `src/` in sequence.

Note that `nvme_pci_device_probe` passes a NULL `pci_dev` to `nvme_pci_device_has_kernel_driver` when the device class does not match (`nvme_pci.c:108-111`). It is a plain bug that a unit test reaches, so it is not listed as a hazard.

Physical addresses, file names and byte sizes are abstracted away. An address keeps only its frame and its offset in units.
