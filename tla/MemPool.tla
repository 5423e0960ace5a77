------------------------------ MODULE MemPool ------------------------------
(***************************************************************************)
(* The DMA memory subsystem of src/lib/common/nvme_mem.c: the hugepage     *)
(* table (nvme_mem_alloc_hp / nvme_mem_free_hp / nvme_mem_search_hp), the  *)
(* per-size-class memory pools and their heaps (nvme_mem_pool_grow,        *)
(* _alloc, _free, _shrink), and nvme_free, driven by concurrent client     *)
(* threads.                                                                *)
(*                                                                         *)
(* Every pool operation runs with the pool mutex held and every hash-table *)
(* access with mm.hp_lock held, so each is one atomic step.  The one gap   *)
(* the code leaves open is in nvme_free and nvme_mem_vtophys: the hugepage *)
(* is looked up under hp_lock, the lock is dropped, and the descriptor     *)
(* (hp->mp and hp->heap, or hp->paddr and hp->vaddr) is read after.  That  *)
(* gap is two steps of a thread here.                                      *)
(*                                                                         *)
(* Addresses are abstracted to <<frame, offset>>: a frame is one           *)
(* hugepage-aligned virtual range mmap may return (and may return again    *)
(* after munmap), the offset counts units of the smallest slot size.  A    *)
(* size class c has slots of 2^c units, so a heap has HP_UNITS \div 2^c    *)
(* slots.  A hugepage descriptor is named by the value of mm.hp_tmp that   *)
(* named its file, so a freed descriptor and a new one on the same frame   *)
(* stay distinct.                                                          *)
(***************************************************************************)
EXTENDS Integers, FiniteSets, Sequences, SequencesExt, FiniteSetsExt, Functions

CONSTANTS
  Threads,          \* client threads calling nvme_mem_alloc_node / nvme_free
  Frames,           \* hugepage-aligned virtual ranges mmap may hand out
  Classes,          \* size classes, log2 of the slot size in smallest-slot units
  HP_UNITS,         \* hugepage size in smallest-slot units (a power of two)
  MaxHp,            \* bound on mm.hp_tmp: hugepage allocations attempted
  AllowDoubleFree,  \* may a client pass an address it already freed to nvme_free
  None              \* model value: no frame, no pool, no request

ASSUME HP_UNITS \in {2^k : k \in 0..4} /\ \A c \in Classes : 2^c <= HP_UNITS
ASSUME MaxHp \in Nat \ {0} /\ AllowDoubleFree \in BOOLEAN

VARIABLES
  phase,       \* "down" before nvme_mem_init / after nvme_mem_cleanup, "up" between
  hpTmp,       \* mm.hp_tmp, file-name counter; the id of the last descriptor created
  nrHp,        \* mm.nr_hp
  hpTable,     \* ids of the descriptors linked in mm.hp_list (the hash table)
  hp,          \* descriptor id -> [frame, mp, bitmap, nr_free] (hugepage + its heap)
  useList,     \* class -> sequence of heap ids, mp->use_list (head first)
  fullList,    \* class -> sequence of heap ids, mp->full_list
  nrUse,       \* class -> mp->nr_use
  nrFull,      \* class -> mp->nr_full
  nrObjs,      \* class -> mp->nr_objs
  nrFreeObjs,  \* class -> mp->nr_free_objs
  pc,          \* thread -> "idle" | "free" (between search_hp and the pool mutex)
               \* | "vtophys" (between search_hp and the read of hp->paddr)
  req,         \* thread -> [a, h, own]: the address being freed or translated, the descriptor
               \* found, and whether the caller owned the address
  owned,       \* thread -> addresses it got from alloc and has not freed
  released     \* thread -> {the last address it passed to nvme_free}, kept
               \* only when double frees are modelled

memVars    == <<phase, hpTmp, nrHp, hpTable, hp>>
poolVars   == <<useList, fullList, nrUse, nrFull, nrObjs, nrFreeObjs>>
threadVars == <<pc, req, owned, released>>
vars       == <<memVars, poolVars, threadVars>>

Ids  == 1..MaxHp
Addr == [f : Frames, o : 0..HP_UNITS - 1]

(* heap->nr_objs = hp->size >> mp->size_bits *)
NrObjs(c) == HP_UNITS \div 2^c

NoDesc == [frame |-> None, mp |-> None, bitmap |-> {}, nr_free |-> 0]
NoReq  == [a |-> None, h |-> 0, own |-> FALSE]

LiveFrames == {hp[i].frame : i \in hpTable}

(* nvme_heap_empty / nvme_heap_full *)
HeapEmpty(d) == d.nr_free = NrObjs(d.mp)
HeapFull(d)  == d.nr_free = 0

(* Mutant: the bit scan starts one bit late. *)
FirstZeroBitFromOne(d) == Min({b \in 1..NrObjs(d.mp) : b \notin d.bitmap})

(* find_first_zero_bit over heap->nr_objs bits *)
find_first_zero_bit(d) == Min({b \in 0..NrObjs(d.mp) - 1 : b \notin d.bitmap})

(* bit = (obj - hp->vaddr) >> mp->size_bits *)
BitOf(a, c) == a.o \div 2^c

(* nvme_mem_search_hp: the descriptor whose hugepage number matches *)
SearchHp(a) == {i \in hpTable : hp[i].frame = a.f}

SumFree(s) == FoldLeft(LAMBDA acc, h : acc + hp[h].nr_free, 0, s)

EmptyPools ==
  /\ useList    = [c \in Classes |-> <<>>]
  /\ fullList   = [c \in Classes |-> <<>>]
  /\ nrUse      = [c \in Classes |-> 0]
  /\ nrFull     = [c \in Classes |-> 0]
  /\ nrObjs     = [c \in Classes |-> 0]
  /\ nrFreeObjs = [c \in Classes |-> 0]

Init ==
  /\ phase = "down"
  /\ hpTmp = 0
  /\ nrHp = 0
  /\ hpTable = {}
  /\ hp = [i \in Ids |-> NoDesc]
  /\ EmptyPools
  /\ pc = [t \in Threads |-> "idle"]
  /\ req = [t \in Threads |-> NoReq]
  /\ owned = [t \in Threads |-> {}]
  /\ released = [t \in Threads |-> {}]

(* nvme_mem_hp_init: hp_tmp, nr_hp and the hash table start empty.         *)
HpInit ==
  /\ hpTmp' = 0
  /\ nrHp' = 0
  /\ hpTable' = {}
  /\ hp' = [i \in Ids |-> NoDesc]

(***************************************************************************)
(* What nvme_mem_get_hp_dir returns: 0 once it has found the first         *)
(* hugetlbfs line of /proc/mounts and mkdtemp has made libnvme.<pid>.XXXXXX *)
(* under it; -ENOENT when /proc/mounts cannot be opened or has no such     *)
(* line, -ENOMEM when asprintf fails, -errno when mkdtemp fails.           *)
(***************************************************************************)
GetHpDirResults == {"ok", "ENOENT", "ENOMEM", "mkdtemp"}

(* What nvme_mem_get_hp_size returns: the Hugepagesize of /proc/meminfo,   *)
(* or 0 when the file cannot be opened or has no such line.                *)
GetHpSizeResults == {0, 2097152}

(***************************************************************************)
(* nvme_mem_hp_init succeeds when the directory was made, the size is not  *)
(* 0 and the open of the directory returns a descriptor (dd >= 0).  Its    *)
(* failure paths return at once: the directory made by a successful        *)
(* nvme_mem_get_hp_dir is neither removed nor freed.                       *)
(***************************************************************************)
HpInitResult(dir, size, dd) == dir = "ok" /\ size # 0 /\ dd >= 0

(* The pool loop of nvme_mem_init: every pool with empty lists. *)
PoolsInit ==
  /\ useList' = [c \in Classes |-> <<>>]
  /\ fullList' = [c \in Classes |-> <<>>]
  /\ nrUse' = [c \in Classes |-> 0]
  /\ nrFull' = [c \in Classes |-> 0]
  /\ nrObjs' = [c \in Classes |-> 0]
  /\ nrFreeObjs' = [c \in Classes |-> 0]

(***************************************************************************)
(* nvme_mem_init: memset(&mm), then the pagemap open and nvme_mem_hp_init  *)
(* (hugetlbfs mount, hugepage size, directory open), any of which may     *)
(* fail and return with the subsystem still down, then the pools.  The    *)
(* memset has already cleared every counter, so a failed call still       *)
(* leaves mm zeroed.                                                       *)
(***************************************************************************)
MemInit ==
  /\ phase = "down"
  /\ phase' \in { IF pgMapfd >= 0 /\ HpInitResult(dir, size, dd) THEN "up" ELSE "down" :
                  pgMapfd \in {-1, 3}, dir \in GetHpDirResults,
                  size \in GetHpSizeResults, dd \in {-1, 4} }
  /\ HpInit
  /\ PoolsInit
  /\ UNCHANGED threadVars

(* Mutant: a heap that becomes full stays on the use list. *)
TakeSlotNoFullMove(t, c, h, d, use, nUse, nFree) ==
  LET bit == find_first_zero_bit(d)
      d2  == [d EXCEPT !.bitmap = @ \cup {bit}, !.nr_free = @ - 1]
  IN /\ hp' = [hp EXCEPT ![h] = d2]
     /\ nrFreeObjs' = [nrFreeObjs EXCEPT ![c] = nFree - 1]
     /\ owned' = [owned EXCEPT ![t] = @ \cup {[f |-> d.frame, o |-> bit * 2^c]}]
     /\ useList' = [useList EXCEPT ![c] = use]
     /\ nrUse' = [nrUse EXCEPT ![c] = nUse]
     /\ UNCHANGED <<fullList, nrFull>>

(***************************************************************************)
(* The slot-taking part of nvme_mem_pool_alloc, from heap h whose record   *)
(* is d, given the pool's use list and counters as they are once a heap  *)
(* has been chosen (after a grow, if there was one): set the first zero     *)
(* bit, hand the slot to thread t, and move a now-full heap from the head  *)
(* of the use list to the head of the full list.                           *)
(***************************************************************************)
TakeSlot(t, c, h, d, use, nUse, nFree) ==
  LET bit == find_first_zero_bit(d)
      d2  == [d EXCEPT !.bitmap = @ \cup {bit}, !.nr_free = @ - 1]
  IN /\ hp' = [hp EXCEPT ![h] = d2]
     /\ nrFreeObjs' = [nrFreeObjs EXCEPT ![c] = nFree - 1]
     /\ owned' = [owned EXCEPT ![t] = @ \cup {[f |-> d.frame, o |-> bit * 2^c]}]
     /\ IF HeapFull(d2)
          THEN /\ useList' = [useList EXCEPT ![c] = Remove(use, h)]
               /\ nrUse' = [nrUse EXCEPT ![c] = nUse - 1]
               /\ fullList' = [fullList EXCEPT ![c] = Cons(h, @)]
               /\ nrFull' = [nrFull EXCEPT ![c] = @ + 1]
          ELSE /\ useList' = [useList EXCEPT ![c] = use]
               /\ nrUse' = [nrUse EXCEPT ![c] = nUse]
               /\ UNCHANGED <<fullList, nrFull>>

(***************************************************************************)
(* nvme_mem_pool_alloc when mp->nr_use is not zero: take the head of the   *)
(* use list.                                                               *)
(***************************************************************************)
AllocFromUse(t, c) ==
  /\ nrUse[c] # 0
  /\ LET h == Head(useList[c]) IN
       TakeSlot(t, c, h, hp[h], useList[c], nrUse[c], nrFreeObjs[c])
  /\ UNCHANGED <<phase, hpTmp, nrHp, hpTable, nrObjs>>

(***************************************************************************)
(* nvme_mem_pool_alloc when mp->nr_use is zero: nvme_mem_pool_grow, which  *)
(* calls nvme_mem_alloc_hp (file named after ++hp_tmp, mmap on a frame     *)
(* not mapped now, insert in the hash table, nr_hp++), creates the heap    *)
(* and links it at the head of the use list, then the slot is taken.       *)
(***************************************************************************)
AllocGrow(t, c) ==
  /\ nrUse[c] = 0
  /\ hpTmp < MaxHp
  /\ \E f \in Frames \ LiveFrames :
       LET h == hpTmp + 1
           d == [frame |-> f, mp |-> c, bitmap |-> {}, nr_free |-> NrObjs(c)]
       IN /\ hpTmp' = h
          /\ hpTable' = hpTable \cup {h}
          /\ nrHp' = nrHp + 1
          /\ nrObjs' = [nrObjs EXCEPT ![c] = @ + NrObjs(c)]
          /\ TakeSlot(t, c, h, d, Cons(h, useList[c]), nrUse[c] + 1,
                   nrFreeObjs[c] + NrObjs(c))
  /\ UNCHANGED phase

(***************************************************************************)
(* nvme_mem_pool_grow failing after the file name was taken (openat, mmap, *)
(* mbind, mlock, vtophys or a calloc failed): everything is unwound but    *)
(* hp_tmp, and the allocation returns NULL.                                *)
(***************************************************************************)
AllocGrowFails(t, c) ==
  /\ nrUse[c] = 0
  /\ hpTmp < MaxHp
  /\ hpTmp' = hpTmp + 1
  /\ UNCHANGED <<phase, nrHp, hpTable, hp, poolVars, threadVars>>

Alloc(t, c) ==
  /\ phase = "up"
  /\ pc[t] = "idle"
  /\ \/ AllocFromUse(t, c) /\ UNCHANGED <<pc, req, released>>
     \/ AllocGrow(t, c) /\ UNCHANGED <<pc, req, released>>
     \/ AllocGrowFails(t, c)

(* Mutant: freeing a heap's hugepage forgets nvme_atomic_dec(&mm.nr_hp). *)
FreeHeapsNoNrHpDec(c, L, H, victims, nUse, nFree) ==
  /\ useList' = [useList EXCEPT ![c] = SelectSeq(L, LAMBDA x : x \notin victims)]
  /\ nrUse' = [nrUse EXCEPT ![c] = nUse - Cardinality(victims)]
  /\ nrObjs' = [nrObjs EXCEPT ![c] = @ - NrObjs(c) * Cardinality(victims)]
  /\ nrFreeObjs' = [nrFreeObjs EXCEPT ![c] =
                      nFree - MapThenSumSet(LAMBDA v : H[v].nr_free, victims)]
  /\ hpTable' = hpTable \ victims
  /\ UNCHANGED nrHp
  /\ hp' = H

(***************************************************************************)
(* Unlinking heaps from a pool's use list L, where H holds the heap        *)
(* records and nUse, nFree the counters at that point: for each victim,    *)
(* LIST_REMOVE, nr_use--, nr_objs and nr_free_objs reduced by the heap's,  *)
(* then nvme_mem_free_hp (unlink from the hash table, nr_hp--, munlock,    *)
(* munmap, close, unlink; failures there are only logged).  The freed      *)
(* descriptor's memory keeps its last contents.                            *)
(***************************************************************************)
FreeHeaps(c, L, H, victims, nUse, nFree) ==
  /\ useList' = [useList EXCEPT ![c] = SelectSeq(L, LAMBDA x : x \notin victims)]
  /\ nrUse' = [nrUse EXCEPT ![c] = nUse - Cardinality(victims)]
  /\ nrObjs' = [nrObjs EXCEPT ![c] = @ - NrObjs(c) * Cardinality(victims)]
  /\ nrFreeObjs' = [nrFreeObjs EXCEPT ![c] =
                      nFree - MapThenSumSet(LAMBDA v : H[v].nr_free, victims)]
  /\ hpTable' = hpTable \ victims
  /\ nrHp' = nrHp - Cardinality(victims)
  /\ hp' = H

(* Mutant: nvme_mem_pool_free calls nvme_mem_pool_shrink(mp, true). *)
ShrinkForced(c, L, H, nUse, nFree) == FreeHeaps(c, L, H, ToSet(L), nUse, nFree)

(* Mutant: a heap with one object left already counts as empty. *)
ShrinkNearlyEmpty(c, L, H, nUse, nFree) ==
  LET empties == {i \in 1..Len(L) : H[L[i]].nr_free >= NrObjs(c) - 1}
      victims == {L[i] : i \in empties \ {Min(empties)}}
  IN FreeHeaps(c, L, H, victims, nUse, nFree)

(* Mutant: the skip test reads n >= 1, so every empty heap is kept. *)
ShrinkKeepsAllEmpty(c, L, H, nUse, nFree) == FreeHeaps(c, L, H, {}, nUse, nFree)

(***************************************************************************)
(* nvme_mem_pool_shrink(mp, false): walk the use list and free every empty *)
(* heap but the first empty one met.                                       *)
(***************************************************************************)
Shrink(c, L, H, nUse, nFree) ==
  LET empties == {i \in 1..Len(L) : HeapEmpty(H[L[i]])}
      victims == {L[i] : i \in empties \ {Min(empties)}}
  IN FreeHeaps(c, L, H, victims, nUse, nFree)

(***************************************************************************)
(* nvme_free, up to the call of nvme_mem_pool_free: nvme_mem_search_hp     *)
(* takes and drops hp_lock; no hugepage holds the address, so the call     *)
(* logs "Invalid address" and returns.                                     *)
(***************************************************************************)
FreeInvalid(t, a) ==
  /\ SearchHp(a) = {}
  /\ UNCHANGED <<pc, req>>

(* ... a hugepage holds it: remember the descriptor, hp_lock is released. *)
FreeLookup(t, a) ==
  /\ SearchHp(a) # {}
  /\ pc' = [pc EXCEPT ![t] = "free"]
  /\ req' = [req EXCEPT ![t] = [a |-> a, h |-> CHOOSE i \in SearchHp(a) : TRUE,
                                own |-> a \in owned[t]]]

(* A client hands an address to nvme_free: one it owns or, when misuse is *)
(* modelled, the last one it freed.                                       *)
Free(t, a) ==
  /\ phase = "up"
  /\ pc[t] = "idle"
  /\ a \in owned[t] \cup (IF AllowDoubleFree THEN released[t] ELSE {})
  /\ owned' = [owned EXCEPT ![t] = @ \ {a}]
  /\ released' = IF AllowDoubleFree THEN [released EXCEPT ![t] = {a}]
                                   ELSE released
  /\ FreeInvalid(t, a) \/ FreeLookup(t, a)
  /\ UNCHANGED <<memVars, poolVars>>

(***************************************************************************)
(* nvme_mem_pool_free(hp->mp, hp->heap, addr), with the pool mutex held.   *)
(* hp->mp and hp->heap are read from the descriptor found by the lookup.   *)
(* The range check cannot fail (the descriptor matched the hugepage        *)
(* number).  An empty heap or a clear bit is reported as a double free     *)
(* and nothing changes.  Otherwise the bit is cleared, a full heap goes    *)
(* back to the head of the use list, the counters grow, and a heap that    *)
(* became empty triggers nvme_mem_pool_shrink(mp, false).                  *)
(***************************************************************************)
FreeLocked(t) ==
  LET a   == req[t].a
      h   == req[t].h
      d   == hp[h]
      c   == d.mp
      bit == BitOf(a, c)
      d2  == [d EXCEPT !.bitmap = @ \ {bit}, !.nr_free = @ + 1]
      H   == [hp EXCEPT ![h] = d2]
      wasFull == HeapFull(d)
      use1  == IF wasFull THEN Cons(h, useList[c]) ELSE useList[c]
      nUse1 == IF wasFull THEN nrUse[c] + 1 ELSE nrUse[c]
      nFree1 == nrFreeObjs[c] + 1
  IN /\ pc[t] = "free"
     /\ pc' = [pc EXCEPT ![t] = "idle"]
     /\ req' = [req EXCEPT ![t] = NoReq]
     /\ \/ /\ HeapEmpty(d) \/ bit \notin d.bitmap
           /\ UNCHANGED <<memVars, poolVars>>
        \/ /\ ~HeapEmpty(d) /\ bit \in d.bitmap
           /\ IF wasFull
                THEN /\ fullList' = [fullList EXCEPT ![c] = Remove(@, h)]
                     /\ nrFull' = [nrFull EXCEPT ![c] = @ - 1]
                ELSE UNCHANGED <<fullList, nrFull>>
           /\ IF HeapEmpty(d2)
                THEN Shrink(c, use1, H, nUse1, nFree1)
                ELSE /\ useList' = [useList EXCEPT ![c] = use1]
                     /\ nrUse' = [nrUse EXCEPT ![c] = nUse1]
                     /\ nrFreeObjs' = [nrFreeObjs EXCEPT ![c] = nFree1]
                     /\ hp' = H
                     /\ UNCHANGED <<nrObjs, hpTable, nrHp>>
           /\ UNCHANGED <<phase, hpTmp>>
     /\ UNCHANGED <<owned, released>>

(***************************************************************************)
(* nvme_mem_vtophys on an address a client holds: nvme_mem_search_hp finds *)
(* its hugepage under hp_lock and drops the lock.  (The /proc/self/pagemap *)
(* path, for addresses outside every hugepage, touches no shared state.)   *)
(***************************************************************************)
Vtophys(t, a) ==
  /\ phase = "up"
  /\ pc[t] = "idle"
  /\ a \in owned[t]
  /\ SearchHp(a) # {}
  /\ pc' = [pc EXCEPT ![t] = "vtophys"]
  /\ req' = [req EXCEPT ![t] = [a |-> a, h |-> CHOOSE i \in SearchHp(a) : TRUE,
                                own |-> TRUE]]
  /\ UNCHANGED <<memVars, poolVars, owned, released>>

(* ... then hp->paddr + vaddr - hp->vaddr is read from the descriptor, with *)
(* no lock held, and returned.                                             *)
VtophysRead(t) ==
  /\ pc[t] = "vtophys"
  /\ pc' = [pc EXCEPT ![t] = "idle"]
  /\ req' = [req EXCEPT ![t] = NoReq]
  /\ UNCHANGED <<memVars, poolVars, owned, released>>

(* nvme_mem_hp_cleanup: nvme_mem_free_hp of every hugepage left in the     *)
(* table.                                                                  *)
HpCleanup ==
  /\ hpTable' = {}
  /\ nrHp' = nrHp - Cardinality(hpTable)

(***************************************************************************)
(* nvme_mem_cleanup, once every client is idle: for each pool, move every  *)
(* full heap to the head of the use list (without touching nr_use or       *)
(* nr_full), then nvme_mem_pool_shrink(mp, true) frees every heap of the   *)
(* use list; nvme_mem_hp_cleanup frees the hugepages left in the table.    *)
(* The clients' pointers die with it.                                      *)
(***************************************************************************)
Cleanup ==
  LET all(c) == Reverse(fullList[c]) \o useList[c]
  IN /\ phase = "up"
     /\ \A t \in Threads : pc[t] = "idle"
     /\ phase' = "down"
     /\ useList' = [c \in Classes |-> <<>>]
     /\ fullList' = [c \in Classes |-> <<>>]
     /\ nrUse' = [c \in Classes |-> nrUse[c] - Len(all(c))]
     /\ nrObjs' = [c \in Classes |-> nrObjs[c] - NrObjs(c) * Len(all(c))]
     /\ nrFreeObjs' = [c \in Classes |-> nrFreeObjs[c] - SumFree(all(c))]
     /\ HpCleanup
     /\ owned' = [t \in Threads |-> {}]
     /\ released' = [t \in Threads |-> {}]
     /\ UNCHANGED <<hpTmp, hp, nrFull, pc, req>>

(***************************************************************************)
(* Properties                                                              *)
(***************************************************************************)

Desc == [frame : Frames \cup {None}, mp : Classes \cup {None},
         bitmap : SUBSET (0..HP_UNITS - 1), nr_free : 0..HP_UNITS]

TypeOK ==
  /\ phase \in {"down", "up"}
  /\ hpTmp \in 0..MaxHp
  /\ nrHp \in Int
  /\ hpTable \subseteq Ids
  /\ hp \in [Ids -> Desc]
  /\ useList \in [Classes -> Seq(Ids)]
  /\ fullList \in [Classes -> Seq(Ids)]
  /\ \A cnt \in {nrUse, nrFull, nrObjs, nrFreeObjs} : cnt \in [Classes -> Int]
  /\ pc \in [Threads -> {"idle", "free", "vtophys"}]
  /\ req \in [Threads -> {NoReq} \cup [a : Addr, h : Ids, own : BOOLEAN]]
  /\ owned \in [Threads -> SUBSET Addr]
  /\ released \in [Threads -> SUBSET Addr]

(* Heaps of pool c, as its two lists hold them. *)
Listed(c) == useList[c] \o fullList[c]

(***************************************************************************)
(* While the subsystem is up, after any interleaving of allocations and    *)
(* frees (grow, full-list moves, shrink): every heap of a pool is on       *)
(* exactly one of its two lists, the heaps listed are exactly the live     *)
(* hugepages that pool owns, full heaps are on the full list and no full   *)
(* heap is on the use list (nvme_mem_pool_alloc relies on the head of the  *)
(* use list having a free slot).                                           *)
(***************************************************************************)
HeapListsConsistent ==
  phase = "up" =>
    \A c \in Classes :
      /\ IsInjective(Listed(c))
      /\ ToSet(Listed(c)) = {i \in hpTable : hp[i].mp = c}
      /\ \A i \in ToSet(fullList[c]) : HeapFull(hp[i])
      /\ \A i \in ToSet(useList[c]) : ~HeapFull(hp[i])

(***************************************************************************)
(* While the subsystem is up, the counters the code keeps beside the lists *)
(* agree with them: mp->nr_use and mp->nr_full are the list lengths,       *)
(* mp->nr_objs and mp->nr_free_objs are the sums over the pool's heaps,    *)
(* every heap's bitmap has nr_objs - nr_free_objs bits set, and mm.nr_hp   *)
(* counts the hash table.  nvme_memstat reports these counters.            *)
(***************************************************************************)
PoolCountsConsistent ==
  phase = "up" =>
    /\ \A c \in Classes :
         /\ nrUse[c] = Len(useList[c])
         /\ nrFull[c] = Len(fullList[c])
         /\ nrObjs[c] = NrObjs(c) * Len(Listed(c))
         /\ nrFreeObjs[c] = SumFree(Listed(c))
    /\ \A i \in hpTable : Cardinality(hp[i].bitmap) = NrObjs(hp[i].mp) - hp[i].nr_free
    /\ nrHp = Cardinality(hpTable)

(* The clients holding address a: owning it, or in nvme_free with it. *)
HoldersOf(a) == {t \in Threads : a \in owned[t] \/ (pc[t] = "free" /\ req[t].a = a)}

SlotAddr(i, b) == [f |-> hp[i].frame, o |-> b * 2^hp[i].mp]

(***************************************************************************)
(* Clients that free only what they own get disjoint, live memory: every   *)
(* allocated slot of a live heap is held by exactly one client (none is    *)
(* handed out twice, none is leaked), and every address a client owns is   *)
(* the start of an allocated slot of a live hugepage, so shrink never      *)
(* released memory still in use.                                           *)
(***************************************************************************)
SlotsOwnedExactlyOnce ==
  phase = "up" =>
    /\ \A i \in hpTable : \A b \in hp[i].bitmap : Cardinality(HoldersOf(SlotAddr(i, b))) = 1
    /\ \A t \in Threads : \A a \in owned[t] :
         \E i \in hpTable : hp[i].frame = a.f /\ a = SlotAddr(i, BitOf(a, hp[i].mp))
                                                /\ BitOf(a, hp[i].mp) \in hp[i].bitmap

(***************************************************************************)
(* nvme_free reads hp->mp and hp->heap, and nvme_mem_vtophys hp->paddr and *)
(* hp->vaddr, after dropping hp_lock (nvme_free before taking the pool     *)
(* mutex).  A client freeing or translating memory it holds must never     *)
(* reach that read holding a descriptor another thread's shrink has        *)
(* already freed (spec: a slot's physical address never changes while it   *)
(* is allocated).                                                          *)
(***************************************************************************)
NoStaleDescriptor ==
  \A t \in Threads : pc[t] \in {"free", "vtophys"} => req[t].h \in hpTable

(***************************************************************************)
(* The shrink policy keeps at most one empty heap cached per pool: however *)
(* allocations and frees interleave, no pool holds two empty hugepages.    *)
(***************************************************************************)
AtMostOneEmptyHeap ==
  phase = "up" =>
    \A c \in Classes : Cardinality({i \in ToSet(Listed(c)) : HeapEmpty(hp[i])}) <= 1

(***************************************************************************)
(* The spec's double-free guarantee: a free of an address that no client   *)
(* holds (freed before, not returned by an allocation since) is detected   *)
(* and leaves every heap and pool counter unchanged.                       *)
(***************************************************************************)
(* Some client other than t holds address a as its own. *)
HeldByOther(a, t) ==
  \E u \in Threads : a \in owned[u] \/ (u # t /\ pc[u] = "free" /\ req[u].a = a /\ req[u].own)

DoubleFreeIsNoOp ==
  [][\A t \in Threads :
       (pc[t] = "free" /\ pc'[t] = "idle" /\ ~req[t].own /\ ~HeldByOther(req[t].a, t))
         => UNCHANGED <<hp, nrFreeObjs, nrObjs>>]_vars

Next ==
  \/ MemInit
  \/ Cleanup
  \/ \E t \in Threads, c \in Classes : Alloc(t, c)
  \/ \E t \in Threads, a \in Addr : Free(t, a)
  \/ \E t \in Threads : FreeLocked(t)
  \/ \E t \in Threads, a \in Addr : Vtophys(t, a)
  \/ \E t \in Threads : VtophysRead(t)

Spec == Init /\ [][Next]_vars

=============================================================================
