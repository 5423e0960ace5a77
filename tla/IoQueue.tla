------------------------------ MODULE IoQueue ------------------------------
(***************************************************************************)
(* The intrusive doubly linked I/O queues of src/tools/perf/nvme_perf.h.   *)
(* A state s of all queues together is a record: the head and tail of each *)
(* queue and the next/prev links of each I/O.  nvme_perf_ioq_add, _get and *)
(* _remove are operators from a state to the next, so a caller that runs  *)
(* several of them in one step (nvme_perf_io_end) composes them.           *)
(***************************************************************************)
EXTENDS Naturals, Sequences, SequencesExt

CONSTANTS Ios, Queues, Null

IoqStates ==
  [head : [Queues -> Ios \cup {Null}], tail : [Queues -> Ios \cup {Null}],
   next : [Ios -> Ios \cup {Null}],    prev : [Ios -> Ios \cup {Null}]]

(* Zeroed memory: empty queues, unlinked I/Os. *)
Empty ==
  [head |-> [q \in Queues |-> Null], tail |-> [q \in Queues |-> Null],
   next |-> [i \in Ios |-> Null],    prev |-> [i \in Ios |-> Null]]

(* The I/Os reached from the head by next links, cut after |Ios| + 1 so a  *)
(* cycle shows as a list longer than Ios.                                  *)
RECURSIVE Chain(_, _, _)
Chain(s, n, k) == IF n = Null \/ k = 0 THEN <<>> ELSE <<n>> \o Chain(s, s.next[n], k - 1)

List(s, q) == Chain(s, s.head[q], Cardinality(Ios) + 1)

Queued(s) == UNION {ToSet(List(s, q)) : q \in Queues}

(* nvme_perf_ioq_empty *)
IoqEmpty(s, q) == s.head[q] = Null

(* nvme_perf_ioq_add: link io after the tail. *)
IoqAdd(s, q, io) ==
  LET s1 == [s EXCEPT !.next[io] = Null]
      s2 == IF s1.head[q] # Null
              THEN [s1 EXCEPT !.next[s1.tail[q]] = io, !.prev[io] = s1.tail[q]]
              ELSE [s1 EXCEPT !.head[q] = io, !.prev[io] = Null]
  IN  [s2 EXCEPT !.tail[q] = io]

(* Mutant: the queue's tail is not cleared when its last I/O is taken. *)
IoqGetKeepTail(s, q) ==
  IF s.head[q] = Null THEN s
  ELSE LET io == s.head[q]
           s1 == [s EXCEPT !.head[q] = s.next[io]]
           s2 == IF s1.head[q] # Null THEN [s1 EXCEPT !.prev[s1.head[q]] = Null] ELSE s1
       IN  [s2 EXCEPT !.prev[io] = Null, !.next[io] = Null]

(* nvme_perf_ioq_get: unlink the head, if any, which the caller gets.     *)
IoqGet(s, q) ==
  IF s.head[q] = Null THEN s
  ELSE LET io == s.head[q]
           s1 == [s EXCEPT !.head[q] = s.next[io]]
           s2 == IF s1.head[q] # Null THEN [s1 EXCEPT !.prev[s1.head[q]] = Null]
                                      ELSE [s1 EXCEPT !.tail[q] = Null]
       IN  [s2 EXCEPT !.prev[io] = Null, !.next[io] = Null]

(* Mutant: removing the tail leaves the new tail's next link in place. *)
IoqRemoveTailNoClear(s, q, io) ==
  LET s1 == IF s.head[q] = io THEN IoqGet(s, q)
            ELSE IF s.tail[q] = io THEN [s EXCEPT !.tail[q] = s.prev[io]]
            ELSE [s EXCEPT !.prev[s.next[io]] = s.prev[io], !.next[s.prev[io]] = s.next[io]]
  IN  [s1 EXCEPT !.prev[io] = Null, !.next[io] = Null]

(* nvme_perf_ioq_remove: unlink io from the head, the tail or the middle. *)
IoqRemove(s, q, io) ==
  LET s1 == IF s.head[q] = io THEN IoqGet(s, q)
            ELSE IF s.tail[q] = io
              THEN [s EXCEPT !.tail[q] = s.prev[io], !.next[s.prev[io]] = Null]
            ELSE [s EXCEPT !.prev[s.next[io]] = s.prev[io], !.next[s.prev[io]] = s.next[io]]
  IN  [s1 EXCEPT !.prev[io] = Null, !.next[io] = Null]

(***************************************************************************)
(* A state in which every queue is a well-formed list: acyclic, head and   *)
(* tail empty together, tail the last I/O reached from head, each prev     *)
(* link the inverse of a next link, queues disjoint, and an I/O on no      *)
(* queue unlinked.                                                         *)
(***************************************************************************)
WellFormed(s) ==
  /\ \A q \in Queues :
       LET l == List(s, q) IN
       /\ Len(l) <= Cardinality(Ios)
       /\ (s.head[q] = Null) = (s.tail[q] = Null)
       /\ l # <<>> => s.tail[q] = l[Len(l)] /\ s.prev[l[1]] = Null
       /\ \A i \in 1..Len(l) - 1 : s.prev[l[i + 1]] = l[i]
  /\ \A q1, q2 \in Queues : q1 # q2 => ToSet(List(s, q1)) \cap ToSet(List(s, q2)) = {}
  /\ \A i \in Ios \ Queued(s) : s.next[i] = Null /\ s.prev[i] = Null

=============================================================================
