----------------------------- MODULE FifoQueues -----------------------------
(***************************************************************************)
(* What the I/O queues of src/tools/perf promise: each queue is a sequence *)
(* of I/Os, added at the end, taken from the front, or moved from any      *)
(* position of one queue to the end of another, the others keeping their  *)
(* order; an I/O is on at most one queue.                                  *)
(***************************************************************************)
EXTENDS Sequences, SequencesExt

CONSTANTS Ios, Queues, Initial

VARIABLE queue

Queued == UNION {ToSet(queue[q]) : q \in Queues}

Init == queue = Initial

Add(q, io) ==
  /\ io \notin Queued
  /\ queue' = [queue EXCEPT ![q] = Append(@, io)]

Get(q) == queue' = [queue EXCEPT ![q] = IF @ = <<>> THEN @ ELSE Tail(@)]

Move(q1, q2, io) ==
  /\ q1 # q2
  /\ io \in ToSet(queue[q1])
  /\ queue' = [queue EXCEPT ![q1] = Remove(@, io), ![q2] = Append(@, io)]

Next ==
  \E q, q2 \in Queues : Get(q) \/ \E io \in Ios : Add(q, io) \/ Move(q, q2, io)

Spec == Init /\ [][Next]_queue

=============================================================================
