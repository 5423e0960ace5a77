-------------------------------- MODULE Perf --------------------------------
(***************************************************************************)
(* src/tools/perf/nvme_perf.c from main's call of nvme_perf_init: its      *)
(* checks and the I/O set-up loop, then nvme_perf_run with                 *)
(* nvme_perf_submit_io, the completion                                     *)
(* callback nvme_perf_io_end run from nvme_ioqp_poll, and the SIGINT/      *)
(* SIGTERM/SIGQUIT handler that sets nt.abort at any moment.               *)
(*                                                                         *)
(* The free and pending queues are the linked lists of IoQueue, changed   *)
(* by its nvme_perf_ioq_* operators in the order the code calls them.      *)
(* device is the set of I/Os submitted to    *)
(* the queue pair and not yet completed; the device may complete them in   *)
(* any order, and their callbacks run only inside nvme_ioqp_poll.  The     *)
(* clock is a flag that becomes true once the run time has elapsed.        *)
(* Offsets are in sectors, nt.io_ofst in bytes as in the code.             *)
(***************************************************************************)
EXTENDS Integers, Sequences, SequencesExt

CONSTANTS
  QD,         \* nt.qd: the number of I/Os
  SectSize,   \* nt.sectsize
  NrSectors,  \* nt.nr_sectors
  IoSize,     \* nt.io_size in bytes
  RndModes,   \* values of nt.rnd the command line can give
  MaxQd,      \* nt.max_qd, the controller's maximum queue entries
  Null

(* The parser gives qd >= 1 and io_size > 0.  Nothing checks that an I/O  *)
(* fits in the namespace; the model assumes it does.                      *)
ASSUME QD >= 1 /\ IoSize > 0 /\ IoSize \div SectSize <= NrSectors

Ios == 1..QD
Size == IoSize \div SectSize   \* io->size, in sectors
Capacity == NrSectors * SectSize

VARIABLES
  ioq,         \* nt.free_ioq and nt.pend_ioq with the links of nt.io[]
  device,      \* I/Os submitted to nt.qpair and not completed
  ofst,        \* io->ofst of each I/O
  io_ofst,     \* nt.io_ofst
  rnd,         \* nt.rnd
  abort,       \* nt.abort: 0, 1 after a failed submission, or the signal number
  timeUp,      \* nvme_perf_elapsed_secs() >= nt.run_secs
  pc,          \* where the main thread is
  cur          \* the I/O nvme_perf_submit_io has taken from free_ioq

vars == <<ioq, device, ofst, io_ofst, rnd, abort, timeUp, pc, cur>>

SIGINT == 2

Q == INSTANCE IoQueue WITH Queues <- {"free", "pend"}

free == Q!List(ioq, "free")
pend == Q!List(ioq, "pend")

(* Before nvme_perf_init: the static nt, both queues empty. *)
Init ==
  /\ ioq = Q!Empty
  /\ device = {}
  /\ ofst = [i \in Ios |-> 0]
  /\ io_ofst = 0
  /\ rnd \in RndModes
  /\ abort = 0
  /\ timeUp = FALSE
  /\ pc = "init"
  /\ cur = Null

(* The I/O size and queue depth checks of nvme_perf_init. *)
InitChecks == IoSize % SectSize = 0 /\ QD <= MaxQd

(***************************************************************************)
(* nvme_perf_init up to the I/O loop: the signal handlers, the CPU         *)
(* affinity, nvme_lib_init, nvme_perf_open_device, the two checks, the     *)
(* queue pair and the calloc of nt.io.  Any failure makes main go to      *)
(* nvme_perf_end and return (or exit), which ends the program.            *)
(***************************************************************************)
PerfInit ==
  /\ pc = "init"
  /\ pc' \in IF InitChecks THEN {"alloc", "done"} ELSE {"done"}
  /\ UNCHANGED <<ioq, device, ofst, io_ofst, rnd, abort, timeUp, cur>>

(***************************************************************************)
(* One turn of the I/O loop of nvme_perf_init: nvme_zmalloc of the buffer  *)
(* of I/O i, which may fail (return -1), then nvme_perf_ioq_add to         *)
(* free_ioq; after I/O qd, nvme_perf_init returns 0 and main starts the    *)
(* run.                                                                    *)
(***************************************************************************)
PerfInitIo ==
  /\ pc = "alloc"
  /\ \/ /\ Len(free) < QD
        /\ ioq' = Q!IoqAdd(ioq, "free", Len(free) + 1)
        /\ UNCHANGED pc
     \/ /\ Len(free) < QD
        /\ pc' = "done"
        /\ UNCHANGED ioq
     \/ /\ Len(free) = QD
        /\ pc' = "run"
        /\ UNCHANGED ioq
  /\ UNCHANGED <<device, ofst, io_ofst, rnd, abort, timeUp, cur>>

(* nvme_perf_sigcatcher *)
Signal ==
  /\ pc # "done"
  /\ abort # SIGINT
  /\ abort' = SIGINT
  /\ UNCHANGED <<ioq, device, ofst, io_ofst, rnd, timeUp, pc, cur>>

(* The run time, counted from nt.start at the top of nvme_perf_run, elapses. *)
Clock ==
  /\ pc \notin {"init", "alloc"}
  /\ ~timeUp
  /\ timeUp' = TRUE
  /\ UNCHANGED <<ioq, device, ofst, io_ofst, rnd, abort, pc, cur>>

(* while (nvme_perf_elapsed_secs() < nt.run_secs && !nt.abort) *)
RunLoop ==
  /\ pc = "run"
  /\ pc' = IF ~timeUp /\ abort = 0 THEN "get" ELSE "drain"
  /\ UNCHANGED <<ioq, device, ofst, io_ofst, rnd, abort, timeUp, cur>>

(* io = nvme_perf_ioq_get(&nt.free_ioq); a NULL ends the submit loop. *)
SubmitGet ==
  /\ pc = "get"
  /\ IF Q!IoqEmpty(ioq, "free")
       THEN pc' = "wait" /\ UNCHANGED <<ioq, cur>>
       ELSE /\ cur' = ioq.head["free"]
            /\ ioq' = Q!IoqGet(ioq, "free")
            /\ pc' = "check"
  /\ UNCHANGED <<device, ofst, io_ofst, rnd, abort, timeUp>>

(* && !nt.abort: with abort set, submit_io returns 0 and drops the I/O. *)
SubmitCheck ==
  /\ pc = "check"
  /\ IF abort # 0 THEN pc' = "wait" /\ cur' = Null
                  ELSE pc' = "submit" /\ UNCHANGED cur
  /\ UNCHANGED <<ioq, device, ofst, io_ofst, rnd, abort, timeUp>>

(* Mutant: the sequential offset wraps only past the end. *)
NextIoOfstPastEnd == IF io_ofst + IoSize > Capacity THEN 0 ELSE io_ofst + IoSize

(* nt.io_ofst += nt.io_size, back to 0 once it reaches the capacity. *)
NextIoOfst == IF io_ofst + IoSize >= Capacity THEN 0 ELSE io_ofst + IoSize

(* nvme_perf_set_io: a random offset in 0..nr_sectors - size, or the next  *)
(* sequential one.  The read/write choice does not change the queues.      *)
SetIo(io) ==
  IF rnd
    THEN \E o \in 0..NrSectors - Size :
           ofst' = [ofst EXCEPT ![io] = o] /\ UNCHANGED io_ofst
    ELSE /\ ofst' = [ofst EXCEPT ![io] = io_ofst \div SectSize]
         /\ io_ofst' = NextIoOfst

(* Mutant: the failed I/O is put back on free_ioq but left on pend_ioq. *)
SubmitFailedKeepPend(s, io) == Q!IoqAdd(s, "free", io)

(* nvme_ns_read/write failed: remove io from pend_ioq, put it back on free_ioq. *)
SubmitFailed(s, io) == Q!IoqAdd(Q!IoqRemove(s, "pend", io), "free", io)

(* Add io to pend_ioq, set it up and submit it; on failure set nt.abort    *)
(* and return -1, which ends nvme_perf_run's loop.                         *)
SubmitIo ==
  /\ pc = "submit"
  /\ SetIo(cur)
  /\ \/ /\ ioq' = Q!IoqAdd(ioq, "pend", cur)
        /\ device' = device \cup {cur}
        /\ pc' = "get"
        /\ UNCHANGED abort
     \/ /\ ioq' = SubmitFailed(Q!IoqAdd(ioq, "pend", cur), cur)
        /\ abort' = 1
        /\ pc' = "drain"
        /\ UNCHANGED device
  /\ cur' = Null
  /\ UNCHANGED <<rnd, timeUp>>

(* Mutant: the completion callback does not put the I/O back on free_ioq. *)
IoEndNoRequeue(s, io) == Q!IoqRemove(s, "pend", io)

(* nvme_perf_io_end: from pend_ioq to free_ioq (and count it). *)
IoEnd(s, io) == Q!IoqAdd(Q!IoqRemove(s, "pend", io), "free", io)

(* nvme_ioqp_poll reaps a completion of the device and calls its callback. *)
Complete(io) ==
  /\ pc \in {"wait", "drain"}
  /\ io \in device
  /\ device' = device \ {io}
  /\ ioq' = IoEnd(ioq, io)
  /\ UNCHANGED <<ofst, io_ofst, rnd, abort, timeUp, pc, cur>>

(* while (nvme_perf_ioq_empty(&nt.free_ioq)) nvme_ioqp_poll(...) *)
Wait ==
  /\ pc = "wait"
  /\ ~Q!IoqEmpty(ioq, "free")
  /\ pc' = "run"
  /\ UNCHANGED <<ioq, device, ofst, io_ofst, rnd, abort, timeUp, cur>>

(* while (!nvme_perf_ioq_empty(&nt.pend_ioq)) nvme_ioqp_poll(...) *)
Drain ==
  /\ pc = "drain"
  /\ Q!IoqEmpty(ioq, "pend")
  /\ pc' = "done"
  /\ UNCHANGED <<ioq, device, ofst, io_ofst, rnd, abort, timeUp, cur>>

Next ==
  \/ PerfInit \/ PerfInitIo
  \/ Signal \/ Clock \/ RunLoop \/ SubmitGet \/ SubmitCheck \/ SubmitIo
  \/ Wait \/ Drain \/ \E io \in Ios : Complete(io)

(***************************************************************************)
(* Fairness: the main thread runs, the clock advances, and the device      *)
(* completes every command it was given.  Nothing obliges a signal.        *)
(***************************************************************************)
Fairness ==
  /\ WF_vars(PerfInit) /\ WF_vars(PerfInitIo) /\ WF_vars(RunLoop) /\ WF_vars(SubmitGet) /\ WF_vars(SubmitCheck)
  /\ WF_vars(SubmitIo) /\ WF_vars(Wait) /\ WF_vars(Drain) /\ WF_vars(Clock)
  /\ \A io \in Ios : WF_vars(Complete(io))

Spec == Init /\ [][Next]_vars /\ Fairness

(***************************************************************************)
(* Properties                                                              *)
(***************************************************************************)

TypeOK ==
  /\ ioq \in Q!IoqStates
  /\ device \subseteq Ios
  /\ ofst \in [Ios -> 0..NrSectors - 1]
  /\ io_ofst \in 0..Capacity - 1
  /\ rnd \in BOOLEAN
  /\ abort \in {0, 1, SIGINT}
  /\ timeUp \in BOOLEAN
  /\ pc \in {"init", "alloc", "run", "get", "check", "submit", "wait", "drain", "done"}
  /\ cur \in Ios \cup {Null}

(***************************************************************************)
(* pend_ioq holds exactly the I/Os the device still owns, each once, and   *)
(* none of them is also on free_ioq: through submissions, failed           *)
(* submissions and completions in any order, an I/O is never reused while  *)
(* the device may still write its buffer.                                   *)
(***************************************************************************)
PendingMatchesDevice ==
  /\ ToSet(pend) = device
  /\ IsInjective(pend)
  /\ ToSet(free) \cap device = {}

(***************************************************************************)
(* Through submissions, failed submissions that add to pend_ioq and take   *)
(* back from its tail, and completions unlinking from the head, middle or  *)
(* tail of pend_ioq in any order, both queues stay well-formed lists.      *)
(***************************************************************************)
ListWellFormed == Q!WellFormed(ioq)

Fifo == INSTANCE FifoQueues WITH
          Queues <- {"free", "pend"},
          queue <- [q \in {"free", "pend"} |-> Q!List(ioq, q)],
          Initial <- [q \in {"free", "pend"} |-> <<>>]

(***************************************************************************)
(* Read from head along next, the two lists behave as FIFO queues: each    *)
(* step takes the front of free_ioq, appends to a queue, or moves exactly  *)
(* one I/O from pend_ioq to the end of free_ioq, the others keeping their  *)
(* order.                                                                  *)
(***************************************************************************)
FifoQueuesSpec == Fifo!Spec

(***************************************************************************)
(* Every I/O submitted lies inside the namespace: offset plus size at most *)
(* nr_sectors, for random offsets and for the sequential offset after it   *)
(* wraps.                                                                  *)
(***************************************************************************)
IoWithinNamespace == \A io \in device : ofst[io] + Size <= NrSectors

(***************************************************************************)
(* nvme_perf_run returns: whatever the timing of the clock, of signals and *)
(* of failed submissions, every started I/O is reaped and the test ends.   *)
(***************************************************************************)
RunTerminates == <>(pc = "done")

=============================================================================
