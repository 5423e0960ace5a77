\* Three I/Os, so a completion can unlink the middle of pend_ioq;
\* sectors of 2 B, a 4-sector namespace, I/Os of 2 sectors, random and
\* sequential offsets.  The program exits when nvme_perf_run
\* returns, so a finished run is a final state.
CONSTANTS
  QD = 3
  SectSize = 2
  NrSectors = 4
  IoSize = 4
  RndModes = {TRUE, FALSE}
  MaxQd = 3
  Null = Null
SPECIFICATION Spec
CHECK_DEADLOCK FALSE
INVARIANT TypeOK
INVARIANT PendingMatchesDevice
INVARIANT ListWellFormed
PROPERTY FifoQueuesSpec
PROPERTY RunTerminates
