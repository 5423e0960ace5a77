\* The default queue depth of 1, sequential offsets.  A signal between
\* ioq_get and the abort test leaves the I/O on no queue.
CONSTANTS
  QD = 1
  SectSize = 2
  NrSectors = 4
  IoSize = 4
  RndModes = {FALSE}
  MaxQd = 3
  Null = Null
SPECIFICATION Spec
CHECK_DEADLOCK FALSE
PROPERTY RunTerminates
