\* Sequential offsets on a namespace the I/O size does not divide: sectors
\* of 2 B, a 3-sector namespace, I/Os of 2 sectors, two I/Os.  nvme_perf
\* only wraps io_ofst once it reaches the capacity (expected violation).
CONSTANTS
  QD = 2
  SectSize = 2
  NrSectors = 3
  IoSize = 4
  RndModes = {FALSE}
  MaxQd = 3
  Null = Null
SPECIFICATION Spec
CHECK_DEADLOCK FALSE
INVARIANT IoWithinNamespace
