\* log_race: a thread in nvme_vlog writes to a FILE that a concurrent
\* nvme_set_log_facility has fclosed (expected violation).
CONSTANTS
  t1 = t1
  t2 = t2
  Threads <- MC_Threads
  Levels <- MC_Levels
  LogMacros <- MC_LogMacros
  SetLevels <- MC_SetLevels
  NVME_LOG_NOTICE <- MC_Notice
  MaxFiles = 2
SPECIFICATION Spec
SYMMETRY Symmetry
INVARIANT NoWriteToClosedFile
