-------------------------------- MODULE Log --------------------------------
(***************************************************************************)
(* The log sink of src/lib/common/nvme_log.c: the static struct nvme_log   *)
(* (level, facility, file), nvme_set_log_facility, nvme_set_log_level and  *)
(* nvme_vlog.  None of these takes a lock.                                 *)
(*                                                                         *)
(* One control thread reconfigures the sink; the threads in Threads emit   *)
(* messages.  nvme_set_log_facility is three steps: the fclose and the     *)
(* resets of nvme_close_log, then the opening of the new facility with its *)
(* fallback.  nvme_vlog is four: the                                       *)
(* read of log.file, the level test, the switch on log.facility, and the   *)
(* vfprintf/fflush on the FILE it read first.  Each FILE that fopen        *)
(* returns is a number 1, 2, ...; 0 is NULL.  Message text, paths and the  *)
(* stdout/syslog output are left out.                                      *)
(***************************************************************************)
EXTENDS Integers

CONSTANTS
  Threads,          \* threads calling nvme_log / nvme_vlog
  Levels,           \* the severities, emerg = 0 .. debug = 7 in order
  LogMacros,        \* the nvme_<level>() macros the callers use
  SetLevels,        \* the values passed to nvme_set_log_level
  NVME_LOG_NOTICE,  \* the initial threshold
  MaxFiles          \* bound on the number of fopen calls

ASSUME MaxFiles \in Nat

Facilities == {"stdout", "file", "syslog"}

(***************************************************************************)
(* The macros of nvme_log.h and the level each passes to nvme_log; the     *)
(* prefix each puts before the format is left out.  nvme_log itself only   *)
(* hands its arguments on to nvme_vlog.                                    *)
(***************************************************************************)
LogMacroLevel ==
  [emerg |-> 0, alert |-> 1, crit |-> 2, err |-> 3,
   warning |-> 4, notice |-> 5, info |-> 6, debug |-> 7]

ASSUME /\ LogMacros \subseteq DOMAIN LogMacroLevel
       /\ \A m \in DOMAIN LogMacroLevel : LogMacroLevel[m] \in Levels
       /\ LogMacroLevel.notice = NVME_LOG_NOTICE

VARIABLES
  level,       \* log.level
  facility,    \* log.facility
  file,        \* log.file: 0 (NULL) or the number of the FILE
  nrFiles,     \* FILEs fopen has returned so far
  closed,      \* FILEs fclose has been called on
  cpc,         \* control thread: "idle" | "reset" | "open"
  cfac,        \* the facility being set ("bad" for an invalid value)
  vpc,         \* thread -> "idle" | "level" | "facility" | "write"
  vf,          \* thread -> the FILE nvme_vlog read from log.file
  vlvl         \* thread -> the level of the message being logged

vars == <<level, facility, file, nrFiles, closed, cpc, cfac, vpc, vf, vlvl>>
sinkVars == <<level, facility, file, nrFiles, closed>>
ctlVars == <<cpc, cfac>>
logVars == <<vpc, vf, vlvl>>

(* The static initializer of log: NOTICE, stdout, no file. *)
Init ==
  /\ level = NVME_LOG_NOTICE
  /\ facility = "stdout"
  /\ file = 0
  /\ nrFiles = 0
  /\ closed = {}
  /\ cpc = "idle"
  /\ cfac = "stdout"
  /\ vpc = [t \in Threads |-> "idle"]
  /\ vf = [t \in Threads |-> 0]
  /\ vlvl = [t \in Threads |-> NVME_LOG_NOTICE]

(***************************************************************************)
(* nvme_set_log_facility(fac) calls nvme_close_log, which for a FILE sink  *)
(* does fflush and fclose first ...                                        *)
(***************************************************************************)
SetLogFacilityClose(fac) ==
  /\ cpc = "idle"
  /\ closed' = IF facility = "file" /\ file # 0 THEN closed \cup {file} ELSE closed
  /\ cpc' = "reset"
  /\ cfac' = fac
  /\ UNCHANGED <<level, facility, file, nrFiles, logVars>>

(* ... and then sets log.file to NULL (FILE sink) and the facility to stdout. *)
CloseLogReset ==
  /\ cpc = "reset"
  /\ file' = IF facility = "file" THEN 0 ELSE file
  /\ facility' = "stdout"
  /\ cpc' = "open"
  /\ UNCHANGED <<level, nrFiles, closed, cfac, logVars>>

(***************************************************************************)
(* Then the switch on the new facility.  fopen of a file may fail, and an *)
(* invalid facility is refused; both fall back to stdout with no file.    *)
(* openlog cannot fail.                                                    *)
(***************************************************************************)
SetLogFacilityOpen ==
  /\ cpc = "open"
  /\ \/ /\ cfac \in {"stdout", "syslog"}
        /\ facility' = cfac
        /\ UNCHANGED <<file, nrFiles>>
     \/ /\ cfac = "file"
        /\ nrFiles < MaxFiles
        /\ nrFiles' = nrFiles + 1
        /\ file' = nrFiles + 1
        /\ facility' = "file"
     \/ /\ cfac \in {"file", "bad"}
        /\ facility' = "stdout"
        /\ file' = 0
        /\ UNCHANGED nrFiles
  /\ cpc' = "idle"
  /\ UNCHANGED <<level, closed, cfac, logVars>>

(* nvme_set_log_level: values outside emerg..debug are ignored. *)
SetLogLevel(l) ==
  /\ cpc = "idle"
  /\ level' = IF l \in Levels THEN l ELSE level
  /\ UNCHANGED <<facility, file, nrFiles, closed, ctlVars, logVars>>

(* nvme_<level>(...) -> nvme_log -> nvme_vlog entry: FILE *f = log.file. *)
VlogStart(t, l) ==
  /\ vpc[t] = "idle"
  /\ vpc' = [vpc EXCEPT ![t] = "level"]
  /\ vf' = [vf EXCEPT ![t] = file]
  /\ vlvl' = [vlvl EXCEPT ![t] = l]
  /\ UNCHANGED <<sinkVars, ctlVars>>

(* if (level > log.level) return; *)
VlogLevel(t) ==
  /\ vpc[t] = "level"
  /\ vpc' = [vpc EXCEPT ![t] = IF vlvl[t] > level THEN "idle" ELSE "facility"]
  /\ UNCHANGED <<sinkVars, ctlVars, vf, vlvl>>

(***************************************************************************)
(* switch (log.facility): stdout prints to stdout; file writes to the f    *)
(* read at entry if it is not NULL; syslog formats and calls syslog with   *)
(* priority log.level - 1 (nvme_vlog_syslog).                              *)
(***************************************************************************)
VlogFacility(t) ==
  /\ vpc[t] = "facility"
  /\ vpc' = [vpc EXCEPT ![t] = IF facility = "file" /\ vf[t] # 0 THEN "write" ELSE "idle"]
  /\ UNCHANGED <<sinkVars, ctlVars, vf, vlvl>>

(* vfprintf(f, ...); fflush(f); *)
VlogWrite(t) ==
  /\ vpc[t] = "write"
  /\ vpc' = [vpc EXCEPT ![t] = "idle"]
  /\ UNCHANGED <<sinkVars, ctlVars, vf, vlvl>>

Next ==
  \/ \E fac \in Facilities \cup {"bad"} : SetLogFacilityClose(fac)
  \/ CloseLogReset
  \/ SetLogFacilityOpen
  \/ \E l \in SetLevels : SetLogLevel(l)
  \/ \E t \in Threads :
       \/ \E m \in LogMacros : VlogStart(t, LogMacroLevel[m])
       \/ VlogLevel(t) \/ VlogFacility(t) \/ VlogWrite(t)

Spec == Init /\ [][Next]_vars

(***************************************************************************)
(* Properties                                                              *)
(***************************************************************************)

(***************************************************************************)
(* Spec 4.G: setting a sink closes the prior one, and emission is safe     *)
(* as far as the sink serializes.  So nvme_vlog must never write to a FILE *)
(* that nvme_set_log_facility has already fclosed, however a logging       *)
(* thread's unlocked reads of log.file and log.facility interleave with a  *)
(* facility change on another thread.                                      *)
(***************************************************************************)
NoWriteToClosedFile ==
  \A t \in Threads : vpc[t] = "write" => vf[t] \notin closed

=============================================================================
