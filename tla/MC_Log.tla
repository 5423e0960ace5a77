------------------------------- MODULE MC_Log -------------------------------
(* Model-checking instance of Log: two logging threads and the control     *)
(* thread, the eight severities, messages from nvme_emerg and nvme_debug.*)
EXTENDS Log, TLC

CONSTANTS t1, t2

MC_Threads == {t1, t2}
MC_Levels == 0..7
MC_LogMacros == {"emerg", "debug"}
MC_SetLevels == {7, 8}      \* debug, and one value out of range
MC_Notice == 5

Symmetry == Permutations(MC_Threads)
=============================================================================
