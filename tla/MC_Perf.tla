------------------------------- MODULE MC_Perf -------------------------------
(* nvme_perf with small devices: two-sector I/Os on a namespace whose size   *)
(* they divide (MC_Perf.cfg; with NrSectors = 3 they do not), and the default *)
(* queue depth of 1 (MC_Perf_hang.cfg).                                      *)
EXTENDS Perf, TLC

=============================================================================
