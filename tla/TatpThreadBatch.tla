---------------------------- MODULE TatpThreadBatch ----------------------------
(***************************************************************************)
(* benchmark/tatp/TatpBatchProcessor.cc: the phases of TatpBatch, with a   *)
(* std::thread for each task where TatpTPBatchProcessor has its pool.  All *)
(* tasks that have not finished run at the same time.                      *)
(***************************************************************************)
EXTENDS TatpBatch

(* The tasks of both phases that may be alive together: the gad threads are *)
(* joined last.                                                            *)
MaxThreads == 4 * Parallelism

ASSUME ThreadAssumption == PoolThreads >= MaxThreads

ThreadStep == \E k \in DOMAIN pool : Work(k)

ThreadNext == Main \/ ThreadStep
ThreadSpec == Init /\ [][ThreadNext]_vars
FairThreadSpec == ThreadSpec /\ WF_vars(Main) /\ WF_vars(ThreadStep)
=============================================================================
