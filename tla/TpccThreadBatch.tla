---------------------------- MODULE TpccThreadBatch ----------------------------
(***************************************************************************)
(* benchmark/tpcc/TpccBatchProcessor.cc: the phases of TpccBatch, with a   *)
(* std::thread for each task where TpccTPBatchProcessor has its pool.  All *)
(* tasks that have not finished run at the same time.                      *)
(***************************************************************************)
EXTENDS TpccBatch

(* The tasks of one phase, of which those of an earlier one may be alive.  *)
MaxThreads == 3 * Parallelism + 3

ASSUME ThreadAssumption == PoolThreads >= MaxThreads

ThreadStep == \E k \in DOMAIN pool : Work(k)

ThreadNext == Main \/ ThreadStep
ThreadSpec == Init /\ [][ThreadNext]_vars
FairThreadSpec == ThreadSpec /\ WF_vars(Main) /\ WF_vars(ThreadStep)
=============================================================================
