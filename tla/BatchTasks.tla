------------------------------ MODULE BatchTasks ------------------------------
(***************************************************************************)
(* What the batch processors of both benchmarks share: collecting a batch  *)
(* from the queue, dealing its sub-transactions into kParallelism buckets, *)
(* running a bucket as a task of the thread pool and waiting for tasks     *)
(* (benchmark/tpcc/TpccTPBatchProcessor.cc, tatp/TatpTPBatchProcessor.cc). *)
(*                                                                         *)
(* The pool is the one of module ThreadPool: tasks start in the order they *)
(* were enqueued, at most PoolThreads at a time, each in one thread until  *)
(* it has finished.  A step of a task is one iteration of its loop.  All   *)
(* tasks of a phase are enqueued at once: enqueue only touches the pool,   *)
(* and a bucket is fixed before its task is enqueued, so that a task which *)
(* starts before the next one is enqueued finds nothing else.              *)
(*                                                                         *)
(* The parameter vectors of the types are views of batch_params, so a      *)
(* transaction is named by its position in the batch.                      *)
(***************************************************************************)
EXTENDS Joining, SequencesExt, TLC

CONSTANTS Queues,       \* the contents of the queue the source may have left
          Parallelism,  \* kParallelism
          PoolThreads   \* threads of the pool; the code makes them kParallelism

ASSUME BatchAssumption == {Parallelism, PoolThreads} \subseteq Nat \ {0}

VARIABLES queue,  \* the single-producer single-consumer queue
          batch,  \* batch_params
          phase,  \* what the main thread waits for
          pool    \* the tasks that have not finished, in the order of their enqueue

BatchInit == /\ queue \in Queues
             /\ batch = <<>>
             /\ phase = "collect"
             /\ pool = <<>>

-----------------------------------------------------------------------------
(* The main thread.                                                        *)

\* Mutant: ENDEXECUTION does not leave the loop.
TakeTxnPastTheEnd ==
    /\ phase = "collect"
    /\ queue # <<>>
    /\ batch' = Append(batch, Head(queue))
    /\ queue' = Tail(queue)
    /\ phase' \in {"collect", "full"}
    /\ UNCHANGED pool

(* kBatchTime may run out after any transaction.                           *)
TakeTxn ==
    /\ phase = "collect"
    /\ queue # <<>>
    /\ batch' = Append(batch, Head(queue))
    /\ queue' = Tail(queue)
    /\ phase' \in IF Head(queue).type = "ENDEXECUTION" THEN {"full"} ELSE {"collect", "full"}
    /\ UNCHANGED pool

Of(type) == {p \in DOMAIN batch : batch[p].type = type}

(* Deal goes through the batch in its order and puts each of a              *)
(* transaction's entries into its bucket.                                   *)
Buckets == 0 .. Parallelism - 1
Deal(entries, bucket) == [t \in Buckets |-> Dealt(Len(batch), entries, bucket, t)]

(* One task for each bucket; those with nothing to do finish at once.      *)
Task(job, work) == IF work = <<>> THEN <<>> ELSE << [job |-> job, work |-> work] >>
Tasks(job, buckets) ==
    Joined(Parallelism, [t \in 1 .. Parallelism |-> Task(job, buckets[t - 1])])
Enqueue(tasks) == pool' = pool \o tasks

Waited(jobs) == \A k \in DOMAIN pool : pool[k].job \notin jobs

(* clearBatch deletes the parameters; ENDEXECUTION ends the loop of start.  *)
Clear ==
    /\ phase' = IF Of("ENDEXECUTION") # {} THEN "stopped" ELSE "collect"
    /\ batch' = <<>>
    /\ UNCHANGED <<queue, pool>>

-----------------------------------------------------------------------------
(* The tasks.  Entry(k) is what the k-th unfinished task works on next.    *)

Active == {k \in DOMAIN pool : k <= PoolThreads}
Entry(k) == Head(pool[k].work)
Txn(k) == batch[Entry(k)[1]]
Iteration(k, job) == k \in Active /\ pool[k].job = job
Done(k) == /\ pool' = IF Len(pool[k].work) = 1 THEN RemoveAt(pool, k)
                      ELSE [pool EXCEPT ![k].work = Tail(@)]
           /\ UNCHANGED <<queue, batch, phase>>

-----------------------------------------------------------------------------
(* No task outlives the parameters it works on, which clearBatch deletes,   *)
(* or the local vectors of processBatch it refers to.                       *)
ParametersOutliveTasks ==
    \A k \in DOMAIN pool : \A i \in DOMAIN pool[k].work : pool[k].work[i][1] \in DOMAIN batch

(* The processor gets to the end of the queue: no phase waits for ever.     *)
EverythingIsExecuted == <>(phase = "stopped" /\ queue = <<>>)
=============================================================================
