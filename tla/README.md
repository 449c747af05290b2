# IMDB-D: specifications and proofs

TLA+ models of IMDB-D, a main-memory database that executes a queue of
transactions deterministically: in parallel, yet with the outcome of executing
them one after the other in the order of the queue (`README.md:4` of the
repository calls this *strong execution determinism*, SED). TLC checks the models
on small instances; TLAPS proves the safety of the thread pool, of a table shared by
threads, of the storage engine of one thread, of the batch processors of both benchmarks, of the
linker of two nodes and of `subArr`, for every number of threads, buckets, transactions, records
and messages.

    tlc -workers 2 -config TpccThreadBatch.cfg MCTpccThreadBatch     # one run
    tlapm NodeLinkerProofs.tla                                     # the proofs of one module

Contents: [the system](#the-system), [modules](#modules-and-the-code),
[runs](#runs), [findings](#findings), [proofs](#proofs),
[what is only model-checked](#only-model-checked),
[abstractions](#abstractions), [not modelled](#not-modelled),
[plan](#plan).

## The system

A *populator* fills the tables; a *source* pushes N random transactions and
`ENDEXECUTION` into a single-producer single-consumer queue; then one of three
*processors* takes them from there. The serial one runs each transaction whole.
The two batch processors collect a batch for `kBatchTime` milliseconds, cut its
transactions into sub-transactions, deal these into `kParallelism` buckets so that
whatever may conflict shares a bucket, and run the buckets in phases, in a thread
pool or in a thread for each bucket. They use no locks on records: that buckets
and waits are enough is the whole point of the design, and what can go wrong in it.

| component (`src/`) | state it keeps | operations | hard in it | what makes it correct |
| --- | --- | --- | --- | --- |
| `common/ThreadPool.h` | queue, `stop`, workers asleep or not | enqueue, worker loop, destructor | notify outside the lock, spurious wakeups, stop while tasks are queued | FIFO, exactly once, no lost wakeup, drained and joined at the end |
| `storage/BaseTable.*`, `Block.h` | blocks, next free slot, free list, two counters, header and bytes of each slot | `insertRecord`, `deleteRecord` | only half of `insertRecord` is locked, `deleteRecord` not at all | a slot handed out is fresh and inside its block; the counters know the space |
| `storage/SchemaTable.*`, `TBB*Index.h` | the above, primary and secondary indexes | insert, delete, select, update | the index follows the record later; `deleteRecord` reads the key from a slot it has freed | lookups find what was inserted and not deleted |
| `benchmark/tpcc` base and serial processor | nine tables | 4 + 6 + 4 sub-transactions of three transactions | rows of different tables that have to agree | TPC-C's consistency conditions |
| `benchmark/tpcc` batch processors | batch, buckets, vectors shared by sub-transactions | `start`, `processBatch`, `clearBatch` | eleven kinds of task in six phases, each wait needed by one of them only | SED, no conflicting tasks, inputs ready, no task outlives its parameters |
| `benchmark/tatp` base and serial processor | four tables | seven transactions | subscribers named by number | the lookup finds them |
| `benchmark/tatp` batch processors | batch, buckets, subscriber ids | `start`, `processBatch`, `clearBatch` | lookups before operations, reads that stay until the end | SED and the same answers, as above |
| `benchmark/tatp/TatpUtil.h` | - | `subArr`, `padWithZero` | output through a pointer | a random subarray without repetitions |
| populators, sources, mains, generators | random data, the queue | populate, generate | off-by-one in ranges, queue capacity | - |
| `storage/StorageManager.h`, `SchemaTable.*`, `*Iterator.h`, `Schema.*`, `Record*.*` | tables, each with blocks, counters, free list and indexes; where an iterator stands | register, insert, delete, update, select by key, by predicate, all matching; scan; columns and keys of a record | a scan whose client changes the table; three ways to the same records; offsets, keys and result arrays computed by hand | every way finds the same records, a scan misses none, columns hold what was written |
| `dtxn/NodeLinker.*`, `BaseCoordinatorService.h` | the pool's queue and one worker for each node, a socket | submit, write, read, destroy | a stream cut anywhere, a connection that breaks, a destructor with requests queued | bytes in order, every request ends, replies are not mixed up unnoticed |
| `dtxn/BaseNodeService.h`, `EchoNodeSession.h` | a session with its buffer | accept, read, write | asynchronous handlers, sessions that outlive their client | echoes what it gets, lets the session go |

Interaction: processors call the base processor's operations from tasks; those go
through `StorageManager` to `SchemaTable`, and from there to `BaseTable` and the
indexes. The main thread and the tasks share the batch's parameters and the
vectors of results; the pool carries tasks from one to the other and their
futures back.

## Modules and the code

| module | models | state | actions |
| --- | --- | --- | --- |
| `ThreadPool` | `common/ThreadPool.h` | `tasks`, `stop`; where each worker, client and the owner is; histories `accepted`, `started`; `finished` futures | one per critical section and one per step outside the lock: `Take`, `Sleep`, `WakeSpuriously`, `Exit`, `Run`; `EnqueuePush`, `EnqueueThrow`, `EnqueueNotify`; `DestroyStop`, `DestroyNotifyAll`, `DestroyJoin` |
| `TaskPool` | what the pool promises: a closable FIFO queue whose tasks run in at most `Slots` slots | `pending`, `slot`, `done`, `closed` | `Submit`, `Start`, `Complete`, `Close` |
| `ThreadPoolProofs` | theorems about `ThreadPool` | | |
| `BaseTable` | `storage/BaseTable.cc` | `blocks`, `next`, `free`, `occupied`, `allocated`, `header`, `data`, `mutex`, and each thread's position and locals | choosing the slot (one step: under the lock), `++` and `--` as read and write, header, bytes |
| `SchemaTable` | `storage/SchemaTable.cc` over `BaseTable` | `primary`, `secondary`; history `live` | the table's, and one for each index operation |
| `Tpcc` | `TpccBaseProcessor.cc`, `TpccSerialProcessor.cc`, population | (operators on a database `db`) | an operator per sub-transaction |
| `TpccSerial` | `TpccSerialProcessor::start` | `queue`, `db`, `stopped` | `Start` |
| `Joining` | concatenation of the work lists of buckets and tasks | (operators) | |
| `BatchTasks` | what both batch processors share: collecting, dealing, waiting, the pool's tasks | `queue`, `batch`, `phase`, `pool` | `TakeTxn`; helpers |
| `SerialExecution` | SED: the abstract specification of every processor | `pending`, `state` | `Execute`: some more transactions take effect, whole and in order |
| `TpccBatch` | `TpccTPBatchProcessor.cc` | those of `BatchTasks`, `db`, the shared vectors `inter`, `committed` | main thread: `Collect`, one per phase, `ClearBatch`; tasks: one per kind of iteration |
| `TpccThreadBatch` | `TpccBatchProcessor.cc` | as `TpccBatch` | every unfinished task runs |
| `Tatp` | `TatpBaseProcessor.cc`, `TatpSerialProcessor.cc`, population | (operators) | an operator per operation |
| `TatpBatch`, `TatpThreadBatch` | `TatpTPBatchProcessor.cc`, `TatpBatchProcessor.cc` | as for TPC-C, with `s_ids` and the answers | likewise |
| `TpccSerialProofs` | theorems about `TpccSerial` | | |
| `TpccBatchProofs` | theorems about the TPC-C batch processors with a pool and with threads | | |
| `TatpProofs` | the same for the TATP batch processors, and theorems about `TatpSubArr` | | |
| `Schemas` | `MetaTypes.h`, `Schema.cc`, `Record.cc`: layout and keys of a record | (operators on byte sequences) | an operator per function |
| `Storage` | `StorageManager.h` and everything below it, one thread | `tables`, `scan` | one per call: `RegisterTable`, `DropAllTables`, `Insert`, `Delete`, `Update`; the iterator's `ScanStart`, `ScanHasNext`, `ScanNext`, `ScanRunsOff` and `ScanEnd`, between which any other call may come; selects are operators, they change nothing |
| `StorageProofs` | theorems about `Storage` | | |
| `TableStore` | what `StorageManager` promises: tables of tuples behind handles | `store` | `Register`, `Insert`, `Delete`, `Update`, `DropAll` |
| `EchoNode` | `BaseNodeService.h`, `EchoNodeSession.h` and the connection (external) | `upstream`, `downstream`, `connection`, `session`, `data` | `Accept`, `DoRead`, `DoWrite`, `SessionEnds`; `Break` |
| `NodeLinker` | `NodeLinker.cc` over the pool and the node | the pool's and the node's, `unsent`, `reply`; histories `requested`, `received` | `TakeRequest`, `WriteSome`, `ReadSome`, `Fail`, `Submit`, `CloseConnection`, the pool's sleeping and waking |
| `NodeLinkerProofs` | theorems about `NodeLinker` | | |
| `SchemaTableProofs` | theorems about `SchemaTable` and `BaseTable` | | |
| `SequenceLemmas` | lemmas about sequences, folds, sums and induction that the proofs share | | |
| `TatpSubArr` | `TatpUtil::subArr` and its callers' arrays | `arr`, `sub`, `sub_len`, `caller` | `Call`, `Draw`, `Return`, `Again` |

`SchemaTable` EXTENDS `BaseTable`; `BatchTasks` EXTENDS `Joining`; `NodeLinker` EXTENDS `ThreadPool` and `EchoNode` and
composes them; `Storage` implements `TableStore` (`ImplementsTableStore`);
`ThreadPool` implements `TaskPool` (`ImplementsTaskPool`); the batch processors
implement `SerialExecution` (`StrongExecutionDeterminism`) with
`pending <- batch \o queue` and `state <- committed`, the database at the last
`clearBatch`. `BatchTasks` models the pool by what `ThreadPool` is shown to
provide: tasks start in the order of their enqueue, at most `PoolThreads` at a
time, and every one finishes.

Operators marked *Mutant* sit before the definition they vary by a plausible slip
(a wait left out, a reset forgotten). No specification uses them; each shows that
a property notices the slip: with the mutant in place of the definition, TLC finds
the property violated.

## Runs

All pass with no error except the three marked as findings.

| run | instance | checks |
| --- | --- | --- |
| `ThreadPool.cfg` | 2 workers, 2 clients, 4 tasks | `FirstInFirstOut`, `ExactlyOnce`, `NoLostWakeup`, `DrainedWhenDestroyed`; `EveryTaskRuns`, `DestructorReturns`; `ImplementsTaskPool` |
| `SchemaTableInsertOnly.cfg` | 3 threads with 2 records each, blocks of 2, secondary key shared by a thread's records | `SpaceAccounting`, `SlotsWithinBlocks`, `SlotsAreFresh` |
| `SchemaTableOneThread.cfg` | 1 thread, 4 records, 2 blocks of 2, inserts and deletes for ever | `IndexFindsTheRecord`, `LookupsMatchTheCalls` |
| `SchemaTableShared.cfg` | 2 threads that both delete | `LookupsMatchTheCalls` is violated (finding 1) |
| `Storage.cfg` | 3 tables: a composite primary key with an indexed column, a key that is deleted from, with two keys, no key; blocks of 2, result arrays of 1 | `TablesAreSound`, `AccessPathsAgree`, `ScansAreComplete`, `ImplementsTableStore` |
| `TpccSerial.cfg` | 2 warehouses with 1 district, queues of up to 4 of 7 transactions | `OrderIdsHaveNoGaps`, `DeliveredMeansCarried`, `BalancesMatch`, `PaymentsMatch`, `StockMatches` |
| `TpccThreadBatch.cfg` | 2 warehouses with 2 districts, 2 buckets, a thread per task, queues of up to 2 of 5 transactions and those of 3 that end with a delivery or a payment | `ConflictFree`, `InputsAreReady`, `ParametersOutliveTasks`, `StrongExecutionDeterminism`, `EverythingIsExecuted` |
| `TatpThreadBatch.cfg` | 2 subscribers, facilities and forwardings there or not, queues of up to 3 of 9 transactions, 2 buckets, a thread per task | `SubscribersAreFound`, `ParametersOutliveTasks`, `ConflictFree`, `StrongExecutionDeterminism`, `EverythingIsExecuted` |
| `NodeLinker.cfg` | 2 clients, requests of 1, 2 and 2 units, buffers of 2 | `StreamInOrder`, `LengthsTellMixedReplies`; `EveryTaskRuns`, `SessionReleased` |
| `NodeLinkerReply.cfg` | the same, 1 client | `ReplyIsTheRequest` is violated (finding 3) |
| `TatpSubArr.cfg` | `arr` of 4, lengths 1 to 4, call after call | `AllocatedArrayIsSubarray`, `ArrKeepsItsElements` |
| `TatpSubArrCaller.cfg` | the same | `CallerGetsSubarray` is violated (finding 2) |

*The pool and the threads.* `TpccBatch` and `TatpBatch` run at most `PoolThreads` tasks at
a time, the first unfinished ones in the order of their enqueue. The processors with a thread
per task have no such limit, and nothing else distinguishes them: every step of a processor
with a pool is a step of the one with threads from the same state. The two runs use the
latter, so that what they show of safety holds for the pool of any size. It holds for
`EverythingIsExecuted` too: both assume that some unfinished task goes on while there is one.

Type invariants are checked along with them (`TypeOK`, `SchemaTypeOK`).

**Why the bounds are enough.** Two workers and two clients give every race of two
threads for the queue and for one notification; with four tasks the queue is
longer than the workers are many, so that one task must wait. (Beyond that the
theorems hold for every number.) Three inserting threads can have one in each
part of `insertRecord`; six records fill three blocks of two, so the step to a new
block is met with another insertion under way. One deleting thread with four
records and four slots meets the full block, the free list of every length and
both ways to go on after it. Conflicts of transactions are between pairs; three
transactions make a chain through a third (new order, delivery and payment of the
same customer; new orders of two districts for one stock and a delivery of either). `HashInt` is the identity:
which stock or subscriber meets which in a bucket depends on `hash_int` only up to a
choice of bucket, and the identity both separates and joins them. Batches are cut
after any transaction, so that every division of the queue is met, `ENDEXECUTION`
alone included. Two warehouses with two districts each have remote lines and payments as
well as deliveries with work in both buckets; of the queues of three, those end with a
delivery or a payment, which build on what came before them, and one has an order
that comes too late for the second delivery.

`Storage.cfg`: blocks of two and at most two of them meet a full block, a table without a free slot, one with freed
slots of which the last was freed first, and a second block appended while an iterator stands
at the end of the first. Result arrays start at one record, so that they double once and
twice. `Fillers` are two values of the bytes a caller does not write, behind a VARCHAR.
`NodeLinker.cfg`: two requests of the same length, so that one may be taken for the other, and a
shorter one; buffers of two units and requests of up to two let a write block, be read in one or two
parts, and be echoed in one or two. That no request is longer than what both directions and
the node's buffer hold excludes that the two ends wait for each other with full buffers, a
hazard of the code for requests beyond the socket buffers (`PROJECT.json`). The theorems need none of these bounds.

`Elements <= 4` in `TatpSubArr` is `spe_arr` of the populator itself; the caller's array may
hold an element or something else (`Contents`).

`CHECK_DEADLOCK FALSE` is set where the program ends: the pool is destroyed, the
queue is executed to `ENDEXECUTION`, or the records or blocks of a bounded table are used up.

**Fairness.** `ThreadPool`: weak fairness of each worker's, each client's second
half of `enqueue` and the owner's next step once it has begun to destroy the pool.
The operating system schedules every thread that can run, and a thread waiting for
the mutex gets it again and again, because each critical section is short and
enabled until it is taken. Spurious wakeups and new calls of `enqueue` or the
destructor are not fair: they need not happen. Tasks are assumed to end; those of
the processors are loops over finite vectors. `TpccThreadBatch`, `TatpThreadBatch`: weak
fairness of the main thread and of the tasks together: some unfinished task goes on, which
the scheduling of threads (and the fairness of the pool's workers) implies, and since every task is finite they all
finish. `NodeLinker`: the worker, clients and owner as in `ThreadPool`, and the node's
`io_service` thread handles what has come; TCP delivers what is written as long as the
connection stands. That it breaks, or that anybody calls, is never assumed. The source has filled the queue before the processor starts (`TpccMain.cc:47-50`),
so the spinning `pop` always succeeds until `ENDEXECUTION`.

**What the main properties say.**

- `NoLostWakeup`: while some worker sleeps, there are at least as many workers at the
  queue or clients about to notify as there are tasks in the queue. It is what makes
  `notify_one` outside the lock (`ThreadPool.h:58`) harmless.
- `SpaceAccounting`: `insertRecord` decides from two counters whether the last block
  has a slot left; the counters and the slots it can reach agree, up to the
  operation under way.
- `LookupsMatchTheCalls`: once all operations have returned, the indexes find
  exactly the records inserted and not deleted. Operations on different records
  commute, so this is what every serial order of them gives.
- `StrongExecutionDeterminism`: `committed` only changes by whole prefixes of
  `batch \o queue`, to what `Process` folded over them gives. The consistency
  conditions proved of `TpccSerial` therefore hold after every batch as well.
- `AccessPathsAgree`: after any calls, a select by the primary key, by an index
  and by scanning return exactly the records whose columns have the values, wherever the columns
  lie and however often the array of results has grown. It holds although `updateRecord` leaves the indexes
  alone (`SchemaTable.cc:82`), because no caller updates a column of a key.
- `ScansAreComplete`: when `hasNext` is false, the iterator has returned every record that was there from the
  beginning of the scan on, although its client inserts into freed slots, appends blocks, deletes and
  updates between any two calls of `hasNext` and `next`. (A record inserted during the scan may or may not be
  returned.) And `next`, which does not look for the end (`TableIterator.h:30-44`), follows the NULL behind
  the last block only for a client that has deleted the very record `hasNext` found: with any other
  call in between it finds a record. `ScanRunsOff` is that step; the process dies with its tables.
- `BalancesMatch`: a customer's balance and year-to-date payments together are the amounts of the orders
  delivered to him (TPC-C's consistency condition 12): delivery adds each amount once, and payment takes
  from the one what it adds to the other. The year-to-date payments of all customers are the amounts in
  HISTORY; and so they are customer by customer, as HISTORY's customer columns name them, for those
  whose payments are all made at home and in whose district no other customer with their number has paid.
  For the others they are not (see the note under Findings).
- `ImplementsTableStore`: read column by column, the tables change only as the calls say; an update
  changes the columns it names, of one record.
- `StreamInOrder`: what was taken for sending is, in this order, what read_some has returned, what is
  under way back, what the node holds, what is under way to it and what is still to be
  written.
- `LengthsTellMixedReplies`: a caller that finds every reply up to its own as long as its request has its own
  reply. Without it a cut reply would silently shift all later ones (finding 3).
- `SessionReleased`: once a linker's destructor has begun it returns, though the worker may be in the
  middle of a request, with others queued, and the connection may break; and the node then lets the
  session go, also one that is still in the backlog or about to write.
- `ConflictFree`: two iterations that may run together never touch the same column
  of a row, element of a vector or set of rows, unless both read it. This is what entitles the
  models to treat an iteration as one step.
- `InputsAreReady`, `SubscribersAreFound`: no sub-transaction reads a result that
  is not there yet, whatever the schedule: the waits of `processBatch` suffice.
- `ParametersOutliveTasks`: when `clearBatch` deletes the parameters, no task is left
  to read them, including those no later phase depends on (payments 1 to 3,
  GET_ACCESS_DATA).

## Findings

1. *Tables shared by buckets that delete* (`SchemaTableShared.cfg`).
   `SchemaTable::deleteRecord` puts the slot into the free list
   (`BaseTable.cc:64`) before it reads the key to erase from that very slot
   (`SchemaTable.cc:66-67`), and takes no lock. If another thread inserts into the
   table meanwhile, it may get the slot, and the deletion then clears its header
   and erases its index entry. A shared table is reachable: NEW_ORDER is split into
   `kPartitionCnt` tables by district (or not at all) while deliveries and new
   orders are dealt by district into `kParallelism` buckets, and likewise
   CALL_FORWARDING in TATP. Serializability (the repository's `README.md:4`) thus
   needs `kPartitionCnt` to be a multiple of `kParallelism` in TPC-C, or a partition
   for every district, a condition nothing checks or documents; under it each of
   these tables belongs to one bucket, which is `SchemaTableOneThread.cfg`. The
   repository's scripts also run without it: `run_tpcc.sh:20` has one partition and
   up to twelve threads.
   The other tables are only inserted into (ORDER, ORDER_LINE, HISTORY:
   `SchemaTableInsertOnly.cfg`) or only updated.
2. *`subArr` returns nothing* (`TatpSubArrCaller.cfg`). It assigns a new array to
   its own copy of the pointer `sub` (`TatpUtil.h:37`); the populator then reads its
   own uninitialised array. The facility types and start times it populates are
   those bytes. `Tatp.Populations` therefore lets the two tables hold any set of
   keys, and the batch runs cover facilities and forwardings that are there or not.

3. *One read is taken for the reply* (`NodeLinkerReply.cfg`). `NodeLinker.cc:48` calls
   `read_some` once, which returns what happens to be there, and at most the 1024 bytes of `reply`.
   A reply that comes in parts is cut, and its rest is the beginning of the next task's
   reply. `client.cc:52-63` asserts that every field of what comes back is what was sent.

*Noted, without a run.* `paymentSubTxn4` gets the district that receives a payment and the number of the
paying customer (`TpccBaseProcessor.cc:301-304`) and books on the customer with that number there, while
`paymentSubTxn3` writes the customer's own warehouse and district into HISTORY (`TpccBaseProcessor.cc:289-291`).
For a payment by a remote customer the two disagree: TPC-C's consistency condition 10, which derives a balance
from the payments HISTORY names the customer for, does not hold of the customer who has paid nor of the one
booked on. Nothing in the repository states the condition, so no run refutes it;
`BalancesMatch` claims no more of such customers than what does hold.

## Proofs

`ThreadPoolProofs` proves, for every finite non-empty set of workers, finite set
of clients and any set of tasks (`PoolAssumption`, the only assumption):

| theorem | statement |
| --- | --- |
| `PoolInvariant` | `Spec => []Inv`, the inductive invariant |
| `PoolTypes` | `Spec => []TypeOK` |
| `PoolIsFirstInFirstOut` | `Spec => []FirstInFirstOut` |
| `PoolRunsTasksExactlyOnce` | `Spec => []ExactlyOnce` |
| `PoolLosesNoWakeup` | `Spec => []NoLostWakeup` |
| `PoolIsDrainedWhenDestroyed` | `Spec => []DrainedWhenDestroyed` |
| `NobodyIsLeftAsleep` | `Spec => []NobodySleepsAfterNotifyAll` |
| `PoolImplementsTaskPool` | `Spec => Promise!Spec` |

The argument. `Inv` joins `TypeOK`, `FirstInFirstOut` and `Bookkeeping`, each of
which is preserved only together with the others: that the queue holds no task twice
follows from `enqueue` being called with a new task and from what was accepted being what
was started and is queued; that no worker has left while tasks are queued needs `stop`
to close the queue for good. `ExactlyOnce` is inductive relative to `Inv`: a pop moves the front of the queue to
one worker, and it was nowhere else. `NoLostWakeup` is a count: a push adds one task
and one notifying client; a notification turns that client into a worker at the
queue, or finds nobody asleep; a pop takes one task and one worker at the queue; a
worker goes to sleep only at an empty queue. `DrainedWhenDestroyed` follows: joined
workers have exited, the queue was empty then and nothing is accepted after `stop`.
The refinement maps every critical section to an operation of `TaskPool` or to a
stutter. Lemmas about sequences (`ShiftHead`, `ElementsTail`, `TailDistinct`, ...)
state what a queue does to its elements.

`NodeLinkerProofs` proves, for one worker, any number of clients and tasks, requests of any
positive length (`LinkAssumption`) and buffers of any size (`EchoAssumption`):

| theorem | statement |
| --- | --- |
| `LinkerIsAPool` | `LinkSpec => Spec`: what holds of the pool holds of a linker |
| `LinkerTakesRequestsInOrder` | `LinkSpec => [](Inv /\ ExactlyOnce /\ DrainedWhenDestroyed)` |
| `LinkKeepsTheStream` | `LinkSpec => []StreamInv`, the inductive invariant of the stream |
| `StreamStaysInOrder` | `LinkSpec => []StreamInOrder` |
| `LinkKeepsReplies` | `LinkSpec => []ReplyInv`, the inductive invariant of the replies |
| `LengthsTell` | `LinkSpec => []LengthsTellMixedReplies` |

The argument. `StreamInOrder` is an equation between sequences; a step moves units over one of the
joints of its right side. Writing moves the first unit of one stream to the end of the one
before it (`HandOverKeepsTheStream`), reading a prefix (`CutOffKeepsTheStream`); that the
buffer a read fills was empty needs `StreamTypes`: only a running worker has something to write, only
a writing session something to echo. For the replies, `ReplyBookkeeping` adds that futures become
ready in the order of `started`, and that as long as all lengths were right, what was requested is
what was received and the request in hand. A read that returns as many units as that
request has then returned it (`AsLongIsTheSame`: the stream behind what was received begins with
it); a read of another length, and an exception, end the premise for all that follow.

`SchemaTableProofs` proves, from `TableAssumption` and `IndexAssumption`, for any number of threads and
records and blocks of any size, with `UsedByBuckets` as the premise of each theorem: several threads only insert, or
one thread does everything and deletes only records whose secondary key no other record has.
This is how the processors use their tables under the condition of finding 1; without it
`SchemaTableShared.cfg` is a counterexample.

| theorem | statement |
| --- | --- |
| `TableInvariant` | `SchemaSpec => []TableInv`, the inductive invariant |
| `TableTypes` | `SchemaSpec => []SchemaTypeOK` |
| `CountersKnowTheSpace` | `SchemaSpec => []SpaceAccounting` |
| `RecordsStayWithinBlocks` | `SchemaSpec => []SlotsWithinBlocks` |
| `ChosenSlotsAreFresh` | `SchemaSpec => []SlotsAreFresh` |
| `IndexLeadsToTheRecord` | `SchemaSpec => []IndexFindsTheRecord` |
| `LookupsAreSerial` | `SchemaSpec => []LookupsMatchTheCalls` |

The argument. `LockInv` and `SpaceInv` make the count exact: who counts holds the mutex or is alone, so that
`allocated = occupied` means that neither the block nor the free list has a slot, and
anything else that one of them has (`ChosenSlot`). A slot is untouched, free, indexed, or in
the hands of one thread (`SlotInv`, `EntryInv`), and `BytesInv` says what its header and bytes
are meanwhile: that an insertion may fill its slot after it has released the mutex rests on
nobody else having that slot. `CallInv` keeps the key a thread works on out of all other
hands, from the lookup before `insertRecord` to the last index entry, because a bucket is run by one
thread; `LiveInv` and `SecondaryInv` relate the entries to the calls. With a second thread that deletes, the step
that frees a slot breaks `SlotInv`, the deleting thread still working on it.

The last part of `TatpProofs` proves of an array of any length with distinct elements
(`SubArrAssumption`, `DistinctElements`) `SubArrInvariant`, `ElementsAreKept` (`SubArrSpec => []ArrKeepsItsElements`) and
`DrawsAreDistinct` (`SubArrSpec => []AllocatedArrayIsSubarray`): `arr` stays a permutation, and what
was drawn is its tail in reverse, behind the elements still to be drawn from.

The batch processors. `TatpProofs` and `TpccBatchProofs` prove an inductive invariant `IInv` of the processor with
the pool (`Spec`) and of the one with a thread per task (`ThreadSpec`); the properties follow for
both, `Spec \/ ThreadSpec => []P`. The assumptions are those of the models: scales and prices
(`TpccAssumption`), `Parallelism` and `PoolThreads` at least one (`BatchAssumption`), a hash with
natural values (`HashAssumption`) and a queue of what the source may draw (`QueueAssumption`).
Nothing bounds the queue, the batches or the buckets.

`TatpProofs`:

| theorem | statement |
| --- | --- |
| `PoolSound`, `ThreadsSound` | `Spec => []IInv`, `ThreadSpec => []IInv` |
| `NoConflicts` | `[]ConflictFree` |
| `ParametersLast` | `[]ParametersOutliveTasks` |
| `SubscribersFirst` | `[]SubscribersAreFound` |
| `Deterministic` | `StrongExecutionDeterminism`: the processor implements `SerialExecution` |

`TpccBatchProofs`:

| theorem | statement |
| --- | --- |
| `PoolSound`, `ThreadsSound` | `Spec => []IInv`, `ThreadSpec => []IInv` |
| `Typed` | `[]TypeOK` |
| `ParametersLast` | `[]ParametersOutliveTasks` |
| `InputsReady` | `[]InputsAreReady` |
| `NoConflicts` | `[]ConflictFree` |

The argument. `IInv` says which jobs may be alive in a phase (`JobsIn`), that what a task still
has to do is for its job and lies within the batch, and that two tasks of one job have entries of different
buckets (`Apart`): what may conflict has the same bucket, and a bucket's entries of one job are one task's, so
`ConflictFree` is left to pairs of different jobs, which are compared by the tables they name.
For the inputs it says of every element of a shared vector that it is set or that the entry that
sets it is still in the pool; a phase ends when its jobs have left the pool, which turns the second
into the first. In TPC-C an order id is set exactly once and from a counter that never goes back,
so orders of different transactions differ; every row of ORDER has its lines, or the new order that is about
to insert them; and a delivery finds the order it has been given. Cutting a task's first entry off or dropping a
finished task keeps all of this (`SequenceLemmas`).

`Deterministic` is the main promise of TATP's processors: whatever the source draws, wherever the batches are cut,
with any number of buckets and threads and in every interleaving of the tasks, each `clearBatch` leaves the
database and the answers that the serial processor leaves after the same transactions. It needs a second invariant,
`InStep` (TLC checked it on the instance of `TatpThreadBatch.cfg` first). Let `After[q]` be the
database after the first `q` transactions of the batch have run whole. A job works on one table and, in it,
on the rows of one subscriber at a time (`View`), and what a transaction does to these depends on nothing else
(`DidHere`, `DidElsewhere`, `ProcessViews`). All entries of a job for one subscriber are in one bucket, and every
list of entries rises (`AllRising`), so they are worked off in the order of the queue. Hence for each job and
subscriber there is a `q` such that the rows are those of `After[q]` and exactly the entries behind
`q` wait (`CaughtUp`), an iteration finds the rows its transaction would find in the serial execution (`AtItsTurn`),
and what has been read so far is what it would have read (`AnswersSound`). When no task is left all `q` can be
the end of the batch, and databases with the same rows and answers are equal (`SameViews`, `ClearBatchFollows`). That
`SerialExecution` folds `Process` over the transactions is `SerialStates`, by induction over their number. That the rows'
owners are subscribers of the population is part of `TatpAssumption`: `startPopulate` writes facilities and
forwardings in a loop over the subscribers.

`SequenceLemmas` has what these proofs need of sequences, and of folds and sums. Induction is the library's only through
operator parameters, which the provers cannot instantiate; lemma `Induction` states it for a
set of numbers instead and is proved from the well-foundedness of the naturals. With it the recursive functions
behind `Joined`, `Dealt`, `FoldLeft` and `SumFunction` are shown to exist and can be unfolded.

`TpccSerialProofs` proves TPC-C's consistency conditions for any scale (`TpccAssumption`) and any queue
the source may draw (`QueueAssumption`; quantities up to `MAX_OL_QUANTITY`):

| theorem | statement |
| --- | --- |
| `SerialConsistent` | `Spec => []IInv`: `Consistent(db)`, and the queue holds drawn transactions |
| `SerialOrderIds` | `Spec => []OrderIdsHaveNoGaps` |
| `SerialCarriers` | `Spec => []DeliveredMeansCarried` |
| `SerialBalances` | `Spec => []BalancesMatch` |
| `SerialPayments` | `Spec => []PaymentsMatch` |
| `SerialStock` | `Spec => []StockMatches` |

The argument. A transaction is a composition of loops of sub-transactions, and no condition holds in between. So each
loop is first reduced to what it writes: the districts of a delivery share no rows, so its four loops
write as if all at once, in whatever order the code's hash maps yield them (`Loop1Does` to
`Loop4Does`); the loop over the stock may meet one row twice and becomes a function of the line's number
(`StockLoopDoes`). `DeliveryDoes`, `NewOrderDoes` and `PaymentDoes` put these together to the tables a
transaction leaves behind. Each condition is then shown to survive each of the three. The
conditions depend on one another: that a new order's key is new needs the order ids without gaps, and so do
sums over its lines; that no district is delivered twice in one balance needs the carriers, which tell what
has been delivered; that the year-to-date payments of a customer are those of HISTORY if he pays at home needs
to know of every customer which payments have been booked on him (`BookedOn`, `BalancesFollow`); that the stock stays within `10 .. 100` needs the limit on quantities. Hence the
invariant is their conjunction, with the types of the rows. How a sum changes when one row is added or changed is `SumWith` and
`SumChanged` of `SequenceLemmas`, which rest on `SumsTakeAny`: a sum does not depend on the order it is taken in.

`StorageProofs` proves, for any catalog, any number and size of blocks (`StorageAssumption`: schemas are
what `insertColumn` builds, bytes are `0 .. 255`, a caller updates no key column and no column twice, a
query names columns and brings as many bytes as each of them has):

| theorem | statement |
| --- | --- |
| `StorageInvariant` | `Spec => []StorageInv`, the inductive invariant |
| `TablesStaySound` | `Spec => []TablesAreSound` |
| `ScansReturnEverything` | `Spec => ScansAreComplete` |
| `IndexesStayExact` | `Spec => []IndexInv`, what the indexes hold |
| `SelectsAgree` | `Spec => []AccessPathsAgree` |
| `StorageImplementsTableStore` | `Spec => ImplementsTableStore` |

The argument. A schema that `insertColumn` has built is laid out (`InsertColumnKeepsLayout`,
`SchemasAreLaidOut`): columns lie within the record and do not overlap, so writing one leaves the others
alone (`SetColumnsWrite`) and a key whose columns are not written stays the same (`KeyKept`).
`SpaceInv` is the arithmetic of slots: those before `next` have a record or are in the free list once, there
are `occupied + Len(free)` of them, and never more than `allocated`; `EntryInv` says that an entry of the
primary index leads to a record with its key. `ScanInv` says that what was there at the beginning of the
scan, is there still and has not been returned lies at or behind the iterator: an insertion uses
a slot that was free, a deletion takes a record out of the claim, and only `ScanHasNext` and `ScanNext` move
the iterator, to and behind the next record (`SeekIs`). It also says that, after `hasNext` was true, the iterator
stands at a record unless that one has been deleted, so that `next` finds one (`NothingAhead`). The refinement reads the records column by column
(`RowsOf`); each call is one operation of `TableStore` and the steps of a scan are stutters. That an insertion's
buffer holds the tuple it was made from is `BufferHolds`.

`AccessPathsAgree` needs more than that entries lead to records: `IndexInv` says that each index has one
entry of every record, under the bytes of its key, and none of anything else. It is preserved because a deletion
erases exactly the entries an insertion made and an update writes no column of a key
(`UpdateWritesNoKey`). The three paths then meet in one condition, that every column asked for has the bytes
asked for. For the two indexes, a lookup compares keys, which are the bytes of all their columns in one string:
different values could spell the same string, and do not because a column has the same size in each record
(`FlattenInjective`, `KeyMeansMatch`). For the scan, the loop of the code is one recursive function that moves the
iterator and compares in turn; `FoundFrom` says what it has found from a slot on, by induction downwards from the
end of the table (`FindsExists`, `ScanFinds`). All three store what they find in an array that doubles when it is full, of
which nothing is lost (`InsertPointerStores`, `ArrayHolds`).

## Only model-checked

- Liveness (`EveryTaskRuns`, `DestructorReturns`, `EverythingIsExecuted`,
  `SessionReleased`) and the fairness part of `ImplementsTaskPool`: beyond the prover.
- `StrongExecutionDeterminism` of TPC-C. The proof for TATP compares rows of one subscriber with those a serial
  execution has left; in TPC-C the rows of an order, its lines and its customer are reached through what other
  jobs of the batch have computed, so the comparison has to run along all phases at once. What its jobs
  read and that they do not meet is proved (`InputsReady`, `NoConflicts`).

## Abstractions

- *Operations on a table are steps.* An iteration of a task is one step in the
  benchmark models. It is entitled to that by `ConflictFree` on the rows, and by
  the table runs below it, under the condition of finding 1.
- All tasks of a phase are enqueued at once and empty tasks are dropped: the main
  thread does nothing between two enqueues that a task can see.
- Records carry the columns that transactions change or other operations depend
  on. `o_all_local` is left out: it is computed from the lines and never read. So are
  names, addresses, `h_data`, and the rows HISTORY is populated with.
- Money is integers; the code adds doubles, whose sums depend on their order. SED fixes that order
  where one customer or warehouse is concerned.
- A payment for a remote customer changes the balance of the home district's customer of
  the same number (`TpccBaseProcessor.cc:301-304`); the remote ids only reach HISTORY. The
  model does what the code does; what `BalancesMatch` says in spite of it is said above.
- New lines get the order's entry date as delivery date (`TpccBaseProcessor.cc:260`).
- ACCESS_INFO is never written, so GET_ACCESS_DATA only matters for how long its parameters
  live; GET_NEW_DESTINATION is empty in the code (`TatpBaseProcessor.cc:30-32`).
- `answers` is a history: what GET_SUBSCRIBER_DATA and the facility lookup have read, in the
  order of the queue. The code discards it.
- `Storage` lays the blocks of a table end to end and leaves out the bytes of slots without
  a record. Its callers keep to what the processors do: primary keys are inserted once, key columns
  are not updated, a deleted record shares no key of a secondary index with another
  (`TBBMultiIndex::deleteRecord` erases all entries of a key), no iterator is kept into a table that
  `registerTable` replaces (which it does silently, with an empty one) or `DropAllTables` releases, and a table is scanned only after its first insertion (`BaseTable.cc:27` reads
  `blocks[0]`).
- `getColumn` returns the bytes of a column. Its overloads into a `std::string` (`Record.cc:56-59`, `123-126`)
  stop at the first NUL byte and are left out.
- A byte of a connection is a unit, distinct from all others, so that a lost or misplaced one
  shows. The connection breaks at once for both ends, and an asynchronous handler is one step: one
  thread runs `io_service` (`server.cc`).
- Slots, header and bytes of a record are read and written in one step each. A
  behaviour of `BaseTable` stops when a record would be written behind a block.

## Not modelled

- The hash indexes, which nothing uses; the names of columns and `getStatisticsString`, which
  only prints; the tuples of the benchmarks, copies into a buffer.
- `unsafe_erase` beside another operation of the same multimap, and a scan of a table without a
  block: undefined in the library and in the language.
- Resolving, connecting and listening, which come before the first step of `NodeLinker`; the
  coordinator's vector of linkers, which share nothing; requests of no length, whose reply
  `read_some` waits for in vain; the experiment's message formats.
- Random generators and distributions (draws are choices; the distributions compute with
  floating point), timers, partition ids, command lines, and the bounded queue, which is filled before a
  processor starts.

`PROJECT.json` lists every component with its status, and the hazards no property
covers with the reason.

## Plan

Done are the pool, the tables between threads, `subArr`, linker and node, the storage
engine of one thread with its refinement, TPC-C's serial processor and the batch processors of both
benchmarks, all with proofs. To come:

1. `TablePartitions`: ids of partitioned tables, `kPartitionCnt` beyond
   `MAX_PARTITION_CNT`, and the condition of finding 1 derived from both moduli.
2. `SourceQueue`: bounded queue, source, processor and `ENDEXECUTION`;
   `generateIntegerExcluding` against "any other warehouse".
3. The proof of `StrongExecutionDeterminism` for TPC-C, along that for TATP.
