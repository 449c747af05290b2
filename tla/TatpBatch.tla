------------------------------- MODULE TatpBatch -------------------------------
(***************************************************************************)
(* benchmark/tatp/TatpTPBatchProcessor.cc: a batch of TATP transactions    *)
(* goes through two phases of tasks.  The first looks up the subscribers   *)
(* that are named by their number; the second deals what is left to do     *)
(* into buckets by subscriber, separately for CALL_FORWARDING, SUBSCRIBER  *)
(* and SPECIAL_FACILITY.                                                   *)
(*                                                                         *)
(* A step of a task is one iteration of its loop; ConflictFree is why the  *)
(* accesses within an iteration need not be told apart.                    *)
(***************************************************************************)
EXTENDS Tatp, BatchTasks

CONSTANT HashInt   \* hash_int, as a function on subscriber ids

ASSUME HashAssumption == HashInt \in [0 .. Subscribers -> Nat]

Queued == {p \in UNION {Range(q) : q \in Queues} : NamesSubscriber(p)}
ASSUME QueueAssumption == Queues \subseteq Seq(Queued)

VARIABLES
    db,        \* the database
    s_ids,     \* dcf_s_ids, icf_s_ids and ul_s_ids, by position in the batch
    answer,    \* history: what the selects of the batch found, by position
    committed  \* history: the database when the batch began

vars == <<queue, batch, phase, pool, db, s_ids, answer, committed>>

Init == /\ BatchInit
        /\ db \in Populations
        /\ s_ids = <<>>
        /\ answer = <<>>
        /\ committed = db

-----------------------------------------------------------------------------
(* Buckets.                                                                *)

(* The index of a transaction in the vector of its type.                   *)
Index(p) == Cardinality({q \in Of(batch[p].type) : q < p})

Stride(type) == Deal([p \in DOMAIN batch |-> IF p \in Of(type) THEN Once(p) ELSE <<>>],
                     [e \in Entries |-> Index(e[1]) % Parallelism])

SubscriberOf(p) == IF batch[p].type \in ByNumber THEN s_ids[p] ELSE batch[p].s_id

\* Mutant: transactions dealt round-robin instead of by their subscriber.
SubscriberBucketInTurn(p) == p % Parallelism
SubscriberBucket(p) == HashInt[SubscriberOf(p)] % Parallelism

BySubscriber(types) ==
    Deal([p \in DOMAIN batch |-> IF batch[p].type \in types THEN Once(p) ELSE <<>>],
         [e \in Entries |-> SubscriberBucket(e[1])])

\* Mutant: all deletions before all insertions.
DeletionsFirstBuckets ==
    [t \in Buckets |-> BySubscriber({"DELETE_CALL_FORWARDING"})[t]
                       \o BySubscriber({"INSERT_CALL_FORWARDING"})[t]]
ForwardingBuckets == BySubscriber({"DELETE_CALL_FORWARDING", "INSERT_CALL_FORWARDING"})
SubscriberRowBuckets ==
    BySubscriber({"GET_SUBSCRIBER_DATA", "UPDATE_LOCATION", "UPDATE_SUBSCRIBER_DATA"})
FacilityBuckets == BySubscriber({"INSERT_CALL_FORWARDING", "UPDATE_SUBSCRIBER_DATA"})

-----------------------------------------------------------------------------
(* The main thread.                                                        *)

Collect == TakeTxn /\ UNCHANGED <<db, s_ids, answer, committed>>

EnqueueLookups ==
    /\ phase = "full"
    /\ Enqueue(Tasks("dcf_sid", Stride("DELETE_CALL_FORWARDING"))
               \o Tasks("icf_sid", Stride("INSERT_CALL_FORWARDING"))
               \o Tasks("ul_sid", Stride("UPDATE_LOCATION"))
               \o Tasks("gad", Stride("GET_ACCESS_DATA")))
    /\ s_ids' = [p \in UNION {Of(type) : type \in ByNumber} |-> 0]
    /\ phase' = "lookups"
    /\ UNCHANGED <<queue, batch, db, answer, committed>>

\* Mutant: the icf_sid threads are not waited for.
EnqueueOperationsUnwaited ==
    /\ phase = "lookups"
    /\ Waited({"dcf_sid", "ul_sid"})
    /\ Enqueue(Tasks("dcf_icf", ForwardingBuckets) \o Tasks("gsd_ul_usd", SubscriberRowBuckets)
               \o Tasks("icf_usd", FacilityBuckets))
    /\ phase' = "operations"
    /\ UNCHANGED <<queue, batch, db, s_ids, answer, committed>>

EnqueueOperations ==
    /\ phase = "lookups"
    /\ Waited({"dcf_sid", "icf_sid", "ul_sid"})
    /\ Enqueue(Tasks("dcf_icf", ForwardingBuckets) \o Tasks("gsd_ul_usd", SubscriberRowBuckets)
               \o Tasks("icf_usd", FacilityBuckets))
    /\ phase' = "operations"
    /\ UNCHANGED <<queue, batch, db, s_ids, answer, committed>>

(* The selects' outcomes, in the order of the transactions.                *)
AnswersInOrder ==
    Joined(Len(batch), [p \in 1 .. Len(batch) |->
                           IF p \in DOMAIN answer THEN <<answer[p]>> ELSE <<>>])

ForgetBatch ==
    /\ db' = [db EXCEPT !.answers = @ \o AnswersInOrder]
    /\ committed' = db'
    /\ s_ids' = <<>>
    /\ answer' = <<>>

\* Mutant: the gad threads are not waited for.
ClearBatchUnwaited ==
    /\ phase = "operations"
    /\ Waited({"dcf_icf", "gsd_ul_usd", "icf_usd"})
    /\ Clear
    /\ ForgetBatch

(* processBatch returns.                                                   *)
ClearBatch ==
    /\ phase = "operations"
    /\ Waited({"dcf_icf", "gsd_ul_usd", "icf_usd", "gad"})
    /\ Clear
    /\ ForgetBatch

-----------------------------------------------------------------------------
(* The tasks.                                                              *)

Position(k) == Entry(k)[1]

Lookup(k) ==
    /\ \/ Iteration(k, "dcf_sid")
       \/ Iteration(k, "icf_sid")
       \/ Iteration(k, "ul_sid")
    /\ s_ids' = [s_ids EXCEPT ![Position(k)] = SubscriberIdOf(db, Txn(k).sub_nbr)]
    /\ Done(k) /\ UNCHANGED <<db, answer, committed>>

AccessInfo(k) ==
    /\ Iteration(k, "gad")
    /\ Done(k) /\ UNCHANGED <<db, s_ids, answer, committed>>

Forwarding(k) ==
    /\ Iteration(k, "dcf_icf")
    /\ \/ /\ Txn(k).type = "DELETE_CALL_FORWARDING"
          /\ db' = DeleteForwarding(db, Txn(k), s_ids[Position(k)])
       \/ /\ Txn(k).type = "INSERT_CALL_FORWARDING"
          /\ db' = InsertForwarding(db, Txn(k), s_ids[Position(k)])
    /\ Done(k) /\ UNCHANGED <<s_ids, answer, committed>>

SelectSubscriber(k) ==
    /\ Iteration(k, "gsd_ul_usd")
    /\ Txn(k).type = "GET_SUBSCRIBER_DATA"
    /\ answer' = Insert(answer, Position(k), SubscriberRow(db, Txn(k).s_id))
    /\ Done(k) /\ UNCHANGED <<db, s_ids, committed>>

UpdateSubscriber(k) ==
    /\ Iteration(k, "gsd_ul_usd")
    /\ \/ /\ Txn(k).type = "UPDATE_LOCATION"
          /\ db' = UpdateVlr(db, Txn(k), s_ids[Position(k)])
       \/ /\ Txn(k).type = "UPDATE_SUBSCRIBER_DATA"
          /\ db' = UpdateBit1(db, Txn(k))
    /\ Done(k) /\ UNCHANGED <<s_ids, answer, committed>>

SelectFacility(k) ==
    /\ Iteration(k, "icf_usd")
    /\ Txn(k).type = "INSERT_CALL_FORWARDING"
    /\ answer' = Insert(answer, Position(k), FacilityRows(db, s_ids[Position(k)]))
    /\ Done(k) /\ UNCHANGED <<db, s_ids, committed>>

UpdateFacility(k) ==
    /\ Iteration(k, "icf_usd")
    /\ Txn(k).type = "UPDATE_SUBSCRIBER_DATA"
    /\ db' = UpdateDataA(db, Txn(k))
    /\ Done(k) /\ UNCHANGED <<s_ids, answer, committed>>

Work(k) == \/ Lookup(k) \/ AccessInfo(k) \/ Forwarding(k) \/ SelectSubscriber(k)
           \/ UpdateSubscriber(k) \/ SelectFacility(k) \/ UpdateFacility(k)
Main == Collect \/ EnqueueLookups \/ EnqueueOperations \/ ClearBatch

Next == Main \/ \E k \in 1 .. PoolThreads : Work(k)

Spec == Init /\ [][Next]_vars
FairSpec == Spec /\ WF_vars(Main) /\ WF_vars(\E k \in 1 .. PoolThreads : Work(k))

-----------------------------------------------------------------------------
(* What an iteration reads and writes: columns of rows, or a subscriber's   *)
(* rows where rows are inserted, removed or searched, and the elements of   *)
(* the vectors of subscriber ids.                                          *)
WritesOf(k) ==
    LET s    == SubscriberOf(Position(k))
        job  == pool[k].job
        type == Txn(k).type
    IN  CASE job \in {"dcf_sid", "icf_sid", "ul_sid"} -> {<<"s_id", Position(k)>>}
          [] job = "dcf_icf" -> {<<"forward", s>>}
          [] job = "gsd_ul_usd" /\ type = "UPDATE_LOCATION" -> {<<"vlr", s>>}
          [] job = "gsd_ul_usd" /\ type = "UPDATE_SUBSCRIBER_DATA" -> {<<"bit1", s>>}
          [] job = "icf_usd" /\ type = "UPDATE_SUBSCRIBER_DATA" -> {<<"facility", s>>}
          [] OTHER -> {}
ReadsOf(k) ==
    LET s == SubscriberOf(Position(k))
    IN  CASE pool[k].job = "gsd_ul_usd" /\ Txn(k).type = "GET_SUBSCRIBER_DATA" ->
                 {<<"vlr", s>>, <<"bit1", s>>}
          [] pool[k].job = "icf_usd" /\ Txn(k).type = "INSERT_CALL_FORWARDING" ->
                 {<<"s_id", Position(k)>>, <<"facility", s>>}
          [] pool[k].job \in {"dcf_icf", "gsd_ul_usd"} /\ Txn(k).type \in ByNumber ->
                 {<<"s_id", Position(k)>>}
          [] OTHER -> {}

(* Two tasks that run at the same time never touch the same row or vector   *)
(* element, unless both only read it: "need to resolve SPECIAL FACILITY &&  *)
(* CALL FORWARDING && SUBSCRIBER" (TatpTPBatchProcessor.cc:147).            *)
ConflictFree ==
    \A j, k \in Active : j # k => WritesOf(j) \cap (WritesOf(k) \cup ReadsOf(k)) = {}

(* The operations come to their entry with the id of an existing            *)
(* subscriber: the lookup is done and has found it, so the update that does *)
(* not check the row it selects (TatpBaseProcessor.cc:61-64) has one.       *)
SubscribersAreFound ==
    \A k \in DOMAIN pool :
        pool[k].job \in {"dcf_icf", "gsd_ul_usd", "icf_usd"} =>
            \A i \in DOMAIN pool[k].work : SubscriberOf(pool[k].work[i][1]) \in SubscriberIds

(* Strong execution determinism (README.md:4): however the batches are cut  *)
(* and the tasks interleave, every batch changes the database as the serial *)
(* execution of the queue up to its end does, and its selects find what     *)
(* they find there.                                                        *)
Promise == INSTANCE SerialExecution WITH pending <- batch \o queue, state <- committed
StrongExecutionDeterminism == Promise!Spec
=============================================================================
