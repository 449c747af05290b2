------------------------------- MODULE TpccBatch -------------------------------
(***************************************************************************)
(* benchmark/tpcc/TpccTPBatchProcessor.cc: transactions are executed a     *)
(* batch at a time.  A batch is cut into sub-transactions, the             *)
(* sub-transactions are dealt into kParallelism buckets for each phase,    *)
(* and every bucket is a task of the thread pool; the main thread waits    *)
(* for the phases that a later one depends on before it enqueues that.     *)
(*                                                                         *)
(* A step of a task is one iteration of its loop; ConflictFree is why the  *)
(* accesses within an iteration need not be told apart.                    *)
(***************************************************************************)
EXTENDS Tpcc, BatchTasks

CONSTANT HashInt   \* hash_int, as a function on the stock's numbers

ASSUME HashAssumption == HashInt \in [0 .. Warehouses * Items - 1 -> Nat]

Queued == {p \in UNION {Range(q) : q \in Queues} : IsDrawn(p)}
ASSUME QueueAssumption == Queues \subseteq Seq(Queued)

VARIABLES
    db,        \* the database
    inter,     \* what sub-transactions leave for later ones of the batch
    committed  \* history variable: the database when the batch began

vars == <<queue, batch, phase, pool, db, inter, committed>>

NoInter == [oId |-> <<>>, dist |-> <<>>, amount |-> <<>>, noOId |-> <<>>, cId |-> <<>>, sum |-> <<>>]

Init == /\ BatchInit
        /\ db = Populated
        /\ inter = NoInter
        /\ committed = Populated

-----------------------------------------------------------------------------
(* Cutting the batch into buckets.  An entry of a bucket is a position in  *)
(* the batch and a district (a delivery's), a line (a new order's) or      *)
(* None.                                                                   *)

OffsetOf(w, d) == (w - 1) * Districts + d - 1

BucketOfDistrict(p, d) == OffsetOf(batch[p].w, d) % Parallelism
\* Mutant: lines go with their order's district, as the rest of the order does.
BucketOfLineByDistrict(p, i) == BucketOfDistrict(p, batch[p].d)

BucketOfLine(p, i) ==
    HashInt[Items * (batch[p].items[i][2] - 1) + batch[p].items[i][1] - 1] % Parallelism

DistrictsOf(p) == [d \in 1 .. Districts |-> <<p, d>>]
LinesOfOrder(p) == [i \in 1 .. Len(batch[p].items) |-> <<p, i>>]

HomeBucket ==
    [e \in Entries |-> BucketOfDistrict(e[1], IF e[2] = None THEN batch[e[1]].d ELSE e[2])]
LineBucket == [e \in Entries |-> BucketOfLine(e[1], e[2])]

(* The entries of every transaction of a type.                             *)
NewOrdersOnce == [p \in DOMAIN batch |-> IF p \in Of("NEW_ORDER") THEN Once(p) ELSE <<>>]
PaymentsOnce == [p \in DOMAIN batch |-> IF p \in Of("PAYMENT") THEN Once(p) ELSE <<>>]
Lines == [p \in DOMAIN batch |-> IF p \in Of("NEW_ORDER") THEN LinesOfOrder(p) ELSE <<>>]
DeliveryDistricts == [p \in DOMAIN batch |-> IF p \in Of("DELIVERY") THEN DistrictsOf(p) ELSE <<>>]

(* The districts of a delivery where an order was found.                   *)
Found(p) == Joined(Districts, [d \in 1 .. Districts |->
                                  IF inter.noOId[<<p, d>>] # None THEN << <<p, d>> >> ELSE <<>>])
FoundDistricts == [p \in DOMAIN batch |-> IF p \in Of("DELIVERY") THEN Found(p) ELSE <<>>]

(* One loop over the batch for two types.                                  *)
Both(s, t) == [p \in DOMAIN batch |-> s[p] \o t[p]]

NewOrderBuckets == Deal(NewOrdersOnce, HomeBucket)
LineBuckets == Deal(Lines, LineBucket)
\* Mutant: a loop over the new orders and one over the deliveries.
DeliveriesLastBuckets ==
    [t \in Buckets |-> Deal(NewOrdersOnce, HomeBucket)[t] \o Deal(DeliveryDistricts, HomeBucket)[t]]
DeliveryNewOrderBuckets == Deal(Both(NewOrdersOnce, DeliveryDistricts), HomeBucket)
Payments == Joined(Len(batch), PaymentsOnce)
DeliveryBuckets == Deal(FoundDistricts, HomeBucket)
DeliveryPaymentBuckets == Deal(Both(PaymentsOnce, FoundDistricts), HomeBucket)

-----------------------------------------------------------------------------
(* The main thread.                                                        *)

Collect == TakeTxn /\ UNCHANGED <<db, inter, committed>>

EmptyInter ==
    LET deliveries == Of("DELIVERY") \X (1 .. Districts)
        lines      == UNION {{p} \X DOMAIN batch[p].items : p \in Of("NEW_ORDER")}
    IN  [oId    |-> [p \in Of("NEW_ORDER") |-> 0],
         dist   |-> [e \in lines |-> NoDist],
         amount |-> [e \in lines |-> 0],
         noOId  |-> [e \in deliveries |-> None],
         cId    |-> [e \in deliveries |-> None],
         sum    |-> [e \in deliveries |-> None]]

EnqueueFirst ==
    /\ phase = "full"
    /\ Enqueue(Tasks("newOrder4", LineBuckets) \o Tasks("newOrder12", NewOrderBuckets)
               \o Tasks("newOrder5", LineBuckets)
               \o Task("payment1", Payments) \o Task("payment2", Payments)
               \o Task("payment3", Payments))
    /\ inter' = EmptyInter
    /\ phase' = "newOrder12"
    /\ UNCHANGED <<queue, batch, db, committed>>

\* Mutant: new orders are not waited for.
EnqueueConflictUnwaited ==
    /\ phase = "newOrder12"
    /\ Enqueue(Tasks("conflict", DeliveryNewOrderBuckets))
    /\ phase' = "conflict"
    /\ UNCHANGED <<queue, batch, db, inter, committed>>

EnqueueConflict ==
    /\ phase = "newOrder12"
    /\ Waited({"newOrder12"})
    /\ Enqueue(Tasks("conflict", DeliveryNewOrderBuckets))
    /\ phase' = "conflict"
    /\ UNCHANGED <<queue, batch, db, inter, committed>>

\* Mutant: the no4 threads are not waited for.
EnqueueDelivery3Unwaited ==
    /\ phase = "conflict"
    /\ Waited({"conflict", "newOrder5"})
    /\ Enqueue(Tasks("delivery3", DeliveryBuckets) \o Tasks("newOrder6", NewOrderBuckets))
    /\ phase' = "newOrder6"
    /\ UNCHANGED <<queue, batch, db, inter, committed>>

EnqueueDelivery3 ==
    /\ phase = "conflict"
    /\ Waited({"conflict", "newOrder4", "newOrder5"})
    /\ Enqueue(Tasks("delivery3", DeliveryBuckets) \o Tasks("newOrder6", NewOrderBuckets))
    /\ phase' = "newOrder6"
    /\ UNCHANGED <<queue, batch, db, inter, committed>>

EnqueueDelivery2 ==
    /\ phase = "newOrder6"
    /\ Waited({"newOrder6"})
    /\ Enqueue(Tasks("delivery2", DeliveryBuckets))
    /\ phase' = "delivery2"
    /\ UNCHANGED <<queue, batch, db, inter, committed>>

EnqueueConflict2 ==
    /\ phase = "delivery2"
    /\ Waited({"delivery2", "delivery3"})
    /\ Enqueue(Tasks("conflict2", DeliveryPaymentBuckets))
    /\ phase' = "conflict2"
    /\ UNCHANGED <<queue, batch, db, inter, committed>>

\* Mutant: the payment threads are not waited for.
ClearBatchUnwaited ==
    /\ phase = "conflict2"
    /\ Waited({"conflict2"})
    /\ Clear
    /\ inter' = NoInter
    /\ committed' = db
    /\ UNCHANGED db

(* processBatch returns.                                                   *)
ClearBatch ==
    /\ phase = "conflict2"
    /\ Waited({"payment1", "payment2", "payment3", "conflict2"})
    /\ Clear
    /\ inter' = NoInter
    /\ committed' = db
    /\ UNCHANGED db

-----------------------------------------------------------------------------
(* The tasks.                                                              *)

NewOrder4(k) ==
    /\ Iteration(k, "newOrder4")
    /\ db' = NewOrderSubTxn4(db, Txn(k), Entry(k)[2])
    /\ inter' = [inter EXCEPT !.dist[Entry(k)] = DistInfo(Txn(k), Entry(k)[2])]
    /\ Done(k) /\ UNCHANGED committed

NewOrder12(k) ==
    LET oId == db.nextOId[<<Txn(k).w, Txn(k).d>>]
    IN  /\ Iteration(k, "newOrder12")
        /\ db' = NewOrderSubTxn2(NewOrderSubTxn1(db, Txn(k)), Txn(k), oId)
        /\ inter' = [inter EXCEPT !.oId[Entry(k)[1]] = oId]
        /\ Done(k) /\ UNCHANGED committed

NewOrder5(k) ==
    /\ Iteration(k, "newOrder5")
    /\ inter' = [inter EXCEPT !.amount[Entry(k)] = OlAmount(Txn(k), Entry(k)[2])]
    /\ UNCHANGED db
    /\ Done(k) /\ UNCHANGED committed

Payment123(k) ==
    /\ \/ Iteration(k, "payment1") /\ db' = PaymentSubTxn1(db, Txn(k))
       \/ Iteration(k, "payment2") /\ db' = PaymentSubTxn2(db, Txn(k))
       \/ Iteration(k, "payment3") /\ db' = PaymentSubTxn3(db, Txn(k))
    /\ UNCHANGED inter
    /\ Done(k) /\ UNCHANGED committed

NewOrder3(k) ==
    /\ Iteration(k, "conflict")
    /\ Entry(k)[2] = None
    /\ db' = NewOrderSubTxn3(db, Txn(k), inter.oId[Entry(k)[1]])
    /\ UNCHANGED inter
    /\ Done(k) /\ UNCHANGED committed

Delivery1(k) ==
    LET d == Entry(k)[2]
    IN  /\ Iteration(k, "conflict")
        /\ d # None
        /\ db' = DeliverySubTxn1(db, Txn(k), d)
        /\ inter' = IF HasNewOrder(db, Txn(k), d)
                    THEN [inter EXCEPT !.noOId[Entry(k)] = db.firstNew[<<Txn(k).w, d>>]]
                    ELSE inter
        /\ Done(k) /\ UNCHANGED committed

OrderOf(k) == <<Txn(k).w, Entry(k)[2], inter.noOId[Entry(k)]>>

Delivery3(k) ==
    /\ Iteration(k, "delivery3")
    /\ db' = DeliverySubTxn3(db, Txn(k), Entry(k)[2], OrderOf(k)[3])
    /\ inter' = [inter EXCEPT !.cId[Entry(k)] = db.order[OrderOf(k)].c]
    /\ Done(k) /\ UNCHANGED committed

NewOrder6(k) ==
    LET p == Entry(k)[1]
    IN  /\ Iteration(k, "newOrder6")
        /\ db' = NewOrderSubTxn6(db, Txn(k), inter.oId[p],
                                 [i \in DOMAIN Txn(k).items |-> inter.dist[<<p, i>>]],
                                 [i \in DOMAIN Txn(k).items |-> inter.amount[<<p, i>>]])
        /\ UNCHANGED inter
        /\ Done(k) /\ UNCHANGED committed

Delivery2(k) ==
    /\ Iteration(k, "delivery2")
    /\ db' = DeliverySubTxn2(db, Txn(k), Entry(k)[2], OrderOf(k)[3])
    /\ inter' = [inter EXCEPT !.sum[Entry(k)] = AmountOf(db, OrderOf(k))]
    /\ Done(k) /\ UNCHANGED committed

Delivery4(k) ==
    /\ Iteration(k, "conflict2")
    /\ Entry(k)[2] # None
    /\ db' = DeliverySubTxn4(db, Txn(k), Entry(k)[2], inter.sum[Entry(k)], inter.cId[Entry(k)])
    /\ UNCHANGED inter
    /\ Done(k) /\ UNCHANGED committed

Payment4(k) ==
    /\ Iteration(k, "conflict2")
    /\ Entry(k)[2] = None
    /\ db' = PaymentSubTxn4(db, Txn(k))
    /\ UNCHANGED inter
    /\ Done(k) /\ UNCHANGED committed

Work(k) == \/ NewOrder4(k) \/ NewOrder12(k) \/ NewOrder5(k) \/ Payment123(k)
           \/ NewOrder3(k) \/ Delivery1(k) \/ Delivery3(k) \/ NewOrder6(k)
           \/ Delivery2(k) \/ Delivery4(k) \/ Payment4(k)
Main == Collect \/ EnqueueFirst \/ EnqueueConflict \/ EnqueueDelivery3
        \/ EnqueueDelivery2 \/ EnqueueConflict2 \/ ClearBatch

Next == Main \/ \E k \in 1 .. PoolThreads : Work(k)

Spec == Init /\ [][Next]_vars
FairSpec == Spec /\ WF_vars(Main) /\ WF_vars(\E k \in 1 .. PoolThreads : Work(k))

-----------------------------------------------------------------------------
Jobs == {"newOrder4", "newOrder12", "newOrder5", "payment1", "payment2", "payment3", "conflict",
         "delivery3", "newOrder6", "delivery2", "conflict2"}

(* The state has the types TpccTPBatchProcessor.h and the tables give it;   *)
(* what waits for delivery is an order, and no row outside its keys exists. *)
TypeOK == /\ phase \in {"collect", "full", "newOrder12", "conflict", "newOrder6", "delivery2",
                        "conflict2", "stopped"}
          /\ \A k \in DOMAIN pool : pool[k].job \in Jobs /\ pool[k].work # <<>>
          /\ \A o \in DOMAIN db.order : db.order[o].c \in 1 .. Customers
          /\ db.newOrder \subseteq DOMAIN db.order
          /\ DOMAIN db.stock = Stock /\ DOMAIN db.customer = OrderKeys(1 .. Customers)
          /\ \A e \in DOMAIN inter.noOId : e[1] \in Of("DELIVERY")

(* What the iteration on entry e of a job reads and writes: columns of      *)
(* rows, or whole districts where rows are inserted, removed or searched,   *)
(* and the elements of the vectors sub-transactions share.                  *)
WritesOf(job, e) ==
    LET p == e[1]
        t == batch[p]
        d == IF e[2] = None THEN t.d ELSE e[2]
    IN  CASE job = "newOrder4"  -> {<<"stock", StockOf(t, e[2])>>, <<"dist", e>>}
          [] job = "newOrder12" -> {<<"nextOId", t.w, d>>, <<"order", t.w, d>>, <<"oId", p>>}
          [] job = "newOrder5"  -> {<<"amount", e>>}
          [] job = "payment1"   -> {<<"wYtd", t.w>>}
          [] job = "payment2"   -> {<<"dYtd", t.w, d>>}
          [] job = "payment3"   -> {<<"history">>}
          [] job = "conflict"   -> {<<"newOrder", t.w, d>>} \cup
                                   IF e[2] = None THEN {} ELSE {<<"firstNew", t.w, d>>, <<"noOId", e>>}
          [] job = "delivery3"  -> {<<"order", t.w, d>>, <<"cId", e>>}
          [] job = "newOrder6"  -> {<<"line", t.w, d>>}
          [] job = "delivery2"  -> {<<"line", t.w, d>>, <<"sum", e>>}
          [] job = "conflict2"  -> {<<"customer", t.w, d, IF e[2] = None THEN t.c ELSE inter.cId[e]>>}
ReadsOf(job, e) ==
    CASE job = "conflict" /\ e[2] = None      -> {<<"oId", e[1]>>}
      [] job \in {"delivery2", "delivery3"}   -> {<<"noOId", e>>}
      [] job = "conflict2" /\ e[2] # None     -> {<<"sum", e>>, <<"cId", e>>}
      [] job = "newOrder6" -> {<<"oId", e[1]>>} \cup
             {<<v, <<e[1], i>>>> : v \in {"dist", "amount"}, i \in DOMAIN batch[e[1]].items}
      [] OTHER -> {}

(* Two tasks that run at the same time never touch the same data, unless    *)
(* both only read it: the storage engine locks no record, the buckets and   *)
(* the waits have to keep them apart (TpccTPBatchProcessor.cc:86-99, 182).  *)
ConflictFree ==
    \A j, k \in Active :
        j # k => WritesOf(pool[j].job, Entry(j)) \cap
                 (WritesOf(pool[k].job, Entry(k)) \cup ReadsOf(pool[k].job, Entry(k))) = {}

(* When a task comes to an entry, the sub-transactions it builds on have    *)
(* left their results: no assert of TpccBaseProcessor.cc fails and no       *)
(* element of a shared vector is read with its initial value.               *)
InputsAreReady ==
    \A k \in Active :
        LET job == pool[k].job
            e   == Entry(k)
        IN  /\ job = "conflict" /\ e[2] = None => inter.oId[e[1]] # 0
            /\ job = "delivery3" => OrderOf(k) \in DOMAIN db.order
            /\ job = "newOrder6" =>
                  /\ inter.oId[e[1]] # 0
                  /\ \A i \in DOMAIN Txn(k).items : /\ inter.dist[<<e[1], i>>] # NoDist
                                                   /\ inter.amount[<<e[1], i>>] # 0
            /\ job = "delivery2" => LinesOf(db, OrderOf(k)) # {}
            /\ job = "conflict2" /\ e[2] # None => inter.sum[e] # None /\ inter.cId[e] # None

(* Strong execution determinism (README.md:4): however the batches are cut  *)
(* and the tasks interleave, every batch leaves behind what the serial      *)
(* execution of the queue up to its end leaves behind.                      *)
Promise == INSTANCE SerialExecution WITH
              Populations <- {Populated}, pending <- batch \o queue, state <- committed
StrongExecutionDeterminism == Promise!Spec

=============================================================================
