------------------------------ MODULE TpccSerial ------------------------------
(***************************************************************************)
(* benchmark/tpcc/TpccSerialProcessor.cc: take a transaction, execute it,  *)
(* until ENDEXECUTION.  The source has filled the queue before (TpccMain), *)
(* so the queue only shrinks.                                              *)
(***************************************************************************)
EXTENDS Tpcc

CONSTANT Queues   \* the contents of the queue the source may have left

Queued == {p \in UNION {Range(q) : q \in Queues} : IsDrawn(p)}
ASSUME QueueAssumption == Queues \subseteq Seq(Queued)

VARIABLES queue,  \* the single-producer single-consumer queue
          db,     \* the database
          stopped \* start has returned

vars == <<queue, db, stopped>>

Init == /\ queue \in Queues
        /\ db = Populated
        /\ stopped = FALSE

Start == /\ ~stopped
         /\ queue # <<>>
         /\ db' = Process(db, Head(queue))
         /\ queue' = Tail(queue)
         /\ stopped' = (Head(queue) = EndExecution)

Next == Start
Spec == Init /\ [][Next]_vars

-----------------------------------------------------------------------------
(* Order ids have no gaps and deliverySubTxn1 finds the oldest undelivered  *)
(* order at the id DISTRICT_NEW_ORDER remembers (TpccBaseProcessor.cc:12).  *)
OrderIdsHaveNoGaps == OrdersAreContiguous(db)

(* Delivery's sub-transactions 1 and 3 agree: an order has a carrier iff it *)
(* has left NEW_ORDER.                                                      *)
DeliveredMeansCarried == CarrierMeansDelivered(db)

(* Delivery adds each order's amount to its customer's balance once, what   *)
(* payment takes from a balance it adds to the year-to-date payments, and   *)
(* those are HISTORY's: all in all, and customer by customer for customers  *)
(* no remote payment touches (TpccBaseProcessor.cc:301 books those on the   *)
(* customer with that number in the district that receives them).          *)
BalancesMatch == BalancesAddUp(db)

(* Payment's sub-transactions 1 to 3 book the same sums.                    *)
PaymentsMatch == PaymentsAddUp(db)

(* New order's sub-transaction 4 books what its sub-transaction 6 writes    *)
(* into the lines, and never lets a stock run out.                          *)
StockMatches == StockAddsUp(db)
=============================================================================
