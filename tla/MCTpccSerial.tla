----------------------------- MODULE MCTpccSerial -----------------------------
EXTENDS TpccSerial

MCPrice == [i \in 1 .. Items |-> i]

(* Two warehouses with one district each: deliveries of both, new orders    *)
(* with one or two lines, of the same or another warehouse's stock, large   *)
(* enough to wrap the stock around, payments of home and remote customers.  *)
Transactions ==
    {Delivery(1, 2, 5), Delivery(2, 3, 6),
     NewOrder(1, 1, 2, << <<1, 1, 10>> >>, 7),
     NewOrder(1, 1, 1, << <<2, 1, 3>>, <<1, 2, 4>> >>, 8),
     NewOrder(2, 1, 1, << <<1, 1, 2>>, <<1, 1, 5>> >>, 9),
     Payment(1, 1, 1, 1, 1, 3), Payment(2, 1, 2, 1, 1, 4)}

MCQueues == {Append(q, EndExecution) : q \in UNION {[1 .. n -> Transactions] : n \in 0 .. 4}}
=============================================================================
