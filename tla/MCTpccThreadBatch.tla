--------------------------- MODULE MCTpccThreadBatch ---------------------------
EXTENDS TpccThreadBatch

MCPrice == [i \in 1 .. Items |-> i]
MCHashInt == [n \in 0 .. Warehouses * Items - 1 |-> n]

(* Two warehouses with two districts each: a delivery has work in both      *)
(* buckets, new orders take from the other warehouse's stock, and payments  *)
(* go to the customer a delivery may credit.                                *)
Deliver == Delivery(1, 2, 5)
Order1 == NewOrder(1, 1, 2, << <<1, 2, 10>> >>, 6)
Order2 == NewOrder(1, 2, 1, << <<1, 2, 3>>, <<1, 1, 4>> >>, 7)
Elsewhere == NewOrder(2, 1, 1, << <<1, 2, 9>> >>, 8)
Pay == Payment(2, 1, 1, 1, 1, 3)

Transactions == {Deliver, Order1, Order2, Elsewhere, Pay}

(* Every queue of up to two, and of three that end with a delivery or a    *)
(* payment; and an order that comes too late for the second delivery.      *)
MCQueues ==
    {Append(q, EndExecution) : q \in
        UNION {[1 .. n -> Transactions] : n \in 0 .. 2} \cup
        {Append(q, t) : q \in [1 .. 2 -> Transactions], t \in {Deliver, Pay}} \cup
        {<<Deliver, Deliver, Order1>>}}
=============================================================================
