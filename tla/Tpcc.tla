--------------------------------- MODULE Tpcc ---------------------------------
(***************************************************************************)
(* The TPC-C database and its sub-transactions:                            *)
(* benchmark/tpcc/TpccBaseProcessor.cc, populated by TpccPopulator.cc, and *)
(* the whole transactions as TpccSerialProcessor.cc runs them.             *)
(*                                                                         *)
(* A database is a record with one field for each table, or column of a    *)
(* table, that a transaction changes; a table is a function from its       *)
(* primary key.  Partitioning (kPartition) splits a table by a function of *)
(* its key and is not visible here.  Names, addresses, random texts and    *)
(* o_all_local are left out, nothing reads them back; money is an integer. *)
(***************************************************************************)
EXTENDS Integers, Sequences, FiniteSets, SequencesExt, FiniteSetsExt, TLC

CONSTANTS Warehouses,     \* num_warehouses
          Districts,      \* DISTRICTS_PER_WAREHOUSE
          Customers,      \* num_customers_per_district
          NewOrders,      \* num_new_orders_per_district
          Items,          \* num_items
          InitialLines,   \* bound: lines of a populated order (5 .. 15 in the code)
          InitialAmount,  \* bound: amount of a populated undelivered line
          InitialStock,   \* s_quantity of the populated stock (10 .. 100)
          Price           \* i_price of each item

ASSUME TpccAssumption == /\ {Warehouses, Districts, Customers, Items} \subseteq Nat \ {0}
                         /\ NewOrders \in 0 .. Customers
                         /\ InitialLines \in Nat \ {0}
                         /\ InitialAmount \in Nat
                         /\ InitialStock \in 10 .. 100
                         /\ Price \in [1 .. Items -> Nat \ {0}]

NULL_CARRIER_ID == 0
MAX_OL_QUANTITY == 10
SomeCarrier == 1     \* the random carrier of a populated delivered order
SomeDate == 1        \* the time of the population
NoDist == <<0, 0, 0>>

District == (1 .. Warehouses) \X (1 .. Districts)
Stock == (1 .. Warehouses) \X (1 .. Items)
OrderKeys(o) == {<<wd[1], wd[2], n>> : wd \in District, n \in o}

(* insertRecord leaves an existing index entry alone. *)
InsertRows(table, rows) ==
    [k \in DOMAIN table \cup DOMAIN rows |-> IF k \in DOMAIN table THEN table[k] ELSE rows[k]]
Insert(table, key, row) == InsertRows(table, [k \in {key} |-> row])

(* The rows the populator generates, by their keys; the initial orders are  *)
(* each customer's one, the last of them undelivered.                      *)
InitialNewOrderId == Customers - NewOrders + 1
IsNew(o) == o[3] >= InitialNewOrderId

INITIAL_W_YTD == 300000
INITIAL_D_YTD == 30000
CustomerRow == [balance |-> -10, ytd |-> 10, cnt |-> 1]
StockRow == [qty |-> InitialStock, ytd |-> 0, cnt |-> 0, remote |-> 0]
OrderRow(o) == [c |-> o[3], ol_cnt |-> InitialLines, entry_d |-> SomeDate,
                carrier |-> IF IsNew(o) THEN NULL_CARRIER_ID ELSE SomeCarrier]
OrderLineRow(o) == [item |-> 1, supply |-> o[1], qty |-> 5, dist |-> NoDist,
                    delivery_d |-> IF IsNew(o) THEN -1 ELSE SomeDate,
                    amount |-> IF IsNew(o) THEN InitialAmount ELSE 0]

Populated ==
    LET o == OrderKeys(1 .. Customers)
    IN  [nextOId  |-> [wd \in District |-> Customers + 1],
         dYtd     |-> [wd \in District |-> INITIAL_D_YTD],
         wYtd     |-> [w \in 1 .. Warehouses |-> INITIAL_W_YTD],
         firstNew |-> [wd \in District |-> InitialNewOrderId],
         newOrder |-> {k \in o : IsNew(k)},
         order    |-> [k \in o |-> OrderRow(k)],
         line     |-> [k \in o \X (1 .. InitialLines) |-> OrderLineRow(k[1])],
         stock    |-> [k \in Stock |-> StockRow],
         customer |-> [k \in o |-> CustomerRow],
         history  |-> <<>>]

-----------------------------------------------------------------------------
(* Transactions.  h_data, h_date and the type tags' numbers are left out.  *)

Delivery(w, carrier, date) ==
    [type |-> "DELIVERY", w |-> w, carrier |-> carrier, date |-> date]
NewOrder(w, d, c, items, date) ==   \* items: <<i_id, i_w_id, i_qty>> of every line
    [type |-> "NEW_ORDER", w |-> w, d |-> d, c |-> c, items |-> items, date |-> date]
Payment(w, d, c, cw, cd, amount) ==
    [type |-> "PAYMENT", w |-> w, d |-> d, c |-> c, cw |-> cw, cd |-> cd, amount |-> amount]
EndExecution == [type |-> "ENDEXECUTION"]

(* What the source draws: numbers of existing rows, at least one line.      *)
IsDrawn(p) ==
    \/ /\ p.type = "DELIVERY"
       /\ p.w \in 1 .. Warehouses
       /\ p.carrier \in Nat \ {NULL_CARRIER_ID}
       /\ p.date \in Nat
    \/ /\ p.type = "NEW_ORDER"
       /\ <<p.w, p.d>> \in District
       /\ p.c \in 1 .. Customers
       /\ p.items \in Seq((1 .. Items) \X (1 .. Warehouses) \X (1 .. MAX_OL_QUANTITY)) \ {<<>>}
       /\ p.date \in Nat
    \/ /\ p.type = "PAYMENT"
       /\ {<<p.w, p.d>>, <<p.cw, p.cd>>} \subseteq District
       /\ p.c \in 1 .. Customers
       /\ p.amount \in Nat
    \/ p.type = "ENDEXECUTION"

-----------------------------------------------------------------------------
(* Delivery.  Each sub-transaction handles one district of the warehouse.  *)

OldestNewOrder(db, p, d) == <<p.w, d, db.firstNew[<<p.w, d>>]>>
HasNewOrder(db, p, d) == OldestNewOrder(db, p, d) \in db.newOrder

\* Mutant: DISTRICT_NEW_ORDER keeps the delivered order's id.
DeliverySubTxn1NotAdvanced(db, p, d) ==
    [db EXCEPT !.newOrder = @ \ {OldestNewOrder(db, p, d)}]
DeliverySubTxn1(db, p, d) ==
    IF HasNewOrder(db, p, d)
    THEN [db EXCEPT !.newOrder = @ \ {OldestNewOrder(db, p, d)},
                    !.firstNew[<<p.w, d>>] = @ + 1]
    ELSE db

LinesOf(db, o) == {k \in DOMAIN db.line : k[1] = o}

DeliverySubTxn2(db, p, d, o_id) ==
    [db EXCEPT !.line = [k \in DOMAIN @ |->
        IF k[1] = <<p.w, d, o_id>> THEN [@[k] EXCEPT !.delivery_d = p.date] ELSE @[k]]]
AmountOf(db, o) == SumFunction([k \in LinesOf(db, o) |-> db.line[k].amount])

\* Mutant: the carrier goes to the order after the delivered one, if there is one.
DeliverySubTxn3Next(db, p, d, o_id) ==
    [db EXCEPT !.order = [k \in DOMAIN @ |->
        IF k = <<p.w, d, o_id + 1>> THEN [@[k] EXCEPT !.carrier = p.carrier] ELSE @[k]]]
DeliverySubTxn3(db, p, d, o_id) == [db EXCEPT !.order[<<p.w, d, o_id>>].carrier = p.carrier]

\* Mutant: the amount replaces the balance.
DeliverySubTxn4Overwriting(db, p, d, sum, c_id) ==
    [db EXCEPT !.customer[<<p.w, d, c_id>>].balance = sum]
DeliverySubTxn4(db, p, d, sum, c_id) == [db EXCEPT !.customer[<<p.w, d, c_id>>].balance = @ + sum]

(* New order.  Sub-transactions 4 and 5 handle one line of the order.      *)

NewOrderSubTxn1(db, p) == [db EXCEPT !.nextOId[<<p.w, p.d>>] = @ + 1]

NewOrderSubTxn2(db, p, o_id) ==
    [db EXCEPT !.order = Insert(@, <<p.w, p.d, o_id>>,
        [c |-> p.c, ol_cnt |-> Len(p.items), entry_d |-> p.date, carrier |-> NULL_CARRIER_ID])]

NewOrderSubTxn3(db, p, o_id) == [db EXCEPT !.newOrder = @ \cup {<<p.w, p.d, o_id>>}]

StockOf(p, i) == <<p.items[i][2], p.items[i][1]>>
Qty(p, i) == p.items[i][3]
\* Mutant: the stock may fall below 10.
RestockedLate(quantity, ol_quantity) == IF quantity >= ol_quantity
                                        THEN quantity - ol_quantity
                                        ELSE quantity + 91 - ol_quantity
Restocked(quantity, ol_quantity) == IF quantity >= ol_quantity + 10
                                    THEN quantity - ol_quantity
                                    ELSE quantity + 91 - ol_quantity
NewOrderSubTxn4(db, p, i) ==
    [db EXCEPT !.stock[StockOf(p, i)] =
        [qty    |-> Restocked(@.qty, Qty(p, i)),
         ytd    |-> @.ytd + Qty(p, i),
         cnt    |-> @.cnt + 1,
         remote |-> IF p.items[i][2] # p.w THEN @.remote + 1 ELSE @.remote]]
DistInfo(p, i) == <<p.items[i][2], p.items[i][1], p.d>>   \* column s_dist_<d_id> of that row

OlAmount(p, i) == Qty(p, i) * Price[p.items[i][1]]         \* neworderSubTxn5

NewOrderSubTxn6(db, p, o_id, dists, amounts) ==
    [db EXCEPT !.line = InsertRows(@,
        [k \in {<<p.w, p.d, o_id>>} \X DOMAIN p.items |->
            [item |-> p.items[k[2]][1], supply |-> p.items[k[2]][2], qty |-> Qty(p, k[2]),
             dist |-> dists[k[2]], delivery_d |-> p.date, amount |-> amounts[k[2]]]])]

(* Payment.  The customer's own warehouse and district only reach HISTORY. *)

\* Mutant: the paying customer's warehouse instead of the receiving one.
PaymentSubTxn1Remote(db, p) == [db EXCEPT !.wYtd[p.cw] = @ + p.amount]
PaymentSubTxn1(db, p) == [db EXCEPT !.wYtd[p.w] = @ + p.amount]
PaymentSubTxn2(db, p) == [db EXCEPT !.dYtd[<<p.w, p.d>>] = @ + p.amount]
PaymentSubTxn3(db, p) ==
    [db EXCEPT !.history = Append(@, [c |-> <<p.cw, p.cd, p.c>>, d |-> <<p.w, p.d>>,
                                      amount |-> p.amount])]
PaymentSubTxn4(db, p) ==
    [db EXCEPT !.customer[<<p.w, p.d, p.c>>] = [balance |-> @.balance - p.amount,
                                                ytd |-> @.ytd + p.amount, cnt |-> @.cnt + 1]]

-----------------------------------------------------------------------------
(* The serial processor: whole transactions, one after the other.          *)

Upto(n) == [i \in 1 .. n |-> i]

(* The districts' oldest orders, as deliverySubTxn1 leaves them in an       *)
(* unordered_map, through which the other loops go in some order.          *)
NoOIds(db, p) ==
    [d \in {e \in 1 .. Districts : HasNewOrder(db, p, e)} |-> db.firstNew[<<p.w, d>>]]

DeliveryLoop1(db, p) == FoldLeft(LAMBDA s, d : DeliverySubTxn1(s, p, d), db, Upto(Districts))
DeliveryLoop2(db, p, no_o_ids) ==
    FoldSet(LAMBDA d, s : DeliverySubTxn2(s, p, d, no_o_ids[d]), db, DOMAIN no_o_ids)
DeliveryLoop3(db, p, no_o_ids) ==
    FoldSet(LAMBDA d, s : DeliverySubTxn3(s, p, d, no_o_ids[d]), db, DOMAIN no_o_ids)
DeliveryLoop4(db, p, sums, c_ids) ==
    FoldSet(LAMBDA d, s : DeliverySubTxn4(s, p, d, sums[d], c_ids[d]), db, DOMAIN sums)

ProcessDelivery(db, p) ==
    LET no_o_ids == NoOIds(db, p)
        order(d) == <<p.w, d, no_o_ids[d]>>
        db2   == DeliveryLoop2(DeliveryLoop1(db, p), p, no_o_ids)
        sums  == [d \in DOMAIN no_o_ids |-> AmountOf(db2, order(d))]
        db3   == DeliveryLoop3(db2, p, no_o_ids)
        c_ids == [d \in DOMAIN no_o_ids |-> db3.order[order(d)].c]
    IN  DeliveryLoop4(db3, p, sums, c_ids)

NewOrderLoop4(db, p) ==
    FoldLeft(LAMBDA s, i : NewOrderSubTxn4(s, p, i), db, Upto(Len(p.items)))

ProcessNewOrder(db, p) ==
    LET oId == db.nextOId[<<p.w, p.d>>]
        db3 == NewOrderSubTxn3(NewOrderSubTxn2(NewOrderSubTxn1(db, p), p, oId), p, oId)
    IN  NewOrderSubTxn6(NewOrderLoop4(db3, p), p, oId,
                        [i \in DOMAIN p.items |-> DistInfo(p, i)],
                        [i \in DOMAIN p.items |-> OlAmount(p, i)])

ProcessPayment(db, p) ==
    PaymentSubTxn4(PaymentSubTxn3(PaymentSubTxn2(PaymentSubTxn1(db, p), p), p), p)

Process(db, p) == CASE p.type = "DELIVERY"     -> ProcessDelivery(db, p)
                    [] p.type = "NEW_ORDER"    -> ProcessNewOrder(db, p)
                    [] p.type = "PAYMENT"      -> ProcessPayment(db, p)
                    [] p.type = "ENDEXECUTION" -> db

-----------------------------------------------------------------------------
(* What a database between two transactions looks like.  Each condition *)
(* relates tables that different sub-transactions write.                   *)

Orders(db, wd) == {k[3] : k \in {o \in DOMAIN db.order : <<o[1], o[2]>> = wd}}
Undelivered(db, wd) == {k[3] : k \in {o \in db.newOrder : <<o[1], o[2]>> = wd}}

\* Order ids are handed out without gaps, and those from firstNew on are the
\* ones that wait for delivery: what deliverySubTxn1 relies on to find them.
OrdersAreContiguous(db) ==
    \A wd \in District : /\ Orders(db, wd) = 1 .. db.nextOId[wd] - 1
                         /\ Undelivered(db, wd) = db.firstNew[wd] .. db.nextOId[wd] - 1

\* An order waits in NEW_ORDER exactly as long as it has no carrier.
CarrierMeansDelivered(db) ==
    \A o \in DOMAIN db.order : o \in db.newOrder <=> db.order[o].carrier = NULL_CARRIER_ID

\* What was delivered to a customer, and what HISTORY says he paid.
DeliveredTo(db, c) == {o \in DOMAIN db.order : /\ <<o[1], o[2], db.order[o].c>> = c
                                               /\ db.order[o].carrier # NULL_CARRIER_ID}
PaidBy(db, c) == {i \in DOMAIN db.history : db.history[i].c = c}

\* Every payment of c was received in c's own district, and every payment
\* received there of a customer with c's number was c's.
PaysAtHome(db, c) ==
    \A i \in DOMAIN db.history :
        LET h == db.history[i]
        IN  h.c = c <=> h.d = <<c[1], c[2]>> /\ h.c[3] = c[3]

\* A customer owes what was delivered to him less what was booked on him as
\* paid since the population (10 each); the payments booked are those of
\* HISTORY, all in all, and customer by customer for those who pay at home.
\* For the others it is not so: sub-transaction 4 books a payment on the
\* customer with that number in the district that receives it, not on the
\* customer whom HISTORY names.
BalancesAddUp(db) ==
    LET paid == [c \in DOMAIN db.customer |-> db.customer[c].ytd - 10]
        Amounts(S) == SumFunction([i \in S |-> db.history[i].amount])
    IN  /\ \A c \in DOMAIN db.customer :
              /\ db.customer[c].balance + db.customer[c].ytd =
                     SumFunction([o \in DeliveredTo(db, c) |-> AmountOf(db, o)])
              /\ PaysAtHome(db, c) => paid[c] = Amounts(PaidBy(db, c))
        /\ SumFunction(paid) = Amounts(DOMAIN db.history)

\* The warehouse has received what its districts have received, and each
\* district what the history says was paid there.
PaidIn(db, wd) == {i \in DOMAIN db.history : db.history[i].d = wd}
PaymentsAddUp(db) ==
    /\ \A w \in 1 .. Warehouses :
          db.wYtd[w] - INITIAL_W_YTD =
              SumFunction([d \in 1 .. Districts |-> db.dYtd[<<w, d>>] - INITIAL_D_YTD])
    /\ \A wd \in District :
          db.dYtd[wd] - INITIAL_D_YTD =
              SumFunction([i \in PaidIn(db, wd) |-> db.history[i].amount])

\* The stock counts what the lines ordered since the population say, and its
\* quantity stays where the wrap-around of sub-transaction 4 keeps it.
Sold(db, s) == {k \in DOMAIN db.line : /\ <<db.line[k].supply, db.line[k].item>> = s
                                       /\ k[1][3] > Customers}
StockAddsUp(db) ==
    \A s \in Stock : /\ db.stock[s].ytd = SumFunction([k \in Sold(db, s) |-> db.line[k].qty])
                     /\ db.stock[s].cnt = Cardinality(Sold(db, s))
                     /\ db.stock[s].remote = Cardinality({k \in Sold(db, s) : k[1][1] # s[1]})
                     /\ db.stock[s].qty \in 10 .. 100
=============================================================================
