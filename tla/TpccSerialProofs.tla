--------------------------- MODULE TpccSerialProofs ---------------------------
(***************************************************************************)
(* TPC-C's consistency conditions for every scale and every queue the      *)
(* source may have left.                                                   *)
(*                                                                         *)
(* Consistent says of a database what holds between two transactions; each *)
(* kind of transaction is first reduced to what it writes (the ..Writes    *)
(* lemmas), then each condition is shown to survive it.                    *)
(***************************************************************************)
EXTENDS TpccSerial, SequenceLemmas

Tables == {"nextOId", "dYtd", "wYtd", "firstNew", "newOrder", "order", "line", "stock",
           "customer", "history"}

(* Rows have columns of these types; a table is a function on its keys.     *)
OrderIds == (1 .. Warehouses) \X (1 .. Districts) \X Nat
OrderRows == [c : 1 .. Customers, ol_cnt : Nat, entry_d : Nat, carrier : Nat]
LineRows == [item : 1 .. Items, supply : 1 .. Warehouses, qty : Nat,
             dist : Nat \X Nat \X Nat, delivery_d : Int, amount : Nat]
StockRows == [qty : Int, ytd : Int, cnt : Int, remote : Int]
CustomerRows == [balance : Int, ytd : Int, cnt : Int]
CustomerIds == OrderKeys(1 .. Customers)
HistoryRows == [c : CustomerIds, d : District, amount : Nat]

Typed(s) == /\ s = [x \in Tables |-> s[x]]
            /\ s.nextOId \in [District -> Nat] /\ s.firstNew \in [District -> Nat]
            /\ s.dYtd \in [District -> Int] /\ s.wYtd \in [1 .. Warehouses -> Int]
            /\ s.order \in [DOMAIN s.order -> OrderRows]
            /\ DOMAIN s.order \subseteq OrderIds /\ IsFiniteSet(DOMAIN s.order)
            /\ s.newOrder \subseteq DOMAIN s.order
            /\ s.line \in [DOMAIN s.line -> LineRows]
            /\ DOMAIN s.line \subseteq (DOMAIN s.order) \X (Nat \ {0}) /\ IsFiniteSet(DOMAIN s.line)
            /\ s.stock \in [Stock -> StockRows]
            /\ s.customer \in [CustomerIds -> CustomerRows]
            /\ s.history \in Seq(HistoryRows)

-----------------------------------------------------------------------------
ForWarehouse(p) == p.w \in 1 .. Warehouses

(* The loops of a delivery.  The districts they go through share no row, so  *)
(* that after those of a set t the database is as if all had been done at   *)
(* once.                                                                   *)
Served(s, p) == {d \in 1 .. Districts : HasNewOrder(s, p, d)}

NewOrderLeft(s, p, t) == s.newOrder \ {OldestNewOrder(s, p, d) : d \in t \cap Served(s, p)}
FirstNewLeft(s, p, t) ==
    [wd \in District |-> IF wd[1] = p.w /\ wd[2] \in t \cap Served(s, p)
                         THEN s.firstNew[wd] + 1 ELSE s.firstNew[wd]]
After1(s, p, t) == [s EXCEPT !.newOrder = NewOrderLeft(s, p, t), !.firstNew = FirstNewLeft(s, p, t)]

ServesNext(s, p, t, d) == After1(s, p, t) = DeliverySubTxn1(After1(s, p, t \ {d}), p, d)

(* One district more is one iteration of the first loop.                    *)
LEMMA Loop1Step ==
  ASSUME NEW s, Typed(s), NEW p, ForWarehouse(p), NEW t \in SUBSET (1 .. Districts),
         NEW d \in t
  PROVE  ServesNext(s, p, t, d)
<1> DEFINE u == t \ {d}
           v == After1(s, p, u)
           N == NewOrderLeft(s, p, u)
           F == FirstNewLeft(s, p, u)
           o == OldestNewOrder(s, p, d)
<1>1. /\ v.newOrder = N /\ v.firstNew = F /\ DOMAIN v = Tables
      /\ v = [s EXCEPT !.newOrder = N, !.firstNew = F]
  BY DEF After1, Typed, Tables
<1>2. <<p.w, d>> \in District /\ F \in [District -> Nat] /\ F[<<p.w, d>>] = s.firstNew[<<p.w, d>>]
  <2>1. <<p.w, d>> \in District /\ d \notin u /\ s.firstNew \in [District -> Nat]
    BY DEF District, Typed, ForWarehouse
  <2>2. F \in [District -> Nat]
    BY <2>1 DEF FirstNewLeft
  <2>3. F[<<p.w, d>>] = s.firstNew[<<p.w, d>>]
    BY <2>1 DEF FirstNewLeft
  <2> QED BY <2>1, <2>2, <2>3
<1>3. OldestNewOrder(v, p, d) = o
  BY <1>1, <1>2 DEF OldestNewOrder
<1>4. o \in N <=> o \in s.newOrder
  BY DEF NewOrderLeft, OldestNewOrder
<1>5. HasNewOrder(v, p, d) <=> d \in Served(s, p)
  BY <1>1, <1>3, <1>4 DEF HasNewOrder, Served
<1>6. CASE d \in Served(s, p)
  <2>1. N \ {o} = NewOrderLeft(s, p, t)
    BY <1>6 DEF NewOrderLeft
  <2>2. [F EXCEPT ![<<p.w, d>>] = @ + 1] = FirstNewLeft(s, p, t)
    <3>1. ASSUME NEW wd \in District
          PROVE  [F EXCEPT ![<<p.w, d>>] = @ + 1][wd] = FirstNewLeft(s, p, t)[wd]
      <4>1. CASE wd = <<p.w, d>>
        BY <1>2, <1>6, <4>1 DEF FirstNewLeft
      <4>2. CASE wd # <<p.w, d>>
        <5>1. wd[1] # p.w \/ wd[2] # d
          BY <4>2 DEF District
        <5>2. [F EXCEPT ![<<p.w, d>>] = @ + 1][wd] = F[wd]
          BY <1>2, <4>2
        <5> QED BY <5>1, <5>2 DEF FirstNewLeft
      <4> QED BY <4>1, <4>2
    <3>2. FirstNewLeft(s, p, t) = [wd \in District |-> FirstNewLeft(s, p, t)[wd]]
      BY DEF FirstNewLeft
    <3> HIDE DEF F
    <3>3. [F EXCEPT ![<<p.w, d>>] = @ + 1] = [wd \in District |-> FirstNewLeft(s, p, t)[wd]]
      BY <1>2, <3>1
    <3> QED BY <3>2, <3>3
  <2>3. DeliverySubTxn1(v, p, d) = [v EXCEPT !.newOrder = N \ {o},
                                            !.firstNew = [F EXCEPT ![<<p.w, d>>] = @ + 1]]
    BY <1>1, <1>3, <1>5, <1>6 DEF DeliverySubTxn1, Tables
  <2> HIDE DEF v, N, F, o
  <2>4. DeliverySubTxn1(v, p, d) = [s EXCEPT !.newOrder = N \ {o},
                                            !.firstNew = [F EXCEPT ![<<p.w, d>>] = @ + 1]]
    BY <1>1, <2>3 DEF Typed, Tables
  <2> QED BY <2>1, <2>2, <2>4 DEF After1, u, v, ServesNext
<1>7. CASE d \notin Served(s, p)
  <2>1. t \cap Served(s, p) = u \cap Served(s, p)
    BY <1>7
  <2>2. N = NewOrderLeft(s, p, t) /\ F = FirstNewLeft(s, p, t)
    BY <2>1 DEF NewOrderLeft, FirstNewLeft
  <2>3. DeliverySubTxn1(v, p, d) = v
    BY <1>5, <1>7 DEF DeliverySubTxn1
  <2> QED BY <2>2, <2>3 DEF After1, ServesNext
<1> QED BY <1>6, <1>7

(* Databases with sound tables, whatever is in the others.                  *)
HasTables(s) == s = [x \in Tables |-> s[x]]
HasLines(s) == HasTables(s) /\ s.line \in [DOMAIN s.line -> LineRows]
HasOrders(s) == HasTables(s) /\ s.order \in [DOMAIN s.order -> OrderRows]
HasCustomers(s) == HasTables(s) /\ s.customer \in [CustomerIds -> CustomerRows]
HasStock(s) == HasTables(s) /\ s.stock \in [Stock -> StockRows]

(* The recursive function of a loop.                                       *)
Loop1Is(s, p, seq, g) ==
    g = [t \in SUBSET DOMAIN seq |->
            IF t = {} THEN s ELSE DeliverySubTxn1(g[t \ {Max(t)}], p, seq[Max(t)])]

(* The first loop of a delivery serves all districts at once.               *)
LEMMA Loop1Does ==
  ASSUME NEW s, Typed(s), NEW p, ForWarehouse(p)
  PROVE  DeliveryLoop1(s, p) = After1(s, p, 1 .. Districts)
<1> DEFINE S == 1 .. Districts
           seq == [i \in S |-> i]
           f == CHOOSE g : Loop1Is(s, p, seq, g)
           g == [t \in SUBSET S |-> After1(s, p, t)]
<1>1. DeliveryLoop1(s, p) = f[DOMAIN seq]
  BY Zenon DEF DeliveryLoop1, FoldLeft, MapThenFoldSet, Upto, Loop1Is
<1>2. DOMAIN seq = S /\ \A i \in S : seq[i] = i
  OBVIOUS
<1> HIDE DEF seq
<1>3. After1(s, p, {}) = s
  <2>1. NewOrderLeft(s, p, {}) = s.newOrder /\ FirstNewLeft(s, p, {}) = s.firstNew
    BY DEF NewOrderLeft, FirstNewLeft, Typed
  <2> QED BY <2>1 DEF After1, Typed, Tables
<1>4. \A t \in SUBSET S : t # {} => Max(t) \in t
  <2>1. Districts \in Nat
    BY TpccAssumption
  <2> QED BY <2>1, GreatestElement
<1>5. ASSUME NEW t \in SUBSET S
      PROVE  g[t] = IF t = {} THEN s ELSE DeliverySubTxn1(g[t \ {Max(t)}], p, seq[Max(t)])
  <2>1. CASE t = {}
    BY <2>1, <1>3
  <2>2. CASE t # {}
    <3>1. Max(t) \in t /\ t \ {Max(t)} \in SUBSET S /\ seq[Max(t)] = Max(t)
      BY <2>2, <1>2, <1>4
    <3>2. After1(s, p, t) = DeliverySubTxn1(After1(s, p, t \ {Max(t)}), p, Max(t))
      <4> DEFINE d == Max(t)
      <4>1. t \in SUBSET (1 .. Districts) /\ d \in t
        BY <3>1
      <4> HIDE DEF d, S, f, g
      <4>2. ServesNext(s, p, t, d)
        BY <4>1, Loop1Step, Zenon
      <4> QED BY <4>2 DEF d, ServesNext
    <3> QED BY <2>2, <3>1, <3>2
  <2> QED BY <2>1, <2>2
<1>6. Loop1Is(s, p, seq, g)
  BY <1>2, <1>5 DEF Loop1Is
<1>7. Loop1Is(s, p, seq, f)
  BY <1>6
<1> HIDE DEF f, g
<1>8. ASSUME NEW t \in SUBSET S, \A x \in t : f[t \ {x}] = g[t \ {x}] PROVE f[t] = g[t]
  <2>1. f[t] = IF t = {} THEN s ELSE DeliverySubTxn1(f[t \ {Max(t)}], p, seq[Max(t)])
    BY <1>2, <1>7 DEF Loop1Is
  <2>2. t # {} => f[t \ {Max(t)}] = g[t \ {Max(t)}]
    BY <1>4, <1>8
  <2> QED BY <2>1, <2>2, <1>5
<1>9. IsFiniteSet(S)
  BY FS_Interval, TpccAssumption
<1>10. f[S] = g[S]
  <2> HIDE DEF S
  <2> QED BY <1>8, <1>9, SameRecursion
<1> QED BY <1>1, <1>2, <1>10 DEF g

(* The loops over no_o_ids, which begins with element First(t) of what is    *)
(* left of it.                                                             *)
OrderOf(p, ids, d) == <<p.w, d, ids[d]>>
OrdersOf(p, ids, t) == {OrderOf(p, ids, d) : d \in t}

LinesAfter(s, p, ids, t) ==
    [k \in DOMAIN s.line |-> IF k[1] \in OrdersOf(p, ids, t)
                             THEN [s.line[k] EXCEPT !.delivery_d = p.date] ELSE s.line[k]]
After2(s, p, ids, t) == [s EXCEPT !.line = LinesAfter(s, p, ids, t)]

Loop2Is(s, p, ids, g) ==
    g = [t \in SUBSET DOMAIN ids |->
            IF t = {} THEN s ELSE DeliverySubTxn2(g[t \ {First(t)}], p, First(t), ids[First(t)])]

(* The second writes the delivery date into all lines of the orders served. *)
LEMMA Loop2Does ==
  ASSUME NEW s, HasLines(s), NEW p, NEW ids, IsFiniteSet(DOMAIN ids)
  PROVE  DeliveryLoop2(s, p, ids) = After2(s, p, ids, DOMAIN ids)
<1> DEFINE S == DOMAIN ids
           f == CHOOSE g : Loop2Is(s, p, ids, g)
           g == [t \in SUBSET S |-> After2(s, p, ids, t)]
<1>1. DeliveryLoop2(s, p, ids) = f[S]
  BY Zenon DEF DeliveryLoop2, FoldSet, MapThenFoldSet, Loop2Is, First
<1>2. After2(s, p, ids, {}) = s
  <2>1. LinesAfter(s, p, ids, {}) = s.line
    BY DEF LinesAfter, OrdersOf, HasLines
  <2> QED BY <2>1 DEF After2, HasLines, HasTables, Tables
<1>3. \A t \in SUBSET S : t # {} => First(t) \in t
  BY DEF First
<1>4. ASSUME NEW t \in SUBSET S, NEW d \in t
      PROVE  After2(s, p, ids, t) = DeliverySubTxn2(After2(s, p, ids, t \ {d}), p, d, ids[d])
  <2> DEFINE L == LinesAfter(s, p, ids, t \ {d})
             v == [s EXCEPT !.line = L]
             M == [k \in DOMAIN L |-> IF k[1] = <<p.w, d, ids[d]>>
                                      THEN [L[k] EXCEPT !.delivery_d = p.date] ELSE L[k]]
  <2>1. v.line = L /\ v = [x \in Tables |-> v[x]]
    BY DEF HasLines, HasTables, Tables
  <2>2. DeliverySubTxn2(v, p, d, ids[d]) = [v EXCEPT !.line = M]
    BY <2>1 DEF DeliverySubTxn2
  <2>3. DOMAIN L = DOMAIN s.line /\ \A k \in DOMAIN s.line :
           L[k] = IF k[1] \in OrdersOf(p, ids, t \ {d})
                  THEN [s.line[k] EXCEPT !.delivery_d = p.date] ELSE s.line[k]
    BY DEF LinesAfter
  <2>4. OrdersOf(p, ids, t) = OrdersOf(p, ids, t \ {d}) \cup {<<p.w, d, ids[d]>>}
    BY DEF OrdersOf, OrderOf
  <2>5. M = LinesAfter(s, p, ids, t)
    <3>1. ASSUME NEW k \in DOMAIN s.line PROVE M[k] = LinesAfter(s, p, ids, t)[k]
      <4>1. s.line[k] \in LineRows
        BY DEF HasLines
      <4>2. [[s.line[k] EXCEPT !.delivery_d = p.date] EXCEPT !.delivery_d = p.date]
               = [s.line[k] EXCEPT !.delivery_d = p.date]
        BY <4>1 DEF LineRows
      <4> HIDE DEF L
      <4> QED BY <2>3, <2>4, <4>2 DEF LinesAfter
    <3> HIDE DEF L
    <3> QED BY <2>3, <3>1 DEF LinesAfter
  <2> HIDE DEF L, M
  <2>6. [v EXCEPT !.line = M] = [s EXCEPT !.line = M]
    BY DEF HasLines, HasTables, Tables
  <2> QED BY <2>2, <2>5, <2>6 DEF After2, L
<1>5. \A t \in SUBSET S : g[t] = After2(s, p, ids, t)
  OBVIOUS
<1> HIDE DEF g
<1>6. \A t \in SUBSET S :
         g[t] = IF t = {} THEN s ELSE DeliverySubTxn2(g[t \ {First(t)}], p, First(t), ids[First(t)])
  <2> TAKE t \in SUBSET S
  <2>1. CASE t = {}
    BY <2>1, <1>2, <1>5
  <2>2. CASE t # {}
    <3> DEFINE d == First(t)
    <3>1. d \in t /\ t \ {d} \in SUBSET S
      BY <1>3, <2>2
    <3> HIDE DEF d
    <3>2. After2(s, p, ids, t) = DeliverySubTxn2(After2(s, p, ids, t \ {d}), p, d, ids[d])
      BY <3>1, <1>4
    <3>3. g[t \ {d}] = After2(s, p, ids, t \ {d})
      BY <3>1, <1>5
    <3>4. g[t] = DeliverySubTxn2(g[t \ {d}], p, d, ids[d])
      BY <3>2, <3>3, <1>5
    <3> QED BY <2>2, <3>4 DEF d
  <2> QED BY <2>1, <2>2
<1>7. g = [t \in SUBSET S |-> g[t]]
  BY DEF g
<1>8. Loop2Is(s, p, ids, g)
  BY <1>6, <1>7 DEF Loop2Is
<1>9. Loop2Is(s, p, ids, f)
  BY <1>8
<1> HIDE DEF f
<1>10. ASSUME NEW t \in SUBSET S, \A x \in t : f[t \ {x}] = g[t \ {x}] PROVE f[t] = g[t]
  <2>1. f[t] = IF t = {} THEN s ELSE DeliverySubTxn2(f[t \ {First(t)}], p, First(t), ids[First(t)])
    BY <1>9 DEF Loop2Is
  <2>2. t # {} => f[t \ {First(t)}] = g[t \ {First(t)}]
    BY <1>3, <1>10
  <2> QED BY <2>1, <2>2, <1>6
<1>11. f[S] = g[S]
  <2> HIDE DEF S
  <2>1. IsFiniteSet(S)
    BY DEF S
  <2> QED BY <2>1, <1>10, SameRecursion
<1> QED BY <1>1, <1>5, <1>11

CarriersAfter(s, p, ids, t) ==
    [o \in DOMAIN s.order |-> IF o \in OrdersOf(p, ids, t)
                              THEN [s.order[o] EXCEPT !.carrier = p.carrier] ELSE s.order[o]]
After3(s, p, ids, t) == [s EXCEPT !.order = CarriersAfter(s, p, ids, t)]

Loop3Is(s, p, ids, g) ==
    g = [t \in SUBSET DOMAIN ids |->
            IF t = {} THEN s
            ELSE DeliverySubTxn3(g[t \ {First(t)}], p, First(t), ids[First(t)])]

(* The third writes the carrier into all orders served.                     *)
LEMMA Loop3Does ==
  ASSUME NEW s, HasOrders(s), NEW p, NEW ids, IsFiniteSet(DOMAIN ids)
  PROVE  DeliveryLoop3(s, p, ids) = After3(s, p, ids, DOMAIN ids)
<1> DEFINE S == DOMAIN ids
           f == CHOOSE g : Loop3Is(s, p, ids, g)
           g == [t \in SUBSET S |-> After3(s, p, ids, t)]
<1>1. DeliveryLoop3(s, p, ids) = f[S]
  BY Zenon DEF DeliveryLoop3, FoldSet, MapThenFoldSet, Loop3Is, First
<1>2. After3(s, p, ids, {}) = s
  <2>1. CarriersAfter(s, p, ids, {}) = s.order
    BY DEF CarriersAfter, OrdersOf, HasOrders
  <2> QED BY <2>1 DEF After3, HasOrders, HasTables, Tables
<1>3. \A t \in SUBSET S : t # {} => First(t) \in t
  BY DEF First
<1>4. ASSUME NEW t \in SUBSET S, NEW d \in t
      PROVE  After3(s, p, ids, t) = DeliverySubTxn3(After3(s, p, ids, t \ {d}), p, d, ids[d])
  <2> DEFINE O == CarriersAfter(s, p, ids, t \ {d})
             v == [s EXCEPT !.order = O]
             M == [O EXCEPT ![<<p.w, d, ids[d]>>].carrier = p.carrier]
  <2>1. v.order = O /\ v = [x \in Tables |-> v[x]]
    BY DEF HasOrders, HasTables, Tables
  <2>2. DeliverySubTxn3(v, p, d, ids[d]) = [v EXCEPT !.order = M]
    BY <2>1 DEF DeliverySubTxn3, Tables
  <2>3. DOMAIN O = DOMAIN s.order /\ \A o \in DOMAIN s.order :
           O[o] = IF o \in OrdersOf(p, ids, t \ {d})
                  THEN [s.order[o] EXCEPT !.carrier = p.carrier] ELSE s.order[o]
    BY DEF CarriersAfter
  <2>4. OrdersOf(p, ids, t) = OrdersOf(p, ids, t \ {d}) \cup {<<p.w, d, ids[d]>>}
    BY DEF OrdersOf, OrderOf
  <2>5. M = CarriersAfter(s, p, ids, t)
    <3>1. ASSUME NEW o \in DOMAIN s.order PROVE M[o] = CarriersAfter(s, p, ids, t)[o]
      <4>1. s.order[o] \in OrderRows
        BY DEF HasOrders
      <4>2. [[s.order[o] EXCEPT !.carrier = p.carrier] EXCEPT !.carrier = p.carrier]
               = [s.order[o] EXCEPT !.carrier = p.carrier]
        BY <4>1 DEF OrderRows
      <4> HIDE DEF O
      <4> QED BY <2>3, <2>4, <4>2 DEF CarriersAfter
    <3>2. M = [o \in DOMAIN O |-> M[o]]
      OBVIOUS
    <3> HIDE DEF O, M
    <3> QED BY <2>3, <3>1, <3>2 DEF CarriersAfter
  <2> HIDE DEF O, M
  <2>6. [v EXCEPT !.order = M] = [s EXCEPT !.order = M]
    BY DEF HasOrders, HasTables, Tables
  <2> QED BY <2>2, <2>5, <2>6 DEF After3, O
<1>5. \A t \in SUBSET S : g[t] = After3(s, p, ids, t)
  OBVIOUS
<1> HIDE DEF g
<1>6. \A t \in SUBSET S :
         g[t] = IF t = {} THEN s
                ELSE DeliverySubTxn3(g[t \ {First(t)}], p, First(t), ids[First(t)])
  <2> TAKE t \in SUBSET S
  <2>1. CASE t = {}
    BY <2>1, <1>2, <1>5
  <2>2. CASE t # {}
    <3> DEFINE d == First(t)
    <3>1. d \in t /\ t \ {d} \in SUBSET S
      BY <1>3, <2>2
    <3> HIDE DEF d
    <3>2. After3(s, p, ids, t) = DeliverySubTxn3(After3(s, p, ids, t \ {d}), p, d, ids[d])
      BY <3>1, <1>4
    <3>3. g[t \ {d}] = After3(s, p, ids, t \ {d})
      BY <3>1, <1>5
    <3>4. g[t] = DeliverySubTxn3(g[t \ {d}], p, d, ids[d])
      BY <3>2, <3>3, <1>5
    <3> QED BY <2>2, <3>4 DEF d
  <2> QED BY <2>1, <2>2
<1>7. g = [t \in SUBSET S |-> g[t]]
  BY DEF g
<1>8. Loop3Is(s, p, ids, g)
  BY <1>6, <1>7 DEF Loop3Is
<1>9. Loop3Is(s, p, ids, f)
  BY <1>8
<1> HIDE DEF f
<1>10. ASSUME NEW t \in SUBSET S, \A x \in t : f[t \ {x}] = g[t \ {x}] PROVE f[t] = g[t]
  <2>1. f[t] = IF t = {} THEN s
               ELSE DeliverySubTxn3(f[t \ {First(t)}], p, First(t), ids[First(t)])
    BY <1>9 DEF Loop3Is
  <2>2. t # {} => f[t \ {First(t)}] = g[t \ {First(t)}]
    BY <1>3, <1>10
  <2> QED BY <2>1, <2>2, <1>6
<1>11. f[S] = g[S]
  <2> HIDE DEF S
  <2>1. IsFiniteSet(S)
    BY DEF S
  <2> QED BY <2>1, <1>10, SameRecursion
<1> QED BY <1>1, <1>5, <1>11

(* A sum goes to the customer of its district.                             *)
BalancesAfter(s, p, sums, cs, t) ==
    [c \in CustomerIds |-> IF c \in OrdersOf(p, cs, t)
                           THEN [s.customer[c] EXCEPT !.balance = @ + sums[c[2]]] ELSE s.customer[c]]
After4(s, p, sums, cs, t) == [s EXCEPT !.customer = BalancesAfter(s, p, sums, cs, t)]

Loop4Is(s, p, sums, cs, g) ==
    g = [t \in SUBSET DOMAIN sums |->
            IF t = {} THEN s
            ELSE DeliverySubTxn4(g[t \ {First(t)}], p, First(t), sums[First(t)], cs[First(t)])]

(* The fourth adds to each customer what the order delivered to it amounts  *)
(* to, which the iterations for other customers do not touch.               *)
LEMMA Loop4Does ==
  ASSUME NEW s, HasCustomers(s), NEW p, NEW sums, NEW cs, IsFiniteSet(DOMAIN sums)
  PROVE  DeliveryLoop4(s, p, sums, cs) = After4(s, p, sums, cs, DOMAIN sums)
<1> DEFINE S == DOMAIN sums
           f == CHOOSE g : Loop4Is(s, p, sums, cs, g)
           g == [t \in SUBSET S |-> After4(s, p, sums, cs, t)]
<1>1. DeliveryLoop4(s, p, sums, cs) = f[S]
  BY Zenon DEF DeliveryLoop4, FoldSet, MapThenFoldSet, Loop4Is, First
<1>2. After4(s, p, sums, cs, {}) = s
  <2>1. BalancesAfter(s, p, sums, cs, {}) = s.customer
    BY DEF BalancesAfter, OrdersOf, HasCustomers
  <2> QED BY <2>1 DEF After4, HasCustomers, HasTables, Tables
<1>3. \A t \in SUBSET S : t # {} => First(t) \in t
  BY DEF First
<1>4. ASSUME NEW t \in SUBSET S, NEW d \in t
      PROVE  After4(s, p, sums, cs, t) = DeliverySubTxn4(After4(s, p, sums, cs, t \ {d}), p, d, sums[d], cs[d])
  <2> DEFINE B == BalancesAfter(s, p, sums, cs, t \ {d})
             v == [s EXCEPT !.customer = B]
             M == [B EXCEPT ![<<p.w, d, cs[d]>>].balance = @ + sums[d]]
  <2>1. v.customer = B /\ v = [x \in Tables |-> v[x]]
    BY DEF HasCustomers, HasTables, Tables
  <2>2. DeliverySubTxn4(v, p, d, sums[d], cs[d]) = [v EXCEPT !.customer = M]
    BY <2>1 DEF DeliverySubTxn4, Tables
  <2>3. DOMAIN B = CustomerIds /\ \A c \in CustomerIds :
           B[c] = IF c \in OrdersOf(p, cs, t \ {d})
                  THEN [s.customer[c] EXCEPT !.balance = @ + sums[c[2]]] ELSE s.customer[c]
    BY DEF BalancesAfter
  <2>4. OrdersOf(p, cs, t) = OrdersOf(p, cs, t \ {d}) \cup {<<p.w, d, cs[d]>>}
    BY DEF OrdersOf, OrderOf
  <2>7. <<p.w, d, cs[d]>> \notin OrdersOf(p, cs, t \ {d})
    BY DEF OrdersOf, OrderOf
  <2>5. M = BalancesAfter(s, p, sums, cs, t)
    <3>1. ASSUME NEW c \in CustomerIds PROVE M[c] = BalancesAfter(s, p, sums, cs, t)[c]
      <4> HIDE DEF B
      <4>1. CASE c = <<p.w, d, cs[d]>>
        <5>1. B[c] = s.customer[c] /\ c[2] = d
          BY <4>1, <2>3, <2>7
        <5>2. M[c] = [s.customer[c] EXCEPT !.balance = @ + sums[d]]
          BY <4>1, <5>1, <2>3
        <5> QED BY <4>1, <5>1, <5>2, <2>4 DEF BalancesAfter
      <4>2. CASE c # <<p.w, d, cs[d]>>
        <5>1. M[c] = B[c]
          BY <4>2, <2>3
        <5> QED BY <4>2, <5>1, <2>3, <2>4 DEF BalancesAfter
      <4> QED BY <4>1, <4>2
    <3>2. M = [c \in DOMAIN B |-> M[c]]
      OBVIOUS
    <3> HIDE DEF B, M
    <3> QED BY <2>3, <3>1, <3>2 DEF BalancesAfter
  <2> HIDE DEF B, M
  <2>6. [v EXCEPT !.customer = M] = [s EXCEPT !.customer = M]
    BY DEF HasCustomers, HasTables, Tables
  <2> QED BY <2>2, <2>5, <2>6 DEF After4, B
<1>5. \A t \in SUBSET S : g[t] = After4(s, p, sums, cs, t)
  OBVIOUS
<1> HIDE DEF g
<1>6. \A t \in SUBSET S :
         g[t] = IF t = {} THEN s
                ELSE DeliverySubTxn4(g[t \ {First(t)}], p, First(t), sums[First(t)], cs[First(t)])
  <2> TAKE t \in SUBSET S
  <2>1. CASE t = {}
    BY <2>1, <1>2, <1>5
  <2>2. CASE t # {}
    <3> DEFINE d == First(t)
    <3>1. d \in t /\ t \ {d} \in SUBSET S
      BY <1>3, <2>2
    <3> HIDE DEF d
    <3>2. After4(s, p, sums, cs, t) = DeliverySubTxn4(After4(s, p, sums, cs, t \ {d}), p, d, sums[d], cs[d])
      BY <3>1, <1>4
    <3>3. g[t \ {d}] = After4(s, p, sums, cs, t \ {d})
      BY <3>1, <1>5
    <3>4. g[t] = DeliverySubTxn4(g[t \ {d}], p, d, sums[d], cs[d])
      BY <3>2, <3>3, <1>5
    <3> QED BY <2>2, <3>4 DEF d
  <2> QED BY <2>1, <2>2
<1>7. g = [t \in SUBSET S |-> g[t]]
  BY DEF g
<1>8. Loop4Is(s, p, sums, cs, g)
  BY <1>6, <1>7 DEF Loop4Is
<1>9. Loop4Is(s, p, sums, cs, f)
  BY <1>8
<1> HIDE DEF f
<1>10. ASSUME NEW t \in SUBSET S, \A x \in t : f[t \ {x}] = g[t \ {x}] PROVE f[t] = g[t]
  <2>1. f[t] = IF t = {} THEN s
               ELSE DeliverySubTxn4(f[t \ {First(t)}], p, First(t), sums[First(t)], cs[First(t)])
    BY <1>9 DEF Loop4Is
  <2>2. t # {} => f[t \ {First(t)}] = g[t \ {First(t)}]
    BY <1>3, <1>10
  <2> QED BY <2>1, <2>2, <1>6
<1>11. f[S] = g[S]
  <2> HIDE DEF S
  <2>1. IsFiniteSet(S)
    BY DEF S
  <2> QED BY <2>1, <1>10, SameRecursion
<1> QED BY <1>1, <1>5, <1>11

-----------------------------------------------------------------------------
(* The lines of an order, one after the other, take from the stock: h is the *)
(* stock after each.                                                       *)
OrdersLines(p) == p.items \in Seq((1 .. Items) \X (1 .. Warehouses) \X (1 .. MAX_OL_QUANTITY))

Taken(row, p, i) == [qty    |-> Restocked(row.qty, Qty(p, i)),
                     ytd    |-> row.ytd + Qty(p, i),
                     cnt    |-> row.cnt + 1,
                     remote |-> IF p.items[i][2] # p.w THEN row.remote + 1 ELSE row.remote]
TakenFrom(st, p, i) == [st EXCEPT ![StockOf(p, i)] = Taken(@, p, i)]
StockByLine(s, p, h) ==
    /\ h \in [0 .. Len(p.items) -> [Stock -> StockRows]]
    /\ h[0] = s.stock
    /\ \A i \in 1 .. Len(p.items) : h[i] = TakenFrom(h[i - 1], p, i)

(* What a line of an order drawn by the source holds.                       *)
LEMMA LineTypes ==
  ASSUME NEW p, OrdersLines(p), NEW i \in 1 .. Len(p.items)
  PROVE  /\ StockOf(p, i) \in Stock /\ Qty(p, i) \in 1 .. 10
         /\ p.items[i][1] \in 1 .. Items /\ p.items[i][2] \in 1 .. Warehouses
         /\ OlAmount(p, i) \in Nat
<1>1. p.items[i] \in (1 .. Items) \X (1 .. Warehouses) \X (1 .. 10)
  BY DEF OrdersLines, MAX_OL_QUANTITY
<1>2. Price[p.items[i][1]] \in Nat
  BY <1>1, TpccAssumption
<1>3. StockOf(p, i) \in Stock /\ Qty(p, i) \in 1 .. 10
  BY <1>1 DEF StockOf, Qty, Stock
<1>4. \A a, b \in Nat : a * b \in Nat
  OBVIOUS
<1>5. OlAmount(p, i) \in Nat
  <2>1. Qty(p, i) \in Nat
    BY <1>3
  <2> QED BY <1>2, <1>4, <2>1, Zenon DEF OlAmount
<1> QED BY <1>1, <1>3, <1>5

(* Taking a line from a row of STOCK leaves a row of STOCK.                 *)
LEMMA TakenTypes ==
  ASSUME NEW p, OrdersLines(p), NEW i \in 1 .. Len(p.items), NEW row \in StockRows
  PROVE  Taken(row, p, i) \in StockRows
<1>1. Qty(p, i) \in Int
  BY LineTypes
<1> QED BY <1>1 DEF Taken, StockRows, Restocked

Loop4StockIs(s, p, seq, g) ==
    g = [t \in SUBSET DOMAIN seq |->
            IF t = {} THEN s ELSE NewOrderSubTxn4(g[t \ {Max(t)}], p, seq[Max(t)])]

StockLooped(s, p, r) == \E h : StockByLine(s, p, h) /\ r = [s EXCEPT !.stock = h[Len(p.items)]]

(* The loop over the stock takes the lines one after the other, as two of   *)
(* them may be of one row.                                                  *)
LEMMA StockLoopDoes ==
  ASSUME NEW s, HasStock(s), NEW p, OrdersLines(p)
  PROVE  StockLooped(s, p, NewOrderLoop4(s, p))
<1> DEFINE n == Len(p.items)
           V == [Stock -> StockRows]
           seq == [i \in 1 .. n |-> i]
           F == [x \in (1 .. n) \X V |-> TakenFrom(x[2], p, x[1])]
           f == CHOOSE g : Loop4StockIs(s, p, seq, g)
<1>0. n \in Nat
  BY DEF OrdersLines
<1>1. NewOrderLoop4(s, p) = f[DOMAIN seq]
  BY Zenon DEF NewOrderLoop4, FoldLeft, MapThenFoldSet, Upto, Loop4StockIs
<1>2. DOMAIN seq = 1 .. n /\ \A i \in 1 .. n : seq[i] = i
  OBVIOUS
<1> HIDE DEF seq
<1>3. ASSUME NEW i \in 1 .. n, NEW st \in V PROVE TakenFrom(st, p, i) \in V
  <2>1. StockOf(p, i) \in Stock
    BY LineTypes
  <2>2. Taken(st[StockOf(p, i)], p, i) \in StockRows
    BY <2>1, TakenTypes
  <2> QED BY <2>1, <2>2 DEF TakenFrom
<1> HIDE DEF n
<1>4. F \in [(1 .. n) \X V -> V]
  BY <1>3
<1>5. \A i \in 1 .. n : \A st \in V : F[<<i, st>>] = TakenFrom(st, p, i)
  OBVIOUS
<1>6. s.stock \in V
  BY DEF HasStock
<1> HIDE DEF F, V
<1>7. PICK G \in [SUBSET (1 .. n) -> V] : Folds(n, s.stock, F, G)
  BY <1>0, <1>4, <1>6, FoldExists, Zenon
<1> DEFINE g == [t \in SUBSET (1 .. n) |-> [s EXCEPT !.stock = G[t]]]
<1>8. G[{}] = s.stock
  BY <1>7 DEF Folds
<1>9. \A t \in SUBSET (1 .. n) : t # {} => Max(t) \in t
  BY <1>0, GreatestElement
<1>10. ASSUME NEW t \in SUBSET (1 .. n), t # {}
       PROVE  Max(t) \in 1 .. n /\ G[t] = TakenFrom(G[t \ {Max(t)}], p, Max(t))
  <2>1. Max(t) \in 1 .. n /\ G[t \ {Max(t)}] \in V
    BY <1>9, <1>10
  <2>2. G[t] = F[<<Max(t), G[t \ {Max(t)}]>>]
    BY <1>7, <1>10 DEF Folds
  <2> QED BY <2>1, <2>2, <1>5
<1>11. ASSUME NEW st, NEW i
       PROVE  NewOrderSubTxn4([s EXCEPT !.stock = st], p, i) = [s EXCEPT !.stock = TakenFrom(st, p, i)]
  <2> DEFINE v == [s EXCEPT !.stock = st]
  <2>1. v.stock = st /\ DOMAIN v = Tables
    BY DEF HasStock, HasTables, Tables
  <2>2. NewOrderSubTxn4(v, p, i) = [v EXCEPT !.stock = TakenFrom(@, p, i)]
    BY Zenon DEF NewOrderSubTxn4, TakenFrom, Taken
  <2>3. NewOrderSubTxn4(v, p, i) = [v EXCEPT !.stock = TakenFrom(st, p, i)]
    BY <2>1, <2>2 DEF Tables
  <2> DEFINE M == TakenFrom(st, p, i)
  <2>4. NewOrderSubTxn4(v, p, i) = [v EXCEPT !.stock = M]
    BY <2>3
  <2> HIDE DEF M
  <2>5. [v EXCEPT !.stock = M] = [s EXCEPT !.stock = M]
    BY DEF HasStock, HasTables, Tables
  <2> QED BY <2>4, <2>5 DEF M
<1>12. \A t \in SUBSET (1 .. n) :
          g[t] = IF t = {} THEN s ELSE NewOrderSubTxn4(g[t \ {Max(t)}], p, seq[Max(t)])
  <2> TAKE t \in SUBSET (1 .. n)
  <2>1. CASE t = {}
    <3>1. [s EXCEPT !.stock = s.stock] = s
      BY DEF HasStock, HasTables, Tables
    <3> QED BY <2>1, <3>1, <1>8
  <2>2. CASE t # {}
    <3> DEFINE m == Max(t)
    <3>1. m \in 1 .. n /\ G[t] = TakenFrom(G[t \ {m}], p, m) /\ seq[m] = m
      BY <2>2, <1>2, <1>10
    <3> HIDE DEF m
    <3>2. g[t \ {m}] = [s EXCEPT !.stock = G[t \ {m}]]
      OBVIOUS
    <3>3. NewOrderSubTxn4([s EXCEPT !.stock = G[t \ {m}]], p, m)
             = [s EXCEPT !.stock = TakenFrom(G[t \ {m}], p, m)]
      BY <1>11
    <3>4. g[t] = [s EXCEPT !.stock = G[t]]
      OBVIOUS
    <3> HIDE DEF g
    <3>5. g[t] = NewOrderSubTxn4(g[t \ {m}], p, m)
      BY <3>1, <3>2, <3>3, <3>4
    <3> QED BY <2>2, <3>1, <3>5 DEF m
  <2> QED BY <2>1, <2>2
<1>13. g = [t \in SUBSET (1 .. n) |-> g[t]]
  OBVIOUS
<1>14. \A t \in SUBSET (1 .. n) : g[t] = [s EXCEPT !.stock = G[t]]
  OBVIOUS
<1> HIDE DEF g
<1>15. Loop4StockIs(s, p, seq, g)
  BY <1>2, <1>12, <1>13 DEF Loop4StockIs
<1>16. Loop4StockIs(s, p, seq, f)
  BY <1>15
<1> HIDE DEF f
<1>17. ASSUME NEW t \in SUBSET (1 .. n), \A x \in t : f[t \ {x}] = g[t \ {x}] PROVE f[t] = g[t]
  <2>1. f[t] = IF t = {} THEN s ELSE NewOrderSubTxn4(f[t \ {Max(t)}], p, seq[Max(t)])
    BY <1>2, <1>16 DEF Loop4StockIs
  <2>2. t # {} => f[t \ {Max(t)}] = g[t \ {Max(t)}]
    BY <1>9, <1>17
  <2> QED BY <2>1, <2>2, <1>12
<1>18. f[1 .. n] = g[1 .. n]
  <2> DEFINE S == 1 .. n
  <2>1. IsFiniteSet(S)
    BY FS_Interval, <1>0
  <2>2. ASSUME NEW t \in SUBSET S, \A x \in t : f[t \ {x}] = g[t \ {x}] PROVE f[t] = g[t]
    BY <1>17, <2>2
  <2> HIDE DEF S
  <2>3. f[S] = g[S]
    BY <2>1, <2>2, SameRecursion
  <2> QED BY <2>3 DEF S
<1> DEFINE h == [i \in 0 .. n |-> G[1 .. i]]
<1>19. \A i \in 0 .. n : 1 .. i \in SUBSET (1 .. n) /\ h[i] = G[1 .. i]
  BY <1>0
<1>20. h \in [0 .. n -> V]
  BY <1>19
<1>21. h[0] = s.stock /\ h[n] = G[1 .. n]
  BY <1>0, <1>8
<1>22. \A i \in 1 .. n : h[i] = TakenFrom(h[i - 1], p, i)
  <2> TAKE i \in 1 .. n
  <2>0. i \in Nat \ {0} /\ i - 1 \in 0 .. n /\ i \in 0 .. n
    BY <1>0
  <2>1. Max(1 .. i) = i /\ (1 .. i) \ {i} = 1 .. (i - 1) /\ 1 .. i # {} /\ 1 .. i \in SUBSET (1 .. n)
    BY <2>0, <1>19, UptoLast
  <2>2. G[1 .. i] = TakenFrom(G[1 .. (i - 1)], p, i)
    BY <2>1, <1>10
  <2>3. h[i] = G[1 .. i] /\ h[i - 1] = G[1 .. (i - 1)]
    BY <2>0, <1>19
  <2> HIDE DEF h
  <2> QED BY <2>2, <2>3
<1> HIDE DEF h
<1>23. StockByLine(s, p, h)
  BY <1>20, <1>21, <1>22 DEF StockByLine, n, V
<1>24. NewOrderLoop4(s, p) = [s EXCEPT !.stock = h[n]]
  <2>1. 1 .. n \in SUBSET (1 .. n)
    OBVIOUS
  <2> QED BY <1>1, <1>2, <1>14, <1>18, <1>21, <2>1
<1>25. NewOrderLoop4(s, p) = [s EXCEPT !.stock = h[Len(p.items)]]
  BY <1>24 DEF n
<1> QED BY <1>23, <1>25, Zenon DEF StockLooped

-----------------------------------------------------------------------------
(* What the transactions write, table by table.                            *)

Delivers(p) == ForWarehouse(p) /\ p.carrier \in Nat \ {NULL_CARRIER_ID} /\ p.date \in Nat

Due(s, p) == {OldestNewOrder(s, p, d) : d \in Served(s, p)}
Receives(s, p, c) == /\ c[1] = p.w /\ c[2] \in Served(s, p)
                     /\ c[3] = s.order[OldestNewOrder(s, p, c[2])].c
Untouched(s, r, tables) == \A x \in tables : r[x] = s[x]

DeliveryWrites(s, p, r) ==
    /\ HasTables(r)
    /\ Untouched(s, r, {"nextOId", "dYtd", "wYtd", "stock", "history"})
    /\ r.newOrder = s.newOrder \ Due(s, p)
    /\ r.firstNew = FirstNewLeft(s, p, 1 .. Districts)
    /\ r.order = [o \in DOMAIN s.order |->
                     IF o \in Due(s, p) THEN [s.order[o] EXCEPT !.carrier = p.carrier] ELSE s.order[o]]
    /\ r.line = [k \in DOMAIN s.line |->
                     IF k[1] \in Due(s, p) THEN [s.line[k] EXCEPT !.delivery_d = p.date] ELSE s.line[k]]
    /\ r.customer = [c \in CustomerIds |->
                     IF Receives(s, p, c)
                     THEN [s.customer[c] EXCEPT !.balance = @ + AmountOf(s, OldestNewOrder(s, p, c[2]))]
                     ELSE s.customer[c]]

(* A delivery writes so.                                                    *)
LEMMA DeliveryDoes ==
  ASSUME NEW s, Typed(s), NEW p, Delivers(p)
  PROVE  DeliveryWrites(s, p, ProcessDelivery(s, p))
<1> DEFINE ids == NoOIds(s, p)
           t == DOMAIN ids
           N == NewOrderLeft(s, p, 1 .. Districts)
           F == FirstNewLeft(s, p, 1 .. Districts)
           L == LinesAfter(s, p, ids, t)
           O == CarriersAfter(s, p, ids, t)
           r1 == DeliveryLoop1(s, p)
           r2 == DeliveryLoop2(r1, p, ids)
           sums == [d \in t |-> AmountOf(r2, <<p.w, d, ids[d]>>)]
           r3 == DeliveryLoop3(r2, p, ids)
           cs == [d \in t |-> r3.order[<<p.w, d, ids[d]>>].c]
           r4 == DeliveryLoop4(r3, p, sums, cs)
           B == BalancesAfter(s, p, sums, cs, t)
<1>1. ProcessDelivery(s, p) = r4
  BY Zenon DEF ProcessDelivery
<1>2. t = Served(s, p) /\ \A d \in t : ids[d] = s.firstNew[<<p.w, d>>]
  BY DEF NoOIds, Served
<1>3. IsFiniteSet(t)
  <2>1. IsFiniteSet(1 .. Districts)
    BY FS_Interval, TpccAssumption
  <2>2. t \subseteq 1 .. Districts
    BY <1>2 DEF Served
  <2> QED BY <2>1, <2>2, FS_Subset
<1>4. HasTables(s) /\ HasLines(s) /\ HasOrders(s) /\ HasCustomers(s)
  BY DEF Typed, HasTables, HasLines, HasOrders, HasCustomers
<1>5. \A d \in t : OldestNewOrder(s, p, d) = <<p.w, d, ids[d]>>
  BY <1>2 DEF OldestNewOrder
<1>6. OrdersOf(p, ids, t) = Due(s, p)
  BY <1>2, <1>5 DEF OrdersOf, OrderOf, Due
<1> HIDE DEF ids, t
<1>7. r1 = [s EXCEPT !.newOrder = N, !.firstNew = F]
  BY Loop1Does DEF Delivers, After1
<1> HIDE DEF N, F
<1>8. HasTables(r1) /\ r1.line = s.line
  BY <1>4, <1>7 DEF HasTables, Tables
<1> HIDE DEF r1
<1>9. r2 = [r1 EXCEPT !.line = L]
  <2>1. HasLines(r1)
    BY <1>4, <1>8 DEF HasLines
  <2>2. r2 = After2(r1, p, ids, t)
    BY <2>1, <1>3, Loop2Does DEF t
  <2>3. LinesAfter(r1, p, ids, t) = L
    BY <1>8 DEF LinesAfter
  <2> QED BY <2>2, <2>3 DEF After2
<1>10. /\ DOMAIN L = DOMAIN s.line
       /\ L = [k \in DOMAIN s.line |->
                 IF k[1] \in Due(s, p) THEN [s.line[k] EXCEPT !.delivery_d = p.date] ELSE s.line[k]]
       /\ \A k \in DOMAIN s.line : L[k].amount = s.line[k].amount
  <2>1. DOMAIN L = DOMAIN s.line
    BY DEF LinesAfter
  <2>2. L = [k \in DOMAIN s.line |->
                 IF k[1] \in Due(s, p) THEN [s.line[k] EXCEPT !.delivery_d = p.date] ELSE s.line[k]]
    BY <1>6 DEF LinesAfter
  <2>3. ASSUME NEW k \in DOMAIN s.line PROVE L[k].amount = s.line[k].amount
    <3>1. s.line[k] \in LineRows
      BY DEF Typed
    <3>2. [s.line[k] EXCEPT !.delivery_d = p.date].amount = s.line[k].amount
      BY <3>1 DEF LineRows
    <3> HIDE DEF L
    <3> QED BY <2>2, <3>2
  <2> QED BY <2>1, <2>2, <2>3
<1> HIDE DEF L
<1>11. HasTables(r2) /\ r2.line = L /\ r2.order = s.order
  BY <1>4, <1>7, <1>8, <1>9 DEF HasTables, Tables
<1>12. \A o : AmountOf(r2, o) = AmountOf(s, o)
  <2> TAKE o
  <2>1. LinesOf(r2, o) = LinesOf(s, o)
    BY <1>10, <1>11 DEF LinesOf
  <2>2. \A k \in LinesOf(s, o) : r2.line[k].amount = s.line[k].amount
    BY <1>10, <1>11 DEF LinesOf
  <2>3. [k \in LinesOf(r2, o) |-> r2.line[k].amount] = [k \in LinesOf(s, o) |-> s.line[k].amount]
    BY <2>1, <2>2
  <2> QED BY <2>3 DEF AmountOf
<1> HIDE DEF r2
<1>13. r3 = [r2 EXCEPT !.order = O]
  <2>1. HasOrders(r2)
    BY <1>4, <1>11 DEF HasOrders
  <2>2. r3 = After3(r2, p, ids, t)
    BY <2>1, <1>3, Loop3Does DEF t
  <2>3. CarriersAfter(r2, p, ids, t) = O
    BY <1>11 DEF CarriersAfter
  <2> QED BY <2>2, <2>3 DEF After3
<1>14. /\ DOMAIN O = DOMAIN s.order
       /\ O = [o \in DOMAIN s.order |->
                 IF o \in Due(s, p) THEN [s.order[o] EXCEPT !.carrier = p.carrier] ELSE s.order[o]]
       /\ \A o \in DOMAIN s.order : O[o].c = s.order[o].c
  <2>1. DOMAIN O = DOMAIN s.order
    BY DEF CarriersAfter
  <2>2. O = [o \in DOMAIN s.order |->
                 IF o \in Due(s, p) THEN [s.order[o] EXCEPT !.carrier = p.carrier] ELSE s.order[o]]
    BY <1>6 DEF CarriersAfter
  <2>3. ASSUME NEW o \in DOMAIN s.order PROVE O[o].c = s.order[o].c
    <3>1. s.order[o] \in OrderRows
      BY DEF Typed
    <3>2. [s.order[o] EXCEPT !.carrier = p.carrier].c = s.order[o].c
      BY <3>1 DEF OrderRows
    <3> HIDE DEF O
    <3> QED BY <2>2, <3>2
  <2> QED BY <2>1, <2>2, <2>3
<1> HIDE DEF O
<1>15. HasTables(r3) /\ r3.order = O /\ r3.customer = s.customer
  BY <1>4, <1>7, <1>9, <1>11, <1>13 DEF HasTables, Tables
<1> HIDE DEF r3
<1>16. DOMAIN sums = t /\ DOMAIN cs = t
  OBVIOUS
<1>17. \A d \in t : /\ sums[d] = AmountOf(s, OldestNewOrder(s, p, d))
                    /\ cs[d] = s.order[OldestNewOrder(s, p, d)].c
  <2> TAKE d \in t
  <2>1. sums[d] = AmountOf(s, OldestNewOrder(s, p, d))
    BY <1>5, <1>12
  <2>2. OldestNewOrder(s, p, d) \in DOMAIN s.order
    BY <1>2 DEF Served, HasNewOrder, Typed
  <2>3. cs[d] = s.order[OldestNewOrder(s, p, d)].c
    BY <1>5, <1>14, <1>15, <2>2
  <2> QED BY <2>1, <2>3
<1> HIDE DEF sums, cs
<1>18. r4 = [r3 EXCEPT !.customer = B]
  <2>1. HasCustomers(r3)
    BY <1>4, <1>15 DEF HasCustomers
  <2>2. r4 = After4(r3, p, sums, cs, t)
    BY <2>1, <1>3, <1>16, Loop4Does
  <2>3. BalancesAfter(r3, p, sums, cs, t) = B
    BY <1>15 DEF BalancesAfter
  <2> QED BY <2>2, <2>3 DEF After4
<1>19. B = [c \in CustomerIds |->
                IF Receives(s, p, c)
                THEN [s.customer[c] EXCEPT !.balance = @ + AmountOf(s, OldestNewOrder(s, p, c[2]))]
                ELSE s.customer[c]]
  <2>1. ASSUME NEW c \in CustomerIds
        PROVE  /\ c \in OrdersOf(p, cs, t) <=> Receives(s, p, c)
               /\ Receives(s, p, c) => sums[c[2]] = AmountOf(s, OldestNewOrder(s, p, c[2]))
    <3>1. PICK w \in 1 .. Warehouses, d \in 1 .. Districts, n \in 1 .. Customers : c = <<w, d, n>>
      BY DEF CustomerIds, OrderKeys, District
    <3>2. c \in OrdersOf(p, cs, t) <=> w = p.w /\ d \in t /\ n = cs[d]
      BY <3>1 DEF OrdersOf, OrderOf
    <3>3. Receives(s, p, c) <=> w = p.w /\ d \in t /\ n = s.order[OldestNewOrder(s, p, d)].c
      BY <3>1, <1>2 DEF Receives
    <3> QED BY <3>1, <3>2, <3>3, <1>17
  <2> QED BY <2>1 DEF BalancesAfter
<1> HIDE DEF B, r4
<1>20. r4 = [s EXCEPT !.newOrder = N, !.firstNew = F, !.line = L, !.order = O, !.customer = B]
  BY <1>4, <1>7, <1>9, <1>13, <1>18 DEF HasTables, Tables
<1>21. N = s.newOrder \ Due(s, p)
  <2>1. (1 .. Districts) \cap Served(s, p) = Served(s, p)
    BY DEF Served
  <2> QED BY <2>1 DEF N, NewOrderLeft, Due
<1>22. HasTables(r4) /\ Untouched(s, r4, {"nextOId", "dYtd", "wYtd", "stock", "history"})
  BY <1>4, <1>20 DEF HasTables, Untouched, Tables
<1>23. /\ r4.newOrder = N /\ r4.firstNew = F /\ r4.line = L /\ r4.order = O /\ r4.customer = B
  BY <1>4, <1>20 DEF HasTables, Tables
<1> QED
  BY <1>1, <1>10, <1>14, <1>19, <1>21, <1>22, <1>23 DEF DeliveryWrites, F

OrdersItems(p) == /\ <<p.w, p.d>> \in District /\ p.c \in 1 .. Customers /\ p.date \in Nat
                  /\ OrdersLines(p)

NewKey(s, p) == <<p.w, p.d, s.nextOId[<<p.w, p.d>>]>>
NewRow(p) == [c |-> p.c, ol_cnt |-> Len(p.items), entry_d |-> p.date, carrier |-> NULL_CARRIER_ID]
NewLine(p, i) == [item |-> p.items[i][1], supply |-> p.items[i][2], qty |-> Qty(p, i),
                  dist |-> DistInfo(p, i), delivery_d |-> p.date, amount |-> OlAmount(p, i)]
NewLines(s, p) == [k \in {NewKey(s, p)} \X DOMAIN p.items |-> NewLine(p, k[2])]

NewOrderWrites(s, p, r) ==
    /\ HasTables(r)
    /\ Untouched(s, r, {"dYtd", "wYtd", "firstNew", "customer", "history"})
    /\ r.nextOId = [s.nextOId EXCEPT ![<<p.w, p.d>>] = @ + 1]
    /\ r.newOrder = s.newOrder \cup {NewKey(s, p)}
    /\ r.order = Insert(s.order, NewKey(s, p), NewRow(p))
    /\ r.line = InsertRows(s.line, NewLines(s, p))
    /\ \E h : StockByLine(s, p, h) /\ r.stock = h[Len(p.items)]

(* A new order writes so.                                                   *)
LEMMA NewOrderDoes ==
  ASSUME NEW s, Typed(s), NEW p, OrdersItems(p)
  PROVE  NewOrderWrites(s, p, ProcessNewOrder(s, p))
<1> DEFINE o == NewKey(s, p)
           oId == s.nextOId[<<p.w, p.d>>]
           X == [s.nextOId EXCEPT ![<<p.w, p.d>>] = @ + 1]
           O == Insert(s.order, o, NewRow(p))
           W == s.newOrder \cup {o}
           L == InsertRows(s.line, NewLines(s, p))
           r1 == NewOrderSubTxn1(s, p)
           r2 == NewOrderSubTxn2(r1, p, oId)
           r3 == NewOrderSubTxn3(r2, p, oId)
           r4 == NewOrderLoop4(r3, p)
           dists == [i \in DOMAIN p.items |-> DistInfo(p, i)]
           amounts == [i \in DOMAIN p.items |-> OlAmount(p, i)]
           r6 == NewOrderSubTxn6(r4, p, oId, dists, amounts)
<1>1. ProcessNewOrder(s, p) = r6
  BY Zenon DEF ProcessNewOrder
<1>2. HasTables(s)
  BY DEF Typed, HasTables
<1>3. o = <<p.w, p.d, oId>>
  BY DEF NewKey
<1> HIDE DEF oId, o
<1>4. r1 = [s EXCEPT !.nextOId = X]
  BY <1>2 DEF NewOrderSubTxn1, HasTables, Tables
<1> HIDE DEF X
<1>5. HasTables(r1) /\ r1.order = s.order /\ r1.newOrder = s.newOrder
  BY <1>2, <1>4 DEF HasTables, Tables
<1> HIDE DEF r1
<1>6. r2 = [r1 EXCEPT !.order = O]
  BY <1>3, <1>5 DEF NewOrderSubTxn2, NewRow, HasTables, Tables
<1> HIDE DEF O
<1>7. HasTables(r2) /\ r2.newOrder = s.newOrder
  BY <1>5, <1>6 DEF HasTables, Tables
<1> HIDE DEF r2
<1>8. r3 = [r2 EXCEPT !.newOrder = W]
  BY <1>3, <1>7 DEF NewOrderSubTxn3, HasTables, Tables
<1> HIDE DEF W
<1>9. HasTables(r3) /\ r3.stock = s.stock /\ r3.line = s.line
  BY <1>2, <1>4, <1>5, <1>6, <1>7, <1>8 DEF HasTables, Tables
<1> HIDE DEF r3
<1>10. StockLooped(r3, p, r4)
  <2>1. HasStock(r3)
    BY <1>9 DEF HasStock, Typed
  <2> QED BY <2>1, StockLoopDoes, Zenon DEF OrdersItems
<1> HIDE DEF r4
<1>11. PICK h : StockByLine(r3, p, h) /\ r4 = [r3 EXCEPT !.stock = h[Len(p.items)]]
  BY <1>10, Zenon DEF StockLooped
<1> DEFINE S == h[Len(p.items)]
<1>12. StockByLine(s, p, h)
  BY <1>9, <1>11 DEF StockByLine
<1>13. r4 = [r3 EXCEPT !.stock = S]
  BY <1>11
<1> HIDE DEF S
<1>14. HasTables(r4) /\ r4.line = s.line
  BY <1>9, <1>13 DEF HasTables, Tables
<1>15. [k \in {<<p.w, p.d, oId>>} \X DOMAIN p.items |->
            [item |-> p.items[k[2]][1], supply |-> p.items[k[2]][2], qty |-> Qty(p, k[2]),
             dist |-> dists[k[2]], delivery_d |-> p.date, amount |-> amounts[k[2]]]]
         = NewLines(s, p)
  <2>1. ASSUME NEW k \in {o} \X DOMAIN p.items
        PROVE  [item |-> p.items[k[2]][1], supply |-> p.items[k[2]][2], qty |-> Qty(p, k[2]),
                dist |-> dists[k[2]], delivery_d |-> p.date, amount |-> amounts[k[2]]]
                 = NewLine(p, k[2])
    <3>1. dists[k[2]] = DistInfo(p, k[2]) /\ amounts[k[2]] = OlAmount(p, k[2])
      OBVIOUS
    <3> HIDE DEF dists, amounts
    <3> QED BY <3>1, Zenon DEF NewLine
  <2> HIDE DEF dists, amounts
  <2> QED BY <1>3, <2>1 DEF NewLines, o
<1> HIDE DEF dists, amounts
<1>16. r6 = [r4 EXCEPT !.line = L]
  BY <1>14, <1>15 DEF NewOrderSubTxn6, HasTables, Tables
<1> HIDE DEF L, r6
<1>17. r6 = [s EXCEPT !.nextOId = X, !.order = O, !.newOrder = W, !.stock = S, !.line = L]
  BY <1>2, <1>4, <1>6, <1>8, <1>13, <1>16 DEF HasTables, Tables
<1>18. HasTables(r6) /\ Untouched(s, r6, {"dYtd", "wYtd", "firstNew", "customer", "history"})
  BY <1>2, <1>17 DEF HasTables, Untouched, Tables
<1>19. r6.nextOId = X /\ r6.order = O /\ r6.newOrder = W /\ r6.stock = S /\ r6.line = L
  BY <1>2, <1>17 DEF HasTables, Tables
<1>20. \E g : StockByLine(s, p, g) /\ r6.stock = g[Len(p.items)]
  BY <1>12, <1>19 DEF S
<1> QED BY <1>1, <1>18, <1>19, <1>20, Zenon DEF NewOrderWrites, X, O, W, L, o

Pays(p) == /\ <<p.w, p.d>> \in District /\ <<p.cw, p.cd>> \in District
           /\ p.c \in 1 .. Customers /\ p.amount \in Nat

Payer(p) == <<p.w, p.d, p.c>>
PaymentRow(p) == [c |-> <<p.cw, p.cd, p.c>>, d |-> <<p.w, p.d>>, amount |-> p.amount]

PaymentWrites(s, p, r) ==
    /\ HasTables(r)
    /\ Untouched(s, r, {"nextOId", "firstNew", "newOrder", "order", "line", "stock"})
    /\ r.wYtd = [s.wYtd EXCEPT ![p.w] = @ + p.amount]
    /\ r.dYtd = [s.dYtd EXCEPT ![<<p.w, p.d>>] = @ + p.amount]
    /\ r.history = Append(s.history, PaymentRow(p))
    /\ r.customer = [s.customer EXCEPT ![Payer(p)] = [balance |-> @.balance - p.amount,
                                                      ytd |-> @.ytd + p.amount, cnt |-> @.cnt + 1]]

(* A payment writes so.                                                     *)
LEMMA PaymentDoes ==
  ASSUME NEW s, Typed(s), NEW p
  PROVE  PaymentWrites(s, p, ProcessPayment(s, p))
<1> DEFINE W == [s.wYtd EXCEPT ![p.w] = @ + p.amount]
           D == [s.dYtd EXCEPT ![<<p.w, p.d>>] = @ + p.amount]
           H == Append(s.history, PaymentRow(p))
           C == [s.customer EXCEPT ![Payer(p)] = [balance |-> @.balance - p.amount,
                                                  ytd |-> @.ytd + p.amount, cnt |-> @.cnt + 1]]
           r1 == PaymentSubTxn1(s, p)
           r2 == PaymentSubTxn2(r1, p)
           r3 == PaymentSubTxn3(r2, p)
           r4 == PaymentSubTxn4(r3, p)
<1>1. ProcessPayment(s, p) = r4
  BY Zenon DEF ProcessPayment
<1>2. HasTables(s)
  BY DEF Typed, HasTables
<1>3. r1 = [s EXCEPT !.wYtd = W]
  BY <1>2 DEF PaymentSubTxn1, HasTables, Tables
<1> HIDE DEF W
<1>4. HasTables(r1) /\ r1.dYtd = s.dYtd /\ r1.history = s.history /\ r1.customer = s.customer
  BY <1>2, <1>3 DEF HasTables, Tables
<1> HIDE DEF r1
<1>5. r2 = [r1 EXCEPT !.dYtd = D]
  BY <1>4 DEF PaymentSubTxn2, HasTables, Tables
<1> HIDE DEF D
<1>6. HasTables(r2) /\ r2.history = s.history /\ r2.customer = s.customer
  BY <1>4, <1>5 DEF HasTables, Tables
<1> HIDE DEF r2
<1>7. r3 = [r2 EXCEPT !.history = H]
  BY <1>6 DEF PaymentSubTxn3, PaymentRow, HasTables, Tables
<1> HIDE DEF H
<1>8. HasTables(r3) /\ r3.customer = s.customer
  BY <1>6, <1>7 DEF HasTables, Tables
<1> HIDE DEF r3
<1>9. r4 = [r3 EXCEPT !.customer = C]
  BY <1>8 DEF PaymentSubTxn4, Payer, HasTables, Tables
<1> HIDE DEF C, r4
<1>10. r4 = [s EXCEPT !.wYtd = W, !.dYtd = D, !.history = H, !.customer = C]
  BY <1>2, <1>3, <1>5, <1>7, <1>9 DEF HasTables, Tables
<1>11. /\ HasTables(r4)
       /\ Untouched(s, r4, {"nextOId", "firstNew", "newOrder", "order", "line", "stock"})
  BY <1>2, <1>10 DEF HasTables, Untouched, Tables
<1>12. r4.wYtd = W /\ r4.dYtd = D /\ r4.history = H /\ r4.customer = C
  BY <1>2, <1>10 DEF HasTables, Tables
<1> QED BY <1>1, <1>11, <1>12, Zenon DEF PaymentWrites, W, D, H, C

-----------------------------------------------------------------------------
(* Every transaction keeps the types of the rows.                          *)

(* The amount of an order is a number.                                      *)
LEMMA AmountIsNat ==
  ASSUME NEW s, Typed(s), NEW o
  PROVE  AmountOf(s, o) \in Nat
<1> DEFINE f == [k \in LinesOf(s, o) |-> s.line[k].amount]
<1>1. IsFiniteSet(LinesOf(s, o))
  BY FS_Subset DEF LinesOf, Typed
<1>2. \A k \in LinesOf(s, o) : s.line[k].amount \in Nat
  <2> TAKE k \in LinesOf(s, o)
  <2>1. s.line[k] \in LineRows
    BY DEF LinesOf, Typed
  <2> QED BY <2>1 DEF LineRows
<1>3. DOMAIN f = LinesOf(s, o) /\ \A k \in DOMAIN f : f[k] \in Nat
  BY <1>2
<1> HIDE DEF f
<1>4. SumFunction(f) \in Nat
  BY <1>1, <1>3, SumIsNat
<1> QED BY <1>4 DEF f, AmountOf

(* A delivery writes values of the columns' types.                          *)
LEMMA DeliveryTyped ==
  ASSUME NEW s, Typed(s), NEW p, Delivers(p), NEW r, DeliveryWrites(s, p, r)
  PROVE  Typed(r)
<1>1. r.firstNew \in [District -> Nat]
  BY DEF DeliveryWrites, FirstNewLeft, Typed
<1>2. DOMAIN r.order = DOMAIN s.order /\ r.order \in [DOMAIN r.order -> OrderRows]
  <2>1. ASSUME NEW o \in DOMAIN s.order
        PROVE  s.order[o] \in OrderRows /\ [s.order[o] EXCEPT !.carrier = p.carrier] \in OrderRows
    <3>1. s.order[o] \in OrderRows
      BY DEF Typed
    <3> QED BY <3>1 DEF OrderRows, Delivers
  <2> QED BY <2>1 DEF DeliveryWrites
<1>3. DOMAIN r.line = DOMAIN s.line /\ r.line \in [DOMAIN r.line -> LineRows]
  <2>1. ASSUME NEW k \in DOMAIN s.line
        PROVE  s.line[k] \in LineRows /\ [s.line[k] EXCEPT !.delivery_d = p.date] \in LineRows
    <3>1. s.line[k] \in LineRows
      BY DEF Typed
    <3> QED BY <3>1 DEF LineRows, Delivers
  <2> QED BY <2>1 DEF DeliveryWrites
<1>4. r.customer \in [CustomerIds -> CustomerRows]
  <2>1. ASSUME NEW c \in CustomerIds, NEW a \in Nat
        PROVE  s.customer[c] \in CustomerRows /\ [s.customer[c] EXCEPT !.balance = @ + a] \in CustomerRows
    <3>1. s.customer[c] \in CustomerRows
      BY DEF Typed
    <3> QED BY <3>1 DEF CustomerRows
  <2>2. \A c \in CustomerIds : AmountOf(s, OldestNewOrder(s, p, c[2])) \in Nat
    BY AmountIsNat
  <2>3. \A c \in CustomerIds : r.customer[c] \in CustomerRows
    BY <2>1, <2>2 DEF DeliveryWrites
  <2>4. r.customer = [c \in CustomerIds |-> r.customer[c]]
    BY DEF DeliveryWrites
  <2> QED BY <2>3, <2>4
<1>5. r.newOrder \subseteq DOMAIN r.order
  BY <1>2 DEF DeliveryWrites, Typed
<1>6. /\ r.nextOId = s.nextOId /\ r.dYtd = s.dYtd /\ r.wYtd = s.wYtd /\ r.stock = s.stock
      /\ r.history = s.history /\ r = [x \in Tables |-> r[x]]
  BY DEF DeliveryWrites, Untouched, HasTables
<1> QED BY <1>1, <1>2, <1>3, <1>4, <1>5, <1>6 DEF Typed

(* So does a payment.                                                       *)
LEMMA PaymentTyped ==
  ASSUME NEW s, Typed(s), NEW p, Pays(p), NEW r, PaymentWrites(s, p, r)
  PROVE  Typed(r)
<1>1. p.w \in 1 .. Warehouses /\ Payer(p) \in CustomerIds /\ <<p.cw, p.cd, p.c>> \in CustomerIds
      /\ p.amount \in Nat /\ <<p.w, p.d>> \in District
  BY DEF Pays, Payer, CustomerIds, OrderKeys, District
<1>2. r.wYtd \in [1 .. Warehouses -> Int] /\ r.dYtd \in [District -> Int]
  <2>1. /\ s.wYtd \in [1 .. Warehouses -> Int] /\ s.dYtd \in [District -> Int]
        /\ r.wYtd = [s.wYtd EXCEPT ![p.w] = @ + p.amount]
        /\ r.dYtd = [s.dYtd EXCEPT ![<<p.w, p.d>>] = @ + p.amount]
    BY DEF PaymentWrites, Typed
  <2>2. s.wYtd[p.w] + p.amount \in Int /\ s.dYtd[<<p.w, p.d>>] + p.amount \in Int
    <3>1. s.wYtd[p.w] \in Int
      BY <1>1, <2>1
    <3>2. s.dYtd[<<p.w, p.d>>] \in Int
      BY <1>1, <2>1
    <3>3. p.amount \in Int
      BY <1>1
    <3> QED BY <3>1, <3>2, <3>3
  <2> QED BY <1>1, <2>1, <2>2
<1>3. r.history \in Seq(HistoryRows)
  <2>1. PaymentRow(p) \in HistoryRows
    BY <1>1 DEF PaymentRow, HistoryRows
  <2> QED BY <2>1 DEF PaymentWrites, Typed
<1>4. r.customer \in [CustomerIds -> CustomerRows]
  <2> DEFINE c == s.customer[Payer(p)]
  <2>1. c \in CustomerRows
    BY <1>1 DEF Typed
  <2>2. [balance |-> c.balance - p.amount, ytd |-> c.ytd + p.amount, cnt |-> c.cnt + 1] \in CustomerRows
    BY <1>1, <2>1 DEF CustomerRows
  <2> QED BY <1>1, <2>2 DEF PaymentWrites, Typed
<1>5. /\ r.nextOId = s.nextOId /\ r.firstNew = s.firstNew /\ r.newOrder = s.newOrder
      /\ r.order = s.order /\ r.line = s.line /\ r.stock = s.stock /\ r = [x \in Tables |-> r[x]]
  BY DEF PaymentWrites, Untouched, HasTables
<1> QED BY <1>2, <1>3, <1>4, <1>5 DEF Typed

(* So does a new order, into lines it did not find there.                   *)
LEMMA NewOrderTyped ==
  ASSUME NEW s, Typed(s), NEW p, OrdersItems(p), NEW r, NewOrderWrites(s, p, r)
  PROVE  Typed(r)
<1> DEFINE o == NewKey(s, p)
           new == NewLines(s, p)
<1>0. <<p.w, p.d>> \in District /\ p.c \in 1 .. Customers /\ p.date \in Nat /\ OrdersLines(p)
  BY DEF OrdersItems
<1>1. s.nextOId[<<p.w, p.d>>] \in Nat /\ o \in OrderIds
  BY <1>0 DEF NewKey, OrderIds, District, Typed
<1>2. r.nextOId \in [District -> Nat]
  BY <1>0, <1>1 DEF NewOrderWrites, Typed
<1>3. /\ DOMAIN r.order = DOMAIN s.order \cup {o}
      /\ r.order \in [DOMAIN r.order -> OrderRows]
      /\ DOMAIN r.order \subseteq OrderIds /\ IsFiniteSet(DOMAIN r.order)
  <2>1. NewRow(p) \in OrderRows
    BY <1>0 DEF NewRow, OrderRows, OrdersLines, NULL_CARRIER_ID
  <2>2. DOMAIN r.order = DOMAIN s.order \cup {o}
    BY DEF NewOrderWrites, Insert, InsertRows
  <2>3. \A k \in DOMAIN r.order :
           r.order[k] = IF k \in DOMAIN s.order THEN s.order[k] ELSE NewRow(p)
    BY <2>2 DEF NewOrderWrites, Insert, InsertRows
  <2>4. \A k \in DOMAIN r.order : r.order[k] \in OrderRows
    BY <2>1, <2>3 DEF Typed
  <2>5. r.order = [k \in DOMAIN r.order |-> r.order[k]]
    BY DEF NewOrderWrites, Insert, InsertRows
  <2>6. IsFiniteSet(DOMAIN s.order \cup {o})
    BY FS_AddElement DEF Typed
  <2> QED BY <1>1, <2>2, <2>4, <2>5, <2>6 DEF Typed
<1>4. r.newOrder \subseteq DOMAIN r.order
  BY <1>3 DEF NewOrderWrites, Typed
<1>5. DOMAIN new = {o} \X (1 .. Len(p.items)) /\ \A k \in DOMAIN new : new[k] \in LineRows
  <2>1. DOMAIN p.items = 1 .. Len(p.items)
    BY <1>0 DEF OrdersLines
  <2>2. ASSUME NEW i \in 1 .. Len(p.items) PROVE NewLine(p, i) \in LineRows
    <3>1. /\ p.items[i][1] \in 1 .. Items /\ p.items[i][2] \in 1 .. Warehouses
          /\ Qty(p, i) \in 1 .. 10 /\ OlAmount(p, i) \in Nat
      BY <1>0, <2>2, LineTypes
    <3>2. Qty(p, i) \in Nat
      BY <3>1
    <3>3. DistInfo(p, i) \in Nat \X Nat \X Nat
      <4>1. p.items[i][1] \in Nat /\ p.items[i][2] \in Nat /\ p.d \in Nat
        BY <3>1, <1>0, SMTT(40) DEF District
      <4> QED BY <4>1 DEF DistInfo
    <3>4. p.date \in Int
      BY <1>0
    <3> QED BY <3>1, <3>2, <3>3, <3>4 DEF NewLine, LineRows
  <2> QED BY <2>1, <2>2 DEF NewLines
<1>6. DOMAIN r.line = DOMAIN s.line \cup DOMAIN new
      /\ \A k \in DOMAIN r.line : r.line[k] = IF k \in DOMAIN s.line THEN s.line[k] ELSE new[k]
  BY DEF NewOrderWrites, InsertRows
<1>7. r.line \in [DOMAIN r.line -> LineRows]
  <2>1. \A k \in DOMAIN r.line : r.line[k] \in LineRows
    BY <1>5, <1>6 DEF Typed
  <2>2. r.line = [k \in DOMAIN r.line |-> r.line[k]]
    BY DEF NewOrderWrites, InsertRows
  <2> QED BY <2>1, <2>2
<1>8. DOMAIN r.line \subseteq (DOMAIN r.order) \X (Nat \ {0})
  <2> HIDE DEF new, o
  <2>1. DOMAIN s.line \subseteq (DOMAIN s.order) \X (Nat \ {0})
    BY DEF Typed
  <2>2. 1 .. Len(p.items) \subseteq Nat \ {0}
    BY <1>0 DEF OrdersLines
  <2>3. {o} \X (1 .. Len(p.items)) \subseteq (DOMAIN r.order) \X (Nat \ {0})
    BY <1>3, <2>2
  <2>4. (DOMAIN s.order) \X (Nat \ {0}) \subseteq (DOMAIN r.order) \X (Nat \ {0})
    BY <1>3
  <2> QED BY <2>1, <2>3, <2>4, <1>5, <1>6
<1>9. IsFiniteSet(DOMAIN r.line)
  <2>1. Len(p.items) \in Nat
    BY <1>0 DEF OrdersLines
  <2>2. IsFiniteSet({o} \X (1 .. Len(p.items)))
    <3> HIDE DEF o
    <3>1. IsFiniteSet({o})
      BY FS_Singleton, Zenon
    <3>2. IsFiniteSet(1 .. Len(p.items))
      BY <2>1, FS_Interval
    <3> QED BY <3>1, <3>2, FS_Product
  <2>3. IsFiniteSet(DOMAIN s.line \cup DOMAIN new)
    BY <1>5, <2>2, FS_Union DEF Typed
  <2> QED BY <1>6, <2>3
<1>10. r.stock \in [Stock -> StockRows]
  <2>1. Len(p.items) \in 0 .. Len(p.items)
    BY <1>0 DEF OrdersLines
  <2> QED BY <2>1 DEF NewOrderWrites, StockByLine
<1>11. /\ r.dYtd = s.dYtd /\ r.wYtd = s.wYtd /\ r.firstNew = s.firstNew /\ r.customer = s.customer
       /\ r.history = s.history /\ r = [x \in Tables |-> r[x]]
  BY DEF NewOrderWrites, Untouched, HasTables
<1> QED BY <1>2, <1>3, <1>4, <1>7, <1>8, <1>9, <1>10, <1>11 DEF Typed

-----------------------------------------------------------------------------
(* The ids of the orders.  The order that new order adds to a district has   *)
(* the id after the last, and deliveries never overtake the new orders.     *)
IdsInRange(s) ==
    \A wd \in District : /\ s.firstNew[wd] \in Nat \ {0} /\ s.nextOId[wd] \in Nat
                         /\ s.firstNew[wd] <= s.nextOId[wd]
                         /\ Customers < s.nextOId[wd]
IdsMatch(s) == OrdersAreContiguous(s) /\ IdsInRange(s)

Key(wd, n) == <<wd[1], wd[2], n>>

(* The orders of a district are the keys that start with it.                *)
LEMMA IdsByKey ==
  ASSUME NEW s, Typed(s), NEW wd \in District, NEW n
  PROVE  /\ n \in Orders(s, wd) <=> Key(wd, n) \in DOMAIN s.order
         /\ n \in Undelivered(s, wd) <=> Key(wd, n) \in s.newOrder
<1>1. DOMAIN s.order \subseteq OrderIds /\ s.newOrder \subseteq OrderIds
  BY DEF Typed
<1>2. wd = <<wd[1], wd[2]>>
  BY DEF District
<1>3. \A o \in OrderIds : o = <<o[1], o[2], o[3]>>
  BY DEF OrderIds
<1>4. n \in Orders(s, wd) <=> Key(wd, n) \in DOMAIN s.order
  <2>1. ASSUME n \in Orders(s, wd) PROVE Key(wd, n) \in DOMAIN s.order
    <3>1. PICK o \in DOMAIN s.order : <<o[1], o[2]>> = wd /\ n = o[3]
      BY <2>1 DEF Orders
    <3> QED BY <3>1, <1>1, <1>3 DEF Key
  <2>2. ASSUME Key(wd, n) \in DOMAIN s.order PROVE n \in Orders(s, wd)
    BY <2>2, <1>2 DEF Orders, Key
  <2> QED BY <2>1, <2>2
<1>5. n \in Undelivered(s, wd) <=> Key(wd, n) \in s.newOrder
  <2>1. ASSUME n \in Undelivered(s, wd) PROVE Key(wd, n) \in s.newOrder
    <3>1. PICK o \in s.newOrder : <<o[1], o[2]>> = wd /\ n = o[3]
      BY <2>1 DEF Undelivered
    <3> QED BY <3>1, <1>1, <1>3 DEF Key
  <2>2. ASSUME Key(wd, n) \in s.newOrder PROVE n \in Undelivered(s, wd)
    BY <2>2, <1>2 DEF Undelivered, Key
  <2> QED BY <2>1, <2>2
<1> QED BY <1>4, <1>5

(* An order that is due is the oldest of its district that is not delivered. *)
LEMMA DueByKey ==
  ASSUME NEW s, Typed(s), NEW p, ForWarehouse(p), NEW wd \in District, NEW n
  PROVE  Key(wd, n) \in Due(s, p) <=>
            wd[1] = p.w /\ Key(wd, s.firstNew[wd]) \in s.newOrder /\ n = s.firstNew[wd]
<1>1. PICK w \in 1 .. Warehouses, d \in 1 .. Districts : wd = <<w, d>>
  BY DEF District
<1>2. Key(wd, n) = <<w, d, n>> /\ wd[1] = w /\ Key(wd, s.firstNew[wd]) = <<w, d, s.firstNew[<<w, d>>]>>
  BY <1>1 DEF Key
<1>3. <<w, d, n>> \in Due(s, p) <=>
         w = p.w /\ <<p.w, d, s.firstNew[<<p.w, d>>]>> \in s.newOrder /\ n = s.firstNew[<<p.w, d>>]
  <2>1. ASSUME <<w, d, n>> \in Due(s, p)
        PROVE  w = p.w /\ <<p.w, d, s.firstNew[<<p.w, d>>]>> \in s.newOrder /\ n = s.firstNew[<<p.w, d>>]
    <3>1. PICK e \in Served(s, p) : <<w, d, n>> = OldestNewOrder(s, p, e)
      BY <2>1 DEF Due
    <3> QED BY <3>1 DEF OldestNewOrder, Served, HasNewOrder
  <2>2. ASSUME w = p.w, <<p.w, d, s.firstNew[<<p.w, d>>]>> \in s.newOrder, n = s.firstNew[<<p.w, d>>]
        PROVE  <<w, d, n>> \in Due(s, p)
    <3>1. d \in Served(s, p)
      BY <2>2 DEF Served, HasNewOrder, OldestNewOrder
    <3>2. <<w, d, n>> = OldestNewOrder(s, p, d)
      BY <2>2 DEF OldestNewOrder
    <3> QED BY <3>1, <3>2 DEF Due
  <2> QED BY <2>1, <2>2
<1> QED BY <1>1, <1>2, <1>3

(* A delivery takes the oldest new order of a district and moves the first  *)
(* one on, so what is left is still a range up to the next id.              *)
LEMMA DeliveryKeepsIds ==
  ASSUME NEW s, Typed(s), IdsMatch(s), NEW p, Delivers(p), NEW r, DeliveryWrites(s, p, r)
  PROVE  IdsMatch(r)
<1>1. Typed(r)
  BY DeliveryTyped
<1>2. DOMAIN r.order = DOMAIN s.order /\ r.nextOId = s.nextOId /\ r.newOrder = s.newOrder \ Due(s, p)
  BY DEF DeliveryWrites, Untouched
<1>3. ASSUME NEW wd \in District
      PROVE  /\ Orders(r, wd) = 1 .. r.nextOId[wd] - 1
             /\ Undelivered(r, wd) = r.firstNew[wd] .. r.nextOId[wd] - 1
             /\ r.firstNew[wd] \in Nat \ {0} /\ r.nextOId[wd] \in Nat
             /\ r.firstNew[wd] <= r.nextOId[wd]
             /\ Customers < r.nextOId[wd]
  <2> DEFINE first == s.firstNew[wd]
             next == s.nextOId[wd]
  <2>1. /\ first \in Nat \ {0} /\ next \in Nat /\ first <= next /\ Customers < next
        /\ Orders(s, wd) = 1 .. next - 1 /\ Undelivered(s, wd) = first .. next - 1
    BY DEF IdsMatch, OrdersAreContiguous, IdsInRange
  <2> HIDE DEF first, next
  <2>2. \A n : n \in Orders(r, wd) <=> n \in Orders(s, wd)
    BY <1>1, <1>2, IdsByKey
  <2>3. \A n : n \in Undelivered(r, wd) <=> n \in Undelivered(s, wd) /\ Key(wd, n) \notin Due(s, p)
    BY <1>1, <1>2, IdsByKey
  <2>4. \A n : Key(wd, n) \in Due(s, p) <=>
                  wd[1] = p.w /\ Key(wd, first) \in s.newOrder /\ n = first
    BY DueByKey DEF first, Delivers
  <2>5. Key(wd, first) \in s.newOrder <=> first \in Undelivered(s, wd)
    BY IdsByKey
  <2>6. r.firstNew[wd] = IF wd[1] = p.w /\ Key(wd, first) \in s.newOrder THEN first + 1 ELSE first
    <3>1. wd = <<wd[1], wd[2]>> /\ wd[2] \in 1 .. Districts
      BY DEF District
    <3>2. wd[1] = p.w => (wd[2] \in Served(s, p) <=> Key(wd, first) \in s.newOrder)
      BY <3>1 DEF Served, HasNewOrder, OldestNewOrder, Key, first
    <3> QED BY <3>1, <3>2 DEF DeliveryWrites, FirstNewLeft, first
  <2>7. r.nextOId[wd] = next
    BY <1>2 DEF next
  <2>8. CASE wd[1] = p.w /\ Key(wd, first) \in s.newOrder
    <3>1. \A n : n \in Undelivered(r, wd) <=> n \in first + 1 .. next - 1
      BY <2>1, <2>3, <2>4, <2>8
    <3>2. first <= next - 1
      BY <2>1, <2>5, <2>8
    <3>3. r.firstNew[wd] = first + 1
      BY <2>6, <2>8
    <3>4. Undelivered(r, wd) = first + 1 .. next - 1
      BY <3>1
    <3>5. Orders(r, wd) = 1 .. r.nextOId[wd] - 1
      BY <2>1, <2>2, <2>7
    <3>6. Undelivered(r, wd) = r.firstNew[wd] .. r.nextOId[wd] - 1
      BY <2>7, <3>3, <3>4
    <3>7. first + 1 \in Nat \ {0} /\ first + 1 <= next
      BY <2>1, <3>2
    <3> QED BY <2>1, <2>7, <3>3, <3>5, <3>6, <3>7
  <2>9. CASE ~(wd[1] = p.w /\ Key(wd, first) \in s.newOrder)
    <3>1. Undelivered(r, wd) = Undelivered(s, wd) /\ Orders(r, wd) = Orders(s, wd)
      BY <2>2, <2>3, <2>4, <2>9
    <3> QED BY <2>1, <2>6, <2>7, <2>9, <3>1
  <2> QED BY <2>8, <2>9
<1> QED BY <1>3 DEF IdsMatch, OrdersAreContiguous, IdsInRange

(* A new order takes the next id, and its district's next one is one more.  *)
LEMMA NewOrderKeepsIds ==
  ASSUME NEW s, Typed(s), IdsMatch(s), NEW p, OrdersItems(p), NEW r, NewOrderWrites(s, p, r)
  PROVE  IdsMatch(r)
<1>1. Typed(r)
  BY NewOrderTyped
<1>2. DOMAIN r.order = DOMAIN s.order \cup {NewKey(s, p)} /\ r.newOrder = s.newOrder \cup {NewKey(s, p)}
      /\ r.firstNew = s.firstNew
  BY DEF NewOrderWrites, Untouched, Insert, InsertRows
<1>3. ASSUME NEW wd \in District
      PROVE  /\ Orders(r, wd) = 1 .. r.nextOId[wd] - 1
             /\ Undelivered(r, wd) = r.firstNew[wd] .. r.nextOId[wd] - 1
             /\ r.firstNew[wd] \in Nat \ {0} /\ r.nextOId[wd] \in Nat
             /\ r.firstNew[wd] <= r.nextOId[wd]
             /\ Customers < r.nextOId[wd]
  <2> DEFINE first == s.firstNew[wd]
             next == s.nextOId[wd]
  <2>1. /\ first \in Nat \ {0} /\ next \in Nat /\ first <= next /\ Customers < next
        /\ Orders(s, wd) = 1 .. next - 1 /\ Undelivered(s, wd) = first .. next - 1
    BY DEF IdsMatch, OrdersAreContiguous, IdsInRange
  <2>2. \A n : Key(wd, n) = NewKey(s, p) <=> wd = <<p.w, p.d>> /\ n = next
    <3>1. wd = <<wd[1], wd[2]>>
      BY DEF District
    <3> QED BY <3>1 DEF Key, NewKey
  <2>3. r.nextOId[wd] = IF wd = <<p.w, p.d>> THEN next + 1 ELSE next
    BY DEF NewOrderWrites, Typed
  <2> HIDE DEF first, next
  <2>4. \A n : /\ n \in Orders(r, wd) <=> n \in Orders(s, wd) \/ Key(wd, n) = NewKey(s, p)
               /\ n \in Undelivered(r, wd) <=> n \in Undelivered(s, wd) \/ Key(wd, n) = NewKey(s, p)
    BY <1>1, <1>2, IdsByKey
  <2>5. r.firstNew[wd] = first
    BY <1>2 DEF first
  <2>6. CASE wd = <<p.w, p.d>>
    <3>1. \A n : n \in Orders(r, wd) <=> n \in 1 .. next
      <4>1. next >= 1
        BY <2>1
      <4>2. \A n : n \in 1 .. next <=> n \in 1 .. next - 1 \/ n = next
        BY <2>1, <4>1
      <4> QED BY <2>1, <2>2, <2>4, <2>6, <4>2
    <3>2. \A n : n \in Undelivered(r, wd) <=> n \in first .. next
      BY <2>1, <2>2, <2>4, <2>6
    <3>3. r.nextOId[wd] = next + 1 /\ next + 1 - 1 = next
      BY <2>1, <2>3, <2>6
    <3>4. Orders(r, wd) = 1 .. next /\ Undelivered(r, wd) = first .. next
      BY <3>1, <3>2
    <3>5. Customers \in Nat
      BY TpccAssumption
    <3> QED BY <2>1, <2>5, <3>3, <3>4, <3>5
  <2>7. CASE wd # <<p.w, p.d>>
    <3>1. Orders(r, wd) = Orders(s, wd) /\ Undelivered(r, wd) = Undelivered(s, wd)
      BY <2>2, <2>4, <2>7
    <3> QED BY <2>1, <2>3, <2>5, <2>7, <3>1
  <2> QED BY <2>6, <2>7
<1> QED BY <1>3 DEF IdsMatch, OrdersAreContiguous, IdsInRange

(* A payment touches no order.                                              *)
LEMMA PaymentKeepsIds ==
  ASSUME NEW s, IdsMatch(s), NEW p, NEW r, PaymentWrites(s, p, r)
  PROVE  IdsMatch(r)
<1>1. /\ r.order = s.order /\ r.newOrder = s.newOrder /\ r.nextOId = s.nextOId
      /\ r.firstNew = s.firstNew
  BY DEF PaymentWrites, Untouched
<1>2. \A wd : Orders(r, wd) = Orders(s, wd) /\ Undelivered(r, wd) = Undelivered(s, wd)
  BY <1>1 DEF Orders, Undelivered
<1> QED BY <1>1, <1>2 DEF IdsMatch, OrdersAreContiguous, IdsInRange

-----------------------------------------------------------------------------
(* Carriers and NEW_ORDER.                                                  *)

(* A delivery serves orders that wait in NEW_ORDER.                         *)
LEMMA DueWaits ==
  ASSUME NEW s, Typed(s), NEW p
  PROVE  Due(s, p) \subseteq s.newOrder /\ Due(s, p) \subseteq DOMAIN s.order
BY DEF Due, Served, HasNewOrder, Typed

(* No order has the id a new order gets.                                    *)
LEMMA NewKeyIsNew ==
  ASSUME NEW s, Typed(s), IdsMatch(s), NEW p, OrdersItems(p)
  PROVE  NewKey(s, p) \notin DOMAIN s.order /\ NewKey(s, p)[3] > Customers
<1> DEFINE wd == <<p.w, p.d>>
           next == s.nextOId[wd]
<1>1. wd \in District /\ NewKey(s, p) = Key(wd, next)
  BY DEF OrdersItems, NewKey, Key
<1>2. Orders(s, wd) = 1 .. next - 1 /\ next \in Nat /\ Customers < next
  BY <1>1 DEF IdsMatch, OrdersAreContiguous, IdsInRange
<1> HIDE DEF wd, next
<1>3. next \notin Orders(s, wd)
  BY <1>2
<1>4. next > Customers
  BY <1>2, TpccAssumption
<1> QED BY <1>1, <1>3, <1>4, IdsByKey DEF Key

(* A delivery gives its carrier to exactly the orders it takes out of       *)
(* NEW_ORDER.                                                               *)
LEMMA DeliveryKeepsCarriers ==
  ASSUME NEW s, Typed(s), CarrierMeansDelivered(s), NEW p, Delivers(p),
         NEW r, DeliveryWrites(s, p, r)
  PROVE  CarrierMeansDelivered(r)
<1>1. DOMAIN r.order = DOMAIN s.order /\ r.newOrder = s.newOrder \ Due(s, p)
  BY DEF DeliveryWrites
<1>2. ASSUME NEW o \in DOMAIN s.order
      PROVE  o \in r.newOrder <=> r.order[o].carrier = NULL_CARRIER_ID
  <2>1. s.order[o] \in OrderRows
    BY DEF Typed
  <2>2. o \in s.newOrder <=> s.order[o].carrier = NULL_CARRIER_ID
    BY DEF CarrierMeansDelivered
  <2>3. CASE o \in Due(s, p)
    <3>1. r.order[o] = [s.order[o] EXCEPT !.carrier = p.carrier]
      BY <2>3 DEF DeliveryWrites
    <3>2. r.order[o].carrier = p.carrier
      BY <2>1, <3>1 DEF OrderRows
    <3> QED BY <1>1, <2>3, <3>2 DEF Delivers
  <2>4. CASE o \notin Due(s, p)
    <3>1. r.order[o] = s.order[o]
      BY <2>4 DEF DeliveryWrites
    <3> QED BY <1>1, <2>2, <2>4, <3>1
  <2> QED BY <2>3, <2>4
<1> QED BY <1>1, <1>2 DEF CarrierMeansDelivered

(* A new order has no carrier, and it is in NEW_ORDER.                      *)
LEMMA NewOrderKeepsCarriers ==
  ASSUME NEW s, Typed(s), IdsMatch(s), CarrierMeansDelivered(s), NEW p, OrdersItems(p),
         NEW r, NewOrderWrites(s, p, r)
  PROVE  CarrierMeansDelivered(r)
<1> DEFINE o == NewKey(s, p)
<1>1. o \notin DOMAIN s.order
  BY NewKeyIsNew
<1>2. /\ DOMAIN r.order = DOMAIN s.order \cup {o} /\ r.newOrder = s.newOrder \cup {o}
      /\ \A k \in DOMAIN s.order : r.order[k] = s.order[k]
      /\ r.order[o] = NewRow(p)
  BY <1>1 DEF NewOrderWrites, Insert, InsertRows
<1>3. NewRow(p).carrier = NULL_CARRIER_ID
  BY DEF NewRow
<1> HIDE DEF o
<1> QED BY <1>1, <1>2, <1>3 DEF CarrierMeansDelivered

(* A payment touches no order.                                              *)
LEMMA PaymentKeepsCarriers ==
  ASSUME NEW s, CarrierMeansDelivered(s), NEW p, NEW r, PaymentWrites(s, p, r)
  PROVE  CarrierMeansDelivered(r)
BY DEF PaymentWrites, Untouched, CarrierMeansDelivered

-----------------------------------------------------------------------------
(* Balances.                                                               *)

(* There are finitely many customers, and finitely many stocks.             *)
LEMMA CustomerIdsFinite == IsFiniteSet(CustomerIds) /\ IsFiniteSet(Stock)
<1> DEFINE f == [x \in District \X (1 .. Customers) |-> <<x[1][1], x[1][2], x[2]>>]
<1>1. /\ IsFiniteSet(1 .. Warehouses) /\ IsFiniteSet(1 .. Districts)
      /\ IsFiniteSet(1 .. Customers) /\ IsFiniteSet(1 .. Items)
  BY FS_Interval, TpccAssumption
<1>2. IsFiniteSet(District) /\ IsFiniteSet(Stock)
  BY <1>1, FS_Product DEF District, Stock
<1>3. IsFiniteSet(District \X (1 .. Customers))
  BY <1>1, <1>2, FS_Product
<1>4. f \in Surjection(District \X (1 .. Customers), CustomerIds)
  <2>1. f \in [District \X (1 .. Customers) -> CustomerIds]
    BY DEF CustomerIds, OrderKeys
  <2>2. ASSUME NEW c \in CustomerIds PROVE \E x \in District \X (1 .. Customers) : f[x] = c
    <3>1. PICK wd \in District, n \in 1 .. Customers : c = <<wd[1], wd[2], n>>
      BY DEF CustomerIds, OrderKeys
    <3>2. <<wd, n>> \in District \X (1 .. Customers) /\ f[<<wd, n>>] = c
      BY <3>1
    <3> QED BY <3>2
  <2> QED BY <2>1, <2>2 DEF Surjection
<1>5. IsFiniteSet(CustomerIds)
  <2> HIDE DEF f
  <2> QED BY <1>3, <1>4, FS_Surjection, Zenon
<1> QED BY <1>2, <1>5

HistorySum(s, S) == SumFunction([i \in S |-> s.history[i].amount])

(* The payments sub-transaction 4 has booked on customer c: those received  *)
(* in c's district of a customer with c's number.                           *)
BookedOn(s, c) == {i \in DOMAIN s.history :
                      s.history[i].d = <<c[1], c[2]>> /\ s.history[i].c[3] = c[3]}

Balanced(s, c) ==
    /\ s.customer[c].balance + s.customer[c].ytd =
          SumFunction([o \in DeliveredTo(s, c) |-> AmountOf(s, o)])
    /\ s.customer[c].ytd - 10 = HistorySum(s, BookedOn(s, c))

(* What all customers have paid since the population.                       *)
AllPaid(s) == [c \in CustomerIds |-> s.customer[c].ytd - 10]

BalancesHold(s) == /\ \A c \in CustomerIds : Balanced(s, c)
                   /\ SumFunction(AllPaid(s)) = HistorySum(s, DOMAIN s.history)

(* For a customer who pays at home, what is booked is what HISTORY names.   *)
LEMMA BalancesFollow ==
  ASSUME NEW s, DOMAIN s.customer = CustomerIds, BalancesHold(s)
  PROVE  BalancesAddUp(s)
<1> DEFINE paid == [c \in DOMAIN s.customer |-> s.customer[c].ytd - 10]
<1>1. ASSUME NEW c \in DOMAIN s.customer
      PROVE  /\ s.customer[c].balance + s.customer[c].ytd =
                    SumFunction([o \in DeliveredTo(s, c) |-> AmountOf(s, o)])
             /\ PaysAtHome(s, c) => paid[c] = HistorySum(s, PaidBy(s, c))
  <2>1. Balanced(s, c)
    BY DEF BalancesHold
  <2>2. ASSUME PaysAtHome(s, c) PROVE PaidBy(s, c) = BookedOn(s, c)
    BY <2>2 DEF PaysAtHome, PaidBy, BookedOn
  <2> QED BY <2>1, <2>2 DEF Balanced
<1>2. SumFunction(paid) = HistorySum(s, DOMAIN s.history)
  <2>1. paid = AllPaid(s)
    BY DEF AllPaid
  <2> HIDE DEF paid
  <2> QED BY <2>1 DEF BalancesHold
<1> QED BY <1>1, <1>2 DEF BalancesAddUp, HistorySum

(* The amounts delivered to a customer have a sum.                          *)
LEMMA DeliveredIsSummable ==
  ASSUME NEW s, Typed(s), NEW c
  PROVE  Summable([o \in DeliveredTo(s, c) |-> AmountOf(s, o)])
<1>1. IsFiniteSet(DeliveredTo(s, c))
  BY FS_Subset DEF DeliveredTo, Typed
<1>2. \A o : AmountOf(s, o) \in Int
  BY AmountIsNat
<1> QED BY <1>1, <1>2 DEF Summable

(* And so have the payments of any part of HISTORY.                         *)
LEMMA PaidIsSummable ==
  ASSUME NEW s, Typed(s), NEW S, S \subseteq DOMAIN s.history
  PROVE  Summable([i \in S |-> s.history[i].amount])
<1>1. IsFiniteSet(S)
  <2>1. DOMAIN s.history = 1 .. Len(s.history) /\ Len(s.history) \in Nat
    BY DEF Typed
  <2>2. IsFiniteSet(DOMAIN s.history)
    BY <2>1, FS_Interval
  <2> QED BY <2>2, FS_Subset
<1>2. \A i \in S : s.history[i].amount \in Int
  <2> TAKE i \in S
  <2>1. s.history \in Seq(HistoryRows) /\ i \in DOMAIN s.history
    BY DEF Typed
  <2>2. i \in 1 .. Len(s.history)
    BY <2>1
  <2>3. s.history[i] \in HistoryRows
    BY <2>1, <2>2
  <2> QED BY <2>3 DEF HistoryRows
<1> QED BY <1>1, <1>2 DEF Summable

(* The amount of an order depends on its lines alone.                       *)
SameLinesOf(s, r, o) == /\ LinesOf(r, o) = LinesOf(s, o)
                        /\ \A k \in LinesOf(s, o) : r.line[k].amount = s.line[k].amount

(* Orders with the same lines have the same amount.                         *)
LEMMA SameAmount ==
  ASSUME NEW s, NEW r, NEW o, SameLinesOf(s, r, o)
  PROVE  AmountOf(r, o) = AmountOf(s, o)
<1>1. [k \in LinesOf(r, o) |-> r.line[k].amount] = [k \in LinesOf(s, o) |-> s.line[k].amount]
  BY DEF SameLinesOf
<1> QED BY <1>1 DEF AmountOf

(* A delivery adds to a customer's balance what it adds to the orders       *)
(* delivered to it, and nothing else.                                       *)
LEMMA DeliveryKeepsBalances ==
  ASSUME NEW s, Typed(s), CarrierMeansDelivered(s), BalancesHold(s), NEW p, Delivers(p),
         NEW r, DeliveryWrites(s, p, r)
  PROVE  BalancesHold(r)
<1>1. Typed(r)
  BY DeliveryTyped
<1>2. DOMAIN s.customer = CustomerIds /\ DOMAIN r.customer = CustomerIds
  BY <1>1 DEF Typed
<1>3. ASSUME NEW o PROVE AmountOf(r, o) = AmountOf(s, o)
  <2>1. LinesOf(r, o) = LinesOf(s, o)
    BY DEF DeliveryWrites, LinesOf
  <2>2. ASSUME NEW k \in LinesOf(s, o) PROVE r.line[k].amount = s.line[k].amount
    <3>1. k \in DOMAIN s.line /\ s.line[k] \in LineRows
      BY DEF LinesOf, Typed
    <3>2. [s.line[k] EXCEPT !.delivery_d = p.date].amount = s.line[k].amount
      BY <3>1 DEF LineRows
    <3>3. r.line[k] = s.line[k] \/ r.line[k] = [s.line[k] EXCEPT !.delivery_d = p.date]
      BY <3>1 DEF DeliveryWrites
    <3> QED BY <3>2, <3>3
  <2> QED BY <2>1, <2>2, SameAmount DEF SameLinesOf
<1>4. \A c \in CustomerIds : r.customer[c].ytd = s.customer[c].ytd
  <2> TAKE c \in CustomerIds
  <2>1. s.customer[c] \in CustomerRows
    BY DEF Typed
  <2>2. \A a : [s.customer[c] EXCEPT !.balance = a].ytd = s.customer[c].ytd
    BY <2>1 DEF CustomerRows
  <2> QED BY <2>2 DEF DeliveryWrites
<1>5. ASSUME NEW o \in DOMAIN s.order
      PROVE  /\ r.order[o].c = s.order[o].c
             /\ r.order[o].carrier # NULL_CARRIER_ID <=>
                   s.order[o].carrier # NULL_CARRIER_ID \/ o \in Due(s, p)
             /\ o \in Due(s, p) => s.order[o].carrier = NULL_CARRIER_ID
  <2>1. s.order[o] \in OrderRows
    BY DEF Typed
  <2>2. CASE o \in Due(s, p)
    <3>1. r.order[o] = [s.order[o] EXCEPT !.carrier = p.carrier]
      BY <2>2 DEF DeliveryWrites
    <3>2. r.order[o].carrier = p.carrier /\ r.order[o].c = s.order[o].c
      BY <2>1, <3>1 DEF OrderRows
    <3>3. o \in s.newOrder
      BY <2>2, DueWaits
    <3>4. s.order[o].carrier = NULL_CARRIER_ID
      BY <3>3 DEF CarrierMeansDelivered
    <3> QED BY <2>2, <3>2, <3>4 DEF Delivers
  <2>3. CASE o \notin Due(s, p)
    BY <2>3 DEF DeliveryWrites
  <2> QED BY <2>2, <2>3
<1>6. DOMAIN r.order = DOMAIN s.order
  BY DEF DeliveryWrites
<1>7. ASSUME NEW c \in CustomerIds PROVE Balanced(r, c)
  <2> DEFINE f == [o \in DeliveredTo(s, c) |-> AmountOf(s, o)]
             g == [o \in DeliveredTo(r, c) |-> AmountOf(r, o)]
             F == SumFunction(f)
             x == OldestNewOrder(s, p, c[2])
  <2>1. s.customer[c].balance + s.customer[c].ytd = F
    BY DEF BalancesHold, Balanced
  <2>2. Summable(f)
    BY DeliveredIsSummable
  <2>3. F \in Int
    BY <2>2, SumIsInt
  <2>4. s.customer[c].balance \in Int /\ s.customer[c].ytd \in Int
    BY DEF Typed, CustomerRows
  <2>5. \A o \in DOMAIN s.order :
           o \in Due(s, p) /\ <<o[1], o[2], s.order[o].c>> = c <=> Receives(s, p, c) /\ o = x
    <3> TAKE o \in DOMAIN s.order
    <3>1. PICK w \in 1 .. Warehouses, d \in 1 .. Districts, n \in 1 .. Customers : c = <<w, d, n>>
      BY DEF CustomerIds, OrderKeys, District
    <3>2. ASSUME o \in Due(s, p), <<o[1], o[2], s.order[o].c>> = c
          PROVE  Receives(s, p, c) /\ o = x
      <4>1. PICK e \in Served(s, p) : o = OldestNewOrder(s, p, e)
        BY <3>2 DEF Due
      <4>2. o[1] = p.w /\ o[2] = e
        BY <4>1 DEF OldestNewOrder
      <4>3. c[2] = e /\ c[1] = p.w /\ c[3] = s.order[o].c
        BY <3>1, <3>2, <4>2
      <4> QED BY <4>1, <4>3 DEF Receives
    <3>3. ASSUME Receives(s, p, c), o = x
          PROVE  o \in Due(s, p) /\ <<o[1], o[2], s.order[o].c>> = c
      <4>1. o \in Due(s, p)
        BY <3>3 DEF Receives, Due
      <4>2. o[1] = w /\ o[2] = d /\ s.order[o].c = n
        BY <3>1, <3>3 DEF Receives, OldestNewOrder
      <4> QED BY <3>1, <4>1, <4>2
    <3> QED BY <3>2, <3>3
  <2>6. \A o : o \in DeliveredTo(r, c) <=>
                  o \in DeliveredTo(s, c) \/ (Receives(s, p, c) /\ o = x)
    <3>1. Receives(s, p, c) => x \in DOMAIN s.order
      BY DueWaits DEF Receives, Due
    <3>2. ASSUME NEW o, o \in DOMAIN s.order
          PROVE  o \in DeliveredTo(r, c) <=> o \in DeliveredTo(s, c) \/ (Receives(s, p, c) /\ o = x)
      <4>1. o \in DeliveredTo(r, c) <=> /\ <<o[1], o[2], s.order[o].c>> = c
                                        /\ s.order[o].carrier # NULL_CARRIER_ID \/ o \in Due(s, p)
        BY <1>5, <1>6, <3>2 DEF DeliveredTo
      <4>2. o \in DeliveredTo(s, c) <=> /\ <<o[1], o[2], s.order[o].c>> = c
                                        /\ s.order[o].carrier # NULL_CARRIER_ID
        BY <3>2 DEF DeliveredTo
      <4> QED BY <4>1, <4>2, <2>5, <3>2
    <3>3. \A o : o \in DeliveredTo(r, c) \/ o \in DeliveredTo(s, c) => o \in DOMAIN s.order
      BY <1>6 DEF DeliveredTo
    <3> QED BY <3>1, <3>2, <3>3
  <2>7. r.customer[c].balance = IF Receives(s, p, c) THEN s.customer[c].balance + AmountOf(s, x)
                                                     ELSE s.customer[c].balance
    <3>1. s.customer[c] \in CustomerRows
      BY DEF Typed
    <3>2. \A a : [s.customer[c] EXCEPT !.balance = @ + a].balance = s.customer[c].balance + a
      BY <3>1 DEF CustomerRows
    <3> QED BY <3>2 DEF DeliveryWrites
  <2>8. r.customer[c].ytd - 10 = HistorySum(r, BookedOn(r, c))
    <3>1. r.history = s.history
      BY DEF DeliveryWrites, Untouched
    <3>2. HistorySum(r, BookedOn(r, c)) = HistorySum(s, BookedOn(s, c))
      BY <3>1 DEF HistorySum, BookedOn
    <3> QED BY <3>2, <1>4 DEF BalancesHold, Balanced
  <2>9. CASE Receives(s, p, c)
    <3>1. x \notin DeliveredTo(s, c)
      BY <1>5, <2>5, <2>9 DEF DeliveredTo
    <3>2. DeliveredTo(r, c) = DeliveredTo(s, c) \cup {x}
      BY <2>6, <2>9
    <3>3. DOMAIN f = DeliveredTo(s, c) /\ DOMAIN g = DOMAIN f \cup {x}
      BY <3>2
    <3>4. (\A y \in DOMAIN f : g[y] = f[y]) /\ g[x] = AmountOf(s, x)
      BY <1>3, <3>2
    <3>5. AmountOf(s, x) \in Int
      BY AmountIsNat
    <3> DEFINE a == AmountOf(s, x)
    <3> HIDE DEF f, g, x, a
    <3>6. SumFunction(g) = SumFunction(f) + g[x]
      BY <2>2, <3>1, <3>3, <3>4, <3>5, SumWith
    <3>7. SumFunction(g) = F + a
      BY <3>4, <3>6 DEF a
    <3>8. r.customer[c].balance = s.customer[c].balance + a
      BY <2>7, <2>9 DEF a
    <3>9. a \in Int
      BY <3>5 DEF a
    <3> HIDE DEF F
    <3>10. r.customer[c].balance + r.customer[c].ytd = F + a
      BY <2>1, <2>3, <2>4, <1>4, <3>8, <3>9
    <3> QED BY <2>8, <3>7, <3>10 DEF Balanced, g
  <2>10. CASE ~Receives(s, p, c)
    <3>1. DeliveredTo(r, c) = DeliveredTo(s, c)
      BY <2>6, <2>10
    <3>2. g = f
      BY <1>3, <3>1
    <3>3. r.customer[c].balance + r.customer[c].ytd = F
      BY <2>1, <2>7, <2>10, <1>4
    <3> QED BY <2>8, <3>2, <3>3 DEF Balanced
  <2> QED BY <2>9, <2>10
<1>8. SumFunction(AllPaid(r)) = HistorySum(r, DOMAIN r.history)
  <2>1. r.history = s.history
    BY DEF DeliveryWrites, Untouched
  <2>2. AllPaid(r) = AllPaid(s)
    BY <1>4 DEF AllPaid
  <2> QED BY <2>1, <2>2 DEF BalancesHold, HistorySum
<1> QED BY <1>7, <1>8 DEF BalancesHold

(* An order that is not delivered counts for no balance.                    *)
LEMMA NewOrderKeepsBalances ==
  ASSUME NEW s, Typed(s), IdsMatch(s), BalancesHold(s), NEW p, OrdersItems(p),
         NEW r, NewOrderWrites(s, p, r)
  PROVE  BalancesHold(r)
<1> DEFINE x == NewKey(s, p)
           new == NewLines(s, p)
<1>1. x \notin DOMAIN s.order
  BY NewKeyIsNew
<1>2. r.customer = s.customer /\ r.history = s.history /\ DOMAIN s.customer = CustomerIds
  BY DEF NewOrderWrites, Untouched, Typed
<1>3. /\ DOMAIN r.order = DOMAIN s.order \cup {x} /\ r.order[x] = NewRow(p)
      /\ \A o \in DOMAIN s.order : r.order[o] = s.order[o]
  BY <1>1 DEF NewOrderWrites, Insert, InsertRows
<1>4. NewRow(p).carrier = NULL_CARRIER_ID
  BY DEF NewRow
<1>5. /\ DOMAIN r.line = DOMAIN s.line \cup DOMAIN new
      /\ \A k \in DOMAIN s.line : r.line[k] = s.line[k]
      /\ \A k \in DOMAIN new : k[1] = x
  BY DEF NewOrderWrites, InsertRows, NewLines
<1> HIDE DEF x, new
<1>6. ASSUME NEW o \in DOMAIN s.order PROVE AmountOf(r, o) = AmountOf(s, o)
  <2>1. LinesOf(r, o) = LinesOf(s, o)
    BY <1>1, <1>5 DEF LinesOf
  <2>2. \A k \in LinesOf(s, o) : r.line[k] = s.line[k]
    BY <1>5 DEF LinesOf
  <2> QED BY <2>1, <2>2, SameAmount DEF SameLinesOf
<1>7. \A c : DeliveredTo(r, c) = DeliveredTo(s, c) /\ DeliveredTo(s, c) \subseteq DOMAIN s.order
  BY <1>1, <1>3, <1>4 DEF DeliveredTo
<1>8. ASSUME NEW c \in CustomerIds PROVE Balanced(r, c)
  <2>1. [o \in DeliveredTo(r, c) |-> AmountOf(r, o)] = [o \in DeliveredTo(s, c) |-> AmountOf(s, o)]
    BY <1>6, <1>7
  <2>2. HistorySum(r, BookedOn(r, c)) = HistorySum(s, BookedOn(s, c))
    BY <1>2 DEF BookedOn, HistorySum
  <2>3. Balanced(s, c)
    BY DEF BalancesHold
  <2> QED BY <1>2, <2>1, <2>2, <2>3 DEF Balanced
<1>9. SumFunction(AllPaid(r)) = HistorySum(r, DOMAIN r.history)
  <2>1. AllPaid(r) = AllPaid(s)
    BY <1>2 DEF AllPaid
  <2> QED BY <1>2, <2>1 DEF BalancesHold, HistorySum
<1> QED BY <1>8, <1>9 DEF BalancesHold

(* The payment is one more row of HISTORY.                                  *)
LEMMA OnePaymentMore ==
  ASSUME NEW s, Typed(s), NEW p, NEW r, PaymentWrites(s, p, r)
  PROVE  LET n == Len(s.history) + 1
         IN  /\ n \notin DOMAIN s.history /\ DOMAIN r.history = DOMAIN s.history \cup {n}
             /\ \A i \in DOMAIN s.history : r.history[i] = s.history[i]
             /\ r.history[n] = PaymentRow(p)
<1>1. s.history \in Seq(HistoryRows) /\ r.history = Append(s.history, PaymentRow(p))
  BY DEF Typed, PaymentWrites
<1>2. /\ DOMAIN s.history = 1 .. Len(s.history) /\ Len(s.history) \in Nat
      /\ DOMAIN r.history = 1 .. Len(s.history) + 1
  BY <1>1
<1>3. /\ \A i \in 1 .. Len(s.history) : r.history[i] = s.history[i]
      /\ r.history[Len(s.history) + 1] = PaymentRow(p)
  BY <1>1, <1>2
<1> QED BY <1>2, <1>3

(* What a sum over HISTORY becomes, if the payment counts and if not: it is  *)
(* the last row of HISTORY.                                                 *)
LEMMA HistorySums ==
  ASSUME NEW s, Typed(s), NEW p, Pays(p), NEW r, PaymentWrites(s, p, r),
         NEW S \in SUBSET DOMAIN s.history
  PROVE  /\ HistorySum(s, S) \in Int
         /\ HistorySum(r, S) = HistorySum(s, S)
         /\ HistorySum(r, S \cup {Len(s.history) + 1}) = HistorySum(s, S) + p.amount
<1> DEFINE n == Len(s.history) + 1
           f == [i \in S |-> s.history[i].amount]
           g == [i \in S \cup {n} |-> r.history[i].amount]
<1>1. /\ n \notin DOMAIN s.history /\ r.history[n] = PaymentRow(p)
      /\ \A i \in DOMAIN s.history : r.history[i] = s.history[i]
  BY OnePaymentMore
<1> HIDE DEF n
<1>2. Summable(f)
  BY PaidIsSummable
<1>3. [i \in S |-> r.history[i].amount] = f
  BY <1>1
<1>4. g[n] = p.amount /\ p.amount \in Int
  BY <1>1 DEF PaymentRow, Pays
<1>5. DOMAIN f = S /\ DOMAIN g = S \cup {n} /\ \A i \in S : g[i] = f[i]
  BY <1>1
<1>6. n \notin S
  BY <1>1
<1> HIDE DEF f, g
<1>7. SumFunction(g) = SumFunction(f) + g[n]
  BY <1>2, <1>4, <1>5, <1>6, SumWith
<1>8. SumFunction(f) \in Int
  BY <1>2, SumIsInt
<1> QED BY <1>3, <1>4, <1>7, <1>8 DEF HistorySum, f, g, n

(* A payment takes its amount from the balance of the customer with that    *)
(* number in the district paid to, and adds it to what he has paid.         *)
LEMMA PaymentKeepsBalances ==
  ASSUME NEW s, Typed(s), BalancesHold(s), NEW p, Pays(p), NEW r, PaymentWrites(s, p, r)
  PROVE  BalancesHold(r)
<1> DEFINE n == Len(s.history) + 1
<1>1. DOMAIN s.customer = CustomerIds /\ DOMAIN r.customer = CustomerIds
  BY PaymentTyped DEF Typed
<1>2. r.order = s.order /\ r.line = s.line
  BY DEF PaymentWrites, Untouched
<1>3. \A o : AmountOf(r, o) = AmountOf(s, o)
  BY <1>2 DEF AmountOf, LinesOf
<1>4. \A c : [o \in DeliveredTo(r, c) |-> AmountOf(r, o)] = [o \in DeliveredTo(s, c) |-> AmountOf(s, o)]
  BY <1>2, <1>3 DEF DeliveredTo
<1>5. /\ n \notin DOMAIN s.history /\ DOMAIN r.history = DOMAIN s.history \cup {n}
      /\ \A i \in DOMAIN s.history : r.history[i] = s.history[i]
      /\ r.history[n] = PaymentRow(p)
  BY OnePaymentMore
<1> HIDE DEF n
<1>6. ASSUME NEW c \in CustomerIds PROVE Balanced(r, c)
  <2> DEFINE F == SumFunction([o \in DeliveredTo(s, c) |-> AmountOf(s, o)])
             P == HistorySum(s, BookedOn(s, c))
  <2>1. s.customer[c].balance + s.customer[c].ytd = F /\ s.customer[c].ytd - 10 = P
    BY DEF BalancesHold, Balanced
  <2>2. s.customer[c].balance \in Int /\ s.customer[c].ytd \in Int
    BY DEF Typed, CustomerRows
  <2>3. BookedOn(s, c) \in SUBSET DOMAIN s.history
    BY DEF BookedOn
  <2>4. /\ P \in Int /\ HistorySum(r, BookedOn(s, c)) = P
        /\ HistorySum(r, BookedOn(s, c) \cup {n}) = P + p.amount
    BY <2>3, HistorySums DEF n
  <2>5. BookedOn(r, c) = IF c = Payer(p) THEN BookedOn(s, c) \cup {n} ELSE BookedOn(s, c)
    <3>1. c = <<c[1], c[2], c[3]>>
      BY DEF CustomerIds, OrderKeys, District
    <3>2. PaymentRow(p).d = <<p.w, p.d>> /\ PaymentRow(p).c[3] = p.c
      BY DEF PaymentRow
    <3>3. c = Payer(p) <=> PaymentRow(p).d = <<c[1], c[2]>> /\ PaymentRow(p).c[3] = c[3]
      BY <3>1, <3>2 DEF Payer
    <3>4. \A i : i \in BookedOn(r, c) <=> i \in BookedOn(s, c) \/ (i = n /\ c = Payer(p))
      BY <1>5, <3>3 DEF BookedOn
    <3> QED BY <3>4
  <2>6. Balanced(r, c) <=> /\ r.customer[c].balance + r.customer[c].ytd = F
                           /\ r.customer[c].ytd - 10 = HistorySum(r, BookedOn(r, c))
    BY <1>4 DEF Balanced
  <2> HIDE DEF F, P
  <2>7. CASE c = Payer(p)
    <3>1. /\ r.customer[c].balance = s.customer[c].balance - p.amount
          /\ r.customer[c].ytd = s.customer[c].ytd + p.amount
      BY <1>1, <2>7 DEF PaymentWrites
    <3>2. HistorySum(r, BookedOn(r, c)) = P + p.amount
      BY <2>4, <2>5, <2>7
    <3>3. p.amount \in Int
      BY DEF Pays
    <3> QED BY <2>1, <2>2, <2>4, <2>6, <3>1, <3>2, <3>3
  <2>8. CASE c # Payer(p)
    <3>1. r.customer[c] = s.customer[c]
      BY <1>1, <2>8 DEF PaymentWrites
    <3> QED BY <2>1, <2>4, <2>5, <2>6, <2>8, <3>1
  <2> QED BY <2>7, <2>8
<1>7. SumFunction(AllPaid(r)) = HistorySum(r, DOMAIN r.history)
  <2> DEFINE f == AllPaid(s)
             g == AllPaid(r)
             x == Payer(p)
             D == DOMAIN s.history
  <2>1. x \in CustomerIds /\ p.amount \in Int
    BY DEF Pays, Payer, CustomerIds, OrderKeys
  <2>2. DOMAIN f = CustomerIds /\ DOMAIN g = CustomerIds
    BY DEF AllPaid
  <2>3. \A c \in CustomerIds : f[c] = s.customer[c].ytd - 10 /\ g[c] = r.customer[c].ytd - 10
    BY DEF AllPaid
  <2>4. \A c \in CustomerIds : s.customer[c].ytd \in Int
    BY DEF Typed, CustomerRows
  <2>5. \A c \in CustomerIds \ {x} : r.customer[c] = s.customer[c]
    BY <1>1 DEF PaymentWrites
  <2>6. r.customer[x].ytd = s.customer[x].ytd + p.amount
    BY <1>1, <2>1 DEF PaymentWrites
  <2> HIDE DEF f, g, x
  <2>7. Summable(f)
    BY <2>2, <2>3, <2>4, CustomerIdsFinite DEF Summable
  <2>8. g[x] = f[x] + p.amount /\ f[x] \in Int /\ g[x] \in Int
    BY <2>1, <2>3, <2>4, <2>6
  <2>9. \A c \in DOMAIN f \ {x} : g[c] = f[c]
    BY <2>2, <2>3, <2>5
  <2>10. SumFunction(g) = SumFunction(f) - f[x] + g[x]
    BY <2>1, <2>2, <2>7, <2>8, <2>9, SumChanged
  <2>11. SumFunction(f) \in Int
    BY <2>7, SumIsInt
  <2>12. SumFunction(g) = SumFunction(f) + p.amount
    BY <2>1, <2>8, <2>10, <2>11
  <2>13. HistorySum(r, D \cup {n}) = HistorySum(s, D) + p.amount
    BY HistorySums DEF n
  <2>14. SumFunction(f) = HistorySum(s, D)
    BY DEF f, BalancesHold
  <2> QED BY <1>5, <2>12, <2>13, <2>14 DEF g
<1> QED BY <1>6, <1>7 DEF BalancesHold

-----------------------------------------------------------------------------
(* Payments.                                                               *)

(* Deliveries and new orders touch none of it.                              *)
LEMMA OthersKeepPayments ==
  ASSUME NEW s, PaymentsAddUp(s), NEW r, Untouched(s, r, {"wYtd", "dYtd", "history"})
  PROVE  PaymentsAddUp(r)
BY DEF Untouched, PaymentsAddUp, PaidIn

(* What the districts of a warehouse have received.                         *)
Received(s, w) == SumFunction([d \in 1 .. Districts |-> s.dYtd[<<w, d>>] - INITIAL_D_YTD])

(* The sums the populator writes are numbers.                              *)
LEMMA InitialSums == INITIAL_W_YTD \in Int /\ INITIAL_D_YTD \in Int
BY SMT DEF INITIAL_W_YTD, INITIAL_D_YTD

(* A payment adds its amount to its warehouse, to its district and to       *)
(* HISTORY.                                                                 *)
LEMMA PaymentKeepsPayments ==
  ASSUME NEW s, Typed(s), PaymentsAddUp(s), NEW p, Pays(p), NEW r, PaymentWrites(s, p, r)
  PROVE  PaymentsAddUp(r)
<1> DEFINE n == Len(s.history) + 1
           pd == <<p.w, p.d>>
<1>1. Typed(r)
  BY PaymentTyped
<1>2. /\ n \notin DOMAIN s.history /\ DOMAIN r.history = DOMAIN s.history \cup {n}
      /\ \A i \in DOMAIN s.history : r.history[i] = s.history[i]
      /\ r.history[n].d = pd
  <2>1. /\ n \notin DOMAIN s.history /\ DOMAIN r.history = DOMAIN s.history \cup {n}
        /\ \A i \in DOMAIN s.history : r.history[i] = s.history[i]
        /\ r.history[n] = PaymentRow(p)
    BY OnePaymentMore
  <2>2. PaymentRow(p).d = pd
    BY DEF PaymentRow
  <2> QED BY <2>1, <2>2
<1> HIDE DEF n
<1>3. p.w \in 1 .. Warehouses /\ p.d \in 1 .. Districts /\ p.amount \in Int /\ pd \in District
  BY DEF Pays, District
<1>4. \A wd \in District : r.dYtd[wd] = IF wd = pd THEN s.dYtd[wd] + p.amount ELSE s.dYtd[wd]
  <2>1. DOMAIN s.dYtd = District /\ r.dYtd = [s.dYtd EXCEPT ![pd] = @ + p.amount]
    BY DEF PaymentWrites, Typed
  <2> HIDE DEF pd
  <2> QED BY <1>3, <2>1
<1>5. \A w \in 1 .. Warehouses : r.wYtd[w] = IF w = p.w THEN s.wYtd[w] + p.amount ELSE s.wYtd[w]
  BY ZenonT(60) DEF PaymentWrites, Typed
<1>6. ASSUME NEW wd \in District
      PROVE  r.dYtd[wd] - INITIAL_D_YTD = HistorySum(r, PaidIn(r, wd))
  <2>1. PaidIn(s, wd) \in SUBSET DOMAIN s.history
    BY DEF PaidIn
  <2>2. /\ HistorySum(s, PaidIn(s, wd)) \in Int
        /\ HistorySum(r, PaidIn(s, wd)) = HistorySum(s, PaidIn(s, wd))
        /\ HistorySum(r, PaidIn(s, wd) \cup {n}) = HistorySum(s, PaidIn(s, wd)) + p.amount
    BY <2>1, HistorySums DEF n
  <2>3. PaidIn(r, wd) = IF wd = pd THEN PaidIn(s, wd) \cup {n} ELSE PaidIn(s, wd)
    <3>1. \A i : i \in PaidIn(r, wd) <=> i \in PaidIn(s, wd) \/ (i = n /\ wd = pd)
      BY <1>2 DEF PaidIn
    <3> QED BY <3>1
  <2>4. s.dYtd[wd] - INITIAL_D_YTD = HistorySum(s, PaidIn(s, wd))
    BY DEF PaymentsAddUp, HistorySum
  <2>5. s.dYtd[wd] \in Int /\ INITIAL_D_YTD \in Int
    BY InitialSums DEF Typed
  <2> QED BY <1>3, <1>4, <2>2, <2>3, <2>4, <2>5
<1>7. ASSUME NEW w \in 1 .. Warehouses
      PROVE  r.wYtd[w] - INITIAL_W_YTD = Received(r, w)
  <2> DEFINE f == [d \in 1 .. Districts |-> s.dYtd[<<w, d>>] - INITIAL_D_YTD]
             g == [d \in 1 .. Districts |-> r.dYtd[<<w, d>>] - INITIAL_D_YTD]
  <2>1. s.wYtd[w] - INITIAL_W_YTD = SumFunction(f)
    BY DEF PaymentsAddUp
  <2>2. \A d \in 1 .. Districts : <<w, d>> \in District /\ s.dYtd[<<w, d>>] \in Int
                                 /\ r.dYtd[<<w, d>>] \in Int
    BY <1>1 DEF District, Typed
  <2>3. Summable(f)
    <3>1. \A d \in 1 .. Districts : f[d] \in Int
      BY <2>2, InitialSums
    <3>2. DOMAIN f = 1 .. Districts
      OBVIOUS
    <3>3. IsFiniteSet(1 .. Districts)
      BY FS_Interval, TpccAssumption
    <3> HIDE DEF f
    <3> QED BY <3>1, <3>2, <3>3 DEF Summable
  <2>4. Received(r, w) = SumFunction(g)
    BY DEF Received
  <2>5. \A d \in 1 .. Districts :
           /\ f[d] \in Int /\ g[d] \in Int
           /\ g[d] = IF w = p.w /\ d = p.d THEN f[d] + p.amount ELSE f[d]
    <3> TAKE d \in 1 .. Districts
    <3>1. r.dYtd[<<w, d>>] = IF w = p.w /\ d = p.d THEN s.dYtd[<<w, d>>] + p.amount
                                                  ELSE s.dYtd[<<w, d>>]
      BY <1>4, <2>2
    <3> QED BY <1>3, <2>2, <3>1, InitialSums
  <2>6. DOMAIN f = 1 .. Districts /\ DOMAIN g = 1 .. Districts
    OBVIOUS
  <2>7. s.wYtd[w] \in Int /\ INITIAL_W_YTD \in Int
    BY InitialSums DEF Typed
  <2> HIDE DEF f, g
  <2>8. SumFunction(f) \in Int
    BY <2>3, SumIsInt
  <2>9. CASE w = p.w
    <3> DEFINE e == p.d
    <3>0. e \in 1 .. Districts /\ g[e] = f[e] + p.amount /\ f[e] \in Int
      BY <1>3, <2>5, <2>9
    <3>1. e \in DOMAIN f /\ g[e] \in Int /\ \A y \in DOMAIN f \ {e} : g[y] = f[y]
      BY <2>5, <2>6, <3>0
    <3> HIDE DEF e
    <3>2. SumFunction(g) = SumFunction(f) - f[e] + g[e]
      BY <2>3, <2>6, <3>1, SumChanged
    <3>3. SumFunction(g) = SumFunction(f) + p.amount
      BY <1>3, <2>8, <3>0, <3>2
    <3>4. r.wYtd[w] = s.wYtd[w] + p.amount
      BY <1>5, <2>9
    <3> QED BY <1>3, <2>1, <2>4, <2>7, <2>8, <3>3, <3>4
  <2>10. CASE w # p.w
    <3>1. \A d \in 1 .. Districts : g[d] = f[d]
      BY <2>5, <2>10
    <3>2. \A d \in 1 .. Districts : r.dYtd[<<w, d>>] = s.dYtd[<<w, d>>]
      BY <1>4, <2>2, <2>10
    <3>3. g = f
      BY <3>2 DEF f, g
    <3> QED BY <1>5, <2>1, <2>4, <2>10, <3>3
  <2> QED BY <2>9, <2>10
<1> QED BY <1>6, <1>7 DEF PaymentsAddUp, HistorySum, Received

-----------------------------------------------------------------------------
(* Stock.  Counted: a row counts the lines S.                               *)
QtySum(s, S) == SumFunction([k \in S |-> s.line[k].qty])
Remote(S, st) == {k \in S : k[1][1] # st[1]}
Counted(s, row, S, st) == /\ IsFiniteSet(S)
                          /\ row.ytd = QtySum(s, S)
                          /\ row.cnt = Cardinality(S)
                          /\ row.remote = Cardinality(Remote(S, st))
                          /\ row.qty \in 10 .. 100

(* The condition is one of each row of STOCK.                               *)
LEMMA StockIs ==
  ASSUME NEW s, Typed(s)
  PROVE  StockAddsUp(s) <=> \A st \in Stock : Counted(s, s.stock[st], Sold(s, st), st)
<1>1. \A st : IsFiniteSet(Sold(s, st))
  BY FS_Subset DEF Sold, Typed
<1> QED BY <1>1 DEF StockAddsUp, Counted, QtySum, Remote

(* The quantities of any lines have a sum.                                  *)
LEMMA QtyIsSummable ==
  ASSUME NEW s, Typed(s), NEW S \in SUBSET DOMAIN s.line, IsFiniteSet(S)
  PROVE  Summable([k \in S |-> s.line[k].qty])
<1>1. \A k \in S : s.line[k].qty \in Int
  <2> TAKE k \in S
  <2>1. s.line[k] \in LineRows
    BY DEF Typed
  <2> QED BY <2>1 DEF LineRows
<1> QED BY <1>1 DEF Summable

(* Rows count the same lines whatever happens to other columns.              *)
LEMMA CountedStays ==
  ASSUME NEW s, NEW r, NEW row, NEW S, NEW st, Counted(s, row, S, st),
         \A k \in S : r.line[k].qty = s.line[k].qty
  PROVE  Counted(r, row, S, st)
<1>1. [k \in S |-> r.line[k].qty] = [k \in S |-> s.line[k].qty]
  OBVIOUS
<1> QED BY <1>1 DEF Counted, QtySum

(* A line more: its quantity is at most 10, so that what is left in stock,    *)
(* or what 91 more leave, is never below 10.                                *)
LineCounts(s, p, i, k, st) == /\ s.line[k].qty = Qty(p, i) /\ Qty(p, i) \in 1 .. MAX_OL_QUANTITY
                              /\ k[1][1] = p.w /\ p.items[i][2] = st[1]

(* Taking the line from the row keeps the row in step with the lines.       *)
LEMMA CountedOneMore ==
  ASSUME NEW s, Typed(s), NEW S \in SUBSET DOMAIN s.line, NEW st, NEW row \in StockRows,
         Counted(s, row, S, st), NEW k \in DOMAIN s.line \ S, NEW p, NEW i,
         LineCounts(s, p, i, k, st)
  PROVE  Counted(s, Taken(row, p, i), S \cup {k}, st)
<1> DEFINE t == Taken(row, p, i)
           q == Qty(p, i)
<1>0. q \in 1 .. 10 /\ row.qty \in 10 .. 100 /\ row.ytd \in Int /\ row.cnt \in Int /\ row.remote \in Int
  BY DEF LineCounts, MAX_OL_QUANTITY, Counted, StockRows
<1>1. /\ t.qty = Restocked(row.qty, q) /\ t.ytd = row.ytd + q /\ t.cnt = row.cnt + 1
      /\ t.remote = IF p.items[i][2] # p.w THEN row.remote + 1 ELSE row.remote
  BY DEF Taken
<1> HIDE DEF t, q
<1>2. IsFiniteSet(S) /\ IsFiniteSet(S \cup {k}) /\ Cardinality(S \cup {k}) = Cardinality(S) + 1
  BY FS_AddElement DEF Counted
<1>3. t.qty \in 10 .. 100
  BY <1>0, <1>1 DEF Restocked
<1>4. QtySum(s, S \cup {k}) = QtySum(s, S) + q
  <2> DEFINE f == [x \in S |-> s.line[x].qty]
             g == [x \in S \cup {k} |-> s.line[x].qty]
  <2>1. Summable(f)
    BY <1>2, QtyIsSummable
  <2>2. /\ DOMAIN f = S /\ DOMAIN g = S \cup {k} /\ g[k] = s.line[k].qty
        /\ \A x \in S : g[x] = f[x]
    OBVIOUS
  <2>3. g[k] = q
    BY <2>2 DEF LineCounts, q
  <2> HIDE DEF f, g
  <2>4. g[k] \in Int
    BY <1>0, <2>3
  <2>5. SumFunction(g) = SumFunction(f) + g[k]
    BY <2>1, <2>2, <2>4, SumWith
  <2> QED BY <2>3, <2>5 DEF QtySum, f, g
<1>5. Cardinality(Remote(S \cup {k}, st)) = IF p.items[i][2] # p.w THEN Cardinality(Remote(S, st)) + 1
                                                               ELSE Cardinality(Remote(S, st))
  <2>1. IsFiniteSet(Remote(S, st)) /\ k \notin Remote(S, st)
    BY <1>2, FS_Subset DEF Remote
  <2>2. CASE p.items[i][2] # p.w
    <3>1. Remote(S \cup {k}, st) = Remote(S, st) \cup {k}
      BY <2>2 DEF Remote, LineCounts
    <3> QED BY <2>1, <2>2, <3>1, FS_AddElement
  <2>3. CASE p.items[i][2] = p.w
    <3>1. Remote(S \cup {k}, st) = Remote(S, st)
      BY <2>3 DEF Remote, LineCounts
    <3> QED BY <2>3, <3>1
  <2> QED BY <2>2, <2>3
<1>6. /\ row.ytd = QtySum(s, S) /\ row.cnt = Cardinality(S)
      /\ row.remote = Cardinality(Remote(S, st))
  BY DEF Counted
<1>7. t.ytd = QtySum(s, S \cup {k}) /\ t.cnt = Cardinality(S \cup {k})
  BY <1>1, <1>2, <1>4, <1>6
<1>8. t.remote = Cardinality(Remote(S \cup {k}, st))
  BY <1>1, <1>5, <1>6
<1> QED BY <1>2, <1>3, <1>7, <1>8 DEF Counted, t

(* A delivery writes no column of a line that the stock's condition reads.  *)
LEMMA DeliveryKeepsStock ==
  ASSUME NEW s, Typed(s), StockAddsUp(s), NEW p, Delivers(p), NEW r, DeliveryWrites(s, p, r)
  PROVE  StockAddsUp(r)
<1>1. Typed(r) /\ r.stock = s.stock /\ DOMAIN r.line = DOMAIN s.line
  BY DeliveryTyped DEF DeliveryWrites, Untouched
<1>2. ASSUME NEW k \in DOMAIN s.line
      PROVE  /\ r.line[k].qty = s.line[k].qty /\ r.line[k].item = s.line[k].item
             /\ r.line[k].supply = s.line[k].supply
  <2> DEFINE row == [s.line[k] EXCEPT !.delivery_d = p.date]
  <2>1. s.line[k] \in LineRows
    BY DEF Typed
  <2>2. /\ row.qty = s.line[k].qty /\ row.item = s.line[k].item /\ row.supply = s.line[k].supply
    BY <2>1 DEF LineRows
  <2>3. r.line[k] = s.line[k] \/ r.line[k] = row
    BY DEF DeliveryWrites
  <2> HIDE DEF row
  <2> QED BY <2>2, <2>3
<1>3. \A st : Sold(r, st) = Sold(s, st) /\ Sold(s, st) \subseteq DOMAIN s.line
  BY <1>1, <1>2 DEF Sold
<1>4. ASSUME NEW st \in Stock PROVE Counted(r, r.stock[st], Sold(r, st), st)
  <2>1. Counted(s, s.stock[st], Sold(s, st), st)
    BY StockIs
  <2>2. \A k \in Sold(s, st) : r.line[k].qty = s.line[k].qty
    BY <1>2, <1>3
  <2> QED BY <1>1, <1>3, <2>1, <2>2, CountedStays
<1> QED BY <1>1, <1>4, StockIs

(* A payment writes neither lines nor stock.                                *)
LEMMA PaymentKeepsStock ==
  ASSUME NEW s, StockAddsUp(s), NEW p, NEW r, PaymentWrites(s, p, r)
  PROVE  StockAddsUp(r)
<1>1. r.stock = s.stock /\ r.line = s.line
  BY DEF PaymentWrites, Untouched
<1>2. \A st : Sold(r, st) = Sold(s, st)
  BY <1>1 DEF Sold
<1> QED BY <1>1, <1>2 DEF StockAddsUp

(* The lines sold once i lines of the order are booked.                     *)
SoldUpto(s, p, i, st) ==
    Sold(s, st) \cup {<<NewKey(s, p), j>> : j \in {n \in 1 .. i : StockOf(p, n) = st}}

(* A new order's lines are new, and the loop over the stock takes each of   *)
(* them once.                                                               *)
LEMMA NewOrderKeepsStock ==
  ASSUME NEW s, Typed(s), IdsMatch(s), StockAddsUp(s), NEW p, OrdersItems(p),
         NEW r, NewOrderWrites(s, p, r)
  PROVE  StockAddsUp(r)
<1> DEFINE x == NewKey(s, p)
           n == Len(p.items)
<1>1. Typed(r)
  BY NewOrderTyped
<1>2. x \notin DOMAIN s.order /\ x[3] > Customers /\ x[1] = p.w
  BY NewKeyIsNew DEF NewKey
<1>3. n \in Nat /\ DOMAIN p.items = 1 .. n /\ OrdersLines(p)
  BY DEF OrdersItems, OrdersLines
<1>4. \A k \in DOMAIN s.line : k[1] # x
  BY <1>2 DEF Typed
<1> HIDE DEF x
<1>5. /\ DOMAIN r.line = DOMAIN s.line \cup ({x} \X (1 .. n))
      /\ \A k \in DOMAIN s.line : r.line[k] = s.line[k]
      /\ \A j \in 1 .. n : r.line[<<x, j>>] = NewLine(p, j)
  <2>1. DOMAIN NewLines(s, p) = {x} \X (1 .. n) /\ \A j \in 1 .. n : NewLines(s, p)[<<x, j>>] = NewLine(p, j)
    BY <1>3 DEF NewLines, x
  <2>2. r.line = InsertRows(s.line, NewLines(s, p))
    BY DEF NewOrderWrites
  <2> HIDE DEF n
  <2>3. \A j \in 1 .. n : <<x, j>> \in {x} \X (1 .. n) /\ <<x, j>> \notin DOMAIN s.line
    BY <1>4
  <2> QED BY <2>1, <2>2, <2>3 DEF InsertRows
<1>6. PICK h : StockByLine(s, p, h) /\ r.stock = h[n]
  BY DEF NewOrderWrites
<1>7. ASSUME NEW st \in Stock PROVE Counted(r, r.stock[st], Sold(r, st), st)
  <2> DEFINE Good == {i \in Nat : i <= n => Counted(r, h[i][st], SoldUpto(s, p, i, st), st)}
  <2>1. \A i \in 0 .. n : h[i] \in [Stock -> StockRows]
    BY <1>6 DEF StockByLine
  <2>2. \A i \in 1 .. n : h[i] = TakenFrom(h[i - 1], p, i)
    BY <1>6 DEF StockByLine
  <2>3. 0 \in Good
    <3>1. SoldUpto(s, p, 0, st) = Sold(s, st)
      BY DEF SoldUpto
    <3>2. h[0] = s.stock
      BY <1>6 DEF StockByLine
    <3>3. Counted(s, s.stock[st], Sold(s, st), st)
      BY StockIs
    <3>4. \A k \in Sold(s, st) : r.line[k].qty = s.line[k].qty
      BY <1>5 DEF Sold
    <3>5. Counted(r, s.stock[st], Sold(s, st), st)
      BY <3>3, <3>4, CountedStays
    <3> QED BY <3>1, <3>2, <3>5
  <2>4. ASSUME NEW i \in Nat, i \in Good PROVE i + 1 \in Good
    <3> SUFFICES ASSUME i + 1 <= n
                 PROVE  Counted(r, h[i + 1][st], SoldUpto(s, p, i + 1, st), st)
      OBVIOUS
    <3> DEFINE m == i + 1
               row == h[i][st]
               S == SoldUpto(s, p, i, st)
               k == <<x, m>>
    <3>1. m \in 1 .. n /\ m - 1 = i /\ i \in 0 .. n /\ 1 .. m = (1 .. i) \cup {m} /\ m \notin 1 .. i
      BY <1>3
    <3>2. Counted(r, row, S, st)
      <4>1. i <= n
        BY <3>1
      <4> HIDE DEF n
      <4> QED BY <2>4, <4>1
    <3>3. h[m] = TakenFrom(h[i], p, m) /\ row \in StockRows /\ h[i] \in [Stock -> StockRows]
      <4>1. h[m] = TakenFrom(h[m - 1], p, m)
        BY <2>2, <3>1
      <4>2. h[i] \in [Stock -> StockRows]
        BY <2>1, <3>1
      <4> QED BY <3>1, <4>1, <4>2
    <3> HIDE DEF m, Good
    <3>4. SoldUpto(s, p, m, st) = IF StockOf(p, m) = st THEN S \cup {k} ELSE S
      <4> HIDE DEF k
      <4>1. {<<x, j>> : j \in {l \in 1 .. m : StockOf(p, l) = st}}
              = {<<x, j>> : j \in {l \in 1 .. i : StockOf(p, l) = st}}
                  \cup (IF StockOf(p, m) = st THEN {<<x, m>>} ELSE {})
        BY <3>1
      <4> QED BY <4>1 DEF SoldUpto, x, k
    <3>5. S \in SUBSET DOMAIN r.line /\ k \in DOMAIN r.line \ S
      <4>1. S \subseteq DOMAIN r.line
        <5>1. Sold(s, st) \subseteq DOMAIN s.line
          BY DEF Sold
        <5>2. \A j \in 1 .. i : j \in 1 .. n
          BY <3>1
        <5>3. \A j \in 1 .. i : <<x, j>> \in DOMAIN r.line
          BY <1>5, <5>2
        <5> QED BY <1>5, <5>1, <5>3 DEF SoldUpto, x
      <4>2. k \in DOMAIN r.line
        BY <1>5, <3>1
      <4>3. k \notin Sold(s, st)
        BY <1>4 DEF Sold
      <4>4. \A j \in 1 .. i : <<x, j>> # k
        BY <3>1
      <4>5. k \notin S
        BY <4>3, <4>4 DEF SoldUpto, x
      <4> QED BY <4>1, <4>2, <4>5
    <3> HIDE DEF S, k, row
    <3>6. CASE StockOf(p, m) = st
      <4>1. h[m][st] = Taken(row, p, m)
        BY <3>3, <3>6 DEF TakenFrom, row
      <4>2. LineCounts(r, p, m, k, st)
        <5>1. Qty(p, m) \in 1 .. 10
          BY <1>3, <3>1, LineTypes
        <5>2. r.line[k] = NewLine(p, m)
          BY <1>5, <3>1 DEF k
        <5>3. NewLine(p, m).qty = Qty(p, m)
          BY DEF NewLine
        <5>4. p.items[m][2] = st[1]
          BY <3>6 DEF StockOf
        <5>5. k[1][1] = p.w
          BY <1>2 DEF k
        <5> QED BY <5>1, <5>2, <5>3, <5>4, <5>5 DEF LineCounts, MAX_OL_QUANTITY
      <4>3. Counted(r, Taken(row, p, m), S \cup {k}, st)
        BY <1>1, <3>2, <3>3, <3>5, <4>2, CountedOneMore
      <4> QED BY <3>4, <3>6, <4>1, <4>3 DEF m
    <3>7. CASE StockOf(p, m) # st
      <4>1. h[m][st] = row
        BY <3>3, <3>7 DEF TakenFrom, row
      <4> QED BY <3>2, <3>4, <3>7, <4>1 DEF m
    <3> QED BY <3>6, <3>7
  <2>5. n \in Good
    <3> HIDE DEF Good
    <3> QED BY <1>3, <2>3, <2>4, Induction
  <2>6. Sold(r, st) = SoldUpto(s, p, n, st)
    <3>1. ASSUME NEW k \in Sold(r, st) PROVE k \in SoldUpto(s, p, n, st)
      <4>1. k \in DOMAIN r.line /\ <<r.line[k].supply, r.line[k].item>> = st /\ k[1][3] > Customers
        BY DEF Sold
      <4>2. CASE k \in DOMAIN s.line
        BY <1>5, <4>1, <4>2 DEF Sold, SoldUpto
      <4>3. CASE k \in {x} \X (1 .. n)
        <5>1. PICK j \in 1 .. n : k = <<x, j>>
          BY <4>3
        <5>2. r.line[k] = NewLine(p, j)
          BY <1>5, <5>1
        <5>3. NewLine(p, j).supply = p.items[j][2] /\ NewLine(p, j).item = p.items[j][1]
          BY DEF NewLine
        <5>4. StockOf(p, j) = st
          BY <4>1, <5>2, <5>3 DEF StockOf
        <5> HIDE DEF n
        <5> QED BY <5>1, <5>4 DEF SoldUpto, x
      <4> QED BY <1>5, <4>1, <4>2, <4>3
    <3>2. ASSUME NEW k \in SoldUpto(s, p, n, st) PROVE k \in Sold(r, st)
      <4>1. CASE k \in Sold(s, st)
        BY <1>5, <4>1 DEF Sold
      <4>2. CASE k \notin Sold(s, st)
        <5>1. PICK j \in 1 .. n : k = <<x, j>> /\ StockOf(p, j) = st
          BY <4>2 DEF SoldUpto, x
        <5>2. r.line[k] = NewLine(p, j) /\ k \in DOMAIN r.line
          BY <1>5, <5>1
        <5>3. NewLine(p, j).supply = p.items[j][2] /\ NewLine(p, j).item = p.items[j][1]
          BY DEF NewLine
        <5>4. k[1][3] > Customers
          BY <1>2, <5>1
        <5> QED BY <5>1, <5>2, <5>3, <5>4 DEF Sold, StockOf
      <4> QED BY <4>1, <4>2
    <3> QED BY <3>1, <3>2
  <2>7. Counted(r, h[n][st], SoldUpto(s, p, n, st), st)
    BY <2>5, <1>3
  <2> QED BY <1>6, <2>6, <2>7
<1> QED BY <1>1, <1>7, StockIs

-----------------------------------------------------------------------------
(* What holds of a database between two transactions.                       *)
Consistent(s) == /\ Typed(s)
                 /\ IdsMatch(s)
                 /\ CarrierMeansDelivered(s)
                 /\ BalancesHold(s)
                 /\ PaymentsAddUp(s)
                 /\ StockAddsUp(s)

(* The parts of a customer's id.                                            *)
LEMMA CustomerIdIs ==
  ASSUME NEW c \in CustomerIds
  PROVE  /\ c = <<c[1], c[2], c[3]>> /\ c[1] \in 1 .. Warehouses /\ c[2] \in 1 .. Districts
         /\ c[3] \in 1 .. Customers
BY DEF CustomerIds, OrderKeys, District

(* The populator gives the orders of a district the ids of its customers.   *)
LEMMA KeyIsId ==
  ASSUME NEW wd \in District, NEW n
  PROVE  Key(wd, n) \in CustomerIds <=> n \in 1 .. Customers
<1>1. n \in 1 .. Customers => Key(wd, n) \in CustomerIds
  BY DEF Key, CustomerIds, OrderKeys
<1>2. Key(wd, n) \in CustomerIds => n \in 1 .. Customers
  BY CustomerIdIs DEF Key
<1> QED BY <1>1, <1>2

(* What the populator writes, table by table.                               *)
LEMMA PopulatedIs ==
  /\ HasTables(Populated)
  /\ Populated.nextOId = [wd \in District |-> Customers + 1]
  /\ Populated.dYtd = [wd \in District |-> INITIAL_D_YTD]
  /\ Populated.wYtd = [w \in 1 .. Warehouses |-> INITIAL_W_YTD]
  /\ Populated.firstNew = [wd \in District |-> InitialNewOrderId]
  /\ Populated.newOrder = {k \in CustomerIds : IsNew(k)}
  /\ Populated.order = [k \in CustomerIds |-> OrderRow(k)]
  /\ Populated.line = [k \in CustomerIds \X (1 .. InitialLines) |-> OrderLineRow(k[1])]
  /\ Populated.stock = [k \in Stock |-> StockRow]
  /\ Populated.customer = [k \in CustomerIds |-> CustomerRow]
  /\ Populated.history = <<>>
BY DEF Populated, HasTables, Tables, CustomerIds

(* The first new order of a district is one of its orders, or the next one. *)
LEMMA InitialId == InitialNewOrderId \in 1 .. Customers + 1 /\ Customers \in Nat \ {0}
BY TpccAssumption DEF InitialNewOrderId

(* The populator writes values of the columns' types.                       *)
LEMMA PopulatedTyped == Typed(Populated)
<1> DEFINE s == Populated
<1>1. s = [x \in Tables |-> s[x]]
  BY PopulatedIs DEF HasTables
<1>2. s.nextOId \in [District -> Nat] /\ s.firstNew \in [District -> Nat]
  BY PopulatedIs, InitialId
<1>3. s.dYtd \in [District -> Int] /\ s.wYtd \in [1 .. Warehouses -> Int]
  BY PopulatedIs, InitialSums
<1>4. /\ DOMAIN s.order = CustomerIds /\ s.order \in [DOMAIN s.order -> OrderRows]
      /\ s.newOrder \subseteq DOMAIN s.order
  <2>1. ASSUME NEW k \in CustomerIds PROVE OrderRow(k) \in OrderRows
    <3>1. k[3] \in 1 .. Customers /\ InitialLines \in Nat
      BY CustomerIdIs, TpccAssumption
    <3> QED BY <3>1 DEF OrderRow, OrderRows, NULL_CARRIER_ID, SomeCarrier, SomeDate
  <2> QED BY <2>1, PopulatedIs
<1>5. CustomerIds \subseteq OrderIds /\ IsFiniteSet(CustomerIds)
  <2>1. ASSUME NEW c \in CustomerIds PROVE c \in OrderIds
    BY CustomerIdIs DEF OrderIds
  <2> QED BY <2>1, CustomerIdsFinite
<1>6. DOMAIN s.line = CustomerIds \X (1 .. InitialLines) /\ s.line \in [DOMAIN s.line -> LineRows]
  <2>1. ASSUME NEW k \in CustomerIds PROVE OrderLineRow(k) \in LineRows
    <3>1. k[1] \in 1 .. Warehouses /\ InitialAmount \in Nat /\ 1 \in 1 .. Items
      BY CustomerIdIs, TpccAssumption
    <3> QED BY <3>1 DEF OrderLineRow, LineRows, NoDist, SomeDate
  <2>2. \A k \in CustomerIds \X (1 .. InitialLines) : OrderLineRow(k[1]) \in LineRows
    BY <2>1
  <2> QED BY <2>2, PopulatedIs
<1>7. DOMAIN s.line \subseteq (DOMAIN s.order) \X (Nat \ {0}) /\ IsFiniteSet(DOMAIN s.line)
  <2>1. 1 .. InitialLines \subseteq Nat \ {0} /\ IsFiniteSet(1 .. InitialLines)
    <3>1. InitialLines \in Int
      BY TpccAssumption
    <3>2. IsFiniteSet(1 .. InitialLines)
      BY <3>1, FS_Interval
    <3>3. 1 .. InitialLines \subseteq Nat \ {0}
      BY <3>1
    <3> QED BY <3>2, <3>3
  <2>2. IsFiniteSet(CustomerIds \X (1 .. InitialLines))
    BY <1>5, <2>1, FS_Product
  <2>3. CustomerIds \X (1 .. InitialLines) \subseteq CustomerIds \X (Nat \ {0})
    BY <2>1
  <2> QED BY <1>4, <1>6, <2>2, <2>3
<1>8. s.stock \in [Stock -> StockRows]
  <2>1. StockRow \in StockRows
    BY TpccAssumption DEF StockRow, StockRows
  <2> QED BY <2>1, PopulatedIs
<1>9. s.customer \in [CustomerIds -> CustomerRows]
  <2>1. CustomerRow \in CustomerRows
    BY DEF CustomerRow, CustomerRows
  <2> QED BY <2>1, PopulatedIs
<1>10. s.history \in Seq(HistoryRows)
  BY PopulatedIs
<1> HIDE DEF s
<1>11. Typed(s)
  BY <1>1, <1>2, <1>3, <1>4, <1>5, <1>6, <1>7, <1>8, <1>9, <1>10 DEF Typed
<1> QED BY <1>11 DEF s

(* The populated database meets every condition.                            *)
LEMMA PopulatedConsistent == Consistent(Populated)
<1> DEFINE s == Populated
<1>1. Typed(s)
  BY PopulatedTyped
<1>2. /\ s.nextOId = [wd \in District |-> Customers + 1]
      /\ s.dYtd = [wd \in District |-> INITIAL_D_YTD]
      /\ s.wYtd = [w \in 1 .. Warehouses |-> INITIAL_W_YTD]
      /\ s.firstNew = [wd \in District |-> InitialNewOrderId]
      /\ s.newOrder = {k \in CustomerIds : IsNew(k)}
      /\ s.order = [k \in CustomerIds |-> OrderRow(k)]
      /\ s.line = [k \in CustomerIds \X (1 .. InitialLines) |-> OrderLineRow(k[1])]
      /\ s.stock = [k \in Stock |-> StockRow]
      /\ s.customer = [k \in CustomerIds |-> CustomerRow]
      /\ s.history = <<>>
  BY PopulatedIs
<1> HIDE DEF s
<1>3. IdsMatch(s)
  <2>1. ASSUME NEW wd \in District
        PROVE  /\ Orders(s, wd) = 1 .. s.nextOId[wd] - 1
               /\ Undelivered(s, wd) = s.firstNew[wd] .. s.nextOId[wd] - 1
    <3>1. \A n : n \in Orders(s, wd) <=> n \in 1 .. Customers
      BY <1>1, <1>2, IdsByKey, KeyIsId
    <3>2. \A n : n \in Undelivered(s, wd) <=> n \in 1 .. Customers /\ n >= InitialNewOrderId
      <4>1. \A n : IsNew(Key(wd, n)) <=> n >= InitialNewOrderId
        BY DEF IsNew, Key
      <4> QED BY <1>1, <1>2, <4>1, IdsByKey, KeyIsId
    <3>3. s.nextOId[wd] - 1 = Customers /\ s.firstNew[wd] = InitialNewOrderId
      BY <1>2, InitialId
    <3>4. \A n : n \in 1 .. Customers /\ n >= InitialNewOrderId <=> n \in InitialNewOrderId .. Customers
      BY InitialId
    <3>5. Orders(s, wd) = 1 .. Customers
      BY <3>1
    <3>6. Undelivered(s, wd) = InitialNewOrderId .. Customers
      BY <3>2, <3>4
    <3> QED BY <3>3, <3>5, <3>6
  <2>2. IdsInRange(s)
    BY <1>2, InitialId DEF IdsInRange
  <2> QED BY <2>1, <2>2 DEF IdsMatch, OrdersAreContiguous
<1>4. CarrierMeansDelivered(s)
  <2>1. \A k \in CustomerIds : OrderRow(k).carrier = NULL_CARRIER_ID <=> IsNew(k)
    BY DEF OrderRow, NULL_CARRIER_ID, SomeCarrier
  <2> QED BY <1>2, <2>1 DEF CarrierMeansDelivered
<1>5. BalancesHold(s)
  <2>1. ASSUME NEW c \in CustomerIds PROVE Balanced(s, c)
    <3>1. ASSUME NEW o \in DeliveredTo(s, c) PROVE AmountOf(s, o) = 0
      <4> DEFINE f == [k \in LinesOf(s, o) |-> s.line[k].amount]
      <4>1. o \in CustomerIds /\ ~IsNew(o)
        BY <1>2 DEF DeliveredTo, OrderRow
      <4>2. IsFiniteSet(LinesOf(s, o))
        BY <1>1, FS_Subset DEF LinesOf, Typed
      <4>3. \A k \in LinesOf(s, o) : s.line[k].amount = 0
        <5> TAKE k \in LinesOf(s, o)
        <5>1. k \in CustomerIds \X (1 .. InitialLines) /\ k[1] = o
          BY <1>2 DEF LinesOf
        <5>2. s.line[k] = OrderLineRow(o)
          BY <1>2, <5>1
        <5> QED BY <4>1, <5>2 DEF OrderLineRow
      <4>4. DOMAIN f = LinesOf(s, o) /\ \A k \in DOMAIN f : f[k] = 0
        BY <4>3
      <4> HIDE DEF f
      <4>5. SumFunction(f) = 0
        BY <4>2, <4>4, SumOfZeros
      <4> QED BY <4>5 DEF f, AmountOf
    <3>2. SumFunction([o \in DeliveredTo(s, c) |-> AmountOf(s, o)]) = 0
      <4> DEFINE f == [o \in DeliveredTo(s, c) |-> AmountOf(s, o)]
      <4>1. IsFiniteSet(DeliveredTo(s, c))
        BY <1>1, FS_Subset DEF DeliveredTo, Typed
      <4>2. DOMAIN f = DeliveredTo(s, c) /\ \A o \in DOMAIN f : f[o] = 0
        BY <3>1
      <4> HIDE DEF f
      <4>3. SumFunction(f) = 0
        BY <4>1, <4>2, SumOfZeros
      <4> QED BY <4>3 DEF f
    <3>3. HistorySum(s, BookedOn(s, c)) = 0
      <4> DEFINE f == [i \in BookedOn(s, c) |-> s.history[i].amount]
      <4>1. BookedOn(s, c) = {}
        BY <1>2 DEF BookedOn
      <4>2. DOMAIN f = {}
        BY <4>1
      <4> HIDE DEF f
      <4>3. SumFunction(f) = 0
        BY <4>2, FS_EmptySet, SumOfZeros
      <4> QED BY <4>3 DEF f, HistorySum
    <3>4. s.customer[c].balance = -10 /\ s.customer[c].ytd = 10
      BY <1>2 DEF CustomerRow
    <3> QED BY <3>2, <3>3, <3>4 DEF Balanced
  <2>2. SumFunction(AllPaid(s)) = 0
    <3> DEFINE f == AllPaid(s)
    <3>1. DOMAIN f = CustomerIds /\ \A c \in DOMAIN f : f[c] = 0
      BY <1>2 DEF AllPaid, CustomerRow
    <3> HIDE DEF f
    <3>2. SumFunction(f) = 0
      BY <3>1, CustomerIdsFinite, SumOfZeros
    <3> QED BY <3>2 DEF f
  <2>3. HistorySum(s, DOMAIN s.history) = 0
    <3> DEFINE f == [i \in DOMAIN s.history |-> s.history[i].amount]
    <3>1. DOMAIN f = {}
      BY <1>2
    <3> HIDE DEF f
    <3>2. SumFunction(f) = 0
      BY <3>1, FS_EmptySet, SumOfZeros
    <3> QED BY <3>2 DEF f, HistorySum
  <2> QED BY <2>1, <2>2, <2>3 DEF BalancesHold
<1>6. PaymentsAddUp(s)
  <2>1. ASSUME NEW w \in 1 .. Warehouses
        PROVE  s.wYtd[w] - INITIAL_W_YTD = Received(s, w)
    <3> DEFINE f == [d \in 1 .. Districts |-> s.dYtd[<<w, d>>] - INITIAL_D_YTD]
    <3>1. \A d \in 1 .. Districts : s.dYtd[<<w, d>>] - INITIAL_D_YTD = 0
      <4> TAKE d \in 1 .. Districts
      <4>1. s.dYtd[<<w, d>>] = INITIAL_D_YTD
        BY <1>2 DEF District
      <4> QED BY <4>1, InitialSums
    <3>2. DOMAIN f = 1 .. Districts /\ \A d \in DOMAIN f : f[d] = 0
      BY <3>1
    <3>3. IsFiniteSet(1 .. Districts)
      BY FS_Interval, TpccAssumption
    <3> HIDE DEF f
    <3>4. SumFunction(f) = 0
      BY <3>2, <3>3, SumOfZeros
    <3>5. s.wYtd[w] - INITIAL_W_YTD = 0
      BY <1>2, InitialSums
    <3> QED BY <3>4, <3>5 DEF f, Received
  <2>2. ASSUME NEW wd \in District
        PROVE  s.dYtd[wd] - INITIAL_D_YTD = HistorySum(s, PaidIn(s, wd))
    <3> DEFINE f == [i \in PaidIn(s, wd) |-> s.history[i].amount]
    <3>1. PaidIn(s, wd) = {}
      BY <1>2 DEF PaidIn
    <3>2. DOMAIN f = {}
      BY <3>1
    <3> HIDE DEF f
    <3>3. SumFunction(f) = 0
      BY <3>2, FS_EmptySet, SumOfZeros
    <3>4. s.dYtd[wd] - INITIAL_D_YTD = 0
      BY <1>2, InitialSums
    <3> QED BY <3>3, <3>4 DEF f, HistorySum
  <2> QED BY <2>1, <2>2 DEF PaymentsAddUp, Received, HistorySum
<1>7. StockAddsUp(s)
  <2>1. ASSUME NEW st \in Stock PROVE Counted(s, s.stock[st], Sold(s, st), st)
    <3>1. Sold(s, st) = {}
      <4>1. ASSUME NEW k \in DOMAIN s.line PROVE ~(k[1][3] > Customers)
        <5>1. k[1] \in CustomerIds
          BY <1>2
        <5>2. k[1][3] \in 1 .. Customers
          BY <5>1, CustomerIdIs
        <5> QED BY <5>2, InitialId
      <4> QED BY <4>1 DEF Sold
    <3>2. Remote(Sold(s, st), st) = {}
      BY <3>1 DEF Remote
    <3>3. QtySum(s, Sold(s, st)) = 0
      <4> DEFINE f == [k \in Sold(s, st) |-> s.line[k].qty]
      <4>1. DOMAIN f = {}
        BY <3>1
      <4> HIDE DEF f
      <4>2. SumFunction(f) = 0
        BY <4>1, FS_EmptySet, SumOfZeros
      <4> QED BY <4>2 DEF f, QtySum
    <3>4. s.stock[st] = StockRow /\ InitialStock \in 10 .. 100
      BY <1>2, TpccAssumption
    <3>5. IsFiniteSet({}) /\ Cardinality({}) = 0
      BY FS_EmptySet
    <3> QED BY <3>1, <3>2, <3>3, <3>4, <3>5 DEF Counted, StockRow
  <2> QED BY <1>1, <2>1, StockIs
<1>8. Consistent(s)
  BY <1>1, <1>3, <1>4, <1>5, <1>6, <1>7 DEF Consistent
<1> QED BY <1>8 DEF s

(* Every transaction leaves a consistent database.                          *)
LEMMA ProcessKeepsConsistent ==
  ASSUME NEW s, Consistent(s), NEW p, IsDrawn(p)
  PROVE  Consistent(Process(s, p))
<1> DEFINE r == Process(s, p)
<1>1. /\ Typed(s) /\ IdsMatch(s) /\ CarrierMeansDelivered(s) /\ BalancesHold(s)
      /\ PaymentsAddUp(s) /\ StockAddsUp(s)
  BY DEF Consistent
<1>2. CASE p.type = "DELIVERY"
  <2>1. Delivers(p)
    BY <1>2 DEF IsDrawn, Delivers, ForWarehouse
  <2>2. r = ProcessDelivery(s, p)
    BY <1>2 DEF Process
  <2> HIDE DEF r
  <2>3. DeliveryWrites(s, p, r)
    BY <1>1, <2>1, <2>2, DeliveryDoes
  <2>4. Untouched(s, r, {"wYtd", "dYtd", "history"})
    BY <2>3 DEF DeliveryWrites, Untouched
  <2>5. Typed(r) /\ IdsMatch(r) /\ CarrierMeansDelivered(r)
    BY <1>1, <2>1, <2>3, DeliveryTyped, DeliveryKeepsIds, DeliveryKeepsCarriers
  <2>6. BalancesHold(r) /\ StockAddsUp(r)
    BY <1>1, <2>1, <2>3, DeliveryKeepsBalances, DeliveryKeepsStock
  <2>7. PaymentsAddUp(r)
    BY <1>1, <2>4, OthersKeepPayments
  <2> QED BY <2>5, <2>6, <2>7 DEF Consistent, r
<1>3. CASE p.type = "NEW_ORDER"
  <2>1. OrdersItems(p)
    BY <1>3 DEF IsDrawn, OrdersItems, OrdersLines
  <2>2. r = ProcessNewOrder(s, p)
    BY <1>3 DEF Process
  <2> HIDE DEF r
  <2>3. NewOrderWrites(s, p, r)
    BY <1>1, <2>1, <2>2, NewOrderDoes
  <2>4. Untouched(s, r, {"wYtd", "dYtd", "history"})
    BY <2>3 DEF NewOrderWrites, Untouched
  <2>5. Typed(r) /\ IdsMatch(r) /\ CarrierMeansDelivered(r)
    BY <1>1, <2>1, <2>3, NewOrderTyped, NewOrderKeepsIds, NewOrderKeepsCarriers
  <2>6. BalancesHold(r) /\ StockAddsUp(r)
    BY <1>1, <2>1, <2>3, NewOrderKeepsBalances, NewOrderKeepsStock
  <2>7. PaymentsAddUp(r)
    BY <1>1, <2>4, OthersKeepPayments
  <2> QED BY <2>5, <2>6, <2>7 DEF Consistent, r
<1>4. CASE p.type = "PAYMENT"
  <2>1. Pays(p)
    BY <1>4 DEF IsDrawn, Pays
  <2>2. r = ProcessPayment(s, p)
    BY <1>4 DEF Process
  <2> HIDE DEF r
  <2>3. PaymentWrites(s, p, r)
    BY <1>1, <2>2, PaymentDoes
  <2>4. Typed(r) /\ IdsMatch(r) /\ CarrierMeansDelivered(r)
    BY <1>1, <2>1, <2>3, PaymentTyped, PaymentKeepsIds, PaymentKeepsCarriers
  <2>5. BalancesHold(r) /\ PaymentsAddUp(r) /\ StockAddsUp(r)
    BY <1>1, <2>1, <2>3, PaymentKeepsBalances, PaymentKeepsPayments, PaymentKeepsStock
  <2> QED BY <2>4, <2>5 DEF Consistent, r
<1>5. CASE p.type = "ENDEXECUTION"
  BY <1>5 DEF Process
<1> QED BY <1>2, <1>3, <1>4, <1>5 DEF IsDrawn

-----------------------------------------------------------------------------
IInv == Consistent(db) /\ queue \in Seq(Queued)

(* Before and after every transaction the database is consistent, and the    *)
(* queue holds what the source draws (TpccSerialProcessor::start).          *)
THEOREM SerialConsistent == Spec => []IInv
<1>1. Init => IInv
  BY PopulatedConsistent, QueueAssumption DEF Init, IInv
<1>2. IInv /\ [Next]_vars => IInv'
  <2> SUFFICES ASSUME IInv, [Next]_vars PROVE IInv'
    OBVIOUS
  <2>1. CASE Next
    <3>1. queue \in Seq(Queued) /\ queue # <<>> /\ queue' = Tail(queue)
          /\ db' = Process(db, Head(queue))
      BY <2>1 DEF IInv, Next, Start
    <3>2. Head(queue) \in Queued /\ Tail(queue) \in Seq(Queued)
      BY <3>1
    <3>3. IsDrawn(Head(queue))
      BY <3>2 DEF Queued
    <3>4. Consistent(db')
      BY <3>1, <3>3, ProcessKeepsConsistent DEF IInv
    <3> QED BY <3>1, <3>2, <3>4 DEF IInv
  <2>2. CASE UNCHANGED vars
    BY <2>2 DEF IInv, vars
  <2> QED BY <2>1, <2>2
<1> QED BY <1>1, <1>2, PTL DEF Spec

(* Order ids are handed out without gaps, and the undelivered ones are those  *)
(* from the one DISTRICT_NEW_ORDER remembers (newOrder, delivery).          *)
THEOREM SerialOrderIds == Spec => []OrderIdsHaveNoGaps
<1>1. IInv => OrderIdsHaveNoGaps
  BY DEF IInv, Consistent, IdsMatch, OrderIdsHaveNoGaps
<1> QED BY <1>1, SerialConsistent, PTL

(* An order has a carrier iff it has left NEW_ORDER (delivery).              *)
THEOREM SerialCarriers == Spec => []DeliveredMeansCarried
<1>1. IInv => DeliveredMeansCarried
  BY DEF IInv, Consistent, DeliveredMeansCarried
<1> QED BY <1>1, SerialConsistent, PTL

(* A balance and the year-to-date payments together are what was delivered,  *)
(* the year-to-date payments of all customers are those in HISTORY, and the   *)
(* same of every single customer no remote payment touches (delivery,        *)
(* payment).                                                                *)
THEOREM SerialBalances == Spec => []BalancesMatch
<1>1. IInv => BalancesMatch
  BY BalancesFollow DEF IInv, Consistent, Typed, BalancesMatch
<1> QED BY <1>1, SerialConsistent, PTL

(* Warehouse, districts and HISTORY book the same payments (payment).        *)
THEOREM SerialPayments == Spec => []PaymentsMatch
<1>1. IInv => PaymentsMatch
  BY DEF IInv, Consistent, PaymentsMatch
<1> QED BY <1>1, SerialConsistent, PTL

(* Stock counts what the order lines say and never runs out (newOrder).      *)
THEOREM SerialStock == Spec => []StockMatches
<1>1. IInv => StockMatches
  BY DEF IInv, Consistent, StockMatches
<1> QED BY <1>1, SerialConsistent, PTL
=============================================================================
