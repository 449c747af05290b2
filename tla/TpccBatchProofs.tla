--------------------------- MODULE TpccBatchProofs ---------------------------
(***************************************************************************)
(* The safety of the TPC-C batch processors, for every queue of the        *)
(* source, every number of warehouses, districts, buckets and threads,     *)
(* with the thread pool (Spec) and with a thread for each task             *)
(* (ThreadSpec).                                                           *)
(*                                                                         *)
(* IInv says which jobs have entries left in each phase, that an entry is  *)
(* one its job is for, that tasks of one job have entries of different     *)
(* buckets, and of every element of the shared vectors that it has been    *)
(* set or that the task which sets it still has to.  The waits between the *)
(* phases turn the last part into what the later sub-transactions rely on. *)
(***************************************************************************)
EXTENDS TpccThreadBatch, SequenceLemmas

(* The jobs that may be alive in a phase.                                  *)
LineJobs == {"newOrder4", "newOrder5"}
PaymentJobs == {"payment1", "payment2", "payment3"}
JobsIn == [collect    |-> {},
           full       |-> {},
           newOrder12 |-> LineJobs \cup PaymentJobs \cup {"newOrder12"},
           conflict   |-> LineJobs \cup PaymentJobs \cup {"conflict"},
           newOrder6  |-> PaymentJobs \cup {"delivery3", "newOrder6"},
           delivery2  |-> PaymentJobs \cup {"delivery3", "delivery2"},
           conflict2  |-> PaymentJobs \cup {"conflict2"},
           stopped    |-> {}]

(* The entries a job is for.                                               *)
NewOrderEntries == Of("NEW_ORDER") \X {None}
PaymentEntries == Of("PAYMENT") \X {None}
LineEntries == UNION {{p} \X DOMAIN batch[p].items : p \in Of("NEW_ORDER")}
DeliveryEntries == Of("DELIVERY") \X (1 .. Districts)
FoundEntries == {e \in DeliveryEntries : inter.noOId[e] # None}

EntriesOf == [newOrder4  |-> LineEntries,
              newOrder12 |-> NewOrderEntries,
              newOrder5  |-> LineEntries,
              payment1   |-> PaymentEntries,
              payment2   |-> PaymentEntries,
              payment3   |-> PaymentEntries,
              conflict   |-> NewOrderEntries \cup DeliveryEntries,
              delivery3  |-> FoundEntries,
              newOrder6  |-> NewOrderEntries,
              delivery2  |-> FoundEntries,
              conflict2  |-> PaymentEntries \cup FoundEntries]

(* The bucket an entry of a job was dealt into.                            *)
BucketOf == [x \in Jobs \X Entries |-> CASE x[1] \in LineJobs    -> LineBucket[x[2]]
                                         [] x[1] \in PaymentJobs -> 0
                                         [] OTHER                -> HomeBucket[x[2]]]

(* The order of a new order, and the one a delivery has found.              *)
OrderKey(p) == <<batch[p].w, batch[p].d, inter.oId[p]>>
FoundKey(e) == <<batch[e[1]].w, e[2], inter.noOId[e]>>

-----------------------------------------------------------------------------
(* The inductive invariant.                                                *)

(* Only what the source draws gets into a batch.                           *)
QueueSound == queue \in Seq(Queued) /\ batch \in Seq(Queued)

(* The entries of lists are of the given jobs and for them.                 *)
WorkSound(lists, jobs) ==
    /\ lists \in WorkLists(Jobs, Entries)
    /\ \A x \in Pending(lists) : x[1] \in jobs /\ x[2] \in EntriesOf[x[1]]
    /\ Apart(lists, BucketOf) /\ NoneTwice(lists)

(* The pool holds tasks of the phase.                                      *)
PhaseSound == phase \in DOMAIN JobsIn /\ WorkSound(pool, JobsIn[phase])

(* The rows there are, and the columns that other rows or vectors get.      *)
RowsOf(d) ==
    /\ DOMAIN d = {"nextOId", "dYtd", "wYtd", "firstNew", "newOrder", "order", "line", "stock",
                   "customer", "history"}
    /\ d.nextOId \in [District -> Nat \ {0}]
    /\ d.firstNew \in [District -> Nat \ {0}]
    /\ DOMAIN d.stock = Stock
    /\ DOMAIN d.customer = OrderKeys(1 .. Customers)
    /\ d.newOrder \subseteq DOMAIN d.order
    /\ \A o \in DOMAIN d.order : /\ DOMAIN d.order[o] = {"c", "ol_cnt", "entry_d", "carrier"}
                                 /\ d.order[o].c \in 1 .. Customers
    /\ IsFiniteSet(DOMAIN d.line)
    /\ \A k \in DOMAIN d.line :
          /\ DOMAIN d.line[k] = {"item", "supply", "qty", "dist", "delivery_d", "amount"}
          /\ d.line[k].amount \in Nat
RowsSound == RowsOf(db)

(* The vectors have an element for each entry, and what they name exists.   *)
VectorsSound ==
    /\ DOMAIN inter = {"oId", "dist", "amount", "noOId", "cId", "sum"}
    /\ inter.oId \in [Of("NEW_ORDER") -> Nat]
    /\ DOMAIN inter.dist = LineEntries
    /\ inter.amount \in [LineEntries -> Nat]
    /\ {DOMAIN inter.noOId, DOMAIN inter.cId, DOMAIN inter.sum} = {DeliveryEntries}
    /\ \A p \in Of("NEW_ORDER") : inter.oId[p] # 0 => OrderKey(p) \in DOMAIN db.order
    /\ \A e \in FoundEntries : FoundKey(e) \in DOMAIN db.order

(* An element is set or still to be; order ids are set once.               *)
Waiting(job, e) == <<job, e>> \in Pending(pool)
VectorsFilled ==
    /\ \A p \in Of("NEW_ORDER") : inter.oId[p] = 0 <=> Waiting("newOrder12", <<p, None>>)
    /\ \A e \in LineEntries : /\ inter.dist[e] # NoDist \/ Waiting("newOrder4", e)
                              /\ inter.amount[e] # 0 \/ Waiting("newOrder5", e)
    /\ phase \in {"newOrder6", "delivery2", "conflict2"} =>
          \A e \in FoundEntries : inter.cId[e] # None \/ Waiting("delivery3", e)
    /\ phase \in {"delivery2", "conflict2"} =>
          \A e \in FoundEntries : inter.sum[e] # None \/ Waiting("delivery2", e)

Idle == phase \in {"collect", "full", "stopped"}
InterSound == IF Idle THEN inter = NoInter ELSE VectorsSound /\ VectorsFilled

(* An order has its lines, or its new order still has to insert them.       *)
Unlined(o) ==
    \/ /\ phase \in {"newOrder12", "conflict"}
       /\ \E p \in Of("NEW_ORDER") : inter.oId[p] # 0 /\ OrderKey(p) = o
    \/ /\ phase = "newOrder6"
       /\ \E p \in Of("NEW_ORDER") : OrderKey(p) = o /\ Waiting("newOrder6", <<p, None>>)
LinesSound == \A o \in DOMAIN db.order : LinesOf(db, o) # {} \/ Unlined(o)

IInv == QueueSound /\ PhaseSound /\ RowsSound /\ InterSound /\ LinesSound

-----------------------------------------------------------------------------
(* The parameters.                                                         *)
LEMMA Constants ==
  /\ Parallelism \in Nat /\ Parallelism > 0 /\ Buckets = 0 .. Parallelism - 1
  /\ \A n \in Int : n % Parallelism \in Buckets
BY BatchAssumption DEF Buckets

(* Positions of the batch.                                                 *)
LEMMA Positions ==
  ASSUME QueueSound
  PROVE  /\ Len(batch) \in Nat /\ DOMAIN batch = 1 .. Len(batch)
         /\ \A p \in 1 .. Len(batch) : IsDrawn(batch[p])
         /\ \A type : Of(type) \subseteq 1 .. Len(batch)
<1>1. Len(batch) \in Nat /\ DOMAIN batch = 1 .. Len(batch)
      /\ \A p \in 1 .. Len(batch) : batch[p] \in Queued
  BY LenProperties, ElementOfSeq DEF QueueSound
<1>2. \A type : Of(type) \subseteq 1 .. Len(batch)
  BY <1>1 DEF Of
<1> QED
  BY <1>1, <1>2 DEF Queued

(* What the source draws for a transaction of each type.                   *)
LEMMA NewOrderDrawn ==
  ASSUME QueueSound, NEW p \in Of("NEW_ORDER")
  PROVE  /\ p \in 1 .. Len(batch) /\ batch[p].w \in 1 .. Warehouses /\ batch[p].d \in 1 .. Districts
         /\ <<batch[p].w, batch[p].d>> \in District
         /\ batch[p].c \in 1 .. Customers
         /\ Len(batch[p].items) \in Nat \ {0}
         /\ DOMAIN batch[p].items = 1 .. Len(batch[p].items)
         /\ \A i \in 1 .. Len(batch[p].items) :
               /\ batch[p].items[i][1] \in 1 .. Items
               /\ batch[p].items[i][2] \in 1 .. Warehouses
               /\ batch[p].items[i][3] \in Nat \ {0}
<1> DEFINE items == batch[p].items
           Line == (1 .. Items) \X (1 .. Warehouses) \X (1 .. MAX_OL_QUANTITY)
<1>1. p \in 1 .. Len(batch) /\ batch[p].type = "NEW_ORDER" /\ IsDrawn(batch[p])
  BY Positions DEF Of
<1>2. /\ <<batch[p].w, batch[p].d>> \in District /\ batch[p].c \in 1 .. Customers
      /\ items \in Seq(Line) /\ items # <<>>
  BY <1>1 DEF IsDrawn
<1>3. batch[p].w \in 1 .. Warehouses /\ batch[p].d \in 1 .. Districts
  BY <1>2 DEF District
<1> HIDE DEF items
<1>4. /\ Len(items) \in Nat \ {0} /\ DOMAIN items = 1 .. Len(items)
      /\ \A i \in 1 .. Len(items) : items[i] \in Line
  <2> HIDE DEF Line
  <2> QED BY <1>2, LenProperties, ElementOfSeq, EmptySeq
<1>5. \A i \in 1 .. Len(items) : /\ items[i][1] \in 1 .. Items
                                 /\ items[i][2] \in 1 .. Warehouses
                                 /\ items[i][3] \in Nat \ {0}
  <2> TAKE i \in 1 .. Len(items)
  <2>1. items[i] \in Line
    BY <1>4
  <2>2. /\ items[i][1] \in 1 .. Items
        /\ items[i][2] \in 1 .. Warehouses
        /\ items[i][3] \in 1 .. MAX_OL_QUANTITY
    BY <2>1
  <2> QED BY <2>2, SMTT(40) DEF MAX_OL_QUANTITY
<1> QED
  BY <1>1, <1>2, <1>3, <1>4, <1>5 DEF items

(* A delivery's warehouse.                                                 *)
LEMMA DeliveryDrawn ==
  ASSUME QueueSound, NEW p \in Of("DELIVERY")
  PROVE  /\ p \in 1 .. Len(batch) /\ batch[p].w \in 1 .. Warehouses
         /\ \A d \in 1 .. Districts : <<batch[p].w, d>> \in District
<1>1. p \in 1 .. Len(batch) /\ batch[p].type = "DELIVERY" /\ IsDrawn(batch[p])
  BY Positions DEF Of
<1> QED
  BY <1>1 DEF IsDrawn, District

(* A payment's district.                                                   *)
LEMMA PaymentDrawn ==
  ASSUME QueueSound, NEW p \in Of("PAYMENT")
  PROVE  /\ p \in 1 .. Len(batch) /\ batch[p].w \in 1 .. Warehouses /\ batch[p].d \in 1 .. Districts
<1>1. p \in 1 .. Len(batch) /\ batch[p].type = "PAYMENT" /\ IsDrawn(batch[p])
  BY Positions DEF Of
<1>2. <<batch[p].w, batch[p].d>> \in District
  BY <1>1 DEF IsDrawn
<1> QED
  BY <1>1, <1>2 DEF District

(* An entry of a line.                                                     *)
LEMMA LineEntry ==
  ASSUME QueueSound, NEW e \in LineEntries
  PROVE  /\ e \in Entries /\ e[1] \in Of("NEW_ORDER") /\ e[2] \in 1 .. Len(batch[e[1]].items)
         /\ e = <<e[1], e[2]>>
<1>1. PICK p \in Of("NEW_ORDER") : e \in {p} \X DOMAIN batch[p].items
  BY DEF LineEntries
<1>2. DOMAIN batch[p].items = 1 .. Len(batch[p].items) /\ p \in 1 .. Len(batch)
      /\ Len(batch[p].items) \in Nat
  BY NewOrderDrawn
<1>3. e[1] = p /\ e[2] \in 1 .. Len(batch[p].items) /\ e = <<e[1], e[2]>>
  BY <1>1, <1>2
<1>4. e[1] \in Nat /\ e[2] \in Int
  BY <1>2, <1>3, Positions
<1> QED
  BY <1>3, <1>4 DEF Entries

(* Entries are entries.                                                    *)
LEMMA EntriesTyped ==
  ASSUME QueueSound
  PROVE  /\ NewOrderEntries = {e \in Entries : e[1] \in Of("NEW_ORDER") /\ e[2] = None}
         /\ PaymentEntries = {e \in Entries : e[1] \in Of("PAYMENT") /\ e[2] = None}
         /\ DeliveryEntries \subseteq Entries
         /\ LineEntries \subseteq Entries
<1>1. \A type : Of(type) \subseteq Nat
  BY Positions
<1>2. None \in Int /\ 1 .. Districts \subseteq Int
  BY DEF None
<1>3. LineEntries \subseteq Entries
  BY LineEntry
<1>4. NewOrderEntries = {e \in Entries : e[1] \in Of("NEW_ORDER") /\ e[2] = None}
  BY <1>1, <1>2 DEF NewOrderEntries, Entries
<1>5. PaymentEntries = {e \in Entries : e[1] \in Of("PAYMENT") /\ e[2] = None}
  BY <1>1, <1>2 DEF PaymentEntries, Entries
<1>6. DeliveryEntries \subseteq Entries
  BY <1>1, <1>2 DEF DeliveryEntries, Entries
<1> QED
  BY <1>3, <1>4, <1>5, <1>6

(* The bucket of every entry is one of the buckets.                        *)
LEMMA HomeBucketIs ==
  ASSUME QueueSound, NEW e \in NewOrderEntries \cup PaymentEntries \cup DeliveryEntries
  PROVE  /\ e \in Entries /\ HomeBucket[e] \in Buckets
         /\ HomeBucket[e] = OffsetOf(batch[e[1]].w,
                                     IF e[2] = None THEN batch[e[1]].d ELSE e[2]) % Parallelism
<1> DEFINE d == IF e[2] = None THEN batch[e[1]].d ELSE e[2]
<1>1. e \in Entries
  BY EntriesTyped
<1>2. HomeBucket[e] = OffsetOf(batch[e[1]].w, d) % Parallelism
  BY <1>1 DEF HomeBucket, BucketOfDistrict
<1>3. batch[e[1]].w \in Int /\ d \in Int
  <2>1. CASE e \in NewOrderEntries
    <3>1. e[1] \in Of("NEW_ORDER") /\ e[2] = None
      BY <2>1 DEF NewOrderEntries
    <3>2. batch[e[1]].w \in 1 .. Warehouses /\ batch[e[1]].d \in 1 .. Districts
      BY <3>1, NewOrderDrawn
    <3> QED BY <3>1, <3>2
  <2>2. CASE e \in PaymentEntries
    <3>1. e[1] \in Of("PAYMENT") /\ e[2] = None
      BY <2>2 DEF PaymentEntries
    <3>2. batch[e[1]].w \in 1 .. Warehouses /\ batch[e[1]].d \in 1 .. Districts
      BY <3>1, PaymentDrawn
    <3> QED BY <3>1, <3>2
  <2>3. CASE e \in DeliveryEntries
    <3>1. e[1] \in Of("DELIVERY") /\ e[2] \in 1 .. Districts /\ e[2] # None
      BY <2>3 DEF DeliveryEntries, None
    <3> QED BY <3>1, DeliveryDrawn
  <2> QED BY <2>1, <2>2, <2>3
<1>4. Districts \in Nat
  BY TpccAssumption
<1> HIDE DEF d
<1>5. OffsetOf(batch[e[1]].w, d) \in Int
  BY <1>3, <1>4 DEF OffsetOf
<1> QED
  BY <1>1, <1>2, <1>5, Constants DEF d

(* The bucket of a line is that of its stock.                              *)
LEMMA LineBucketIs ==
  ASSUME QueueSound, NEW e \in LineEntries
  PROVE  /\ LineBucket[e] \in Buckets
         /\ LineBucket[e] =
               HashInt[Items * (StockOf(batch[e[1]], e[2])[1] - 1) + StockOf(batch[e[1]], e[2])[2] - 1]
               % Parallelism
<1> DEFINE i == batch[e[1]].items[e[2]][1]
           w == batch[e[1]].items[e[2]][2]
<1>1. LineBucket[e] = HashInt[Items * (w - 1) + i - 1] % Parallelism
  BY LineEntry DEF LineBucket, BucketOfLine
<1>2. StockOf(batch[e[1]], e[2])[1] = w /\ StockOf(batch[e[1]], e[2])[2] = i
  BY DEF StockOf
<1>3. i \in 1 .. Items /\ w \in 1 .. Warehouses
  BY LineEntry, NewOrderDrawn
<1> HIDE DEF i, w
<1>4. Items \in Nat /\ Warehouses \in Nat
  BY TpccAssumption
<1>5. Items * (w - 1) + i - 1 \in 0 .. Warehouses * Items - 1
  <2>1. w - 1 \in Nat /\ Warehouses - w \in Nat
    BY <1>3, <1>4
  <2>2. Items * (w - 1) \in Nat /\ Items * (Warehouses - w) \in Nat
    BY <2>1, <1>4
  <2>3. Warehouses * Items = Items * (w - 1) + Items * (Warehouses - w) + Items
    BY <1>3, <1>4
  <2> QED BY <2>2, <2>3, <1>3, <1>4
<1>6. HashInt[Items * (w - 1) + i - 1] \in Nat
  BY <1>5, HashAssumption
<1> QED
  BY <1>1, <1>2, <1>6, Constants, SMTT(40)

-----------------------------------------------------------------------------
(* From the batch to the tasks.                                            *)

(* The sequences entries[p] hold E, at each position its own, none twice.   *)
Holds(entries, E) ==
    /\ ElementsAre(Entries, Len(batch), entries, E)
    /\ \A p \in 1 .. Len(batch) :
          Distinct(entries[p]) /\ \A k \in 1 .. Len(entries[p]) : entries[p][k][1] = p

(* One entry for every transaction of a type.                              *)
LEMMA OnceEach ==
  ASSUME QueueSound, NEW type, NEW entries,
         \A p \in 1 .. Len(batch) : entries[p] = IF p \in Of(type) THEN Once(p) ELSE <<>>
  PROVE  Holds(entries, {e \in Entries : e[1] \in Of(type) /\ e[2] = None})
<1>1. Len(batch) \in Nat /\ Of(type) \subseteq 1 .. Len(batch)
  BY Positions
<1>2. ElementsAre(Entries, Len(batch), entries, {e \in Entries : e[1] \in Of(type) /\ e[2] = None})
  BY <1>1, OnceHolds, Zenon
<1>3. ASSUME NEW p \in 1 .. Len(batch)
      PROVE  Distinct(entries[p]) /\ \A k \in 1 .. Len(entries[p]) : entries[p][k][1] = p
  <2>1. CASE entries[p] = Once(p)
    <3>1. Len(Once(p)) = 1 /\ Once(p)[1] = <<p, None>>
      BY DEF Once
    <3>2. Len(entries[p]) = 1 /\ entries[p][1][1] = p
      BY <2>1, <3>1
    <3> QED BY <3>2 DEF Distinct
  <2>2. CASE entries[p] = <<>>
    <3>1. Len(entries[p]) = 0
      BY <2>2
    <3> QED BY <3>1 DEF Distinct
  <2> QED BY <2>1, <2>2
<1> QED
  BY <1>2, <1>3 DEF Holds

(* The entries of one position, all different.                             *)
HoldsAt(s, p, E) ==
    /\ s \in Seq(Entries) /\ Range(s) = E
    /\ Distinct(s) /\ \A k \in 1 .. Len(s) : s[k][1] = p

(* A number of them.                                                       *)
LEMMA PairsOf ==
  ASSUME NEW p \in Nat, NEW n \in Nat, NEW s, s = [i \in 1 .. n |-> <<p, i>>]
  PROVE  HoldsAt(s, p, {p} \X (1 .. n))
<1>1. \A i \in 1 .. n : <<p, i>> \in Entries
  BY DEF Entries
<1>2. s \in Seq(Entries) /\ Len(s) = n /\ \A i \in 1 .. n : s[i] = <<p, i>>
  BY <1>1
<1>3. Range(s) = {p} \X (1 .. n)
  BY DEF Range
<1> QED
  BY <1>2, <1>3 DEF Distinct, HoldsAt

(* None.                                                                   *)
LEMMA NoneOf ==
  ASSUME NEW p
  PROVE  HoldsAt(<<>>, p, {})
<1>1. <<>> \in Seq(Entries) /\ Range(<<>>) = {} /\ Len(<<>>) = 0
  BY DEF Range
<1> QED
  BY <1>1 DEF HoldsAt, Distinct

(* Those of all positions.                                                 *)
LEMMA EachHolds ==
  ASSUME NEW entries, NEW E, NEW at,
         \A p \in 1 .. Len(batch) : HoldsAt(entries[p], p, at[p]),
         E = UNION {at[p] : p \in 1 .. Len(batch)}
  PROVE  Holds(entries, E)
<1>1. SeqsOver(Entries, Len(batch), entries)
  BY DEF SeqsOver, HoldsAt
<1>2. ElementsIn(Len(batch), entries) = E
  BY DEF ElementsIn, HoldsAt
<1> QED
  BY <1>1, <1>2 DEF Holds, ElementsAre, HoldsAt

(* Several entries for every transaction of a type.                        *)
ArePairs(entries, P, n) ==
    /\ P \subseteq 1 .. Len(batch)
    /\ \A p \in P : n[p] \in Nat
    /\ \A p \in 1 .. Len(batch) :
          entries[p] = IF p \in P THEN [i \in 1 .. n[p] |-> <<p, i>>] ELSE <<>>
PairsIn(P, n) == UNION {{p} \X (1 .. n[p]) : p \in P}

(* The pairs are what they hold.                                           *)
LEMMA PairsEach ==
  ASSUME QueueSound, NEW entries, NEW P, NEW n, ArePairs(entries, P, n)
  PROVE  Holds(entries, PairsIn(P, n))
<1> DEFINE at == [p \in 1 .. Len(batch) |-> IF p \in P THEN {p} \X (1 .. n[p]) ELSE {}]
<1>1. ASSUME NEW p \in 1 .. Len(batch)
      PROVE  HoldsAt(entries[p], p, at[p])
  <2>1. CASE p \in P
    <3>0. p \in Nat
      BY Positions
    <3>1. n[p] \in Nat /\ entries[p] = [i \in 1 .. n[p] |-> <<p, i>>]
      BY <2>1, Zenon DEF ArePairs
    <3>2. HoldsAt(entries[p], p, {p} \X (1 .. n[p]))
      BY <3>0, <3>1, PairsOf, Zenon
    <3>3. at[p] = {p} \X (1 .. n[p])
      BY <2>1
    <3> QED BY <3>2, <3>3, Zenon
  <2>2. CASE p \notin P
    <3>1. entries[p] = <<>> /\ at[p] = {}
      BY <2>2 DEF ArePairs
    <3>2. HoldsAt(<<>>, p, {})
      BY NoneOf
    <3> QED BY <3>1, <3>2, Zenon
  <2> QED BY <2>1, <2>2
<1>2. PairsIn(P, n) = UNION {at[p] : p \in 1 .. Len(batch)}
  <2>1. \A p \in 1 .. Len(batch) : at[p] = IF p \in P THEN {p} \X (1 .. n[p]) ELSE {}
    OBVIOUS
  <2>2. P \subseteq 1 .. Len(batch)
    BY DEF ArePairs
  <2> HIDE DEF at
  <2>3. ASSUME NEW e \in PairsIn(P, n) PROVE e \in UNION {at[p] : p \in 1 .. Len(batch)}
    <3>1. PICK p \in P : e \in {p} \X (1 .. n[p])
      BY DEF PairsIn
    <3>2. p \in 1 .. Len(batch) /\ e \in at[p]
      BY <2>1, <2>2, <3>1
    <3> QED BY <3>2
  <2>4. ASSUME NEW e \in UNION {at[p] : p \in 1 .. Len(batch)} PROVE e \in PairsIn(P, n)
    <3>1. PICK p \in 1 .. Len(batch) : e \in at[p]
      OBVIOUS
    <3>2. p \in P /\ e \in {p} \X (1 .. n[p])
      BY <2>1, <3>1
    <3> QED BY <3>2 DEF PairsIn
  <2> QED BY <2>3, <2>4
<1> HIDE DEF at
<1> QED
  BY <1>1, <1>2, EachHolds, Zenon

(* The entries of the two loops that mix two types.                        *)
LEMMA BothHold ==
  ASSUME QueueSound, NEW s, NEW E, Holds(s, E), NEW t, NEW F, Holds(t, F),
         \A p \in 1 .. Len(batch) : s[p] = <<>> \/ t[p] = <<>>
  PROVE  Holds(Both(s, t), E \cup F)
<1> DEFINE u == Both(s, t)
<1>1. Len(batch) \in Nat /\ DOMAIN batch = 1 .. Len(batch)
  BY Positions
<1>2. \A p \in 1 .. Len(batch) : u[p] = s[p] \o t[p]
  BY <1>1 DEF Both
<1> HIDE DEF u
<1>3. /\ SeqsOver(Entries, Len(batch), s) /\ ElementsIn(Len(batch), s) = E
      /\ SeqsOver(Entries, Len(batch), t) /\ ElementsIn(Len(batch), t) = F
  BY DEF Holds, ElementsAre
<1>4. ElementsAre(Entries, Len(batch), u, ElementsIn(Len(batch), s) \cup ElementsIn(Len(batch), t))
  BY <1>1, <1>2, <1>3, BothElements, Zenon
<1>5. ASSUME NEW p \in 1 .. Len(batch)
      PROVE  Distinct(u[p]) /\ \A k \in 1 .. Len(u[p]) : u[p][k][1] = p
  <2>1. s[p] \in Seq(Entries) /\ t[p] \in Seq(Entries) /\ u[p] = s[p] \o t[p]
    BY <1>2, <1>3 DEF SeqsOver
  <2>2. u[p] = s[p] \/ u[p] = t[p]
    <3>1. CASE s[p] = <<>>
      BY <2>1, <3>1
    <3>2. CASE t[p] = <<>>
      BY <2>1, <3>2
    <3> QED BY <3>1, <3>2
  <2> QED BY <2>2 DEF Holds
<1> QED
  BY <1>3, <1>4, <1>5 DEF Holds, u

(* The entries that are dealt when a batch is cut.                         *)
LEMMA BatchHolds ==
  ASSUME QueueSound
  PROVE  /\ Holds(NewOrdersOnce, NewOrderEntries)
         /\ Holds(PaymentsOnce, PaymentEntries)
         /\ Holds(Lines, LineEntries)
         /\ Holds(Both(NewOrdersOnce, DeliveryDistricts), NewOrderEntries \cup DeliveryEntries)
<1>1. DOMAIN batch = 1 .. Len(batch)
  BY Positions
<1>2. Holds(NewOrdersOnce, NewOrderEntries)
  <2>1. \A p \in 1 .. Len(batch) : NewOrdersOnce[p] = IF p \in Of("NEW_ORDER") THEN Once(p) ELSE <<>>
    BY <1>1 DEF NewOrdersOnce
  <2>2. Holds(NewOrdersOnce, {e \in Entries : e[1] \in Of("NEW_ORDER") /\ e[2] = None})
    BY <2>1, OnceEach, Zenon
  <2> QED BY <2>2, EntriesTyped
<1>3. Holds(PaymentsOnce, PaymentEntries)
  <2>1. \A p \in 1 .. Len(batch) : PaymentsOnce[p] = IF p \in Of("PAYMENT") THEN Once(p) ELSE <<>>
    BY <1>1 DEF PaymentsOnce
  <2>2. Holds(PaymentsOnce, {e \in Entries : e[1] \in Of("PAYMENT") /\ e[2] = None})
    BY <2>1, OnceEach, Zenon
  <2> QED BY <2>2, EntriesTyped
<1>4. Holds(Lines, LineEntries)
  <2> DEFINE n == [p \in Of("NEW_ORDER") |-> Len(batch[p].items)]
  <2>1. \A p \in Of("NEW_ORDER") : n[p] \in Nat /\ DOMAIN batch[p].items = 1 .. n[p]
    BY NewOrderDrawn
  <2>2. ArePairs(Lines, Of("NEW_ORDER"), n)
    BY <1>1, <2>1, Positions DEF Lines, LinesOfOrder, ArePairs
  <2>3. LineEntries = PairsIn(Of("NEW_ORDER"), n)
    BY <2>1 DEF LineEntries, PairsIn
  <2> HIDE DEF n
  <2> QED BY <2>2, <2>3, PairsEach, Zenon
<1>5. Holds(DeliveryDistricts, DeliveryEntries)
  <2> DEFINE n == [p \in Of("DELIVERY") |-> Districts]
  <2>1. ArePairs(DeliveryDistricts, Of("DELIVERY"), n)
    BY <1>1, TpccAssumption, Positions DEF DeliveryDistricts, DistrictsOf, ArePairs
  <2>2. DeliveryEntries = PairsIn(Of("DELIVERY"), n)
    BY DEF DeliveryEntries, PairsIn
  <2> HIDE DEF n
  <2> QED BY <2>1, <2>2, PairsEach, Zenon
<1>6. \A p \in 1 .. Len(batch) : NewOrdersOnce[p] = <<>> \/ DeliveryDistricts[p] = <<>>
  BY <1>1 DEF NewOrdersOnce, DeliveryDistricts, Of
<1>7. Holds(Both(NewOrdersOnce, DeliveryDistricts), NewOrderEntries \cup DeliveryEntries)
  BY <1>2, <1>5, <1>6, BothHold
<1> QED
  BY <1>2, <1>3, <1>4, <1>7

(* The districts of one delivery where an order was found.                  *)
FoundAt(p) == {<<p, d>> : d \in {d \in 1 .. Districts : inter.noOId[<<p, d>>] # None}}

(* Found collects them.                                                    *)
LEMMA FoundIs ==
  ASSUME NEW p \in Nat
  PROVE  HoldsAt(Found(p), p, FoundAt(p))
<1> DEFINE P == {d \in 1 .. Districts : inter.noOId[<<p, d>>] # None}
           f == [d \in 1 .. Districts |-> <<p, d>>]
           seqs == [d \in 1 .. Districts |->
                       IF inter.noOId[<<p, d>>] # None THEN << <<p, d>> >> ELSE <<>>]
<1>1. Found(p) = Joined(Districts, seqs)
  BY DEF Found
<1>2. Districts \in Nat
  BY TpccAssumption
<1>3. \A d \in 1 .. Districts : f[d] = <<p, d>> /\ f[d] \in Entries
  BY DEF Entries
<1>4. \A d \in 1 .. Districts : seqs[d] = IF d \in P THEN <<f[d]>> ELSE <<>>
  OBVIOUS
<1>5. P \subseteq 1 .. Districts /\ FoundAt(p) = {f[d] : d \in P}
  BY DEF FoundAt
<1> HIDE DEF P, f, seqs
<1>6. OneForEach(Entries, Districts, FoundAt(p), P, f, seqs)
  BY <1>3, <1>4, <1>5 DEF OneForEach
<1>7. ElementsAre(Entries, Districts, seqs, FoundAt(p))
  BY <1>2, <1>6, OneOfEach, Zenon
<1>8. SeqsOver(Entries, Districts, seqs) /\ ElementsIn(Districts, seqs) = FoundAt(p)
  BY <1>7 DEF ElementsAre
<1>9. Joined(Districts, seqs) \in Seq(Entries)
      /\ Range(Joined(Districts, seqs)) = FoundAt(p)
  <2>1. \A i \in 1 .. Districts : seqs[i] \in Seq(Entries)
    BY <1>8 DEF SeqsOver
  <2>2. /\ Joined(Districts, seqs) \in Seq(Entries)
        /\ Range(Joined(Districts, seqs)) = UNION {Range(seqs[d]) : d \in 1 .. Districts}
    BY <1>2, <2>1, JoinedElements, Zenon
  <2> QED BY <2>2, <1>8, Zenon DEF ElementsIn
<1>10. AllDistinct(Districts, seqs)
  <2>1. \A d \in 1 .. Districts : \A k \in 1 .. Len(seqs[d]) : k = 1 /\ seqs[d][k] = <<p, d>>
    <3> TAKE d \in 1 .. Districts
    <3>1. CASE d \in P
      <4>1. seqs[d] = <<f[d]>>
        BY <3>1, <1>4
      <4>2. Len(seqs[d]) = 1 /\ seqs[d][1] = f[d]
        BY <4>1
      <4> QED BY <4>2, <1>3
    <3>2. CASE d \notin P
      <4>1. seqs[d] = <<>>
        BY <3>2, <1>4, Zenon
      <4>2. Len(<<>>) = 0
        OBVIOUS
      <4> QED BY <4>1, <4>2
    <3> QED BY <3>1, <3>2
  <2>2. \A d \in 1 .. Districts : Distinct(seqs[d])
    BY <2>1 DEF Distinct
  <2>3. ASSUME NEW c \in 1 .. Districts, NEW d \in 1 .. Districts, c # d,
               NEW k \in 1 .. Len(seqs[c]), NEW l \in 1 .. Len(seqs[d])
        PROVE  seqs[c][k] # seqs[d][l]
    <3>1. seqs[c][k] = <<p, c>> /\ seqs[d][l] = <<p, d>>
      BY <2>1, Zenon
    <3>2. <<p, c>> # <<p, d>>
      BY <2>3
    <3> QED BY <3>1, <3>2, Zenon
  <2> QED BY <2>2, <2>3, Zenon DEF AllDistinct
<1>11. Distinct(Joined(Districts, seqs))
  BY <1>2, <1>8, <1>10, JoinedDistinct, Zenon
<1>12. HoldsAt(Joined(Districts, seqs), p, FoundAt(p))
  <2> DEFINE s == Joined(Districts, seqs)
  <2>1. s \in Seq(Entries) /\ Range(s) = FoundAt(p) /\ Distinct(s)
    BY <1>9, <1>11
  <2> HIDE DEF s
  <2>2. ASSUME NEW k \in 1 .. Len(s) PROVE s[k][1] = p
    <3>1. s[k] \in Range(s)
      BY <2>1 DEF Range
    <3>2. s[k] \in FoundAt(p)
      BY <3>1, <2>1
    <3>3. PICK d \in 1 .. Districts : s[k] = <<p, d>>
      BY <3>2, Zenon DEF FoundAt
    <3> QED BY <3>3
  <2> QED BY <2>1, <2>2 DEF HoldsAt, s
<1> QED
  BY <1>1, <1>12

(* Those of all deliveries, alone and with the payments.                   *)
LEMMA FoundHolds ==
  ASSUME QueueSound
  PROVE  /\ Holds(FoundDistricts, FoundEntries)
         /\ Holds(Both(PaymentsOnce, FoundDistricts), PaymentEntries \cup FoundEntries)
<1> DEFINE at == [p \in 1 .. Len(batch) |-> IF p \in Of("DELIVERY") THEN FoundAt(p) ELSE {}]
<1>1. DOMAIN batch = 1 .. Len(batch) /\ Len(batch) \in Nat /\ Of("DELIVERY") \subseteq 1 .. Len(batch)
  BY Positions
<1>2. \A p \in 1 .. Len(batch) :
         FoundDistricts[p] = IF p \in Of("DELIVERY") THEN Found(p) ELSE <<>>
  BY <1>1 DEF FoundDistricts
<1>3. \A p \in 1 .. Len(batch) : at[p] = IF p \in Of("DELIVERY") THEN FoundAt(p) ELSE {}
  OBVIOUS
<1> HIDE DEF at
<1>4. ASSUME NEW p \in 1 .. Len(batch)
      PROVE  HoldsAt(FoundDistricts[p], p, at[p])
  <2>1. CASE p \in Of("DELIVERY")
    <3>1. FoundDistricts[p] = Found(p) /\ at[p] = FoundAt(p) /\ p \in Nat
      BY <2>1, <1>1, <1>2, <1>3
    <3> QED BY <3>1, FoundIs
  <2>2. CASE p \notin Of("DELIVERY")
    <3>1. FoundDistricts[p] = <<>> /\ at[p] = {}
      BY <2>2, <1>2, <1>3
    <3> QED BY <3>1, NoneOf
  <2> QED BY <2>1, <2>2
<1>5. FoundEntries = UNION {at[p] : p \in 1 .. Len(batch)}
  <2>1. ASSUME NEW e \in FoundEntries PROVE e \in UNION {at[p] : p \in 1 .. Len(batch)}
    <3>1. e[1] \in Of("DELIVERY") /\ e[2] \in 1 .. Districts /\ e = <<e[1], e[2]>>
          /\ inter.noOId[e] # None
      BY DEF FoundEntries, DeliveryEntries
    <3>2. e \in FoundAt(e[1])
      BY <3>1 DEF FoundAt
    <3> QED BY <3>1, <3>2, <1>1, <1>3
  <2>2. ASSUME NEW e \in UNION {at[p] : p \in 1 .. Len(batch)} PROVE e \in FoundEntries
    <3>1. PICK p \in 1 .. Len(batch) : e \in at[p]
      OBVIOUS
    <3>2. p \in Of("DELIVERY") /\ e \in FoundAt(p)
      BY <3>1, <1>3
    <3>3. PICK d \in 1 .. Districts : inter.noOId[<<p, d>>] # None /\ e = <<p, d>>
      BY <3>2 DEF FoundAt
    <3> QED BY <3>2, <3>3 DEF FoundEntries, DeliveryEntries
  <2> QED BY <2>1, <2>2
<1>6. Holds(FoundDistricts, FoundEntries)
  BY <1>4, <1>5, EachHolds, Zenon
<1>7. \A p \in 1 .. Len(batch) : PaymentsOnce[p] = <<>> \/ FoundDistricts[p] = <<>>
  BY <1>1, <1>2 DEF PaymentsOnce, Of
<1>8. Holds(Both(PaymentsOnce, FoundDistricts), PaymentEntries \cup FoundEntries)
  BY <1>6, <1>7, BatchHolds, BothHold
<1> QED
  BY <1>6, <1>8

(* A bucket.                                                               *)
LEMMA DealHolds ==
  ASSUME QueueSound, NEW entries, NEW E, Holds(entries, E), NEW bucket, NEW t \in Buckets
  PROVE  /\ Deal(entries, bucket)[t] \in Seq(Entries)
         /\ Range(Deal(entries, bucket)[t]) = {e \in E : bucket[e] = t}
         /\ Distinct(Deal(entries, bucket)[t])
<1>1. Deal(entries, bucket)[t] = Dealt(Len(batch), entries, bucket, t)
  BY DEF Deal
<1>2. Len(batch) \in Nat
  BY Positions
<1>3. SeqsOver(Entries, Len(batch), entries) /\ ElementsIn(Len(batch), entries) = E
  BY DEF Holds, ElementsAre
<1>4. ListIs(Entries, Dealt(Len(batch), entries, bucket, t), InBucket(E, bucket, t))
  BY <1>2, <1>3, DealtElements, Zenon
<1>5. AllDistinct(Len(batch), entries)
  <2>1. ASSUME NEW p \in 1 .. Len(batch), NEW q \in 1 .. Len(batch), p # q,
               NEW k \in 1 .. Len(entries[p]), NEW l \in 1 .. Len(entries[q])
        PROVE  entries[p][k] # entries[q][l]
    <3>1. entries[p][k][1] = p /\ entries[q][l][1] = q
      BY DEF Holds
    <3> QED BY <3>1, <2>1
  <2>2. \A p \in 1 .. Len(batch) : Distinct(entries[p])
    BY DEF Holds
  <2> QED BY <2>1, <2>2, Zenon DEF AllDistinct
<1>6. Distinct(Dealt(Len(batch), entries, bucket, t))
  BY <1>2, <1>3, <1>5, DealtDistinct, Zenon
<1> QED
  BY <1>1, <1>4, <1>6 DEF ListIs, InBucket

(* The tasks of some jobs go through all entries these are for.            *)
JobTasks(lists, jobs) ==
    /\ WorkSound(lists, jobs)
    /\ \A job \in jobs : \A e \in EntriesOf[job] : <<job, e>> \in Pending(lists)

(* Tasks makes one of each bucket that is not empty.                       *)
LEMMA TasksSound ==
  ASSUME QueueSound, NEW job \in Jobs, NEW entries, NEW bucket,
         Holds(entries, EntriesOf[job]),
         \A e \in EntriesOf[job] : bucket[e] \in Buckets /\ BucketOf[<<job, e>>] = bucket[e]
  PROVE  JobTasks(Tasks(job, Deal(entries, bucket)), {job})
<1> DEFINE E == EntriesOf[job]
           buckets == Deal(entries, bucket)
           seqs == [t \in 1 .. Parallelism |-> Task(job, buckets[t - 1])]
           tasks == Joined(Parallelism, seqs)
<1> HIDE DEF E, buckets
<1>1. Tasks(job, buckets) = tasks
  BY DEF Tasks
<1>2. \A t \in 1 .. Parallelism : seqs[t] = IF buckets[t - 1] = <<>> THEN <<>>
                                            ELSE << [job |-> job, work |-> buckets[t - 1]] >>
  BY DEF Task
<1>3. tasks = Joined(Parallelism, seqs)
  OBVIOUS
<1>4. \A c \in Buckets : /\ buckets[c] \in Seq(Entries) /\ Distinct(buckets[c])
                         /\ Range(buckets[c]) = {e \in E : bucket[e] = c}
  BY DealHolds DEF buckets, E
<1>5. /\ Parallelism \in Nat
      /\ \A c \in 0 .. Parallelism - 1 : buckets[c] \in Seq(Entries)
      /\ \A c \in 0 .. Parallelism - 1 : buckets[c] \in Seq(Entries) /\ Distinct(buckets[c])
  BY <1>4, Constants
<1> HIDE DEF seqs, tasks
<1>6. tasks \in WorkLists(Jobs, Entries) /\ HoldBuckets(tasks, job, Parallelism, buckets)
  BY <1>2, <1>3, <1>5, PendingTasks, Zenon
<1>7. NoneTwice(tasks)
  BY <1>2, <1>3, <1>5, TasksDistinct, ZenonT(60)
<1>8. /\ Pending(tasks) = {job} \X UNION {Range(buckets[c]) : c \in Buckets}
      /\ (\A c \in Buckets : \A e \in Range(buckets[c]) : BucketOf[<<job, e>>] = c)
         => Apart(tasks, BucketOf)
  BY <1>6, Constants DEF HoldBuckets
<1>9. Apart(tasks, BucketOf)
  <2>1. ASSUME NEW c \in Buckets, NEW e \in Range(buckets[c]) PROVE BucketOf[<<job, e>>] = c
    BY <1>4 DEF E
  <2> QED BY <2>1, <1>8
<1>10. Pending(tasks) = {job} \X E
  <2>1. UNION {Range(buckets[c]) : c \in Buckets} = E
    <3>1. ASSUME NEW e \in E PROVE e \in UNION {Range(buckets[c]) : c \in Buckets}
      <4>1. bucket[e] \in Buckets
        BY DEF E
      <4>2. e \in Range(buckets[bucket[e]])
        BY <4>1, <1>4
      <4> QED BY <4>1, <4>2
    <3>2. ASSUME NEW c \in Buckets, NEW e \in Range(buckets[c]) PROVE e \in E
      BY <1>4
    <3> QED BY <3>1, <3>2
  <2> QED BY <2>1, <1>8
<1>11. \A x \in Pending(tasks) : x[1] \in {job} /\ x[2] \in EntriesOf[x[1]]
  BY <1>10 DEF E
<1>12. \A e \in EntriesOf[job] : <<job, e>> \in Pending(tasks)
  BY <1>10 DEF E
<1> QED
  BY <1>1, <1>6, <1>7, <1>9, <1>11, <1>12 DEF JobTasks, WorkSound, buckets

(* Task makes a single one.                                                *)
LEMMA TaskSound ==
  ASSUME NEW job \in Jobs, NEW work, work \in Seq(Entries), Range(work) = EntriesOf[job],
         Distinct(work)
  PROVE  JobTasks(Task(job, work), {job})
<1>1. CASE work = <<>>
  <2>1. Task(job, work) = <<>>
    BY <1>1 DEF Task
  <2>2. EntriesOf[job] = {}
    <3>1. Range(<<>>) = {}
      BY DEF Range
    <3> QED BY <3>1, <1>1
  <2>3. <<>> \in WorkLists(Jobs, Entries) /\ Pending(<<>>) = {} /\ Apart(<<>>, BucketOf)
    BY NothingPending
  <2>4. NoneTwice(<<>>)
    BY DEF NoneTwice
  <2> QED BY <2>1, <2>2, <2>3, <2>4 DEF JobTasks, WorkSound
<1>2. CASE work # <<>>
  <2> DEFINE lists == Task(job, work)
  <2>1. lists = << [job |-> job, work |-> work] >>
    BY <1>2 DEF Task
  <2>2. Len(lists) = 1 /\ lists[1].job = job /\ lists[1].work = work
    BY <2>1
  <2>3. lists \in WorkLists(Jobs, Entries)
    <3>1. [job |-> job, work |-> work] \in [job : Jobs, work : Seq(Entries)]
      OBVIOUS
    <3>2. lists \in Seq([job : Jobs, work : Seq(Entries)])
      BY <3>1, <2>1
    <3>3. \A k \in 1 .. Len(lists) : lists[k].work # <<>>
      BY <2>2, <1>2
    <3> HIDE DEF lists
    <3> QED BY <3>2, <3>3, Zenon DEF WorkLists
  <2> HIDE DEF lists
  <2>4. NoneTwice(lists) /\ Apart(lists, BucketOf)
    BY <2>2 DEF NoneTwice, Apart
  <2>5. ASSUME NEW x \in Pending(lists) PROVE x[1] \in {job} /\ x[2] \in EntriesOf[x[1]]
    <3>1. PICK k \in 1 .. Len(lists) : \E i \in 1 .. Len(lists[k].work) :
             x = <<lists[k].job, lists[k].work[i]>>
      BY PendingIs
    <3>2. k = 1
      BY <2>2
    <3>3. PICK i \in 1 .. Len(work) : x = <<job, work[i]>>
      BY <3>1, <3>2, <2>2
    <3>4. work[i] \in EntriesOf[job]
      BY DEF Range
    <3> QED BY <3>3, <3>4
  <2>6. ASSUME NEW e \in EntriesOf[job] PROVE <<job, e>> \in Pending(lists)
    <3>1. PICK i \in 1 .. Len(work) : e = work[i]
      BY DEF Range
    <3>2. 1 \in 1 .. Len(lists) /\ i \in 1 .. Len(lists[1].work)
          /\ <<job, e>> = <<lists[1].job, lists[1].work[i]>>
      BY <3>1, <2>2
    <3> QED BY <3>2, PendingIs
  <2>7. WorkSound(lists, {job})
    BY <2>3, <2>4, <2>5 DEF WorkSound
  <2> QED BY <2>6, <2>7 DEF JobTasks, lists
<1> QED
  BY <1>1, <1>2

(* Tasks of other jobs enqueued behind.                                    *)
LEMMA BothSound ==
  ASSUME NEW s, NEW A, WorkSound(s, A), NEW t, NEW B, WorkSound(t, B), A \cap B = {}
  PROVE  /\ WorkSound(s \o t, A \cup B)
         /\ Pending(s \o t) = Pending(s) \cup Pending(t)
<1>1. s \in WorkLists(Jobs, Entries) /\ t \in WorkLists(Jobs, Entries)
  BY DEF WorkSound
<1>2. /\ s \o t \in WorkLists(Jobs, Entries)
      /\ Pending(s \o t) = Pending(s) \cup Pending(t)
      /\ /\ Apart(s, BucketOf) /\ Apart(t, BucketOf)
         /\ \A x \in Pending(s), y \in Pending(t) : x[1] # y[1]
         => Apart(s \o t, BucketOf)
  BY <1>1, PendingEnqueued
<1>3. \A x \in Pending(s), y \in Pending(t) : x[1] # y[1]
  BY DEF WorkSound
<1>4. Apart(s \o t, BucketOf)
  BY <1>2, <1>3 DEF WorkSound
<1>5. ASSUME NEW x \in Pending(s \o t) PROVE x[1] \in A \cup B /\ x[2] \in EntriesOf[x[1]]
  BY <1>2 DEF WorkSound
<1>6. NoneTwice(s \o t)
  BY <1>1, EnqueuedDistinct DEF WorkSound
<1> QED
  BY <1>2, <1>4, <1>5, <1>6 DEF WorkSound

(* Complete tasks of other jobs.                                           *)
LEMMA BothComplete ==
  ASSUME NEW s, NEW A, JobTasks(s, A), NEW t, NEW B, JobTasks(t, B), A \cap B = {}
  PROVE  JobTasks(s \o t, A \cup B)
<1>1. WorkSound(s \o t, A \cup B) /\ Pending(s \o t) = Pending(s) \cup Pending(t)
  BY BothSound DEF JobTasks
<1> QED
  BY <1>1 DEF JobTasks

(* A wait leaves no entry of its jobs.                                     *)
LEMMA WaitedFor ==
  ASSUME NEW jobs, WorkSound(pool, jobs), NEW done, Waited(done)
  PROVE  WorkSound(pool, jobs \ done)
<1>1. ASSUME NEW x \in Pending(pool) PROVE x[1] \notin done
  <2>1. pool \in Seq([job : Jobs, work : Seq(Entries)])
    BY DEF WorkSound, WorkLists
  <2>2. DOMAIN pool = 1 .. Len(pool)
    BY <2>1
  <2>3. PICK k \in 1 .. Len(pool) : x[1] = pool[k].job
    BY PendingIs
  <2> QED BY <2>2, <2>3 DEF Waited
<1> QED
  BY <1>1 DEF WorkSound

(* Nothing is pending and nothing gets pending.                            *)
LEMMA NothingPhaseSound ==
  ASSUME WorkSound(pool, {}), pool' = pool, phase' \in {"collect", "full", "stopped"}
  PROVE  PhaseSound'
<1>1. pool \in WorkLists(Jobs, Entries) /\ Pending(pool) = {} /\ NoneTwice(pool)
      /\ Apart(pool, BucketOf)
  BY DEF WorkSound
<1>2. Apart(pool, BucketOf')
  BY <1>1, ApartSame
<1>3. phase' \in DOMAIN JobsIn
  BY DEF JobsIn
<1> QED
  BY <1>1, <1>2, <1>3 DEF PhaseSound, WorkSound

(* The entries of a job stay its entries.                                  *)
EntriesKept(jobs) == \A job \in jobs : EntriesOf[job] \subseteq EntriesOf'[job]

(* So the tasks fit the next state.                                        *)
LEMMA PhaseMoves ==
  ASSUME NEW jobs, WorkSound(pool', jobs), batch' = batch, EntriesKept(jobs),
         phase' \in DOMAIN JobsIn, JobsIn[phase'] = jobs
  PROVE  PhaseSound'
<1>1. BucketOf' = BucketOf
  BY DEF BucketOf, LineBucket, BucketOfLine, HomeBucket, BucketOfDistrict
<1>2. \A x \in Pending(pool') : x[1] \in jobs /\ x[2] \in EntriesOf'[x[1]]
  BY DEF WorkSound, EntriesKept
<1> QED
  BY <1>1, <1>2 DEF PhaseSound, WorkSound

(* All of them when the deliveries' orders stay found.                     *)
LEMMA FoundKept ==
  ASSUME batch' = batch, FoundEntries \subseteq FoundEntries'
  PROVE  EntriesKept(Jobs)
<1>1. /\ NewOrderEntries' = NewOrderEntries /\ PaymentEntries' = PaymentEntries
      /\ LineEntries' = LineEntries /\ DeliveryEntries' = DeliveryEntries
  BY DEF NewOrderEntries, PaymentEntries, LineEntries, DeliveryEntries, Of
<1> QED
  BY <1>1 DEF EntriesKept, EntriesOf, Jobs

-----------------------------------------------------------------------------
(* What the sub-transactions do to the rows.                               *)

(* c has the rows and the orders of d, and its lines.                      *)
Grown(d, c) ==
    /\ RowsOf(c)
    /\ DOMAIN c.order = DOMAIN d.order
    /\ DOMAIN d.line \subseteq DOMAIN c.line

(* Updates of columns that nothing else depends on.                        *)
LEMMA Updated ==
  ASSUME NEW d, RowsOf(d), NEW p, NEW i, NEW n, NEW m
  PROVE  /\ Grown(d, NewOrderSubTxn4(d, p, i))
         /\ Grown(d, PaymentSubTxn1(d, p))
         /\ Grown(d, PaymentSubTxn2(d, p))
         /\ Grown(d, PaymentSubTxn3(d, p))
         /\ Grown(d, PaymentSubTxn4(d, p))
         /\ Grown(d, DeliverySubTxn2(d, p, i, n))
         /\ Grown(d, DeliverySubTxn3(d, p, i, n))
         /\ Grown(d, DeliverySubTxn4(d, p, i, n, m))
<1>1. Grown(d, NewOrderSubTxn4(d, p, i))
  BY DEF Grown, RowsOf, NewOrderSubTxn4
<1>2. Grown(d, PaymentSubTxn1(d, p))
  BY DEF Grown, RowsOf, PaymentSubTxn1
<1>3. Grown(d, PaymentSubTxn2(d, p))
  BY DEF Grown, RowsOf, PaymentSubTxn2
<1>4. Grown(d, PaymentSubTxn3(d, p))
  BY DEF Grown, RowsOf, PaymentSubTxn3
<1>5. Grown(d, PaymentSubTxn4(d, p))
  BY DEF Grown, RowsOf, PaymentSubTxn4
<1>6. Grown(d, DeliverySubTxn2(d, p, i, n))
  BY DEF Grown, RowsOf, DeliverySubTxn2
<1>7. Grown(d, DeliverySubTxn3(d, p, i, n))
  BY DEF Grown, RowsOf, DeliverySubTxn3
<1>8. Grown(d, DeliverySubTxn4(d, p, i, n, m))
  BY DEF Grown, RowsOf, DeliverySubTxn4
<1> QED
  BY <1>1, <1>2, <1>3, <1>4, <1>5, <1>6, <1>7, <1>8

(* A new order waits for delivery when it has been inserted.               *)
LEMMA WaitsForDelivery ==
  ASSUME NEW d, RowsOf(d), NEW p, NEW n, <<p.w, p.d, n>> \in DOMAIN d.order
  PROVE  Grown(d, NewOrderSubTxn3(d, p, n))
BY DEF Grown, RowsOf, NewOrderSubTxn3

(* The oldest one waits no longer.                                         *)
LEMMA WaitsNoLonger ==
  ASSUME NEW d, RowsOf(d), NEW p, NEW i
  PROVE  Grown(d, DeliverySubTxn1(d, p, i))
<1> DEFINE c == DeliverySubTxn1(d, p, i)
           wd == <<p.w, i>>
<1>1. /\ c.newOrder \subseteq d.newOrder
      /\ DOMAIN c = DOMAIN d
      /\ c.nextOId = d.nextOId /\ c.stock = d.stock /\ c.customer = d.customer
      /\ c.order = d.order /\ c.line = d.line
  BY DEF RowsOf, DeliverySubTxn1
<1>2. c.firstNew = d.firstNew \/ c.firstNew = [d.firstNew EXCEPT ![wd] = @ + 1]
  BY DEF RowsOf, DeliverySubTxn1
<1>3. c.firstNew \in [District -> Nat \ {0}]
  <2>1. d.firstNew \in [District -> Nat \ {0}]
    BY DEF RowsOf
  <2> HIDE DEF c, wd
  <2> QED BY <1>2, <2>1
<1> HIDE DEF c
<1>4. RowsOf(c)
  BY <1>1, <1>3 DEF RowsOf
<1> QED
  BY <1>1, <1>4 DEF Grown, c

(* A new order and its id.                                                 *)
LEMMA Inserted ==
  ASSUME NEW d, RowsOf(d), NEW p, <<p.w, p.d>> \in District, p.c \in 1 .. Customers,
         NEW n, NEW c, c = NewOrderSubTxn2(NewOrderSubTxn1(d, p), p, n)
  PROVE  /\ RowsOf(c)
         /\ DOMAIN c.order = DOMAIN d.order \cup {<<p.w, p.d, n>>}
         /\ c.line = d.line
<1> DEFINE wd == <<p.w, p.d>>
           o == <<p.w, p.d, n>>
           row == [c |-> p.c, ol_cnt |-> Len(p.items), entry_d |-> p.date,
                   carrier |-> NULL_CARRIER_ID]
<1>1. /\ DOMAIN c = DOMAIN d
      /\ c.firstNew = d.firstNew /\ c.stock = d.stock /\ c.customer = d.customer
      /\ c.newOrder = d.newOrder /\ c.line = d.line
      /\ c.nextOId = [d.nextOId EXCEPT ![wd] = @ + 1]
      /\ c.order = Insert(d.order, o, row)
  BY DEF RowsOf, NewOrderSubTxn1, NewOrderSubTxn2
<1>2. DOMAIN row = {"c", "ol_cnt", "entry_d", "carrier"} /\ row.c \in 1 .. Customers
  OBVIOUS
<1> HIDE DEF wd, o, row
<1>3. /\ DOMAIN c.order = DOMAIN d.order \cup {o}
      /\ \A k \in DOMAIN c.order : (c.order[k] = d.order[k] /\ k \in DOMAIN d.order) \/ c.order[k] = row
  BY <1>1 DEF Insert, InsertRows
<1>4. c.nextOId \in [District -> Nat \ {0}]
  <2>1. d.nextOId \in [District -> Nat \ {0}] /\ wd \in District
    BY DEF RowsOf, wd
  <2>2. d.nextOId[wd] + 1 \in Nat \ {0}
    BY <2>1
  <2>3. c.nextOId = [d.nextOId EXCEPT ![wd] = @ + 1]
    BY <1>1
  <2> HIDE DEF wd
  <2> QED BY <2>1, <2>2, <2>3
<1>5. \A k \in DOMAIN c.order : /\ DOMAIN c.order[k] = {"c", "ol_cnt", "entry_d", "carrier"}
                                /\ c.order[k].c \in 1 .. Customers
  BY <1>2, <1>3 DEF RowsOf
<1>6. RowsOf(c)
  BY <1>1, <1>3, <1>4, <1>5 DEF RowsOf
<1> QED
  BY <1>1, <1>3, <1>6 DEF o

(* Its lines.                                                              *)
LEMMA LinesInserted ==
  ASSUME NEW d, RowsOf(d), NEW p, NEW n, NEW dists, NEW amounts,
         NEW len \in Nat, DOMAIN p.items = 1 .. len, \A i \in 1 .. len : amounts[i] \in Nat,
         NEW c, c = NewOrderSubTxn6(d, p, n, dists, amounts)
  PROVE  /\ Grown(d, c)
         /\ \A i \in 1 .. len : <<<<p.w, p.d, n>>, i>> \in LinesOf(c, <<p.w, p.d, n>>)
<1> DEFINE o == <<p.w, p.d, n>>
           new == {o} \X (1 .. len)
           rows == [k \in {o} \X DOMAIN p.items |->
               [item |-> p.items[k[2]][1], supply |-> p.items[k[2]][2], qty |-> Qty(p, k[2]),
                dist |-> dists[k[2]], delivery_d |-> p.date, amount |-> amounts[k[2]]]]
<1>1. /\ DOMAIN c = DOMAIN d
      /\ c.nextOId = d.nextOId /\ c.firstNew = d.firstNew /\ c.stock = d.stock
      /\ c.customer = d.customer /\ c.newOrder = d.newOrder /\ c.order = d.order
      /\ c.line = InsertRows(d.line, rows)
  BY DEF RowsOf, NewOrderSubTxn6
<1>2. DOMAIN rows = new
  OBVIOUS
<1>3. ASSUME NEW k \in new
      PROVE  /\ DOMAIN rows[k] = {"item", "supply", "qty", "dist", "delivery_d", "amount"}
             /\ rows[k].amount \in Nat
  <2>1. rows[k] = [item |-> p.items[k[2]][1], supply |-> p.items[k[2]][2], qty |-> Qty(p, k[2]),
                   dist |-> dists[k[2]], delivery_d |-> p.date, amount |-> amounts[k[2]]]
    BY <1>3
  <2>2. k[2] \in 1 .. len
    BY <1>3
  <2>3. amounts[k[2]] \in Nat
    BY <2>2
  <2> HIDE DEF rows, new
  <2> QED BY <2>1, <2>3
<1>4. IsFiniteSet(new)
  <2>1. IsFiniteSet({o}) /\ IsFiniteSet(1 .. len)
    <3>1. IsFiniteSet({o})
      BY FS_Singleton, Zenon
    <3>2. 1 \in Int /\ len \in Int
      OBVIOUS
    <3>3. IsFiniteSet(1 .. len)
      BY <3>2, FS_Interval, Zenon
    <3> QED BY <3>1, <3>3
  <2> QED BY <2>1, FS_Product
<1>5. \A i \in 1 .. len : <<o, i>> \in new /\ <<o, i>>[1] = o
  OBVIOUS
<1> HIDE DEF rows, new
<1>6. /\ DOMAIN c.line = DOMAIN d.line \cup new
      /\ \A k \in DOMAIN c.line : \/ k \in DOMAIN d.line /\ c.line[k] = d.line[k]
                                  \/ k \in new /\ c.line[k] = rows[k]
  BY <1>1, <1>2 DEF InsertRows
<1>7. IsFiniteSet(DOMAIN c.line)
  <2>1. IsFiniteSet(DOMAIN d.line)
    BY DEF RowsOf
  <2>2. IsFiniteSet(DOMAIN d.line \cup new)
    BY <2>1, <1>4, FS_Union, Zenon
  <2> QED BY <2>2, <1>6
<1>8. \A k \in DOMAIN c.line :
         /\ DOMAIN c.line[k] = {"item", "supply", "qty", "dist", "delivery_d", "amount"}
         /\ c.line[k].amount \in Nat
  BY <1>3, <1>6 DEF RowsOf
<1>9. RowsOf(c)
  BY <1>1, <1>7, <1>8 DEF RowsOf
<1>10. Grown(d, c)
  BY <1>1, <1>6, <1>9 DEF Grown
<1>11. \A i \in 1 .. len : <<o, i>> \in LinesOf(c, o)
  <2> HIDE DEF o
  <2> QED BY <1>5, <1>6 DEF LinesOf
<1> QED
  BY <1>10, <1>11 DEF o

(* A delivery's sum is a number, and so is told from None.                  *)
LEMMA AmountIs ==
  ASSUME NEW d, RowsOf(d), NEW o
  PROVE  AmountOf(d, o) \in Nat /\ AmountOf(d, o) # None
<1> DEFINE f == [k \in LinesOf(d, o) |-> d.line[k].amount]
<1>1. IsFiniteSet(LinesOf(d, o)) /\ LinesOf(d, o) \subseteq DOMAIN d.line
  BY FS_Subset DEF LinesOf, RowsOf
<1>2. DOMAIN f = LinesOf(d, o) /\ \A k \in DOMAIN f : f[k] \in Nat
  BY <1>1 DEF RowsOf
<1> HIDE DEF f
<1>3. SumFunction(f) \in Nat
  BY <1>1, <1>2, SumIsNat
<1>4. AmountOf(d, o) \in Nat
  BY <1>3 DEF f, AmountOf
<1> QED
  BY <1>4 DEF None

-----------------------------------------------------------------------------
(* What an iteration finds and leaves.                                     *)

(* The k-th task is at an entry of its job.                                *)
AtWork(k) ==
    /\ k \in 1 .. Len(pool) /\ 1 \in 1 .. Len(pool[k].work) /\ Entry(k) = pool[k].work[1]
    /\ pool[k].job \in Jobs /\ Entry(k) \in Entries
    /\ phase \in DOMAIN JobsIn /\ pool[k].job \in JobsIn[phase]
    /\ Entry(k) \in EntriesOf[pool[k].job]
    /\ <<pool[k].job, Entry(k)>> \in Pending(pool)

(* In every state an iteration may start in.                               *)
LEMMA TaskAtWork ==
  ASSUME PhaseSound, NEW k \in Active
  PROVE  AtWork(k)
<1>1. /\ pool \in WorkLists(Jobs, Entries) /\ phase \in DOMAIN JobsIn
      /\ \A x \in Pending(pool) : x[1] \in JobsIn[phase] /\ x[2] \in EntriesOf[x[1]]
  BY DEF PhaseSound, WorkSound
<1>2. k \in 1 .. Len(pool)
  <2>1. pool \in Seq([job : Jobs, work : Seq(Entries)])
    BY <1>1 DEF WorkLists
  <2>2. DOMAIN pool = 1 .. Len(pool)
    BY <2>1
  <2> QED BY <2>2 DEF Active
<1>3. /\ pool[k].job \in Jobs /\ Entry(k) \in Entries /\ Entry(k) = pool[k].work[1]
      /\ 1 \in 1 .. Len(pool[k].work) /\ <<pool[k].job, Entry(k)>> \in Pending(pool)
  BY <1>1, <1>2, FirstIsPending DEF Entry
<1>4. pool[k].job \in JobsIn[phase] /\ Entry(k) \in EntriesOf[pool[k].job]
  BY <1>1, <1>3
<1> QED
  BY <1>1, <1>2, <1>3, <1>4 DEF AtWork

(* It is at work on a batch, whose vectors are there.                      *)
LEMMA NotIdle ==
  ASSUME NEW k, AtWork(k)
  PROVE  ~Idle
BY DEF AtWork, Idle, JobsIn

(* The entry is done, and no other is touched.                             *)
Taken(k) == /\ Pending(pool') = Pending(pool) \ {<<pool[k].job, Entry(k)>>}
            /\ phase' = phase /\ batch' = batch

(* An iteration takes its entry away for good.                             *)
LEMMA IterationKeeps ==
  ASSUME QueueSound, PhaseSound, NEW k \in Active, Done(k), FoundEntries \subseteq FoundEntries'
  PROVE  QueueSound' /\ PhaseSound' /\ Taken(k)
<1>1. /\ pool \in WorkLists(Jobs, Entries) /\ WorkSound(pool, JobsIn[phase])
      /\ NoneTwice(pool) /\ Apart(pool, BucketOf) /\ phase \in DOMAIN JobsIn
  BY DEF PhaseSound, WorkSound
<1>2. k \in 1 .. Len(pool) /\ <<pool[k].job, Entry(k)>> \in Pending(pool)
  BY TaskAtWork DEF AtWork
<1>3. pool' = IF Len(pool[k].work) = 1 THEN RemoveAt(pool, k)
              ELSE [pool EXCEPT ![k].work = Tail(@)]
  BY DEF Done
<1>4. pool' \in WorkLists(Jobs, Entries) /\ LeftAfter(pool', pool, k)
  BY <1>1, <1>2, <1>3, PendingAfter, Zenon
<1>5. WithoutFirst(pool', pool, k)
  BY <1>1, <1>2, <1>3, FirstTaken, Zenon
<1>6. NoneTwice(pool') /\ <<pool[k].job, Head(pool[k].work)>> \notin Pending(pool')
  BY <1>1, <1>2, <1>5, DoneOnce, Zenon
<1>7. /\ Pending(pool') \subseteq Pending(pool)
      /\ Pending(pool) \subseteq Pending(pool') \cup {<<pool[k].job, Head(pool[k].work)>>}
      /\ Apart(pool', BucketOf)
  BY <1>1, <1>4, Zenon DEF LeftAfter
<1>8. queue' = queue /\ batch' = batch /\ phase' = phase
  BY DEF Done
<1>9. Taken(k)
  BY <1>6, <1>7, <1>8 DEF Taken, Entry
<1>10. WorkSound(pool', JobsIn[phase])
  BY <1>1, <1>4, <1>6, <1>7 DEF WorkSound
<1>11. EntriesKept(JobsIn[phase])
  <2>1. JobsIn[phase] \subseteq Jobs
    BY <1>1 DEF JobsIn, Jobs, LineJobs, PaymentJobs
  <2> QED BY <2>1, <1>8, FoundKept DEF EntriesKept
<1>12. PhaseSound'
  BY <1>1, <1>8, <1>10, <1>11, PhaseMoves
<1> QED
  BY <1>8, <1>9, <1>12 DEF QueueSound

(* An iteration sets the element of a vector it is for, and clears none.    *)
Sets(vec, new, S, unset, job, k) ==
    \A e \in S : /\ vec[e] # unset => new[e] # unset
                 /\ <<job, e>> = <<pool[k].job, Entry(k)>> => new[e] # unset

(* What there was to set is set or still to be.                            *)
LEMMA SetOrWaiting ==
  ASSUME NEW k, Taken(k), NEW vec, NEW new, NEW S, NEW unset, NEW job,
         Sets(vec, new, S, unset, job, k), NEW e \in S,
         vec[e] # unset \/ <<job, e>> \in Pending(pool)
  PROVE  new[e] # unset \/ <<job, e>> \in Pending(pool')
BY DEF Taken, Sets

(* An iteration does what VectorsFilled asks for.                          *)
Fills(k) ==
    /\ \A p \in Of("NEW_ORDER") :
          /\ <<pool[k].job, Entry(k)>> = <<"newOrder12", <<p, None>>>> => inter'.oId[p] # 0
          /\ <<pool[k].job, Entry(k)>> # <<"newOrder12", <<p, None>>>> => inter'.oId[p] = inter.oId[p]
    /\ Sets(inter.dist, inter'.dist, LineEntries, NoDist, "newOrder4", k)
    /\ Sets(inter.amount, inter'.amount, LineEntries, 0, "newOrder5", k)
    /\ phase \in {"newOrder6", "delivery2", "conflict2"} =>
          /\ FoundEntries' = FoundEntries
          /\ Sets(inter.cId, inter'.cId, FoundEntries, None, "delivery3", k)
          /\ Sets(inter.sum, inter'.sum, FoundEntries, None, "delivery2", k)

(* So the vectors stay filled.                                             *)
LEMMA FilledKept ==
  ASSUME VectorsFilled, NEW k, AtWork(k), Taken(k), Fills(k)
  PROVE  VectorsFilled'
<1>1. /\ phase' = phase /\ batch' = batch
      /\ Of("NEW_ORDER")' = Of("NEW_ORDER") /\ LineEntries' = LineEntries
  BY DEF Taken, Of, LineEntries
<1>2. ASSUME NEW p \in Of("NEW_ORDER")
      PROVE  inter'.oId[p] = 0 <=> <<"newOrder12", <<p, None>>>> \in Pending(pool')
  <2>1. inter.oId[p] = 0 <=> <<"newOrder12", <<p, None>>>> \in Pending(pool)
    BY DEF VectorsFilled, Waiting
  <2>2. CASE <<pool[k].job, Entry(k)>> = <<"newOrder12", <<p, None>>>>
    <3>1. inter'.oId[p] # 0
      BY <2>2, Zenon DEF Fills
    <3>2. <<"newOrder12", <<p, None>>>> \notin Pending(pool')
      BY <2>2 DEF Taken
    <3> QED BY <3>1, <3>2
  <2>3. CASE <<pool[k].job, Entry(k)>> # <<"newOrder12", <<p, None>>>>
    <3>1. inter'.oId[p] = inter.oId[p]
      BY <2>3, Zenon DEF Fills
    <3>2. <<"newOrder12", <<p, None>>>> \in Pending(pool') <=> <<"newOrder12", <<p, None>>>> \in Pending(pool)
      BY <2>3 DEF Taken
    <3> QED BY <3>1, <3>2, <2>1
  <2> QED BY <2>2, <2>3
<1>3. ASSUME NEW e \in LineEntries
      PROVE  /\ inter'.dist[e] # NoDist \/ <<"newOrder4", e>> \in Pending(pool')
             /\ inter'.amount[e] # 0 \/ <<"newOrder5", e>> \in Pending(pool')
  <2>1. inter.dist[e] # NoDist \/ <<"newOrder4", e>> \in Pending(pool)
    BY DEF VectorsFilled, Waiting
  <2>2. inter.amount[e] # 0 \/ <<"newOrder5", e>> \in Pending(pool)
    BY DEF VectorsFilled, Waiting
  <2>3. inter'.dist[e] # NoDist \/ <<"newOrder4", e>> \in Pending(pool')
    <3>1. Sets(inter.dist, inter'.dist, LineEntries, NoDist, "newOrder4", k)
      BY DEF Fills
    <3> QED BY <2>1, <3>1, SetOrWaiting, Zenon
  <2>4. inter'.amount[e] # 0 \/ <<"newOrder5", e>> \in Pending(pool')
    <3>1. Sets(inter.amount, inter'.amount, LineEntries, 0, "newOrder5", k)
      BY DEF Fills
    <3> QED BY <2>2, <3>1, SetOrWaiting, Zenon
  <2> QED BY <2>3, <2>4
<1>4. ASSUME phase \in {"newOrder6", "delivery2", "conflict2"}, NEW e \in FoundEntries'
      PROVE  inter'.cId[e] # None \/ <<"delivery3", e>> \in Pending(pool')
  <2>1. e \in FoundEntries /\ Sets(inter.cId, inter'.cId, FoundEntries, None, "delivery3", k)
    BY <1>4 DEF Fills
  <2>2. inter.cId[e] # None \/ <<"delivery3", e>> \in Pending(pool)
    BY <2>1, <1>4 DEF VectorsFilled, Waiting
  <2> QED BY <2>1, <2>2, SetOrWaiting, Zenon
<1>5. ASSUME phase \in {"delivery2", "conflict2"}, NEW e \in FoundEntries'
      PROVE  inter'.sum[e] # None \/ <<"delivery2", e>> \in Pending(pool')
  <2>1. e \in FoundEntries /\ Sets(inter.sum, inter'.sum, FoundEntries, None, "delivery2", k)
    BY <1>5 DEF Fills
  <2>2. inter.sum[e] # None \/ <<"delivery2", e>> \in Pending(pool)
    BY <2>1, <1>5 DEF VectorsFilled, Waiting
  <2> QED BY <2>1, <2>2, SetOrWaiting, Zenon
<1> QED
  BY <1>1, <1>2, <1>3, <1>4, <1>5 DEF VectorsFilled, Waiting

(* Orders and lines stay; an order that has no lines yet is still known by  *)
(* its new order.                                                          *)
LEMMA LinesKept ==
  ASSUME LinesSound, phase' = phase, batch' = batch, DOMAIN db.line \subseteq DOMAIN db'.line,
         \A o \in DOMAIN db'.order : o \in DOMAIN db.order \/ Unlined(o)' \/ LinesOf(db', o) # {},
         \A p \in Of("NEW_ORDER") :
            inter'.oId[p] = inter.oId[p] \/ (inter.oId[p] = 0 /\ phase = "newOrder12"),
         \A p \in Of("NEW_ORDER") :
            <<"newOrder6", <<p, None>>>> \in Pending(pool) =>
               <<"newOrder6", <<p, None>>>> \in Pending(pool') \/ LinesOf(db', OrderKey(p)) # {}
  PROVE  LinesSound'
<1> SUFFICES ASSUME NEW o \in DOMAIN db'.order PROVE LinesOf(db', o) # {} \/ Unlined(o)'
  BY DEF LinesSound
<1>1. Of("NEW_ORDER")' = Of("NEW_ORDER")
  BY DEF Of
<1>2. LinesOf(db, o) \subseteq LinesOf(db', o)
  BY DEF LinesOf
<1>3. CASE o \notin DOMAIN db.order
  BY <1>3
<1>4. CASE o \in DOMAIN db.order /\ LinesOf(db, o) # {}
  BY <1>2, <1>4
<1>5. CASE o \in DOMAIN db.order /\ Unlined(o)
  <2>1. CASE phase \in {"newOrder12", "conflict"}
    <3>1. PICK p \in Of("NEW_ORDER") : inter.oId[p] # 0 /\ OrderKey(p) = o
      BY <1>5, <2>1 DEF Unlined
    <3>2. inter'.oId[p] = inter.oId[p]
      BY <3>1
    <3>3. OrderKey(p)' = OrderKey(p)
      BY <3>2 DEF OrderKey
    <3> QED BY <1>1, <2>1, <3>1, <3>2, <3>3 DEF Unlined
  <2>2. CASE phase = "newOrder6"
    <3>1. PICK p \in Of("NEW_ORDER") : OrderKey(p) = o /\ Waiting("newOrder6", <<p, None>>)
      BY <1>5, <2>2 DEF Unlined
    <3>2. inter'.oId[p] = inter.oId[p]
      BY <2>2
    <3>3. OrderKey(p)' = OrderKey(p)
      BY <3>2 DEF OrderKey
    <3>4. <<"newOrder6", <<p, None>>>> \in Pending(pool') \/ LinesOf(db', o) # {}
      BY <3>1 DEF Waiting
    <3> QED BY <1>1, <2>2, <3>1, <3>3, <3>4 DEF Unlined, Waiting
  <2> QED BY <1>5, <2>1, <2>2 DEF Unlined
<1> QED
  BY <1>3, <1>4, <1>5 DEF LinesSound

(* Before it is at work, a vector's element that is not written stays.      *)
LEMMA SetsNothing ==
  ASSUME NEW k, NEW vec, NEW S, NEW unset, NEW job, pool[k].job # job
  PROVE  Sets(vec, vec, S, unset, job, k)
BY DEF Sets

(* The element of the entry is set.                                        *)
LEMMA SetsOne ==
  ASSUME NEW k, NEW vec, NEW S, S \subseteq DOMAIN vec, NEW unset, NEW job,
         NEW v, v # unset, NEW new, new = [vec EXCEPT ![Entry(k)] = v]
  PROVE  Sets(vec, new, S, unset, job, k)
<1> SUFFICES ASSUME NEW e \in S
             PROVE  /\ vec[e] # unset => new[e] # unset
                    /\ <<job, e>> = <<pool[k].job, Entry(k)>> => new[e] # unset
  BY DEF Sets
<1>1. CASE e = Entry(k)
  <2>1. new[e] = v
    BY <1>1
  <2> QED BY <2>1
<1>2. CASE e # Entry(k)
  <2>1. new[e] = vec[e]
    BY <1>2
  <2> QED BY <2>1, <1>2
<1> QED
  BY <1>1, <1>2

(* What the invariant says while a task is at work.                        *)
LEMMA WorkIn ==
  ASSUME IInv, NEW k \in Active
  PROVE  AtWork(k) /\ ~Idle /\ VectorsSound /\ VectorsFilled /\ RowsOf(db)
<1>1. AtWork(k)
  BY TaskAtWork DEF IInv
<1>2. ~Idle
  BY <1>1, NotIdle
<1> QED
  BY <1>1, <1>2 DEF IInv, InterSound, RowsSound

(* The parts of the invariant after an iteration.                          *)
LEMMA IterationSound ==
  ASSUME IInv, NEW k \in Active, Done(k), RowsOf(db'), VectorsSound', Fills(k), LinesSound',
         FoundEntries \subseteq FoundEntries'
  PROVE  IInv'
<1>1. AtWork(k) /\ ~Idle /\ VectorsFilled
  BY WorkIn
<1>2. QueueSound' /\ PhaseSound' /\ Taken(k)
  BY IterationKeeps DEF IInv
<1>3. VectorsFilled'
  BY <1>1, <1>2, FilledKept
<1>4. InterSound'
  BY <1>1, <1>2, <1>3 DEF InterSound, Idle, Taken
<1> QED
  BY <1>2, <1>4 DEF IInv, RowsSound

(* The iterations that take no order id and find no order; of an order that *)
(* waits for its lines, they insert them.                                  *)
ColumnsOnly(k) ==
    /\ Grown(db, db')
    /\ pool[k].job # "newOrder12"
    /\ pool[k].job = "newOrder6" => LinesOf(db', OrderKey(Entry(k)[1])) # {}
    /\ DOMAIN inter' = DOMAIN inter /\ inter'.oId = inter.oId /\ inter'.noOId = inter.noOId
    /\ DOMAIN inter'.dist = LineEntries /\ inter'.amount \in [LineEntries -> Nat]
    /\ DOMAIN inter'.cId = DOMAIN inter.cId /\ DOMAIN inter'.sum = DOMAIN inter.sum
    /\ Sets(inter.dist, inter'.dist, LineEntries, NoDist, "newOrder4", k)
    /\ Sets(inter.amount, inter'.amount, LineEntries, 0, "newOrder5", k)
    /\ Sets(inter.cId, inter'.cId, FoundEntries, None, "delivery3", k)
    /\ Sets(inter.sum, inter'.sum, FoundEntries, None, "delivery2", k)

(* They keep the invariant.                                                *)
LEMMA ColumnsOnlyKeeps ==
  ASSUME IInv, NEW k \in Active, Done(k), ColumnsOnly(k)
  PROVE  IInv'
<1>1. AtWork(k) /\ ~Idle /\ VectorsSound /\ VectorsFilled /\ RowsOf(db)
  BY WorkIn
<1>2. batch' = batch /\ phase' = phase
  BY DEF Done
<1>3. inter'.oId = inter.oId /\ inter'.noOId = inter.noOId /\ Grown(db, db')
      /\ pool[k].job # "newOrder12"
  BY DEF ColumnsOnly
<1>10. pool[k].job = "newOrder6" => LinesOf(db', OrderKey(Entry(k)[1])) # {}
  BY DEF ColumnsOnly
<1>4. FoundEntries' = FoundEntries /\ LineEntries' = LineEntries /\ DeliveryEntries' = DeliveryEntries
      /\ Of("NEW_ORDER")' = Of("NEW_ORDER")
  BY <1>2, <1>3 DEF FoundEntries, LineEntries, DeliveryEntries, Of
<1>5. QueueSound' /\ PhaseSound' /\ Taken(k)
  BY <1>4, IterationKeeps DEF IInv
<1>6. Fills(k)
  BY <1>3, <1>4 DEF Fills, ColumnsOnly
<1>7. VectorsSound'
  <2>1. DOMAIN db'.order = DOMAIN db.order
    BY <1>3 DEF Grown
  <2>2. \A p : OrderKey(p)' = OrderKey(p)
    BY <1>2, <1>3 DEF OrderKey
  <2>3. \A e : FoundKey(e)' = FoundKey(e)
    BY <1>2, <1>3 DEF FoundKey
  <2>4. {DOMAIN inter'.noOId, DOMAIN inter'.cId, DOMAIN inter'.sum} = {DeliveryEntries}
    BY <1>1, <1>3 DEF VectorsSound, ColumnsOnly
  <2>5. /\ DOMAIN inter' = {"oId", "dist", "amount", "noOId", "cId", "sum"}
        /\ inter'.oId \in [Of("NEW_ORDER") -> Nat]
        /\ DOMAIN inter'.dist = LineEntries
        /\ inter'.amount \in [LineEntries -> Nat]
    BY <1>1, <1>3 DEF VectorsSound, ColumnsOnly
  <2>6. \A p \in Of("NEW_ORDER") : inter'.oId[p] # 0 => OrderKey(p)' \in DOMAIN db'.order
    BY <1>1, <1>3, <2>1, <2>2 DEF VectorsSound
  <2>7. \A e \in FoundEntries' : FoundKey(e)' \in DOMAIN db'.order
    BY <1>1, <1>4, <2>1, <2>3 DEF VectorsSound
  <2> QED BY <1>4, <2>4, <2>5, <2>6, <2>7 DEF VectorsSound
<1>8. LinesSound'
  <2>1. DOMAIN db.line \subseteq DOMAIN db'.line /\ DOMAIN db'.order = DOMAIN db.order
    BY <1>3 DEF Grown
  <2>2. ASSUME NEW p \in Of("NEW_ORDER"), <<"newOrder6", <<p, None>>>> \in Pending(pool)
        PROVE  <<"newOrder6", <<p, None>>>> \in Pending(pool') \/ LinesOf(db', OrderKey(p)) # {}
    <3>1. CASE <<"newOrder6", <<p, None>>>> = <<pool[k].job, Entry(k)>>
      <4>1. pool[k].job = "newOrder6" /\ Entry(k)[1] = p
        BY <3>1
      <4> QED BY <4>1, <1>10
    <3>2. CASE <<"newOrder6", <<p, None>>>> # <<pool[k].job, Entry(k)>>
      BY <2>2, <3>2, <1>5 DEF Taken
    <3> QED BY <3>1, <3>2
  <2> QED BY <1>2, <1>3, <2>1, <2>2, LinesKept DEF IInv
<1>9. RowsOf(db')
  BY <1>3 DEF Grown
<1> QED
  BY <1>4, <1>6, <1>7, <1>8, <1>9, IterationSound

(* Iterations that leave nothing to later ones.                            *)
LEMMA RowsOnlyKeeps ==
  ASSUME IInv, NEW k \in Active, Done(k), Grown(db, db'), inter' = inter,
         pool[k].job \in PaymentJobs \cup {"conflict", "conflict2"}
  PROVE  IInv'
<1>1. VectorsSound
  BY WorkIn
<1>2. pool[k].job \notin {"newOrder12", "newOrder6", "newOrder4", "newOrder5", "delivery3", "delivery2"}
  BY DEF PaymentJobs
<1>3. ColumnsOnly(k)
  BY <1>1, <1>2, SetsNothing DEF ColumnsOnly, VectorsSound
<1> QED
  BY <1>3, ColumnsOnlyKeeps

-----------------------------------------------------------------------------
(* The iterations of each job.                                             *)

(* Every new order has its id when newOrder12 has been waited for.         *)
LEMMA IdsTaken ==
  ASSUME PhaseSound, VectorsSound, VectorsFilled, phase # "newOrder12", NEW p \in Of("NEW_ORDER")
  PROVE  inter.oId[p] # 0 /\ OrderKey(p) \in DOMAIN db.order
<1>1. /\ phase \in DOMAIN JobsIn
      /\ \A x \in Pending(pool) : x[1] \in JobsIn[phase]
  BY DEF PhaseSound, WorkSound
<1>2. "newOrder12" \notin JobsIn[phase]
  BY <1>1 DEF JobsIn, LineJobs, PaymentJobs
<1>3. ~Waiting("newOrder12", <<p, None>>)
  BY <1>1, <1>2 DEF Waiting
<1>4. inter.oId[p] # 0
  BY <1>3 DEF VectorsFilled
<1> QED
  BY <1>4 DEF VectorsSound

(* Every line has its stock's text and its amount when they have been       *)
(* waited for.                                                             *)
LEMMA LinesFilled ==
  ASSUME PhaseSound, VectorsFilled, phase \notin {"newOrder12", "conflict"}, NEW e \in LineEntries
  PROVE  inter.dist[e] # NoDist /\ inter.amount[e] # 0
<1>1. /\ phase \in DOMAIN JobsIn
      /\ \A x \in Pending(pool) : x[1] \in JobsIn[phase]
  BY DEF PhaseSound, WorkSound
<1>2. "newOrder4" \notin JobsIn[phase] /\ "newOrder5" \notin JobsIn[phase]
  BY <1>1 DEF JobsIn, LineJobs, PaymentJobs
<1>3. ~Waiting("newOrder4", e) /\ ~Waiting("newOrder5", e)
  BY <1>1, <1>2 DEF Waiting
<1> QED
  BY <1>3 DEF VectorsFilled

(* A line's text and amount.                                               *)
LEMMA LineResults ==
  ASSUME QueueSound, NEW e \in LineEntries
  PROVE  /\ DistInfo(batch[e[1]], e[2]) # NoDist
         /\ OlAmount(batch[e[1]], e[2]) \in Nat \ {0}
<1> DEFINE t == batch[e[1]]
           line == t.items[e[2]]
<1>1. line[1] \in 1 .. Items /\ line[2] \in 1 .. Warehouses /\ line[3] \in Nat \ {0}
  BY LineEntry, NewOrderDrawn
<1>2. DistInfo(t, e[2]) # NoDist
  BY <1>1, TpccAssumption DEF DistInfo, NoDist
<1>3. Price[line[1]] \in Nat \ {0}
  BY <1>1, TpccAssumption
<1>4. \A q, r \in Nat \ {0} : q * r \in Nat \ {0}
  OBVIOUS
<1>5. OlAmount(t, e[2]) = line[3] * Price[line[1]]
  BY DEF OlAmount, Qty
<1> HIDE DEF t, line
<1>6. OlAmount(t, e[2]) \in Nat \ {0}
  BY <1>1, <1>3, <1>4, <1>5
<1> QED
  BY <1>2, <1>6 DEF t

(* The stock of a line.                                                    *)
LEMMA NewOrder4Keeps ==
  ASSUME IInv, NEW k, NewOrder4(k)
  PROVE  IInv'
<1> DEFINE v == DistInfo(Txn(k), Entry(k)[2])
<1>1. /\ k \in Active /\ pool[k].job = "newOrder4" /\ Done(k)
      /\ db' = NewOrderSubTxn4(db, Txn(k), Entry(k)[2])
      /\ inter' = [inter EXCEPT !.dist[Entry(k)] = v]
  BY DEF NewOrder4, Iteration
<1>2. AtWork(k) /\ VectorsSound /\ RowsOf(db) /\ QueueSound
  BY <1>1, WorkIn DEF IInv
<1>3. Entry(k) \in LineEntries
  BY <1>1, <1>2 DEF AtWork, EntriesOf
<1>4. v # NoDist
  BY <1>2, <1>3, LineResults DEF Txn
<1>5. Grown(db, db')
  BY <1>1, <1>2, Updated
<1> HIDE DEF v
<1>6. /\ DOMAIN inter' = DOMAIN inter
      /\ inter'.oId = inter.oId /\ inter'.noOId = inter.noOId /\ inter'.amount = inter.amount
      /\ inter'.cId = inter.cId /\ inter'.sum = inter.sum
      /\ inter'.dist = [inter.dist EXCEPT ![Entry(k)] = v]
  BY <1>1, <1>2 DEF VectorsSound
<1>7. Sets(inter.dist, inter'.dist, LineEntries, NoDist, "newOrder4", k)
  BY <1>2, <1>4, <1>6, SetsOne DEF VectorsSound
<1>8. ColumnsOnly(k)
  BY <1>1, <1>2, <1>5, <1>6, <1>7, SetsNothing DEF ColumnsOnly, VectorsSound
<1> QED
  BY <1>1, <1>8, ColumnsOnlyKeeps

(* The amount of a line.                                                   *)
LEMMA NewOrder5Keeps ==
  ASSUME IInv, NEW k, NewOrder5(k)
  PROVE  IInv'
<1> DEFINE v == OlAmount(Txn(k), Entry(k)[2])
<1>1. /\ k \in Active /\ pool[k].job = "newOrder5" /\ Done(k) /\ db' = db
      /\ inter' = [inter EXCEPT !.amount[Entry(k)] = v]
  BY DEF NewOrder5, Iteration
<1>2. AtWork(k) /\ VectorsSound /\ RowsOf(db) /\ QueueSound
  BY <1>1, WorkIn DEF IInv
<1>3. Entry(k) \in LineEntries
  BY <1>1, <1>2 DEF AtWork, EntriesOf
<1>4. v \in Nat /\ v # 0
  BY <1>2, <1>3, LineResults DEF Txn
<1>5. Grown(db, db')
  BY <1>1, <1>2 DEF Grown
<1> HIDE DEF v
<1>6. /\ DOMAIN inter' = DOMAIN inter
      /\ inter'.oId = inter.oId /\ inter'.noOId = inter.noOId /\ inter'.dist = inter.dist
      /\ inter'.cId = inter.cId /\ inter'.sum = inter.sum
      /\ inter'.amount = [inter.amount EXCEPT ![Entry(k)] = v]
  BY <1>1, <1>2 DEF VectorsSound
<1>7. inter.amount \in [LineEntries -> Nat]
  BY <1>2 DEF VectorsSound
<1>8. inter'.amount \in [LineEntries -> Nat]
  BY <1>4, <1>6, <1>7
<1>9. Sets(inter.amount, inter'.amount, LineEntries, 0, "newOrder5", k)
  BY <1>4, <1>6, <1>7, SetsOne
<1>10. ColumnsOnly(k)
  BY <1>1, <1>2, <1>5, <1>6, <1>8, <1>9, SetsNothing DEF ColumnsOnly, VectorsSound
<1> QED
  BY <1>1, <1>10, ColumnsOnlyKeeps

(* The payment jobs.                                                       *)
LEMMA Payment123Keeps ==
  ASSUME IInv, NEW k, Payment123(k)
  PROVE  IInv'
<1>1. /\ k \in Active /\ pool[k].job \in PaymentJobs /\ Done(k) /\ inter' = inter
      /\ \/ db' = PaymentSubTxn1(db, Txn(k))
         \/ db' = PaymentSubTxn2(db, Txn(k))
         \/ db' = PaymentSubTxn3(db, Txn(k))
  BY DEF Payment123, Iteration, PaymentJobs
<1>2. RowsOf(db)
  BY <1>1, WorkIn
<1>3. Grown(db, db')
  <2>1. CASE db' = PaymentSubTxn1(db, Txn(k))
    BY <2>1, <1>2, Updated
  <2>2. CASE db' = PaymentSubTxn2(db, Txn(k))
    BY <2>2, <1>2, Updated
  <2>3. CASE db' = PaymentSubTxn3(db, Txn(k))
    BY <2>3, <1>2, Updated
  <2> QED BY <1>1, <2>1, <2>2, <2>3
<1> QED
  BY <1>1, <1>3, RowsOnlyKeeps

(* A customer's payment.                                                   *)
LEMMA Payment4Keeps ==
  ASSUME IInv, NEW k, Payment4(k)
  PROVE  IInv'
<1>1. /\ k \in Active /\ pool[k].job = "conflict2" /\ Done(k) /\ inter' = inter
      /\ db' = PaymentSubTxn4(db, Txn(k))
  BY DEF Payment4, Iteration
<1>2. RowsOf(db)
  BY <1>1, WorkIn
<1>3. Grown(db, db')
  BY <1>1, <1>2, Updated
<1> QED
  BY <1>1, <1>3, RowsOnlyKeeps

(* What a customer is charged for the delivery.                            *)
LEMMA Delivery4Keeps ==
  ASSUME IInv, NEW k, Delivery4(k)
  PROVE  IInv'
<1>1. /\ k \in Active /\ pool[k].job = "conflict2" /\ Done(k) /\ inter' = inter
      /\ db' = DeliverySubTxn4(db, Txn(k), Entry(k)[2], inter.sum[Entry(k)], inter.cId[Entry(k)])
  BY DEF Delivery4, Iteration
<1>2. RowsOf(db)
  BY <1>1, WorkIn
<1>3. Grown(db, db')
  BY <1>1, <1>2, Updated
<1> QED
  BY <1>1, <1>3, RowsOnlyKeeps

(* A new order waits for delivery: it has been inserted.                   *)
LEMMA NewOrder3Keeps ==
  ASSUME IInv, NEW k, NewOrder3(k)
  PROVE  IInv'
<1> DEFINE p == Entry(k)[1]
<1>1. /\ k \in Active /\ pool[k].job = "conflict" /\ Done(k) /\ inter' = inter
      /\ Entry(k)[2] = None /\ db' = NewOrderSubTxn3(db, Txn(k), inter.oId[p])
  BY DEF NewOrder3, Iteration
<1>2. AtWork(k) /\ VectorsSound /\ VectorsFilled /\ RowsOf(db) /\ PhaseSound
  BY <1>1, WorkIn DEF IInv
<1>3. phase = "conflict"
  BY <1>1, <1>2 DEF AtWork, JobsIn, LineJobs, PaymentJobs
<1>4. p \in Of("NEW_ORDER")
  <2>1. Entry(k) \in NewOrderEntries \cup DeliveryEntries
    BY <1>1, <1>2 DEF AtWork, EntriesOf
  <2>2. Entry(k) \notin DeliveryEntries
    BY <1>1 DEF DeliveryEntries, None
  <2> QED BY <2>1, <2>2 DEF NewOrderEntries
<1>5. OrderKey(p) \in DOMAIN db.order
  BY <1>2, <1>3, <1>4, IdsTaken
<1>6. <<Txn(k).w, Txn(k).d, inter.oId[p]>> \in DOMAIN db.order
  BY <1>5 DEF OrderKey, Txn
<1>7. Grown(db, db')
  BY <1>1, <1>2, <1>6, WaitsForDelivery
<1> QED
  BY <1>1, <1>7, RowsOnlyKeeps

(* The order a delivery has found exists.                                  *)
LEMMA FoundOrder ==
  ASSUME VectorsSound, NEW k, Entry(k) \in FoundEntries
  PROVE  OrderOf(k) \in DOMAIN db.order
<1>1. OrderOf(k) = FoundKey(Entry(k))
  BY DEF OrderOf, FoundKey, Txn
<1> QED
  BY <1>1 DEF VectorsSound

(* The carrier of a delivered order, and its customer.                     *)
LEMMA Delivery3Keeps ==
  ASSUME IInv, NEW k, Delivery3(k)
  PROVE  IInv'
<1> DEFINE v == db.order[OrderOf(k)].c
<1>1. /\ k \in Active /\ pool[k].job = "delivery3" /\ Done(k)
      /\ db' = DeliverySubTxn3(db, Txn(k), Entry(k)[2], OrderOf(k)[3])
      /\ inter' = [inter EXCEPT !.cId[Entry(k)] = v]
  BY DEF Delivery3, Iteration
<1>2. AtWork(k) /\ VectorsSound /\ RowsOf(db)
  BY <1>1, WorkIn
<1>3. Entry(k) \in FoundEntries
  BY <1>1, <1>2 DEF AtWork, EntriesOf
<1>4. v # None
  <2>1. OrderOf(k) \in DOMAIN db.order
    BY <1>2, <1>3, FoundOrder
  <2>2. v \in 1 .. Customers
    BY <1>2, <2>1 DEF RowsOf
  <2> QED BY <2>2, TpccAssumption DEF None
<1>5. Grown(db, db')
  BY <1>1, <1>2, Updated
<1> HIDE DEF v
<1>6. /\ DOMAIN inter' = DOMAIN inter
      /\ inter'.oId = inter.oId /\ inter'.noOId = inter.noOId /\ inter'.dist = inter.dist
      /\ inter'.amount = inter.amount /\ inter'.sum = inter.sum
      /\ inter'.cId = [inter.cId EXCEPT ![Entry(k)] = v]
  BY <1>1, <1>2 DEF VectorsSound
<1>7. FoundEntries \subseteq DOMAIN inter.cId
  BY <1>2 DEF VectorsSound, FoundEntries
<1>8. Sets(inter.cId, inter'.cId, FoundEntries, None, "delivery3", k)
  BY <1>4, <1>6, <1>7, SetsOne
<1>9. ColumnsOnly(k)
  BY <1>1, <1>2, <1>5, <1>6, <1>8, SetsNothing DEF ColumnsOnly, VectorsSound
<1> QED
  BY <1>1, <1>9, ColumnsOnlyKeeps

(* The date of its lines, and their sum.                                   *)
LEMMA Delivery2Keeps ==
  ASSUME IInv, NEW k, Delivery2(k)
  PROVE  IInv'
<1> DEFINE v == AmountOf(db, OrderOf(k))
<1>1. /\ k \in Active /\ pool[k].job = "delivery2" /\ Done(k)
      /\ db' = DeliverySubTxn2(db, Txn(k), Entry(k)[2], OrderOf(k)[3])
      /\ inter' = [inter EXCEPT !.sum[Entry(k)] = v]
  BY DEF Delivery2, Iteration
<1>2. AtWork(k) /\ VectorsSound /\ RowsOf(db)
  BY <1>1, WorkIn
<1>3. Entry(k) \in FoundEntries
  BY <1>1, <1>2 DEF AtWork, EntriesOf
<1>4. v # None
  BY <1>2, AmountIs
<1>5. Grown(db, db')
  BY <1>1, <1>2, Updated
<1> HIDE DEF v
<1>6. /\ DOMAIN inter' = DOMAIN inter
      /\ inter'.oId = inter.oId /\ inter'.noOId = inter.noOId /\ inter'.dist = inter.dist
      /\ inter'.amount = inter.amount /\ inter'.cId = inter.cId
      /\ inter'.sum = [inter.sum EXCEPT ![Entry(k)] = v]
  BY <1>1, <1>2 DEF VectorsSound
<1>7. FoundEntries \subseteq DOMAIN inter.sum
  BY <1>2 DEF VectorsSound, FoundEntries
<1>8. Sets(inter.sum, inter'.sum, FoundEntries, None, "delivery2", k)
  BY <1>4, <1>6, <1>7, SetsOne
<1>9. ColumnsOnly(k)
  BY <1>1, <1>2, <1>5, <1>6, <1>8, SetsNothing DEF ColumnsOnly, VectorsSound
<1> QED
  BY <1>1, <1>9, ColumnsOnlyKeeps

(* The lines of an order.                                                  *)
LEMMA NewOrder6Keeps ==
  ASSUME IInv, NEW k, NewOrder6(k)
  PROVE  IInv'
<1> DEFINE p == Entry(k)[1]
           t == batch[p]
           len == Len(t.items)
           dists == [i \in DOMAIN t.items |-> inter.dist[<<p, i>>]]
           amounts == [i \in DOMAIN t.items |-> inter.amount[<<p, i>>]]
<1>1. /\ k \in Active /\ pool[k].job = "newOrder6" /\ Done(k) /\ inter' = inter
      /\ db' = NewOrderSubTxn6(db, t, inter.oId[p], dists, amounts)
  BY DEF NewOrder6, Iteration, Txn
<1> HIDE DEF t, len, dists, amounts
<1>2. AtWork(k) /\ VectorsSound /\ RowsOf(db) /\ QueueSound
  BY <1>1, WorkIn DEF IInv
<1>3. p \in Of("NEW_ORDER")
  <2>1. Entry(k) \in NewOrderEntries
    BY <1>1, <1>2 DEF AtWork, EntriesOf
  <2> QED BY <2>1 DEF NewOrderEntries
<1>4. len \in Nat \ {0} /\ DOMAIN t.items = 1 .. len
  BY <1>2, <1>3, NewOrderDrawn DEF t, len
<1>5. ASSUME NEW i \in 1 .. len PROVE amounts[i] \in Nat
  <2>1. <<p, i>> \in LineEntries
    BY <1>3, <1>4 DEF LineEntries, t
  <2>2. inter.amount[<<p, i>>] \in Nat
    BY <2>1, <1>2 DEF VectorsSound
  <2> QED BY <2>2, <1>4 DEF amounts
<1>6. /\ Grown(db, db')
      /\ \A i \in 1 .. len :
            <<<<t.w, t.d, inter.oId[p]>>, i>> \in LinesOf(db', <<t.w, t.d, inter.oId[p]>>)
  BY <1>1, <1>2, <1>4, <1>5, LinesInserted
<1>7. LinesOf(db', OrderKey(p)) # {}
  <2>1. 1 \in 1 .. len
    BY <1>4
  <2>2. OrderKey(p) = <<t.w, t.d, inter.oId[p]>>
    BY DEF OrderKey, t
  <2> QED BY <1>6, <2>1, <2>2
<1>8. ColumnsOnly(k)
  BY <1>1, <1>2, <1>6, <1>7, SetsNothing DEF ColumnsOnly, VectorsSound
<1> QED
  BY <1>1, <1>8, ColumnsOnlyKeeps

(* The oldest order of a district that waits for delivery.                 *)
LEMMA Delivery1Keeps ==
  ASSUME IInv, NEW k, Delivery1(k)
  PROVE  IInv'
<1> DEFINE d == Entry(k)[2]
           v == db.firstNew[<<Txn(k).w, d>>]
<1>1. /\ k \in Active /\ pool[k].job = "conflict" /\ Done(k) /\ d # None
      /\ db' = DeliverySubTxn1(db, Txn(k), d)
      /\ inter' = IF HasNewOrder(db, Txn(k), d) THEN [inter EXCEPT !.noOId[Entry(k)] = v] ELSE inter
  BY DEF Delivery1, Iteration
<1>2. AtWork(k) /\ VectorsSound /\ RowsOf(db) /\ QueueSound /\ LinesSound
  BY <1>1, WorkIn DEF IInv
<1>3. Entry(k) \in DeliveryEntries
  <2>1. Entry(k) \in NewOrderEntries \cup DeliveryEntries
    BY <1>1, <1>2 DEF AtWork, EntriesOf
  <2>2. Entry(k) \notin NewOrderEntries
    BY <1>1 DEF NewOrderEntries
  <2> QED BY <2>1, <2>2
<1>4. Grown(db, db')
  BY <1>1, <1>2, WaitsNoLonger
<1>5. CASE ~HasNewOrder(db, Txn(k), d)
  <2>1. inter' = inter
    BY <1>1, <1>5
  <2> QED BY <1>1, <1>4, <2>1, RowsOnlyKeeps
<1>6. CASE HasNewOrder(db, Txn(k), d)
  <2>1. Entry(k)[1] \in Of("DELIVERY") /\ d \in 1 .. Districts
    BY <1>3 DEF DeliveryEntries
  <2>2. <<Txn(k).w, d>> \in District
    BY <1>2, <2>1, DeliveryDrawn DEF Txn
  <2>3. v # None
    <3>1. v \in Nat \ {0}
      BY <1>2, <2>2 DEF RowsOf
    <3> QED BY <3>1 DEF None
  <2>4. <<Txn(k).w, d, v>> \in DOMAIN db.order
    BY <1>2, <1>6 DEF HasNewOrder, OldestNewOrder, RowsOf
  <2>i. inter' = [inter EXCEPT !.noOId[Entry(k)] = v]
    BY <1>1, <1>6
  <2> HIDE DEF v, d
  <2>5. /\ DOMAIN inter' = DOMAIN inter
        /\ inter'.oId = inter.oId /\ inter'.dist = inter.dist /\ inter'.amount = inter.amount
        /\ inter'.cId = inter.cId /\ inter'.sum = inter.sum
        /\ inter'.noOId = [inter.noOId EXCEPT ![Entry(k)] = v]
    BY <1>2, <2>i DEF VectorsSound
  <2>6. /\ DOMAIN inter.noOId = DeliveryEntries /\ DOMAIN inter'.noOId = DeliveryEntries
        /\ DOMAIN inter.cId = DeliveryEntries /\ DOMAIN inter.sum = DeliveryEntries
    BY <1>2, <2>5 DEF VectorsSound
  <2>7. /\ inter'.noOId[Entry(k)] = v
        /\ \A e \in DeliveryEntries : e # Entry(k) => inter'.noOId[e] = inter.noOId[e]
    BY <1>3, <2>5, <2>6
  <2>8. batch' = batch /\ phase' = phase
    BY <1>1 DEF Done
  <2>9. /\ DeliveryEntries' = DeliveryEntries /\ LineEntries' = LineEntries
        /\ Of("NEW_ORDER")' = Of("NEW_ORDER")
    BY <2>8 DEF DeliveryEntries, LineEntries, Of
  <2>10. FoundEntries \subseteq FoundEntries' /\ FoundEntries' \subseteq FoundEntries \cup {Entry(k)}
    BY <2>3, <2>7, <2>9 DEF FoundEntries
  <2>11. DOMAIN db'.order = DOMAIN db.order /\ RowsOf(db') /\ DOMAIN db.line \subseteq DOMAIN db'.line
    BY <1>4 DEF Grown
  <2>12. VectorsSound'
    <3>1. ASSUME NEW e \in FoundEntries' PROVE FoundKey(e)' \in DOMAIN db'.order
      <4>1. CASE e = Entry(k)
        <5>1. FoundKey(e)' = <<Txn(k).w, d, v>>
          BY <4>1, <2>7, <2>8 DEF FoundKey, Txn, d
        <5> QED BY <5>1, <2>4, <2>11
      <4>2. CASE e # Entry(k)
        <5>1. e \in FoundEntries
          BY <4>2, <2>10
        <5>2. e \in DeliveryEntries
          BY <5>1 DEF FoundEntries
        <5>3. FoundKey(e)' = FoundKey(e)
          BY <4>2, <5>2, <2>7, <2>8 DEF FoundKey
        <5> QED BY <5>1, <5>3, <1>2, <2>11 DEF VectorsSound
      <4> QED BY <4>1, <4>2
    <3>2. \A p : OrderKey(p)' = OrderKey(p)
      BY <2>5, <2>8 DEF OrderKey
    <3>3. \A p \in Of("NEW_ORDER") : inter'.oId[p] # 0 => OrderKey(p)' \in DOMAIN db'.order
      BY <1>2, <2>5, <2>11, <3>2 DEF VectorsSound
    <3>4. {DOMAIN inter'.noOId, DOMAIN inter'.cId, DOMAIN inter'.sum} = {DeliveryEntries}
      BY <2>5, <2>6
    <3>5. /\ DOMAIN inter' = {"oId", "dist", "amount", "noOId", "cId", "sum"}
          /\ inter'.oId \in [Of("NEW_ORDER") -> Nat]
          /\ DOMAIN inter'.dist = LineEntries
          /\ inter'.amount \in [LineEntries -> Nat]
      BY <1>2, <2>5 DEF VectorsSound
    <3> QED BY <2>9, <3>1, <3>3, <3>4, <3>5 DEF VectorsSound
  <2>13. phase = "conflict"
    BY <1>1, <1>2 DEF AtWork, JobsIn, LineJobs, PaymentJobs
  <2>14. Fills(k)
    BY <1>1, <2>5, <2>13, SetsNothing DEF Fills
  <2>15. LinesSound'
    <3>1. QueueSound' /\ PhaseSound' /\ Taken(k)
      BY <1>1, <2>10, IterationKeeps, SMTT(40) DEF IInv
    <3>2. ASSUME NEW p \in Of("NEW_ORDER"), <<"newOrder6", <<p, None>>>> \in Pending(pool)
          PROVE  <<"newOrder6", <<p, None>>>> \in Pending(pool')
      BY <1>1, <3>1, <3>2, SMTT(40) DEF Taken
    <3> QED BY <1>2, <2>5, <2>8, <2>11, <3>2, LinesKept
  <2> QED BY <1>1, <2>10, <2>11, <2>12, <2>14, <2>15, IterationSound
<1> QED
  BY <1>5, <1>6

(* A new order takes its id and is inserted; its lines come later.         *)
LEMMA NewOrder12Keeps ==
  ASSUME IInv, NEW k, NewOrder12(k)
  PROVE  IInv'
<1>1. AtWork(k) /\ VectorsSound /\ VectorsFilled /\ RowsOf(db) /\ QueueSound /\ LinesSound
      /\ pool[k].job = "newOrder12"
  BY WorkIn DEF IInv, NewOrder12, Iteration
<1>2. Entry(k) \in NewOrderEntries
  BY <1>1 DEF AtWork, EntriesOf
<1>3. phase = "newOrder12"
  BY <1>1 DEF AtWork, JobsIn, LineJobs, PaymentJobs
<1> PICK p, t, v, o : /\ p = Entry(k)[1] /\ t = batch[p]
                      /\ v = db.nextOId[<<t.w, t.d>>] /\ o = <<t.w, t.d, v>>
  OBVIOUS
<1>4. /\ k \in Active /\ pool[k].job = "newOrder12" /\ Done(k)
      /\ db' = NewOrderSubTxn2(NewOrderSubTxn1(db, t), t, v)
      /\ inter' = [inter EXCEPT !.oId[p] = v]
  BY DEF NewOrder12, Iteration, Txn
<1>5. p \in Of("NEW_ORDER") /\ Entry(k) = <<p, None>>
  BY <1>2 DEF NewOrderEntries
<1>6. <<t.w, t.d>> \in District /\ t.c \in 1 .. Customers
  BY <1>1, <1>2, <1>5, NewOrderDrawn
<1>7. v \in Nat \ {0}
  BY <1>1, <1>6 DEF RowsOf
<1>8. RowsOf(db') /\ DOMAIN db'.order = DOMAIN db.order \cup {o} /\ db'.line = db.line
  <2>1. RowsOf(db)
    BY <1>1
  <2>2. db' = NewOrderSubTxn2(NewOrderSubTxn1(db, t), t, v)
    BY <1>4, SMTT(40)
  <2>3. /\ RowsOf(db')
        /\ DOMAIN db'.order = DOMAIN db.order \cup {<<t.w, t.d, v>>}
        /\ db'.line = db.line
    BY <2>1, <2>2, <1>6, Inserted, SMTT(60)
  <2> QED BY <2>3
<1>9. inter.oId[p] = 0
  BY <1>4, <1>1, <1>2, <1>5 DEF AtWork, VectorsFilled, Waiting
<1>10. /\ DOMAIN inter' = DOMAIN inter
      /\ inter'.dist = inter.dist /\ inter'.amount = inter.amount /\ inter'.noOId = inter.noOId
      /\ inter'.cId = inter.cId /\ inter'.sum = inter.sum
      /\ inter'.oId = [inter.oId EXCEPT ![p] = v]
  BY <1>4, <1>1 DEF VectorsSound
<1>11. inter.oId \in [Of("NEW_ORDER") -> Nat]
  BY <1>1 DEF VectorsSound
<1>12. /\ inter'.oId \in [Of("NEW_ORDER") -> Nat] /\ inter'.oId[p] = v
       /\ \A q \in Of("NEW_ORDER") : q # p => inter'.oId[q] = inter.oId[q]
  BY <1>2, <1>5, <1>7, <1>10, <1>11
<1>13. batch' = batch /\ phase' = phase
  BY <1>4 DEF Done
<1>14. /\ DeliveryEntries' = DeliveryEntries /\ LineEntries' = LineEntries
       /\ Of("NEW_ORDER")' = Of("NEW_ORDER") /\ FoundEntries' = FoundEntries
  BY <1>10, <1>13 DEF DeliveryEntries, LineEntries, FoundEntries, Of
<1>15. OrderKey(p)' = o
  BY <1>12, <1>13 DEF OrderKey
<1>16. VectorsSound'
  <2>1. ASSUME NEW q \in Of("NEW_ORDER"), inter'.oId[q] # 0
        PROVE  OrderKey(q)' \in DOMAIN db'.order
    <3>1. CASE q = p
      BY <3>1, <1>8, <1>15
    <3>2. CASE q # p
      <4>1. OrderKey(q)' = OrderKey(q) /\ inter.oId[q] # 0
        BY <2>1, <3>2, <1>12, <1>13 DEF OrderKey
      <4> QED BY <4>1, <1>1, <1>8 DEF VectorsSound
    <3> QED BY <3>1, <3>2
  <2>2. \A e : FoundKey(e)' = FoundKey(e)
    BY <1>10, <1>13 DEF FoundKey
  <2>3. \A e \in FoundEntries' : FoundKey(e)' \in DOMAIN db'.order
    BY <2>2, <1>1, <1>8, <1>14 DEF VectorsSound
  <2>4. {DOMAIN inter'.noOId, DOMAIN inter'.cId, DOMAIN inter'.sum} = {DeliveryEntries}
    BY <1>1, <1>10, SMTT(40) DEF VectorsSound
  <2>5. /\ DOMAIN inter' = {"oId", "dist", "amount", "noOId", "cId", "sum"}
        /\ DOMAIN inter'.dist = LineEntries
        /\ inter'.amount \in [LineEntries -> Nat]
    BY <1>1, <1>10, SMTT(40) DEF VectorsSound
  <2> QED BY <2>1, <2>3, <2>4, <2>5, <1>12, <1>14 DEF VectorsSound
<1>17. Fills(k)
  <2>1. ASSUME NEW q \in Of("NEW_ORDER")
        PROVE  /\ <<pool[k].job, Entry(k)>> = <<"newOrder12", <<q, None>>>> => inter'.oId[q] # 0
               /\ <<pool[k].job, Entry(k)>> # <<"newOrder12", <<q, None>>>> => inter'.oId[q] = inter.oId[q]
    BY <1>4, <1>2, <1>5, <1>7, <1>12
  <2> QED BY <2>1, <1>4, <1>3, <1>10, SetsNothing DEF Fills
<1>18. LinesSound'
  <2>1. QueueSound' /\ PhaseSound' /\ Taken(k)
    BY <1>4, <1>14, IterationKeeps DEF IInv
  <2>2. ASSUME NEW q \in Of("NEW_ORDER"), <<"newOrder6", <<q, None>>>> \in Pending(pool)
        PROVE  <<"newOrder6", <<q, None>>>> \in Pending(pool')
    BY <1>4, <2>1, <2>2 DEF Taken
  <2>3. Unlined(o)'
    BY <1>2, <1>5, <1>3, <1>7, <1>12, <1>13, <1>14, <1>15 DEF Unlined
  <2>4. \A r \in DOMAIN db'.order : r \in DOMAIN db.order \/ Unlined(r)'
    BY <1>8, <2>3
  <2>5. \A q \in Of("NEW_ORDER") :
           inter'.oId[q] = inter.oId[q] \/ (inter.oId[q] = 0 /\ phase = "newOrder12")
    BY <1>3, <1>9, <1>12
  <2> QED BY <1>1, <1>8, <1>13, <2>2, <2>4, <2>5, LinesKept
<1> QED
  BY <1>4, <1>8, <1>14, <1>16, <1>17, <1>18, IterationSound

(* Any iteration of any task.                                              *)
LEMMA WorkKeeps ==
  ASSUME IInv, NEW k, Work(k)
  PROVE  IInv'
BY NewOrder4Keeps, NewOrder12Keeps, NewOrder5Keeps, Payment123Keeps, NewOrder3Keeps,
   Delivery1Keeps, Delivery3Keeps, NewOrder6Keeps, Delivery2Keeps, Delivery4Keeps,
   Payment4Keeps DEF Work

-----------------------------------------------------------------------------
(* The main thread.                                                        *)

(* There are finitely many populated orders.                               *)
LEMMA OrdersFinite == IsFiniteSet(OrderKeys(1 .. Customers))
<1> DEFINE S == District \X (1 .. Customers)
           T == OrderKeys(1 .. Customers)
           f == [x \in S |-> <<x[1][1], x[1][2], x[2]>>]
<1>1. \A n \in Int : IsFiniteSet(1 .. n)
  BY FS_Interval
<1>2. IsFiniteSet((1 .. Warehouses) \X (1 .. Districts)) /\ IsFiniteSet(1 .. Customers)
  <2>1. /\ IsFiniteSet(1 .. Warehouses) /\ IsFiniteSet(1 .. Districts)
        /\ IsFiniteSet(1 .. Customers)
    BY <1>1, TpccAssumption
  <2> QED BY <2>1, FS_Product, Zenon
<1>3. IsFiniteSet(S)
  BY <1>2, FS_Product, Zenon DEF District
<1>4. \A x \in S : f[x] \in T
  BY DEF OrderKeys
<1>5. \A o \in T : \E x \in S : f[x] = o
  <2> TAKE o \in T
  <2>1. PICK wd \in District, n \in 1 .. Customers : o = <<wd[1], wd[2], n>>
    BY DEF OrderKeys
  <2>2. <<wd, n>> \in S /\ f[<<wd, n>>] = o
    BY <2>1
  <2> QED BY <2>2
<1>6. f \in [S -> T]
  BY <1>4
<1> HIDE DEF S, T, f
<1>7. f \in Surjection(S, T)
  BY <1>5, <1>6, Zenon DEF Surjection
<1> QED
  BY <1>3, <1>7, FS_Surjection, Zenon DEF T

(* The population has the rows, and every order its lines.                 *)
LEMMA PopulatedSound ==
  /\ RowsOf(Populated)
  /\ \A o \in DOMAIN Populated.order : LinesOf(Populated, o) # {}
<1> DEFINE O == OrderKeys(1 .. Customers)
           N == 1 .. InitialLines
           d == Populated
<1>1. /\ DOMAIN d = {"nextOId", "dYtd", "wYtd", "firstNew", "newOrder", "order", "line", "stock",
                     "customer", "history"}
      /\ d.nextOId = [wd \in District |-> Customers + 1]
      /\ d.firstNew = [wd \in District |-> InitialNewOrderId]
      /\ DOMAIN d.stock = Stock /\ DOMAIN d.customer = O
      /\ d.newOrder \subseteq O
      /\ d.order = [k \in O |-> OrderRow(k)]
      /\ d.line = [k \in O \X N |-> OrderLineRow(k[1])]
  BY DEF Populated
<1> HIDE DEF d
<1>2. Customers + 1 \in Nat \ {0} /\ InitialNewOrderId \in Nat \ {0} /\ 1 \in N
      /\ InitialAmount \in Nat
  BY TpccAssumption DEF InitialNewOrderId
<1>3. IsFiniteSet(O \X N)
  <2>1. IsFiniteSet(N)
    <3>1. 1 \in Int /\ InitialLines \in Int
      BY TpccAssumption
    <3> QED BY <3>1, FS_Interval, Zenon
  <2> QED BY <2>1, OrdersFinite, FS_Product, Zenon
<1>4. \A o \in O : OrderRow(o).c \in 1 .. Customers
                   /\ DOMAIN OrderRow(o) = {"c", "ol_cnt", "entry_d", "carrier"}
  <2> TAKE o \in O
  <2>1. o[3] \in 1 .. Customers
    BY DEF OrderKeys
  <2> QED BY <2>1 DEF OrderRow
<1>5. \A o : /\ DOMAIN OrderLineRow(o) = {"item", "supply", "qty", "dist", "delivery_d", "amount"}
             /\ OrderLineRow(o).amount \in Nat
  BY <1>2 DEF OrderLineRow
<1>6. \A o \in O : <<o, 1>> \in O \X N /\ <<o, 1>>[1] = o
  BY <1>2
<1> HIDE DEF O, N
<1>7. RowsOf(d)
  <2>1. \A o \in O : d.order[o] = OrderRow(o)
    BY <1>1
  <2>2. \A k \in O \X N : d.line[k] = OrderLineRow(k[1])
    BY <1>1
  <2>3. DOMAIN d.order = O /\ DOMAIN d.line = O \X N
    BY <1>1
  <2>4. d.nextOId \in [District -> Nat \ {0}] /\ d.firstNew \in [District -> Nat \ {0}]
    BY <1>1, <1>2
  <2>5. \A o \in DOMAIN d.order : /\ DOMAIN d.order[o] = {"c", "ol_cnt", "entry_d", "carrier"}
                                  /\ d.order[o].c \in 1 .. Customers
    BY <2>1, <2>3, <1>4
  <2>6. \A k \in DOMAIN d.line :
          /\ DOMAIN d.line[k] = {"item", "supply", "qty", "dist", "delivery_d", "amount"}
          /\ d.line[k].amount \in Nat
    BY <2>2, <2>3, <1>5
  <2>7. IsFiniteSet(DOMAIN d.line) /\ d.newOrder \subseteq DOMAIN d.order
    BY <2>3, <1>3, <1>1
  <2>8. DOMAIN d.stock = Stock /\ DOMAIN d.customer = OrderKeys(1 .. Customers)
    BY <1>1 DEF O
  <2>9. DOMAIN d = {"nextOId", "dYtd", "wYtd", "firstNew", "newOrder", "order", "line", "stock",
                    "customer", "history"}
    BY <1>1
  <2> QED BY <2>4, <2>5, <2>6, <2>7, <2>8, <2>9 DEF RowsOf
<1>8. \A o \in DOMAIN d.order : LinesOf(d, o) # {}
  BY <1>1, <1>6 DEF LinesOf
<1> QED
  BY <1>7, <1>8 DEF d

(* Before the first batch there are no tasks.                              *)
LEMMA InitSound ==
  ASSUME Init
  PROVE  IInv
<1>1. QueueSound
  <2>1. <<>> \in Seq(Queued)
    OBVIOUS
  <2> QED BY <2>1, QueueAssumption DEF Init, BatchInit, QueueSound
<1>2. phase = "collect" /\ pool = <<>> /\ db = Populated /\ inter = NoInter
  BY DEF Init, BatchInit
<1>3. PhaseSound
  <2>1. WorkSound(<<>>, {})
    <3>1. NoneTwice(<<>>)
      BY DEF NoneTwice
    <3> QED BY <3>1, NothingPending DEF WorkSound
  <2> QED BY <2>1, <1>2 DEF PhaseSound, JobsIn
<1>4. RowsSound /\ LinesSound
  BY <1>2, PopulatedSound DEF RowsSound, LinesSound
<1>5. InterSound
  BY <1>2 DEF InterSound, Idle
<1> QED
  BY <1>1, <1>3, <1>4, <1>5 DEF IInv

(* While there are no tasks, every order has its lines.                    *)
LEMMA AllLined ==
  ASSUME LinesSound, phase \notin {"newOrder12", "conflict", "newOrder6"}
  PROVE  \A o \in DOMAIN db.order : LinesOf(db, o) # {}
BY DEF LinesSound, Unlined

(* A batch is collected while there are no tasks.                          *)
LEMMA CollectKeeps ==
  ASSUME IInv, Collect
  PROVE  IInv'
<1>1. /\ phase = "collect" /\ queue # <<>> /\ phase' \in {"collect", "full"}
      /\ batch' = Append(batch, Head(queue)) /\ queue' = Tail(queue)
      /\ pool' = pool /\ db' = db /\ inter' = inter
  BY DEF Collect, TakeTxn
<1>2. QueueSound'
  <2>1. Head(queue) \in Queued /\ Tail(queue) \in Seq(Queued)
    BY <1>1, HeadTailProperties DEF IInv, QueueSound
  <2>2. Append(batch, Head(queue)) \in Seq(Queued)
    BY <2>1, AppendProperties DEF IInv, QueueSound
  <2> QED BY <1>1, <2>1, <2>2 DEF QueueSound
<1>3. WorkSound(pool, {})
  BY <1>1 DEF IInv, PhaseSound, JobsIn
<1>4. PhaseSound'
  BY <1>1, <1>3, NothingPhaseSound
<1>5. RowsSound' /\ InterSound'
  BY <1>1 DEF IInv, RowsSound, InterSound, Idle
<1>6. LinesSound'
  <2>1. \A o \in DOMAIN db.order : LinesOf(db, o) # {}
    BY <1>1, AllLined DEF IInv
  <2> QED BY <2>1, <1>1 DEF LinesSound
<1> QED
  BY <1>2, <1>4, <1>5, <1>6 DEF IInv

(* The tasks of a job that goes through buckets of the lines.              *)
LEMMA LineTasks ==
  ASSUME QueueSound, NEW job \in LineJobs
  PROVE  JobTasks(Tasks(job, LineBuckets), {job})
<1>1. job \in Jobs /\ EntriesOf[job] = LineEntries
  BY DEF LineJobs, Jobs, EntriesOf
<1>2. ASSUME NEW e \in LineEntries
      PROVE  LineBucket[e] \in Buckets /\ BucketOf[<<job, e>>] = LineBucket[e]
  <2>1. e \in Entries
    BY EntriesTyped
  <2>2. BucketOf[<<job, e>>] = LineBucket[e]
    BY <1>1, <2>1 DEF BucketOf, LineJobs, PaymentJobs
  <2> QED BY <2>2, LineBucketIs
<1>3. Holds(Lines, EntriesOf[job])
  BY <1>1, BatchHolds
<1> QED
  BY <1>1, <1>2, <1>3, TasksSound, Zenon DEF LineBuckets

(* The tasks of one that goes through districts.                           *)
LEMMA HomeTasks ==
  ASSUME QueueSound, NEW job \in Jobs \ (LineJobs \cup PaymentJobs), NEW entries,
         Holds(entries, EntriesOf[job])
  PROVE  JobTasks(Tasks(job, Deal(entries, HomeBucket)), {job})
<1>1. EntriesOf[job] \subseteq NewOrderEntries \cup PaymentEntries \cup DeliveryEntries
  BY DEF EntriesOf, Jobs, LineJobs, PaymentJobs, FoundEntries
<1>2. ASSUME NEW e \in EntriesOf[job]
      PROVE  HomeBucket[e] \in Buckets /\ BucketOf[<<job, e>>] = HomeBucket[e]
  <2>1. e \in Entries /\ HomeBucket[e] \in Buckets
    BY <1>1, HomeBucketIs
  <2>2. BucketOf[<<job, e>>] = HomeBucket[e]
    BY <2>1 DEF BucketOf
  <2> QED BY <2>1, <2>2
<1> QED
  BY <1>2, TasksSound, Zenon

(* The task of a payment job.                                              *)
LEMMA PaymentTask ==
  ASSUME QueueSound, NEW job \in PaymentJobs
  PROVE  JobTasks(Task(job, Payments), {job})
<1>1. job \in Jobs /\ EntriesOf[job] = PaymentEntries
  BY DEF PaymentJobs, Jobs, EntriesOf
<1>2. /\ Len(batch) \in Nat /\ SeqsOver(Entries, Len(batch), PaymentsOnce)
      /\ ElementsIn(Len(batch), PaymentsOnce) = PaymentEntries
      /\ \A p \in 1 .. Len(batch) :
            /\ Distinct(PaymentsOnce[p])
            /\ \A k \in 1 .. Len(PaymentsOnce[p]) : PaymentsOnce[p][k][1] = p
  BY BatchHolds, Positions DEF Holds, ElementsAre
<1>3. Payments \in Seq(Entries) /\ Range(Payments) = PaymentEntries
  <2>1. \A i \in 1 .. Len(batch) : PaymentsOnce[i] \in Seq(Entries)
    BY <1>2 DEF SeqsOver
  <2>2. /\ Payments \in Seq(Entries)
        /\ Range(Payments) = UNION {Range(PaymentsOnce[p]) : p \in 1 .. Len(batch)}
    BY <1>2, <2>1, JoinedElements, Zenon DEF Payments
  <2> QED BY <2>2, <1>2, Zenon DEF ElementsIn
<1>4. AllDistinct(Len(batch), PaymentsOnce)
  <2>1. ASSUME NEW p \in 1 .. Len(batch), NEW q \in 1 .. Len(batch), p # q,
               NEW k \in 1 .. Len(PaymentsOnce[p]), NEW l \in 1 .. Len(PaymentsOnce[q])
        PROVE  PaymentsOnce[p][k] # PaymentsOnce[q][l]
    <3>1. PaymentsOnce[p][k][1] = p /\ PaymentsOnce[q][l][1] = q
      BY <1>2
    <3> QED BY <3>1, <2>1
  <2> QED BY <1>2, <2>1, Zenon DEF AllDistinct
<1>5. Distinct(Payments)
  BY <1>2, <1>4, JoinedDistinct, Zenon DEF Payments
<1> QED
  BY <1>1, <1>3, <1>5, TaskSound, Zenon

(* All tasks that start when a batch has been cut.                         *)
FirstJobs == LineJobs \cup PaymentJobs \cup {"newOrder12"}
FirstTasks == Tasks("newOrder4", LineBuckets) \o Tasks("newOrder12", NewOrderBuckets)
              \o Tasks("newOrder5", LineBuckets)
              \o Task("payment1", Payments) \o Task("payment2", Payments)
              \o Task("payment3", Payments)

(* They go through everything these jobs are for.                          *)
LEMMA FirstTasksSound ==
  ASSUME QueueSound
  PROVE  JobTasks(FirstTasks, FirstJobs)
<1> DEFINE t1 == Tasks("newOrder4", LineBuckets)
           t2 == Tasks("newOrder12", NewOrderBuckets)
           t3 == Tasks("newOrder5", LineBuckets)
           t4 == Task("payment1", Payments)
           t5 == Task("payment2", Payments)
           t6 == Task("payment3", Payments)
<1>1. JobTasks(t1, {"newOrder4"}) /\ JobTasks(t3, {"newOrder5"})
  BY LineTasks DEF LineJobs
<1>2. JobTasks(t2, {"newOrder12"})
  <2>1. EntriesOf["newOrder12"] = NewOrderEntries
        /\ "newOrder12" \in Jobs \ (LineJobs \cup PaymentJobs)
    BY DEF EntriesOf, Jobs, LineJobs, PaymentJobs
  <2> QED BY <2>1, BatchHolds, HomeTasks DEF NewOrderBuckets
<1>3. JobTasks(t4, {"payment1"}) /\ JobTasks(t5, {"payment2"}) /\ JobTasks(t6, {"payment3"})
  BY PaymentTask DEF PaymentJobs
<1>4. FirstTasks = ((((t1 \o t2) \o t3) \o t4) \o t5) \o t6
  BY DEF FirstTasks
<1> DEFINE j2 == {"newOrder4"} \cup {"newOrder12"}
           j3 == j2 \cup {"newOrder5"}
           j4 == j3 \cup {"payment1"}
           j5 == j4 \cup {"payment2"}
           j6 == j5 \cup {"payment3"}
<1>5. /\ {"newOrder4"} \cap {"newOrder12"} = {} /\ j2 \cap {"newOrder5"} = {}
      /\ j3 \cap {"payment1"} = {} /\ j4 \cap {"payment2"} = {} /\ j5 \cap {"payment3"} = {}
      /\ j6 = FirstJobs
  BY DEF FirstJobs, LineJobs, PaymentJobs
<1> HIDE DEF t1, t2, t3, t4, t5, t6
<1>6. JobTasks(t1 \o t2, j2)
  BY <1>1, <1>2, <1>5, BothComplete, Zenon
<1> HIDE DEF j2
<1>7. JobTasks((t1 \o t2) \o t3, j3)
  BY <1>1, <1>6, <1>5, BothComplete, Zenon
<1> HIDE DEF j3
<1>8. JobTasks(((t1 \o t2) \o t3) \o t4, j4)
  BY <1>3, <1>7, <1>5, BothComplete, Zenon
<1> HIDE DEF j4
<1>9. JobTasks((((t1 \o t2) \o t3) \o t4) \o t5, j5)
  BY <1>3, <1>8, <1>5, BothComplete, Zenon
<1> HIDE DEF j5
<1>10. JobTasks(((((t1 \o t2) \o t3) \o t4) \o t5) \o t6, j6)
  BY <1>3, <1>9, <1>5, BothComplete, Zenon
<1> QED
  BY <1>4, <1>5, <1>10

(* Tasks of the next phase are enqueued behind those that may be alive.     *)
LEMMA TasksEnqueued ==
  ASSUME NEW A, WorkSound(pool, A), NEW lists, NEW B, JobTasks(lists, B), A \cap B = {},
         pool' = pool \o lists, batch' = batch, EntriesKept(A \cup B),
         phase' \in DOMAIN JobsIn, JobsIn[phase'] = A \cup B
  PROVE  /\ PhaseSound' /\ Pending(pool') = Pending(pool) \cup Pending(lists)
         /\ \A job \in B : \A e \in EntriesOf[job] : <<job, e>> \in Pending(pool')
<1>1. WorkSound(lists, B) /\ \A job \in B : \A e \in EntriesOf[job] : <<job, e>> \in Pending(lists)
  BY DEF JobTasks
<1>2. WorkSound(pool \o lists, A \cup B) /\ Pending(pool \o lists) = Pending(pool) \cup Pending(lists)
  BY <1>1, BothSound
<1>3. WorkSound(pool', A \cup B) /\ Pending(pool') = Pending(pool) \cup Pending(lists)
  BY <1>2
<1>4. PhaseSound'
  BY <1>3, PhaseMoves
<1> QED
  BY <1>1, <1>3, <1>4

(* The first tasks are there and nothing of the vectors is set.            *)
LEMMA EnqueueFirstKeeps ==
  ASSUME IInv, EnqueueFirst
  PROVE  IInv'
<1>1. /\ phase = "full" /\ phase' = "newOrder12" /\ pool' = pool \o FirstTasks
      /\ inter' = EmptyInter /\ queue' = queue /\ batch' = batch /\ db' = db
  BY DEF EnqueueFirst, Enqueue, FirstTasks
<1>2. QueueSound /\ WorkSound(pool, {})
  BY <1>1 DEF IInv, PhaseSound, JobsIn
<1>3. /\ Of("NEW_ORDER")' = Of("NEW_ORDER") /\ LineEntries' = LineEntries
      /\ NewOrderEntries' = NewOrderEntries /\ PaymentEntries' = PaymentEntries
      /\ DeliveryEntries' = DeliveryEntries
  BY <1>1 DEF Of, LineEntries, NewOrderEntries, PaymentEntries, DeliveryEntries
<1>4. EntriesKept({} \cup FirstJobs)
  BY <1>3 DEF EntriesKept, EntriesOf, FirstJobs, LineJobs, PaymentJobs
<1>5. phase' \in DOMAIN JobsIn /\ JobsIn[phase'] = {} \cup FirstJobs /\ {} \cap FirstJobs = {}
  BY <1>1 DEF JobsIn, FirstJobs
<1>6. JobTasks(FirstTasks, FirstJobs)
  BY <1>2, FirstTasksSound
<1>7. /\ PhaseSound'
      /\ \A job \in FirstJobs : \A e \in EntriesOf[job] : <<job, e>> \in Pending(pool')
  BY <1>1, <1>2, <1>4, <1>5, <1>6, TasksEnqueued, Zenon
<1>8. /\ DOMAIN inter' = {"oId", "dist", "amount", "noOId", "cId", "sum"}
      /\ inter'.oId = [p \in Of("NEW_ORDER") |-> 0]
      /\ inter'.dist = [e \in LineEntries |-> NoDist]
      /\ inter'.amount = [e \in LineEntries |-> 0]
      /\ inter'.noOId = [e \in DeliveryEntries |-> None]
      /\ inter'.cId = [e \in DeliveryEntries |-> None]
      /\ inter'.sum = [e \in DeliveryEntries |-> None]
  BY <1>1 DEF EmptyInter, LineEntries, DeliveryEntries
<1>9. VectorsSound'
  <2>1. /\ inter'.oId \in [Of("NEW_ORDER") -> Nat] /\ inter'.amount \in [LineEntries -> Nat]
        /\ DOMAIN inter'.dist = LineEntries
        /\ {DOMAIN inter'.noOId, DOMAIN inter'.cId, DOMAIN inter'.sum} = {DeliveryEntries}
    BY <1>8
  <2>2. \A p \in Of("NEW_ORDER") : inter'.oId[p] = 0
    BY <1>8
  <2>3. FoundEntries' = {}
    BY <1>3, <1>8 DEF FoundEntries
  <2> QED BY <1>3, <1>8, <2>1, <2>2, <2>3 DEF VectorsSound
<1>10. VectorsFilled'
  <2>1. \A p \in Of("NEW_ORDER") : inter'.oId[p] = 0 /\ <<"newOrder12", <<p, None>>>> \in Pending(pool')
    <3>1. \A p \in Of("NEW_ORDER") : <<p, None>> \in EntriesOf["newOrder12"]
      BY DEF EntriesOf, NewOrderEntries
    <3> QED BY <3>1, <1>7, <1>8 DEF FirstJobs
  <2>2. \A e \in LineEntries : <<"newOrder4", e>> \in Pending(pool') /\ <<"newOrder5", e>> \in Pending(pool')
    <3>1. EntriesOf["newOrder4"] = LineEntries /\ EntriesOf["newOrder5"] = LineEntries
      BY DEF EntriesOf
    <3> QED BY <3>1, <1>7 DEF FirstJobs, LineJobs
  <2> QED BY <2>1, <2>2, <1>1, <1>3 DEF VectorsFilled, Waiting
<1>11. InterSound'
  BY <1>1, <1>9, <1>10 DEF InterSound, Idle
<1>12. LinesSound'
  <2>1. \A o \in DOMAIN db.order : LinesOf(db, o) # {}
    BY <1>1, AllLined DEF IInv
  <2> QED BY <2>1, <1>1 DEF LinesSound
<1> QED
  BY <1>1, <1>7, <1>11, <1>12 DEF IInv, QueueSound, RowsSound

(* Vectors that are not touched stay sound.                                *)
LEMMA VectorsSame ==
  ASSUME VectorsSound, batch' = batch, db' = db, inter' = inter
  PROVE  VectorsSound'
<1>1. /\ Of("NEW_ORDER")' = Of("NEW_ORDER") /\ LineEntries' = LineEntries
      /\ DeliveryEntries' = DeliveryEntries
  BY DEF Of, LineEntries, DeliveryEntries
<1>2. FoundEntries' = FoundEntries
  BY <1>1 DEF FoundEntries
<1>3. /\ \A p : OrderKey(p)' = OrderKey(p)
      /\ \A e : FoundKey(e)' = FoundKey(e)
  BY DEF OrderKey, FoundKey
<1> QED
  BY <1>1, <1>2, <1>3 DEF VectorsSound

(* The main thread has waited for the jobs done and enqueues those of B.    *)
EnqueuesBehind(done, lists, B) ==
    /\ ~Idle /\ Waited(done) /\ JobTasks(lists, B)
    /\ pool' = pool \o lists /\ batch' = batch /\ queue' = queue /\ db' = db /\ inter' = inter
    /\ (JobsIn[phase] \ done) \cap B = {}
    /\ JobsIn[phase'] = (JobsIn[phase] \ done) \cup B
    /\ "newOrder12" \notin B
    /\ \/ phase' = "conflict"
       \/ phase' = "newOrder6" /\ "delivery3" \in B
       \/ phase' = "delivery2" /\ phase = "newOrder6" /\ "delivery2" \in B
       \/ phase' = "conflict2" /\ phase = "delivery2"

(* All of the invariant but the lines, and what is pending.                *)
LEMMA NextPhase ==
  ASSUME IInv, NEW done, NEW lists, NEW B, EnqueuesBehind(done, lists, B)
  PROVE  /\ LinesSound' => IInv'
         /\ \A job \in B : \A e \in EntriesOf[job] : <<job, e>> \in Pending(pool')
         /\ WorkSound(pool, JobsIn[phase] \ done)
<1> DEFINE A == JobsIn[phase] \ done
<1>1. /\ QueueSound /\ RowsSound /\ VectorsSound /\ VectorsFilled /\ WorkSound(pool, JobsIn[phase])
      /\ phase \in DOMAIN JobsIn
  BY DEF IInv, InterSound, PhaseSound, EnqueuesBehind
<1>2. WorkSound(pool, A)
  BY <1>1, WaitedFor DEF EnqueuesBehind
<1>3. /\ JobTasks(lists, B) /\ A \cap B = {} /\ pool' = pool \o lists /\ batch' = batch
      /\ JobsIn[phase'] = A \cup B
  BY DEF EnqueuesBehind
<1>4. phase' \in DOMAIN JobsIn /\ phase' \in {"conflict", "newOrder6", "delivery2", "conflict2"}
  BY DEF EnqueuesBehind, JobsIn
<1>5. EntriesKept(A \cup B)
  <2>1. JobsIn[phase'] \subseteq Jobs
    BY <1>4 DEF JobsIn, Jobs, LineJobs, PaymentJobs
  <2>2. FoundEntries' = FoundEntries
    BY DEF EnqueuesBehind, FoundEntries, DeliveryEntries, Of
  <2>3. EntriesKept(Jobs)
    BY <2>2, <1>3, FoundKept
  <2> QED BY <2>1, <2>3, <1>3 DEF EntriesKept
<1> HIDE DEF A
<1>6. /\ PhaseSound' /\ Pending(pool') = Pending(pool) \cup Pending(lists)
      /\ \A job \in B : \A e \in EntriesOf[job] : <<job, e>> \in Pending(pool')
  BY <1>2, <1>3, <1>4, <1>5, TasksEnqueued, Zenon
<1>7. \A x \in Pending(lists) : x[1] \in B
  BY <1>3 DEF JobTasks, WorkSound
<1>8. /\ db' = db /\ inter' = inter /\ queue' = queue /\ "newOrder12" \notin B
  BY DEF EnqueuesBehind
<1>9. VectorsSound'
  BY <1>1, <1>3, <1>8, VectorsSame
<1>10. /\ Of("NEW_ORDER")' = Of("NEW_ORDER") /\ LineEntries' = LineEntries
       /\ FoundEntries' = FoundEntries
  BY <1>3, <1>8 DEF Of, LineEntries, FoundEntries, DeliveryEntries
<1>11. \A p \in Of("NEW_ORDER") :
          inter'.oId[p] = 0 <=> <<"newOrder12", <<p, None>>>> \in Pending(pool')
  <2> TAKE p \in Of("NEW_ORDER")
  <2>1. <<"newOrder12", <<p, None>>>> \notin Pending(lists)
    BY <1>7, <1>8
  <2>2. inter.oId[p] = 0 <=> <<"newOrder12", <<p, None>>>> \in Pending(pool)
    BY <1>1 DEF VectorsFilled, Waiting
  <2> QED BY <2>1, <2>2, <1>6, <1>8
<1>12. \A e \in LineEntries : /\ inter'.dist[e] # NoDist \/ <<"newOrder4", e>> \in Pending(pool')
                              /\ inter'.amount[e] # 0 \/ <<"newOrder5", e>> \in Pending(pool')
  BY <1>1, <1>6, <1>8 DEF VectorsFilled, Waiting
<1>13. ASSUME phase' \in {"newOrder6", "delivery2", "conflict2"}, NEW e \in FoundEntries
       PROVE  inter'.cId[e] # None \/ <<"delivery3", e>> \in Pending(pool')
  <2>1. CASE phase' = "newOrder6"
    <3>1. "delivery3" \in B /\ e \in EntriesOf["delivery3"]
      BY <2>1 DEF EnqueuesBehind, EntriesOf
    <3> QED BY <3>1, <1>6
  <2>2. CASE phase' # "newOrder6"
    <3>1. phase \in {"newOrder6", "delivery2", "conflict2"}
      BY <1>13, <2>2 DEF EnqueuesBehind
    <3>2. inter.cId[e] # None \/ <<"delivery3", e>> \in Pending(pool)
      BY <3>1, <1>1 DEF VectorsFilled, Waiting
    <3> QED BY <3>2, <1>6, <1>8
  <2> QED BY <2>1, <2>2
<1>14. ASSUME phase' \in {"delivery2", "conflict2"}, NEW e \in FoundEntries
       PROVE  inter'.sum[e] # None \/ <<"delivery2", e>> \in Pending(pool')
  <2>1. CASE phase' = "delivery2"
    <3>1. "delivery2" \in B /\ e \in EntriesOf["delivery2"]
      BY <2>1 DEF EnqueuesBehind, EntriesOf
    <3> QED BY <3>1, <1>6
  <2>2. CASE phase' # "delivery2"
    <3>1. phase \in {"delivery2", "conflict2"}
      BY <1>14, <2>2 DEF EnqueuesBehind
    <3>2. inter.sum[e] # None \/ <<"delivery2", e>> \in Pending(pool)
      BY <3>1, <1>1 DEF VectorsFilled, Waiting
    <3> QED BY <3>2, <1>6, <1>8
  <2> QED BY <2>1, <2>2
<1>15. VectorsFilled'
  BY <1>10, <1>11, <1>12, <1>13, <1>14 DEF VectorsFilled, Waiting
<1>16. InterSound'
  BY <1>4, <1>9, <1>15 DEF InterSound, Idle
<1>17. QueueSound' /\ RowsSound'
  BY <1>1, <1>3, <1>8 DEF QueueSound, RowsSound
<1>18. LinesSound' => IInv'
  BY <1>6, <1>16, <1>17 DEF IInv
<1> QED
  BY <1>2, <1>6, <1>18 DEF A

(* The wait for the order ids.                                             *)
LEMMA EnqueueConflictKeeps ==
  ASSUME IInv, EnqueueConflict
  PROVE  IInv'
<1> DEFINE lists == Tasks("conflict", DeliveryNewOrderBuckets)
<1>1. /\ phase = "newOrder12" /\ phase' = "conflict" /\ Waited({"newOrder12"})
      /\ pool' = pool \o lists
      /\ queue' = queue /\ batch' = batch /\ db' = db /\ inter' = inter
  BY DEF EnqueueConflict, Enqueue
<1>2. JobTasks(lists, {"conflict"})
  <2>1. EntriesOf["conflict"] = NewOrderEntries \cup DeliveryEntries
        /\ "conflict" \in Jobs \ (LineJobs \cup PaymentJobs)
    BY DEF EntriesOf, Jobs, LineJobs, PaymentJobs
  <2>2. QueueSound
    BY DEF IInv
  <2> QED BY <2>1, <2>2, BatchHolds, HomeTasks DEF DeliveryNewOrderBuckets
<1> HIDE DEF lists
<1>3. /\ (JobsIn[phase] \ {"newOrder12"}) \cap {"conflict"} = {}
      /\ JobsIn[phase'] = (JobsIn[phase] \ {"newOrder12"}) \cup {"conflict"}
      /\ "newOrder12" \notin {"conflict"}
  BY <1>1 DEF JobsIn, LineJobs, PaymentJobs
<1>4. EnqueuesBehind({"newOrder12"}, lists, {"conflict"})
  <2>1. ~Idle
    BY <1>1 DEF Idle
  <2> QED BY <2>1, <1>1, <1>2, <1>3 DEF EnqueuesBehind
<1>5. LinesSound'
  <2>1. ASSUME NEW o, Unlined(o) PROVE Unlined(o)'
    <3>1. PICK p \in Of("NEW_ORDER") : inter.oId[p] # 0 /\ OrderKey(p) = o
      BY <1>1, <2>1 DEF Unlined
    <3>2. p \in Of("NEW_ORDER")' /\ OrderKey(p)' = OrderKey(p)
      BY <1>1 DEF Of, OrderKey
    <3> QED BY <1>1, <3>1, <3>2 DEF Unlined
  <2>2. LinesSound
    BY DEF IInv
  <2> QED BY <2>1, <2>2, <1>1 DEF LinesSound
<1> QED
  BY <1>4, <1>5, NextPhase

(* The wait for what the lines need; the new orders insert them next.       *)
LEMMA EnqueueDelivery3Keeps ==
  ASSUME IInv, EnqueueDelivery3
  PROVE  IInv'
<1> DEFINE t1 == Tasks("delivery3", DeliveryBuckets)
           t2 == Tasks("newOrder6", NewOrderBuckets)
           done == {"conflict", "newOrder4", "newOrder5"}
           B == {"delivery3"} \cup {"newOrder6"}
<1>1. /\ phase = "conflict" /\ phase' = "newOrder6" /\ Waited(done)
      /\ pool' = pool \o (t1 \o t2)
      /\ queue' = queue /\ batch' = batch /\ db' = db /\ inter' = inter
  BY DEF EnqueueDelivery3, Enqueue
<1>2. QueueSound /\ LinesSound
  BY DEF IInv
<1>3. JobTasks(t1 \o t2, B)
  <2>1. /\ EntriesOf["delivery3"] = FoundEntries /\ EntriesOf["newOrder6"] = NewOrderEntries
        /\ {"delivery3", "newOrder6"} \subseteq Jobs \ (LineJobs \cup PaymentJobs)
    BY DEF EntriesOf, Jobs, LineJobs, PaymentJobs
  <2>2. JobTasks(t1, {"delivery3"})
    BY <2>1, <1>2, FoundHolds, HomeTasks DEF DeliveryBuckets
  <2>3. JobTasks(t2, {"newOrder6"})
    BY <2>1, <1>2, BatchHolds, HomeTasks DEF NewOrderBuckets
  <2>4. {"delivery3"} \cap {"newOrder6"} = {}
    OBVIOUS
  <2> HIDE DEF t1, t2
  <2> QED BY <2>2, <2>3, <2>4, BothComplete, Zenon
<1> DEFINE lists == t1 \o t2
<1> HIDE DEF lists
<1>4. /\ (JobsIn[phase] \ done) \cap B = {}
      /\ JobsIn[phase'] = (JobsIn[phase] \ done) \cup B
      /\ "newOrder12" \notin B /\ "delivery3" \in B
  BY <1>1 DEF JobsIn, LineJobs, PaymentJobs
<1>5. EnqueuesBehind(done, lists, B)
  <2>1. ~Idle
    BY <1>1 DEF Idle
  <2>2. pool' = pool \o lists /\ JobTasks(lists, B)
    BY <1>1, <1>3 DEF lists
  <2> HIDE DEF t1, t2, done, B
  <2> QED BY <2>1, <2>2, <1>1, <1>4 DEF EnqueuesBehind
<1>6. LinesSound'
  <2>1. ASSUME NEW o, Unlined(o) PROVE Unlined(o)'
    <3>1. PICK p \in Of("NEW_ORDER") : OrderKey(p) = o
      BY <1>1, <2>1 DEF Unlined
    <3>2. p \in Of("NEW_ORDER")' /\ OrderKey(p)' = OrderKey(p)
      BY <1>1 DEF Of, OrderKey
    <3>3. <<p, None>> \in EntriesOf["newOrder6"]
      BY DEF EntriesOf, NewOrderEntries
    <3>4. <<"newOrder6", <<p, None>>>> \in Pending(pool')
      BY <3>3, <1>5, NextPhase
    <3> QED BY <1>1, <3>1, <3>2, <3>4 DEF Unlined, Waiting
  <2> QED BY <2>1, <1>2, <1>1 DEF LinesSound
<1> QED
  BY <1>5, <1>6, NextPhase

(* The wait for the lines: every order has its own.                        *)
LEMMA EnqueueDelivery2Keeps ==
  ASSUME IInv, EnqueueDelivery2
  PROVE  IInv'
<1> DEFINE lists == Tasks("delivery2", DeliveryBuckets)
<1>1. /\ phase = "newOrder6" /\ phase' = "delivery2" /\ Waited({"newOrder6"})
      /\ pool' = pool \o lists
      /\ queue' = queue /\ batch' = batch /\ db' = db /\ inter' = inter
  BY DEF EnqueueDelivery2, Enqueue
<1>2. QueueSound /\ LinesSound
  BY DEF IInv
<1>3. JobTasks(lists, {"delivery2"})
  <2>1. EntriesOf["delivery2"] = FoundEntries /\ "delivery2" \in Jobs \ (LineJobs \cup PaymentJobs)
    BY DEF EntriesOf, Jobs, LineJobs, PaymentJobs
  <2> QED BY <2>1, <1>2, FoundHolds, HomeTasks DEF DeliveryBuckets
<1> HIDE DEF lists
<1>4. /\ (JobsIn[phase] \ {"newOrder6"}) \cap {"delivery2"} = {}
      /\ JobsIn[phase'] = (JobsIn[phase] \ {"newOrder6"}) \cup {"delivery2"}
      /\ "newOrder12" \notin {"delivery2"} /\ "delivery2" \in {"delivery2"}
  BY <1>1 DEF JobsIn, LineJobs, PaymentJobs
<1>5. EnqueuesBehind({"newOrder6"}, lists, {"delivery2"})
  <2>1. ~Idle
    BY <1>1 DEF Idle
  <2> QED BY <2>1, <1>1, <1>3, <1>4 DEF EnqueuesBehind
<1>6. LinesSound'
  <2>1. WorkSound(pool, JobsIn[phase] \ {"newOrder6"})
    BY <1>5, NextPhase
  <2>2. ASSUME NEW o PROVE ~Unlined(o)
    <3>1. ASSUME NEW p PROVE <<"newOrder6", <<p, None>>>> \notin Pending(pool)
      BY <2>1 DEF WorkSound
    <3> QED BY <3>1, <1>1 DEF Unlined, Waiting
  <2> QED BY <2>2, <1>1, <1>2 DEF LinesSound
<1> QED
  BY <1>5, <1>6, NextPhase

(* The wait for the customers and the sums.                                *)
LEMMA EnqueueConflict2Keeps ==
  ASSUME IInv, EnqueueConflict2
  PROVE  IInv'
<1> DEFINE lists == Tasks("conflict2", DeliveryPaymentBuckets)
           done == {"delivery2", "delivery3"}
<1>1. /\ phase = "delivery2" /\ phase' = "conflict2" /\ Waited(done)
      /\ pool' = pool \o lists
      /\ queue' = queue /\ batch' = batch /\ db' = db /\ inter' = inter
  BY DEF EnqueueConflict2, Enqueue
<1>2. QueueSound /\ LinesSound
  BY DEF IInv
<1>3. JobTasks(lists, {"conflict2"})
  <2>1. /\ EntriesOf["conflict2"] = PaymentEntries \cup FoundEntries
        /\ "conflict2" \in Jobs \ (LineJobs \cup PaymentJobs)
    BY DEF EntriesOf, Jobs, LineJobs, PaymentJobs
  <2> QED BY <2>1, <1>2, FoundHolds, HomeTasks DEF DeliveryPaymentBuckets
<1> HIDE DEF lists
<1>4. /\ (JobsIn[phase] \ done) \cap {"conflict2"} = {}
      /\ JobsIn[phase'] = (JobsIn[phase] \ done) \cup {"conflict2"}
      /\ "newOrder12" \notin {"conflict2"}
  BY <1>1 DEF JobsIn, LineJobs, PaymentJobs
<1>5. EnqueuesBehind(done, lists, {"conflict2"})
  <2>1. ~Idle
    BY <1>1 DEF Idle
  <2> HIDE DEF done
  <2> QED BY <2>1, <1>1, <1>3, <1>4 DEF EnqueuesBehind
<1>6. LinesSound'
  <2>1. \A o \in DOMAIN db.order : LinesOf(db, o) # {}
    BY <1>1, <1>2, AllLined
  <2> QED BY <2>1, <1>1 DEF LinesSound
<1> QED
  BY <1>5, <1>6, NextPhase

(* The wait for all tasks before the parameters go.                        *)
LEMMA ClearBatchKeeps ==
  ASSUME IInv, ClearBatch
  PROVE  IInv'
<1> DEFINE done == {"payment1", "payment2", "payment3", "conflict2"}
<1>1. /\ phase = "conflict2" /\ Waited(done) /\ phase' \in {"collect", "full", "stopped"}
      /\ batch' = <<>> /\ queue' = queue /\ pool' = pool /\ db' = db /\ inter' = NoInter
  BY DEF ClearBatch, Clear
<1>2. WorkSound(pool, {})
  <2>1. WorkSound(pool, JobsIn[phase]) /\ JobsIn[phase] \ done = {}
    BY <1>1 DEF IInv, PhaseSound, JobsIn, PaymentJobs
  <2> HIDE DEF done
  <2>2. WorkSound(pool, JobsIn[phase] \ done)
    BY <2>1, <1>1, WaitedFor
  <2> QED BY <2>1, <2>2
<1>3. PhaseSound'
  BY <1>1, <1>2, NothingPhaseSound
<1>4. QueueSound'
  <2>1. <<>> \in Seq(Queued)
    OBVIOUS
  <2> QED BY <2>1, <1>1 DEF IInv, QueueSound
<1>5. RowsSound' /\ InterSound'
  BY <1>1 DEF IInv, RowsSound, InterSound, Idle
<1>6. LinesSound'
  <2>1. \A o \in DOMAIN db.order : LinesOf(db, o) # {}
    BY <1>1, AllLined DEF IInv
  <2> QED BY <2>1, <1>1 DEF LinesSound
<1> QED
  BY <1>3, <1>4, <1>5, <1>6 DEF IInv

-----------------------------------------------------------------------------
(* The invariant holds of both processors.                                 *)

(* Any step of the main thread.                                            *)
LEMMA MainKeeps ==
  ASSUME IInv, Main
  PROVE  IInv'
BY CollectKeeps, EnqueueFirstKeeps, EnqueueConflictKeeps, EnqueueDelivery3Keeps,
   EnqueueDelivery2Keeps, EnqueueConflict2Keeps, ClearBatchKeeps DEF Main

(* A step that changes nothing.                                            *)
LEMMA StutteringKeeps ==
  ASSUME IInv, UNCHANGED vars
  PROVE  IInv'
<1>1. /\ queue' = queue /\ batch' = batch /\ phase' = phase /\ pool' = pool
      /\ db' = db /\ inter' = inter
  BY DEF vars
<1>2. QueueSound' /\ RowsSound'
  BY <1>1 DEF IInv, QueueSound, RowsSound
<1>3. PhaseSound'
  <2>1. WorkSound(pool, JobsIn[phase]) /\ phase \in DOMAIN JobsIn
    BY DEF IInv, PhaseSound
  <2>2. JobsIn[phase] \subseteq Jobs
    BY <2>1 DEF JobsIn, Jobs, LineJobs, PaymentJobs
  <2>3. FoundEntries' = FoundEntries
    BY <1>1 DEF FoundEntries, DeliveryEntries, Of
  <2>4. EntriesKept(JobsIn[phase])
    BY <2>2, <2>3, <1>1, FoundKept DEF EntriesKept
  <2> QED BY <2>1, <2>4, <1>1, PhaseMoves
<1>4. InterSound'
  <2>1. CASE Idle
    BY <2>1, <1>1 DEF IInv, InterSound, Idle
  <2>2. CASE ~Idle
    <3>1. VectorsSound /\ VectorsFilled
      BY <2>2 DEF IInv, InterSound
    <3>2. VectorsSound'
      BY <3>1, <1>1, VectorsSame
    <3>3. /\ Of("NEW_ORDER")' = Of("NEW_ORDER") /\ LineEntries' = LineEntries
          /\ FoundEntries' = FoundEntries
      BY <1>1 DEF Of, LineEntries, FoundEntries, DeliveryEntries
    <3>4. VectorsFilled'
      BY <3>1, <3>3, <1>1 DEF VectorsFilled, Waiting
    <3> QED BY <3>2, <3>4, <2>2, <1>1 DEF InterSound, Idle
  <2> QED BY <2>1, <2>2
<1>5. LinesSound'
  <2>1. \A o : Unlined(o)' = Unlined(o)
    BY <1>1 DEF Unlined, Of, OrderKey, Waiting
  <2> QED BY <2>1, <1>1 DEF IInv, LinesSound
<1> QED
  BY <1>2, <1>3, <1>4, <1>5 DEF IInv

(* The invariant of the processor with the thread pool.                    *)
THEOREM PoolSound == Spec => []IInv
<1>1. Init => IInv
  BY InitSound
<1>2. IInv /\ [Next]_vars => IInv'
  BY MainKeeps, WorkKeeps, StutteringKeeps DEF Next
<1> QED
  BY <1>1, <1>2, PTL DEF Spec

(* The invariant of the processor with a thread for each task.             *)
THEOREM ThreadsSound == ThreadSpec => []IInv
<1>1. Init => IInv
  BY InitSound
<1>2. IInv /\ [ThreadNext]_vars => IInv'
  BY MainKeeps, WorkKeeps, StutteringKeeps DEF ThreadNext, ThreadStep
<1> QED
  BY <1>1, <1>2, PTL DEF ThreadSpec

-----------------------------------------------------------------------------
(* The types.                                                              *)

(* The tasks of the pool, with the entries they have left.                 *)
LEMMA PoolTyped ==
  ASSUME PhaseSound, NEW k \in DOMAIN pool
  PROVE  /\ k \in 1 .. Len(pool) /\ pool[k].job \in Jobs /\ pool[k].work \in Seq(Entries)
         /\ pool[k].work # <<>>
<1> DEFINE T == [job : Jobs, work : Seq(Entries)]
<1>1. pool \in Seq(T) /\ \A i \in 1 .. Len(pool) : pool[i].work # <<>>
  BY DEF PhaseSound, WorkSound, WorkLists
<1> HIDE DEF T
<1>2. k \in 1 .. Len(pool)
  BY <1>1
<1>3. pool[k] \in T
  BY <1>1, <1>2, ElementOfSeq
<1> QED
  BY <1>1, <1>2, <1>3 DEF T

(* The invariant is stronger than the types.                               *)
LEMMA SoundIsTyped == IInv => TypeOK
<1> SUFFICES ASSUME IInv PROVE TypeOK
  OBVIOUS
<1>1. phase \in {"collect", "full", "newOrder12", "conflict", "newOrder6", "delivery2",
                 "conflict2", "stopped"}
  BY DEF IInv, PhaseSound, JobsIn
<1>2. \A k \in DOMAIN pool : pool[k].job \in Jobs /\ pool[k].work # <<>>
  BY PoolTyped DEF IInv
<1>3. /\ \A o \in DOMAIN db.order : db.order[o].c \in 1 .. Customers
      /\ db.newOrder \subseteq DOMAIN db.order
      /\ DOMAIN db.stock = Stock /\ DOMAIN db.customer = OrderKeys(1 .. Customers)
  BY DEF IInv, RowsSound, RowsOf
<1>4. \A e \in DOMAIN inter.noOId : e[1] \in Of("DELIVERY")
  <2>1. CASE Idle
    <3>1. inter.noOId = <<>>
      BY <2>1 DEF IInv, InterSound, NoInter
    <3> QED BY <3>1
  <2>2. CASE ~Idle
    <3>1. DOMAIN inter.noOId = DeliveryEntries
      BY <2>2 DEF IInv, InterSound, VectorsSound
    <3> QED BY <3>1 DEF DeliveryEntries
  <2> QED BY <2>1, <2>2
<1> QED
  BY <1>1, <1>2, <1>3, <1>4 DEF TypeOK

(* The state of TpccTPBatchProcessor.h and TpccBatchProcessor.h has its     *)
(* types, and the tables keep their rows.                                  *)
THEOREM Typed == Spec \/ ThreadSpec => []TypeOK
BY PoolSound, ThreadsSound, SoundIsTyped, PTL

-----------------------------------------------------------------------------
(* The parameters.                                                         *)

(* No task has a position that clearBatch has deleted.                     *)
LEMMA SoundHasParameters == IInv => ParametersOutliveTasks
<1> SUFFICES ASSUME IInv, NEW k \in DOMAIN pool, NEW i \in DOMAIN pool[k].work
             PROVE  pool[k].work[i][1] \in DOMAIN batch
  BY DEF ParametersOutliveTasks
<1> DEFINE job == pool[k].job
           e == pool[k].work[i]
<1>1. QueueSound /\ PhaseSound
  BY DEF IInv
<1>2. k \in 1 .. Len(pool) /\ job \in Jobs /\ pool[k].work \in Seq(Entries)
  BY <1>1, PoolTyped
<1>3. i \in 1 .. Len(pool[k].work)
  BY <1>2
<1>4. <<job, e>> \in Pending(pool)
  BY <1>2, <1>3, PendingIs
<1>5. e \in EntriesOf[job]
  BY <1>1, <1>4 DEF PhaseSound, WorkSound
<1> HIDE DEF job, e
<1>6. e \in NewOrderEntries \cup PaymentEntries \cup LineEntries \cup DeliveryEntries
  BY <1>2, <1>5 DEF EntriesOf, Jobs, FoundEntries
<1>7. \E type : e[1] \in Of(type)
  <2>1. CASE e \in LineEntries
    BY <2>1, <1>1, LineEntry
  <2>2. CASE e \in NewOrderEntries \cup PaymentEntries \cup DeliveryEntries
    BY <2>2 DEF NewOrderEntries, PaymentEntries, DeliveryEntries
  <2> QED BY <2>1, <2>2, <1>6
<1> QED
  BY <1>7 DEF Of, e

(* The parameters that clearBatch deletes (TpccTPBatchProcessor.cc:51-58) *)
(* are those of no task that still runs.                                   *)
THEOREM ParametersLast == Spec \/ ThreadSpec => []ParametersOutliveTasks
BY PoolSound, ThreadsSound, SoundHasParameters, PTL

-----------------------------------------------------------------------------
(* The inputs.                                                             *)

(* An entry without a district is that of a new order or of a payment.      *)
LEMMA DistrictNone ==
  ASSUME NEW e \in DeliveryEntries
  PROVE  e[2] # None
<1>1. e[2] \in 1 .. Districts
  BY DEF DeliveryEntries
<1> QED
  BY <1>1 DEF None

(* The waits between the phases have been for all that a task reads.       *)
LEMMA SoundIsReady == IInv => InputsAreReady
<1> SUFFICES ASSUME IInv, NEW k \in Active
             PROVE  LET job == pool[k].job
                        e   == Entry(k)
                    IN  /\ job = "conflict" /\ e[2] = None => inter.oId[e[1]] # 0
                        /\ job = "delivery3" => OrderOf(k) \in DOMAIN db.order
                        /\ job = "newOrder6" =>
                              /\ inter.oId[e[1]] # 0
                              /\ \A i \in DOMAIN Txn(k).items :
                                    /\ inter.dist[<<e[1], i>>] # NoDist
                                    /\ inter.amount[<<e[1], i>>] # 0
                        /\ job = "delivery2" => LinesOf(db, OrderOf(k)) # {}
                        /\ job = "conflict2" /\ e[2] # None =>
                              inter.sum[e] # None /\ inter.cId[e] # None
  BY DEF InputsAreReady
<1> DEFINE job == pool[k].job
           e   == Entry(k)
<1>1. AtWork(k) /\ ~Idle /\ VectorsSound /\ VectorsFilled
  BY WorkIn
<1>2. QueueSound /\ PhaseSound /\ LinesSound
  BY DEF IInv
<1>3. job \in JobsIn[phase] /\ phase \in DOMAIN JobsIn /\ e \in EntriesOf[job]
  BY <1>1 DEF AtWork
<1>4. \A p \in Of("NEW_ORDER") : phase # "newOrder12" => inter.oId[p] # 0
  BY <1>1, <1>2, IdsTaken
<1> HIDE DEF job, e
<1>5. job = "conflict" /\ e[2] = None => inter.oId[e[1]] # 0
  <2> SUFFICES ASSUME job = "conflict", e[2] = None PROVE inter.oId[e[1]] # 0
    OBVIOUS
  <2>1. phase = "conflict"
    BY <1>3 DEF JobsIn, LineJobs, PaymentJobs
  <2>2. e \in NewOrderEntries
    BY <1>3, DistrictNone DEF EntriesOf
  <2> QED BY <2>1, <2>2, <1>4 DEF NewOrderEntries
<1>6. job = "delivery3" => OrderOf(k) \in DOMAIN db.order
  <2> SUFFICES ASSUME job = "delivery3" PROVE OrderOf(k) \in DOMAIN db.order
    OBVIOUS
  <2>1. e \in FoundEntries
    BY <1>3 DEF EntriesOf
  <2> QED BY <2>1, <1>1, FoundOrder DEF e
<1>7. job = "newOrder6" => /\ inter.oId[e[1]] # 0
                           /\ \A i \in DOMAIN Txn(k).items : /\ inter.dist[<<e[1], i>>] # NoDist
                                                            /\ inter.amount[<<e[1], i>>] # 0
  <2> SUFFICES ASSUME job = "newOrder6"
               PROVE  /\ inter.oId[e[1]] # 0
                      /\ \A i \in DOMAIN Txn(k).items : /\ inter.dist[<<e[1], i>>] # NoDist
                                                       /\ inter.amount[<<e[1], i>>] # 0
    OBVIOUS
  <2>1. phase = "newOrder6"
    BY <1>3 DEF JobsIn, LineJobs, PaymentJobs
  <2>2. e[1] \in Of("NEW_ORDER")
    BY <1>3 DEF EntriesOf, NewOrderEntries
  <2>3. \A i \in DOMAIN Txn(k).items : <<e[1], i>> \in LineEntries
    BY <2>2 DEF LineEntries, Txn, e
  <2>4. \A x \in LineEntries : inter.dist[x] # NoDist /\ inter.amount[x] # 0
    BY <2>1, <1>1, <1>2, LinesFilled
  <2> QED BY <2>1, <2>2, <2>3, <2>4, <1>4
<1>8. job = "delivery2" => LinesOf(db, OrderOf(k)) # {}
  <2> SUFFICES ASSUME job = "delivery2" PROVE LinesOf(db, OrderOf(k)) # {}
    OBVIOUS
  <2>1. phase = "delivery2"
    BY <1>3 DEF JobsIn, LineJobs, PaymentJobs
  <2>2. e \in FoundEntries
    BY <1>3 DEF EntriesOf
  <2>3. OrderOf(k) \in DOMAIN db.order
    BY <2>2, <1>1, FoundOrder DEF e
  <2> QED BY <2>1, <2>3, <1>2, AllLined
<1>9. job = "conflict2" /\ e[2] # None => inter.sum[e] # None /\ inter.cId[e] # None
  <2> SUFFICES ASSUME job = "conflict2", e[2] # None
               PROVE  inter.sum[e] # None /\ inter.cId[e] # None
    OBVIOUS
  <2>1. phase = "conflict2"
    BY <1>3 DEF JobsIn, LineJobs, PaymentJobs
  <2>2. e \in FoundEntries
    <3>1. e \in PaymentEntries \cup FoundEntries
      BY <1>3 DEF EntriesOf
    <3>2. e \notin PaymentEntries
      BY DEF PaymentEntries
    <3> QED BY <3>1, <3>2
  <2>3. <<"delivery3", e>> \notin Pending(pool) /\ <<"delivery2", e>> \notin Pending(pool)
    <3>1. \A x \in Pending(pool) : x[1] \in PaymentJobs \cup {"conflict2"}
      BY <2>1, <1>2 DEF PhaseSound, WorkSound, JobsIn
    <3>2. <<"delivery3", e>>[1] = "delivery3" /\ <<"delivery2", e>>[1] = "delivery2"
      OBVIOUS
    <3>3. "delivery3" \notin PaymentJobs \cup {"conflict2"} /\ "delivery2" \notin PaymentJobs \cup {"conflict2"}
      BY DEF PaymentJobs
    <3> QED BY <3>1, <3>2, <3>3
  <2> QED BY <2>1, <2>2, <2>3, <1>1 DEF VectorsFilled, Waiting
<1> QED
  BY <1>5, <1>6, <1>7, <1>8, <1>9 DEF job, e

(* The sub-transactions find what earlier ones of their batch leave for     *)
(* them (TpccTPBatchProcessor.cc:183-287), whatever the queue, the buckets  *)
(* and the cuts into batches are: the ids, the lines and sums are there.    *)
THEOREM InputsReady == Spec \/ ThreadSpec => []InputsAreReady
BY PoolSound, ThreadsSound, SoundIsReady, PTL

-----------------------------------------------------------------------------
(* No conflicts.  Tasks of different jobs of a phase have different kinds   *)
(* of data, and what a job writes is not what it reads; tasks of one job    *)
(* have entries of different buckets, hence different rows.                *)

(* The kinds of data the jobs have.                                        *)
Written == [newOrder4  |-> {"stock", "dist"},
            newOrder12 |-> {"nextOId", "order", "oId"},
            newOrder5  |-> {"amount"},
            payment1   |-> {"wYtd"},
            payment2   |-> {"dYtd"},
            payment3   |-> {"history"},
            conflict   |-> {"newOrder", "firstNew", "noOId"},
            delivery3  |-> {"order", "cId"},
            newOrder6  |-> {"line"},
            delivery2  |-> {"line", "sum"},
            conflict2  |-> {"customer"}]
Read == [j \in Jobs |-> CASE j = "conflict"                   -> {"oId"}
                          [] j \in {"delivery2", "delivery3"} -> {"noOId"}
                          [] j = "conflict2"                  -> {"sum", "cId"}
                          [] j = "newOrder6"                  -> {"oId", "dist", "amount"}
                          [] OTHER                            -> {}]

(* What a job writes is of its kinds.                                      *)
LEMMA WritesKind ==
  ASSUME NEW job \in Jobs, NEW e, NEW x \in WritesOf(job, e)
  PROVE  x[1] \in Written[job]
<1>1. CASE job = "newOrder4"
  BY <1>1 DEF WritesOf, Written
<1>2. CASE job = "newOrder12"
  BY <1>2 DEF WritesOf, Written
<1>3. CASE job = "newOrder5"
  BY <1>3 DEF WritesOf, Written
<1>4. CASE job = "payment1"
  BY <1>4 DEF WritesOf, Written
<1>5. CASE job = "payment2"
  BY <1>5 DEF WritesOf, Written
<1>6. CASE job = "payment3"
  BY <1>6 DEF WritesOf, Written
<1>7. CASE job = "conflict"
  BY <1>7 DEF WritesOf, Written
<1>8. CASE job = "delivery3"
  BY <1>8 DEF WritesOf, Written
<1>9. CASE job = "newOrder6"
  BY <1>9 DEF WritesOf, Written
<1>10. CASE job = "delivery2"
  BY <1>10 DEF WritesOf, Written
<1>11. CASE job = "conflict2"
  BY <1>11 DEF WritesOf, Written
<1> QED
  BY <1>1, <1>2, <1>3, <1>4, <1>5, <1>6, <1>7, <1>8, <1>9, <1>10, <1>11 DEF Jobs

(* So is what it reads.                                                    *)
LEMMA ReadsKind ==
  ASSUME NEW job \in Jobs, NEW e, NEW x \in ReadsOf(job, e)
  PROVE  x[1] \in Read[job]
<1>1. CASE job = "conflict"
  BY <1>1 DEF ReadsOf, Read
<1>2. CASE job \in {"delivery2", "delivery3"}
  BY <1>2 DEF ReadsOf, Read
<1>3. CASE job = "conflict2"
  BY <1>3 DEF ReadsOf, Read
<1>4. CASE job = "newOrder6"
  BY <1>4 DEF ReadsOf, Read
<1>5. CASE job \notin {"conflict", "delivery2", "delivery3", "conflict2", "newOrder6"}
  BY <1>5 DEF ReadsOf
<1> QED
  BY <1>1, <1>2, <1>3, <1>4, <1>5

(* The kinds of jobs that may run together.                                *)
LEMMA KindsApart ==
  ASSUME phase \in DOMAIN JobsIn, NEW a \in JobsIn[phase], NEW b \in JobsIn[phase]
  PROVE  /\ a \in Jobs /\ b \in Jobs
         /\ Written[a] \cap Read[b] = {}
         /\ a # b => Written[a] \cap Written[b] = {}
<1>1. a \in Jobs /\ b \in Jobs
  BY DEF JobsIn, Jobs, LineJobs, PaymentJobs
<1>2. ASSUME NEW x, x \in Written[a], x \in Read[b] \/ (a # b /\ x \in Written[b])
      PROVE  FALSE
  <2>1. \A c \in Jobs : x \in Written[c] =>
           \/ c = "newOrder4" /\ x \in {"stock", "dist"}
           \/ c = "newOrder12" /\ x \in {"nextOId", "order", "oId"}
           \/ c = "newOrder5" /\ x \in {"amount"}
           \/ c = "payment1" /\ x \in {"wYtd"}
           \/ c = "payment2" /\ x \in {"dYtd"}
           \/ c = "payment3" /\ x \in {"history"}
           \/ c = "conflict" /\ x \in {"newOrder", "firstNew", "noOId"}
           \/ c = "delivery3" /\ x \in {"order", "cId"}
           \/ c = "newOrder6" /\ x \in {"line"}
           \/ c = "delivery2" /\ x \in {"line", "sum"}
           \/ c = "conflict2" /\ x \in {"customer"}
    BY DEF Jobs, Written
  <2>2. x \in Read[b] => \/ b = "conflict" /\ x = "oId"
                         \/ b \in {"delivery2", "delivery3"} /\ x = "noOId"
                         \/ b = "conflict2" /\ x \in {"sum", "cId"}
                         \/ b = "newOrder6" /\ x \in {"oId", "dist", "amount"}
    BY <1>1 DEF Read
  <2>3. \/ {a, b} \subseteq LineJobs \cup PaymentJobs \cup {"newOrder12"}
        \/ {a, b} \subseteq LineJobs \cup PaymentJobs \cup {"conflict"}
        \/ {a, b} \subseteq PaymentJobs \cup {"delivery3", "newOrder6"}
        \/ {a, b} \subseteq PaymentJobs \cup {"delivery3", "delivery2"}
        \/ {a, b} \subseteq PaymentJobs \cup {"conflict2"}
    BY DEF JobsIn
  <2>4. CASE x \in Read[b]
    BY <1>1, <1>2, <2>1, <2>2, <2>3, <2>4 DEF LineJobs, PaymentJobs
  <2>5. CASE a # b /\ x \in Written[b]
    BY <1>1, <1>2, <2>1, <2>3, <2>5 DEF LineJobs, PaymentJobs
  <2> QED BY <1>2, <2>4, <2>5
<1> QED
  BY <1>1, <1>2

(* Where an entry is at home.                                              *)
Home(e) == <<batch[e[1]].w, IF e[2] = None THEN batch[e[1]].d ELSE e[2]>>

(* What an iteration of a job that goes by districts writes names the       *)
(* district or the entry.                                                  *)
LEMMA WritesAtHome ==
  ASSUME NEW job \in Jobs \ (LineJobs \cup PaymentJobs), NEW e, NEW x \in WritesOf(job, e)
  PROVE  \/ x[1] \in {"nextOId", "order", "newOrder", "firstNew", "line", "customer"}
            /\ <<x[2], x[3]>> = Home(e)
         \/ x[1] \in {"noOId", "cId", "sum"} /\ x[2] = e
         \/ job = "newOrder12" /\ x[1] = "oId" /\ x[2] = e[1]
<1>1. CASE job = "newOrder12"
  BY <1>1 DEF WritesOf, Home
<1>2. CASE job = "conflict"
  BY <1>2 DEF WritesOf, Home
<1>3. CASE job = "delivery3"
  BY <1>3 DEF WritesOf, Home
<1>4. CASE job = "newOrder6"
  BY <1>4 DEF WritesOf, Home
<1>5. CASE job = "delivery2"
  BY <1>5 DEF WritesOf, Home
<1>6. CASE job = "conflict2"
  BY <1>6 DEF WritesOf, Home
<1> QED
  BY <1>1, <1>2, <1>3, <1>4, <1>5, <1>6 DEF Jobs, LineJobs, PaymentJobs

(* The same data, the same bucket.                                         *)
LEMMA SameBucket ==
  ASSUME QueueSound, NEW job \in Jobs, NEW e \in EntriesOf[job], NEW f \in EntriesOf[job],
         e \in Entries, f \in Entries,
         NEW x, x \in WritesOf(job, e), x \in WritesOf(job, f)
  PROVE  BucketOf[<<job, e>>] = BucketOf[<<job, f>>]
<1>1. CASE job \in PaymentJobs
  <2>1. job \notin LineJobs
    BY <1>1 DEF LineJobs, PaymentJobs
  <2> QED BY <2>1, <1>1 DEF BucketOf
<1>2. CASE job \in LineJobs
  <2>1. e \in LineEntries /\ f \in LineEntries
    BY <1>2 DEF EntriesOf, LineJobs
  <2>2. BucketOf[<<job, e>>] = LineBucket[e] /\ BucketOf[<<job, f>>] = LineBucket[f]
    BY <1>2 DEF BucketOf, LineJobs, PaymentJobs
  <2>3. e = f \/ StockOf(batch[e[1]], e[2]) = StockOf(batch[f[1]], f[2])
    <3>1. CASE job = "newOrder4"
      BY <3>1 DEF WritesOf
    <3>2. CASE job = "newOrder5"
      BY <3>2 DEF WritesOf
    <3> QED BY <3>1, <3>2, <1>2 DEF LineJobs
  <2>4. LineBucket[e] = LineBucket[f]
    <3>1. CASE e = f
      BY <3>1
    <3>2. CASE StockOf(batch[e[1]], e[2]) = StockOf(batch[f[1]], f[2])
      BY <3>2, <2>1, LineBucketIs
    <3> QED BY <3>1, <3>2, <2>3
  <2> QED BY <2>2, <2>4
<1>3. CASE job \notin LineJobs \cup PaymentJobs
  <2>1. /\ e \in NewOrderEntries \cup PaymentEntries \cup DeliveryEntries
        /\ f \in NewOrderEntries \cup PaymentEntries \cup DeliveryEntries
    BY <1>3 DEF EntriesOf, Jobs, FoundEntries, LineJobs, PaymentJobs
  <2>2. BucketOf[<<job, e>>] = HomeBucket[e] /\ BucketOf[<<job, f>>] = HomeBucket[f]
    BY <1>3 DEF BucketOf
  <2>3. e = f \/ Home(e) = Home(f)
    <3>1. /\ \/ x[1] \in {"nextOId", "order", "newOrder", "firstNew", "line", "customer"}
                /\ <<x[2], x[3]>> = Home(e)
             \/ x[1] \in {"noOId", "cId", "sum"} /\ x[2] = e
             \/ job = "newOrder12" /\ x[1] = "oId" /\ x[2] = e[1]
          /\ \/ x[1] \in {"nextOId", "order", "newOrder", "firstNew", "line", "customer"}
                /\ <<x[2], x[3]>> = Home(f)
             \/ x[1] \in {"noOId", "cId", "sum"} /\ x[2] = f
             \/ job = "newOrder12" /\ x[1] = "oId" /\ x[2] = f[1]
      BY <1>3, WritesAtHome
    <3>2. ASSUME job = "newOrder12", e[1] = f[1] PROVE e = f
      <4>1. e \in NewOrderEntries /\ f \in NewOrderEntries
        BY <3>2 DEF EntriesOf
      <4> QED BY <4>1, <3>2 DEF NewOrderEntries
    <3> QED BY <3>1, <3>2
  <2>4. HomeBucket[e] = HomeBucket[f]
    <3>1. CASE e = f
      BY <3>1
    <3>2. CASE Home(e) = Home(f)
      <4>1. /\ HomeBucket[e] = OffsetOf(Home(e)[1], Home(e)[2]) % Parallelism
            /\ HomeBucket[f] = OffsetOf(Home(f)[1], Home(f)[2]) % Parallelism
        BY <2>1, HomeBucketIs DEF Home
      <4> QED BY <4>1, <3>2
    <3> QED BY <3>1, <3>2, <2>3
  <2> QED BY <2>2, <2>4
<1> QED
  BY <1>1, <1>2, <1>3

(* Two tasks that may run together have nothing to fight for.              *)
LEMMA SoundIsConflictFree == IInv => ConflictFree
<1> SUFFICES ASSUME IInv, NEW j \in Active, NEW k \in Active, j # k,
                    NEW x, x \in WritesOf(pool[j].job, Entry(j)),
                    x \in WritesOf(pool[k].job, Entry(k)) \/ x \in ReadsOf(pool[k].job, Entry(k))
             PROVE  FALSE
  BY DEF ConflictFree
<1> DEFINE a == pool[j].job
           b == pool[k].job
<1>1. AtWork(j) /\ AtWork(k)
  BY WorkIn
<1>2. /\ phase \in DOMAIN JobsIn /\ a \in JobsIn[phase] /\ b \in JobsIn[phase]
      /\ a \in Jobs /\ b \in Jobs
  BY <1>1 DEF AtWork
<1>3. Written[a] \cap Read[b] = {} /\ (a # b => Written[a] \cap Written[b] = {})
  BY <1>2, KindsApart
<1>4. x[1] \in Written[a]
  BY <1>2, WritesKind
<1>5. x \notin ReadsOf(b, Entry(k))
  <2>1. x \in ReadsOf(b, Entry(k)) => x[1] \in Read[b]
    BY <1>2, ReadsKind
  <2> QED BY <2>1, <1>3, <1>4
<1>6. x \in WritesOf(b, Entry(k))
  BY <1>5
<1>7. a = b
  <2>1. x[1] \in Written[b]
    BY <1>2, <1>6, WritesKind
  <2> QED BY <2>1, <1>3, <1>4
<1>8. BucketOf[<<a, Entry(j)>>] # BucketOf[<<a, Entry(k)>>]
  <2>1. Apart(pool, BucketOf)
    BY DEF IInv, PhaseSound, WorkSound
  <2> QED BY <2>1, <1>1, <1>7 DEF Apart, AtWork
<1>9. BucketOf[<<a, Entry(j)>>] = BucketOf[<<a, Entry(k)>>]
  <2>1. QueueSound
    BY DEF IInv
  <2>2. /\ Entry(j) \in EntriesOf[a] /\ Entry(k) \in EntriesOf[a]
        /\ Entry(j) \in Entries /\ Entry(k) \in Entries
    BY <1>1, <1>7 DEF AtWork
  <2>3. x \in WritesOf(a, Entry(j)) /\ x \in WritesOf(a, Entry(k))
    BY <1>6, <1>7
  <2> HIDE DEF a, b
  <2> QED BY <2>1, <2>2, <2>3, <1>2, SameBucket
<1> QED
  BY <1>8, <1>9

(* Two tasks that run at the same time never touch the same data, in the    *)
(* processor with the pool and in the one with threads                      *)
(* (TpccTPBatchProcessor.cc:86-99, 182), whatever the queue, the buckets    *)
(* and the cuts into batches are.                                          *)
THEOREM NoConflicts == Spec \/ ThreadSpec => []ConflictFree
BY PoolSound, ThreadsSound, SoundIsConflictFree, PTL
=============================================================================
