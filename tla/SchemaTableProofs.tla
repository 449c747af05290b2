-------------------------- MODULE SchemaTableProofs --------------------------
(***************************************************************************)
(* What BaseTable.tla and SchemaTable.tla claim, proved for any number of  *)
(* threads, records and blocks of any size.                                *)
(***************************************************************************)
EXTENDS SchemaTable, TLAPS

\* How the processors use a table: several threads only insert, or a single
\* one works on it, and a record that is deleted has its secondary key for
\* itself.
UsedByBuckets ==
    /\ SoleDeleter
    /\ Deleters # {} => \A r, s \in DOMAIN SecondaryKey :
                            SecondaryKey[r] = SecondaryKey[s] => r = s

Critical == {"incRead", "incWrite"}
Filling == {"incRead", "incWrite", "header", "data", "stored"}
Erasing == {"free", "clear", "decRead", "decWrite", "removed"}
Labels == {"idle", "lock", "index", "unindex"} \cup Filling \cup Erasing

Elements(s) == {s[i] : i \in DOMAIN s}
NoneTwice(s) == \A i, j \in DOMAIN s : s[i] = s[j] => i = j

\* The slots that have been handed out at least once.
HandedOut == {a \in Addresses : /\ a[1] \in 1 .. blocks
                                /\ a[2] \in 1 .. PerBlock
                                /\ a[1] = blocks => a[2] < next[2]}

Types == /\ blocks \in 0 .. MaxBlocks
         /\ next \in Nat \X Nat
         /\ free \in Seq(Addresses)
         /\ occupied \in Int
         /\ allocated \in Nat
         /\ header \in [Addresses -> {"EMPTY", "OCCUPIED"}]
         /\ data \in [Addresses -> Records \cup {NoRecord}]
         /\ mutex \in Threads \cup {Nobody}
         /\ pc \in [Threads -> Labels]
         /\ rec \in [Threads -> Records \cup {NoRecord}]
         /\ slot \in [Threads -> Addresses \cup {Null}]
         /\ count \in [Threads -> Int]
         /\ primary \in [Indexed -> Addresses]
         /\ Indexed \subseteq Records
         /\ live \subseteq Records

(* Who may do what at a time, and the space that is left.                  *)
LockInv == /\ \A t \in Threads : pc[t] \in Critical <=> mutex = t
           /\ \A t \in Threads : pc[t] \in Erasing \cup {"unindex"} => t \in Deleters
           /\ \A t \in Threads : pc[t] \in {"incWrite", "decWrite"} => count[t] = occupied

SpaceInv == /\ IF blocks = 0 THEN next = Null
                             ELSE next[1] = blocks /\ next[2] \in 1 .. PerBlock + 1
            /\ SpaceAccounting

(* A slot is untouched, free, indexed or in the hands of one thread.       *)
SlotInv ==
    /\ \A t \in Threads : pc[t] \in Labels \ {"idle", "lock"} => slot[t] \in HandedOut
    /\ Elements(free) \subseteq HandedOut
    /\ NoneTwice(free)
    /\ \A t \in Threads : pc[t] \in Filling \cup {"free"} => slot[t] \notin Elements(free)
    /\ \A t, u \in Threads :
           pc[t] \in Filling /\ pc[u] \in Filling /\ slot[t] = slot[u] => t = u

BytesInv ==
    /\ \A a \in Addresses : a \notin HandedOut => header[a] = "EMPTY"
    /\ \A a \in Elements(free) :
           (\A t \in Threads : pc[t] = "clear" => slot[t] # a) => header[a] = "EMPTY"
   
    /\ \A t \in Threads : pc[t] \in {"incRead", "incWrite", "header"} => header[slot[t]] = "EMPTY"
    /\ \A t \in Threads : pc[t] \in {"data", "stored"} => header[slot[t]] = "OCCUPIED"
    /\ \A t \in Threads : pc[t] = "stored" => data[slot[t]] = rec[t]

(* The index entries, and the records that are on their way in or out.     *)
BeingErased(a) == \E t \in Threads : pc[t] \in Erasing /\ slot[t] = a

EntryInv ==
    /\ \A r \in Indexed : primary[r] \in HandedOut /\ data[primary[r]] = r
    /\ \A r \in Indexed : ~BeingErased(primary[r]) =>
           header[primary[r]] = "OCCUPIED" /\ primary[r] \notin Elements(free)
    /\ \A t \in Threads, r \in Indexed : pc[t] \in Filling => slot[t] # primary[r]

CallInv ==
    /\ \A t \in Threads : pc[t] \in {"lock"} \cup Filling =>
           rec[t] \in Records \ Indexed /\ Bucket[rec[t]] = t
    /\ \A t \in Threads : pc[t] = "index" =>
           /\ rec[t] \in Indexed /\ HasSecondary(rec[t]) /\ Bucket[rec[t]] = t
           /\ primary[rec[t]] = slot[t]
    /\ \A t \in Threads : pc[t] \in Erasing =>
           data[slot[t]] \in Indexed /\ primary[data[slot[t]]] = slot[t]
    /\ \A t \in Threads : pc[t] = "unindex" =>
           data[slot[t]] \in Records \ Indexed /\ HasSecondary(data[slot[t]])

LiveInv ==
    \A r \in Records : r \in live <=>
        \/ r \in Indexed /\ ~BeingErased(primary[r])
        \/ \E t \in Threads : pc[t] \in {"lock"} \cup Filling /\ rec[t] = r

Entered(r) == /\ r \in Indexed /\ HasSecondary(r)
              /\ \A t \in Threads : pc[t] = "index" => rec[t] # r
SecondaryInv ==
    secondary = {<<SecondaryKey[r], primary[r]>> : r \in {x \in Indexed : Entered(x)}}
          \cup {<<SecondaryKey[data[slot[t]]], slot[t]>> : t \in {u \in Threads : pc[u] = "unindex"}}

TableInv == /\ Types /\ LockInv /\ SpaceInv /\ SlotInv /\ BytesInv
            /\ EntryInv /\ CallInv /\ LiveInv /\ SecondaryInv

-----------------------------------------------------------------------------
(* Sequences: what a queue does to its elements.                           *)

\* free_list.push
LEMMA PushedElements ==
    ASSUME NEW S, NEW s \in Seq(S), NEW a \in S
    PROVE  /\ Append(s, a) \in Seq(S)
           /\ Len(Append(s, a)) = Len(s) + 1
           /\ Elements(Append(s, a)) = Elements(s) \cup {a}
           /\ NoneTwice(s) /\ a \notin Elements(s) => NoneTwice(Append(s, a))
<1> DEFINE p == Append(s, a)
<1>1. /\ p \in Seq(S)
      /\ Len(s) \in Nat
      /\ Len(p) = Len(s) + 1
      /\ DOMAIN s = 1 .. Len(s)
      /\ DOMAIN p = 1 .. Len(s) + 1
      /\ \A i \in 1 .. Len(s) : p[i] = s[i]
      /\ p[Len(s) + 1] = a
  OBVIOUS
<1> HIDE DEF p
<1>2. Elements(p) = Elements(s) \cup {a}
  BY <1>1 DEF Elements
<1>3. NoneTwice(s) /\ a \notin Elements(s) => NoneTwice(p)
  BY <1>1 DEF NoneTwice, Elements
<1> QED BY <1>1, <1>2, <1>3 DEF p

\* free_list.try_pop
LEMMA PoppedElements ==
    ASSUME NEW S, NEW s \in Seq(S), s # <<>>, NoneTwice(s)
    PROVE  /\ Tail(s) \in Seq(S)
           /\ Len(Tail(s)) = Len(s) - 1
           /\ Head(s) \in Elements(s)
           /\ Elements(Tail(s)) = Elements(s) \ {Head(s)}
           /\ NoneTwice(Tail(s))
<1> DEFINE q == Tail(s)
<1>1. /\ q \in Seq(S)
      /\ Len(s) \in Nat /\ Len(s) >= 1
      /\ Len(q) = Len(s) - 1
      /\ DOMAIN s = 1 .. Len(s)
      /\ DOMAIN q = 1 .. Len(s) - 1
      /\ \A i \in 1 .. Len(s) - 1 : q[i] = s[i + 1]
      /\ Head(s) = s[1]
  OBVIOUS
<1> HIDE DEF q
<1>2. Head(s) \in Elements(s)
  BY <1>1 DEF Elements
<1>3. NoneTwice(q)
  <2> SUFFICES ASSUME NEW i \in DOMAIN q, NEW j \in DOMAIN q, q[i] = q[j] PROVE i = j
    BY DEF NoneTwice
  <2>1. i + 1 \in DOMAIN s /\ j + 1 \in DOMAIN s /\ s[i + 1] = s[j + 1]
    BY <1>1
  <2>2. i + 1 = j + 1
    BY <2>1 DEF NoneTwice
  <2> QED BY <1>1, <2>2
<1>4. Elements(q) \subseteq Elements(s) \ {Head(s)}
  <2> SUFFICES ASSUME NEW i \in DOMAIN q PROVE q[i] \in Elements(s) \ {s[1]}
    BY <1>1 DEF Elements
  <2>1. i + 1 \in DOMAIN s /\ 1 \in DOMAIN s /\ i + 1 # 1 /\ q[i] = s[i + 1]
    BY <1>1
  <2> QED BY <2>1 DEF Elements, NoneTwice
<1>5. Elements(s) \ {Head(s)} \subseteq Elements(q)
  <2> SUFFICES ASSUME NEW i \in DOMAIN s, s[i] # s[1] PROVE s[i] \in Elements(q)
    BY <1>1 DEF Elements
  <2>1. i - 1 \in DOMAIN q /\ q[i - 1] = s[i]
    BY <1>1
  <2> QED BY <2>1 DEF Elements
<1> QED BY <1>1, <1>2, <1>3, <1>4, <1>5 DEF q

-----------------------------------------------------------------------------
(* Who is alone, and what insertRecord finds.                              *)

\* Whoever deletes works on the table alone.
LEMMA EraserIsAlone ==
    ASSUME UsedByBuckets, LockInv, NEW t \in Threads, NEW u \in Threads,
           pc[u] \in Erasing \cup {"unindex"}
    PROVE  t = u
BY DEF UsedByBuckets, SoleDeleter, LockInv

\* Hence nobody deletes while another thread is in an operation.
LEMMA NobodyErases ==
    ASSUME UsedByBuckets, LockInv, NEW t \in Threads, pc[t] \notin Erasing
    PROVE  \A a : ~BeingErased(a)
BY EraserIsAlone DEF BeingErased

\* insertRecord chooses a slot that holds no record, that is nobody else's and
\* that cannot be handed out again; the counters know of it.
LEMMA ChosenSlot ==
    ASSUME UsedByBuckets, TableInv, NEW t \in Threads, InsertChoose(t)
    PROVE  /\ slot'[t] \in Addresses
           /\ HandedOut' = HandedOut \cup {slot'[t]}
           /\ header[slot'[t]] = "EMPTY"
           /\ \A u \in Threads : pc[u] \in Filling => slot[u] # slot'[t]
           /\ \A r \in Indexed : primary[r] # slot'[t]
           /\ free' \in Seq(Addresses)
           /\ Elements(free') = Elements(free) \ {slot'[t]}
           /\ NoneTwice(free')
           /\ slot' = [slot EXCEPT ![t] = slot'[t]]
           /\ blocks' \in 0 .. MaxBlocks /\ next' \in Nat \X Nat /\ allocated' \in Nat
           /\ blocks' # 0 /\ next'[1] = blocks' /\ next'[2] \in 1 .. PerBlock + 1
           /\ allocated' - occupied' = Len(free') + Remaining' + 1
<1> USE TableAssumption
<1>1. /\ pc[t] = "lock"
      /\ mutex = Nobody
      /\ occupied' = occupied
      /\ slot \in [Threads -> Addresses \cup {Null}]
      /\ free \in Seq(Addresses)
      /\ blocks \in 0 .. MaxBlocks /\ next \in Nat \X Nat /\ allocated \in Nat
      /\ occupied \in Int
  BY DEF InsertChoose, TableInv, Types
<1>2. /\ ~(\E u \in Threads : pc[u] \in Erasing \cup {"unindex"})
      /\ \A a : ~BeingErased(a)
  BY <1>1, EraserIsAlone, NobodyErases DEF TableInv, Erasing
<1>3. /\ Uncounted = 0
      /\ Undiscounted = 0
  BY <1>1, <1>2 DEF TableInv, LockInv, Critical, Erasing, Uncounted, Undiscounted
<1>4. Len(free) \in Nat /\ Remaining \in Nat
  BY <1>1 DEF TableInv, SpaceInv, Remaining
<1>5. allocated - occupied = Len(free) + Remaining
  BY <1>3, <1>4 DEF TableInv, SpaceInv, SpaceAccounting
<1>6. CASE TakeFromNewBlock(t)
  <2>1. Len(free) = 0 /\ Remaining = 0
    BY <1>1, <1>4, <1>5, <1>6 DEF TakeFromNewBlock
  <2>2. /\ slot'[t] = <<blocks + 1, 1>>
        /\ next' = <<blocks + 1, 2>>
        /\ blocks' = blocks + 1
        /\ blocks + 1 \in 1 .. MaxBlocks
        /\ allocated' = allocated + PerBlock
        /\ free' = free
        /\ slot' = [slot EXCEPT ![t] = slot'[t]]
    BY <1>1, <1>6 DEF TakeFromNewBlock
  <2>3. slot'[t] \in Addresses /\ slot'[t] \notin HandedOut
    BY <1>1, <2>2 DEF Addresses, HandedOut
  <2>4. HandedOut' = HandedOut \cup {slot'[t]}
    <3>1. ASSUME NEW a \in Addresses
          PROVE  a \in HandedOut' <=> a \in HandedOut \/ a = <<blocks + 1, 1>>
      BY <1>1, <2>1, <2>2 DEF Addresses, HandedOut, Remaining, TableInv, SpaceInv
    <3> QED BY <2>2, <2>3, <3>1 DEF HandedOut
  <2>5. Remaining' = PerBlock - 1
    BY <1>1, <2>2 DEF Remaining
  <2> QED BY <1>1, <1>5, <2>1, <2>2, <2>3, <2>4, <2>5
          DEF TableInv, SlotInv, BytesInv, EntryInv, Labels, Filling
<1>7. CASE TakeFromFreeList(t)
  <2>1. /\ free # <<>>
        /\ slot'[t] = Head(free)
        /\ free' = Tail(free)
        /\ blocks' = blocks /\ next' = next /\ allocated' = allocated
        /\ slot' = [slot EXCEPT ![t] = slot'[t]]
    BY <1>1, <1>7 DEF TakeFromFreeList
  <2>2. /\ free' \in Seq(Addresses)
        /\ Len(free') = Len(free) - 1
        /\ slot'[t] \in Elements(free)
        /\ Elements(free') = Elements(free) \ {slot'[t]}
        /\ NoneTwice(free')
    BY <1>1, <2>1, PoppedElements DEF TableInv, SlotInv
  <2>3. HandedOut' = HandedOut /\ Remaining' = Remaining
    BY <2>1 DEF HandedOut, Remaining
  <2>4. slot'[t] \in HandedOut /\ HandedOut \subseteq Addresses
    BY <2>2 DEF TableInv, SlotInv, HandedOut
  <2>5. header[slot'[t]] = "EMPTY"
    BY <1>2, <2>2 DEF TableInv, BytesInv, Erasing
  <2>6. \A u \in Threads : pc[u] \in Filling => slot[u] # slot'[t]
    BY <2>2 DEF TableInv, SlotInv
  <2>7. \A r \in Indexed : primary[r] # slot'[t]
    BY <1>2, <2>2 DEF TableInv, EntryInv
  <2>8. blocks # 0
    BY <1>1, <2>4 DEF HandedOut
  <2> QED BY <1>1, <1>4, <1>5, <2>1, <2>2, <2>3, <2>4, <2>5, <2>6, <2>7, <2>8
          DEF TableInv, SpaceInv
<1>8. CASE TakeNextSlot(t)
  <2>1. /\ allocated # occupied
        /\ free = <<>>
        /\ next \in Addresses
        /\ slot'[t] = next
        /\ next' = <<next[1], next[2] + 1>>
        /\ blocks' = blocks /\ free' = free /\ allocated' = allocated
        /\ slot' = [slot EXCEPT ![t] = slot'[t]]
    BY <1>1, <1>8 DEF TakeNextSlot, Behind
  <2>2. Len(free) = 0 /\ Remaining # 0
    BY <1>1, <1>4, <1>5, <2>1
  <2>3. blocks # 0 /\ next[1] = blocks /\ next[2] \in 1 .. PerBlock
    BY <1>1, <2>2 DEF Remaining, TableInv, SpaceInv
  <2>4. Remaining' = Remaining - 1
    BY <1>1, <2>1, <2>3 DEF Remaining
  <2>5. slot'[t] \in Addresses /\ slot'[t] \notin HandedOut
    BY <1>1, <2>1, <2>3 DEF HandedOut
  <2>6. HandedOut' = HandedOut \cup {slot'[t]}
    <3>1. ASSUME NEW a \in Addresses
          PROVE  a \in HandedOut' <=> a \in HandedOut \/ a = next
      BY <1>1, <2>1, <2>3 DEF Addresses, HandedOut
    <3> QED BY <2>1, <2>5, <3>1 DEF HandedOut
  <2>7. Elements(free) = {} /\ NoneTwice(free)
    BY <2>1 DEF Elements, NoneTwice
  <2>8. /\ header[slot'[t]] = "EMPTY"
        /\ \A u \in Threads : pc[u] \in Filling => slot[u] # slot'[t]
        /\ \A r \in Indexed : primary[r] # slot'[t]
    BY <2>5 DEF TableInv, SlotInv, BytesInv, EntryInv, Labels, Filling
  <2>9. next' \in Nat \X Nat /\ next'[1] = blocks' /\ next'[2] \in 1 .. PerBlock + 1
    BY <1>1, <2>1, <2>3
  <2> QED BY <1>1, <1>4, <1>5, <2>1, <2>2, <2>3, <2>4, <2>5, <2>6, <2>7, <2>8, <2>9
<1> QED BY <1>6, <1>7, <1>8 DEF InsertChoose

-----------------------------------------------------------------------------
(* Every operation keeps the invariant.                                    *)

\* The caller has not found the key, and its bucket is no other thread's: rec[t]
\* is in nobody's hands and in no index.
LEMMA InsertKeeps ==
    ASSUME UsedByBuckets, TableInv, NEW r \in Records, Insert(Bucket[r], r)
    PROVE  TableInv'
<1> DEFINE t == Bucket[r]
<1> USE TableAssumption, IndexAssumption
<1>1. /\ t \in Threads /\ Bucket[r] = t
      /\ pc[t] = "idle"
      /\ r \notin Indexed
      /\ pc' = [pc EXCEPT ![t] = "lock"]
      /\ rec' = [rec EXCEPT ![t] = r]
      /\ live' = live \cup {r}
      /\ blocks' = blocks /\ next' = next /\ free' = free /\ occupied' = occupied
      /\ allocated' = allocated
      /\ header' = header /\ data' = data /\ mutex' = mutex /\ slot' = slot
      /\ count' = count
      /\ primary' = primary /\ secondary' = secondary
  BY DEF Insert, InsertCall, Goto, space, SelectRecord, UniqueSearch, TableInv, Types,
         EntryInv, Addresses, Null, Indexed
<1> HIDE DEF t
<1>2. Types /\ LockInv /\ SpaceInv /\ SlotInv /\ BytesInv /\ EntryInv /\ CallInv
  BY DEF TableInv
<1>3. HandedOut' = HandedOut /\ Elements(free)' = Elements(free)
  BY <1>1 DEF HandedOut, Elements
<1>5. Types'
  BY <1>1, <1>2 DEF Types, Labels, Indexed
<1>6. LockInv'
  BY <1>1, <1>2 DEF LockInv, Critical, Erasing
<1>7. SpaceInv'
  BY <1>1, <1>2 DEF SpaceInv, SpaceAccounting, Remaining, Uncounted, Undiscounted
<1>8. SlotInv'
  BY <1>1, <1>2, <1>3 DEF SlotInv, Filling
<1>9. BytesInv'
  BY <1>1, <1>2, <1>3 DEF BytesInv
<1>10. EntryInv'
  <2>1. \A a : BeingErased(a)' <=> BeingErased(a)
    BY <1>1, <1>2 DEF BeingErased, Types, Erasing
  <2> QED BY <1>1, <1>2, <1>3, <2>1 DEF EntryInv, Types, Indexed, Filling
<1>11. CallInv'
  BY <1>1, <1>2 DEF CallInv, Types, Indexed, Erasing
<1>12. LiveInv'
  <2>1. \A a : BeingErased(a)' <=> BeingErased(a)
    BY <1>1, <1>2 DEF BeingErased, Types, Erasing
  <2>2. LiveInv
    BY DEF TableInv
  <2>3. \A u \in Threads \ {t} : pc[u] \in {"lock"} \cup Filling => rec[u] # r
    BY <1>1, <1>2 DEF CallInv
  <2> QED BY <1>1, <1>2, <2>1, <2>2, <2>3, ZenonT(60) DEF LiveInv, Types, Indexed, Filling
<1>13. SecondaryInv'
  <2>1. SecondaryInv
    BY DEF TableInv
  <2>3. pc \in [Threads -> Labels] /\ rec \in [Threads -> Records \cup {NoRecord}]
    BY <1>2 DEF Types
  <2>2. \A u \in Threads : (pc'[u] = "index" <=> pc[u] = "index")
                       /\ (pc'[u] = "unindex" <=> pc[u] = "unindex")
                       /\ (pc[u] = "index" => rec'[u] = rec[u])
    BY <1>1, <2>3
  <2> QED BY <1>1, <2>1, <2>2 DEF SecondaryInv, Entered, HasSecondary, Indexed
<1> QED BY <1>5, <1>6, <1>7, <1>8, <1>9, <1>10, <1>11, <1>12, <1>13 DEF TableInv

\* Nobody else changes the counter while t holds the mutex.
LEMMA InsertCountReadKeeps ==
    ASSUME UsedByBuckets, TableInv, NEW t \in Threads, InsertCountRead(t), UNCHANGED indexVars
    PROVE  TableInv'
<1> USE TableAssumption, IndexAssumption
<1>1. /\ pc[t] = "incRead"
      /\ pc' = [pc EXCEPT ![t] = "incWrite"]
      /\ count' = [count EXCEPT ![t] = occupied]
      /\ blocks' = blocks /\ next' = next /\ free' = free /\ occupied' = occupied
      /\ allocated' = allocated
      /\ header' = header /\ data' = data /\ mutex' = mutex /\ rec' = rec /\ slot' = slot
      /\ primary' = primary /\ secondary' = secondary /\ live' = live
  BY DEF InsertCountRead, Goto, space, indexVars
<1>2. Types /\ LockInv /\ SpaceInv /\ SlotInv /\ BytesInv /\ EntryInv /\ CallInv
  BY DEF TableInv
<1>3. HandedOut' = HandedOut /\ Elements(free)' = Elements(free)
  BY <1>1 DEF HandedOut, Elements
<1>5. Types'
  BY <1>1, <1>2 DEF Types, Labels, Filling, Indexed
<1>6. LockInv'
  BY <1>1, <1>2 DEF LockInv, Types, Critical, Erasing
<1>7. SpaceInv'
  BY <1>1, <1>2 DEF SpaceInv, SpaceAccounting, Remaining, Uncounted, Undiscounted
<1>8. SlotInv'
  BY <1>1, <1>2, <1>3 DEF SlotInv, Types, Filling
<1>9. BytesInv'
  BY <1>1, <1>2, <1>3 DEF BytesInv
<1>10. EntryInv'
  BY <1>1, <1>2, <1>3 DEF EntryInv, BeingErased, Indexed, Filling
<1>11. CallInv'
  BY <1>1, <1>2 DEF CallInv, Indexed, Filling, Erasing
<1>12. LiveInv'
  BY <1>1 DEF LiveInv, TableInv, EntryInv, BeingErased, Indexed, Filling
<1>13. SecondaryInv'
  BY <1>1 DEF SecondaryInv, TableInv, Entered, Indexed
<1> QED BY <1>5, <1>6, <1>7, <1>8, <1>9, <1>10, <1>11, <1>12, <1>13 DEF TableInv

\* The slot t has taken is counted, and the mutex free again.
LEMMA InsertCountWriteKeeps ==
    ASSUME UsedByBuckets, TableInv, NEW t \in Threads, InsertCountWrite(t), UNCHANGED indexVars
    PROVE  TableInv'
<1> USE TableAssumption, IndexAssumption
<1>1. /\ pc[t] = "incWrite"
      /\ pc' = [pc EXCEPT ![t] = "header"]
      /\ occupied' = count[t] + 1
      /\ mutex' = Nobody
      /\ blocks' = blocks /\ next' = next /\ free' = free /\ allocated' = allocated
      /\ header' = header
      /\ data' = data /\ rec' = rec /\ slot' = slot /\ count' = count /\ primary' = primary
      /\ secondary' = secondary /\ live' = live
  BY DEF InsertCountWrite, Goto, space, indexVars
<1>2. Types /\ LockInv /\ SpaceInv /\ SlotInv /\ BytesInv /\ EntryInv /\ CallInv
  BY DEF TableInv
<1>3. HandedOut' = HandedOut /\ Elements(free)' = Elements(free)
  BY <1>1 DEF HandedOut, Elements
<1>4. \A u \in Threads : pc[u] \in Erasing \cup {"unindex"} => u = t
  BY <1>1, <1>2, EraserIsAlone
<1>5. Types'
  BY <1>1, <1>2 DEF Types, Labels, Filling, Indexed
<1>6. LockInv'
  BY <1>1, <1>2, <1>4 DEF LockInv, Types, Critical, Erasing
<1>7. SpaceInv'
  <2>1. Uncounted = 1 /\ Uncounted' = 0
    BY <1>1, <1>2 DEF Uncounted, Types, LockInv, Critical
  <2>2. Undiscounted = 0 /\ Undiscounted' = 0
    BY <1>1, <1>4 DEF Undiscounted, Erasing
  <2>3. count[t] = occupied /\ Remaining' = Remaining
    BY <1>1, <1>2 DEF LockInv, Remaining
  <2>4. Len(free) \in Int /\ Remaining \in Int
    BY <1>2 DEF Types, Remaining
  <2> QED BY <1>1, <1>2, <2>1, <2>2, <2>3, <2>4 DEF SpaceInv, SpaceAccounting, Types
<1>8. SlotInv'
  BY <1>1, <1>2, <1>3 DEF SlotInv, Types, Filling
<1>9. BytesInv'
  BY <1>1, <1>2, <1>3 DEF BytesInv
<1>10. EntryInv'
  BY <1>1, <1>2, <1>3 DEF EntryInv, BeingErased, Indexed, Filling
<1>11. CallInv'
  BY <1>1, <1>2 DEF CallInv, Indexed, Filling, Erasing
<1>12. LiveInv'
  BY <1>1 DEF LiveInv, TableInv, EntryInv, BeingErased, Indexed, Filling
<1>13. SecondaryInv'
  BY <1>1 DEF SecondaryInv, TableInv, Entered, Indexed
<1> QED BY <1>5, <1>6, <1>7, <1>8, <1>9, <1>10, <1>11, <1>12, <1>13 DEF TableInv

\* The slot of t is nobody else's, so that no other header changes.
LEMMA InsertHeaderKeeps ==
    ASSUME UsedByBuckets, TableInv, NEW t \in Threads, InsertHeader(t), UNCHANGED indexVars
    PROVE  TableInv'
<1> USE TableAssumption, IndexAssumption
<1>1. /\ pc[t] = "header"
      /\ pc' = [pc EXCEPT ![t] = "data"]
      /\ header' = [header EXCEPT ![slot[t]] = "OCCUPIED"]
      /\ blocks' = blocks /\ next' = next /\ free' = free /\ occupied' = occupied
      /\ allocated' = allocated
      /\ data' = data /\ mutex' = mutex /\ rec' = rec /\ slot' = slot /\ count' = count
      /\ primary' = primary /\ secondary' = secondary /\ live' = live
  BY DEF InsertHeader, Goto, space, indexVars
<1>2. Types /\ LockInv /\ SpaceInv /\ SlotInv /\ BytesInv /\ EntryInv /\ CallInv
  BY DEF TableInv
<1>3. HandedOut' = HandedOut /\ Elements(free)' = Elements(free)
  BY <1>1 DEF HandedOut, Elements
<1>5. Types'
  BY <1>1, <1>2 DEF Types, Labels, Filling, Indexed
<1>6. LockInv'
  BY <1>1, <1>2 DEF LockInv, Critical, Erasing
<1>7. SpaceInv'
  BY <1>1, <1>2 DEF SpaceInv, SpaceAccounting, Remaining, Uncounted, Undiscounted
<1>8. SlotInv'
  BY <1>1, <1>2, <1>3 DEF SlotInv, Types, Filling
<1>9. BytesInv'
  <2>0. slot[t] \in HandedOut /\ slot[t] \in Addresses
    BY <1>1, <1>2 DEF SlotInv, Labels, Filling, Erasing, HandedOut
  <2>1. (\A a \in Addresses : a \notin HandedOut => header[a] = "EMPTY")'
    BY <1>1, <1>2, <1>3, <2>0 DEF BytesInv
  <2>2. (\A a \in Elements(free) : (\A u \in Threads : pc[u] = "clear" => slot[u] # a) => header[a] = "EMPTY")'
    BY <1>1, <1>2 DEF BytesInv, SlotInv, Filling
  <2>3. (\A u \in Threads : pc[u] \in {"incRead", "incWrite", "header"} => header[slot[u]] = "EMPTY")'
    BY <1>1, <1>2 DEF BytesInv, SlotInv, Types, Filling
  <2>4. (\A u \in Threads : pc[u] \in {"data", "stored"} => header[slot[u]] = "OCCUPIED")'
    BY <1>1, <1>2, <2>0 DEF BytesInv, Types
  <2>5. (\A u \in Threads : pc[u] = "stored" => data[slot[u]] = rec[u])'
    BY <1>1, <1>2 DEF BytesInv
  <2> QED BY <2>1, <2>2, <2>3, <2>4, <2>5 DEF BytesInv
<1>10. EntryInv'
  BY <1>1, <1>2, <1>3 DEF EntryInv, BeingErased, Indexed, Filling
<1>11. CallInv'
  BY <1>1, <1>2 DEF CallInv, Indexed, Filling, Erasing
<1>12. LiveInv'
  BY <1>1 DEF LiveInv, TableInv, EntryInv, BeingErased, Indexed, Filling
<1>13. SecondaryInv'
  BY <1>1 DEF SecondaryInv, TableInv, Entered, Indexed
<1> QED BY <1>5, <1>6, <1>7, <1>8, <1>9, <1>10, <1>11, <1>12, <1>13 DEF TableInv

\* The slot of t is nobody else's, and no index entry leads there yet.
LEMMA InsertDataKeeps ==
    ASSUME UsedByBuckets, TableInv, NEW t \in Threads, InsertData(t), UNCHANGED indexVars
    PROVE  TableInv'
<1> USE TableAssumption, IndexAssumption
<1>1. /\ pc[t] = "data"
      /\ pc' = [pc EXCEPT ![t] = "stored"]
      /\ data' = [data EXCEPT ![slot[t]] = rec[t]]
      /\ blocks' = blocks /\ next' = next /\ free' = free /\ occupied' = occupied
      /\ allocated' = allocated
      /\ header' = header /\ mutex' = mutex /\ rec' = rec /\ slot' = slot /\ count' = count
      /\ primary' = primary /\ secondary' = secondary /\ live' = live
  BY DEF InsertData, Goto, space, indexVars
<1>2. Types /\ LockInv /\ SpaceInv /\ SlotInv /\ BytesInv /\ EntryInv /\ CallInv
  BY DEF TableInv
<1>3. HandedOut' = HandedOut /\ Elements(free)' = Elements(free)
  BY <1>1 DEF HandedOut, Elements
<1>4. \A u \in Threads : pc[u] \in Erasing \cup {"unindex"} => u = t
  BY <1>1, <1>2, EraserIsAlone
<1>5. Types'
  BY <1>1, <1>2 DEF Types, Labels, Filling, Indexed
<1>6. LockInv'
  BY <1>1, <1>2 DEF LockInv, Critical, Erasing
<1>7. SpaceInv'
  BY <1>1, <1>2 DEF SpaceInv, SpaceAccounting, Remaining, Uncounted, Undiscounted
<1>8. SlotInv'
  BY <1>1, <1>2, <1>3 DEF SlotInv, Types, Filling
<1>9. BytesInv'
  BY <1>1, <1>2, <1>4 DEF BytesInv, SlotInv, Types, HandedOut, Labels, Filling, Erasing
<1>10. EntryInv'
  BY <1>1, <1>2, <1>3 DEF EntryInv, BeingErased, Indexed, Filling
<1>11. CallInv'
  BY <1>1, <1>2, <1>4 DEF CallInv, Indexed, Filling, Erasing
<1>12. LiveInv'
  BY <1>1 DEF LiveInv, TableInv, EntryInv, BeingErased, Indexed, Filling
<1>13. SecondaryInv'
  BY <1>1, <1>4 DEF SecondaryInv, TableInv, Entered, Indexed
<1> QED BY <1>5, <1>6, <1>7, <1>8, <1>9, <1>10, <1>11, <1>12, <1>13 DEF TableInv

\* The header of a freed slot is cleared before anybody can take the slot.
LEMMA DeleteHeaderKeeps ==
    ASSUME UsedByBuckets, TableInv, NEW t \in Threads, DeleteHeader(t), UNCHANGED indexVars
    PROVE  TableInv'
<1> USE TableAssumption, IndexAssumption
<1>1. /\ pc[t] = "clear"
      /\ pc' = [pc EXCEPT ![t] = "decRead"]
      /\ header' = [header EXCEPT ![slot[t]] = "EMPTY"]
      /\ blocks' = blocks /\ next' = next /\ free' = free /\ occupied' = occupied
      /\ allocated' = allocated
      /\ data' = data /\ mutex' = mutex /\ rec' = rec /\ slot' = slot /\ count' = count
      /\ primary' = primary /\ secondary' = secondary /\ live' = live
  BY DEF DeleteHeader, Goto, space, indexVars
<1>2. Types /\ LockInv /\ SpaceInv /\ SlotInv /\ BytesInv /\ EntryInv /\ CallInv
  BY DEF TableInv
<1>3. HandedOut' = HandedOut /\ Elements(free)' = Elements(free)
  BY <1>1 DEF HandedOut, Elements
<1>4. \A u \in Threads : u = t
  BY <1>1, <1>2, EraserIsAlone DEF Erasing
<1>5. Types'
  BY <1>1, <1>2 DEF Types, Labels, Erasing, Indexed
<1>6. LockInv'
  BY <1>1, <1>2 DEF LockInv, Critical, Erasing
<1>7. SpaceInv'
  BY <1>1, <1>2 DEF SpaceInv, SpaceAccounting, Remaining, Uncounted, Undiscounted
<1>8. SlotInv'
  BY <1>1, <1>2, <1>3 DEF SlotInv, Types, Filling
<1>9. BytesInv'
  <2>0. slot[t] \in HandedOut /\ slot[t] \in Addresses
    BY <1>1, <1>2 DEF SlotInv, Labels, Filling, Erasing, HandedOut
  <2>1. (\A a \in Addresses : a \notin HandedOut => header[a] = "EMPTY")'
    BY <1>1, <1>2, <1>3 DEF BytesInv
  <2>2. (\A a \in Elements(free) : (\A u \in Threads : pc[u] = "clear" => slot[u] # a) => header[a] = "EMPTY")'
    BY <1>1, <1>2, <2>0 DEF BytesInv, Types
  <2>3. (\A u \in Threads : pc[u] \in {"incRead", "incWrite", "header"} => header[slot[u]] = "EMPTY")'
    BY <1>1, <1>4
  <2>4. (\A u \in Threads : pc[u] \in {"data", "stored"} => header[slot[u]] = "OCCUPIED")'
    BY <1>1, <1>4
  <2>5. (\A u \in Threads : pc[u] = "stored" => data[slot[u]] = rec[u])'
    BY <1>1, <1>4
  <2> QED BY <2>1, <2>2, <2>3, <2>4, <2>5 DEF BytesInv
<1>10. EntryInv'
  BY <1>1, <1>2, <1>3 DEF EntryInv, BeingErased, Indexed, Filling, Erasing
<1>11. CallInv'
  BY <1>1, <1>2 DEF CallInv, Indexed, Filling, Erasing
<1>12. LiveInv'
  BY <1>1 DEF LiveInv, TableInv, BeingErased, Indexed, Filling, Erasing
<1>13. SecondaryInv'
  BY <1>1 DEF SecondaryInv, TableInv, Entered, Indexed
<1> QED BY <1>5, <1>6, <1>7, <1>8, <1>9, <1>10, <1>11, <1>12, <1>13 DEF TableInv

\* Nobody else changes the counter, for there is nobody else.
LEMMA DeleteCountReadKeeps ==
    ASSUME UsedByBuckets, TableInv, NEW t \in Threads, DeleteCountRead(t), UNCHANGED indexVars
    PROVE  TableInv'
<1> USE TableAssumption, IndexAssumption
<1>1. /\ pc[t] = "decRead"
      /\ pc' = [pc EXCEPT ![t] = "decWrite"]
      /\ count' = [count EXCEPT ![t] = occupied]
      /\ blocks' = blocks /\ next' = next /\ free' = free /\ occupied' = occupied
      /\ allocated' = allocated
      /\ header' = header /\ data' = data /\ mutex' = mutex /\ rec' = rec /\ slot' = slot
      /\ primary' = primary /\ secondary' = secondary /\ live' = live
  BY DEF DeleteCountRead, Goto, space, indexVars
<1>2. Types /\ LockInv /\ SpaceInv /\ SlotInv /\ BytesInv /\ EntryInv /\ CallInv
  BY DEF TableInv
<1>3. HandedOut' = HandedOut /\ Elements(free)' = Elements(free)
  BY <1>1 DEF HandedOut, Elements
<1>5. Types'
  BY <1>1, <1>2 DEF Types, Labels, Erasing, Indexed
<1>6. LockInv'
  BY <1>1, <1>2 DEF LockInv, Types, Critical, Erasing
<1>7. SpaceInv'
  BY <1>1, <1>2 DEF SpaceInv, SpaceAccounting, Remaining, Uncounted, Undiscounted
<1>8. SlotInv'
  BY <1>1, <1>2, <1>3 DEF SlotInv, Types, Filling
<1>9. BytesInv'
  BY <1>1, <1>2, <1>3 DEF BytesInv
<1>10. EntryInv'
  BY <1>1, <1>2, <1>3 DEF EntryInv, BeingErased, Indexed, Filling, Erasing
<1>11. CallInv'
  BY <1>1, <1>2 DEF CallInv, Indexed, Filling, Erasing
<1>12. LiveInv'
  BY <1>1 DEF LiveInv, TableInv, EntryInv, BeingErased, Indexed, Filling, Erasing
<1>13. SecondaryInv'
  BY <1>1 DEF SecondaryInv, TableInv, Entered, Indexed
<1> QED BY <1>5, <1>6, <1>7, <1>8, <1>9, <1>10, <1>11, <1>12, <1>13 DEF TableInv

\* The slot that has been given back is no longer counted.
LEMMA DeleteCountWriteKeeps ==
    ASSUME UsedByBuckets, TableInv, NEW t \in Threads, DeleteCountWrite(t), UNCHANGED indexVars
    PROVE  TableInv'
<1> USE TableAssumption, IndexAssumption
<1>1. /\ pc[t] = "decWrite"
      /\ pc' = [pc EXCEPT ![t] = "removed"]
      /\ occupied' = count[t] - 1
      /\ blocks' = blocks /\ next' = next /\ free' = free /\ allocated' = allocated
      /\ header' = header
      /\ data' = data /\ mutex' = mutex /\ rec' = rec /\ slot' = slot /\ count' = count
      /\ primary' = primary /\ secondary' = secondary /\ live' = live
  BY DEF DeleteCountWrite, Goto, space, indexVars
<1>2. Types /\ LockInv /\ SpaceInv /\ SlotInv /\ BytesInv /\ EntryInv /\ CallInv
  BY DEF TableInv
<1>3. HandedOut' = HandedOut /\ Elements(free)' = Elements(free)
  BY <1>1 DEF HandedOut, Elements
<1>4. \A u \in Threads : u = t
  BY <1>1, <1>2, EraserIsAlone DEF Erasing
<1>5. Types'
  BY <1>1, <1>2 DEF Types, Labels, Erasing, Indexed
<1>6. LockInv'
  BY <1>1, <1>2, <1>4 DEF LockInv, Types, Critical, Erasing
<1>7. SpaceInv'
  <2>1. Uncounted = 0 /\ Uncounted' = 0
    BY <1>1, <1>4 DEF Uncounted
  <2>2. Undiscounted = 1 /\ Undiscounted' = 0
    BY <1>1, <1>2, <1>4 DEF Undiscounted, Types
  <2>3. count[t] = occupied /\ Remaining' = Remaining
    BY <1>1, <1>2 DEF LockInv, Remaining
  <2>4. Len(free) \in Int /\ Remaining \in Int
    BY <1>2 DEF Types, Remaining
  <2> QED BY <1>1, <1>2, <2>1, <2>2, <2>3, <2>4 DEF SpaceInv, SpaceAccounting, Types
<1>8. SlotInv'
  BY <1>1, <1>2, <1>3 DEF SlotInv, Types, Filling
<1>9. BytesInv'
  BY <1>1, <1>2, <1>3 DEF BytesInv
<1>10. EntryInv'
  BY <1>1, <1>2, <1>3 DEF EntryInv, BeingErased, Indexed, Filling, Erasing
<1>11. CallInv'
  BY <1>1, <1>2 DEF CallInv, Indexed, Filling, Erasing
<1>12. LiveInv'
  BY <1>1 DEF LiveInv, TableInv, EntryInv, BeingErased, Indexed, Filling, Erasing
<1>13. SecondaryInv'
  BY <1>1 DEF SecondaryInv, TableInv, Entered, Indexed
<1> QED BY <1>5, <1>6, <1>7, <1>8, <1>9, <1>10, <1>11, <1>12, <1>13 DEF TableInv

\* The mutex keeps the counters and the pointer together; ChosenSlot says what is
\* handed out.
LEMMA InsertChooseKeeps ==
    ASSUME UsedByBuckets, TableInv, NEW t \in Threads, InsertChoose(t), UNCHANGED indexVars
    PROVE  TableInv'
<1> USE TableAssumption, IndexAssumption
<1>1. /\ pc[t] = "lock" /\ mutex = Nobody
      /\ pc' = [pc EXCEPT ![t] = "incRead"]
      /\ mutex' = t
      /\ occupied' = occupied /\ header' = header /\ data' = data /\ rec' = rec
      /\ count' = count /\ primary' = primary /\ secondary' = secondary /\ live' = live
  BY DEF InsertChoose, Goto, indexVars
<1>2. Types /\ LockInv /\ SpaceInv /\ SlotInv /\ BytesInv /\ EntryInv /\ CallInv
  BY DEF TableInv
<1>3. /\ slot'[t] \in Addresses
      /\ HandedOut' = HandedOut \cup {slot'[t]}
      /\ header[slot'[t]] = "EMPTY"
      /\ \A u \in Threads : pc[u] \in Filling => slot[u] # slot'[t]
      /\ \A r \in Indexed : primary[r] # slot'[t]
      /\ free' \in Seq(Addresses)
      /\ Elements(free)' = Elements(free) \ {slot'[t]}
      /\ NoneTwice(free)'
      /\ slot' = [slot EXCEPT ![t] = slot'[t]]
      /\ blocks' \in 0 .. MaxBlocks /\ next' \in Nat \X Nat /\ allocated' \in Nat
      /\ blocks' # 0 /\ next'[1] = blocks' /\ next'[2] \in 1 .. PerBlock + 1
      /\ allocated' - occupied' = Len(free') + Remaining' + 1
  BY ChosenSlot DEF Elements, NoneTwice
<1>4. \A u \in Threads : pc[u] \notin Erasing \cup {"unindex"}
  BY <1>1, <1>2, EraserIsAlone DEF Erasing
<1>5. /\ \A u \in Threads \ {t} : pc'[u] = pc[u] /\ slot'[u] = slot[u]
      /\ pc'[t] = "incRead"
      /\ \A a : ~BeingErased(a) /\ ~BeingErased(a)'
  <2>1. \A u \in Threads \ {t} : pc'[u] = pc[u] /\ slot'[u] = slot[u]
    BY <1>1, <1>2, <1>3 DEF Types
  <2>2. pc'[t] = "incRead"
    BY <1>1, <1>2 DEF Types
  <2> QED BY <1>4, <2>1, <2>2 DEF BeingErased, Erasing
<1>6. Types'
  <2>1. slot' \in [Threads -> Addresses \cup {Null}]
    <3>1. slot \in [Threads -> Addresses \cup {Null}]
      BY <1>2 DEF Types
    <3> QED BY <1>3, <3>1
  <2>2. pc' \in [Threads -> Labels]
    BY <1>1, <1>2 DEF Types, Labels, Filling
  <2> QED BY <1>1, <1>2, <1>3, <2>1, <2>2 DEF Types, Indexed
<1>7. LockInv'
  BY <1>1, <1>2, <1>5 DEF LockInv, Critical, Erasing
<1>8. SpaceInv'
  <2>1. Uncounted' = 1 /\ Undiscounted' = 0
    BY <1>4, <1>5 DEF Uncounted, Undiscounted, Erasing
  <2>2. Len(free)' \in Int /\ Remaining' \in Int
    BY <1>3 DEF Remaining
  <2> QED BY <1>1, <1>2, <1>3, <2>1, <2>2 DEF SpaceInv, SpaceAccounting, Types
<1>9. SlotInv'
  BY <1>2, <1>3, <1>4, <1>5 DEF SlotInv, Filling, Labels
<1>10. BytesInv'
  BY <1>1, <1>2, <1>3, <1>4, <1>5 DEF BytesInv, Filling, Erasing
<1>11. EntryInv'
  BY <1>1, <1>2, <1>3, <1>5 DEF EntryInv, Indexed, Filling
<1>12. CallInv'
  BY <1>1, <1>2, <1>4, <1>5 DEF CallInv, Indexed, HasSecondary, Filling, Erasing
<1>13. LiveInv'
  BY <1>1, <1>5 DEF LiveInv, TableInv, Indexed, Filling
<1>14. SecondaryInv'
  <2>1. SecondaryInv
    BY DEF TableInv
  <2> QED BY <1>1, <1>4, <1>5, <2>1 DEF SecondaryInv, Entered, HasSecondary, Indexed
<1> QED BY <1>6, <1>7, <1>8, <1>9, <1>10, <1>11, <1>12, <1>13, <1>14 DEF TableInv

\* Whoever deletes is alone: nothing is under way, and the slot is not free yet.
LEMMA DeleteKeeps ==
    ASSUME UsedByBuckets, TableInv, NEW r \in Records, Bucket[r] \in Deleters, Delete(Bucket[r], r)
    PROVE  TableInv'
<1> DEFINE t == Bucket[r]
<1> USE TableAssumption, IndexAssumption
<1>1. /\ t \in Threads /\ t \in Deleters
      /\ pc[t] = "idle"
      /\ r \in Indexed
      /\ pc' = [pc EXCEPT ![t] = "free"]
      /\ slot' = [slot EXCEPT ![t] = primary[r]]
      /\ live' = live \ {r}
      /\ blocks' = blocks /\ next' = next /\ free' = free /\ occupied' = occupied
      /\ allocated' = allocated
      /\ header' = header /\ data' = data /\ mutex' = mutex /\ rec' = rec /\ count' = count
      /\ primary' = primary /\ secondary' = secondary
  BY DEF Delete, DeleteCall, Goto, space, SelectRecord, UniqueSearch, Indexed, TableInv,
         Types
<1> HIDE DEF t
<1>2. Types /\ LockInv /\ SpaceInv /\ SlotInv /\ BytesInv /\ EntryInv /\ CallInv
  BY DEF TableInv
<1>3. HandedOut' = HandedOut /\ Elements(free)' = Elements(free) /\ NoneTwice(free)' = NoneTwice(free)
  BY <1>1 DEF HandedOut, Elements, NoneTwice
<1>4. \A u \in Threads : u = t
  BY <1>1 DEF UsedByBuckets, SoleDeleter
<1>5. /\ pc'[t] = "free" /\ slot'[t] = primary[r]
      /\ \A a : ~BeingErased(a)
      /\ \A a : BeingErased(a)' <=> a = primary[r]
      /\ primary[r] \in HandedOut /\ primary[r] \notin Elements(free)
      /\ data[primary[r]] = r
  <2>1. pc'[t] = "free" /\ slot'[t] = primary[r]
    BY <1>1, <1>2 DEF Types
  <2>2. \A a : ~BeingErased(a)
    BY <1>1, <1>2, NobodyErases DEF Erasing
  <2>3. \A a : BeingErased(a)' <=> a = primary[r]
    BY <1>1, <1>4, <2>1 DEF BeingErased, Erasing
  <2> QED BY <1>1, <1>2, <2>1, <2>2, <2>3 DEF EntryInv
<1>6. Types'
  BY <1>1, <1>2 DEF Types, Labels, Erasing, Indexed
<1>7. LockInv'
  BY <1>1, <1>2, <1>4, <1>5 DEF LockInv, Critical
<1>8. SpaceInv'
  BY <1>1, <1>2, <1>4, <1>5
     DEF SpaceInv, SpaceAccounting, Remaining, Uncounted, Undiscounted
<1>9. SlotInv'
  BY <1>2, <1>3, <1>4, <1>5 DEF SlotInv, Filling
<1>10. BytesInv'
  BY <1>1, <1>2, <1>3, <1>4, <1>5 DEF BytesInv
<1>11. EntryInv'
  BY <1>1, <1>2, <1>3, <1>4, <1>5 DEF EntryInv, Indexed, Filling
<1>12. CallInv'
  BY <1>1, <1>4, <1>5 DEF CallInv, Indexed, Filling
<1>13. LiveInv'
  <2>1. \A x \in Indexed : primary[x] = primary[r] <=> x = r
    BY <1>1, <1>2 DEF EntryInv
  <2> QED BY <1>1, <1>2, <1>4, <1>5, <2>1 DEF LiveInv, TableInv, Types, Indexed, Filling
<1>14. SecondaryInv'
  <2>1. SecondaryInv
    BY DEF TableInv
  <2> QED BY <1>1, <1>4, <1>5, <2>1 DEF SecondaryInv, Entered, HasSecondary, Indexed
<1> QED BY <1>6, <1>7, <1>8, <1>9, <1>10, <1>11, <1>12, <1>13, <1>14 DEF TableInv

\* The slot is in the free list from here on, once, although its header and
\* its record are still there.
LEMMA DeleteFreeKeeps ==
    ASSUME UsedByBuckets, TableInv, NEW t \in Threads, DeleteFree(t), UNCHANGED indexVars
    PROVE  TableInv'
<1> USE TableAssumption, IndexAssumption
<1>1. /\ pc[t] = "free"
      /\ pc' = [pc EXCEPT ![t] = "clear"]
      /\ free' = Append(free, slot[t])
      /\ blocks' = blocks /\ next' = next /\ occupied' = occupied
      /\ allocated' = allocated /\ header' = header
      /\ data' = data /\ mutex' = mutex /\ rec' = rec /\ slot' = slot /\ count' = count
      /\ primary' = primary /\ secondary' = secondary /\ live' = live
  BY DEF DeleteFree, Goto, space, indexVars
<1>2. Types /\ LockInv /\ SpaceInv /\ SlotInv /\ BytesInv /\ EntryInv /\ CallInv
  BY DEF TableInv
<1>3. HandedOut' = HandedOut /\ Remaining' = Remaining
  BY <1>1 DEF HandedOut, Remaining
<1>4. \A u \in Threads : u = t
  BY <1>1, <1>2, EraserIsAlone DEF Erasing
<1>5. /\ slot[t] \in HandedOut /\ slot[t] \in Addresses
      /\ slot[t] \notin Elements(free)
      /\ NoneTwice(free) /\ free \in Seq(Addresses)
  BY <1>1, <1>2 DEF Types, SlotInv, HandedOut, Labels, Erasing
<1>6. /\ free' \in Seq(Addresses)
      /\ Len(free') = Len(free) + 1
      /\ Elements(free') = Elements(free) \cup {slot[t]}
      /\ NoneTwice(free')
  BY <1>1, <1>5, PushedElements
<1>7. /\ pc'[t] = "clear"
      /\ \A a : BeingErased(a) <=> a = slot[t]
      /\ \A a : BeingErased(a)' <=> a = slot[t]
  <2>1. pc'[t] = "clear"
    BY <1>1, <1>2 DEF Types
  <2> QED BY <1>1, <1>4, <2>1 DEF BeingErased, Erasing
<1>8. Len(free) \in Nat
  BY <1>5
<1> HIDE DEF Elements, NoneTwice
<1>9. free' \in Seq(Addresses) /\ Elements(free)' = Elements(free) \cup {slot[t]} /\ NoneTwice(free)'
  BY <1>6
<1>10. Types'
  BY <1>1, <1>2, <1>9 DEF Types, Labels, Erasing, Indexed
<1>11. LockInv'
  BY <1>1, <1>2, <1>4, <1>7 DEF LockInv, Critical, Erasing
<1>12. SpaceInv'
  <2>1. Uncounted' = Uncounted /\ Uncounted = 0 /\ Undiscounted = 0 /\ Undiscounted' = 1
    BY <1>1, <1>4, <1>7 DEF Uncounted, Undiscounted
  <2>2. SpaceAccounting'
    <3>1. allocated - occupied = Len(free) + Remaining
      BY <1>2, <1>8, <2>1 DEF SpaceInv, SpaceAccounting, Remaining, Types
    <3>2. Remaining \in Int
      BY <1>2 DEF Types, Remaining
    <3> QED BY <1>1, <1>3, <1>6, <1>8, <2>1, <3>1, <3>2 DEF SpaceAccounting
  <2> QED BY <1>1, <1>2, <2>2 DEF SpaceInv
<1>13. SlotInv'
  BY <1>1, <1>2, <1>3, <1>4, <1>5, <1>7, <1>9 DEF SlotInv, Filling
<1>14. BytesInv'
  BY <1>1, <1>2, <1>3, <1>4, <1>7, <1>9 DEF BytesInv
<1>15. EntryInv'
  BY <1>1, <1>2, <1>3, <1>4, <1>7, <1>9 DEF EntryInv, Indexed, Filling
<1>16. CallInv'
  BY <1>1, <1>2, <1>4, <1>7 DEF CallInv, Indexed, Filling, Erasing
<1>17. LiveInv'
  BY <1>1, <1>4, <1>7 DEF LiveInv, TableInv, Indexed, Filling
<1>18. SecondaryInv'
  <2>1. SecondaryInv
    BY DEF TableInv
  <2> QED BY <1>1, <1>4, <1>7, <2>1 DEF SecondaryInv, Entered, HasSecondary, Indexed
<1> QED BY <1>10, <1>11, <1>12, <1>13, <1>14, <1>15, <1>16, <1>17, <1>18 DEF TableInv

\* The new entry leads to a slot that holds its record, and to no other entry's.
LEMMA InsertPrimaryKeeps ==
    ASSUME UsedByBuckets, TableInv, NEW t \in Threads, InsertPrimary(t)
    PROVE  TableInv'
<1> USE TableAssumption, IndexAssumption
<1>1. /\ pc[t] = "stored"
      /\ pc' = [pc EXCEPT ![t] = IF HasSecondary(rec[t]) THEN "index" ELSE "idle"]
      /\ primary' = UniqueInsert(primary, rec[t], slot[t])
      /\ blocks' = blocks /\ next' = next /\ free' = free /\ occupied' = occupied
      /\ allocated' = allocated
      /\ header' = header /\ data' = data /\ mutex' = mutex /\ rec' = rec
      /\ slot' = slot /\ count' = count
      /\ secondary' = secondary /\ live' = live
  BY DEF InsertPrimary, Goto, space
<1>2. Types /\ LockInv /\ SpaceInv /\ SlotInv /\ BytesInv /\ EntryInv /\ CallInv
  BY DEF TableInv
<1>3. HandedOut' = HandedOut /\ Elements(free)' = Elements(free) /\ NoneTwice(free)' = NoneTwice(free)
  BY <1>1 DEF HandedOut, Elements, NoneTwice
<1>4. \A u \in Threads : pc[u] \notin Erasing \cup {"unindex"}
  BY <1>1, <1>2, EraserIsAlone DEF Erasing
<1>5. /\ \A u \in Threads \ {t} : pc'[u] = pc[u]
      /\ HasSecondary(rec[t]) => pc'[t] = "index"
      /\ ~HasSecondary(rec[t]) => pc'[t] = "idle"
      /\ \A a : ~BeingErased(a) /\ ~BeingErased(a)'
  <2>1. /\ \A u \in Threads \ {t} : pc'[u] = pc[u]
        /\ HasSecondary(rec[t]) => pc'[t] = "index"
        /\ ~HasSecondary(rec[t]) => pc'[t] = "idle"
    BY <1>1, <1>2 DEF Types
  <2> QED BY <1>1, <1>4, <2>1 DEF BeingErased, Erasing
<1>6. /\ rec[t] \in Records \ Indexed
      /\ slot[t] \in HandedOut /\ slot[t] \in Addresses /\ slot[t] \notin Elements(free)
      /\ header[slot[t]] = "OCCUPIED"
      /\ data[slot[t]] = rec[t]
  BY <1>1, <1>2 DEF CallInv, SlotInv, BytesInv, HandedOut, Filling, Labels
<1>7. /\ Indexed' = Indexed \cup {rec[t]}
      /\ primary' \in [Indexed' -> Addresses]
      /\ \A r \in Indexed : primary'[r] = primary[r]
      /\ primary'[rec[t]] = slot[t]
  BY <1>1, <1>2, <1>6 DEF UniqueInsert, Indexed, Types
<1>8. \A u \in Threads \ {t} : /\ pc[u] \in Filling => slot[u] # slot[t]
                              
                               /\ pc[u] \in {"lock", "index"} \cup Filling => rec[u] # rec[t]
  BY <1>1, <1>2 DEF SlotInv, CallInv, Filling
<1>9. Types'
  BY <1>1, <1>2, <1>6, <1>7 DEF Types, Labels
<1>10. LockInv'
  BY <1>1, <1>2, <1>5 DEF LockInv, Critical, Erasing
<1>11. SpaceInv'
  <2>1. Uncounted' = Uncounted /\ Undiscounted' = Undiscounted
    BY <1>1, <1>5 DEF Uncounted, Undiscounted
  <2> QED BY <1>1, <1>2, <2>1 DEF SpaceInv, SpaceAccounting, Remaining
<1>12. SlotInv'
  BY <1>1, <1>2, <1>3, <1>5 DEF SlotInv, Filling, Labels
<1>13. BytesInv'
  BY <1>1, <1>2, <1>3, <1>5 DEF BytesInv
<1>14. EntryInv'
  BY <1>1, <1>2, <1>3, <1>5, <1>6, <1>7, <1>8 DEF EntryInv, Filling
<1>15. CallInv'
  <2>1. \A u \in Threads : pc'[u] \in {"lock"} \cup Filling =>
            rec[u] \in Records \ Indexed' /\ Bucket[rec[u]] = u
    BY <1>2, <1>5, <1>7, <1>8 DEF CallInv, Filling
  <2>2. \A u \in Threads : pc'[u] = "index" =>
            /\ rec[u] \in Indexed' /\ HasSecondary(rec[u]) /\ Bucket[rec[u]] = u
            /\ primary'[rec[u]] = slot[u]
    BY <1>1, <1>2, <1>5, <1>7, <1>8 DEF CallInv, Filling
  <2>3. \A u \in Threads : pc'[u] \notin Erasing \cup {"unindex"}
    BY <1>4, <1>5 DEF Erasing
  <2> QED BY <1>1, <2>1, <2>2, <2>3 DEF CallInv, HasSecondary
<1>16. LiveInv'
  <2>1. \A r \in Records : (\E u \in Threads : pc[u] \in {"lock"} \cup Filling /\ rec[u] = r)
                           <=> \/ r = rec[t]
                               \/ \E u \in Threads : pc'[u] \in {"lock"} \cup Filling /\ rec[u] = r
    BY <1>1, <1>5 DEF Filling
  <2> QED BY <1>1, <1>5, <1>7, <2>1 DEF LiveInv, TableInv
<1>17. SecondaryInv'
  <2>1. SecondaryInv
    BY DEF TableInv
  <2>2. \A r \in Indexed' : Entered(r)' <=> r \in Indexed /\ Entered(r)
    BY <1>1, <1>5, <1>6, <1>7, <1>8 DEF Entered, HasSecondary
  <2> QED BY <1>1, <1>4, <1>5, <1>7, <2>1, <2>2 DEF SecondaryInv
<1> QED BY <1>9, <1>10, <1>11, <1>12, <1>13, <1>14, <1>15, <1>16, <1>17 DEF TableInv

\* The bytes of the freed slot still hold the key to erase.
LEMMA DeletePrimaryKeeps ==
    ASSUME UsedByBuckets, TableInv, NEW t \in Threads, DeletePrimary(t)
    PROVE  TableInv'
<1> USE TableAssumption, IndexAssumption
<1> DEFINE gone == data[slot[t]]
<1>1. /\ pc[t] = "removed"
      /\ pc' = [pc EXCEPT ![t] = IF HasSecondary(gone) THEN "unindex" ELSE "idle"]
      /\ primary' = UniqueErase(primary, gone)
      /\ blocks' = blocks /\ next' = next /\ free' = free /\ occupied' = occupied
      /\ allocated' = allocated
      /\ header' = header /\ data' = data /\ mutex' = mutex /\ rec' = rec
      /\ slot' = slot /\ count' = count
      /\ secondary' = secondary /\ live' = live
  BY DEF DeletePrimary, Goto, space
<1>2. Types /\ LockInv /\ SpaceInv /\ SlotInv /\ BytesInv /\ EntryInv /\ CallInv
  BY DEF TableInv
<1>3. HandedOut' = HandedOut /\ Elements(free)' = Elements(free) /\ NoneTwice(free)' = NoneTwice(free)
  BY <1>1 DEF HandedOut, Elements, NoneTwice
<1>4. \A u \in Threads : u = t
  BY <1>1, <1>2, EraserIsAlone DEF Erasing
<1>5. /\ HasSecondary(gone) => pc'[t] = "unindex"
      /\ ~HasSecondary(gone) => pc'[t] = "idle"
      /\ \A a : BeingErased(a) <=> a = slot[t]
      /\ \A a : ~BeingErased(a)'
  <2>1. /\ HasSecondary(gone) => pc'[t] = "unindex"
        /\ ~HasSecondary(gone) => pc'[t] = "idle"
    BY <1>1, <1>2 DEF Types
  <2> QED BY <1>1, <1>4, <2>1 DEF BeingErased, Erasing
<1>6. gone \in Indexed /\ gone \in Records /\ primary[gone] = slot[t]
  BY <1>1, <1>2 DEF CallInv, Erasing, Types
<1>7. /\ Indexed' = Indexed \ {gone}
      /\ primary' \in [Indexed' -> Addresses]
      /\ \A r \in Indexed \ {gone} : primary'[r] = primary[r] /\ primary[r] # slot[t]
  <2>1. \A r \in Indexed \ {gone} : primary[r] # slot[t]
    BY <1>2 DEF EntryInv
  <2> HIDE DEF gone
  <2> QED BY <1>1, <1>2, <2>1 DEF UniqueErase, Indexed, Types
<1>8. HasSecondary(gone)' = HasSecondary(gone) /\ gone' = gone
  BY <1>1 DEF HasSecondary
<1>9. Types'
  BY <1>1, <1>2, <1>7 DEF Types, Labels
<1>10. LockInv'
  BY <1>1, <1>2, <1>4, <1>5 DEF LockInv, Critical, Erasing
<1>11. SpaceInv'
  <2>1. Uncounted' = Uncounted /\ Undiscounted' = Undiscounted
    BY <1>1, <1>4, <1>5 DEF Uncounted, Undiscounted
  <2> QED BY <1>1, <1>2, <2>1 DEF SpaceInv, SpaceAccounting, Remaining
<1>12. SlotInv'
  BY <1>1, <1>2, <1>3, <1>4, <1>5 DEF SlotInv, Filling, Labels, Erasing
<1>13. BytesInv'
  BY <1>1, <1>2, <1>3, <1>4, <1>5 DEF BytesInv
<1>14. EntryInv'
  BY <1>1, <1>2, <1>3, <1>4, <1>5, <1>7 DEF EntryInv, Filling
<1>15. CallInv'
  BY <1>1, <1>4, <1>5, <1>6, <1>7, <1>8 DEF CallInv, Filling, Erasing
<1>16. LiveInv'
  <2>1. \A u \in Threads : /\ pc[u] \notin {"lock"} \cup Filling
                           /\ pc'[u] \notin {"lock"} \cup Filling
    BY <1>1, <1>4, <1>5 DEF Filling
  <2> HIDE DEF gone
  <2> QED BY <1>1, <1>5, <1>6, <1>7, <2>1 DEF LiveInv, TableInv
<1>17. SecondaryInv'
  <2>1. SecondaryInv
    BY DEF TableInv
  <2>2. \A u \in Threads : pc[u] # "unindex" /\ pc[u] # "index" /\ pc'[u] # "index"
    BY <1>1, <1>4, <1>5
  <2>3. \A r : Entered(r) <=> r \in Indexed /\ HasSecondary(r)
    BY <2>2 DEF Entered
  <2>4. \A r : Entered(r)' <=> r \in Indexed' /\ HasSecondary(r)
    BY <2>2 DEF Entered, HasSecondary
  <2>5. secondary = {<<SecondaryKey[r], primary[r]>> : r \in {x \in Indexed : HasSecondary(x)}}
    BY <2>1, <2>2, <2>3 DEF SecondaryInv
  <2>6. CASE HasSecondary(gone)
    <3>1. {u \in Threads : pc'[u] = "unindex"} = {t}
      BY <1>4, <1>5, <2>6
    <3> HIDE DEF gone
    <3>2. secondary = {<<SecondaryKey[r], primary'[r]>> : r \in {x \in Indexed' : HasSecondary(x)}}
                      \cup {<<SecondaryKey[gone], slot[t]>>}
      BY <1>6, <1>7, <2>5, <2>6
    <3> USE DEF gone
    <3> QED BY <1>1, <2>4, <3>1, <3>2 DEF SecondaryInv
  <2>7. CASE ~HasSecondary(gone)
    <3>1. {u \in Threads : pc'[u] = "unindex"} = {}
      BY <1>4, <1>5, <2>7
    <3> HIDE DEF gone
    <3> QED BY <1>1, <1>7, <2>4, <2>5, <2>7, <3>1 DEF SecondaryInv
  <2> QED BY <2>6, <2>7
<1> QED BY <1>9, <1>10, <1>11, <1>12, <1>13, <1>14, <1>15, <1>16, <1>17 DEF TableInv

\* The entry that was missing is the one that is added.
LEMMA InsertSecondaryKeeps ==
    ASSUME UsedByBuckets, TableInv, NEW t \in Threads, InsertSecondary(t)
    PROVE  TableInv'
<1> USE TableAssumption, IndexAssumption
<1>1. /\ pc[t] = "index"
      /\ pc' = [pc EXCEPT ![t] = "idle"]
      /\ secondary' = secondary \cup {<<SecondaryKey[rec[t]], slot[t]>>}
      /\ blocks' = blocks /\ next' = next /\ free' = free /\ occupied' = occupied
      /\ allocated' = allocated
      /\ header' = header /\ data' = data /\ mutex' = mutex /\ rec' = rec /\ slot' = slot
      /\ count' = count /\ primary' = primary /\ live' = live
  BY DEF InsertSecondary, Goto, space
<1>2. Types /\ LockInv /\ SpaceInv /\ SlotInv /\ BytesInv /\ EntryInv /\ CallInv
  BY DEF TableInv
<1>3. HandedOut' = HandedOut /\ Elements(free)' = Elements(free)
  BY <1>1 DEF HandedOut, Elements
<1>4. \A u \in Threads : pc[u] \in Erasing \cup {"unindex"} => u = t
  BY <1>1, <1>2, EraserIsAlone
<1>5. Types'
  BY <1>1, <1>2 DEF Types, Labels, Indexed
<1>6. LockInv'
  BY <1>1, <1>2 DEF LockInv, Critical, Erasing
<1>7. SpaceInv'
  BY <1>1, <1>2, <1>4 DEF SpaceInv, SpaceAccounting, Remaining, Uncounted, Undiscounted
<1>8. SlotInv'
  BY <1>1, <1>2, <1>3 DEF SlotInv, Filling
<1>9. BytesInv'
  BY <1>1, <1>2, <1>3 DEF BytesInv
<1>10. EntryInv'
  <2>1. \A a : BeingErased(a)' <=> BeingErased(a)
    BY <1>1, <1>2 DEF BeingErased, Types, Erasing
  <2> QED BY <1>1, <1>2, <1>3, <2>1 DEF EntryInv, Types, Indexed, Filling
<1>11. CallInv'
  BY <1>1, <1>2 DEF CallInv, EntryInv, Indexed, Filling
<1>12. LiveInv'
  BY <1>1 DEF LiveInv, TableInv, CallInv, BeingErased, Indexed, Filling, Erasing
<1>13. SecondaryInv'
  BY <1>1 DEF SecondaryInv, TableInv, Types, Entered, Indexed, CallInv
<1> QED BY <1>5, <1>6, <1>7, <1>8, <1>9, <1>10, <1>11, <1>12, <1>13 DEF TableInv

\* With a secondary key of its own, the record takes no other's entry with it.
LEMMA DeleteSecondaryKeeps ==
    ASSUME UsedByBuckets, TableInv, NEW t \in Threads, DeleteSecondary(t)
    PROVE  TableInv'
<1> USE TableAssumption, IndexAssumption
<1>1. /\ pc[t] = "unindex"
      /\ pc' = [pc EXCEPT ![t] = "idle"]
      /\ secondary' = MultiErase(secondary, SecondaryKey[data[slot[t]]])
      /\ blocks' = blocks /\ next' = next /\ free' = free /\ occupied' = occupied
      /\ allocated' = allocated
      /\ header' = header /\ data' = data /\ mutex' = mutex /\ rec' = rec /\ slot' = slot
      /\ count' = count /\ primary' = primary /\ live' = live
  BY DEF DeleteSecondary, Goto, space
<1>2. Types /\ LockInv /\ SpaceInv /\ SlotInv /\ BytesInv /\ EntryInv /\ CallInv
  BY DEF TableInv
<1>3. HandedOut' = HandedOut /\ Elements(free)' = Elements(free)
  BY <1>1 DEF HandedOut, Elements
<1>4. \A u \in Threads : u = t
  BY <1>1, <1>2, EraserIsAlone DEF Erasing
<1>5. Types'
  BY <1>1, <1>2 DEF Types, Labels, Indexed
<1>6. LockInv'
  BY <1>1, <1>2 DEF LockInv, Critical
<1>7. SpaceInv'
  BY <1>1, <1>2 DEF SpaceInv, SpaceAccounting, Remaining, Uncounted, Undiscounted, Types
<1>8. SlotInv'
  BY <1>1, <1>2, <1>3 DEF SlotInv, Filling
<1>9. BytesInv'
  BY <1>1, <1>2, <1>3 DEF BytesInv
<1>10. EntryInv'
  BY <1>1, <1>2, <1>3 DEF EntryInv, CallInv, BeingErased, Indexed
<1>11. CallInv'
  BY <1>1, <1>2, <1>4 DEF CallInv, Types, Filling, Erasing
<1>12. LiveInv'
  BY <1>1 DEF LiveInv, TableInv, CallInv, EntryInv, BeingErased, Indexed, Filling
<1>13. SecondaryInv'
  <2> DEFINE gone == data[slot[t]]
  <2>1. SecondaryInv
    BY DEF TableInv
  <2>2. \A u \in Threads : u = t
    BY <1>1, <1>4
  <2>3. \A u \in Threads : pc'[u] # "unindex" /\ pc[u] # "index" /\ pc'[u] # "index"
    BY <1>1, <1>2, <2>2 DEF Types
  <2>4. \A r : Entered(r) <=> r \in Indexed /\ HasSecondary(r)
    BY <2>3 DEF Entered
  <2>5. \A r : Entered(r)' <=> r \in Indexed /\ HasSecondary(r)
    BY <1>1, <2>3 DEF Entered, HasSecondary, Indexed
  <2>6. gone \notin Indexed /\ HasSecondary(gone)
    BY <1>1, <1>2 DEF CallInv
  <2>7. \A r \in Indexed : HasSecondary(r) => SecondaryKey[r] # SecondaryKey[gone]
    BY <1>1, <1>2, <2>6 DEF UsedByBuckets, LockInv, HasSecondary
  <2>8. {u \in Threads : pc[u] = "unindex"} = {t} /\ {u \in Threads : pc'[u] = "unindex"} = {}
    BY <1>1, <2>2, <2>3
  <2>9. secondary = {<<SecondaryKey[r], primary[r]>> : r \in {x \in Indexed : HasSecondary(x)}}
                    \cup {<<SecondaryKey[gone], slot[t]>>}
    BY <2>1, <2>4, <2>8 DEF SecondaryInv
  <2>10. secondary' = {<<SecondaryKey[r], primary[r]>> : r \in {x \in Indexed : HasSecondary(x)}}
    BY <1>1, <2>7, <2>9 DEF MultiErase
  <2> QED BY <1>1, <2>5, <2>8, <2>10 DEF SecondaryInv, Indexed
<1> QED BY <1>5, <1>6, <1>7, <1>8, <1>9, <1>10, <1>11, <1>12, <1>13 DEF TableInv

-----------------------------------------------------------------------------
(* The theorems.                                                           *)

\* A new table has no block and no thread in it.
LEMMA TableInvInitially == SchemaInit => TableInv
<1> SUFFICES ASSUME SchemaInit PROVE TableInv
  OBVIOUS
<1> USE TableAssumption, IndexAssumption DEF SchemaInit, Init
<1>1. HandedOut = {} /\ Elements(free) = {} /\ NoneTwice(free) /\ Indexed = {}
  BY DEF HandedOut, Elements, NoneTwice, Indexed
<1>2. \A t \in Threads : pc[t] = "idle"
  OBVIOUS
<1>3. Types
  BY <1>1 DEF Types, Labels, Null
<1>4. LockInv
  BY <1>2 DEF LockInv, Critical, Erasing
<1>5. SpaceInv
  BY <1>2 DEF SpaceInv, SpaceAccounting, Remaining, Uncounted, Undiscounted
<1>6. SlotInv /\ BytesInv
  BY <1>1, <1>2 DEF SlotInv, BytesInv, Filling
<1>7. EntryInv /\ CallInv /\ LiveInv
  BY <1>1, <1>2 DEF EntryInv, CallInv, LiveInv, Filling, Erasing
<1>8. SecondaryInv
  BY <1>1, <1>2 DEF SecondaryInv
<1> QED BY <1>3, <1>4, <1>5, <1>6, <1>7, <1>8 DEF TableInv

\* Stuttering.
LEMMA TableInvUnchanged == TableInv /\ UNCHANGED vars => TableInv'
<1> SUFFICES ASSUME TableInv, UNCHANGED vars PROVE TableInv'
  OBVIOUS
<1>1. /\ blocks' = blocks /\ next' = next /\ free' = free /\ occupied' = occupied
      /\ allocated' = allocated /\ header' = header /\ data' = data /\ mutex' = mutex
      /\ pc' = pc /\ rec' = rec /\ slot' = slot /\ count' = count
      /\ primary' = primary /\ secondary' = secondary /\ live' = live
  BY DEF vars, tableVars
<1>2. Types' /\ LockInv' /\ SpaceInv'
  BY <1>1 DEF TableInv, Types, LockInv, SpaceInv, SpaceAccounting, Remaining, Uncounted,
              Undiscounted, Indexed
<1>3. SlotInv' /\ BytesInv'
  BY <1>1 DEF TableInv, SlotInv, BytesInv, HandedOut, Elements, NoneTwice
<1>4. EntryInv' /\ CallInv' /\ LiveInv' /\ SecondaryInv'
  BY <1>1
     DEF TableInv, EntryInv, CallInv, LiveInv, SecondaryInv, HandedOut, Elements, Indexed,
              BeingErased, Entered, HasSecondary
<1> QED BY <1>2, <1>3, <1>4 DEF TableInv

\* The steps of insertRecord, deleteRecord and the indexes, together.
LEMMA EveryStepKeepsTableInv ==
    ASSUME UsedByBuckets, TableInv, [SchemaNext]_vars
    PROVE  TableInv'
<1>1. CASE \E r \in Records : Insert(Bucket[r], r)
  BY <1>1, InsertKeeps
<1>2. CASE \E r \in Records : Bucket[r] \in Deleters /\ Delete(Bucket[r], r)
  BY <1>2, DeleteKeeps
<1>3. ASSUME NEW t \in Threads, TableStep(t), UNCHANGED indexVars
      PROVE  TableInv'
  BY <1>3, InsertChooseKeeps, InsertCountReadKeeps, InsertCountWriteKeeps,
         InsertHeaderKeeps,
     InsertDataKeeps, DeleteFreeKeeps, DeleteHeaderKeeps, DeleteCountReadKeeps,
     DeleteCountWriteKeeps DEF TableStep
<1>4. ASSUME NEW t \in Threads, InsertPrimary(t) \/ InsertSecondary(t)
                                \/ DeletePrimary(t) \/ DeleteSecondary(t)
      PROVE  TableInv'
  BY <1>4, InsertPrimaryKeeps, InsertSecondaryKeeps, DeletePrimaryKeeps,
         DeleteSecondaryKeeps
<1>5. CASE UNCHANGED vars
  BY <1>5, TableInvUnchanged
<1> QED BY <1>1, <1>2, <1>3, <1>4, <1>5 DEF SchemaNext

\* The inductive invariant of a table with its indexes, for every way the
\* processors use one.
THEOREM TableInvariant ==
    ASSUME UsedByBuckets
    PROVE  SchemaSpec => []TableInv
<1>1. TableInv /\ [SchemaNext]_vars => TableInv'
  BY EveryStepKeepsTableInv
<1> QED BY <1>1, TableInvInitially, PTL DEF SchemaSpec

\* insertRecord and deleteRecord, and the indexes, keep their types.
THEOREM TableTypes ==
    ASSUME UsedByBuckets
    PROVE  SchemaSpec => []SchemaTypeOK
<1>1. TableInv => SchemaTypeOK
  <2> SUFFICES ASSUME TableInv PROVE SchemaTypeOK
    OBVIOUS
  <2>1. \A r \in Indexed : primary[r] \in Addresses
    BY DEF TableInv, Types
  <2>2. \A e \in secondary : e[2] \in Addresses
    <3>1. \A r \in Indexed : primary[r] \in Addresses
      BY DEF TableInv, Types
    <3>2. \A t \in Threads : pc[t] = "unindex" => slot[t] \in Addresses
      BY DEF TableInv, SlotInv, HandedOut, Labels
    <3> QED BY <3>1, <3>2 DEF TableInv, SecondaryInv
  <2>3. SlotsPart!TypeOK
    BY DEF TableInv, Types, Labels, Filling, Erasing, SlotsPart!TypeOK, SlotsPart!Addresses,
           SlotsPart!Null, Addresses, Null
  <2> QED BY <2>1, <2>2, <2>3 DEF SchemaTypeOK, TableInv, Types
<1> QED BY <1>1, TableInvariant, PTL

\* occupied_record_count and allocated_record_count always tell how many slots
\* there are to hand out: insertRecord, which compares just these two, never
\* allocates a block too early or too late.
THEOREM CountersKnowTheSpace ==
    ASSUME UsedByBuckets
    PROVE  SchemaSpec => []SpaceAccounting
<1>1. TableInv => SpaceAccounting
  BY DEF TableInv, SpaceInv
<1> QED BY <1>1, TableInvariant, PTL

\* No record is ever written behind a block.
THEOREM RecordsStayWithinBlocks ==
    ASSUME UsedByBuckets
    PROVE  SchemaSpec => []SlotsWithinBlocks
<1>1. TableInv => SlotsWithinBlocks
  BY DEF TableInv, SlotInv, SlotsWithinBlocks, Inserting, HandedOut, Labels, Filling
<1> QED BY <1>1, TableInvariant, PTL

\* Two insertions never fill the same slot, and none fills a slot that holds a
\* record or that can be handed out again.
THEOREM ChosenSlotsAreFresh ==
    ASSUME UsedByBuckets
    PROVE  SchemaSpec => []SlotsAreFresh
<1>1. TableInv => SlotsAreFresh
  <2> SUFFICES ASSUME TableInv, NEW t \in Threads
               PROVE  /\ pc[t] \in {"incRead", "incWrite", "header"} => header[slot[t]] = "EMPTY"
                      /\ pc[t] \in Inserting =>
                            /\ \A i \in DOMAIN free : free[i] # slot[t]
                           
                            /\ \A u \in Threads \ {t} : pc[u] \in Inserting => slot[u] # slot[t]
    BY DEF SlotsAreFresh
  <2>1. pc[t] \in {"incRead", "incWrite", "header"} => header[slot[t]] = "EMPTY"
    BY DEF TableInv, BytesInv
  <2>2. pc[t] \in Inserting => slot[t] \notin Elements(free)
    BY DEF TableInv, SlotInv, Inserting, Filling
  <2>3. pc[t] \in Inserting =>
            \A u \in Threads \ {t} : pc[u] \in Inserting => slot[u] # slot[t]
    BY DEF TableInv, SlotInv, Inserting, Filling
  <2> QED BY <2>1, <2>2, <2>3 DEF Elements
<1> QED BY <1>1, TableInvariant, PTL

\* An entry of the primary index leads to the record with its key, however
\* often the slot has been reused.
THEOREM IndexLeadsToTheRecord ==
    ASSUME UsedByBuckets
    PROVE  SchemaSpec => []IndexFindsTheRecord
<1>1. TableInv => IndexFindsTheRecord
  <2> SUFFICES ASSUME TableInv, NEW r \in Indexed, primary[r] \notin Deleting
               PROVE  header[primary[r]] = "OCCUPIED" /\ data[primary[r]] = r
    BY DEF IndexFindsTheRecord
  <2>1. ~BeingErased(primary[r])
    BY DEF BeingErased, Deleting, Erasing
  <2> QED BY <2>1 DEF TableInv, EntryInv
<1> QED BY <1>1, TableInvariant, PTL

\* When every operation has returned, a select finds by either index exactly
\* what was inserted and not deleted, as if the operations had been executed
\* one after the other.
THEOREM LookupsAreSerial ==
    ASSUME UsedByBuckets
    PROVE  SchemaSpec => []LookupsMatchTheCalls
<1>1. TableInv => LookupsMatchTheCalls
  <2> SUFFICES ASSUME TableInv, AtRest
               PROVE  /\ \A r \in Records : SelectRecord(r) = IF r \in live THEN r ELSE NoRecord
                      /\ \A r \in Records \cap DOMAIN SecondaryKey :
                            SelectRecords(SecondaryKey[r]) =
                              [a \in {primary[u] : u \in {x \in live \cap DOMAIN SecondaryKey :
                                                     SecondaryKey[x] = SecondaryKey[r]}} |-> data[a]]
    BY DEF LookupsMatchTheCalls
  <2>1. \A t \in Threads : pc[t] = "idle"
    BY DEF AtRest
  <2>2. live = Indexed
    BY <2>1 DEF TableInv, Types, LiveInv, BeingErased, Filling, Erasing
  <2>3. ASSUME NEW r \in Records
        PROVE  SelectRecord(r) = IF r \in live THEN r ELSE NoRecord
    <3>1. r \in Indexed => data[primary[r]] = r /\ primary[r] # Null
      BY TableAssumption DEF TableInv, EntryInv, HandedOut, Addresses, Null
    <3> QED BY <2>2, <3>1 DEF SelectRecord, UniqueSearch, Indexed
  <2>4. secondary = {<<SecondaryKey[r], primary[r]>> : r \in Indexed \cap DOMAIN SecondaryKey}
    BY <2>1 DEF TableInv, SecondaryInv, Entered, HasSecondary
  <2>5. ASSUME NEW k
        PROVE  MultiSearch(secondary, k) =
                   {primary[u] : u \in {x \in live \cap DOMAIN SecondaryKey : SecondaryKey[x] = k}}
    <3> DEFINE found == {x \in live \cap DOMAIN SecondaryKey : SecondaryKey[x] = k}
    <3>1. ASSUME NEW e \in secondary, e[1] = k PROVE e[2] \in {primary[u] : u \in found}
      <4>1. PICK r \in Indexed \cap DOMAIN SecondaryKey : e = <<SecondaryKey[r], primary[r]>>
        BY <2>4
      <4> QED BY <2>2, <3>1, <4>1
    <3>2. ASSUME NEW u \in found PROVE \E e \in secondary : e[1] = k /\ e[2] = primary[u]
      <4>1. <<SecondaryKey[u], primary[u]>> \in secondary
        BY <2>2, <2>4
      <4> QED BY <4>1
    <3> QED BY <3>1, <3>2 DEF MultiSearch
  <2> QED BY <2>3, <2>5 DEF SelectRecords
<1> QED BY <1>1, TableInvariant, PTL

=============================================================================
