------------------------------ MODULE BaseTable ------------------------------
(***************************************************************************)
(* storage/BaseTable.cc: a table of fixed-size slots in blocks, handed out *)
(* by insertRecord and given back by deleteRecord.                         *)
(*                                                                         *)
(* insertRecord picks its slot and counts it under table_mutex and fills   *)
(* it after it has released the mutex; deleteRecord takes no lock at all.  *)
(* Their steps interleave at each shared access: the counter's ++ and --   *)
(* are a read and a write, the free list is TBB's concurrent queue, whose  *)
(* push and try_pop are atomic.                                            *)
(*                                                                         *)
(* A slot is <<block, position>>.  Position PerBlock + 1 is the address    *)
(* just behind the block.  A behaviour stops when a record has been put    *)
(* there: what follows is undefined.                                       *)
(***************************************************************************)
EXTENDS Integers, Sequences

CONSTANTS Threads,   \* the threads that use the table
          Deleters,  \* those of them that also delete
          Records,   \* the records they insert
          PerBlock,  \* record_num_per_block
          MaxBlocks, \* bound: blocks a behaviour may allocate
          NoRecord,  \* the bytes of a slot nobody has written to
          Nobody     \* the owner of a free mutex

ASSUME TableAssumption == /\ Deleters \subseteq Threads
                          /\ PerBlock \in Nat \ {0}
                          /\ MaxBlocks \in Nat
                          /\ NoRecord \notin Records
                          /\ Nobody \notin Threads

VARIABLES
    blocks,    \* how many blocks there are
    next,      \* next_freespace_ptr
    free,      \* free_list
    occupied,  \* occupied_record_count
    allocated, \* allocated_record_count
    header,    \* the header byte of every slot
    data,      \* the record bytes of every slot
    mutex,     \* who holds table_mutex
    pc,        \* where each thread is in insertRecord or deleteRecord
    rec,       \* the record a thread inserts
    slot,      \* the slot a thread works on
    count      \* the value of the counter a thread has read

space == <<blocks, next, free, allocated>>
tableVars == <<blocks, next, free, occupied, allocated, header, data, mutex,
               pc, rec, slot, count>>

Addresses == (1 .. MaxBlocks) \X (1 .. PerBlock + 1)
Null == <<0, 0>>

Init == /\ blocks = 0
        /\ next = Null
        /\ free = <<>>
        /\ occupied = 0
        /\ allocated = 0
        /\ header = [a \in Addresses |-> "EMPTY"]
        /\ data = [a \in Addresses |-> NoRecord]
        /\ mutex = Nobody
        /\ pc = [t \in Threads |-> "idle"]
        /\ rec = [t \in Threads |-> NoRecord]
        /\ slot = [t \in Threads |-> Null]
        /\ count = [t \in Threads |-> 0]

Goto(t, label) == pc' = [pc EXCEPT ![t] = label]
Behind(a) == <<a[1], a[2] + 1>>

-----------------------------------------------------------------------------
(* insertRecord                                                            *)

InsertCall(t, r) == /\ pc[t] = "idle"
                    /\ Goto(t, "lock")
                    /\ rec' = [rec EXCEPT ![t] = r]
                    /\ UNCHANGED <<space, occupied, header, data, mutex, slot, count>>

\* Mutant: the pointer is not moved behind the slot it hands out.
TakeFromNewBlockOnly(t) ==
    /\ allocated = occupied
    /\ blocks < MaxBlocks
    /\ blocks' = blocks + 1
    /\ allocated' = allocated + PerBlock
    /\ slot' = [slot EXCEPT ![t] = <<blocks + 1, 1>>]
    /\ next' = <<blocks + 1, 1>>
    /\ UNCHANGED free

\* allocateNextBlock, and the first slot of the new block.
TakeFromNewBlock(t) ==
    /\ allocated = occupied
    /\ blocks < MaxBlocks
    /\ blocks' = blocks + 1
    /\ allocated' = allocated + PerBlock
    /\ slot' = [slot EXCEPT ![t] = <<blocks + 1, 1>>]
    /\ next' = <<blocks + 1, 2>>
    /\ UNCHANGED free

\* free_list.try_pop succeeds.
TakeFromFreeList(t) ==
    /\ allocated # occupied
    /\ free # <<>>
    /\ slot' = [slot EXCEPT ![t] = Head(free)]
    /\ free' = Tail(free)
    /\ UNCHANGED <<blocks, next, allocated>>

\* Mutant: no check that the block has a slot left.
TakeNextSlotUnchecked(t) ==
    /\ free = <<>>
    /\ next \in Addresses
    /\ slot' = [slot EXCEPT ![t] = next]
    /\ next' = Behind(next)
    /\ UNCHANGED <<blocks, free, allocated>>

\* Nothing to reuse: the next slot of the last block.
TakeNextSlot(t) ==
    /\ allocated # occupied
    /\ free = <<>>
    /\ next \in Addresses
    /\ slot' = [slot EXCEPT ![t] = next]
    /\ next' = Behind(next)
    /\ UNCHANGED <<blocks, free, allocated>>

\* Mutant: no lock.
InsertChooseUnlocked(t) ==
    /\ pc[t] = "lock"
    /\ TakeFromNewBlock(t) \/ TakeFromFreeList(t) \/ TakeNextSlot(t)
    /\ Goto(t, "incRead")
    /\ UNCHANGED <<occupied, header, data, mutex, rec, count>>

\* Lock table_mutex and choose the slot.
InsertChoose(t) ==
    /\ pc[t] = "lock"
    /\ mutex = Nobody
    /\ mutex' = t
    /\ TakeFromNewBlock(t) \/ TakeFromFreeList(t) \/ TakeNextSlot(t)
    /\ Goto(t, "incRead")
    /\ UNCHANGED <<occupied, header, data, rec, count>>

InsertCountRead(t) ==
    /\ pc[t] = "incRead"
    /\ count' = [count EXCEPT ![t] = occupied]
    /\ Goto(t, "incWrite")
    /\ UNCHANGED <<space, occupied, header, data, mutex, rec, slot>>

\* The write half of ++, and the end of the lock's scope.
InsertCountWrite(t) ==
    /\ pc[t] = "incWrite"
    /\ occupied' = count[t] + 1
    /\ mutex' = Nobody
    /\ Goto(t, "header")
    /\ UNCHANGED <<space, header, data, rec, slot, count>>

InsertHeader(t) ==
    /\ pc[t] = "header"
    /\ header' = [header EXCEPT ![slot[t]] = "OCCUPIED"]
    /\ Goto(t, "data")
    /\ UNCHANGED <<space, occupied, data, mutex, rec, slot, count>>

\* Mutant: the record is copied to ans itself; the header is then no flag.
InsertDataOverHeader(t) ==
    /\ pc[t] = "data"
    /\ header' = [header EXCEPT ![slot[t]] = NoRecord]
    /\ data' = [data EXCEPT ![slot[t]] = rec[t]]
    /\ Goto(t, "stored")
    /\ UNCHANGED <<space, occupied, mutex, rec, slot, count>>

InsertData(t) ==
    /\ pc[t] = "data"
    /\ data' = [data EXCEPT ![slot[t]] = rec[t]]
    /\ Goto(t, "stored")
    /\ UNCHANGED <<space, occupied, header, mutex, rec, slot, count>>

-----------------------------------------------------------------------------
(* deleteRecord                                                            *)

DeleteCall(t, a) == /\ pc[t] = "idle"
                    /\ Goto(t, "free")
                    /\ slot' = [slot EXCEPT ![t] = a]
                    /\ UNCHANGED <<space, occupied, header, data, mutex, rec, count>>

\* Mutant: the slot is lost.
DeleteFreeForgotten(t) ==
    /\ pc[t] = "free"
    /\ Goto(t, "clear")
    /\ UNCHANGED <<space, occupied, header, data, mutex, rec, slot, count>>

DeleteFree(t) ==
    /\ pc[t] = "free"
    /\ free' = Append(free, slot[t])
    /\ Goto(t, "clear")
    /\ UNCHANGED <<blocks, next, allocated, occupied, header, data, mutex, rec, slot, count>>

DeleteHeader(t) ==
    /\ pc[t] = "clear"
    /\ header' = [header EXCEPT ![slot[t]] = "EMPTY"]
    /\ Goto(t, "decRead")
    /\ UNCHANGED <<space, occupied, data, mutex, rec, slot, count>>

DeleteCountRead(t) ==
    /\ pc[t] = "decRead"
    /\ count' = [count EXCEPT ![t] = occupied]
    /\ Goto(t, "decWrite")
    /\ UNCHANGED <<space, occupied, header, data, mutex, rec, slot>>

DeleteCountWrite(t) ==
    /\ pc[t] = "decWrite"
    /\ occupied' = count[t] - 1
    /\ Goto(t, "removed")
    /\ UNCHANGED <<space, header, data, mutex, rec, slot, count>>

-----------------------------------------------------------------------------

Return(t) == /\ pc[t] \in {"stored", "removed"}
             /\ Goto(t, "idle")
             /\ UNCHANGED <<space, occupied, header, data, mutex, rec, slot, count>>

\* A caller deletes a record it has found, which nobody else deletes too.
Stored == {a \in Addresses : /\ header[a] = "OCCUPIED"
                             /\ \A t \in Threads : slot[t] = a => pc[t] \in {"idle", "lock"}}

TableStep(t) ==
    \/ InsertChoose(t) \/ InsertCountRead(t) \/ InsertCountWrite(t)
    \/ InsertHeader(t) \/ InsertData(t)
    \/ DeleteFree(t) \/ DeleteHeader(t) \/ DeleteCountRead(t) \/ DeleteCountWrite(t)

Next == \E t \in Threads :
            \/ \E r \in Records : InsertCall(t, r)
            \/ t \in Deleters /\ \E a \in Stored : DeleteCall(t, a)
            \/ TableStep(t)
            \/ Return(t)

Spec == Init /\ [][Next]_tableVars

-----------------------------------------------------------------------------
(* Properties.  They hold for a table that several threads only insert     *)
(* into (ORDER, ORDER_LINE, HISTORY) and for one that a single thread      *)
(* works on (NEW_ORDER and CALL_FORWARDING partitions, when no partition   *)
(* is shared by two buckets).                                              *)

SoleDeleter == \A t \in Threads, d \in Deleters : t = d

\* The state has the types BaseTable.h gives it.
TypeOK == /\ blocks \in 0 .. MaxBlocks
          /\ next \in Nat \X Nat
          /\ free \in Seq(Addresses)
          /\ occupied \in Int
          /\ allocated \in Nat
          /\ header \in [Addresses -> {"EMPTY", "OCCUPIED"}]
          /\ data \in [Addresses -> Records \cup {NoRecord}]
          /\ mutex \in Threads \cup {Nobody}
          /\ pc \in [Threads -> {"idle", "lock", "incRead", "incWrite", "header", "data",
                                 "stored", "free", "clear", "decRead", "decWrite", "removed"}]
          /\ rec \in [Threads -> Records \cup {NoRecord}]
          /\ slot \in [Threads -> Addresses \cup {Null}]
          /\ count \in [Threads -> Int]

\* The slots of the last block that were never handed out.
Remaining == IF blocks = 0 THEN 0 ELSE PerBlock + 1 - next[2]

Uncounted == IF \E t \in Threads : pc[t] \in {"incRead", "incWrite"} THEN 1 ELSE 0
Undiscounted == IF \E t \in Threads : pc[t] \in {"clear", "decRead", "decWrite"} THEN 1 ELSE 0

\* The two counters tell exactly how many slots can still be handed out, up
\* to the operations under way.  insertRecord allocates on this alone.
SpaceAccounting == allocated - occupied = Len(free) + Remaining + Uncounted - Undiscounted

\* insertRecord never hands out an address behind a block.
Inserting == {"incRead", "incWrite", "header", "data"}
SlotsWithinBlocks ==
    \A t \in Threads : pc[t] \in Inserting =>
        /\ slot[t][1] \in 1 .. blocks
        /\ slot[t][2] \in 1 .. PerBlock

\* The slot insertRecord is about to fill holds no record, is nobody else's,
\* and cannot be handed out a second time.
SlotsAreFresh ==
    \A t \in Threads :
        /\ pc[t] \in {"incRead", "incWrite", "header"} => header[slot[t]] = "EMPTY"
        /\ pc[t] \in Inserting =>
               /\ \A i \in DOMAIN free : free[i] # slot[t]
               /\ \A u \in Threads \ {t} : pc[u] \in Inserting => slot[u] # slot[t]
=============================================================================
