----------------------------- MODULE SchemaTable -----------------------------
(***************************************************************************)
(* storage/SchemaTable.cc over storage/BaseTable.cc: a table and its       *)
(* indexes.  A record is its primary key.  insertRecord stores the record  *)
(* and then enters its address into the indexes; deleteRecord gives the    *)
(* slot back first and takes the key to erase from the bytes it then finds *)
(* there.                                                                  *)
(*                                                                         *)
(* The transactions that use a key are queued in one bucket, and a bucket  *)
(* is run by one thread (Bucket): two threads may use a table at a time,   *)
(* never a record.                                                         *)
(***************************************************************************)
EXTENDS BaseTable

CONSTANTS Bucket,      \* the thread that runs the transactions on a record
          SecondaryKey \* the key of a record in the secondary index, none
                       \* for the records of a table without one

ASSUME IndexAssumption == Bucket \in [Records -> Threads]

VARIABLES primary,   \* primary_index_ptr: TBBUniqueIndex, key to address
          secondary, \* secondary_index_ptrs: TBBMultiIndex, <<key, address>>
          live       \* history: the records inserted and not deleted since

vars == <<tableVars, primary, secondary, live>>
indexVars == <<primary, secondary, live>>

SchemaInit == /\ Init
              /\ primary = <<>>
              /\ secondary = {}
              /\ live = {}

Indexed == DOMAIN primary
HasSecondary(r) == r \in DOMAIN SecondaryKey

\* TBBUniqueIndex::insertRecord: an entry that is already there stays.
UniqueInsert(f, k, a) == [x \in DOMAIN f \cup {k} |-> IF x \in DOMAIN f THEN f[x] ELSE a]
UniqueErase(f, k) == [x \in DOMAIN f \ {k} |-> f[x]]
\* NULL if there is no entry.
UniqueSearch(f, k) == IF k \in DOMAIN f THEN f[k] ELSE Null

\* Mutant: the entries stay.
MultiEraseNothing(m, k) == m

\* TBBMultiIndex::deleteRecord erases every entry of the key.
MultiErase(m, k) == {e \in m : e[1] # k}
MultiSearch(m, k) == {e[2] : e \in {x \in m : x[1] = k}}

\* The record with a primary key, and the records with a key of the secondary
\* index: the processors select in no other way.
SelectRecord(k) == IF UniqueSearch(primary, k) = Null THEN NoRecord ELSE data[primary[k]]
SelectRecords(k) == [a \in MultiSearch(secondary, k) |-> data[a]]

-----------------------------------------------------------------------------

\* The caller has looked the key up and found nothing.
Insert(t, r) == /\ SelectRecord(r) = NoRecord
                /\ InsertCall(t, r)
                /\ live' = live \cup {r}
                /\ UNCHANGED <<primary, secondary>>

InsertPrimary(t) ==
    /\ pc[t] = "stored"
    /\ primary' = UniqueInsert(primary, rec[t], slot[t])
    /\ Goto(t, IF HasSecondary(rec[t]) THEN "index" ELSE "idle")
    /\ UNCHANGED <<space, occupied, header, data, mutex, rec, slot, count, secondary, live>>

InsertSecondary(t) ==
    /\ pc[t] = "index"
    /\ secondary' = secondary \cup {<<SecondaryKey[rec[t]], slot[t]>>}
    /\ Goto(t, "idle")
    /\ UNCHANGED <<space, occupied, header, data, mutex, rec, slot, count, primary, live>>

\* The caller has looked the key up and found its record.
Delete(t, r) == /\ SelectRecord(r) # NoRecord
                /\ DeleteCall(t, primary[r])
                /\ live' = live \ {r}
                /\ UNCHANGED <<primary, secondary>>

\* Mutant: the entry stays, and leads to whatever reuses the slot.
DeletePrimaryForgotten(t) ==
    /\ pc[t] = "removed"
    /\ Goto(t, IF HasSecondary(data[slot[t]]) THEN "unindex" ELSE "idle")
    /\ UNCHANGED <<space, occupied, header, data, mutex, rec, slot, count,
                   primary, secondary, live>>

\* The key is read from the slot, which is in the free list by now.
DeletePrimary(t) ==
    /\ pc[t] = "removed"
    /\ primary' = UniqueErase(primary, data[slot[t]])
    /\ Goto(t, IF HasSecondary(data[slot[t]]) THEN "unindex" ELSE "idle")
    /\ UNCHANGED <<space, occupied, header, data, mutex, rec, slot, count, secondary, live>>

DeleteSecondary(t) ==
    /\ pc[t] = "unindex"
    /\ secondary' = MultiErase(secondary, SecondaryKey[data[slot[t]]])
    /\ Goto(t, "idle")
    /\ UNCHANGED <<space, occupied, header, data, mutex, rec, slot, count, primary, live>>

\* updateRecord writes columns other than the keys in place: the callers
\* never update a key column, and the indexes are left alone.

SchemaNext ==
    \/ \E r \in Records : Insert(Bucket[r], r)
    \/ \E r \in Records : Bucket[r] \in Deleters /\ Delete(Bucket[r], r)
    \/ \E t \in Threads : \/ TableStep(t) /\ UNCHANGED indexVars
                          \/ InsertPrimary(t) \/ InsertSecondary(t)
                          \/ DeletePrimary(t) \/ DeleteSecondary(t)

SchemaSpec == SchemaInit /\ [][SchemaNext]_vars

-----------------------------------------------------------------------------
(* Properties.                                                             *)

\* Where the table alone would be: the index entries are made and removed
\* after BaseTable's part of an operation has returned.
SlotsPart == INSTANCE BaseTable WITH
                pc <- [t \in Threads |-> IF pc[t] \in {"index", "unindex"}
                                         THEN "idle" ELSE pc[t]]

\* The state has the types SchemaTable.h gives it.
SchemaTypeOK == /\ SlotsPart!TypeOK
                /\ Indexed \subseteq Records
                /\ \A r \in Indexed : primary[r] \in Addresses
                /\ \A e \in secondary : e[2] \in Addresses
                /\ live \subseteq Records

Deleting == {slot[t] : t \in {u \in Threads : pc[u] \in
                {"free", "clear", "decRead", "decWrite", "removed", "unindex"}}}

\* An index entry leads to an occupied slot that holds the record with that
\* key, except while that very record is being deleted.
IndexFindsTheRecord ==
    \A r \in Indexed : primary[r] \notin Deleting =>
        header[primary[r]] = "OCCUPIED" /\ data[primary[r]] = r

AtRest == \A t \in Threads : pc[t] = "idle"

\* When every operation has returned, the indexes find exactly the records
\* whose last operation was an insertion.  Operations on different records
\* commute, so this is the outcome of every serial order of the operations.
LookupsMatchTheCalls ==
    AtRest =>
        /\ \A r \in Records : SelectRecord(r) = IF r \in live THEN r ELSE NoRecord
        /\ \A r \in Records \cap DOMAIN SecondaryKey :
              SelectRecords(SecondaryKey[r]) =
                  [a \in {primary[u] : u \in {x \in live \cap DOMAIN SecondaryKey :
                                               SecondaryKey[x] = SecondaryKey[r]}} |-> data[a]]
=============================================================================
