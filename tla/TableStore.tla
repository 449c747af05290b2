----------------------------- MODULE TableStore -----------------------------
(***************************************************************************)
(* What storage/StorageManager.h promises: tables of records, a record a   *)
(* tuple of column values, reached through a handle that stays valid until *)
(* it is deleted.  There are no blocks, free lists, indexes or offsets.    *)
(***************************************************************************)
EXTENDS Naturals, Sequences, SequencesExt

CONSTANTS TableIds,      \* the tables that may be registered
          Offered,       \* Offered[t]: what the callers may insert into table t
          Changes        \* Changes[t]: the columns and values they may write to a record

VARIABLE store  \* store[t][h]: the columns of the record with handle h

Init == store = <<>>

With(f, x, y) == [z \in DOMAIN f \cup {x} |-> IF z = x THEN y ELSE f[z]]
Without(f, x) == [z \in DOMAIN f \ {x} |-> f[z]]

(* A registered table is empty, and the others are what they were.         *)
Register(t) == store' = With(store, t, <<>>)

(* dropAllTables, or the end of the process: tables are in memory only.    *)
DropAll == store' = <<>>

(* A column begins with what was offered for it, and a column of fixed size *)
(* takes up no more than that: only a VARCHAR may be longer.                *)
Holds(columns, values) ==
    /\ DOMAIN columns = DOMAIN values
    /\ \A c \in DOMAIN values : IsPrefix(values[c], columns[c])

(* One record more, under a handle no record has.                          *)
Insert(t) ==
    \E h \in DOMAIN store'[t] \ DOMAIN store[t] :
        /\ \E values \in Offered[t] : Holds(store'[t][h], values)
        /\ store' = [store EXCEPT ![t] = With(@, h, store'[t][h])]

Delete(t) == \E h \in DOMAIN store[t] : store' = [store EXCEPT ![t] = Without(@, h)]

(* An update gives the columns it names their values, in one record.       *)
Update(t) ==
    \E h \in DOMAIN store[t], change \in Changes[t] :
        store' = [store EXCEPT ![t][h] =
            [c \in DOMAIN @ |-> IF \E i \in DOMAIN change.cols : change.cols[i] = c
                                THEN change.values[CHOOSE i \in DOMAIN change.cols : change.cols[i] = c]
                                ELSE @[c]]]

Next == \/ \E t \in TableIds : Register(t)
        \/ /\ DOMAIN store' = DOMAIN store
           /\ \E t \in DOMAIN store : Insert(t) \/ Delete(t) \/ Update(t)
        \/ DropAll

Spec == Init /\ [][Next]_store
=============================================================================
