------------------------------- MODULE Storage -------------------------------
(***************************************************************************)
(* The storage engine as one thread sees it: storage/StorageManager.h and  *)
(* below it SchemaTable.cc, Records.h, the iterators, the two TBB indexes  *)
(* and BaseTable.cc.  A call is one step, except a scan, whose client does *)
(* other calls between two records.  What several threads do to a table is *)
(* the subject of SchemaTable.                                             *)
(*                                                                         *)
(* The blocks of a table lie end to end here: a slot is its position in    *)
(* that order, which is the one the iterator follows.  The bytes of a slot *)
(* without a record are left out, nobody reads them.                       *)
(***************************************************************************)
EXTENDS Schemas, FiniteSets, FiniteSetsExt

CONSTANTS Catalog,    \* Catalog[t]: the schema of table t and the column lists of its indexes
          Offered,    \* Offered[t]: the columns of the records the clients insert
          Changes,    \* Changes[t]: the columns they update and with what
          Queries,    \* Queries[t]: the predicates they select by
          Fillers,    \* what the bytes of a fresh buffer may be
          PerBlock,   \* record_num_per_block
          FetchSize,  \* kFetchSize
          MaxBlocks,  \* bound: blocks of all tables together
          Null        \* NULL

Byte == 0 .. 255

(* Schemas are built by insertColumn, records filled column by column, no   *)
(* caller updates a column of a key, and a predicate names a column and    *)
(* comes with as many bytes as the column has.                             *)
ASSUME StorageAssumption ==
    /\ {PerBlock, FetchSize} \subseteq Nat \ {0}
    /\ MaxBlocks \in Nat
    /\ Null \notin 1 .. MaxBlocks * PerBlock
    /\ Fillers \subseteq Byte
    /\ \A t \in DOMAIN Catalog :
          LET schema == Catalog[t].schema
              fields == DOMAIN schema.columns
          IN  /\ schema.columns \in Seq([type : STRING, size : Nat \ {0}, offset : Nat,
                                         is_primary : BOOLEAN])
              /\ schema = SchemaOf(schema.columns)
              /\ Len(schema.primary_cols) <= MaxPrimaryColumns
              /\ \A values \in Offered[t] :
                    /\ DOMAIN values = fields
                    /\ \A c \in fields : values[c] \in Seq(Byte) /\ Fits(schema, c, values[c])
              /\ \A change \in Changes[t] :
                    /\ change.cols \in Seq(fields)
                    /\ \A i \in DOMAIN change.cols :
                          /\ change.values[i] \in Seq(Byte)
                          /\ Len(change.values[i]) = schema.columns[change.cols[i]].size
                          /\ ~schema.columns[change.cols[i]].is_primary
                          /\ \A cols \in Catalog[t].indexes : \A j \in DOMAIN cols :
                                cols[j] # change.cols[i]
                          /\ \A j \in DOMAIN change.cols :
                                change.cols[i] = change.cols[j] => i = j
              /\ \A cols \in Catalog[t].indexes : cols \in Seq(fields)
              /\ \A params \in Queries[t] :
                    /\ params.cols \in Seq(fields) \ {<<>>}
                    /\ \A i \in DOMAIN params.cols :
                          /\ params.values[i] \in Seq(Byte)
                          /\ Len(params.values[i]) = schema.columns[params.cols[i]].size

VARIABLES tables,  \* schema_tables
          scan     \* the iterator a client has open; more: hasNext has returned true
                   \* and next is not yet called.  History: due are the records there
                   \* since the scan began that it has not returned; gone: the record
                   \* hasNext has found was deleted before the call of next

vars == <<tables, scan>>

-----------------------------------------------------------------------------
(* The indexes: TBBUniqueIndex, a function, and TBBMultiIndex, a set of    *)
(* pairs.                                                                  *)

UniqueInsert(f, k, a) == [x \in DOMAIN f \cup {k} |-> IF x \in DOMAIN f THEN f[x] ELSE a]
UniqueErase(f, k) == [x \in DOMAIN f \ {k} |-> f[x]]
UniqueSearch(f, k) == IF k \in DOMAIN f THEN {f[k]} ELSE {Null}

MultiInsert(m, k, a) == m \cup {<<k, a>>}
MultiErase(m, k) == {e \in m : e[1] # k}
(* searchRecords: the entries of the key, in some order.                   *)
MultiSearchAll(m, k) == {e[2] : e \in {x \in m : x[1] = k}}
(* searchRecord: any of them.                                              *)
MultiSearch(m, k) == LET found == MultiSearchAll(m, k)
                     IN  IF found = {} THEN {Null} ELSE found

-----------------------------------------------------------------------------
(* A table.                                                                *)

NewTable(schema, indexes) ==
    [schema |-> schema,    \* schema_ptr
     records |-> <<>>,     \* the occupied slots and their records
     next |-> 1,           \* next_freespace_ptr
     free |-> <<>>,        \* free_list
     occupied |-> 0,       \* occupied_record_count
     allocated |-> 0,      \* allocated_record_count
     primary |-> <<>>,     \* primary_index_ptr
     secondary |-> [cols \in indexes |-> {}]]  \* secondary_index_ptrs

Indexes(table) == DOMAIN table.secondary

(* BaseTable::insertRecord: the slot it takes and what becomes of the space. *)
Place(table, row) ==
    LET full   == table.allocated = table.occupied
        reused == ~full /\ table.free # <<>>
        slot   == IF reused THEN Head(table.free) ELSE table.next
    IN  <<slot, [table EXCEPT !.allocated = IF full THEN @ + PerBlock ELSE @,
                              !.free      = IF reused THEN Tail(@) ELSE @,
                              !.next      = IF reused THEN @ ELSE @ + 1,
                              !.occupied  = @ + 1,
                              !.records   = [a \in DOMAIN @ \cup {slot} |->
                                                IF a = slot THEN row ELSE @[a]]]>>

(* SchemaTable::insertRecord.                                              *)
InsertRecord(table, row) ==
    LET placed == Place(table, row)
        keys   == KeySymbols(table.schema, row, Indexes(table))
    IN  [placed[2] EXCEPT
            !.primary = IF table.schema.primary_cols = <<>> THEN @
                        ELSE UniqueInsert(@, PrimaryKeySymbol(table.schema, row), placed[1]),
            !.secondary = [cols \in DOMAIN @ |-> MultiInsert(@[cols], keys[cols], placed[1])]]

\* Mutant: the counter stays.
ReleaseUncounted(table, a) ==
    [table EXCEPT !.free = Append(@, a),
                  !.records = [b \in DOMAIN @ \ {a} |-> @[b]]]

(* BaseTable::deleteRecord.                                                *)
Release(table, a) ==
    [table EXCEPT !.free = Append(@, a),
                  !.records = [b \in DOMAIN @ \ {a} |-> @[b]],
                  !.occupied = @ - 1]

(* SchemaTable::deleteRecord: every entry of the record's keys goes.       *)
DeleteRecord(table, a) ==
    LET row  == table.records[a]
        keys == KeySymbols(table.schema, row, Indexes(table))
    IN  [Release(table, a) EXCEPT
            !.primary = IF table.schema.primary_cols = <<>> THEN @
                        ELSE UniqueErase(@, PrimaryKeySymbol(table.schema, row)),
            !.secondary = [cols \in DOMAIN @ |-> MultiErase(@[cols], keys[cols])]]

(* SchemaTable::updateRecord: the values go over the columns, the indexes  *)
(* are left alone.                                                         *)
UpdateRecord(table, a, change) ==
    [table EXCEPT !.records[a] = SetColumns(table.schema, @, change.cols, change.values)]

-----------------------------------------------------------------------------
(* Iterating and selecting.                                                *)

End(table) == table.allocated + 1

\* Mutant: a slot without a record ends the scan.
SeekStopping(table, m_ptr) == IF m_ptr \in DOMAIN table.records THEN m_ptr ELSE End(table)

(* TableIterator::hasNext: on to an occupied slot, or to the end.          *)
Seek(table, m_ptr) ==
    Min({a \in DOMAIN table.records : a >= m_ptr} \cup {End(table)})
HasNext(table, m_ptr) == Seek(table, m_ptr) # End(table)

(* Records: the result of selectRecords, in an array that doubles.         *)
EmptyRecords(size) == [data_ptrs |-> [i \in 1 .. size |-> Null], record_num |-> 0]

\* Mutant: the array grows one record late, which is then written behind it.
InsertPointerLate(records, a) ==
    LET stored == [records.data_ptrs EXCEPT ![records.record_num + 1] = a]
    IN  [data_ptrs |-> IF records.record_num = Len(stored)
                       THEN stored \o [i \in 1 .. Len(stored) |-> Null] ELSE stored,
         record_num |-> records.record_num + 1]

(* Records::insertRecord.                                                  *)
InsertPointer(records, a) ==
    LET stored == [records.data_ptrs EXCEPT ![records.record_num + 1] = a]
    IN  [data_ptrs |-> IF records.record_num + 1 = Len(stored)
                       THEN stored \o [i \in 1 .. Len(stored) |-> Null] ELSE stored,
         record_num |-> records.record_num + 1]

(* ConstRecords copies the first record_num records.                       *)
ConstRecords(records) == SubSeq(records.data_ptrs, 1, records.record_num)

(* The record found at a, if it is one of those asked for.                 *)
Chosen(table, params, a) ==
    IF IsMatch(table.schema, table.records[a], params) THEN <<a>> ELSE <<>>

(* while (hasNext()), next() and the comparison: the records of a scan that *)
(* match, over a table nobody changes meanwhile.                           *)
Matching(table, params) ==
    LET found[m_ptr \in Nat] ==
            IF HasNext(table, m_ptr)
            THEN Chosen(table, params, Seek(table, m_ptr)) \o found[Seek(table, m_ptr) + 1]
            ELSE <<>>
    IN  found[1]

(* selectRecord by the primary key itself.                                 *)
SelectByKey(table, primary_key) == UniqueSearch(table.primary, primary_key)

(* selectRecord: the records it may return, Null when there is none.  The  *)
(* order of the columns decides whether an index is used.                  *)
SelectRecord(table, params) ==
    LET key  == PredicateDataSymbol(table.schema, params)
        rows == Matching(table, params)
    IN  IF params.cols = table.schema.primary_cols THEN UniqueSearch(table.primary, key)
        ELSE IF params.cols \in Indexes(table) THEN MultiSearch(table.secondary[params.cols], key)
        ELSE IF rows = <<>> THEN {Null} ELSE {rows[1]}

(* selectRecords: the records it returns and how many.  The primary index  *)
(* is not used.                                                            *)
SelectRecords(table, params) ==
    LET found == MultiSearchAll(table.secondary[params.cols],
                                PredicateDataSymbol(table.schema, params))
        rows  == ConstRecords(FoldLeft(InsertPointer, EmptyRecords(FetchSize),
                                       Matching(table, params)))
    IN  IF params.cols \in Indexes(table)
        THEN [found |-> found, record_num |-> Cardinality(found)]
        ELSE [found |-> Range(rows), record_num |-> Len(rows)]

-----------------------------------------------------------------------------
(* The calls of StorageManager, and what their callers see to.             *)

NoScan == [table |-> Null]

Init == /\ tables = <<>>
        /\ scan = NoScan

(* A table registered before is replaced.  No iterator into it is kept.    *)
RegisterTable(t) ==
    /\ scan = NoScan \/ scan.table # t
    /\ tables' = [u \in DOMAIN tables \cup {t} |-> IF u = t THEN NewTable(Catalog[t].schema, Catalog[t].indexes)
                                                      ELSE tables[u]]
    /\ UNCHANGED scan

(* No iterator into a table is kept when the tables go.                    *)
DropAllTables == /\ scan = NoScan
                 /\ tables # <<>>
                 /\ tables' = <<>>
                 /\ UNCHANGED scan

(* The caller fills a buffer column by column.                             *)
Buffer(schema, values, filler) ==
    SetColumns(schema, [i \in 1 .. schema.size |-> filler], [c \in DOMAIN values |-> c], values)

Blocks == MapThenSumSet(LAMBDA t : tables[t].allocated, DOMAIN tables) \div PerBlock

(* Primary keys are given out once.                                        *)
Insert(t, values, filler) ==
    LET row == Buffer(tables[t].schema, values, filler)
    IN  /\ PrimaryKeySymbol(tables[t].schema, row) \notin DOMAIN tables[t].primary
        /\ tables[t].allocated = tables[t].occupied => Blocks < MaxBlocks
        /\ tables' = [tables EXCEPT ![t] = InsertRecord(@, row)]
        /\ UNCHANGED scan

(* A record that is deleted shares no key of a secondary index: the tables *)
(* that are deleted from have none.                                        *)
Delete(t, a) ==
    /\ LET table == tables[t]
       IN  \A cols \in Indexes(table) : \A b \in DOMAIN table.records \ {a} :
              KeySymbol(table.schema, table.records[a], cols) #
                  KeySymbol(table.schema, table.records[b], cols)
    /\ tables' = [tables EXCEPT ![t] = DeleteRecord(@, a)]
    /\ scan' = IF scan # NoScan /\ scan.table = t
               THEN [scan EXCEPT !.due = @ \ {a}, !.gone = @ \/ (scan.more /\ scan.m_ptr = a)]
               ELSE scan

Update(t, a, change) ==
    /\ tables' = [tables EXCEPT ![t] = UpdateRecord(@, a, change)]
    /\ UNCHANGED scan

(* getSchemaTableIterator reads blocks[0]: not before the first insertion. *)
ScanStart(t) ==
    /\ scan = NoScan
    /\ tables[t].allocated > 0
    /\ scan' = [table |-> t, m_ptr |-> 1, more |-> FALSE, gone |-> FALSE,
                due |-> DOMAIN tables[t].records]
    /\ UNCHANGED tables

(* hasNext() is true: the iterator stands at the record it has found.  The *)
(* client may do any other call before next().                             *)
ScanHasNext ==
    /\ scan # NoScan
    /\ HasNext(tables[scan.table], scan.m_ptr)
    /\ scan' = [scan EXCEPT !.m_ptr = Seek(tables[scan.table], @), !.more = TRUE, !.gone = FALSE]
    /\ UNCHANGED tables

(* next() looks for a record itself and returns the first one.             *)
ScanNext ==
    /\ scan # NoScan
    /\ scan.more
    /\ HasNext(tables[scan.table], scan.m_ptr)
    /\ LET a == Seek(tables[scan.table], scan.m_ptr)
       IN  scan' = [scan EXCEPT !.m_ptr = a + 1, !.due = @ \ {a}, !.more = FALSE, !.gone = FALSE]
    /\ UNCHANGED tables

(* It does not look for the end: without a record it follows the NULL       *)
(* behind the last block, and the process dies and its tables with it.     *)
ScanRunsOff ==
    /\ scan # NoScan
    /\ scan.more
    /\ ~HasNext(tables[scan.table], scan.m_ptr)
    /\ tables' = <<>>
    /\ scan' = NoScan

(* hasNext() is false: the client deletes the iterator.                    *)
ScanEnd ==
    /\ scan # NoScan
    /\ ~HasNext(tables[scan.table], scan.m_ptr)
    /\ scan' = NoScan
    /\ UNCHANGED tables

Next == \/ \E t \in DOMAIN Catalog : RegisterTable(t)
        \/ \E t \in DOMAIN tables :
               \/ \E values \in Offered[t], filler \in Fillers : Insert(t, values, filler)
               \/ \E a \in DOMAIN tables[t].records :
                     Delete(t, a) \/ \E change \in Changes[t] : Update(t, a, change)
               \/ ScanStart(t)
        \/ ScanHasNext \/ ScanNext \/ ScanRunsOff \/ ScanEnd \/ DropAllTables

Spec == Init /\ [][Next]_vars

-----------------------------------------------------------------------------
(* Properties.                                                             *)

(* The counters of a table tell how many records it has and how many slots  *)
(* can still be handed out, and index entries lead to records.              *)
TablesAreSound ==
    \A t \in DOMAIN tables :
        LET table == tables[t]
        IN  /\ table.occupied = Cardinality(DOMAIN table.records)
            /\ table.allocated - table.occupied = Len(table.free) + End(table) - table.next
            /\ \A a \in DOMAIN table.records : a < table.next /\ a \notin Range(table.free)
            /\ \A k \in DOMAIN table.primary : table.primary[k] \in DOMAIN table.records
            /\ scan # NoScan => scan.m_ptr \in 1 .. tables[scan.table].allocated + 1

(* Whatever the path (an index or a scan), and whatever the table has gone  *)
(* through, selecting finds exactly the records whose columns have the      *)
(* values asked for; Queries are the column lists to ask for.               *)
AccessPathsAgree ==
    \A t \in DOMAIN tables : tables[t].allocated > 0 =>
        \A params \in Queries[t] :
            LET table  == tables[t]
                wanted == {a \in DOMAIN table.records :
                              IsMatch(table.schema, table.records[a], params)}
                one    == SelectRecord(table, params)
                many   == SelectRecords(table, params)
            IN  /\ one # {} /\ one \subseteq IF wanted = {} THEN {Null} ELSE wanted
                /\ many = [found |-> wanted, record_num |-> Cardinality(wanted)]
                /\ params.cols = table.schema.primary_cols =>
                      SelectByKey(table, PredicateDataSymbol(table.schema, params)) = one

(* A scan returns every record that is there from its beginning to its end, *)
(* although its client inserts, updates and deletes records meanwhile, also *)
(* between hasNext and next.  Only a client that deletes the very record     *)
(* hasNext has found may see next run off the table.                        *)
ScansAreComplete ==
    [][scan # NoScan => /\ scan' = NoScan => scan.due = {}
                        /\ tables' = <<>> => scan.gone]_vars

(* Column by column, the tables hold what was inserted and updated.         *)
Promise == INSTANCE TableStore WITH
              TableIds <- DOMAIN Catalog,
              store <- [t \in DOMAIN tables |->
                           [a \in DOMAIN tables[t].records |->
                               Columns(tables[t].schema, tables[t].records[a])]]
ImplementsTableStore == Promise!Spec
=============================================================================
