------------------------------- MODULE Schemas -------------------------------
(***************************************************************************)
(* storage/MetaTypes.h, Schema.cc and Record.cc: how the columns of a      *)
(* record lie in its bytes, and the byte strings the indexes take for      *)
(* keys.  A record is the sequence of its bytes.  Columns are numbered     *)
(* from 1 here and from 0 in the code.                                     *)
(***************************************************************************)
EXTENDS Naturals, Sequences, SequencesExt

(* sizeof of each type with a fixed size.                                  *)
FixedSize == [INT |-> 4, INT8 |-> 1, INT16 |-> 2, INT32 |-> 4, INT64 |-> 8,
              FLOAT |-> 4, DOUBLE |-> 8]

(* The two constructors: the type tells the size, or a VARCHAR's is given.  *)
ColumnInfo(type, primary) ==
    [type |-> type, size |-> FixedSize[type], offset |-> 0, is_primary |-> primary]
VarcharInfo(size, primary) ==
    [type |-> "VARCHAR", size |-> size, offset |-> 0, is_primary |-> primary]

EmptySchema == [columns |-> <<>>, size |-> 0, primary_cols |-> <<>>, key_length |-> 0]

\* Mutant: a column begins with the last byte of the one before it.
InsertColumnOverlapping(schema, column) ==
    [columns |-> Append(schema.columns,
                        [column EXCEPT !.offset = IF schema.size = 0 THEN 0 ELSE schema.size - 1]),
     size |-> schema.size + column.size,
     primary_cols |-> IF column.is_primary
                      THEN Append(schema.primary_cols, Len(schema.columns) + 1)
                      ELSE schema.primary_cols,
     key_length |-> schema.key_length + IF column.is_primary THEN column.size ELSE 0]

(* Schema::insertColumn.  At most MaxPrimaryColumns may be primary.        *)
InsertColumn(schema, column) ==
    [columns |-> Append(schema.columns, [column EXCEPT !.offset = schema.size]),
     size |-> schema.size + column.size,
     primary_cols |-> IF column.is_primary
                      THEN Append(schema.primary_cols, Len(schema.columns) + 1)
                      ELSE schema.primary_cols,
     key_length |-> schema.key_length + IF column.is_primary THEN column.size ELSE 0]

MaxPrimaryColumns == 5
SchemaOf(columns) == FoldLeft(InsertColumn, EmptySchema, columns)

-----------------------------------------------------------------------------
(* Records.                                                                *)

(* Record::getColumn: the bytes the column takes up.                       *)
Column(schema, row, c) ==
    LET column == schema.columns[c]
    IN  SubSeq(row, column.offset + 1, column.offset + column.size)

(* ConstRecord's getColumn, for every column.                              *)
Columns(schema, row) == [c \in DOMAIN schema.columns |-> Column(schema, row, c)]

(* Record::setColumn: memcpy of the value.  A VARCHAR's may be shorter than *)
(* the column; the bytes behind it stay what they were.                     *)
SetColumn(schema, row, c, value) ==
    LET offset == schema.columns[c].offset
    IN  [i \in DOMAIN row |-> IF i \in offset + 1 .. offset + Len(value)
                              THEN value[i - offset] ELSE row[i]]

(* A loop over the columns: the i-th value goes into the i-th of them.      *)
SetColumns(schema, row, cols, values) ==
    FoldLeft(LAMBDA r, i : SetColumn(schema, r, cols[i], values[i]), row,
             [i \in DOMAIN cols |-> i])

(* Whether setColumn's assertion lets a value in.                          *)
Fits(schema, c, value) == IF schema.columns[c].type = "VARCHAR"
                          THEN Len(value) <= schema.columns[c].size
                          ELSE Len(value) = schema.columns[c].size

(* getKeySymbol: the columns one after the other, in the order of the list. *)
KeySymbol(schema, row, cols) ==
    FlattenSeq([i \in DOMAIN cols |-> Column(schema, row, cols[i])])

(* getPrimaryKeySymbol: without a primary column, the whole record.         *)
PrimaryKeySymbol(schema, row) ==
    IF schema.key_length = 0 THEN row ELSE KeySymbol(schema, row, schema.primary_cols)

(* ConstRecord's copies of the two, for all indexes of a table.             *)
KeySymbols(schema, row, lists) ==
    [cols \in lists |-> KeySymbol(schema, row, cols)]

-----------------------------------------------------------------------------
(* Predicates: columns and the bytes they shall be equal to.  The code      *)
(* takes as many bytes of a value as the column has.                        *)

ColumnPredicates(cols, values) == [cols |-> cols, values |-> values]

(* Schema::getPredicateDataSymbol: the key an index is searched for.        *)
PredicateDataSymbol(schema, params) ==
    FlattenSeq([i \in DOMAIN params.cols |->
        SubSeq(params.values[i], 1, schema.columns[params.cols[i]].size)])

(* The comparison of a scan: memcmp column after column.                    *)
IsMatch(schema, row, params) ==
    \A i \in DOMAIN params.cols : Column(schema, row, params.cols[i]) = params.values[i]
=============================================================================
