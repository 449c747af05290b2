---------------------------- MODULE StorageProofs ----------------------------
(***************************************************************************)
(* What Storage.tla claims of the tables and of a scan, proved for any     *)
(* catalog, any number of blocks and blocks of any size.                   *)
(***************************************************************************)
EXTENDS Storage, SequenceLemmas

(* The recursive function of the fold in SetColumns.                       *)
Writes(schema, row, cols, values, seq, g) ==
    g = [s \in SUBSET DOMAIN seq |->
            IF s = {} THEN row
            ELSE SetColumn(schema, g[s \ {Max(s)}], cols[seq[Max(s)]], values[seq[Max(s)]])]

(* SetColumns is that function at all positions.                            *)
LEMMA SetColumnsIs ==
  ASSUME NEW schema, NEW row, NEW cols, NEW values
  PROVE  LET seq == [i \in DOMAIN cols |-> i]
         IN  SetColumns(schema, row, cols, values) =
                 (CHOOSE g : Writes(schema, row, cols, values, seq, g))[DOMAIN seq]
BY Zenon DEF SetColumns, FoldLeft, MapThenFoldSet, Writes

(* SetColumns writes one column after the other, rows staying in V: h[i] is *)
(* the row after i of them.                                                *)
StaysIn(schema, V, n, cols, values) ==
    \A i \in 1 .. n : \A r \in V : SetColumn(schema, r, cols[i], values[i]) \in V
StepByStep(schema, V, row, n, cols, values, h) ==
    /\ h \in [0 .. n -> V]
    /\ h[0] = row
    /\ \A i \in 1 .. n : h[i] = SetColumn(schema, h[i - 1], cols[i], values[i])
    /\ SetColumns(schema, row, cols, values) = h[n]

(* The rows between exist when every write stays in V.                      *)
LEMMA SetColumnsUnfolds ==
  ASSUME NEW schema, NEW V, NEW row \in V, NEW n \in Nat, NEW cols, NEW values,
         DOMAIN cols = 1 .. n, StaysIn(schema, V, n, cols, values)
  PROVE  \E h : StepByStep(schema, V, row, n, cols, values, h)
<1> DEFINE seq == [i \in DOMAIN cols |-> i]
           F == [p \in (1 .. n) \X V |-> SetColumn(schema, p[2], cols[p[1]], values[p[1]])]
           f == CHOOSE g : Writes(schema, row, cols, values, seq, g)
           h == [i \in 0 .. n |-> f[1 .. i]]
           Good == {i \in Nat : i <= n => f[1 .. i] \in V}
<1>1. DOMAIN seq = 1 .. n /\ \A i \in 1 .. n : seq[i] = i
  OBVIOUS
<1>2. F \in [(1 .. n) \X V -> V]
  BY DEF StaysIn
<1>3. \A i \in 1 .. n : \A r \in V : F[<<i, r>>] = SetColumn(schema, r, cols[i], values[i])
  OBVIOUS
<1> HIDE DEF seq, F
<1>4. PICK g \in [SUBSET (1 .. n) -> V] : Folds(n, row, F, g)
  BY <1>2, FoldExists, Zenon
<1>5. Writes(schema, row, cols, values, seq, g)
  <2>1. ASSUME NEW s \in SUBSET (1 .. n), s # {}
        PROVE  F[<<Max(s), g[s \ {Max(s)}]>>] =
                  SetColumn(schema, g[s \ {Max(s)}], cols[seq[Max(s)]], values[seq[Max(s)]])
    <3>1. Max(s) \in 1 .. n
      BY <2>1, GreatestElement
    <3>2. g[s \ {Max(s)}] \in V
      OBVIOUS
    <3> QED BY <3>1, <3>2, <1>1, <1>3
  <2>2. g = [s \in SUBSET (1 .. n) |-> IF s = {} THEN row ELSE F[<<Max(s), g[s \ {Max(s)}]>>]]
    BY <1>4 DEF Folds
  <2>3. g = [s \in SUBSET (1 .. n) |-> IF s = {} THEN row
              ELSE SetColumn(schema, g[s \ {Max(s)}], cols[seq[Max(s)]], values[seq[Max(s)]])]
    BY <2>1, <2>2
  <2> QED BY <2>3, <1>1 DEF Writes
<1>6. Writes(schema, row, cols, values, seq, f)
  BY <1>5
<1>7. f[{}] = row
  BY <1>6 DEF Writes
<1>8. \A i \in 1 .. n : f[1 .. i] = SetColumn(schema, f[1 .. (i - 1)], cols[i], values[i])
  <2> TAKE i \in 1 .. n
  <2>1. Max(1 .. i) = i /\ (1 .. i) \ {i} = 1 .. (i - 1) /\ 1 .. i # {} /\ 1 .. i \in SUBSET (1 .. n)
    <3>1. i \in Nat \ {0} /\ 1 .. i \in SUBSET (1 .. n)
      OBVIOUS
    <3>2. Max(1 .. i) = i /\ (1 .. i) \ {i} = 1 .. (i - 1) /\ 1 .. i # {}
      BY <3>1, UptoLast, Zenon
    <3> QED BY <3>1, <3>2
  <2>2. f[1 .. i] = SetColumn(schema, f[(1 .. i) \ {Max(1 .. i)}], cols[seq[Max(1 .. i)]],
                              values[seq[Max(1 .. i)]])
    BY <2>1, <1>1, <1>6 DEF Writes
  <2> QED BY <2>1, <2>2, <1>1
<1>9. SetColumns(schema, row, cols, values) = f[1 .. n]
  BY SetColumnsIs, <1>1 DEF seq
<1> HIDE DEF f
<1>10. 0 \in Good
  BY <1>7
<1>11. \A i \in Nat : i \in Good => i + 1 \in Good
  <2> SUFFICES ASSUME NEW i \in Nat, i \in Good, i + 1 <= n PROVE f[1 .. (i + 1)] \in V
    OBVIOUS
  <2>1. f[1 .. i] \in V /\ i + 1 \in 1 .. n /\ (i + 1) - 1 = i
    OBVIOUS
  <2>2. f[1 .. (i + 1)] = SetColumn(schema, f[1 .. i], cols[i + 1], values[i + 1])
    BY <2>1, <1>8
  <2>3. SetColumn(schema, f[1 .. i], cols[i + 1], values[i + 1]) \in V
    BY <2>1 DEF StaysIn
  <2> QED BY <2>2, <2>3
<1>12. Nat \subseteq Good
  <2> HIDE DEF Good
  <2> QED BY <1>10, <1>11, Induction
<1>13. h \in [0 .. n -> V]
  BY <1>12
<1>14. h[0] = row /\ h[n] = f[1 .. n]
  BY <1>7
<1>15. \A i \in 1 .. n : h[i] = SetColumn(schema, h[i - 1], cols[i], values[i])
  <2> TAKE i \in 1 .. n
  <2>1. i \in 0 .. n /\ i - 1 \in 0 .. n
    OBVIOUS
  <2>2. h[i] = f[1 .. i] /\ h[i - 1] = f[1 .. (i - 1)]
    BY <2>1
  <2> HIDE DEF h
  <2> QED BY <2>2, <1>8
<1> HIDE DEF h
<1> QED BY <1>9, <1>13, <1>14, <1>15 DEF StepByStep

-----------------------------------------------------------------------------
(* The layout of a record.                                                 *)

Info == [type : STRING, size : Nat \ {0}, offset : Nat, is_primary : BOOLEAN]

(* Columns lie one behind the other within the record, and a schema without *)
(* a byte of key has no primary column.                                    *)
LaidOut(schema) ==
    /\ \A c \in DOMAIN schema.columns :
          schema.columns[c].offset + schema.columns[c].size <= schema.size
    /\ \A c, d \in DOMAIN schema.columns :
          c < d => schema.columns[c].offset + schema.columns[c].size <= schema.columns[d].offset
    /\ \A i \in DOMAIN schema.primary_cols :
          /\ schema.primary_cols[i] \in DOMAIN schema.columns
          /\ schema.columns[schema.primary_cols[i]].is_primary
    /\ schema.key_length = 0 => schema.primary_cols = <<>>

SchemaType == [columns : Seq(Info), size : Nat, primary_cols : Seq(Nat), key_length : Nat]
Laid == {schema \in SchemaType : LaidOut(schema)}

(* insertColumn keeps to that.                                             *)
LEMMA InsertColumnKeepsLayout ==
  ASSUME NEW schema \in Laid, NEW column \in Info
  PROVE  InsertColumn(schema, column) \in Laid
<1> DEFINE placed == [column EXCEPT !.offset = schema.size]
           n == Len(schema.columns)
           new == InsertColumn(schema, column)
           cols == Append(schema.columns, placed)
           keys == IF column.is_primary THEN Append(schema.primary_cols, n + 1)
                   ELSE schema.primary_cols
           key == schema.key_length + IF column.is_primary THEN column.size ELSE 0
<1>1. /\ schema \in SchemaType /\ LaidOut(schema)
      /\ n \in Nat /\ DOMAIN schema.columns = 1 .. n
      /\ \A c \in 1 .. n : schema.columns[c] \in Info
  BY DEF Laid, SchemaType
<1>2. /\ placed \in Info /\ placed.size = column.size /\ placed.offset = schema.size
      /\ placed.is_primary = column.is_primary
  BY <1>1 DEF Info, SchemaType
<1>3. new = [columns |-> cols, size |-> schema.size + column.size,
             primary_cols |-> keys, key_length |-> key]
  BY DEF InsertColumn
<1> HIDE DEF placed, new
<1>4. /\ cols \in Seq(Info) /\ DOMAIN cols = 1 .. n + 1
      /\ \A c \in 1 .. n : cols[c] = schema.columns[c]
      /\ cols[n + 1] = placed
  BY <1>1, <1>2 DEF SchemaType
<1>5. keys \in Seq(Nat) /\ key \in Nat /\ schema.size + column.size \in Nat
  BY <1>1 DEF SchemaType, Info
<1>6. \A i \in DOMAIN keys : keys[i] \in 1 .. n + 1 /\ cols[keys[i]].is_primary
  <2> TAKE i \in DOMAIN keys
  <2>1. schema.primary_cols \in Seq(Nat)
    BY <1>1 DEF SchemaType
  <2>2. CASE i \in DOMAIN schema.primary_cols /\ keys[i] = schema.primary_cols[i]
    <3>1. keys[i] \in 1 .. n /\ schema.columns[keys[i]].is_primary
      BY <2>2, <1>1 DEF LaidOut
    <3> QED BY <3>1, <1>1, <1>4
  <2>3. CASE column.is_primary /\ keys[i] = n + 1
    <3> HIDE DEF cols, keys
    <3>1. cols[n + 1].is_primary
      BY <2>3, <1>2, <1>4
    <3>2. n + 1 \in 1 .. n + 1
      BY <1>1
    <3> HIDE DEF n
    <3> QED BY <2>3, <3>1, <3>2
  <2>4. \/ i \in DOMAIN schema.primary_cols /\ keys[i] = schema.primary_cols[i]
        \/ column.is_primary /\ keys[i] = n + 1
    BY <2>1
  <2> QED BY <2>2, <2>3, <2>4
<1>7. key = 0 => keys = <<>>
  <2> SUFFICES ASSUME key = 0 PROVE keys = <<>>
    OBVIOUS
  <2>1. ~column.is_primary /\ schema.key_length = 0
    BY <1>1 DEF SchemaType, Info
  <2> QED BY <2>1, <1>1 DEF LaidOut
<1> HIDE DEF cols, keys, key
<1>8. new \in SchemaType
  BY <1>3, <1>4, <1>5 DEF SchemaType
<1>9. \A c \in 1 .. n + 1 : cols[c].offset + cols[c].size <= new.size
  <2> TAKE c \in 1 .. n + 1
  <2>1. schema.size \in Nat /\ column.size \in Nat \ {0} /\ new.size = schema.size + column.size
    BY <1>1, <1>3 DEF SchemaType, Info
  <2>2. CASE c = n + 1
    BY <2>1, <2>2, <1>2, <1>4
  <2>3. CASE c \in 1 .. n
    <3>1. cols[c] = schema.columns[c] /\ schema.columns[c].offset \in Nat
          /\ schema.columns[c].size \in Nat
      BY <2>3, <1>1, <1>4 DEF Info
    <3>2. schema.columns[c].offset + schema.columns[c].size <= schema.size
      BY <2>3, <1>1 DEF LaidOut
    <3> QED BY <2>1, <3>1, <3>2
  <2> QED BY <2>2, <2>3, <1>1
<1>10. \A c, d \in 1 .. n + 1 : c < d => cols[c].offset + cols[c].size <= cols[d].offset
  <2> SUFFICES ASSUME NEW c \in 1 .. n + 1, NEW d \in 1 .. n + 1, c < d
               PROVE  cols[c].offset + cols[c].size <= cols[d].offset
    OBVIOUS
  <2>1. c \in 1 .. n /\ cols[c] = schema.columns[c]
    BY <1>1, <1>4
  <2>2. CASE d = n + 1
    <3>1. schema.columns[c].offset + schema.columns[c].size <= schema.size
      BY <2>1, <1>1 DEF LaidOut
    <3> QED BY <3>1, <2>1, <2>2, <1>2, <1>4
  <2>3. CASE d \in 1 .. n
    BY <2>1, <2>3, <1>1, <1>4 DEF LaidOut
  <2> QED BY <2>2, <2>3, <1>1
<1>11. /\ new.columns = cols /\ new.primary_cols = keys /\ new.key_length = key
  BY <1>3
<1>12. LaidOut(new)
  BY <1>4, <1>6, <1>7, <1>9, <1>10, <1>11 DEF LaidOut
<1> QED BY <1>8, <1>12 DEF Laid, new

(* The recursive function of the fold in SchemaOf.                         *)
Builds(columns, g) ==
    g = [s \in SUBSET DOMAIN columns |->
            IF s = {} THEN EmptySchema ELSE InsertColumn(g[s \ {Max(s)}], columns[Max(s)])]

(* SchemaOf is that function at all columns.                                *)
LEMMA SchemaOfIs ==
  ASSUME NEW columns
  PROVE  SchemaOf(columns) = (CHOOSE g : Builds(columns, g))[DOMAIN columns]
BY Zenon DEF SchemaOf, FoldLeft, MapThenFoldSet, Builds

(* Every schema is laid out so.                                            *)
LEMMA SchemasAreLaidOut ==
  ASSUME NEW columns \in Seq(Info)
  PROVE  SchemaOf(columns) \in Laid
<1> DEFINE n == Len(columns)
           F == [p \in (1 .. n) \X Laid |-> InsertColumn(p[2], columns[p[1]])]
           f == CHOOSE g : Builds(columns, g)
           Good == {i \in Nat : i <= n => f[1 .. i] \in Laid}
<1>1. n \in Nat /\ DOMAIN columns = 1 .. n /\ \A i \in 1 .. n : columns[i] \in Info
  OBVIOUS
<1>2. EmptySchema \in Laid
  <2>1. EmptySchema \in SchemaType
    BY DEF EmptySchema, SchemaType
  <2>2. LaidOut(EmptySchema)
    BY DEF EmptySchema, LaidOut
  <2> QED BY <2>1, <2>2 DEF Laid
<1>3. F \in [(1 .. n) \X Laid -> Laid]
  <2>1. \A p \in (1 .. n) \X Laid : InsertColumn(p[2], columns[p[1]]) \in Laid
    <3> TAKE p \in (1 .. n) \X Laid
    <3>1. p[2] \in Laid /\ columns[p[1]] \in Info
      BY <1>1
    <3> QED BY <3>1, InsertColumnKeepsLayout
  <2> QED BY <2>1
<1>4. \A i \in 1 .. n : \A r \in Laid : F[<<i, r>>] = InsertColumn(r, columns[i])
  OBVIOUS
<1> HIDE DEF n, F
<1>5. PICK g \in [SUBSET (1 .. n) -> Laid] : Folds(n, EmptySchema, F, g)
  BY <1>1, <1>2, <1>3, FoldExists, Zenon
<1>6. Builds(columns, g)
  <2>1. ASSUME NEW s \in SUBSET (1 .. n), s # {}
        PROVE  F[<<Max(s), g[s \ {Max(s)}]>>] = InsertColumn(g[s \ {Max(s)}], columns[Max(s)])
    <3>1. Max(s) \in 1 .. n
      BY <1>1, <2>1, GreatestElement
    <3>2. g[s \ {Max(s)}] \in Laid
      OBVIOUS
    <3> QED BY <3>1, <3>2, <1>4
  <2>2. g = [s \in SUBSET (1 .. n) |->
                IF s = {} THEN EmptySchema ELSE F[<<Max(s), g[s \ {Max(s)}]>>]]
    BY <1>5 DEF Folds
  <2>3. g = [s \in SUBSET (1 .. n) |->
                IF s = {} THEN EmptySchema ELSE InsertColumn(g[s \ {Max(s)}], columns[Max(s)])]
    BY <2>1, <2>2
  <2> QED BY <2>3, <1>1 DEF Builds
<1>7. Builds(columns, f)
  BY <1>6
<1>8. f[{}] = EmptySchema
  BY <1>7 DEF Builds
<1>9. \A i \in 1 .. n : f[1 .. i] = InsertColumn(f[1 .. (i - 1)], columns[i])
  <2> TAKE i \in 1 .. n
  <2>1. Max(1 .. i) = i /\ (1 .. i) \ {i} = 1 .. (i - 1) /\ 1 .. i # {} /\ 1 .. i \in SUBSET (1 .. n)
    BY UptoLast, <1>1
  <2>2. f[1 .. i] = InsertColumn(f[(1 .. i) \ {Max(1 .. i)}], columns[Max(1 .. i)])
    BY <2>1, <1>1, <1>7 DEF Builds
  <2> QED BY <2>1, <2>2
<1>10. SchemaOf(columns) = f[1 .. n]
  BY SchemaOfIs, <1>1
<1> HIDE DEF f
<1>11. 0 \in Good
  BY <1>2, <1>8
<1>12. \A i \in Nat : i \in Good => i + 1 \in Good
  <2> SUFFICES ASSUME NEW i \in Nat, i \in Good, i + 1 <= n PROVE f[1 .. (i + 1)] \in Laid
    OBVIOUS
  <2>1. f[1 .. i] \in Laid /\ i + 1 \in 1 .. n /\ (i + 1) - 1 = i
    BY <1>1
  <2>2. f[1 .. (i + 1)] = InsertColumn(f[1 .. i], columns[i + 1]) /\ columns[i + 1] \in Info
    BY <2>1, <1>1, <1>9
  <2> QED BY <2>1, <2>2, InsertColumnKeepsLayout
<1>13. n \in Good
  <2> HIDE DEF Good
  <2> QED BY <1>1, <1>11, <1>12, Induction
<1> QED BY <1>1, <1>10, <1>13

Row(schema) == [1 .. schema.size -> Byte]

(* Where a column of a schema lies.                                        *)
LEMMA ColumnWithinRow ==
  ASSUME NEW schema \in Laid, NEW c \in DOMAIN schema.columns
  PROVE  /\ schema.size \in Nat
         /\ schema.columns[c].offset \in Nat /\ schema.columns[c].size \in Nat \ {0}
         /\ schema.columns[c].offset + schema.columns[c].size <= schema.size
<1>1. schema \in SchemaType /\ LaidOut(schema)
  BY DEF Laid
<1>2. schema.columns \in Seq(Info)
  BY <1>1 DEF SchemaType
<1>3. schema.columns[c] \in Info
  BY <1>2
<1> QED BY <1>1, <1>3 DEF SchemaType, Info, LaidOut

(* No two columns of a schema share a byte.                                 *)
LEMMA ColumnsApart ==
  ASSUME NEW schema \in Laid, NEW c \in DOMAIN schema.columns, NEW d \in DOMAIN schema.columns,
         c # d
  PROVE  \/ schema.columns[c].offset + schema.columns[c].size <= schema.columns[d].offset
         \/ schema.columns[d].offset + schema.columns[d].size <= schema.columns[c].offset
<1>1. schema.columns \in Seq(Info) /\ LaidOut(schema)
  BY DEF Laid, SchemaType
<1>2. c \in Nat /\ d \in Nat
  BY <1>1
<1> QED BY <1>1, <1>2 DEF LaidOut

(* The bytes of a column, one by one.                                      *)
LEMMA ColumnIs ==
  ASSUME NEW schema \in Laid, NEW c \in DOMAIN schema.columns, NEW row \in Row(schema)
  PROVE  LET off == schema.columns[c].offset
             len == schema.columns[c].size
         IN  /\ Column(schema, row, c) = [i \in 1 .. len |-> row[i + off]]
             /\ \A i \in 1 .. len : i + off \in 1 .. schema.size
<1> DEFINE off == schema.columns[c].offset
           len == schema.columns[c].size
<1>1. off \in Nat /\ len \in Nat \ {0} /\ schema.size \in Nat /\ off + len <= schema.size
  BY ColumnWithinRow
<1>2. Column(schema, row, c) = SubSeq(row, off + 1, off + len)
  BY DEF Column
<1> HIDE DEF off, len
<1>3. SubSeq(row, off + 1, off + len) = [i \in 1 .. len |-> row[i + off]]
  <2>1. row \in Seq(Byte)
    BY <1>1 DEF Row
  <2>2. SubSeq(row, off + 1, off + len) = [i \in 1 .. (1 + (off + len) - (off + 1)) |-> row[i + (off + 1) - 1]]
    BY <1>1, <2>1
  <2>3. 1 + (off + len) - (off + 1) = len /\ \A i \in 1 .. len : i + (off + 1) - 1 = i + off
    BY <1>1
  <2> QED BY <2>2, <2>3
<1>4. \A i \in 1 .. len : i + off \in 1 .. schema.size
  BY <1>1
<1> QED BY <1>2, <1>3, <1>4 DEF off, len

(* What setColumn writes is a row again, has the value at the column's       *)
(* beginning, and is unchanged elsewhere.                                  *)
LEMMA SetColumnWrites ==
  ASSUME NEW schema \in Laid, NEW c \in DOMAIN schema.columns, NEW row \in Row(schema),
         NEW value \in Seq(Byte), Len(value) <= schema.columns[c].size
  PROVE  LET new == SetColumn(schema, row, c, value)
         IN  /\ new \in Row(schema)
             /\ \A i \in 1 .. Len(value) : new[i + schema.columns[c].offset] = value[i]
             /\ \A i \in 1 .. schema.size :
                   (i <= schema.columns[c].offset
                    \/ i > schema.columns[c].offset + schema.columns[c].size) => new[i] = row[i]
<1> DEFINE off == schema.columns[c].offset
           len == schema.columns[c].size
           new == SetColumn(schema, row, c, value)
<1>1. off \in Nat /\ len \in Nat /\ schema.size \in Nat /\ off + len <= schema.size
  BY ColumnWithinRow
<1>2. DOMAIN row = 1 .. schema.size /\ \A i \in 1 .. schema.size : row[i] \in Byte
  BY DEF Row
<1>3. Len(value) \in Nat /\ DOMAIN value = 1 .. Len(value) /\ \A i \in 1 .. Len(value) : value[i] \in Byte
  OBVIOUS
<1>4. new = [i \in 1 .. schema.size |-> IF i \in off + 1 .. off + Len(value)
                                        THEN value[i - off] ELSE row[i]]
  BY <1>2 DEF SetColumn
<1>5. Len(value) <= len
  OBVIOUS
<1> HIDE DEF off, len, new
<1>6. \A i \in 1 .. schema.size : i \in off + 1 .. off + Len(value) => i - off \in 1 .. Len(value)
  BY <1>1, <1>3
<1>7. new \in Row(schema)
  BY <1>2, <1>3, <1>4, <1>6 DEF Row
<1>8. \A i \in 1 .. Len(value) : new[i + off] = value[i]
  <2> TAKE i \in 1 .. Len(value)
  <2>1. i + off \in 1 .. schema.size /\ i + off \in off + 1 .. off + Len(value) /\ (i + off) - off = i
    BY <1>1, <1>3, <1>5
  <2> QED BY <2>1, <1>4
<1>9. \A i \in 1 .. schema.size : (i <= off \/ i > off + len) => new[i] = row[i]
  <2> TAKE i \in 1 .. schema.size
  <2>1. (i <= off \/ i > off + len) => i \notin off + 1 .. off + Len(value)
    BY <1>1, <1>3, <1>5
  <2> QED BY <2>1, <1>4
<1> QED BY <1>7, <1>8, <1>9 DEF off, len, new

(* setColumn leaves the other columns alone.                                *)
LEMMA SetColumnKeepsOthers ==
  ASSUME NEW schema \in Laid, NEW c \in DOMAIN schema.columns, NEW row \in Row(schema),
         NEW value \in Seq(Byte), Len(value) <= schema.columns[c].size,
         NEW d \in DOMAIN schema.columns, d # c
  PROVE  Column(schema, SetColumn(schema, row, c, value), d) = Column(schema, row, d)
<1> DEFINE off == schema.columns[c].offset
           len == schema.columns[c].size
           offd == schema.columns[d].offset
           lend == schema.columns[d].size
           new == SetColumn(schema, row, c, value)
<1>1. off \in Nat /\ len \in Nat /\ offd \in Nat /\ lend \in Nat
  BY ColumnWithinRow
<1>2. off + len <= offd \/ offd + lend <= off
  BY ColumnsApart
<1>3. new \in Row(schema)
  BY SetColumnWrites, Zenon
<1>4. \A i \in 1 .. schema.size : (i <= off \/ i > off + len) => new[i] = row[i]
  BY SetColumnWrites
<1>5. /\ Column(schema, row, d) = [i \in 1 .. lend |-> row[i + offd]]
      /\ \A i \in 1 .. lend : i + offd \in 1 .. schema.size
  BY ColumnIs
<1> HIDE DEF new
<1>6. Column(schema, new, d) = [i \in 1 .. lend |-> new[i + offd]]
  BY <1>3, ColumnIs
<1> HIDE DEF off, len, offd, lend
<1>7. \A i \in 1 .. lend : new[i + offd] = row[i + offd]
  <2> TAKE i \in 1 .. lend
  <2>1. i + offd <= off \/ i + offd > off + len
    BY <1>1, <1>2
  <2> QED BY <2>1, <1>4, <1>5
<1>8. [i \in 1 .. lend |-> new[i + offd]] = [i \in 1 .. lend |-> row[i + offd]]
  BY <1>7
<1> QED BY <1>5, <1>6, <1>8 DEF new

(* The column it writes begins with the value.                             *)
LEMMA SetColumnPrefix ==
  ASSUME NEW schema \in Laid, NEW c \in DOMAIN schema.columns, NEW row \in Row(schema),
         NEW value \in Seq(Byte), Len(value) <= schema.columns[c].size
  PROVE  LET column == Column(schema, SetColumn(schema, row, c, value), c)
         IN  /\ column \in [1 .. schema.columns[c].size -> Byte]
             /\ \A i \in 1 .. Len(value) : column[i] = value[i]
<1> DEFINE off == schema.columns[c].offset
           len == schema.columns[c].size
           new == SetColumn(schema, row, c, value)
<1>1. off \in Nat /\ len \in Nat /\ Len(value) \in Nat /\ Len(value) <= len
  BY ColumnWithinRow
<1>2. new \in Row(schema)
  BY SetColumnWrites, Zenon
<1>3. \A i \in 1 .. Len(value) : new[i + off] = value[i]
  BY SetColumnWrites
<1> HIDE DEF new
<1>4. /\ Column(schema, new, c) = [i \in 1 .. len |-> new[i + off]]
      /\ \A i \in 1 .. len : i + off \in 1 .. schema.size
  BY <1>2, ColumnIs
<1> HIDE DEF off, len
<1>5. \A i \in 1 .. len : new[i + off] \in Byte
  BY <1>2, <1>4 DEF Row
<1>6. \A i \in 1 .. Len(value) : i \in 1 .. len
  BY <1>1
<1>7. Column(schema, new, c) \in [1 .. len -> Byte]
  BY <1>4, <1>5
<1>8. \A i \in 1 .. Len(value) : Column(schema, new, c)[i] = value[i]
  BY <1>3, <1>4, <1>6
<1> QED BY <1>7, <1>8 DEF new, len

(* What a loop over setColumn may be called with.                           *)
Writable(schema, n, cols, values) ==
    /\ DOMAIN cols = 1 .. n
    /\ \A i \in 1 .. n : /\ cols[i] \in DOMAIN schema.columns
                         /\ values[i] \in Seq(Byte)
                         /\ Len(values[i]) <= schema.columns[cols[i]].size
    /\ \A i, j \in 1 .. n : cols[i] = cols[j] => i = j

(* What it does: each column begins with its value, the others are as they  *)
(* were.                                                                   *)
Written(schema, n, cols, values, row, new) ==
    /\ new \in Row(schema)
    /\ \A d \in DOMAIN schema.columns :
          (\A i \in 1 .. n : cols[i] # d) => Column(schema, new, d) = Column(schema, row, d)
    /\ \A i \in 1 .. n :
          /\ Column(schema, new, cols[i]) \in [1 .. schema.columns[cols[i]].size -> Byte]
          /\ \A j \in 1 .. Len(values[i]) : Column(schema, new, cols[i])[j] = values[i][j]

(* The columns named hold the values afterwards, the others what they held. *)
LEMMA SetColumnsWrite ==
  ASSUME NEW schema \in Laid, NEW row \in Row(schema), NEW n \in Nat, NEW cols, NEW values,
         Writable(schema, n, cols, values)
  PROVE  Written(schema, n, cols, values, row, SetColumns(schema, row, cols, values))
<1>1. DOMAIN cols = 1 .. n
  BY DEF Writable
<1>2. \A i \in 1 .. n : \A r \in Row(schema) : SetColumn(schema, r, cols[i], values[i]) \in Row(schema)
  <2> SUFFICES ASSUME NEW i \in 1 .. n, NEW r \in Row(schema)
               PROVE  SetColumn(schema, r, cols[i], values[i]) \in Row(schema)
    OBVIOUS
  <2>1. cols[i] \in DOMAIN schema.columns /\ values[i] \in Seq(Byte)
        /\ Len(values[i]) <= schema.columns[cols[i]].size
    BY DEF Writable
  <2> QED BY <2>1, SetColumnWrites, Zenon
<1>3. PICK h \in [0 .. n -> Row(schema)] :
         /\ h[0] = row
         /\ \A i \in 1 .. n : h[i] = SetColumn(schema, h[i - 1], cols[i], values[i])
         /\ SetColumns(schema, row, cols, values) = h[n]
  <2>1. StaysIn(schema, Row(schema), n, cols, values)
    BY <1>2 DEF StaysIn
  <2>2. \E h : StepByStep(schema, Row(schema), row, n, cols, values, h)
    BY <1>1, <2>1, SetColumnsUnfolds, Zenon
  <2> QED BY <2>2 DEF StepByStep
<1> DEFINE Good == {i \in Nat : i <= n =>
                       /\ \A d \in DOMAIN schema.columns :
                             (\A j \in 1 .. i : cols[j] # d) =>
                                 Column(schema, h[i], d) = Column(schema, row, d)
                       /\ \A j \in 1 .. i : Column(schema, h[i], cols[j]) = Column(schema, h[j], cols[j])}
<1>4. 0 \in Good
  BY <1>3
<1>5. \A i \in Nat : i \in Good => i + 1 \in Good
  <2> SUFFICES ASSUME NEW i \in Nat, i \in Good, i + 1 <= n PROVE i + 1 \in Good
    OBVIOUS
  <2>1. i + 1 \in 1 .. n /\ (i + 1) - 1 = i /\ i \in 0 .. n /\ i + 1 \in Nat
    OBVIOUS
  <2>2. h[i + 1] = SetColumn(schema, h[i], cols[i + 1], values[i + 1]) /\ h[i] \in Row(schema)
    BY <1>3, <2>1
  <2>3. /\ cols[i + 1] \in DOMAIN schema.columns /\ values[i + 1] \in Seq(Byte)
        /\ Len(values[i + 1]) <= schema.columns[cols[i + 1]].size
    BY <2>1 DEF Writable
  <2>4. ASSUME NEW d \in DOMAIN schema.columns, d # cols[i + 1]
        PROVE  Column(schema, h[i + 1], d) = Column(schema, h[i], d)
    BY <2>2, <2>3, <2>4, SetColumnKeepsOthers
  <2>5. ASSUME NEW d \in DOMAIN schema.columns, \A j \in 1 .. i + 1 : cols[j] # d
        PROVE  Column(schema, h[i + 1], d) = Column(schema, row, d)
    <3>1. \A j \in 1 .. i : j \in 1 .. i + 1
      OBVIOUS
    <3>2. d # cols[i + 1] /\ \A j \in 1 .. i : cols[j] # d
      BY <2>1, <2>5, <3>1
    <3>3. Column(schema, h[i], d) = Column(schema, row, d)
      BY <2>1, <3>2
    <3> QED BY <3>2, <3>3, <2>4
  <2>6. ASSUME NEW j \in 1 .. i + 1
        PROVE  Column(schema, h[i + 1], cols[j]) = Column(schema, h[j], cols[j])
    <3>1. CASE j = i + 1
      BY <3>1
    <3>2. CASE j \in 1 .. i
      <4>1. j \in 1 .. n /\ j # i + 1
        BY <2>1, <3>2
      <4>2. cols[j] # cols[i + 1] /\ cols[j] \in DOMAIN schema.columns
        BY <2>1, <4>1 DEF Writable
      <4>3. Column(schema, h[i], cols[j]) = Column(schema, h[j], cols[j])
        BY <2>1, <3>2
      <4> HIDE DEF Good
      <4> QED BY <4>2, <4>3, <2>4
    <3> QED BY <3>1, <3>2
  <2> QED BY <2>1, <2>5, <2>6
<1>6. n \in Good
  <2> HIDE DEF Good
  <2> QED BY <1>4, <1>5, Induction
<1>7. \A d \in DOMAIN schema.columns :
         (\A j \in 1 .. n : cols[j] # d) => Column(schema, h[n], d) = Column(schema, row, d)
  BY <1>6
<1>8. ASSUME NEW i \in 1 .. n
      PROVE  /\ Column(schema, h[n], cols[i]) \in [1 .. schema.columns[cols[i]].size -> Byte]
             /\ \A j \in 1 .. Len(values[i]) : Column(schema, h[n], cols[i])[j] = values[i][j]
  <2>1. Column(schema, h[n], cols[i]) = Column(schema, h[i], cols[i])
    BY <1>6
  <2>2. h[i] = SetColumn(schema, h[i - 1], cols[i], values[i]) /\ h[i - 1] \in Row(schema)
    BY <1>3
  <2>3. cols[i] \in DOMAIN schema.columns /\ values[i] \in Seq(Byte)
        /\ Len(values[i]) <= schema.columns[cols[i]].size
    BY DEF Writable
  <2> HIDE DEF Good
  <2> QED BY <2>1, <2>2, <2>3, SetColumnPrefix
<1>9. h[n] \in Row(schema)
  OBVIOUS
<1> HIDE DEF Good
<1> QED BY <1>3, <1>7, <1>8, <1>9 DEF Written

(* No column of a list is written.                                         *)
NoneWritten(schema, n, cols, list) ==
    \A i \in DOMAIN list : /\ list[i] \in DOMAIN schema.columns
                           /\ \A j \in 1 .. n : cols[j] # list[i]

SameKey(schema, row, new, list) == KeySymbol(schema, new, list) = KeySymbol(schema, row, list)

(* A loop that writes no column of a list leaves the list's key alone.       *)
LEMMA KeyKept ==
  ASSUME NEW schema, NEW n \in Nat, NEW cols, NEW values, NEW row, NEW new, NEW list,
         Written(schema, n, cols, values, row, new),
         NoneWritten(schema, n, cols, list)
  PROVE  SameKey(schema, row, new, list)
<1>1. \A i \in DOMAIN list : Column(schema, new, list[i]) = Column(schema, row, list[i])
  BY DEF Written, NoneWritten
<1>2. [i \in DOMAIN list |-> Column(schema, new, list[i])]
          = [i \in DOMAIN list |-> Column(schema, row, list[i])]
  BY <1>1
<1> QED BY <1>2 DEF KeySymbol, SameKey

-----------------------------------------------------------------------------
(* The catalog.                                                            *)

(* Every schema of the catalog is laid out.                                 *)
LEMMA CatalogIs ==
  ASSUME NEW t \in DOMAIN Catalog
  PROVE  Catalog[t].schema \in Laid
<1>1. Catalog[t].schema.columns \in Seq(Info)
  BY StorageAssumption DEF StorageAssumption, Info
<1>2. Catalog[t].schema = SchemaOf(Catalog[t].schema.columns)
  BY StorageAssumption DEF StorageAssumption
<1> QED BY <1>1, <1>2, SchemasAreLaidOut

(* An update writes whole columns, none of them twice and none of a key.     *)
LEMMA ChangeIs ==
  ASSUME NEW t \in DOMAIN Catalog, NEW change \in Changes[t]
  PROVE  LET schema == Catalog[t].schema
             n      == Len(change.cols)
         IN  /\ n \in Nat /\ DOMAIN change.cols = 1 .. n
             /\ Writable(schema, n, change.cols, change.values)
             /\ \A i \in 1 .. n :
                   /\ Len(change.values[i]) = schema.columns[change.cols[i]].size
                   /\ \A j \in DOMAIN schema.primary_cols : schema.primary_cols[j] # change.cols[i]
<1> DEFINE schema == Catalog[t].schema
           n == Len(change.cols)
<1>1. schema \in Laid
  BY CatalogIs
<1>2. change.cols \in Seq(DOMAIN schema.columns)
  BY StorageAssumption DEF StorageAssumption
<1>3. n \in Nat /\ DOMAIN change.cols = 1 .. n /\ \A i \in 1 .. n : change.cols[i] \in DOMAIN schema.columns
  BY <1>2
<1>4. \A i \in DOMAIN change.cols :
         /\ change.values[i] \in Seq(Byte)
         /\ Len(change.values[i]) = schema.columns[change.cols[i]].size
         /\ ~schema.columns[change.cols[i]].is_primary
         /\ \A j \in DOMAIN change.cols : change.cols[i] = change.cols[j] => i = j
  BY StorageAssumption DEF StorageAssumption
<1> HIDE DEF schema, n
<1>5. \A c \in DOMAIN schema.columns : schema.columns[c].size <= schema.columns[c].size
  <2> TAKE c \in DOMAIN schema.columns
  <2>1. schema.columns[c].size \in Nat
    BY <1>1, ColumnWithinRow
  <2> QED BY <2>1
<1>6. Writable(schema, n, change.cols, change.values)
  BY <1>3, <1>4, <1>5 DEF Writable
<1>7. \A j \in DOMAIN schema.primary_cols : schema.columns[schema.primary_cols[j]].is_primary
  BY <1>1 DEF Laid, LaidOut
<1> QED BY <1>3, <1>4, <1>6, <1>7 DEF schema, n

(* A buffer holds what was offered.                                        *)
LEMMA BufferIs ==
  ASSUME NEW t \in DOMAIN Catalog, NEW values \in Offered[t], NEW filler \in Fillers
  PROVE  LET schema == Catalog[t].schema
             n      == Len(schema.columns)
         IN  /\ n \in Nat /\ DOMAIN schema.columns = 1 .. n
             /\ DOMAIN values = 1 .. n
             /\ \A c \in 1 .. n : values[c] \in Seq(Byte)
             /\ Written(schema, n, [c \in DOMAIN values |-> c], values,
                        [i \in 1 .. schema.size |-> filler], Buffer(schema, values, filler))
<1> DEFINE schema == Catalog[t].schema
           n == Len(schema.columns)
           cols == [c \in DOMAIN values |-> c]
           row == [i \in 1 .. schema.size |-> filler]
<1>1. schema \in Laid
  BY CatalogIs
<1>2. n \in Nat /\ DOMAIN schema.columns = 1 .. n
  BY <1>1 DEF Laid, SchemaType
<1>3. /\ DOMAIN values = DOMAIN schema.columns
      /\ \A c \in DOMAIN schema.columns : values[c] \in Seq(Byte) /\ Fits(schema, c, values[c])
  BY StorageAssumption DEF StorageAssumption
<1>4. filler \in Byte
  BY StorageAssumption DEF StorageAssumption
<1>5. row \in Row(schema)
  BY <1>4 DEF Row
<1>6. DOMAIN cols = 1 .. n /\ \A c \in 1 .. n : cols[c] = c
  BY <1>2, <1>3
<1>7. Buffer(schema, values, filler) = SetColumns(schema, row, cols, values)
  BY DEF Buffer
<1> HIDE DEF schema, n, cols, row
<1>8. \A c \in 1 .. n : Len(values[c]) <= schema.columns[c].size
  <2> TAKE c \in 1 .. n
  <2>1. schema.columns[c].size \in Nat /\ Fits(schema, c, values[c])
    BY <1>1, <1>2, <1>3, ColumnWithinRow
  <2> QED BY <2>1 DEF Fits
<1>9. Writable(schema, n, cols, values)
  BY <1>2, <1>3, <1>6, <1>8 DEF Writable
<1>10. Written(schema, n, cols, values, row, Buffer(schema, values, filler))
  BY <1>1, <1>2, <1>5, <1>7, <1>9, SetColumnsWrite
<1> QED BY <1>2, <1>3, <1>10 DEF schema, n, cols, row

-----------------------------------------------------------------------------
(* One table.                                                              *)

Fields == {"schema", "records", "next", "free", "occupied", "allocated", "primary", "secondary"}

(* A slot before next has a record or is in the free list, once, and next    *)
(* lies within the blocks or just behind them.                             *)
SpaceInv(table) ==
    /\ DOMAIN table = Fields
    /\ table.next \in Nat \ {0} /\ table.occupied \in Nat /\ table.allocated \in Nat
    /\ table.free \in Seq(Nat)
    /\ IsFiniteSet(DOMAIN table.records)
    /\ table.occupied = Cardinality(DOMAIN table.records)
    /\ \A a \in DOMAIN table.records : a \in 1 .. table.next - 1
    /\ \A i \in DOMAIN table.free : /\ table.free[i] \in 1 .. table.next - 1
                                    /\ table.free[i] \notin DOMAIN table.records
    /\ \A i, j \in DOMAIN table.free : table.free[i] = table.free[j] => i = j
    /\ table.next = table.occupied + Len(table.free) + 1
    /\ table.next <= table.allocated + 1

(* Records are as long as the schema says, and an entry of the primary       *)
(* index leads to the record with its key.                                 *)
EntryInv(table) ==
    /\ \A a \in DOMAIN table.records : table.records[a] \in Row(table.schema)
    /\ \A k \in DOMAIN table.primary :
          /\ table.primary[k] \in DOMAIN table.records
          /\ PrimaryKeySymbol(table.schema, table.records[table.primary[k]]) = k
    /\ table.schema.primary_cols = <<>> => DOMAIN table.primary = {}

(* What an insertion does to the slots.                                     *)
Placed(table, row, slot, new) ==
    /\ DOMAIN new = Fields
    /\ new.schema = table.schema
    /\ new.primary = table.primary /\ new.secondary = table.secondary
    /\ slot \in Nat \ {0} /\ slot \notin DOMAIN table.records
    /\ DOMAIN new.records = DOMAIN table.records \cup {slot}
    /\ new.records[slot] = row
    /\ \A a \in DOMAIN table.records : new.records[a] = table.records[a]
    /\ new.allocated \in Nat /\ new.allocated >= table.allocated

(* The front of the free list is a slot of its own.                         *)
LEMMA FreeListHead ==
  ASSUME NEW free \in Seq(Nat), free # <<>>,
         \A i, j \in DOMAIN free : free[i] = free[j] => i = j
  PROVE  /\ Head(free) = free[1] /\ 1 \in DOMAIN free
         /\ Tail(free) \in Seq(Nat) /\ Len(Tail(free)) = Len(free) - 1 /\ Len(free) \in Nat
         /\ \A i \in DOMAIN Tail(free) : /\ i + 1 \in DOMAIN free
                                         /\ Tail(free)[i] = free[i + 1]
                                         /\ Tail(free)[i] # free[1]
         /\ \A i, j \in DOMAIN Tail(free) : Tail(free)[i] = Tail(free)[j] => i = j
<1>1. /\ Len(free) \in Nat \ {0} /\ DOMAIN free = 1 .. Len(free)
      /\ Head(free) = free[1] /\ Tail(free) \in Seq(Nat) /\ Len(Tail(free)) = Len(free) - 1
  OBVIOUS
<1>2. DOMAIN Tail(free) = 1 .. Len(free) - 1 /\ \A i \in 1 .. Len(free) - 1 : Tail(free)[i] = free[i + 1]
  OBVIOUS
<1>3. 1 \in DOMAIN free /\ \A i \in DOMAIN Tail(free) : i + 1 \in DOMAIN free /\ i + 1 # 1
  BY <1>1, <1>2
<1>4. \A i, j \in DOMAIN Tail(free) : i + 1 = j + 1 => i = j
  BY <1>1, <1>2
<1> QED BY <1>1, <1>2, <1>3, <1>4

(* insertRecord of BaseTable.                                              *)
LEMMA PlaceKeepsSpace ==
  ASSUME NEW table, SpaceInv(table), NEW row
  PROVE  /\ SpaceInv(Place(table, row)[2])
         /\ Placed(table, row, Place(table, row)[1], Place(table, row)[2])
<1> DEFINE full == table.allocated = table.occupied
           reused == ~full /\ table.free # <<>>
           slot == IF reused THEN Head(table.free) ELSE table.next
           new == [table EXCEPT !.allocated = IF full THEN @ + PerBlock ELSE @,
                                !.free      = IF reused THEN Tail(@) ELSE @,
                                !.next      = IF reused THEN @ ELSE @ + 1,
                                !.occupied  = @ + 1,
                                !.records   = [a \in DOMAIN @ \cup {slot} |->
                                                  IF a = slot THEN row ELSE @[a]]]
           records == [a \in DOMAIN table.records \cup {slot} |->
                          IF a = slot THEN row ELSE table.records[a]]
           free == IF reused THEN Tail(table.free) ELSE table.free
           next == IF reused THEN table.next ELSE table.next + 1
           allocated == IF full THEN table.allocated + PerBlock ELSE table.allocated
<1>1. Place(table, row) = <<slot, new>>
  BY DEF Place
<1>2. DOMAIN table = Fields
  BY DEF SpaceInv
<1>3. /\ DOMAIN new = Fields /\ new.schema = table.schema
      /\ new.primary = table.primary /\ new.secondary = table.secondary
      /\ new.records = records /\ new.free = free /\ new.next = next
      /\ new.allocated = allocated /\ new.occupied = table.occupied + 1
  BY <1>2 DEF Fields
<1> HIDE DEF new
<1>4. /\ table.next \in Nat \ {0} /\ table.occupied \in Nat /\ table.allocated \in Nat
      /\ table.free \in Seq(Nat) /\ Len(table.free) \in Nat
      /\ table.next = table.occupied + Len(table.free) + 1
      /\ table.next <= table.allocated + 1
  BY DEF SpaceInv
<1>5. PerBlock \in Nat \ {0}
  BY StorageAssumption DEF StorageAssumption
<1>6. \A i, j \in DOMAIN table.free : table.free[i] = table.free[j] => i = j
  BY DEF SpaceInv
<1>7. \A i \in DOMAIN table.free : /\ table.free[i] \in 1 .. table.next - 1
                                   /\ table.free[i] \notin DOMAIN table.records
  BY DEF SpaceInv
<1>8. \A a \in DOMAIN table.records : a \in 1 .. table.next - 1
  BY DEF SpaceInv
<1>9. ~reused => Len(table.free) = 0 /\ table.free = <<>>
  BY <1>4
<1>10. /\ free \in Seq(Nat)
       /\ next \in Nat \ {0} /\ allocated \in Nat /\ allocated >= table.allocated
       /\ next = (table.occupied + 1) + Len(free) + 1
       /\ next <= allocated + 1
       /\ slot \in 1 .. next - 1 /\ next >= table.next
       /\ slot \notin DOMAIN table.records
       /\ \A i \in DOMAIN free : free[i] \in 1 .. next - 1 /\ free[i] \notin DOMAIN table.records
                                 /\ free[i] # slot
       /\ \A i, j \in DOMAIN free : free[i] = free[j] => i = j
  <2>1. CASE reused
    <3>1. slot = Head(table.free) /\ free = Tail(table.free) /\ next = table.next
          /\ allocated = table.allocated /\ table.free # <<>>
      BY <2>1
    <3>2. /\ slot = table.free[1] /\ 1 \in DOMAIN table.free
          /\ free \in Seq(Nat) /\ Len(free) = Len(table.free) - 1
          /\ \A i \in DOMAIN free : i + 1 \in DOMAIN table.free /\ free[i] = table.free[i + 1]
                                    /\ free[i] # slot
          /\ \A i, j \in DOMAIN free : free[i] = free[j] => i = j
      BY <1>4, <1>6, <3>1, FreeListHead
    <3> HIDE DEF reused, slot, free, next, allocated
    <3>3. \A i \in DOMAIN free : free[i] \in 1 .. next - 1 /\ free[i] \notin DOMAIN table.records
      BY <1>7, <3>1, <3>2
    <3>4. slot \in 1 .. next - 1 /\ slot \notin DOMAIN table.records
      BY <1>7, <3>1, <3>2
    <3>5. next = (table.occupied + 1) + Len(free) + 1
      <4>1. next = table.next /\ Len(free) = Len(table.free) - 1
        BY <3>1, <3>2
      <4>2. table.next = table.occupied + Len(table.free) + 1 /\ table.occupied \in Nat
            /\ Len(table.free) \in Nat
        BY <1>4
      <4> QED BY <4>1, <4>2
    <3>6. /\ next \in Nat \ {0} /\ allocated \in Nat /\ allocated >= table.allocated
          /\ next <= allocated + 1 /\ next >= table.next
      <4>1. next = table.next /\ allocated = table.allocated
        BY <3>1
      <4>2. table.next \in Nat \ {0} /\ table.allocated \in Nat /\ table.next <= table.allocated + 1
        BY <1>4
      <4> QED BY <4>1, <4>2
    <3>7. /\ free \in Seq(Nat)
          /\ \A i \in DOMAIN free : free[i] # slot
          /\ \A i, j \in DOMAIN free : free[i] = free[j] => i = j
      BY <3>2
    <3> QED BY <3>3, <3>4, <3>5, <3>6, <3>7
  <2>2. CASE ~reused
    <3>1. /\ slot = table.next /\ free = <<>> /\ next = table.next + 1 /\ Len(free) = 0
          /\ Len(table.free) = 0
      BY <2>2, <1>9
    <3>2. allocated \in Nat /\ allocated >= table.allocated /\ table.next + 1 <= allocated + 1
      <4>1. CASE full
        BY <4>1, <3>1, <1>4, <1>5
      <4>2. CASE ~full
        BY <4>2, <3>1, <1>4
      <4> QED BY <4>1, <4>2
    <3> HIDE DEF reused, slot, free, next, allocated, full
    <3>3. slot \notin DOMAIN table.records
      BY <1>4, <1>8, <3>1
    <3>4. free \in Seq(Nat) /\ DOMAIN free = {}
      BY <3>1
    <3> QED BY <1>4, <3>1, <3>2, <3>3, <3>4
  <2> QED BY <2>1, <2>2
<1> HIDE DEF slot, free, next, allocated
<1>11. /\ DOMAIN records = DOMAIN table.records \cup {slot} /\ records[slot] = row
       /\ \A a \in DOMAIN table.records : records[a] = table.records[a]
  BY <1>10
<1> HIDE DEF records
<1>12. /\ IsFiniteSet(DOMAIN records)
       /\ table.occupied + 1 = Cardinality(DOMAIN records)
  <2>1. IsFiniteSet(DOMAIN table.records) /\ table.occupied = Cardinality(DOMAIN table.records)
    BY DEF SpaceInv
  <2>2. /\ IsFiniteSet(DOMAIN table.records \cup {slot})
        /\ Cardinality(DOMAIN table.records \cup {slot}) = Cardinality(DOMAIN table.records) + 1
    BY <2>1, <1>10, FS_AddElement
  <2> QED BY <2>1, <2>2, <1>11
<1>13. \A a \in DOMAIN records : a \in 1 .. next - 1
  <2>1. \A a \in 1 .. table.next - 1 : a \in 1 .. next - 1
    BY <1>4, <1>10
  <2> QED BY <2>1, <1>8, <1>10, <1>11
<1>14. \A i \in DOMAIN free : free[i] \in 1 .. next - 1 /\ free[i] \notin DOMAIN records
  BY <1>10, <1>11
<1>15. SpaceInv(new)
  BY <1>3, <1>4, <1>10, <1>12, <1>13, <1>14, SMTT(40) DEF SpaceInv
<1>16. Placed(table, row, slot, new)
  BY <1>3, <1>10, <1>11 DEF Placed
<1> QED BY <1>1, <1>15, <1>16

(* deleteRecord of BaseTable.                                              *)
Released(table, a, new) ==
    /\ DOMAIN new = Fields
    /\ new.schema = table.schema
    /\ new.primary = table.primary /\ new.secondary = table.secondary
    /\ DOMAIN new.records = DOMAIN table.records \ {a}
    /\ \A b \in DOMAIN new.records : new.records[b] = table.records[b]
    /\ new.allocated = table.allocated

(* Releasing a slot keeps the accounts, and takes its record away.          *)
LEMMA ReleaseKeepsSpace ==
  ASSUME NEW table, SpaceInv(table), NEW a \in DOMAIN table.records
  PROVE  SpaceInv(Release(table, a)) /\ Released(table, a, Release(table, a))
<1> DEFINE new == Release(table, a)
           records == [b \in DOMAIN table.records \ {a} |-> table.records[b]]
           free == Append(table.free, a)
<1>1. DOMAIN table = Fields
  BY DEF SpaceInv
<1>2. /\ DOMAIN new = Fields /\ new.schema = table.schema
      /\ new.primary = table.primary /\ new.secondary = table.secondary
      /\ new.records = records /\ new.free = free /\ new.next = table.next
      /\ new.allocated = table.allocated /\ new.occupied = table.occupied - 1
  BY <1>1 DEF Fields, Release
<1> HIDE DEF new
<1>3. /\ DOMAIN records = DOMAIN table.records \ {a}
      /\ \A b \in DOMAIN records : records[b] = table.records[b]
  OBVIOUS
<1> HIDE DEF records
<1>4. /\ table.next \in Nat \ {0} /\ table.occupied \in Nat /\ table.allocated \in Nat
      /\ table.free \in Seq(Nat) /\ Len(table.free) \in Nat
      /\ table.next = table.occupied + Len(table.free) + 1
      /\ table.next <= table.allocated + 1
      /\ a \in 1 .. table.next - 1
  BY DEF SpaceInv
<1>5. /\ free \in Seq(Nat) /\ Len(free) = Len(table.free) + 1
      /\ DOMAIN free = 1 .. Len(table.free) + 1 /\ DOMAIN table.free = 1 .. Len(table.free)
      /\ \A i \in 1 .. Len(table.free) : free[i] = table.free[i]
      /\ free[Len(table.free) + 1] = a
  BY <1>4
<1> HIDE DEF free
<1>6. \A i \in DOMAIN table.free : /\ table.free[i] \in 1 .. table.next - 1
                                   /\ table.free[i] \notin DOMAIN table.records
  BY DEF SpaceInv
<1>7. \A i \in DOMAIN free : free[i] \in 1 .. table.next - 1 /\ free[i] \notin DOMAIN records
  <2> TAKE i \in DOMAIN free
  <2>1. i = Len(table.free) + 1 \/ i \in 1 .. Len(table.free)
    BY <1>4, <1>5
  <2> QED BY <2>1, <1>3, <1>4, <1>5, <1>6
<1>8. \A i, j \in DOMAIN free : free[i] = free[j] => i = j
  <2> SUFFICES ASSUME NEW i \in DOMAIN free, NEW j \in DOMAIN free, free[i] = free[j] PROVE i = j
    OBVIOUS
  <2>1. /\ i = Len(table.free) + 1 \/ i \in 1 .. Len(table.free)
        /\ j = Len(table.free) + 1 \/ j \in 1 .. Len(table.free)
    <3>1. Len(table.free) \in Nat /\ DOMAIN free = 1 .. Len(table.free) + 1
      BY <1>4, <1>5
    <3> QED BY <3>1
  <2>2. \A k \in 1 .. Len(table.free) : free[k] # a
    BY <1>5, <1>6
  <2>3. \A k, l \in DOMAIN table.free : table.free[k] = table.free[l] => k = l
    BY DEF SpaceInv
  <2> QED BY <2>1, <2>2, <2>3, <1>5
<1>9. IsFiniteSet(DOMAIN records) /\ table.occupied - 1 = Cardinality(DOMAIN records)
      /\ table.occupied - 1 \in Nat
  <2>1. IsFiniteSet(DOMAIN table.records) /\ table.occupied = Cardinality(DOMAIN table.records)
    BY DEF SpaceInv
  <2>2. /\ IsFiniteSet(DOMAIN table.records \ {a})
        /\ Cardinality(DOMAIN table.records \ {a}) = Cardinality(DOMAIN table.records) - 1
    BY <2>1, FS_RemoveElement
  <2>3. Cardinality(DOMAIN table.records \ {a}) \in Nat
    BY <2>2, FS_CardinalityType
  <2> QED BY <2>1, <2>2, <2>3, <1>3
<1>10. \A b \in DOMAIN records : b \in 1 .. table.next - 1
  BY <1>3 DEF SpaceInv
<1>11. table.next = (table.occupied - 1) + Len(free) + 1
  <2>1. Len(free) = Len(table.free) + 1
    BY <1>5
  <2>2. table.next = table.occupied + Len(table.free) + 1 /\ table.occupied \in Nat
        /\ Len(table.free) \in Nat
    BY <1>4
  <2> QED BY <2>1, <2>2
<1>12. SpaceInv(new)
  BY <1>2, <1>4, <1>5, <1>7, <1>8, <1>9, <1>10, <1>11 DEF SpaceInv
<1>13. Released(table, a, new)
  BY <1>2, <1>3 DEF Released
<1> QED BY <1>12, <1>13 DEF new

(* The indexes take no part in the accounts.                                *)
SameSpace(table, new) ==
    /\ DOMAIN new = Fields
    /\ new.schema = table.schema /\ new.records = table.records
    /\ new.next = table.next /\ new.free = table.free
    /\ new.occupied = table.occupied /\ new.allocated = table.allocated

(* What leaves the counters and the records alone keeps the accounts.       *)
LEMMA SpaceSame ==
  ASSUME NEW table, NEW new, SpaceInv(table), SameSpace(table, new)
  PROVE  SpaceInv(new)
<1>1. /\ DOMAIN new = Fields /\ new.records = table.records
      /\ new.next = table.next /\ new.free = table.free
      /\ new.occupied = table.occupied /\ new.allocated = table.allocated
  BY DEF SameSpace
<1> QED BY <1>1 DEF SpaceInv

TableInv(table) == SpaceInv(table) /\ EntryInv(table)

(* What an insertion does to a table.                                       *)
Inserted(table, row, slot, new) ==
    /\ DOMAIN new = Fields
    /\ new.schema = table.schema
    /\ slot \in Nat \ {0} /\ slot \notin DOMAIN table.records
    /\ DOMAIN new.records = DOMAIN table.records \cup {slot}
    /\ new.records[slot] = row
    /\ \A a \in DOMAIN table.records : new.records[a] = table.records[a]
    /\ new.allocated \in Nat /\ new.allocated >= table.allocated

(* insertRecord of a row whose key is not in the table puts it into a slot  *)
(* that was free, and keeps accounts and entries.                           *)
LEMMA InsertRecordKeeps ==
  ASSUME NEW table, TableInv(table), NEW row \in Row(table.schema),
         PrimaryKeySymbol(table.schema, row) \notin DOMAIN table.primary
  PROVE  /\ TableInv(InsertRecord(table, row))
         /\ Inserted(table, row, Place(table, row)[1], InsertRecord(table, row))
<1> DEFINE mid == Place(table, row)[2]
           slot == Place(table, row)[1]
           key == PrimaryKeySymbol(table.schema, row)
           primary == IF table.schema.primary_cols = <<>> THEN mid.primary
                      ELSE UniqueInsert(mid.primary, key, slot)
           new == InsertRecord(table, row)
<1>1. SpaceInv(table) /\ EntryInv(table)
  BY DEF TableInv
<1>2. SpaceInv(mid) /\ Placed(table, row, slot, mid)
  BY <1>1, PlaceKeepsSpace
<1>3. DOMAIN mid = Fields
  BY <1>2 DEF Placed
<1>4. SameSpace(mid, new) /\ new.primary = primary
  <2>1. new = [mid EXCEPT
                  !.primary = IF table.schema.primary_cols = <<>> THEN @ ELSE UniqueInsert(@, key, slot),
                  !.secondary = [cols \in DOMAIN @ |->
                      MultiInsert(@[cols], KeySymbols(table.schema, row, Indexes(table))[cols], slot)]]
    BY DEF InsertRecord
  <2> HIDE DEF new, mid, key, slot
  <2> QED BY <2>1, <1>3 DEF SameSpace, Fields
<1> HIDE DEF mid, slot, new, key
<1>5. SpaceInv(new)
  BY <1>2, <1>4, SpaceSame
<1>6. Inserted(table, row, slot, new)
  BY <1>2, <1>4 DEF Placed, Inserted, SameSpace
<1>7. mid.primary = table.primary
  BY <1>2 DEF Placed
<1>8. new.schema = table.schema /\ slot \notin DOMAIN table.records
      /\ DOMAIN new.records = DOMAIN table.records \cup {slot} /\ new.records[slot] = row
      /\ \A a \in DOMAIN table.records : new.records[a] = table.records[a]
  BY <1>6 DEF Inserted
<1>9. \A a \in DOMAIN new.records : new.records[a] \in Row(new.schema)
  BY <1>1, <1>8 DEF EntryInv
<1>10. ASSUME NEW k \in DOMAIN new.primary
       PROVE  /\ new.primary[k] \in DOMAIN new.records
              /\ PrimaryKeySymbol(new.schema, new.records[new.primary[k]]) = k
  <2>1. CASE k \in DOMAIN table.primary /\ new.primary[k] = table.primary[k]
    <3>1. /\ table.primary[k] \in DOMAIN table.records
          /\ PrimaryKeySymbol(table.schema, table.records[table.primary[k]]) = k
      BY <2>1, <1>1 DEF EntryInv
    <3> QED BY <2>1, <3>1, <1>8
  <2>2. CASE k = key /\ new.primary[k] = slot
    BY <2>2, <1>8 DEF key
  <2>3. \/ k \in DOMAIN table.primary /\ new.primary[k] = table.primary[k]
        \/ k = key /\ new.primary[k] = slot
    <3>1. CASE table.schema.primary_cols = <<>>
      BY <3>1, <1>4, <1>7, <1>10
    <3>2. CASE table.schema.primary_cols # <<>>
      <4>1. new.primary = UniqueInsert(table.primary, key, slot)
        BY <3>2, <1>4, <1>7
      <4>2. key \notin DOMAIN table.primary
        BY DEF key
      <4> QED BY <4>1, <4>2, <1>10 DEF UniqueInsert
    <3> QED BY <3>1, <3>2
  <2> QED BY <2>1, <2>2, <2>3
<1>11. new.schema.primary_cols = <<>> => DOMAIN new.primary = {}
  <2> SUFFICES ASSUME table.schema.primary_cols = <<>> PROVE DOMAIN new.primary = {}
    BY <1>8
  <2>1. new.primary = table.primary
    BY <1>4, <1>7
  <2> QED BY <2>1, <1>1 DEF EntryInv
<1>12. EntryInv(new)
  BY <1>9, <1>10, <1>11 DEF EntryInv
<1> QED BY <1>5, <1>6, <1>12 DEF TableInv, new, slot

(* What a deletion does to a table.                                         *)
Deleted(table, a, new) ==
    /\ DOMAIN new = Fields
    /\ new.schema = table.schema
    /\ DOMAIN new.records = DOMAIN table.records \ {a}
    /\ \A b \in DOMAIN new.records : new.records[b] = table.records[b]
    /\ new.allocated = table.allocated

(* deleteRecord takes one record away, and keeps accounts and entries.      *)
LEMMA DeleteRecordKeeps ==
  ASSUME NEW table, TableInv(table), NEW a \in DOMAIN table.records
  PROVE  TableInv(DeleteRecord(table, a)) /\ Deleted(table, a, DeleteRecord(table, a))
<1> DEFINE mid == Release(table, a)
           row == table.records[a]
           key == PrimaryKeySymbol(table.schema, row)
           primary == IF table.schema.primary_cols = <<>> THEN mid.primary
                      ELSE UniqueErase(mid.primary, key)
           new == DeleteRecord(table, a)
<1>1. SpaceInv(table) /\ EntryInv(table)
  BY DEF TableInv
<1>2. SpaceInv(mid) /\ Released(table, a, mid)
  BY <1>1, ReleaseKeepsSpace
<1>3. DOMAIN mid = Fields
  BY <1>2 DEF Released
<1>4. SameSpace(mid, new) /\ new.primary = primary
  <2>1. new = [mid EXCEPT
                  !.primary = IF table.schema.primary_cols = <<>> THEN @ ELSE UniqueErase(@, key),
                  !.secondary = [cols \in DOMAIN @ |->
                      MultiErase(@[cols], KeySymbols(table.schema, row, Indexes(table))[cols])]]
    BY DEF DeleteRecord
  <2> HIDE DEF new, mid, key, row
  <2> QED BY <2>1, <1>3 DEF SameSpace, Fields
<1> HIDE DEF mid, new, key
<1>5. SpaceInv(new)
  BY <1>2, <1>4, SpaceSame
<1>6. Deleted(table, a, new)
  BY <1>2, <1>4 DEF Released, Deleted, SameSpace
<1>7. mid.primary = table.primary
  BY <1>2 DEF Released
<1>8. /\ new.schema = table.schema
      /\ DOMAIN new.records = DOMAIN table.records \ {a}
      /\ \A b \in DOMAIN new.records : new.records[b] = table.records[b]
  BY <1>6 DEF Deleted
<1>9. \A b \in DOMAIN new.records : new.records[b] \in Row(new.schema)
  BY <1>1, <1>8 DEF EntryInv
<1>10. new.schema.primary_cols = <<>> => DOMAIN new.primary = {}
  <2> SUFFICES ASSUME table.schema.primary_cols = <<>> PROVE DOMAIN new.primary = {}
    BY <1>8
  <2>1. new.primary = table.primary
    BY <1>4, <1>7
  <2> QED BY <2>1, <1>1 DEF EntryInv
<1>11. ASSUME NEW k \in DOMAIN new.primary
       PROVE  /\ new.primary[k] \in DOMAIN new.records
              /\ PrimaryKeySymbol(new.schema, new.records[new.primary[k]]) = k
  <2>1. table.schema.primary_cols # <<>>
    BY <1>8, <1>10, <1>11
  <2>2. new.primary = UniqueErase(table.primary, key)
    BY <2>1, <1>4, <1>7
  <2>3. k \in DOMAIN table.primary /\ k # key /\ new.primary[k] = table.primary[k]
    BY <2>2, <1>11 DEF UniqueErase
  <2>4. /\ table.primary[k] \in DOMAIN table.records
        /\ PrimaryKeySymbol(table.schema, table.records[table.primary[k]]) = k
    BY <2>3, <1>1 DEF EntryInv
  <2>5. table.primary[k] # a
    BY <2>3, <2>4 DEF key
  <2> QED BY <2>3, <2>4, <2>5, <1>8
<1>12. EntryInv(new)
  BY <1>9, <1>10, <1>11 DEF EntryInv
<1> QED BY <1>5, <1>6, <1>12 DEF TableInv, new

(* What an update does to a table.                                          *)
Updated(table, a, change, new) ==
    /\ DOMAIN new = Fields
    /\ new.schema = table.schema
    /\ DOMAIN new.records = DOMAIN table.records
    /\ \A b \in DOMAIN table.records : b # a => new.records[b] = table.records[b]
    /\ Written(table.schema, Len(change.cols), change.cols, change.values,
               table.records[a], new.records[a])
    /\ new.allocated = table.allocated

(* updateRecord writes its columns into one row: no key changes, so the     *)
(* entries still lead to their records.                                     *)
LEMMA UpdateRecordKeeps ==
  ASSUME NEW t \in DOMAIN Catalog, NEW table, TableInv(table), table.schema = Catalog[t].schema,
         NEW a \in DOMAIN table.records, NEW change \in Changes[t]
  PROVE  TableInv(UpdateRecord(table, a, change)) /\ Updated(table, a, change, UpdateRecord(table, a, change))
<1> DEFINE new == UpdateRecord(table, a, change)
           row == SetColumns(table.schema, table.records[a], change.cols, change.values)
           records == [table.records EXCEPT ![a] = row]
           n == Len(change.cols)
<1>1. SpaceInv(table) /\ EntryInv(table) /\ DOMAIN table = Fields
  BY DEF TableInv, SpaceInv
<1>2. new = [table EXCEPT !.records = records]
  BY DEF UpdateRecord
<1> HIDE DEF new
<1>3. /\ DOMAIN new = Fields /\ new.schema = table.schema /\ new.primary = table.primary
      /\ new.records = records /\ new.free = table.free /\ new.next = table.next
      /\ new.allocated = table.allocated /\ new.occupied = table.occupied
  BY <1>1, <1>2 DEF Fields
<1>4. /\ DOMAIN records = DOMAIN table.records /\ records[a] = row
      /\ \A b \in DOMAIN table.records : b # a => records[b] = table.records[b]
  OBVIOUS
<1> HIDE DEF records
<1>5. table.schema \in Laid
  BY CatalogIs
<1>6. /\ n \in Nat /\ Writable(table.schema, n, change.cols, change.values)
      /\ \A i \in 1 .. n : \A j \in DOMAIN table.schema.primary_cols :
            table.schema.primary_cols[j] # change.cols[i]
  <2> DEFINE schema == Catalog[t].schema
  <2>1. /\ n \in Nat /\ Writable(schema, n, change.cols, change.values)
        /\ \A i \in 1 .. n : \A j \in DOMAIN schema.primary_cols :
              schema.primary_cols[j] # change.cols[i]
    BY ChangeIs
  <2>2. table.schema = schema
    OBVIOUS
  <2> HIDE DEF n, schema
  <2> QED BY <2>1, <2>2
<1> HIDE DEF n
<1>7. table.records[a] \in Row(table.schema)
  BY <1>1 DEF EntryInv
<1>8. Written(table.schema, n, change.cols, change.values, table.records[a], row)
  BY <1>5, <1>6, <1>7, SetColumnsWrite
<1> HIDE DEF row
<1>9. row \in Row(table.schema)
  BY <1>8 DEF Written
<1>10. SpaceInv(new)
  <2>1. DOMAIN new.records = DOMAIN table.records
    BY <1>3, <1>4
  <2> QED BY <1>1, <1>3, <2>1 DEF SpaceInv
<1>11. table.schema.primary_cols # <<>> =>
          PrimaryKeySymbol(table.schema, row) = PrimaryKeySymbol(table.schema, table.records[a])
  <2> SUFFICES ASSUME table.schema.primary_cols # <<>>
               PROVE  PrimaryKeySymbol(table.schema, row) = PrimaryKeySymbol(table.schema, table.records[a])
    OBVIOUS
  <2>1. LaidOut(table.schema)
    BY <1>5 DEF Laid
  <2>2. table.schema.key_length # 0
    BY <2>1 DEF LaidOut
  <2>3. \A i \in DOMAIN table.schema.primary_cols :
           /\ table.schema.primary_cols[i] \in DOMAIN table.schema.columns
           /\ \A j \in 1 .. n : change.cols[j] # table.schema.primary_cols[i]
    BY <2>1, <1>6 DEF LaidOut
  <2>4. KeySymbol(table.schema, row, table.schema.primary_cols)
            = KeySymbol(table.schema, table.records[a], table.schema.primary_cols)
    <3>1. NoneWritten(table.schema, n, change.cols, table.schema.primary_cols)
      BY <2>3 DEF NoneWritten
    <3>2. n \in Nat
      BY <1>6
    <3>3. Written(table.schema, n, change.cols, change.values, table.records[a], row)
      BY <1>8
    <3> DEFINE schema == table.schema
               list == table.schema.primary_cols
               old == table.records[a]
    <3> HIDE DEF schema, list, old
    <3>4. KeySymbol(schema, row, list) = KeySymbol(schema, old, list)
      <4>1. Written(schema, n, change.cols, change.values, old, row)
            /\ NoneWritten(schema, n, change.cols, list)
        BY <3>1, <3>3 DEF schema, list, old
      <4>2. SameKey(schema, old, row, list)
        BY <4>1, <3>2, KeyKept, Zenon
      <4> QED BY <4>2 DEF SameKey
    <3> QED BY <3>4 DEF schema, list, old
  <2> QED BY <2>2, <2>4 DEF PrimaryKeySymbol
<1>12. EntryInv(new)
  <2>1. \A b \in DOMAIN new.records : new.records[b] \in Row(new.schema)
    BY <1>1, <1>3, <1>4, <1>9 DEF EntryInv
  <2>2. table.schema.primary_cols = <<>> => DOMAIN new.primary = {}
    BY <1>1, <1>3 DEF EntryInv
  <2>3. ASSUME NEW k \in DOMAIN new.primary
        PROVE  /\ new.primary[k] \in DOMAIN new.records
               /\ PrimaryKeySymbol(new.schema, new.records[new.primary[k]]) = k
    <3>1. table.schema.primary_cols # <<>> /\ k \in DOMAIN table.primary
      BY <2>2, <2>3, <1>3
    <3>2. /\ table.primary[k] \in DOMAIN table.records
          /\ PrimaryKeySymbol(table.schema, table.records[table.primary[k]]) = k
      BY <3>1, <1>1 DEF EntryInv
    <3>3. CASE table.primary[k] = a
      BY <3>1, <3>2, <3>3, <1>3, <1>4, <1>11
    <3>4. CASE table.primary[k] # a
      BY <3>2, <3>4, <1>3, <1>4
    <3> QED BY <3>3, <3>4
  <2> QED BY <2>1, <2>2, <2>3, <1>3 DEF EntryInv
<1>13. Updated(table, a, change, new)
  BY <1>3, <1>4, <1>8 DEF Updated, n
<1> QED BY <1>10, <1>12, <1>13 DEF TableInv, new

(* Where an iterator goes from m_ptr on.                                    *)
LEMMA SeekIs ==
  ASSUME NEW table, SpaceInv(table), NEW m_ptr \in Nat
  PROVE  LET a == Seek(table, m_ptr)
         IN  /\ HasNext(table, m_ptr) =>
                   /\ a \in DOMAIN table.records /\ a \in Nat \ {0}
                   /\ a >= m_ptr /\ a + 1 <= table.allocated + 1
                   /\ \A b \in DOMAIN table.records : b >= m_ptr => b = a \/ b >= a + 1
             /\ ~HasNext(table, m_ptr) => \A b \in DOMAIN table.records : ~(b >= m_ptr)
<1> DEFINE S == {b \in DOMAIN table.records : b >= m_ptr} \cup {End(table)}
           a == Min(S)
<1>1. table.allocated \in Nat /\ table.next \in Nat /\ table.next <= table.allocated + 1
  BY DEF SpaceInv
<1>2. \A b \in DOMAIN table.records : b \in Nat \ {0} /\ b <= table.allocated
  <2> TAKE b \in DOMAIN table.records
  <2>1. b \in 1 .. table.next - 1
    BY DEF SpaceInv
  <2> QED BY <2>1, <1>1
<1>3. End(table) = table.allocated + 1
  BY DEF End
<1>4. S \in SUBSET Nat /\ S # {}
  BY <1>1, <1>2, <1>3
<1>5. a \in S /\ \A x \in S : a <= x
  BY <1>4, LeastElement, Zenon
<1>6. Seek(table, m_ptr) = a /\ (HasNext(table, m_ptr) <=> a # End(table))
  BY DEF Seek, HasNext
<1> HIDE DEF a
<1>7. a # End(table) => a \in DOMAIN table.records /\ a >= m_ptr
  BY <1>5
<1>8. \A b \in DOMAIN table.records : b >= m_ptr => b \in Nat /\ a <= b
  BY <1>2, <1>5
<1>9. CASE a # End(table)
  <2>1. a \in DOMAIN table.records /\ a \in Nat \ {0} /\ a <= table.allocated /\ a >= m_ptr
    BY <1>2, <1>7, <1>9
  <2>2. \A b \in DOMAIN table.records : b >= m_ptr => b = a \/ b >= a + 1
    BY <1>8, <2>1
  <2> QED BY <1>1, <1>6, <1>9, <2>1, <2>2
<1>10. CASE a = End(table)
  <2>1. \A b \in DOMAIN table.records : ~(b >= m_ptr)
    BY <1>1, <1>2, <1>3, <1>8, <1>10
  <2> QED BY <1>6, <1>10, <2>1
<1> QED BY <1>9, <1>10

-----------------------------------------------------------------------------
(* The invariant.                                                          *)

CatalogInv == \A t \in DOMAIN tables : /\ t \in DOMAIN Catalog
                                       /\ tables[t].schema = Catalog[t].schema
                                       /\ TableInv(tables[t])

ScanFields == {"table", "m_ptr", "more", "gone", "due"}

(* What a scan has still to return lies ahead of it, and the record hasNext  *)
(* has found is where the iterator stands, unless it has been deleted.       *)
ScanOf(s, table) == /\ DOMAIN s = ScanFields
                    /\ s.m_ptr \in Nat \ {0}
                    /\ s.m_ptr <= table.allocated + 1
                    /\ \A a \in s.due : a \in DOMAIN table.records /\ a >= s.m_ptr
                    /\ s.more \in BOOLEAN /\ s.gone \in BOOLEAN
                    /\ s.more /\ ~s.gone => s.m_ptr \in DOMAIN table.records

ScanInv == scan # NoScan => scan.table \in DOMAIN tables /\ ScanOf(scan, tables[scan.table])

StorageInv == CatalogInv /\ ScanInv

(* A scan is told from no scan.                                             *)
LEMMA NotNoScan ==
  ASSUME NEW s, DOMAIN s = ScanFields
  PROVE  s # NoScan
<1>1. DOMAIN NoScan = {"table"}
  BY DEF NoScan
<1> QED BY <1>1 DEF ScanFields

(* There is no table before the first registration.                         *)
LEMMA StorageInitInv == Init => StorageInv
BY DEF Init, StorageInv, CatalogInv, ScanInv

(* A table starts empty, and no scan is under way in one that is replaced.  *)
LEMMA RegisterTableInv ==
  ASSUME StorageInv, NEW t \in DOMAIN Catalog, RegisterTable(t)
  PROVE  StorageInv'
<1> DEFINE new == NewTable(Catalog[t].schema, Catalog[t].indexes)
<1>1. /\ DOMAIN tables' = DOMAIN tables \cup {t} /\ tables'[t] = new
      /\ \A u \in DOMAIN tables : u # t => tables'[u] = tables[u]
      /\ scan' = scan /\ (scan # NoScan => scan.table # t)
  BY DEF RegisterTable
<1>2. /\ new.schema = Catalog[t].schema /\ DOMAIN new = Fields /\ new.records = <<>> /\ new.next = 1
      /\ new.free = <<>> /\ new.occupied = 0 /\ new.allocated = 0 /\ new.primary = <<>>
  BY DEF NewTable, Fields
<1> HIDE DEF new
<1>3. DOMAIN new.records = {} /\ DOMAIN new.primary = {} /\ DOMAIN new.free = {} /\ Len(new.free) = 0
      /\ new.free \in Seq(Nat)
  BY <1>2
<1>4. SpaceInv(new)
  <2>1. IsFiniteSet(DOMAIN new.records) /\ new.occupied = Cardinality(DOMAIN new.records)
    BY <1>2, <1>3, FS_EmptySet
  <2> QED BY <2>1, <1>2, <1>3 DEF SpaceInv
<1>5. EntryInv(new)
  BY <1>3 DEF EntryInv
<1>6. CatalogInv'
  <2> SUFFICES ASSUME NEW u \in DOMAIN tables'
               PROVE  /\ u \in DOMAIN Catalog
                      /\ tables'[u].schema = Catalog[u].schema
                      /\ TableInv(tables'[u])
    BY DEF CatalogInv
  <2>1. CASE u = t
    BY <2>1, <1>1, <1>2, <1>4, <1>5 DEF TableInv
  <2>2. CASE u # t
    <3>1. u \in DOMAIN tables /\ tables'[u] = tables[u]
      BY <2>2, <1>1
    <3> QED BY <3>1 DEF CatalogInv, StorageInv
  <2> QED BY <2>1, <2>2
<1>7. ScanInv'
  BY <1>1 DEF ScanInv, StorageInv
<1> QED BY <1>6, <1>7 DEF StorageInv

(* One table changes.                                                      *)
LEMMA OneTable ==
  ASSUME CatalogInv, NEW t \in DOMAIN tables, NEW new, tables' = [tables EXCEPT ![t] = new],
         new.schema = tables[t].schema, TableInv(new)
  PROVE  /\ CatalogInv'
         /\ DOMAIN tables' = DOMAIN tables /\ tables'[t] = new
         /\ \A u \in DOMAIN tables : u # t => tables'[u] = tables[u]
<1>1. /\ DOMAIN tables' = DOMAIN tables /\ tables'[t] = new
      /\ \A u \in DOMAIN tables : u # t => tables'[u] = tables[u]
  OBVIOUS
<1>2. ASSUME NEW u \in DOMAIN tables'
      PROVE  /\ u \in DOMAIN Catalog
             /\ tables'[u].schema = Catalog[u].schema
             /\ TableInv(tables'[u])
  <2>1. u \in DOMAIN tables /\ u \in DOMAIN Catalog /\ tables[u].schema = Catalog[u].schema
        /\ TableInv(tables[u])
    BY <1>1, <1>2 DEF CatalogInv
  <2>2. CASE u = t
    BY <2>1, <2>2, <1>1
  <2>3. CASE u # t
    BY <2>1, <2>3, <1>1
  <2> QED BY <2>2, <2>3
<1> QED BY <1>1, <1>2 DEF CatalogInv

(* A buffer is a row of its table.                                         *)
LEMMA BufferIsRow ==
  ASSUME CatalogInv, NEW t \in DOMAIN tables, NEW values \in Offered[t], NEW filler \in Fillers
  PROVE  Buffer(tables[t].schema, values, filler) \in Row(tables[t].schema)
<1>1. t \in DOMAIN Catalog /\ tables[t].schema = Catalog[t].schema
  BY DEF CatalogInv
<1> DEFINE schema == Catalog[t].schema
<1>2. Buffer(schema, values, filler) \in Row(schema)
  BY <1>1, BufferIs DEF Written
<1> QED BY <1>1, <1>2

(* What an insertion makes of its table.                                    *)
LEMMA InsertStep ==
  ASSUME CatalogInv, NEW t \in DOMAIN tables, NEW values \in Offered[t], NEW filler \in Fillers,
         Insert(t, values, filler)
  PROVE  LET row == Buffer(tables[t].schema, values, filler)
         IN  /\ TableInv(InsertRecord(tables[t], row))
             /\ Inserted(tables[t], row, Place(tables[t], row)[1], InsertRecord(tables[t], row))
             /\ tables' = [tables EXCEPT ![t] = InsertRecord(tables[t], row)]
             /\ scan' = scan
<1> DEFINE row == Buffer(tables[t].schema, values, filler)
<1>1. row \in Row(tables[t].schema)
  BY BufferIsRow
<1>2. /\ PrimaryKeySymbol(tables[t].schema, row) \notin DOMAIN tables[t].primary
      /\ tables' = [tables EXCEPT ![t] = InsertRecord(tables[t], row)]
      /\ scan' = scan
  BY DEF Insert
<1>3. TableInv(tables[t])
  BY DEF CatalogInv
<1> HIDE DEF row
<1>4. /\ TableInv(InsertRecord(tables[t], row))
      /\ Inserted(tables[t], row, Place(tables[t], row)[1], InsertRecord(tables[t], row))
  BY <1>1, <1>2, <1>3, InsertRecordKeeps
<1> QED BY <1>2, <1>4 DEF row

(* An insertion keeps every table sound, and what the scan still has to     *)
(* see.                                                                     *)
LEMMA InsertInv ==
  ASSUME StorageInv, NEW t \in DOMAIN tables, NEW values \in Offered[t], NEW filler \in Fillers,
         Insert(t, values, filler)
  PROVE  StorageInv'
<1> DEFINE row == Buffer(tables[t].schema, values, filler)
           new == InsertRecord(tables[t], row)
           slot == Place(tables[t], row)[1]
<1>1. CatalogInv /\ ScanInv
  BY DEF StorageInv
<1>2. /\ TableInv(new) /\ Inserted(tables[t], row, slot, new)
      /\ tables' = [tables EXCEPT ![t] = new] /\ scan' = scan
  BY <1>1, InsertStep
<1> HIDE DEF row, new, slot
<1>3. new.schema = tables[t].schema
  BY <1>2 DEF Inserted
<1>4. /\ CatalogInv'
      /\ DOMAIN tables' = DOMAIN tables /\ tables'[t] = new
      /\ \A u \in DOMAIN tables : u # t => tables'[u] = tables[u]
  BY <1>1, <1>2, <1>3, OneTable
<1>5. ASSUME scan # NoScan PROVE scan.table \in DOMAIN tables' /\ ScanOf(scan, tables'[scan.table])
  <2>1. scan.table \in DOMAIN tables /\ ScanOf(scan, tables[scan.table])
    BY <1>1, <1>5 DEF ScanInv
  <2>2. CASE scan.table # t
    BY <2>1, <2>2, <1>4
  <2>3. CASE scan.table = t
    <3>1. /\ new.allocated \in Nat /\ new.allocated >= tables[t].allocated
          /\ \A a \in DOMAIN tables[t].records : a \in DOMAIN new.records
      BY <1>2 DEF Inserted
    <3>2. tables[t].allocated \in Nat
      BY <1>1 DEF CatalogInv, TableInv, SpaceInv
    <3>3. /\ DOMAIN scan = ScanFields
          /\ scan.m_ptr \in Nat \ {0}
          /\ scan.m_ptr <= tables[t].allocated + 1
          /\ \A a \in scan.due : a \in DOMAIN tables[t].records /\ a >= scan.m_ptr
          /\ scan.more \in BOOLEAN /\ scan.gone \in BOOLEAN
          /\ scan.more /\ ~scan.gone => scan.m_ptr \in DOMAIN tables[t].records
      BY <2>1, <2>3 DEF ScanOf
    <3>4. scan.m_ptr <= new.allocated + 1
      BY <3>1, <3>2, <3>3
    <3>5. ScanOf(scan, new)
      BY <3>1, <3>3, <3>4 DEF ScanOf
    <3> QED BY <2>3, <3>5, <1>4
  <2> QED BY <2>2, <2>3
<1>6. ScanInv'
  BY <1>2, <1>5 DEF ScanInv
<1> QED BY <1>4, <1>6 DEF StorageInv

(* A deletion too: the record it takes is no longer due.                    *)
LEMMA DeleteInv ==
  ASSUME StorageInv, NEW t \in DOMAIN tables, NEW a \in DOMAIN tables[t].records, Delete(t, a)
  PROVE  StorageInv'
<1> DEFINE new == DeleteRecord(tables[t], a)
<1>1. CatalogInv /\ ScanInv
  BY DEF StorageInv
<1>2. /\ tables' = [tables EXCEPT ![t] = new]
      /\ scan' = IF scan # NoScan /\ scan.table = t
                 THEN [scan EXCEPT !.due = @ \ {a}, !.gone = @ \/ (scan.more /\ scan.m_ptr = a)]
                 ELSE scan
  BY DEF Delete
<1>3. TableInv(tables[t])
  BY <1>1 DEF CatalogInv
<1>4. TableInv(new) /\ Deleted(tables[t], a, new)
  BY <1>3, DeleteRecordKeeps
<1> HIDE DEF new
<1>5. new.schema = tables[t].schema
  BY <1>4 DEF Deleted
<1>6. /\ CatalogInv'
      /\ DOMAIN tables' = DOMAIN tables /\ tables'[t] = new
      /\ \A u \in DOMAIN tables : u # t => tables'[u] = tables[u]
  BY <1>1, <1>2, <1>4, <1>5, OneTable
<1>7. ASSUME scan # NoScan PROVE scan'.table \in DOMAIN tables' /\ ScanOf(scan', tables'[scan'.table])
  <2>1. scan.table \in DOMAIN tables /\ ScanOf(scan, tables[scan.table])
    BY <1>1, <1>7 DEF ScanInv
  <2>2. CASE scan.table # t
    <3>1. scan' = scan
      BY <1>2, <2>2
    <3> QED BY <2>1, <2>2, <3>1, <1>6
  <2>3. CASE scan.table = t
    <3>1. scan' = [scan EXCEPT !.due = @ \ {a}, !.gone = @ \/ (scan.more /\ scan.m_ptr = a)]
      BY <1>2, <1>7, <2>3
    <3>2. /\ DOMAIN scan = ScanFields
          /\ scan.m_ptr \in Nat \ {0}
          /\ scan.m_ptr <= tables[t].allocated + 1
          /\ \A b \in scan.due : b \in DOMAIN tables[t].records /\ b >= scan.m_ptr
          /\ scan.more \in BOOLEAN /\ scan.gone \in BOOLEAN
          /\ scan.more /\ ~scan.gone => scan.m_ptr \in DOMAIN tables[t].records
      BY <2>1, <2>3 DEF ScanOf
    <3>3. /\ DOMAIN scan' = ScanFields /\ scan'.table = t
          /\ scan'.m_ptr = scan.m_ptr /\ scan'.due = scan.due \ {a} /\ scan'.more = scan.more
          /\ scan'.gone = (scan.gone \/ (scan.more /\ scan.m_ptr = a))
      BY <2>3, <3>1, <3>2 DEF ScanFields
    <3>4. /\ new.allocated = tables[t].allocated
          /\ \A b \in DOMAIN tables[t].records : b # a => b \in DOMAIN new.records
      BY <1>4 DEF Deleted
    <3>5. scan'.gone \in BOOLEAN
      BY <3>3
    <3>6. ASSUME scan'.more, ~scan'.gone PROVE scan'.m_ptr \in DOMAIN new.records
      <4>1. scan.more /\ ~scan.gone /\ scan.m_ptr # a
        BY <3>3, <3>6
      <4> QED BY <4>1, <3>2, <3>3, <3>4
    <3>7. ScanOf(scan', new)
      BY <3>2, <3>3, <3>4, <3>5, <3>6 DEF ScanOf
    <3> QED BY <3>3, <3>7, <1>6
  <2> QED BY <2>2, <2>3
<1>8. scan = NoScan => scan' = NoScan
  BY <1>2
<1>9. ScanInv'
  BY <1>7, <1>8 DEF ScanInv
<1> QED BY <1>6, <1>9 DEF StorageInv

(* An update moves no record.                                               *)
LEMMA UpdateInv ==
  ASSUME StorageInv, NEW t \in DOMAIN tables, NEW a \in DOMAIN tables[t].records,
         NEW change \in Changes[t], Update(t, a, change)
  PROVE  StorageInv'
<1> DEFINE new == UpdateRecord(tables[t], a, change)
<1>1. CatalogInv /\ ScanInv
  BY DEF StorageInv
<1>2. tables' = [tables EXCEPT ![t] = new] /\ scan' = scan
  BY DEF Update
<1>3. TableInv(tables[t]) /\ t \in DOMAIN Catalog /\ tables[t].schema = Catalog[t].schema
  BY <1>1 DEF CatalogInv
<1>4. TableInv(new) /\ Updated(tables[t], a, change, new)
  BY <1>3, UpdateRecordKeeps
<1> HIDE DEF new
<1>5. /\ new.schema = tables[t].schema /\ new.allocated = tables[t].allocated
      /\ DOMAIN new.records = DOMAIN tables[t].records
  BY <1>4 DEF Updated
<1>6. /\ CatalogInv'
      /\ DOMAIN tables' = DOMAIN tables /\ tables'[t] = new
      /\ \A u \in DOMAIN tables : u # t => tables'[u] = tables[u]
  BY <1>1, <1>2, <1>4, <1>5, OneTable
<1>7. ASSUME scan # NoScan PROVE scan.table \in DOMAIN tables' /\ ScanOf(scan, tables'[scan.table])
  <2>1. scan.table \in DOMAIN tables /\ ScanOf(scan, tables[scan.table])
    BY <1>1, <1>7 DEF ScanInv
  <2>2. CASE scan.table # t
    BY <2>1, <2>2, <1>6
  <2>3. CASE scan.table = t
    <3>1. ScanOf(scan, new)
      BY <2>1, <2>3, <1>5 DEF ScanOf
    <3> QED BY <2>3, <3>1, <1>6
  <2> QED BY <2>2, <2>3
<1>8. ScanInv'
  BY <1>2, <1>7 DEF ScanInv
<1> QED BY <1>6, <1>8 DEF StorageInv

(* A scan starts at the first slot with all records due.                    *)
LEMMA ScanStartInv ==
  ASSUME StorageInv, NEW t \in DOMAIN tables, ScanStart(t)
  PROVE  StorageInv'
<1>1. CatalogInv /\ tables' = tables
  BY DEF StorageInv, ScanStart
<1>2. CatalogInv'
  BY <1>1 DEF CatalogInv
<1>3. SpaceInv(tables[t])
  BY <1>1 DEF CatalogInv, TableInv
<1>4. scan' = [table |-> t, m_ptr |-> 1, more |-> FALSE, gone |-> FALSE,
               due |-> DOMAIN tables[t].records]
  BY DEF ScanStart
<1>5. /\ DOMAIN scan' = ScanFields /\ scan'.table = t /\ scan'.m_ptr = 1
      /\ scan'.due = DOMAIN tables[t].records
      /\ scan'.more = FALSE /\ scan'.gone = FALSE
  BY <1>4 DEF ScanFields
<1>6. \A a \in DOMAIN tables[t].records : a >= 1
  <2> TAKE a \in DOMAIN tables[t].records
  <2>1. a \in 1 .. tables[t].next - 1 /\ tables[t].next \in Nat
    BY <1>3 DEF SpaceInv
  <2> QED BY <2>1
<1>7. ScanOf(scan', tables[t])
  <2>1. 1 \in Nat \ {0} /\ 1 <= tables[t].allocated + 1
    BY <1>3 DEF SpaceInv
  <2>2. \A a \in scan'.due : a \in DOMAIN tables[t].records /\ a >= scan'.m_ptr
    BY <1>5, <1>6
  <2>3. /\ scan'.more \in BOOLEAN /\ scan'.gone \in BOOLEAN
        /\ ~scan'.more
    BY <1>5
  <2> HIDE DEF ScanFields
  <2>4. DOMAIN scan' = ScanFields /\ scan'.m_ptr \in Nat \ {0} /\ scan'.m_ptr <= tables[t].allocated + 1
    BY <2>1, <1>5
  <2> QED BY <2>2, <2>3, <2>4 DEF ScanOf
<1>8. ScanInv'
  BY <1>1, <1>5, <1>7 DEF ScanInv
<1> QED BY <1>2, <1>8 DEF StorageInv

(* hasNext moves the iterator to the record it has found.                   *)
LEMMA ScanHasNextInv ==
  ASSUME StorageInv, ScanHasNext
  PROVE  StorageInv'
<1> DEFINE table == tables[scan.table]
           a == Seek(table, scan.m_ptr)
<1>1. /\ CatalogInv /\ ScanInv /\ tables' = tables
      /\ scan # NoScan /\ HasNext(table, scan.m_ptr)
      /\ scan' = [scan EXCEPT !.m_ptr = a, !.more = TRUE, !.gone = FALSE]
  BY DEF StorageInv, ScanHasNext
<1>2. CatalogInv'
  BY <1>1 DEF CatalogInv
<1>3. scan.table \in DOMAIN tables /\ ScanOf(scan, table)
  BY <1>1 DEF ScanInv
<1>4. SpaceInv(table)
  BY <1>1, <1>3 DEF CatalogInv, TableInv
<1> HIDE DEF table, a
<1>5. /\ DOMAIN scan = ScanFields
      /\ scan.m_ptr \in Nat \ {0}
      /\ scan.m_ptr <= table.allocated + 1
      /\ \A b \in scan.due : b \in DOMAIN table.records /\ b >= scan.m_ptr
  BY <1>3 DEF ScanOf
<1>5a. /\ a \in DOMAIN table.records /\ a \in Nat \ {0} /\ a + 1 <= table.allocated + 1
       /\ \A b \in DOMAIN table.records : b >= scan.m_ptr => b = a \/ b >= a + 1
  BY <1>1, <1>4, <1>5, SeekIs DEF a
<1>5b. /\ table.allocated \in Nat
       /\ \A b \in DOMAIN table.records : b \in Nat
  BY <1>4 DEF SpaceInv
<1>6. /\ a \in Nat \ {0} /\ a <= table.allocated + 1 /\ a \in DOMAIN table.records
      /\ \A b \in DOMAIN table.records : b >= scan.m_ptr => b >= a
  BY <1>5a, <1>5b
<1>7. /\ DOMAIN scan' = ScanFields /\ scan'.table = scan.table
      /\ scan'.m_ptr = a /\ scan'.due = scan.due /\ scan'.more = TRUE /\ scan'.gone = FALSE
  BY <1>1, <1>5 DEF ScanFields
<1>8. \A b \in scan'.due : b \in DOMAIN table.records /\ b >= scan'.m_ptr
  BY <1>5, <1>6, <1>7
<1>9. ScanOf(scan', table)
  BY <1>6, <1>7, <1>8 DEF ScanOf
<1>10. ScanInv'
  BY <1>1, <1>3, <1>7, <1>9 DEF ScanInv, table
<1> QED BY <1>2, <1>10 DEF StorageInv

(* next leaves nothing due behind it.                                       *)
LEMMA ScanNextInv ==
  ASSUME StorageInv, ScanNext
  PROVE  StorageInv'
<1> DEFINE table == tables[scan.table]
           a == Seek(table, scan.m_ptr)
<1>1. /\ CatalogInv /\ ScanInv /\ tables' = tables
      /\ scan # NoScan /\ HasNext(table, scan.m_ptr)
      /\ scan' = [scan EXCEPT !.m_ptr = a + 1, !.due = @ \ {a}, !.more = FALSE, !.gone = FALSE]
  BY DEF StorageInv, ScanNext
<1>2. CatalogInv'
  BY <1>1 DEF CatalogInv
<1>3. scan.table \in DOMAIN tables /\ ScanOf(scan, table)
  BY <1>1 DEF ScanInv
<1>4. SpaceInv(table)
  BY <1>1, <1>3 DEF CatalogInv, TableInv
<1> HIDE DEF table, a
<1>5. /\ DOMAIN scan = ScanFields
      /\ scan.m_ptr \in Nat \ {0}
      /\ scan.m_ptr <= table.allocated + 1
      /\ \A b \in scan.due : b \in DOMAIN table.records /\ b >= scan.m_ptr
  BY <1>3 DEF ScanOf
<1>6. /\ a \in Nat \ {0} /\ a + 1 <= table.allocated + 1
      /\ \A b \in DOMAIN table.records : b >= scan.m_ptr => b = a \/ b >= a + 1
  BY <1>1, <1>4, <1>5, SeekIs DEF a
<1>7. /\ DOMAIN scan' = ScanFields /\ scan'.table = scan.table
      /\ scan'.m_ptr = a + 1 /\ scan'.due = scan.due \ {a}
      /\ scan'.more = FALSE /\ scan'.gone = FALSE
  BY <1>1, <1>5 DEF ScanFields
<1>8. \A b \in scan'.due : b \in DOMAIN table.records /\ b >= scan'.m_ptr
  BY <1>5, <1>6, <1>7
<1>9. ScanOf(scan', table)
  <2>1. DOMAIN scan' = ScanFields /\ scan'.m_ptr \in Nat \ {0} /\ scan'.m_ptr <= table.allocated + 1
    BY <1>6, <1>7
  <2>2. scan'.more \in BOOLEAN /\ scan'.gone \in BOOLEAN /\ ~scan'.more
    BY <1>7
  <2> QED BY <2>1, <2>2, <1>8 DEF ScanOf
<1>10. ScanInv'
  BY <1>1, <1>3, <1>7, <1>9 DEF ScanInv, table
<1> QED BY <1>2, <1>10 DEF StorageInv

(* Every step of the storage engine keeps the invariant.                    *)
LEMMA StorageNextInv ==
  StorageInv /\ [Next]_vars => StorageInv'
<1> SUFFICES ASSUME StorageInv, [Next]_vars PROVE StorageInv'
  OBVIOUS
<1>1. CASE \E t \in DOMAIN Catalog : RegisterTable(t)
  BY <1>1, RegisterTableInv
<1>2. CASE \E t \in DOMAIN tables : \E values \in Offered[t], filler \in Fillers :
               Insert(t, values, filler)
  BY <1>2, InsertInv
<1>3. CASE \E t \in DOMAIN tables : \E a \in DOMAIN tables[t].records : Delete(t, a)
  BY <1>3, DeleteInv
<1>4. CASE \E t \in DOMAIN tables : \E a \in DOMAIN tables[t].records, change \in Changes[t] :
               Update(t, a, change)
  BY <1>4, UpdateInv
<1>5. CASE \E t \in DOMAIN tables : ScanStart(t)
  BY <1>5, ScanStartInv
<1>6. CASE ScanHasNext \/ ScanNext
  BY <1>6, ScanHasNextInv, ScanNextInv
<1>10. CASE ScanRunsOff
  <2>1. scan' = NoScan /\ tables' = <<>> /\ DOMAIN tables' = {}
    BY <1>10 DEF ScanRunsOff
  <2> QED BY <2>1 DEF StorageInv, CatalogInv, ScanInv
<1>7. CASE ScanEnd
  <2>1. scan' = NoScan /\ tables' = tables
    BY <1>7 DEF ScanEnd
  <2> QED BY <2>1 DEF StorageInv, CatalogInv, ScanInv
<1>8. CASE DropAllTables
  <2>1. scan' = scan /\ scan = NoScan /\ tables' = <<>>
    BY <1>8 DEF DropAllTables
  <2>2. DOMAIN tables' = {}
    BY <2>1
  <2> QED BY <2>1, <2>2 DEF StorageInv, CatalogInv, ScanInv
<1>9. CASE UNCHANGED vars
  BY <1>9 DEF vars, StorageInv, CatalogInv, ScanInv
<1> QED BY <1>1, <1>2, <1>3, <1>4, <1>5, <1>6, <1>7, <1>8, <1>9, <1>10 DEF Next

(* The accounts of every table, the entries of its primary index and the     *)
(* position of a scan are in order whatever calls were made.                *)
THEOREM StorageInvariant == Spec => []StorageInv
BY StorageInitInv, StorageNextInv, PTL DEF Spec

(* What the invariant says of every table is what the run checks.           *)
LEMMA InvMeansSound == StorageInv => TablesAreSound
<1> SUFFICES ASSUME StorageInv, NEW t \in DOMAIN tables
             PROVE  LET table == tables[t]
                    IN  /\ table.occupied = Cardinality(DOMAIN table.records)
                        /\ table.allocated - table.occupied = Len(table.free) + End(table) - table.next
                        /\ \A a \in DOMAIN table.records : a < table.next /\ a \notin Range(table.free)
                        /\ \A k \in DOMAIN table.primary : table.primary[k] \in DOMAIN table.records
                        /\ scan # NoScan => scan.m_ptr \in 1 .. tables[scan.table].allocated + 1
  BY DEF TablesAreSound
<1> DEFINE table == tables[t]
<1>1. CatalogInv /\ ScanInv
  BY DEF StorageInv
<1>2. SpaceInv(table) /\ EntryInv(table)
  BY <1>1 DEF CatalogInv, TableInv
<1> HIDE DEF table
<1>3. table.allocated - table.occupied = Len(table.free) + End(table) - table.next
  <2>1. /\ table.next \in Nat /\ table.occupied \in Nat /\ table.allocated \in Nat
        /\ Len(table.free) \in Nat
        /\ table.next = table.occupied + Len(table.free) + 1
    BY <1>2 DEF SpaceInv
  <2> QED BY <2>1, SMTT(40) DEF End
<1>4. ASSUME NEW a \in DOMAIN table.records
      PROVE  a < table.next /\ a \notin Range(table.free)
  <2>1. a \in 1 .. table.next - 1 /\ table.next \in Nat
    BY <1>2 DEF SpaceInv
  <2>2. \A i \in DOMAIN table.free : table.free[i] # a
    BY <1>2 DEF SpaceInv
  <2> QED BY <2>1, <2>2 DEF Range
<1>5. \A k \in DOMAIN table.primary : table.primary[k] \in DOMAIN table.records
  BY <1>2 DEF EntryInv
<1>6. ASSUME scan # NoScan PROVE scan.m_ptr \in 1 .. tables[scan.table].allocated + 1
  <2>1. scan.table \in DOMAIN tables /\ ScanOf(scan, tables[scan.table])
    BY <1>1, <1>6 DEF ScanInv
  <2>2. tables[scan.table].allocated \in Nat
    BY <2>1, <1>1 DEF CatalogInv, TableInv, SpaceInv
  <2> QED BY <2>1, <2>2 DEF ScanOf
<1>7. table.occupied = Cardinality(DOMAIN table.records)
  BY <1>2 DEF SpaceInv
<1> QED BY <1>3, <1>4, <1>5, <1>6, <1>7 DEF table

(* The two counters of a table tell how many records it has and how many     *)
(* slots can still be handed out, on which alone insertRecord decides, and    *)
(* entries of the primary index lead to records.                            *)
THEOREM TablesStaySound == Spec => []TablesAreSound
BY StorageInvariant, InvMeansSound, PTL

(* No record lies at the position of an iterator that finds none.           *)
LEMMA NothingAhead ==
  ASSUME StorageInv, scan # NoScan, ~HasNext(tables[scan.table], scan.m_ptr)
  PROVE  scan.due = {} /\ (scan.more => scan.gone)
<1> DEFINE table == tables[scan.table]
<1>1. CatalogInv /\ ScanInv
  BY DEF StorageInv
<1>2. scan.table \in DOMAIN tables /\ ScanOf(scan, table)
  BY <1>1 DEF ScanInv
<1>3. SpaceInv(table)
  BY <1>1, <1>2 DEF CatalogInv, TableInv
<1>4. ~HasNext(table, scan.m_ptr)
  OBVIOUS
<1> HIDE DEF table
<1>5. /\ scan.m_ptr \in Nat \ {0} /\ scan.m_ptr <= table.allocated + 1
      /\ \A a \in scan.due : a \in DOMAIN table.records /\ a >= scan.m_ptr
      /\ scan.more /\ ~scan.gone => scan.m_ptr \in DOMAIN table.records
  BY <1>2 DEF ScanOf
<1>6. \A b \in DOMAIN table.records : ~(b >= scan.m_ptr)
  BY <1>3, <1>4, <1>5, SeekIs
<1>7. scan.m_ptr \notin DOMAIN table.records
  BY <1>5, <1>6
<1> QED BY <1>5, <1>6, <1>7

(* A scan that ends has passed every slot, so nothing is due any more; and   *)
(* only what has become of the record hasNext found lets next find none.    *)
LEMMA ScansEnd ==
  StorageInv /\ [Next]_vars => [scan # NoScan => /\ scan' = NoScan => scan.due = {}
                                                 /\ tables' = <<>> => scan.gone]_vars
<1> SUFFICES ASSUME StorageInv, Next, scan # NoScan
             PROVE  /\ scan' = NoScan => scan.due = {}
                    /\ tables' = <<>> => scan.gone
  OBVIOUS
<1>1. CatalogInv /\ ScanInv
  BY DEF StorageInv
<1>2. scan.table \in DOMAIN tables /\ ScanOf(scan, tables[scan.table])
  BY <1>1 DEF ScanInv
<1>3. DOMAIN scan = ScanFields
  BY <1>2 DEF ScanOf
<1>4. DOMAIN tables # {} /\ DOMAIN (<<>>) = {}
  BY <1>2
<1>5. CASE ScanEnd \/ ScanRunsOff
  <2>1. scan.due = {} /\ (scan.more => scan.gone)
    BY <1>5, NothingAhead DEF ScanEnd, ScanRunsOff
  <2>2. ScanEnd => tables' = tables
    BY DEF ScanEnd
  <2>3. ScanRunsOff => scan.more
    BY DEF ScanRunsOff
  <2> QED BY <1>4, <1>5, <2>1, <2>2, <2>3
<1>6. ASSUME DOMAIN scan' = DOMAIN scan, DOMAIN tables \subseteq DOMAIN tables'
      PROVE  scan' # NoScan /\ tables' # <<>>
  <2>1. scan' # NoScan
    BY <1>3, <1>6, NotNoScan
  <2> QED BY <1>4, <1>6, <2>1
<1>7. ASSUME NEW t \in DOMAIN tables, NEW a \in DOMAIN tables[t].records, Delete(t, a)
      PROVE  scan' # NoScan /\ tables' # <<>>
  <2>1. \/ scan' = [scan EXCEPT !.due = @ \ {a}, !.gone = @ \/ (scan.more /\ scan.m_ptr = a)]
        \/ scan' = scan
    BY <1>7 DEF Delete
  <2>2. DOMAIN tables' = DOMAIN tables
    BY <1>7 DEF Delete
  <2>3. DOMAIN scan' = DOMAIN scan
    BY <2>1
  <2> QED BY <1>6, <2>2, <2>3
<1>8. ASSUME ScanHasNext \/ ScanNext
      PROVE  scan' # NoScan /\ tables' # <<>>
  BY <1>6, <1>8 DEF ScanHasNext, ScanNext
<1>9. ASSUME NEW t, RegisterTable(t) PROVE scan' # NoScan /\ tables' # <<>>
  BY <1>6, <1>9 DEF RegisterTable
<1>10. ASSUME NEW t, NEW values, NEW filler, Insert(t, values, filler)
       PROVE  scan' # NoScan /\ tables' # <<>>
  BY <1>6, <1>10 DEF Insert
<1>11. ASSUME NEW t, NEW a, NEW change, Update(t, a, change)
       PROVE  scan' # NoScan /\ tables' # <<>>
  BY <1>6, <1>11 DEF Update
<1>12. ~DropAllTables /\ \A t : ~ScanStart(t)
  BY DEF DropAllTables, ScanStart
<1> QED BY <1>5, <1>7, <1>8, <1>9, <1>10, <1>11, <1>12 DEF Next

(* A scan has returned every record that was there all along when hasNext    *)
(* says it is at its end, although its client inserts, updates and deletes    *)
(* records between any two calls of hasNext and next.  And next runs off      *)
(* the table only for a client that has deleted the record hasNext found.    *)
THEOREM ScansReturnEverything == Spec => ScansAreComplete
BY StorageInvariant, ScansEnd, PTL DEF Spec, ScansAreComplete

-----------------------------------------------------------------------------
(* The storage engine implements TableStore.                               *)

(* A table as TableStore has it, and all tables.                            *)
RowsOf(table) == [a \in DOMAIN table.records |-> Columns(table.schema, table.records[a])]
Store == [t \in DOMAIN tables |->
             [a \in DOMAIN tables[t].records |-> Columns(tables[t].schema, tables[t].records[a])]]

(* One table changes.                                                      *)
LEMMA StoreChanges ==
  ASSUME NEW t \in DOMAIN tables, NEW new, tables' = [tables EXCEPT ![t] = new]
  PROVE  /\ DOMAIN Store = DOMAIN tables /\ Store[t] = RowsOf(tables[t])
         /\ DOMAIN Store' = DOMAIN Store /\ Store'[t] = RowsOf(new)
         /\ Store' = [Store EXCEPT ![t] = RowsOf(new)]
<1>1. /\ DOMAIN tables' = DOMAIN tables /\ tables'[t] = new
      /\ \A u \in DOMAIN tables : u # t => tables'[u] = tables[u]
  OBVIOUS
<1>2. /\ DOMAIN Store = DOMAIN tables
      /\ \A u \in DOMAIN tables : Store[u] = RowsOf(tables[u])
      /\ Store = [u \in DOMAIN tables |-> RowsOf(tables[u])]
  BY DEF Store, RowsOf
<1>3. /\ DOMAIN Store' = DOMAIN tables'
      /\ Store' = [u \in DOMAIN tables' |-> RowsOf(tables'[u])]
  BY DEF Store, RowsOf
<1>4. Store' = [u \in DOMAIN tables |-> IF u = t THEN RowsOf(new) ELSE RowsOf(tables[u])]
  BY <1>1, <1>3
<1> QED BY <1>1, <1>2, <1>3, <1>4

(* A column that begins with a value, in the words of the library.           *)
LEMMA BeginsWith ==
  ASSUME NEW n \in Nat, NEW column \in [1 .. n -> Byte], NEW value \in Seq(Byte),
         Len(value) <= n, \A j \in 1 .. Len(value) : column[j] = value[j]
  PROVE  IsPrefix(value, column) /\ (Len(value) = n => column = value)
<1>1. column \in Seq(Byte) /\ Len(column) = n
  OBVIOUS
<1>2. SubSeq(value, 1, Len(value)) = [j \in 1 .. Len(value) |-> value[j]]
  OBVIOUS
<1>3. SubSeq(column, 1, Len(value)) = [j \in 1 .. Len(value) |-> column[j]]
  BY <1>1
<1>4. IsPrefix(value, column)
  BY <1>1, <1>2, <1>3 DEF IsPrefix
<1>5. ASSUME Len(value) = n PROVE column = value
  <2>1. DOMAIN value = 1 .. n /\ value = [j \in 1 .. n |-> value[j]]
    BY <1>5
  <2>2. column = [j \in 1 .. n |-> column[j]]
    OBVIOUS
  <2> QED BY <2>1, <2>2, <1>5
<1> QED BY <1>4, <1>5

(* The columns of a filled buffer hold what was offered.                    *)
LEMMA BufferHolds ==
  ASSUME NEW t \in DOMAIN Catalog, NEW values \in Offered[t], NEW filler \in Fillers
  PROVE  Promise!Holds(Columns(Catalog[t].schema, Buffer(Catalog[t].schema, values, filler)), values)
<1> DEFINE schema == Catalog[t].schema
           n == Len(schema.columns)
           cols == [c \in DOMAIN values |-> c]
           new == Buffer(schema, values, filler)
           row == [i \in 1 .. schema.size |-> filler]
<1>1. /\ n \in Nat /\ DOMAIN schema.columns = 1 .. n /\ DOMAIN values = 1 .. n
      /\ \A c \in 1 .. n : values[c] \in Seq(Byte)
      /\ Written(schema, n, cols, values, row, new)
  BY BufferIs
<1>2. schema \in Laid
  BY CatalogIs
<1>3. \A c \in 1 .. n : Fits(schema, c, values[c])
  BY <1>1, StorageAssumption DEF StorageAssumption
<1>4. \A c \in 1 .. n : cols[c] = c
  BY <1>1
<1> HIDE DEF schema, n, cols, new, row
<1>5. ASSUME NEW c \in 1 .. n
      PROVE  IsPrefix(values[c], Column(schema, new, c))
  <2>1. schema.columns[c].size \in Nat
    BY <1>1, <1>2, ColumnWithinRow
  <2>2. values[c] \in Seq(Byte) /\ Len(values[c]) <= schema.columns[c].size
    BY <2>1, <1>1, <1>3 DEF Fits
  <2>3. /\ Column(schema, new, c) \in [1 .. schema.columns[c].size -> Byte]
        /\ \A j \in 1 .. Len(values[c]) : Column(schema, new, c)[j] = values[c][j]
    BY <1>1, <1>4 DEF Written
  <2> QED BY <2>1, <2>2, <2>3, BeginsWith
<1>6. /\ DOMAIN Columns(schema, new) = DOMAIN values
      /\ \A c \in DOMAIN values : IsPrefix(values[c], Columns(schema, new)[c])
  BY <1>1, <1>5 DEF Columns
<1>7. \A c \in DOMAIN values : Promise!IsPrefix(values[c], Columns(schema, new)[c])
  BY <1>6 DEF IsPrefix, Promise!IsPrefix
<1>8. Promise!Holds(Columns(schema, new), values)
  BY <1>6, <1>7 DEF Promise!Holds
<1> QED BY <1>8 DEF schema, new

(* insertRecord is an insertion of the promised table.                      *)
LEMMA InsertPromised ==
  ASSUME StorageInv, NEW t \in DOMAIN tables, NEW values \in Offered[t], NEW filler \in Fillers,
         Insert(t, values, filler)
  PROVE  Promise!Next
<1> DEFINE row == Buffer(tables[t].schema, values, filler)
           new == InsertRecord(tables[t], row)
           slot == Place(tables[t], row)[1]
<1>1. CatalogInv /\ t \in DOMAIN Catalog /\ tables[t].schema = Catalog[t].schema
  BY DEF StorageInv, CatalogInv
<1>2. Inserted(tables[t], row, slot, new) /\ tables' = [tables EXCEPT ![t] = new]
  BY <1>1, InsertStep
<1>3. Promise!Holds(Columns(tables[t].schema, row), values)
  BY <1>1, BufferHolds
<1> HIDE DEF row, new, slot
<1>4. /\ DOMAIN Store = DOMAIN tables /\ Store[t] = RowsOf(tables[t])
      /\ DOMAIN Store' = DOMAIN Store /\ Store'[t] = RowsOf(new)
      /\ Store' = [Store EXCEPT ![t] = RowsOf(new)]
  BY <1>2, StoreChanges
<1>5. /\ new.schema = tables[t].schema
      /\ slot \notin DOMAIN tables[t].records
      /\ DOMAIN new.records = DOMAIN tables[t].records \cup {slot}
      /\ new.records[slot] = row
      /\ \A a \in DOMAIN tables[t].records : new.records[a] = tables[t].records[a]
  BY <1>2 DEF Inserted
<1>6. /\ slot \in DOMAIN RowsOf(new) \ DOMAIN Store[t]
      /\ RowsOf(new)[slot] = Columns(tables[t].schema, row)
      /\ RowsOf(new) = [a \in DOMAIN Store[t] \cup {slot} |->
                           IF a = slot THEN RowsOf(new)[slot] ELSE Store[t][a]]
  BY <1>4, <1>5 DEF RowsOf
<1>7. Promise!With(Store[t], slot, Store'[t][slot]) = RowsOf(new)
  BY <1>4, <1>6 DEF Promise!With
<1>8. /\ slot \in DOMAIN Store'[t] \ DOMAIN Store[t]
      /\ Promise!Holds(Store'[t][slot], values)
      /\ Store' = [Store EXCEPT ![t] = Promise!With(Store[t], slot, Store'[t][slot])]
  BY <1>3, <1>4, <1>6, <1>7
<1>9. Promise!Insert(t)
  BY <1>8 DEF Promise!Insert, Store
<1> QED BY <1>4, <1>9 DEF Promise!Next, Store

(* deleteRecord is its deletion.                                            *)
LEMMA DeletePromised ==
  ASSUME StorageInv, NEW t \in DOMAIN tables, NEW a \in DOMAIN tables[t].records, Delete(t, a)
  PROVE  Promise!Next
<1> DEFINE new == DeleteRecord(tables[t], a)
<1>1. TableInv(tables[t])
  BY DEF StorageInv, CatalogInv
<1>2. Deleted(tables[t], a, new) /\ tables' = [tables EXCEPT ![t] = new]
  BY <1>1, DeleteRecordKeeps DEF Delete
<1> HIDE DEF new
<1>3. /\ DOMAIN Store = DOMAIN tables /\ Store[t] = RowsOf(tables[t])
      /\ DOMAIN Store' = DOMAIN Store
      /\ Store' = [Store EXCEPT ![t] = RowsOf(new)]
  BY <1>2, StoreChanges
<1>4. /\ new.schema = tables[t].schema
      /\ DOMAIN new.records = DOMAIN tables[t].records \ {a}
      /\ \A b \in DOMAIN new.records : new.records[b] = tables[t].records[b]
  BY <1>2 DEF Deleted
<1>5. a \in DOMAIN Store[t] /\ RowsOf(new) = [b \in DOMAIN Store[t] \ {a} |-> Store[t][b]]
  BY <1>3, <1>4 DEF RowsOf
<1>6. Store' = [Store EXCEPT ![t] = Promise!Without(Store[t], a)]
  BY <1>3, <1>5 DEF Promise!Without
<1>7. Promise!Delete(t)
  BY <1>5, <1>6 DEF Promise!Delete, Store
<1> QED BY <1>3, <1>7 DEF Promise!Next, Store

(* updateRecord writes the columns it was given, and no others.             *)
LEMMA UpdatePromised ==
  ASSUME StorageInv, NEW t \in DOMAIN tables, NEW a \in DOMAIN tables[t].records,
         NEW change \in Changes[t], Update(t, a, change)
  PROVE  Promise!Next
<1> DEFINE new == UpdateRecord(tables[t], a, change)
           schema == Catalog[t].schema
           n == Len(change.cols)
           old == tables[t].records[a]
           value(c) == change.values[CHOOSE i \in DOMAIN change.cols : change.cols[i] = c]
           IsWritten(c) == \E i \in DOMAIN change.cols : change.cols[i] = c
           written == [c \in DOMAIN Store[t][a] |-> IF IsWritten(c) THEN value(c) ELSE Store[t][a][c]]
<1>1. TableInv(tables[t]) /\ t \in DOMAIN Catalog /\ tables[t].schema = schema
  BY DEF StorageInv, CatalogInv
<1>2. Updated(tables[t], a, change, new) /\ tables' = [tables EXCEPT ![t] = new]
  BY <1>1, UpdateRecordKeeps DEF Update
<1> HIDE DEF new
<1>3. /\ DOMAIN Store = DOMAIN tables /\ Store[t] = RowsOf(tables[t])
      /\ DOMAIN Store' = DOMAIN Store
      /\ Store' = [Store EXCEPT ![t] = RowsOf(new)]
  BY <1>2, StoreChanges
<1>4. /\ n \in Nat /\ DOMAIN change.cols = 1 .. n
      /\ Writable(schema, n, change.cols, change.values)
      /\ \A i \in 1 .. n : Len(change.values[i]) = schema.columns[change.cols[i]].size
  BY <1>1, ChangeIs
<1>5. schema \in Laid
  BY <1>1, CatalogIs
<1> HIDE DEF schema, n
<1>6. /\ new.schema = schema
      /\ DOMAIN new.records = DOMAIN tables[t].records
      /\ \A b \in DOMAIN tables[t].records : b # a => new.records[b] = tables[t].records[b]
      /\ Written(schema, n, change.cols, change.values, old, new.records[a])
  BY <1>1, <1>2 DEF Updated, n
<1> HIDE DEF old
<1>7. ASSUME NEW i \in 1 .. n
      PROVE  Column(schema, new.records[a], change.cols[i]) = change.values[i]
  <2>1. /\ change.cols[i] \in DOMAIN schema.columns /\ change.values[i] \in Seq(Byte)
        /\ Len(change.values[i]) = schema.columns[change.cols[i]].size
    BY <1>4 DEF Writable
  <2>2. schema.columns[change.cols[i]].size \in Nat
    BY <2>1, <1>5, ColumnWithinRow
  <2>3. /\ Column(schema, new.records[a], change.cols[i])
                \in [1 .. schema.columns[change.cols[i]].size -> Byte]
        /\ \A j \in 1 .. Len(change.values[i]) :
              Column(schema, new.records[a], change.cols[i])[j] = change.values[i][j]
    BY <1>6 DEF Written
  <2>4. Len(change.values[i]) <= schema.columns[change.cols[i]].size
    BY <2>1, <2>2
  <2> QED BY <2>1, <2>2, <2>3, <2>4, BeginsWith
<1>8. ASSUME NEW c \in DOMAIN schema.columns, ~IsWritten(c)
      PROVE  Column(schema, new.records[a], c) = Column(schema, old, c)
  BY <1>4, <1>6, <1>8 DEF Written
<1>9. ASSUME NEW c \in DOMAIN schema.columns, IsWritten(c)
      PROVE  Column(schema, new.records[a], c) = value(c)
  <2> DEFINE i == CHOOSE i \in DOMAIN change.cols : change.cols[i] = c
  <2>1. i \in 1 .. n /\ change.cols[i] = c
    BY <1>4, <1>9
  <2> HIDE DEF i
  <2>2. Column(schema, new.records[a], c) = change.values[i]
    BY <2>1, <1>7
  <2> QED BY <2>2 DEF i
<1>10. /\ a \in DOMAIN Store[t]
       /\ Store[t][a] = [c \in DOMAIN schema.columns |-> Column(schema, old, c)]
       /\ RowsOf(new)[a] = [c \in DOMAIN schema.columns |-> Column(schema, new.records[a], c)]
  BY <1>1, <1>3, <1>6 DEF RowsOf, Columns, old
<1>11. \A c \in DOMAIN schema.columns :
          Column(schema, new.records[a], c) = IF IsWritten(c) THEN value(c) ELSE Column(schema, old, c)
  BY <1>8, <1>9
<1>12. RowsOf(new)[a] = written
  <2> HIDE DEF IsWritten, value
  <2> QED BY <1>10, <1>11
<1> HIDE DEF written
<1>13. RowsOf(new) = [Store[t] EXCEPT ![a] = written]
  <2>1. /\ RowsOf(new) = [b \in DOMAIN tables[t].records |-> RowsOf(new)[b]]
        /\ Store[t] = [b \in DOMAIN tables[t].records |-> Store[t][b]]
    BY <1>3, <1>6 DEF RowsOf
  <2>2. \A b \in DOMAIN tables[t].records : b # a => RowsOf(new)[b] = Store[t][b]
    BY <1>1, <1>3, <1>6 DEF RowsOf
  <2> QED BY <2>1, <2>2, <1>12
<1>14. Store' = [Store EXCEPT ![t][a] = written]
  BY <1>3, <1>13
<1>15. Promise!Update(t)
  <2>1. Store' = [Store EXCEPT ![t][a] =
            [c \in DOMAIN @ |-> IF \E i \in DOMAIN change.cols : change.cols[i] = c
                                THEN change.values[CHOOSE i \in DOMAIN change.cols : change.cols[i] = c]
                                ELSE @[c]]]
    BY <1>14 DEF written
  <2> QED BY <2>1, <1>10, ZenonT(60) DEF Promise!Update, Store
<1> QED BY <1>3, <1>15 DEF Promise!Next, Store

(* registerTable leaves an empty table.                                     *)
LEMMA RegisterPromised ==
  ASSUME NEW t \in DOMAIN Catalog, RegisterTable(t)
  PROVE  Promise!Next
<1> DEFINE new == NewTable(Catalog[t].schema, Catalog[t].indexes)
<1>1. tables' = [u \in DOMAIN tables \cup {t} |-> IF u = t THEN new ELSE tables[u]]
  BY DEF RegisterTable
<1>2. new.records = <<>>
  BY DEF NewTable
<1> HIDE DEF new
<1>3. RowsOf(new) = <<>>
  <2>1. DOMAIN new.records = {}
    BY <1>2
  <2> QED BY <2>1 DEF RowsOf
<1>4. DOMAIN Store = DOMAIN tables /\ \A u \in DOMAIN tables : Store[u] = RowsOf(tables[u])
  BY DEF Store, RowsOf
<1>5. Store' = [u \in DOMAIN tables' |-> RowsOf(tables'[u])]
  BY DEF Store, RowsOf
<1>6. Store' = [u \in DOMAIN Store \cup {t} |-> IF u = t THEN <<>> ELSE Store[u]]
  <2>1. /\ DOMAIN tables' = DOMAIN Store \cup {t} /\ tables'[t] = new
        /\ \A u \in DOMAIN tables : u # t => tables'[u] = tables[u]
    BY <1>1, <1>4
  <2>2. \A u \in DOMAIN tables' : RowsOf(tables'[u]) = IF u = t THEN <<>> ELSE Store[u]
    BY <2>1, <1>3, <1>4
  <2> QED BY <2>1, <2>2, <1>5
<1>7. Promise!Register(t)
  BY <1>6 DEF Promise!Register, Promise!With, Store
<1> QED BY <1>7 DEF Promise!Next, Store

(* The iterator changes nothing the promise speaks of.                      *)
LEMMA StoreSame ==
  ASSUME UNCHANGED tables
  PROVE  UNCHANGED Store
BY DEF Store

(* Every step is a step of the promise or none.                             *)
LEMMA StepsPromised ==
  StorageInv /\ [Next]_vars => [Promise!Next]_Store
<1> SUFFICES ASSUME StorageInv, [Next]_vars PROVE Promise!Next \/ UNCHANGED Store
  OBVIOUS
<1>1. CASE \E t \in DOMAIN Catalog : RegisterTable(t)
  BY <1>1, RegisterPromised
<1>2. CASE \E t \in DOMAIN tables : \E values \in Offered[t], filler \in Fillers :
               Insert(t, values, filler)
  BY <1>2, InsertPromised
<1>3. CASE \E t \in DOMAIN tables : \E a \in DOMAIN tables[t].records : Delete(t, a)
  BY <1>3, DeletePromised
<1>4. CASE \E t \in DOMAIN tables : \E a \in DOMAIN tables[t].records, change \in Changes[t] :
               Update(t, a, change)
  BY <1>4, UpdatePromised
<1>5. CASE UNCHANGED tables
  BY <1>5, StoreSame
<1>6. CASE \E t \in DOMAIN tables : ScanStart(t)
  BY <1>6, <1>5 DEF ScanStart
<1>7. CASE ScanHasNext \/ ScanNext \/ ScanEnd
  BY <1>7, <1>5 DEF ScanHasNext, ScanNext, ScanEnd
<1>8. CASE DropAllTables \/ ScanRunsOff
  <2>1. tables' = <<>>
    BY <1>8 DEF DropAllTables, ScanRunsOff
  <2>2. Store' = <<>>
    BY <2>1 DEF Store
  <2> QED BY <2>2 DEF Promise!Next, Promise!DropAll, Store
<1>9. CASE UNCHANGED vars
  BY <1>9, <1>5 DEF vars
<1> QED BY <1>1, <1>2, <1>3, <1>4, <1>6, <1>7, <1>8, <1>9 DEF Next

(* Column by column the tables hold what was inserted and updated, whatever  *)
(* slots, free lists, indexes and offsets do below: the storage engine of     *)
(* one thread implements TableStore.                                       *)
THEOREM StorageImplementsTableStore == Spec => ImplementsTableStore
<1>1. Init => Promise!Init
  BY DEF Init, Promise!Init
<1>2. StorageInv /\ [Next]_vars => [Promise!Next]_Store
  BY StepsPromised
<1> QED BY <1>1, <1>2, StorageInvariant, PTL DEF Spec, ImplementsTableStore, Promise!Spec, Store

-----------------------------------------------------------------------------
(* Keys: what an index takes for the key of a record determines the bytes   *)
(* of its columns.                                                         *)

(* A predicate as Queries has them.                                         *)
Asks(schema, params) ==
    /\ params.cols \in Seq(DOMAIN schema.columns) \ {<<>>}
    /\ \A i \in DOMAIN params.cols :
          /\ params.values[i] \in Seq(Byte)
          /\ Len(params.values[i]) = schema.columns[params.cols[i]].size

(* Searching an index by a predicate's key finds what comparing column by    *)
(* column finds.                                                           *)
LEMMA KeyMeansMatch ==
  ASSUME NEW schema \in Laid, NEW row \in Row(schema), NEW params, Asks(schema, params)
  PROVE  KeySymbol(schema, row, params.cols) = PredicateDataSymbol(schema, params)
            <=> IsMatch(schema, row, params)
<1> DEFINE cols == params.cols
           n == Len(cols)
           s == [i \in DOMAIN cols |-> Column(schema, row, cols[i])]
           t == [i \in DOMAIN cols |-> SubSeq(params.values[i], 1, schema.columns[cols[i]].size)]
<1>1. cols \in Seq(DOMAIN schema.columns) /\ cols # <<>>
  BY DEF Asks
<1>2. n \in Nat \ {0} /\ DOMAIN cols = 1 .. n /\ \A i \in 1 .. n : cols[i] \in DOMAIN schema.columns
  BY <1>1
<1>3. ASSUME NEW i \in 1 .. n
      PROVE  /\ s[i] = Column(schema, row, cols[i]) /\ t[i] = params.values[i]
             /\ s[i] \in Seq(Byte) /\ t[i] \in Seq(Byte) /\ Len(s[i]) = Len(t[i])
  <2> DEFINE len == schema.columns[cols[i]].size
             value == params.values[i]
  <2>1. len \in Nat \ {0} /\ cols[i] \in DOMAIN schema.columns
    BY <1>2, ColumnWithinRow
  <2>2. value \in Seq(Byte) /\ Len(value) = len
    BY <1>2 DEF Asks
  <2>3. s[i] = Column(schema, row, cols[i]) /\ t[i] = SubSeq(value, 1, len)
    BY <1>2
  <2>4. Column(schema, row, cols[i]) = [j \in 1 .. len |-> row[j + schema.columns[cols[i]].offset]]
        /\ \A j \in 1 .. len : j + schema.columns[cols[i]].offset \in 1 .. schema.size
    BY <2>1, ColumnIs, SMTT(40)
  <2> HIDE DEF len, value, s, t
  <2>5. Column(schema, row, cols[i]) \in [1 .. len -> Byte]
    BY <2>4 DEF Row
  <2>6. Column(schema, row, cols[i]) \in Seq(Byte) /\ Len(Column(schema, row, cols[i])) = len
    BY <2>1, <2>5
  <2>7. SubSeq(value, 1, len) = value
    BY <2>1, <2>2
  <2> QED BY <2>2, <2>3, <2>6, <2>7 DEF value
<1>4. KeySymbol(schema, row, params.cols) = FlattenSeq(s)
      /\ PredicateDataSymbol(schema, params) = FlattenSeq(t)
  BY DEF KeySymbol, PredicateDataSymbol
<1>5. s = [i \in 1 .. n |-> s[i]] /\ t = [i \in 1 .. n |-> t[i]]
  BY <1>2
<1>6. IsMatch(schema, row, params) <=> \A i \in 1 .. n : s[i] = t[i]
  <2>1. \A i \in 1 .. n : s[i] = Column(schema, row, params.cols[i]) /\ t[i] = params.values[i]
    BY <1>3
  <2> HIDE DEF s, t, n
  <2> QED BY <2>1, <1>2 DEF IsMatch, n
<1> HIDE DEF s, t, n
<1>7. s \in Seq(Seq(Byte)) /\ t \in Seq(Seq(Byte)) /\ Len(s) = n /\ Len(t) = n
  <2>1. s \in [1 .. n -> Seq(Byte)] /\ t \in [1 .. n -> Seq(Byte)]
    BY <1>3, <1>5
  <2> QED BY <2>1, <1>2
<1>8. FlattenSeq(s) = FlattenSeq(t) => \A i \in 1 .. n : s[i] = t[i]
  BY <1>2, <1>3, <1>7, FlattenInjective, SMTT(40)
<1>9. (\A i \in 1 .. n : s[i] = t[i]) => s = t
  BY <1>5
<1> QED BY <1>4, <1>6, <1>8, <1>9

-----------------------------------------------------------------------------
(* A scan of a select.                                                     *)

(* The recursive function in Matching.                                     *)
FoundFrom(table, params, g, m_ptr) ==
    IF HasNext(table, m_ptr)
    THEN Chosen(table, params, Seek(table, m_ptr)) \o g[Seek(table, m_ptr) + 1]
    ELSE <<>>
Finds(table, params, g) == g = [m_ptr \in Nat |-> FoundFrom(table, params, g, m_ptr)]

(* Matching is that function at the first slot.                             *)
LEMMA MatchingIs ==
  ASSUME NEW table, NEW params
  PROVE  Matching(table, params) = (CHOOSE g : Finds(table, params, g))[1]
BY Zenon DEF Matching, Finds, FoundFrom

(* An iterator goes forward, within the blocks.                             *)
LEMMA SeekForward ==
  ASSUME NEW table, SpaceInv(table), NEW m_ptr \in Nat, HasNext(table, m_ptr)
  PROVE  /\ Seek(table, m_ptr) \in Nat /\ Seek(table, m_ptr) \in DOMAIN table.records
         /\ m_ptr < Seek(table, m_ptr) + 1
         /\ m_ptr < table.allocated + 1
<1> DEFINE a == Seek(table, m_ptr)
<1>1. /\ a \in DOMAIN table.records /\ a \in Nat \ {0}
      /\ a >= m_ptr /\ a + 1 <= table.allocated + 1
  BY SeekIs
<1>2. table.allocated \in Nat
  BY DEF SpaceInv
<1> QED BY <1>1, <1>2

(* The function is there: it is found from the end of the blocks.           *)
LEMMA FindsExists ==
  ASSUME NEW table, SpaceInv(table), NEW params
  PROVE  \E g : Finds(table, params, g)
<1> DEFINE n == table.allocated + 1
           From(k) == \E g \in [Nat -> Seq(Nat)] : \A m \in Nat :
                         m + k >= n => g[m] = FoundFrom(table, params, g, m)
           Good == {k \in Nat : From(k)}
<1>1. n \in Nat
  BY DEF SpaceInv
<1>2. \A m \in Nat : HasNext(table, m) =>
         Seek(table, m) \in Nat /\ m < Seek(table, m) + 1 /\ m < n
  BY SeekForward
<1> HIDE DEF n
<1>3. \A a \in Nat : Chosen(table, params, a) \in Seq(Nat)
  BY DEF Chosen
<1>4. 0 \in Good
  <2> DEFINE g == [m \in Nat |-> <<>>]
  <2>1. g \in [Nat -> Seq(Nat)]
    OBVIOUS
  <2>2. ASSUME NEW m \in Nat, m + 0 >= n PROVE g[m] = FoundFrom(table, params, g, m)
    <3>1. ~HasNext(table, m)
      BY <2>2, <1>1, <1>2
    <3> QED BY <3>1 DEF FoundFrom
  <2> HIDE DEF g
  <2>3. From(0)
    BY <2>1, <2>2
  <2> QED BY <2>3
<1>5. ASSUME NEW k \in Nat, k \in Good PROVE k + 1 \in Good
  <2>1. PICK g \in [Nat -> Seq(Nat)] : \A m \in Nat :
                m + k >= n => g[m] = FoundFrom(table, params, g, m)
    BY <1>5
  <2> DEFINE h == [m \in Nat |-> IF m + k >= n THEN g[m] ELSE FoundFrom(table, params, g, m)]
  <2>2. \A m \in Nat : FoundFrom(table, params, g, m) \in Seq(Nat)
    <3> TAKE m \in Nat
    <3>1. CASE HasNext(table, m)
      <4>0. Seek(table, m) \in Nat
        BY <3>1, <1>2
      <4>1. Seek(table, m) \in Nat /\ Seek(table, m) + 1 \in Nat
        BY <4>0, SMTT(40)
      <4>2. Chosen(table, params, Seek(table, m)) \in Seq(Nat) /\ g[Seek(table, m) + 1] \in Seq(Nat)
        BY <4>1, <1>3
      <4>3. Chosen(table, params, Seek(table, m)) \o g[Seek(table, m) + 1] \in Seq(Nat)
        BY <4>2, ConcatProperties
      <4> QED BY <4>3, <3>1 DEF FoundFrom
    <3>2. CASE ~HasNext(table, m)
      BY <3>2 DEF FoundFrom
    <3> QED BY <3>1, <3>2
  <2>3. h \in [Nat -> Seq(Nat)]
    BY <2>2
  <2>4. \A m \in Nat : h[m] = FoundFrom(table, params, g, m) \/ ~(m + k >= n)
    BY <2>1
  <2>5. \A m \in Nat : h[m] = FoundFrom(table, params, g, m)
    BY <2>1
  <2>6. \A m \in Nat : m + k >= n => h[m] = g[m]
    OBVIOUS
  <2> HIDE DEF h
  <2>7. ASSUME NEW m \in Nat, m + (k + 1) >= n PROVE h[m] = FoundFrom(table, params, h, m)
    <3>1. CASE HasNext(table, m)
      <4>1. Seek(table, m) + 1 \in Nat /\ (Seek(table, m) + 1) + k >= n
        <5> DEFINE a == Seek(table, m)
        <5>1. a \in Nat /\ m < a + 1
          BY <3>1, <1>2
        <5>2. m + (k + 1) >= n
          BY <2>7
        <5> HIDE DEF a
        <5>3. a + 1 \in Nat /\ (a + 1) + k >= n
          BY <5>1, <5>2, <1>1
        <5> QED BY <5>3 DEF a
      <4>2. h[Seek(table, m) + 1] = g[Seek(table, m) + 1]
        BY <4>1, <2>6
      <4> QED BY <4>2, <2>5 DEF FoundFrom
    <3>2. CASE ~HasNext(table, m)
      BY <3>2, <2>5 DEF FoundFrom
    <3> QED BY <3>1, <3>2
  <2>8. From(k + 1)
    BY <2>3, <2>7
  <2> HIDE DEF From
  <2> QED BY <2>8
<1>6. n \in Good
  <2> HIDE DEF Good
  <2> QED BY <1>1, <1>4, <1>5, Induction
<1>7. PICK g \in [Nat -> Seq(Nat)] : \A m \in Nat :
                m + n >= n => g[m] = FoundFrom(table, params, g, m)
  BY <1>6
<1>8. \A m \in Nat : m + n >= n
  BY <1>1
<1>9. Finds(table, params, g)
  BY <1>7, <1>8 DEF Finds
<1> QED BY <1>9

(* The records a scan from m_ptr on is to find.                             *)
Wanted(table, params, m_ptr) ==
    {a \in DOMAIN table.records : a >= m_ptr /\ IsMatch(table.schema, table.records[a], params)}

(* It finds them, in the order of the slots.                                *)
LEMMA ScanFinds ==
  ASSUME NEW table, SpaceInv(table), NEW params, NEW g, Finds(table, params, g), NEW m0 \in Nat
  PROVE  InOrder(g[m0], Wanted(table, params, m0))
<1> DEFINE n == table.allocated + 1
           Good == {k \in Nat : \A m \in Nat :
                        m + k >= n => InOrder(g[m], Wanted(table, params, m))}
<1>1. n \in Nat
  BY DEF SpaceInv
<1>2. \A m \in Nat : HasNext(table, m) =>
         /\ Seek(table, m) \in Nat /\ m < Seek(table, m) + 1 /\ m < n
         /\ Seek(table, m) \in DOMAIN table.records
  BY SeekForward
<1> HIDE DEF n
<1>3. \A m \in Nat : g[m] = FoundFrom(table, params, g, m)
  BY DEF Finds
<1>4. ASSUME NEW m \in Nat, ~HasNext(table, m) PROVE InOrder(g[m], Wanted(table, params, m))
  <2>1. g[m] = <<>>
    BY <1>3, <1>4 DEF FoundFrom
  <2>2. Wanted(table, params, m) = {}
    BY <1>4, SeekIs DEF Wanted
  <2>3. <<>> \in Seq(Nat) /\ Range(<<>>) = {} /\ Len(<<>>) = 0
    BY DEF Range
  <2> QED BY <2>1, <2>2, <2>3 DEF InOrder
<1>5. 0 \in Good
  <2> SUFFICES ASSUME NEW m \in Nat, m + 0 >= n PROVE InOrder(g[m], Wanted(table, params, m))
    OBVIOUS
  <2>1. ~HasNext(table, m)
    BY <1>1, <1>2
  <2> QED BY <2>1, <1>4
<1>6. ASSUME NEW k \in Nat, k \in Good PROVE k + 1 \in Good
  <2> SUFFICES ASSUME NEW m \in Nat, m + (k + 1) >= n PROVE InOrder(g[m], Wanted(table, params, m))
    OBVIOUS
  <2>1. CASE HasNext(table, m)
    <3> DEFINE a == Seek(table, m)
    <3>1. /\ a \in Nat /\ a + 1 \in Nat /\ m < a + 1 /\ m <= a /\ (a + 1) + k >= n
          /\ a \in DOMAIN table.records
      BY <2>1, <1>1, <1>2
    <3>2. InOrder(g[a + 1], Wanted(table, params, a + 1))
      BY <3>1, <1>6
    <3>3. g[m] = Chosen(table, params, a) \o g[a + 1]
      BY <2>1, <1>3 DEF FoundFrom
    <3>4. \A b \in DOMAIN table.records : b >= m => b = a \/ b >= a + 1
      BY <2>1, SeekIs
    <3>5. \A b \in DOMAIN table.records : b \in Nat
      <4> TAKE b \in DOMAIN table.records
      <4>1. b \in 1 .. table.next - 1
        BY DEF SpaceInv
      <4> QED BY <4>1
    <3> HIDE DEF a
    <3>6. \A b \in DOMAIN table.records : b >= a + 1 => b >= m /\ a < b
      BY <3>1, <3>5
    <3>7. CASE IsMatch(table.schema, table.records[a], params)
      <4>1. Wanted(table, params, m) = {a} \cup Wanted(table, params, a + 1)
        BY <3>1, <3>4, <3>6, <3>7 DEF Wanted
      <4>2. \A w \in Wanted(table, params, a + 1) : a < w
        BY <3>6 DEF Wanted
      <4>3. Chosen(table, params, a) = <<a>>
        BY <3>7 DEF Chosen
      <4> QED BY <3>1, <3>2, <3>3, <4>1, <4>2, <4>3, OneInFront
    <3>8. CASE ~IsMatch(table.schema, table.records[a], params)
      <4>1. Wanted(table, params, m) = Wanted(table, params, a + 1)
        BY <3>1, <3>4, <3>6, <3>8 DEF Wanted
      <4>2. Chosen(table, params, a) = <<>>
        BY <3>8 DEF Chosen
      <4>3. g[a + 1] \in Seq(Nat)
        BY <3>2 DEF InOrder
      <4>4. g[m] = g[a + 1]
        BY <3>3, <4>2, <4>3, ConcatEmptySeq
      <4> QED BY <3>2, <4>1, <4>4
    <3> QED BY <3>7, <3>8
  <2> QED BY <2>1, <1>4
<1>7. n \in Good
  <2> HIDE DEF Good
  <2> QED BY <1>1, <1>5, <1>6, Induction
<1>8. m0 + n >= n
  BY <1>1
<1> QED BY <1>7, <1>8

(* So does Matching.                                                       *)
LEMMA MatchingFinds ==
  ASSUME NEW table, SpaceInv(table), NEW params
  PROVE  InOrder(Matching(table, params),
                 {a \in DOMAIN table.records : IsMatch(table.schema, table.records[a], params)})
<1> DEFINE f == CHOOSE g : Finds(table, params, g)
<1>1. Finds(table, params, f)
  BY FindsExists
<1>2. Matching(table, params) = f[1]
  BY MatchingIs
<1> HIDE DEF f
<1>3. InOrder(f[1], Wanted(table, params, 1))
  BY <1>1, ScanFinds
<1>4. \A a \in DOMAIN table.records : a >= 1
  <2> TAKE a \in DOMAIN table.records
  <2>1. a \in 1 .. table.next - 1
    BY DEF SpaceInv
  <2> QED BY <2>1
<1>5. Wanted(table, params, 1) =
         {a \in DOMAIN table.records : IsMatch(table.schema, table.records[a], params)}
  BY <1>4 DEF Wanted
<1> QED BY <1>2, <1>3, <1>5

-----------------------------------------------------------------------------
(* The array of a select.                                                  *)

(* The recursive function of the fold in SelectRecords.                    *)
Stores(rows, base, g) ==
    g = [s \in SUBSET DOMAIN rows |->
            IF s = {} THEN base ELSE InsertPointer(g[s \ {Max(s)}], rows[Max(s)])]

(* The fold is that function at all positions.                              *)
LEMMA StoringIs ==
  ASSUME NEW rows, NEW base
  PROVE  FoldLeft(InsertPointer, base, rows) = (CHOOSE g : Stores(rows, base, g))[DOMAIN rows]
BY Zenon DEF FoldLeft, MapThenFoldSet, Stores

(* An array that has room for one more.                                     *)
Pointers == Nat \cup {Null}
Arrays == {r \in [data_ptrs : Seq(Pointers), record_num : Nat] : r.record_num < Len(r.data_ptrs)}

(* Inserting stores a pointer behind the others, and leaves room for one.    *)
LEMMA InsertPointerStores ==
  ASSUME NEW r \in Arrays, NEW a \in Nat
  PROVE  LET new == InsertPointer(r, a)
         IN  /\ new \in Arrays
             /\ new.record_num = r.record_num + 1
             /\ new.data_ptrs[r.record_num + 1] = a
             /\ \A i \in 1 .. r.record_num : new.data_ptrs[i] = r.data_ptrs[i]
<1> DEFINE old == r.data_ptrs
           k == r.record_num
           n == Len(old)
           stored == [old EXCEPT ![k + 1] = a]
           more == [i \in 1 .. n |-> Null]
           ptrs == IF k + 1 = n THEN stored \o more ELSE stored
<1>1. old \in Seq(Pointers) /\ k \in Nat /\ k < n /\ n \in Nat
  BY DEF Arrays
<1>2. k + 1 \in 1 .. n /\ \A i \in 1 .. k : i \in 1 .. n /\ i # k + 1
  BY <1>1
<1>3. stored \in Seq(Pointers) /\ Len(stored) = n
  <2>1. old \in [1 .. n -> Pointers] /\ a \in Pointers
    BY <1>1 DEF Pointers
  <2>2. stored \in [1 .. n -> Pointers]
    BY <2>1
  <2> QED BY <1>1, <2>2
<1>4. stored[k + 1] = a /\ \A i \in 1 .. k : stored[i] = old[i]
  BY <1>1, <1>2
<1>5. InsertPointer(r, a) = [data_ptrs |-> ptrs, record_num |-> k + 1]
  <2>1. Len(stored) = n
    BY <1>3
  <2> HIDE DEF n
  <2>2. InsertPointer(r, a) =
           [data_ptrs |-> IF k + 1 = Len(stored) THEN stored \o [i \in 1 .. Len(stored) |-> Null]
                          ELSE stored,
            record_num |-> k + 1]
    BY DEF InsertPointer
  <2> QED BY <2>1, <2>2
<1>6. more \in Seq(Pointers) /\ Len(more) = n
  <2>1. Null \in Pointers
    BY DEF Pointers
  <2>2. more \in [1 .. n -> Pointers]
    BY <2>1
  <2> QED BY <1>1, <2>2
<1> HIDE DEF stored, more, old, k, n
<1>7. ptrs \in Seq(Pointers) /\ k + 1 < Len(ptrs) /\ \A i \in 1 .. n : ptrs[i] = stored[i]
  <2>1. CASE k + 1 = n
    <3>1. /\ stored \o more \in Seq(Pointers) /\ Len(stored \o more) = n + n
          /\ \A i \in 1 .. n + n : (stored \o more)[i] = IF i <= n THEN stored[i] ELSE more[i - n]
      BY <1>3, <1>6, ConcatProperties
    <3>2. \A i \in 1 .. n : i \in 1 .. n + n /\ i <= n
      BY <1>1
    <3>3. k + 1 < n + n
      BY <1>1, <2>1
    <3> QED BY <2>1, <3>1, <3>2, <3>3
  <2>2. CASE k + 1 # n
    BY <1>1, <1>3, <2>2
  <2> QED BY <2>1, <2>2
<1> HIDE DEF ptrs
<1>8. /\ InsertPointer(r, a).data_ptrs = ptrs /\ InsertPointer(r, a).record_num = k + 1
      /\ InsertPointer(r, a) \in [data_ptrs : Seq(Pointers), record_num : Nat]
  BY <1>1, <1>5, <1>7
<1>9. InsertPointer(r, a) \in Arrays
  BY <1>7, <1>8 DEF Arrays
<1> QED BY <1>2, <1>4, <1>7, <1>8, <1>9 DEF k, old

(* What h[i] is after i of the rows.                                        *)
Holds(r, rows, i) ==
    /\ r \in Arrays
    /\ r.record_num = i
    /\ \A j \in 1 .. i : r.data_ptrs[j] = rows[j]

(* The array holds all rows in the end.                                     *)
LEMMA ArrayHolds ==
  ASSUME NEW rows \in Seq(Nat)
  PROVE  Holds(FoldLeft(InsertPointer, EmptyRecords(FetchSize), rows), rows, Len(rows))
<1> DEFINE n == Len(rows)
           base == EmptyRecords(FetchSize)
           F == [p \in (1 .. n) \X Arrays |-> InsertPointer(p[2], rows[p[1]])]
           f == CHOOSE g : Stores(rows, base, g)
           Good == {i \in Nat : i <= n => Holds(f[1 .. i], rows, i)}
<1>1. n \in Nat /\ DOMAIN rows = 1 .. n /\ \A i \in 1 .. n : rows[i] \in Nat
  OBVIOUS
<1>2. base \in Arrays /\ base.record_num = 0
  <2> DEFINE nulls == [i \in 1 .. FetchSize |-> Null]
  <2>1. FetchSize \in Nat \ {0} /\ Null \in Pointers
    BY StorageAssumption DEF StorageAssumption, Pointers
  <2>2. nulls \in [1 .. FetchSize -> Pointers]
    BY <2>1
  <2>3. nulls \in Seq(Pointers) /\ Len(nulls) = FetchSize
    BY <2>1, <2>2
  <2>4. base = [data_ptrs |-> nulls, record_num |-> 0]
    BY DEF EmptyRecords
  <2> HIDE DEF nulls, base
  <2>5. base \in [data_ptrs : Seq(Pointers), record_num : Nat] /\ base.record_num = 0
        /\ base.data_ptrs = nulls
    BY <2>3, <2>4
  <2>6. 0 < FetchSize
    BY <2>1
  <2> QED BY <2>3, <2>5, <2>6 DEF Arrays
<1> HIDE DEF n, base
<1>3. F \in [(1 .. n) \X Arrays -> Arrays]
  BY <1>1, InsertPointerStores
<1>4. \A i \in 1 .. n : \A r \in Arrays : F[<<i, r>>] = InsertPointer(r, rows[i])
  OBVIOUS
<1> HIDE DEF F
<1>5. PICK g \in [SUBSET (1 .. n) -> Arrays] : Folds(n, base, F, g)
  BY <1>1, <1>2, <1>3, FoldExists, Zenon
<1>6. Stores(rows, base, g)
  <2>1. ASSUME NEW s \in SUBSET (1 .. n), s # {}
        PROVE  F[<<Max(s), g[s \ {Max(s)}]>>] = InsertPointer(g[s \ {Max(s)}], rows[Max(s)])
    <3>1. Max(s) \in 1 .. n
      BY <1>1, <2>1, GreatestElement
    <3>2. g[s \ {Max(s)}] \in Arrays
      OBVIOUS
    <3> QED BY <3>1, <3>2, <1>4
  <2>2. g = [s \in SUBSET (1 .. n) |-> IF s = {} THEN base ELSE F[<<Max(s), g[s \ {Max(s)}]>>]]
    BY <1>5 DEF Folds
  <2>3. g = [s \in SUBSET (1 .. n) |->
                IF s = {} THEN base ELSE InsertPointer(g[s \ {Max(s)}], rows[Max(s)])]
    BY <2>1, <2>2
  <2> QED BY <2>3, <1>1 DEF Stores
<1>7. Stores(rows, base, f)
  BY <1>6
<1>8. FoldLeft(InsertPointer, base, rows) = f[1 .. n]
  BY StoringIs, <1>1
<1> HIDE DEF f
<1>9. f[{}] = base
  BY <1>7 DEF Stores
<1>10. \A i \in 1 .. n : f[1 .. i] = InsertPointer(f[1 .. (i - 1)], rows[i])
  <2> TAKE i \in 1 .. n
  <2>1. Max(1 .. i) = i /\ (1 .. i) \ {i} = 1 .. (i - 1) /\ 1 .. i # {} /\ 1 .. i \in SUBSET (1 .. n)
    <3>1. i \in Nat \ {0} /\ 1 .. i \in SUBSET (1 .. n)
      BY <1>1
    <3>2. Max(1 .. i) = i /\ (1 .. i) \ {i} = 1 .. (i - 1) /\ 1 .. i # {}
      BY <3>1, UptoLast, Zenon
    <3> QED BY <3>1, <3>2
  <2>2. f[1 .. i] = InsertPointer(f[(1 .. i) \ {Max(1 .. i)}], rows[Max(1 .. i)])
    BY <2>1, <1>1, <1>7 DEF Stores
  <2> QED BY <2>1, <2>2
<1>11. 0 \in Good
  <2>1. 1 .. 0 = {}
    OBVIOUS
  <2>2. Holds(f[1 .. 0], rows, 0)
    BY <2>1, <1>2, <1>9 DEF Holds
  <2> QED BY <2>2
<1>12. ASSUME NEW i \in Nat, i \in Good PROVE i + 1 \in Good
  <2> SUFFICES ASSUME i + 1 <= n PROVE Holds(f[1 .. (i + 1)], rows, i + 1)
    OBVIOUS
  <2>1. Holds(f[1 .. i], rows, i) /\ i + 1 \in 1 .. n /\ (i + 1) - 1 = i
    BY <1>1, <1>12
  <2>2. f[1 .. (i + 1)] = InsertPointer(f[1 .. i], rows[i + 1]) /\ rows[i + 1] \in Nat
    BY <2>1, <1>1, <1>10
  <2> DEFINE r == f[1 .. i]
             new == f[1 .. (i + 1)]
             a == rows[i + 1]
  <2>3. r \in Arrays /\ r.record_num = i /\ \A j \in 1 .. i : r.data_ptrs[j] = rows[j]
    BY <2>1 DEF Holds
  <2>4. new = InsertPointer(r, a) /\ a \in Nat
    BY <2>2
  <2> HIDE DEF r, new, a
  <2>5. /\ new \in Arrays /\ new.record_num = i + 1
        /\ new.data_ptrs[i + 1] = a
        /\ \A j \in 1 .. i : new.data_ptrs[j] = r.data_ptrs[j]
    BY <2>3, <2>4, InsertPointerStores
  <2>6. \A j \in 1 .. i + 1 : new.data_ptrs[j] = rows[j]
    <3> TAKE j \in 1 .. i + 1
    <3>1. j \in 1 .. i \/ j = i + 1
      OBVIOUS
    <3> QED BY <3>1, <2>3, <2>5 DEF a
  <2> QED BY <2>5, <2>6 DEF Holds, new
<1>13. n \in Good
  <2> HIDE DEF Good
  <2> QED BY <1>1, <1>11, <1>12, Induction
<1>14. Holds(f[1 .. n], rows, n)
  BY <1>1, <1>13
<1> QED BY <1>8, <1>14 DEF n, base

(* The result of a scan is what it found, each record once.                 *)
LEMMA ResultOfScan ==
  ASSUME NEW rows, NEW W, InOrder(rows, W)
  PROVE  LET copied == ConstRecords(FoldLeft(InsertPointer, EmptyRecords(FetchSize), rows))
         IN  Range(copied) = W /\ Len(copied) = Cardinality(W)
<1> DEFINE r == FoldLeft(InsertPointer, EmptyRecords(FetchSize), rows)
           n == Len(rows)
<1>1. rows \in Seq(Nat) /\ Range(rows) = W /\ n \in Nat /\ Cardinality(W) = n
  BY OrderedCount DEF InOrder
<1>2. r \in Arrays /\ r.record_num = n /\ \A j \in 1 .. n : r.data_ptrs[j] = rows[j]
  BY <1>1, ArrayHolds DEF Holds
<1> HIDE DEF r
<1>3. r.data_ptrs \in Seq(Pointers) /\ n < Len(r.data_ptrs)
  BY <1>2 DEF Arrays
<1>4. SubSeq(r.data_ptrs, 1, n) = [j \in 1 .. n |-> r.data_ptrs[j]]
  BY <1>1, <1>3
<1>5. SubSeq(r.data_ptrs, 1, n) = rows
  <2>1. rows = [j \in 1 .. n |-> rows[j]]
    BY <1>1
  <2>2. [j \in 1 .. n |-> r.data_ptrs[j]] = [j \in 1 .. n |-> rows[j]]
    BY <1>2
  <2> QED BY <1>4, <2>1, <2>2
<1>6. ConstRecords(r) = rows
  BY <1>2, <1>5 DEF ConstRecords
<1> QED BY <1>1, <1>6 DEF r

-----------------------------------------------------------------------------
(* The indexes hold every record under its key, and nothing else.           *)

EntriesOf(table, cols) ==
    {<<KeySymbol(table.schema, table.records[a], cols), a>> : a \in DOMAIN table.records}
InPrimary(table, a) ==
    LET k == PrimaryKeySymbol(table.schema, table.records[a])
    IN  k \in DOMAIN table.primary /\ table.primary[k] = a

Indexed(table) ==
    /\ table.schema.primary_cols # <<>> => \A a \in DOMAIN table.records : InPrimary(table, a)
    /\ \A cols \in Indexes(table) : table.secondary[cols] = EntriesOf(table, cols)

(* insertRecord enters the record into every index.                         *)
LEMMA InsertRecordIndexes ==
  ASSUME NEW table, TableInv(table), Indexed(table), NEW row \in Row(table.schema),
         PrimaryKeySymbol(table.schema, row) \notin DOMAIN table.primary
  PROVE  Indexed(InsertRecord(table, row)) /\ Indexes(InsertRecord(table, row)) = Indexes(table)
<1> DEFINE mid == Place(table, row)[2]
           slot == Place(table, row)[1]
           key == PrimaryKeySymbol(table.schema, row)
           keys == KeySymbols(table.schema, row, Indexes(table))
           new == InsertRecord(table, row)
<1>1. Placed(table, row, slot, mid)
  BY PlaceKeepsSpace DEF TableInv
<1>2. DOMAIN mid = Fields /\ mid.primary = table.primary /\ mid.secondary = table.secondary
  BY <1>1 DEF Placed
<1>3. new = [mid EXCEPT
                !.primary = IF table.schema.primary_cols = <<>> THEN @ ELSE UniqueInsert(@, key, slot),
                !.secondary = [cols \in DOMAIN @ |-> MultiInsert(@[cols], keys[cols], slot)]]
  BY DEF InsertRecord
<1>4. Inserted(table, row, slot, new)
  BY InsertRecordKeeps
<1> HIDE DEF new, mid, key, slot, keys
<1>5. /\ new.primary = IF table.schema.primary_cols = <<>> THEN table.primary
                       ELSE UniqueInsert(table.primary, key, slot)
      /\ new.secondary = [cols \in Indexes(table) |->
                             MultiInsert(table.secondary[cols], keys[cols], slot)]
  BY <1>2, <1>3 DEF Fields, Indexes
<1>6. /\ new.schema = table.schema /\ slot \notin DOMAIN table.records
      /\ DOMAIN new.records = DOMAIN table.records \cup {slot} /\ new.records[slot] = row
      /\ \A a \in DOMAIN table.records : new.records[a] = table.records[a]
  BY <1>4 DEF Inserted
<1>7. Indexes(new) = Indexes(table)
  BY <1>5 DEF Indexes
<1>8. ASSUME NEW cols \in Indexes(table) PROVE new.secondary[cols] = EntriesOf(new, cols)
  <2>1. keys[cols] = KeySymbol(table.schema, row, cols)
    BY DEF keys, KeySymbols
  <2>2. new.secondary[cols] =
            EntriesOf(table, cols) \cup {<<KeySymbol(table.schema, row, cols), slot>>}
    BY <1>5, <2>1 DEF MultiInsert, Indexed
  <2>3. \A a \in DOMAIN table.records :
           KeySymbol(new.schema, new.records[a], cols) = KeySymbol(table.schema, table.records[a], cols)
    BY <1>6
  <2>4. KeySymbol(new.schema, new.records[slot], cols) = KeySymbol(table.schema, row, cols)
    BY <1>6
  <2>5. EntriesOf(new, cols) =
            EntriesOf(table, cols) \cup {<<KeySymbol(table.schema, row, cols), slot>>}
    BY <1>6, <2>3, <2>4 DEF EntriesOf
  <2> QED BY <2>2, <2>5
<1>9. ASSUME new.schema.primary_cols # <<>>, NEW a \in DOMAIN new.records
      PROVE  InPrimary(new, a)
  <2>1. new.primary = UniqueInsert(table.primary, key, slot)
    BY <1>5, <1>6, <1>9
  <2>2. key \notin DOMAIN table.primary
    BY DEF key
  <2>3. CASE a = slot
    <3>1. PrimaryKeySymbol(new.schema, new.records[a]) = key
      BY <2>3, <1>6 DEF key
    <3>2. key \in DOMAIN new.primary /\ new.primary[key] = slot
      BY <2>1, <2>2 DEF UniqueInsert
    <3> QED BY <2>3, <3>1, <3>2 DEF InPrimary
  <2>4. CASE a # slot
    <3> DEFINE k == PrimaryKeySymbol(table.schema, table.records[a])
    <3>1. a \in DOMAIN table.records
      BY <2>4, <1>6, <1>9
    <3>2. PrimaryKeySymbol(new.schema, new.records[a]) = k
      BY <3>1, <1>6
    <3>3. k \in DOMAIN table.primary /\ table.primary[k] = a
      BY <3>1, <1>6, <1>9 DEF Indexed, InPrimary
    <3> HIDE DEF k
    <3>4. k \in DOMAIN new.primary /\ new.primary[k] = a
      BY <2>1, <3>3 DEF UniqueInsert
    <3> QED BY <3>2, <3>4 DEF InPrimary
  <2> QED BY <2>3, <2>4
<1>10. Indexed(new)
  BY <1>7, <1>8, <1>9 DEF Indexed
<1> QED BY <1>7, <1>10 DEF new

(* deleteRecord takes its entries away, and no other's: nobody else has its  *)
(* keys.                                                                   *)
LEMMA DeleteRecordIndexes ==
  ASSUME NEW table, TableInv(table), Indexed(table), NEW a \in DOMAIN table.records,
         \A cols \in Indexes(table) : \A b \in DOMAIN table.records \ {a} :
              KeySymbol(table.schema, table.records[a], cols) #
                  KeySymbol(table.schema, table.records[b], cols)
  PROVE  Indexed(DeleteRecord(table, a)) /\ Indexes(DeleteRecord(table, a)) = Indexes(table)
<1> DEFINE mid == Release(table, a)
           row == table.records[a]
           key == PrimaryKeySymbol(table.schema, row)
           keys == KeySymbols(table.schema, row, Indexes(table))
           new == DeleteRecord(table, a)
<1>1. Released(table, a, mid)
  BY ReleaseKeepsSpace DEF TableInv
<1>2. DOMAIN mid = Fields /\ mid.primary = table.primary /\ mid.secondary = table.secondary
  BY <1>1 DEF Released
<1>3. new = [mid EXCEPT
                !.primary = IF table.schema.primary_cols = <<>> THEN @ ELSE UniqueErase(@, key),
                !.secondary = [cols \in DOMAIN @ |-> MultiErase(@[cols], keys[cols])]]
  BY DEF DeleteRecord
<1>4. Deleted(table, a, new)
  BY DeleteRecordKeeps
<1> HIDE DEF new, mid, key, keys
<1>5. /\ new.primary = IF table.schema.primary_cols = <<>> THEN table.primary
                       ELSE UniqueErase(table.primary, key)
      /\ new.secondary = [cols \in Indexes(table) |-> MultiErase(table.secondary[cols], keys[cols])]
  BY <1>2, <1>3 DEF Fields, Indexes
<1>6. /\ new.schema = table.schema
      /\ DOMAIN new.records = DOMAIN table.records \ {a}
      /\ \A b \in DOMAIN new.records : new.records[b] = table.records[b]
  BY <1>4 DEF Deleted
<1>7. Indexes(new) = Indexes(table)
  BY <1>5 DEF Indexes
<1>8. ASSUME NEW cols \in Indexes(table) PROVE new.secondary[cols] = EntriesOf(new, cols)
  <2> DEFINE K(b) == KeySymbol(table.schema, table.records[b], cols)
  <2>1. keys[cols] = K(a)
    BY DEF keys, KeySymbols
  <2>2. new.secondary[cols] = {e \in EntriesOf(table, cols) : e[1] # K(a)}
    BY <1>5, <2>1 DEF MultiErase, Indexed
  <2>3. EntriesOf(table, cols) = {<<K(b), b>> : b \in DOMAIN table.records}
    BY DEF EntriesOf
  <2>4. \A b \in DOMAIN new.records : KeySymbol(new.schema, new.records[b], cols) = K(b)
    BY <1>6
  <2>5. EntriesOf(new, cols) = {<<K(b), b>> : b \in DOMAIN new.records}
    BY <2>4 DEF EntriesOf
  <2>6. \A b \in DOMAIN table.records : b # a <=> K(b) # K(a)
    OBVIOUS
  <2> HIDE DEF K
  <2> QED BY <2>2, <2>3, <2>5, <2>6, <1>6
<1>9. ASSUME new.schema.primary_cols # <<>>, NEW b \in DOMAIN new.records
      PROVE  InPrimary(new, b)
  <2> DEFINE k == PrimaryKeySymbol(table.schema, table.records[b])
  <2>1. new.primary = UniqueErase(table.primary, key)
    BY <1>5, <1>6, <1>9
  <2>2. b \in DOMAIN table.records /\ b # a /\ PrimaryKeySymbol(new.schema, new.records[b]) = k
    BY <1>6, <1>9
  <2>3. k \in DOMAIN table.primary /\ table.primary[k] = b
    BY <2>2, <1>6, <1>9 DEF Indexed, InPrimary
  <2>4. key \in DOMAIN table.primary /\ table.primary[key] = a
    BY <1>6, <1>9 DEF Indexed, InPrimary, key
  <2> HIDE DEF k
  <2>5. k # key
    BY <2>2, <2>3, <2>4
  <2>6. k \in DOMAIN new.primary /\ new.primary[k] = b
    BY <2>1, <2>3, <2>5 DEF UniqueErase
  <2> QED BY <2>2, <2>6 DEF InPrimary
<1>10. Indexed(new)
  BY <1>7, <1>8, <1>9 DEF Indexed
<1> QED BY <1>7, <1>10 DEF new

(* No update writes a column of a key.                                      *)
LEMMA UpdateWritesNoKey ==
  ASSUME NEW t \in DOMAIN Catalog, NEW change \in Changes[t]
  PROVE  LET schema == Catalog[t].schema
             n      == Len(change.cols)
         IN  /\ n \in Nat
             /\ NoneWritten(schema, n, change.cols, schema.primary_cols)
             /\ \A cols \in Catalog[t].indexes : NoneWritten(schema, n, change.cols, cols)
<1> DEFINE schema == Catalog[t].schema
           n == Len(change.cols)
<1>1. /\ n \in Nat /\ DOMAIN change.cols = 1 .. n
      /\ \A i \in 1 .. n : \A j \in DOMAIN schema.primary_cols :
            schema.primary_cols[j] # change.cols[i]
  BY ChangeIs
<1>2. LaidOut(schema)
  BY CatalogIs DEF Laid
<1>3. NoneWritten(schema, n, change.cols, schema.primary_cols)
  BY <1>1, <1>2 DEF LaidOut, NoneWritten
<1>4. ASSUME NEW cols \in Catalog[t].indexes
      PROVE  NoneWritten(schema, n, change.cols, cols)
  <2>1. cols \in Seq(DOMAIN schema.columns)
    BY StorageAssumption DEF StorageAssumption
  <2>2. \A i \in DOMAIN change.cols : \A j \in DOMAIN cols : cols[j] # change.cols[i]
    BY StorageAssumption DEF StorageAssumption
  <2>3. \A j \in DOMAIN cols : cols[j] \in DOMAIN schema.columns
    BY <2>1
  <2> QED BY <1>1, <2>2, <2>3 DEF NoneWritten
<1> QED BY <1>1, <1>3, <1>4

(* updateRecord leaves the indexes alone, and may do so.                    *)
LEMMA UpdateRecordIndexes ==
  ASSUME NEW t \in DOMAIN Catalog, NEW table, TableInv(table), Indexed(table),
         table.schema = Catalog[t].schema, Indexes(table) = Catalog[t].indexes,
         NEW a \in DOMAIN table.records, NEW change \in Changes[t]
  PROVE  /\ Indexed(UpdateRecord(table, a, change))
         /\ Indexes(UpdateRecord(table, a, change)) = Indexes(table)
<1> DEFINE new == UpdateRecord(table, a, change)
           n == Len(change.cols)
<1>1. DOMAIN table = Fields
  BY DEF TableInv, SpaceInv
<1>2. new.primary = table.primary /\ new.secondary = table.secondary
  BY <1>1 DEF UpdateRecord, Fields
<1>3. Updated(table, a, change, new)
  BY UpdateRecordKeeps
<1> HIDE DEF new
<1>4. /\ new.schema = table.schema /\ DOMAIN new.records = DOMAIN table.records
      /\ \A b \in DOMAIN table.records : b # a => new.records[b] = table.records[b]
      /\ Written(table.schema, n, change.cols, change.values, table.records[a], new.records[a])
  BY <1>3 DEF Updated
<1>5. /\ n \in Nat
      /\ NoneWritten(table.schema, n, change.cols, table.schema.primary_cols)
      /\ \A cols \in Indexes(table) : NoneWritten(table.schema, n, change.cols, cols)
  <2> DEFINE schema == Catalog[t].schema
  <2>1. /\ n \in Nat
        /\ NoneWritten(schema, n, change.cols, schema.primary_cols)
        /\ \A cols \in Catalog[t].indexes : NoneWritten(schema, n, change.cols, cols)
    BY UpdateWritesNoKey
  <2>2. table.schema = schema
    OBVIOUS
  <2> HIDE DEF n, schema
  <2> QED BY <2>1, <2>2
<1> HIDE DEF n
<1>6. ASSUME NEW list, NoneWritten(table.schema, n, change.cols, list),
             NEW b \in DOMAIN table.records
      PROVE  KeySymbol(new.schema, new.records[b], list) = KeySymbol(table.schema, table.records[b], list)
  <2>1. CASE b = a
    <3> DEFINE schema == table.schema
               old == table.records[a]
               row == new.records[a]
    <3>1. /\ n \in Nat /\ NoneWritten(schema, n, change.cols, list)
          /\ Written(schema, n, change.cols, change.values, old, row)
      BY <1>4, <1>5, <1>6
    <3> HIDE DEF schema, old, row
    <3>2. SameKey(schema, old, row, list)
      BY <3>1, KeyKept, Zenon
    <3>3. KeySymbol(schema, row, list) = KeySymbol(schema, old, list)
      BY <3>2 DEF SameKey
    <3> QED BY <2>1, <3>3, <1>4 DEF schema, old, row
  <2>2. CASE b # a
    BY <2>2, <1>4
  <2> QED BY <2>1, <2>2
<1>7. Indexes(new) = Indexes(table)
  BY <1>2 DEF Indexes
<1>8. ASSUME NEW cols \in Indexes(table) PROVE new.secondary[cols] = EntriesOf(new, cols)
  <2>1. new.secondary[cols] = EntriesOf(table, cols)
    BY <1>2 DEF Indexed
  <2>2. \A b \in DOMAIN table.records :
           KeySymbol(new.schema, new.records[b], cols) = KeySymbol(table.schema, table.records[b], cols)
    BY <1>5, <1>6
  <2>3. EntriesOf(new, cols) = EntriesOf(table, cols)
    BY <2>2, <1>4 DEF EntriesOf
  <2> QED BY <2>1, <2>3
<1>9. ASSUME new.schema.primary_cols # <<>>, NEW b \in DOMAIN new.records
      PROVE  InPrimary(new, b)
  <2> DEFINE schema == table.schema
             k == PrimaryKeySymbol(schema, table.records[b])
  <2>1. b \in DOMAIN table.records /\ schema.primary_cols # <<>>
    BY <1>4, <1>9
  <2>2. schema.key_length # 0
    <3>1. LaidOut(schema)
      BY CatalogIs DEF Laid
    <3> QED BY <2>1, <3>1 DEF LaidOut
  <2>3. PrimaryKeySymbol(new.schema, new.records[b]) = k
    <3>1. KeySymbol(new.schema, new.records[b], schema.primary_cols)
              = KeySymbol(schema, table.records[b], schema.primary_cols)
      BY <2>1, <1>5, <1>6
    <3>2. new.schema = schema
      BY <1>4
    <3> HIDE DEF schema
    <3> QED BY <2>2, <3>1, <3>2 DEF PrimaryKeySymbol
  <2>4. k \in DOMAIN table.primary /\ table.primary[k] = b
    BY <2>1 DEF Indexed, InPrimary
  <2> HIDE DEF k
  <2> QED BY <2>3, <2>4, <1>2 DEF InPrimary
<1>10. Indexed(new)
  BY <1>7, <1>8, <1>9 DEF Indexed
<1> QED BY <1>7, <1>10 DEF new

-----------------------------------------------------------------------------
(* Every table has the indexes of the catalog, and they are exact.          *)
IndexInv == \A t \in DOMAIN tables : /\ Indexes(tables[t]) = Catalog[t].indexes
                                     /\ Indexed(tables[t])

(* A table that changes keeps its indexes.                                  *)
LEMMA OneIndexed ==
  ASSUME IndexInv, NEW t \in DOMAIN tables, NEW new, tables' = [tables EXCEPT ![t] = new],
         Indexed(new), Indexes(new) = Indexes(tables[t])
  PROVE  IndexInv'
<1>1. /\ DOMAIN tables' = DOMAIN tables /\ tables'[t] = new
      /\ \A u \in DOMAIN tables : u # t => tables'[u] = tables[u]
  OBVIOUS
<1>2. \A u \in DOMAIN tables : Indexes(tables[u]) = Catalog[u].indexes /\ Indexed(tables[u])
  BY DEF IndexInv
<1>3. \A u \in DOMAIN tables : Indexes(tables'[u]) = Catalog[u].indexes /\ Indexed(tables'[u])
  <2> TAKE u \in DOMAIN tables
  <2>1. CASE u = t
    BY <2>1, <1>1, <1>2
  <2>2. CASE u # t
    BY <2>2, <1>1, <1>2
  <2> QED BY <2>1, <2>2
<1> QED BY <1>1, <1>3 DEF IndexInv

(* The indexes of a new table are empty, as it is.                          *)
LEMMA RegisterTableIndexes ==
  ASSUME IndexInv, NEW t \in DOMAIN Catalog, RegisterTable(t)
  PROVE  IndexInv'
<1> DEFINE new == NewTable(Catalog[t].schema, Catalog[t].indexes)
<1>1. /\ DOMAIN tables' = DOMAIN tables \cup {t} /\ tables'[t] = new
      /\ \A u \in DOMAIN tables : u # t => tables'[u] = tables[u]
  BY DEF RegisterTable
<1>2. new.records = <<>> /\ new.secondary = [cols \in Catalog[t].indexes |-> {}]
  BY DEF NewTable
<1> HIDE DEF new
<1>3. DOMAIN new.records = {} /\ Indexes(new) = Catalog[t].indexes
      /\ \A cols \in Catalog[t].indexes : new.secondary[cols] = {}
  BY <1>2 DEF Indexes
<1>4. Indexed(new)
  <2>1. \A cols : EntriesOf(new, cols) = {}
    BY <1>3 DEF EntriesOf
  <2> QED BY <2>1, <1>3 DEF Indexed
<1>5. ASSUME NEW u \in DOMAIN tables'
      PROVE  Indexes(tables'[u]) = Catalog[u].indexes /\ Indexed(tables'[u])
  <2>1. CASE u = t
    BY <2>1, <1>1, <1>3, <1>4
  <2>2. CASE u # t
    <3>1. u \in DOMAIN tables /\ tables'[u] = tables[u]
      BY <2>2, <1>1, <1>5
    <3> QED BY <3>1 DEF IndexInv
  <2> QED BY <2>1, <2>2
<1> QED BY <1>5 DEF IndexInv

(* Every step keeps the indexes.                                            *)
LEMMA IndexNextInv ==
  StorageInv /\ IndexInv /\ [Next]_vars => IndexInv'
<1> SUFFICES ASSUME StorageInv, IndexInv, [Next]_vars PROVE IndexInv'
  OBVIOUS
<1>0. CatalogInv
  BY DEF StorageInv
<1>u. ASSUME tables' = tables PROVE IndexInv'
  BY <1>u DEF IndexInv
<1>1. CASE \E t \in DOMAIN Catalog : RegisterTable(t)
  BY <1>1, RegisterTableIndexes
<1>2. ASSUME NEW t \in DOMAIN tables, NEW values \in Offered[t], NEW filler \in Fillers,
             Insert(t, values, filler)
      PROVE  IndexInv'
  <2> DEFINE row == Buffer(tables[t].schema, values, filler)
             table == tables[t]
             new == InsertRecord(table, row)
  <2>1. row \in Row(table.schema)
    BY <1>0, BufferIsRow
  <2>2. /\ PrimaryKeySymbol(table.schema, row) \notin DOMAIN table.primary
        /\ tables' = [tables EXCEPT ![t] = new]
    BY <1>2 DEF Insert
  <2>3. TableInv(table) /\ Indexed(table)
    BY <1>0 DEF CatalogInv, IndexInv
  <2> HIDE DEF row
  <2>4. Indexed(new) /\ Indexes(new) = Indexes(table)
    BY <2>1, <2>2, <2>3, InsertRecordIndexes
  <2> HIDE DEF new
  <2> QED BY <2>2, <2>4, OneIndexed
<1>3. ASSUME NEW t \in DOMAIN tables, NEW a \in DOMAIN tables[t].records, Delete(t, a)
      PROVE  IndexInv'
  <2> DEFINE table == tables[t]
             new == DeleteRecord(table, a)
  <2>1. /\ \A cols \in Indexes(table) : \A b \in DOMAIN table.records \ {a} :
              KeySymbol(table.schema, table.records[a], cols) #
                  KeySymbol(table.schema, table.records[b], cols)
        /\ tables' = [tables EXCEPT ![t] = new]
    BY <1>3 DEF Delete
  <2>2. TableInv(table) /\ Indexed(table)
    BY <1>0 DEF CatalogInv, IndexInv
  <2>3. Indexed(new) /\ Indexes(new) = Indexes(table)
    BY <2>1, <2>2, DeleteRecordIndexes
  <2> HIDE DEF new
  <2> QED BY <2>1, <2>3, OneIndexed
<1>4. ASSUME NEW t \in DOMAIN tables, NEW a \in DOMAIN tables[t].records,
             NEW change \in Changes[t], Update(t, a, change)
      PROVE  IndexInv'
  <2> DEFINE table == tables[t]
             new == UpdateRecord(table, a, change)
  <2>1. tables' = [tables EXCEPT ![t] = new]
    BY <1>4 DEF Update
  <2>2. /\ TableInv(table) /\ Indexed(table)
        /\ t \in DOMAIN Catalog /\ table.schema = Catalog[t].schema
        /\ Indexes(table) = Catalog[t].indexes
    BY <1>0 DEF CatalogInv, IndexInv
  <2>3. Indexed(new) /\ Indexes(new) = Indexes(table)
    BY <2>2, UpdateRecordIndexes
  <2> HIDE DEF new
  <2> QED BY <2>1, <2>3, OneIndexed
<1>5. CASE \E t \in DOMAIN tables : ScanStart(t)
  BY <1>5, <1>u DEF ScanStart
<1>6. CASE ScanHasNext \/ ScanNext
  BY <1>6, <1>u DEF ScanHasNext, ScanNext
<1>7. CASE ScanEnd
  BY <1>7, <1>u DEF ScanEnd
<1>8. CASE DropAllTables \/ ScanRunsOff
  <2>1. DOMAIN tables' = {}
    BY <1>8 DEF DropAllTables, ScanRunsOff
  <2> QED BY <2>1 DEF IndexInv
<1>9. CASE UNCHANGED vars
  BY <1>9, <1>u DEF vars
<1> QED BY <1>1, <1>2, <1>3, <1>4, <1>5, <1>6, <1>7, <1>8, <1>9 DEF Next

(* After every call each index has exactly one entry of every record, under  *)
(* the bytes of its columns: what insertRecord enters and deleteRecord       *)
(* takes away adds up, and no update makes an entry stale.                  *)
THEOREM IndexesStayExact == Spec => []IndexInv
<1>1. Init => IndexInv
  BY DEF Init, IndexInv
<1> QED BY <1>1, StorageInvariant, IndexNextInv, PTL DEF Spec

(* What selecting in a table shall find.                                    *)
Sought(table, params) ==
    {a \in DOMAIN table.records : IsMatch(table.schema, table.records[a], params)}
FindsOne(W, one) == one # {} /\ one \subseteq IF W = {} THEN {Null} ELSE W

(* The primary index finds it.                                              *)
LEMMA PrimaryFinds ==
  ASSUME NEW table, TableInv(table), Indexed(table), table.schema \in Laid, NEW params,
         Asks(table.schema, params), params.cols = table.schema.primary_cols
  PROVE  FindsOne(Sought(table, params),
                  UniqueSearch(table.primary, PredicateDataSymbol(table.schema, params)))
<1> DEFINE schema == table.schema
           p == PredicateDataSymbol(schema, params)
           W == Sought(table, params)
<1>1. schema.primary_cols # <<>> /\ schema.key_length # 0
  <2>1. params.cols # <<>> /\ LaidOut(schema)
    BY DEF Asks, Laid
  <2> QED BY <2>1 DEF LaidOut
<1>2. \A a \in DOMAIN table.records :
         /\ table.records[a] \in Row(schema)
         /\ PrimaryKeySymbol(schema, table.records[a]) = KeySymbol(schema, table.records[a], params.cols)
  BY <1>1 DEF TableInv, EntryInv, PrimaryKeySymbol
<1>3. \A a \in DOMAIN table.records : PrimaryKeySymbol(schema, table.records[a]) = p <=> a \in W
  <2> TAKE a \in DOMAIN table.records
  <2>1. table.records[a] \in Row(schema)
    BY <1>2
  <2>2. KeySymbol(schema, table.records[a], params.cols) = p
           <=> IsMatch(schema, table.records[a], params)
    BY <2>1, KeyMeansMatch
  <2> QED BY <2>2, <1>2 DEF Sought
<1> HIDE DEF p
<1>4. W \subseteq DOMAIN table.records
  BY DEF Sought
<1> HIDE DEF W
<1>5. CASE p \in DOMAIN table.primary
  <2>1. table.primary[p] \in W
    BY <1>3, <1>5 DEF TableInv, EntryInv
  <2>2. UniqueSearch(table.primary, p) = {table.primary[p]}
    BY <1>5 DEF UniqueSearch
  <2> QED BY <2>1, <2>2 DEF FindsOne, p, W
<1>6. CASE p \notin DOMAIN table.primary
  <2>1. \A a \in DOMAIN table.records : PrimaryKeySymbol(schema, table.records[a]) \in DOMAIN table.primary
    BY <1>1 DEF Indexed, InPrimary
  <2>2. W = {}
    BY <2>1, <1>3, <1>4, <1>6
  <2>3. UniqueSearch(table.primary, p) = {Null}
    BY <1>6 DEF UniqueSearch
  <2> QED BY <2>2, <2>3 DEF FindsOne, p, W
<1> QED BY <1>5, <1>6

(* A secondary index finds all of it.                                       *)
LEMMA SecondaryFinds ==
  ASSUME NEW table, TableInv(table), Indexed(table), table.schema \in Laid, NEW params,
         Asks(table.schema, params), params.cols \in Indexes(table)
  PROVE  MultiSearchAll(table.secondary[params.cols], PredicateDataSymbol(table.schema, params))
            = Sought(table, params)
<1> DEFINE schema == table.schema
           p == PredicateDataSymbol(schema, params)
           K(a) == KeySymbol(schema, table.records[a], params.cols)
<1>1. table.secondary[params.cols] = {<<K(a), a>> : a \in DOMAIN table.records}
  BY DEF Indexed, EntriesOf
<1>2. \A a \in DOMAIN table.records : K(a) = p <=> IsMatch(schema, table.records[a], params)
  <2> TAKE a \in DOMAIN table.records
  <2>1. table.records[a] \in Row(schema)
    BY DEF TableInv, EntryInv
  <2> QED BY <2>1, KeyMeansMatch
<1> HIDE DEF p, K
<1>3. MultiSearchAll(table.secondary[params.cols], p) = {a \in DOMAIN table.records : K(a) = p}
  <2> DEFINE D == DOMAIN table.records
             m == table.secondary[params.cols]
             of == {e \in m : e[1] = p}
  <2>1. m = {<<K(a), a>> : a \in D} /\ MultiSearchAll(m, p) = {e[2] : e \in of}
    BY <1>1 DEF MultiSearchAll
  <2> HIDE DEF D, m
  <2>2. of = {<<K(a), a>> : a \in {b \in D : K(b) = p}}
    BY <2>1
  <2> HIDE DEF of
  <2>3. \A e \in of : e[2] \in D /\ K(e[2]) = p
    BY <2>2
  <2>4. \A a \in D : K(a) = p => <<K(a), a>> \in of /\ <<K(a), a>>[2] = a
    BY <2>2
  <2>5. {e[2] : e \in of} = {a \in D : K(a) = p}
    BY <2>3, <2>4
  <2> QED BY <2>1, <2>5 DEF D, m
<1> QED BY <1>2, <1>3 DEF Sought, p

(* selectRecord and selectRecords, on whatever path.                        *)
LEMMA SelectsFind ==
  ASSUME NEW table, TableInv(table), Indexed(table), table.schema \in Laid, NEW params,
         Asks(table.schema, params)
  PROVE  /\ FindsOne(Sought(table, params), SelectRecord(table, params))
         /\ SelectRecords(table, params) =
               [found |-> Sought(table, params), record_num |-> Cardinality(Sought(table, params))]
<1> DEFINE W == Sought(table, params)
           p == PredicateDataSymbol(table.schema, params)
           rows == Matching(table, params)
           copied == ConstRecords(FoldLeft(InsertPointer, EmptyRecords(FetchSize), rows))
           all == MultiSearchAll(table.secondary[params.cols], p)
<1>1. InOrder(rows, W)
  BY MatchingFinds DEF TableInv, Sought
<1>2. params.cols \in Indexes(table) => all = W
  BY SecondaryFinds
<1>3. Range(copied) = W /\ Len(copied) = Cardinality(W)
  BY <1>1, ResultOfScan
<1>4. /\ SelectRecord(table, params) =
            IF params.cols = table.schema.primary_cols THEN UniqueSearch(table.primary, p)
            ELSE IF params.cols \in Indexes(table) THEN MultiSearch(table.secondary[params.cols], p)
            ELSE IF rows = <<>> THEN {Null} ELSE {rows[1]}
      /\ SelectRecords(table, params) =
            IF params.cols \in Indexes(table)
            THEN [found |-> all, record_num |-> Cardinality(all)]
            ELSE [found |-> Range(copied), record_num |-> Len(copied)]
  BY DEF SelectRecord, SelectRecords
<1>5. params.cols = table.schema.primary_cols => FindsOne(W, UniqueSearch(table.primary, p))
  BY PrimaryFinds
<1>6. MultiSearch(table.secondary[params.cols], p) = IF all = {} THEN {Null} ELSE all
  BY DEF MultiSearch
<1>7. FindsOne(W, IF rows = <<>> THEN {Null} ELSE {rows[1]})
  <2>1. rows \in Seq(Nat) /\ Range(rows) = W
    BY <1>1 DEF InOrder
  <2>2. CASE rows = <<>>
    <3>1. W = {}
      BY <2>1, <2>2 DEF Range
    <3> QED BY <2>2, <3>1 DEF FindsOne
  <2>3. CASE rows # <<>>
    <3>1. 1 \in DOMAIN rows
      BY <2>1, <2>3
    <3>2. rows[1] \in W
      BY <2>1, <3>1 DEF Range
    <3> QED BY <2>3, <3>2 DEF FindsOne
  <2> QED BY <2>2, <2>3
<1> HIDE DEF W, p, rows, copied, all
<1>8. FindsOne(W, SelectRecord(table, params))
  <2>1. params.cols \in Indexes(table) => FindsOne(W, MultiSearch(table.secondary[params.cols], p))
    BY <1>2, <1>6 DEF FindsOne
  <2> QED BY <2>1, <1>4, <1>5, <1>7
<1>9. SelectRecords(table, params) = [found |-> W, record_num |-> Cardinality(W)]
  BY <1>2, <1>3, <1>4
<1> QED BY <1>8, <1>9 DEF W

(* What the two invariants say of selecting is what the run checks.          *)
LEMMA PathsAgree == StorageInv /\ IndexInv => AccessPathsAgree
<1> SUFFICES ASSUME StorageInv, IndexInv, NEW t \in DOMAIN tables, NEW params \in Queries[t]
             PROVE  LET table  == tables[t]
                        wanted == {a \in DOMAIN table.records :
                                      IsMatch(table.schema, table.records[a], params)}
                        one    == SelectRecord(table, params)
                        many   == SelectRecords(table, params)
                    IN  /\ one # {} /\ one \subseteq IF wanted = {} THEN {Null} ELSE wanted
                        /\ many = [found |-> wanted, record_num |-> Cardinality(wanted)]
                        /\ params.cols = table.schema.primary_cols =>
                              SelectByKey(table, PredicateDataSymbol(table.schema, params)) = one
  BY DEF AccessPathsAgree
<1> DEFINE table == tables[t]
<1>1. /\ TableInv(table) /\ Indexed(table)
      /\ t \in DOMAIN Catalog /\ table.schema = Catalog[t].schema
  BY DEF StorageInv, CatalogInv, IndexInv
<1>2. table.schema \in Laid
  BY <1>1, CatalogIs
<1>3. Asks(table.schema, params)
  <2> DEFINE schema == Catalog[t].schema
  <2>1. /\ params.cols \in Seq(DOMAIN schema.columns) \ {<<>>}
        /\ \A i \in DOMAIN params.cols :
              /\ params.values[i] \in Seq(Byte)
              /\ Len(params.values[i]) = schema.columns[params.cols[i]].size
    BY <1>1, StorageAssumption DEF StorageAssumption
  <2>2. Asks(schema, params)
    BY <2>1 DEF Asks
  <2> QED BY <2>2, <1>1
<1>4. /\ FindsOne(Sought(table, params), SelectRecord(table, params))
      /\ SelectRecords(table, params) =
            [found |-> Sought(table, params), record_num |-> Cardinality(Sought(table, params))]
  BY <1>1, <1>2, <1>3, SelectsFind
<1>5. params.cols = table.schema.primary_cols =>
         SelectByKey(table, PredicateDataSymbol(table.schema, params)) = SelectRecord(table, params)
  BY DEF SelectByKey, SelectRecord
<1> HIDE DEF table
<1>6. /\ SelectRecord(table, params) # {}
      /\ SelectRecord(table, params) \subseteq
            IF Sought(table, params) = {} THEN {Null} ELSE Sought(table, params)
  BY <1>4 DEF FindsOne
<1> QED BY <1>4, <1>5, <1>6 DEF Sought, table

(* selectRecord and selectRecords find the records whose columns have the    *)
(* values asked for, and no other, each once: by the primary index, by a    *)
(* secondary one or by a scan into an array that doubles, whatever was      *)
(* inserted, updated and deleted before.                                   *)
THEOREM SelectsAgree == Spec => []AccessPathsAgree
BY StorageInvariant, IndexesStayExact, PathsAgree, PTL
=============================================================================
