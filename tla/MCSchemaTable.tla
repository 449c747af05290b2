--------------------------- MODULE MCSchemaTable ---------------------------
(* Small instances of SchemaTable for TLC.                                 *)
EXTENDS SchemaTable

\* Records are keys: the number of a thread and the number of the record in
\* that thread's bucket.
MCRecords == Threads \X {1, 2}
MCBucket == [r \in MCRecords |-> r[1]]

MCKeys == 1 .. 4
MCBucketKeys == [r \in MCKeys |-> CHOOSE t \in Threads : TRUE]

\* ORDER_LINE: the lines of an order share the secondary key.
MCLinesOfAnOrder == [r \in MCRecords |-> r[1]]

\* A secondary key of its own for every record.
MCOwnSecondary == [r \in MCKeys |-> r]

\* NEW_ORDER and CALL_FORWARDING have no secondary index.
MCNoSecondary == <<>>
=============================================================================
