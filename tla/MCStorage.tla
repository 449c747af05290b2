------------------------------ MODULE MCStorage ------------------------------
EXTENDS Storage

Entry(columns, indexes) == [schema |-> SchemaOf(columns), indexes |-> indexes]

(* A table with a composite primary key, one of whose columns is indexed   *)
(* too (SPECIAL_FACILITY), one that is deleted from (CALL_FORWARDING), and  *)
(* one without a key (HISTORY).                                             *)
MCCatalog ==
    [facility   |-> Entry(<<ColumnInfo("INT16", FALSE), ColumnInfo("INT8", TRUE),
                            ColumnInfo("INT8", TRUE)>>, {<<2>>}),
     forwarding |-> Entry(<<ColumnInfo("INT8", TRUE), VarcharInfo(2, FALSE)>>, {}),
     history    |-> Entry(<<VarcharInfo(2, FALSE)>>, {})]

(* Two facilities of one subscriber, and the first with its key reversed.   *)
Facilities == {<<1, 1>>, <<1, 2>>, <<2, 1>>}

MCOffered ==
    [facility   |-> {<< <<5, 6>>, <<p[1]>>, <<p[2]>> >> : p \in Facilities},
     forwarding |-> {<< <<k>>, <<7>> >> : k \in {1, 2}},
     history    |-> {<< <<8>> >>}]

MCChanges ==
    [facility   |-> {ColumnPredicates(<<1>>, << <<5, 0>> >>)},
     forwarding |-> {ColumnPredicates(<<2>>, << <<7, 0>> >>)},
     history    |-> {}]

MCQueries ==
    [facility   |-> {ColumnPredicates(<<2, 3>>, << <<p[1]>>, <<p[2]>> >>) : p \in Facilities}
                    \cup {ColumnPredicates(<<3, 2>>, << <<2>>, <<1>> >>),
                          ColumnPredicates(<<2>>, << <<1>> >>),
                          ColumnPredicates(<<1>>, << <<5, 6>> >>)},
     forwarding |-> {ColumnPredicates(<<1>>, << <<2>> >>),
                     ColumnPredicates(<<2>>, << <<7, 9>> >>)},
     history    |-> {ColumnPredicates(<<1>>, << <<8, 9>> >>)}]
=============================================================================
