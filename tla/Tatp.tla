---------------------------------- MODULE Tatp ----------------------------------
(***************************************************************************)
(* The TATP database and its operations: benchmark/tatp/                   *)
(* TatpBaseProcessor.cc, the transactions TatpSource.h queues, and the     *)
(* whole transactions as TatpSerialProcessor.cc runs them.                 *)
(*                                                                         *)
(* A database is a record with one field for each table that changes, a    *)
(* table is a function from its primary key and only has the columns a     *)
(* transaction changes.  ACCESS_INFO never changes and is left out.        *)
(* numberx is left out too: it repeats the subscriber.                     *)
(*                                                                         *)
(* The processors drop what they select.  answers is a history of it, so   *)
(* that a transaction which only reads has an outcome too.                 *)
(***************************************************************************)
EXTENDS Integers, Sequences, SequencesExt, TLC

CONSTANTS Subscribers,  \* subscriber_size
          PaddingSize,  \* SUB_NBR_PADDING_SIZE
          Facilities,   \* bound: what startPopulate may leave in SPECIAL_FACILITY
          Forwardings   \* bound: what startPopulate may leave in CALL_FORWARDING

ASSUME TatpAssumption == /\ Subscribers \in Nat \ {0}
                         /\ PaddingSize \in Nat
                         /\ Subscribers < 10 ^ PaddingSize
                         /\ \A rows \in Facilities \cup Forwardings :
                               \A k \in rows : k[1] \in 1 .. Subscribers

SubscriberIds == 1 .. Subscribers

(* The decimal digits of n with leading zeros.                             *)
PadWithZero(n) == [i \in 1 .. PaddingSize |-> (n \div 10 ^ (PaddingSize - i)) % 10]

NewSubscriber(s_id) == [sub_nbr |-> PadWithZero(s_id), bit1 |-> 0, vlr |-> 0]

(* The types startPopulate takes from sf_types and start_times are those    *)
(* arrays' initial contents: subArr fills an array of its own.  Both tables *)
(* may hold anything, one row for each key.                                *)
Populations ==
    {[sub      |-> [s \in SubscriberIds |-> NewSubscriber(s)],
      facility |-> [k \in f |-> 0],
      forward  |-> [k \in c |-> 0],
      answers  |-> <<>>] : f \in Facilities, c \in Forwardings}

-----------------------------------------------------------------------------
(* Transactions.  Three of them name the subscriber by its sub_nbr.        *)

DeleteCallForwarding(s_id, sf_type, start_time) ==
    [type |-> "DELETE_CALL_FORWARDING", sub_nbr |-> PadWithZero(s_id), sf_type |-> sf_type,
     start_time |-> start_time]
GetAccessData(s_id) == [type |-> "GET_ACCESS_DATA", s_id |-> s_id]
GetNewDestination(s_id) == [type |-> "GET_NEW_DESTINATION", s_id |-> s_id]
GetSubscriberData(s_id) == [type |-> "GET_SUBSCRIBER_DATA", s_id |-> s_id]
InsertCallForwarding(s_id, sf_type, start_time, end_time) ==
    [type |-> "INSERT_CALL_FORWARDING", sub_nbr |-> PadWithZero(s_id), sf_type |-> sf_type,
     start_time |-> start_time, end_time |-> end_time]
UpdateLocation(s_id, vlr_location) ==
    [type |-> "UPDATE_LOCATION", sub_nbr |-> PadWithZero(s_id), vlr_location |-> vlr_location]
UpdateSubscriberData(s_id, bit_1, sf_type, data_a) ==
    [type |-> "UPDATE_SUBSCRIBER_DATA", s_id |-> s_id, bit_1 |-> bit_1, sf_type |-> sf_type,
     data_a |-> data_a]
EndExecution == [type |-> "ENDEXECUTION"]

ByNumber == {"DELETE_CALL_FORWARDING", "INSERT_CALL_FORWARDING", "UPDATE_LOCATION"}

ById == {"GET_ACCESS_DATA", "GET_NEW_DESTINATION", "GET_SUBSCRIBER_DATA",
         "UPDATE_SUBSCRIBER_DATA"}

(* The source draws the subscriber from 1 .. subscriber_size.              *)
NamesSubscriber(p) ==
    \/ p.type \in ByNumber /\ \E s \in SubscriberIds : p.sub_nbr = PadWithZero(s)
    \/ p.type \in ById /\ p.s_id \in SubscriberIds
    \/ p.type = "ENDEXECUTION"

-----------------------------------------------------------------------------
(* The operations.                                                         *)

(* The index on sub_nbr; -1 if there is no such subscriber.                *)
SubscriberIdOf(db, sub_nbr) ==
    LET found == {s \in DOMAIN db.sub : db.sub[s].sub_nbr = sub_nbr}
    IN  IF found = {} THEN -1 ELSE CHOOSE s \in found : TRUE

ForwardingKey(s_id, p) == <<s_id, p.sf_type, p.start_time>>

Delete(table, key) == [k \in DOMAIN table \ {key} |-> table[k]]

DeleteForwarding(db, p, s_id) ==
    [db EXCEPT !.forward = Delete(@, ForwardingKey(s_id, p))]

(* A row that is there already stays as it is.                             *)
Insert(table, key, row) ==
    [k \in DOMAIN table \cup {key} |-> IF k \in DOMAIN table THEN table[k] ELSE row]

InsertForwarding(db, p, s_id) ==
    [db EXCEPT !.forward = Insert(@, ForwardingKey(s_id, p), p.end_time)]

(* There is no check that the subscriber exists.                           *)
UpdateVlr(db, p, s_id) == [db EXCEPT !.sub[s_id].vlr = p.vlr_location]

UpdateBit1(db, p) ==
    IF p.s_id \in DOMAIN db.sub THEN [db EXCEPT !.sub[p.s_id].bit1 = p.bit_1] ELSE db

UpdateDataA(db, p) ==
    IF <<p.s_id, p.sf_type>> \in DOMAIN db.facility
    THEN [db EXCEPT !.facility[<<p.s_id, p.sf_type>>] = p.data_a]
    ELSE db

SubscriberRow(db, s_id) == db.sub[s_id]
FacilityRows(db, s_id) ==
    [k \in {f \in DOMAIN db.facility : f[1] = s_id} |-> db.facility[k]]

-----------------------------------------------------------------------------
(* The serial processor: the state after one transaction.                  *)

Answer(db, row) == [db EXCEPT !.answers = Append(@, row)]

Process(db, p) ==
    LET s_id == IF p.type \in ByNumber THEN SubscriberIdOf(db, p.sub_nbr) ELSE p.s_id
    IN  CASE p.type = "DELETE_CALL_FORWARDING" -> DeleteForwarding(db, p, s_id)
          [] p.type = "GET_SUBSCRIBER_DATA"    -> Answer(db, SubscriberRow(db, s_id))
          [] p.type = "INSERT_CALL_FORWARDING" ->
                 InsertForwarding(Answer(db, FacilityRows(db, s_id)), p, s_id)
          [] p.type = "UPDATE_LOCATION"        -> UpdateVlr(db, p, s_id)
          [] p.type = "UPDATE_SUBSCRIBER_DATA" -> UpdateDataA(UpdateBit1(db, p), p)
          [] p.type \in {"GET_ACCESS_DATA", "GET_NEW_DESTINATION", "ENDEXECUTION"} -> db
=============================================================================
