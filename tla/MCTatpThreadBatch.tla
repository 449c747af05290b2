--------------------------- MODULE MCTatpThreadBatch ---------------------------
EXTENDS TatpThreadBatch

MCHashInt == [n \in 0 .. Subscribers |-> n]

(* Facility 1 of every subscriber, or none at all; one forwarding or none.  *)
MCFacilities == {{}, {<<s, 1>> : s \in SubscriberIds}}
MCForwardings == {{}, {<<1, 1, 0>>}}

(* Two subscribers, in different buckets; what the transactions write tells *)
(* them apart.                                                             *)
Transactions ==
    {DeleteCallForwarding(1, 1, 0), InsertCallForwarding(1, 1, 0, 5),
     InsertCallForwarding(2, 1, 8, 6), GetAccessData(2), GetNewDestination(1),
     GetSubscriberData(1), UpdateLocation(1, 7), UpdateLocation(2, 8),
     UpdateSubscriberData(1, 1, 1, 9)}

MCQueues == {Append(q, EndExecution) : q \in UNION {[1 .. n -> Transactions] : n \in 0 .. 3}}
=============================================================================
