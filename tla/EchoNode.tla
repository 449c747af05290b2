------------------------------ MODULE EchoNode ------------------------------
(***************************************************************************)
(* The server's side of one connection: dtxn/BaseNodeService.h accepts it, *)
(* dtxn/EchoNodeSession.h reads what has come and writes it back.  A byte  *)
(* stream of TCP is a sequence of units; how many of them a read finds is  *)
(* up to the network.  server.cc runs one thread in io_service, so that    *)
(* handlers of a session do not overlap.                                   *)
(***************************************************************************)
EXTENDS Naturals, Sequences

CONSTANTS MaxLength,  \* max_length, and the size of reply in NodeLinker.cc
          Capacity    \* how many units a direction holds before its writer blocks

ASSUME EchoAssumption == {MaxLength, Capacity} \subseteq Nat \ {0}

VARIABLES upstream,    \* sent to the node and not read by it
          downstream,  \* sent by the node and not read by the client
          connection,  \* "open", "broken" by the network or "closed" by the client
          session,     \* "backlog" until it is accepted, "reading", "writing" or "closed"
          data         \* what do_write has still to write

net == <<upstream, downstream, connection, session, data>>

EchoInit == /\ upstream = <<>>
            /\ downstream = <<>>
            /\ connection = "open"
            /\ session = "backlog"
            /\ data = <<>>

(* What read_some may find: a prefix of what is under way, not empty.       *)
Parts(stream) == {n \in 1 .. Len(stream) : n <= MaxLength}
First(stream, n) == SubSeq(stream, 1, n)
Rest(stream, n) == SubSeq(stream, n + 1, Len(stream))

(* do_accept: the session starts with do_read.                             *)
Accept == /\ session = "backlog"
          /\ session' = "reading"
          /\ UNCHANGED <<upstream, downstream, connection, data>>

(* do_read's handler: do_write of what it got.                             *)
DoRead == /\ session = "reading"
          /\ \E n \in Parts(upstream) : /\ data' = First(upstream, n)
                                        /\ upstream' = Rest(upstream, n)
          /\ session' = "writing"
          /\ UNCHANGED <<downstream, connection>>

\* Mutant: one write_some where async_write writes everything.
DoWriteOnce == /\ session = "writing"
               /\ connection # "broken"
               /\ Len(downstream) < Capacity
               /\ downstream' = IF connection = "open" THEN Append(downstream, Head(data))
                                ELSE downstream
               /\ data' = <<>>
               /\ session' = "reading"
               /\ UNCHANGED <<upstream, connection>>

(* async_write, unit by unit; its handler calls do_read when all is         *)
(* written.  What is written to a closed connection goes nowhere.           *)
DoWrite == /\ session = "writing"
           /\ connection # "broken"
           /\ Len(downstream) < Capacity
           /\ downstream' = IF connection = "open" THEN Append(downstream, Head(data))
                            ELSE downstream
           /\ data' = Tail(data)
           /\ session' = IF Len(data) = 1 THEN "reading" ELSE "writing"
           /\ UNCHANGED <<upstream, connection>>

(* A handler is called with an error: nothing holds the session any more.  *)
SessionEnds == /\ session # "closed"
               /\ connection # "open"
               /\ session' = "closed"
               /\ data' = <<>>
               /\ UNCHANGED <<upstream, downstream, connection>>

(* The connection is lost, and everything under way with it.               *)
Break == /\ connection = "open"
         /\ connection' = "broken"
         /\ upstream' = <<>>
         /\ downstream' = <<>>
         /\ UNCHANGED <<session, data>>

NodeStep == Accept \/ DoRead \/ DoWrite \/ SessionEnds
=============================================================================
