----------------------------- MODULE NodeLinker -----------------------------
(***************************************************************************)
(* dtxn/NodeLinker.cc, composed with the node it is connected to.  A       *)
(* linker is a pool of one worker with the queue of ThreadPool.h, and a     *)
(* task writes a request to the socket and reads the reply.  Its future    *)
(* holds what one read_some returned, or the exception of a lost           *)
(* connection.  BaseCoordinatorService.h owns the linkers, one per node,   *)
(* which share nothing: its destructor is their owner here, its request     *)
(* the clients' submitTask.                                                *)
(***************************************************************************)
EXTENDS ThreadPool, EchoNode

CONSTANT Length  \* Length[t]: the units of the request of task t

ASSUME LinkAssumption == /\ \E w \in Workers : Workers = {w}
                         /\ Length \in [Tasks -> Nat \ {0}]

VARIABLES unsent,    \* what write has still to write
          reply,     \* reply[t]: what the future of t holds, <<>> for an exception
          requested, \* history: the units of all requests taken, in order
          received   \* history: the units read_some returned, in order

link == <<unsent, reply, requested, received>>
linkVars == <<vars, net, link>>

(* The serialized request; its units are distinct.                         *)
Request(t) == [i \in 1 .. Length[t] |-> <<t, i>>]

LinkInit == /\ Init
            /\ EchoInit
            /\ unsent = <<>>
            /\ reply = [t \in {} |-> <<>>]
            /\ requested = <<>>
            /\ received = <<>>

-----------------------------------------------------------------------------
(* The worker.                                                             *)

(* The task is taken: write begins.                                        *)
TakeRequest(w) == /\ Take(w)
                  /\ unsent' = Request(Head(tasks))
                  /\ requested' = requested \o Request(Head(tasks))
                  /\ UNCHANGED <<net, reply, received>>

(* boost::asio::write blocks until there is room for the next unit.         *)
WriteSome(w) == /\ worker[w] = "running"
                /\ connection = "open"
                /\ unsent # <<>>
                /\ Len(upstream) < Capacity
                /\ upstream' = Append(upstream, Head(unsent))
                /\ unsent' = Tail(unsent)
                /\ UNCHANGED <<vars, downstream, connection, session, data,
                               reply, requested, received>>

SetReply(t, r) == [u \in DOMAIN reply \cup {t} |-> IF u = t THEN r ELSE reply[u]]

\* Mutant: what was read is not consumed.
ReadSomeAgain(w) ==
    /\ unsent = <<>>
    /\ connection = "open"
    /\ Run(w)
    /\ \E n \in Parts(downstream) :
          /\ reply' = SetReply(job[w], First(downstream, n))
          /\ received' = received \o First(downstream, n)
    /\ UNCHANGED <<net, unsent, requested>>

(* read_some blocks until something is there; one call is the reply.        *)
ReadSome(w) ==
    /\ unsent = <<>>
    /\ connection = "open"
    /\ Run(w)
    /\ \E n \in Parts(downstream) :
          /\ reply' = SetReply(job[w], First(downstream, n))
          /\ received' = received \o First(downstream, n)
          /\ downstream' = Rest(downstream, n)
    /\ UNCHANGED <<upstream, connection, session, data, unsent, requested>>

\* Mutant: an error is tried again.
FailRetried(w) == /\ worker[w] = "running"
                  /\ connection = "broken"
                  /\ unsent' = Request(job[w])
                  /\ UNCHANGED <<vars, net, reply, requested, received>>

(* write or read_some throws: the packaged_task keeps the exception.        *)
Fail(w) == /\ connection = "broken"
           /\ Run(w)
           /\ unsent' = <<>>
           /\ reply' = SetReply(job[w], <<>>)
           /\ UNCHANGED <<net, requested, received>>

LinkWorkerStep(w) == \/ TakeRequest(w) \/ WriteSome(w) \/ ReadSome(w) \/ Fail(w)
                     \/ (Sleep(w) \/ Exit(w)) /\ UNCHANGED <<net, link>>

-----------------------------------------------------------------------------
(* submitTask, the destructor and the network.                             *)

Submit(c) == ClientStep(c) /\ UNCHANGED <<net, link>>

(* The worker is joined, then the members go, socket among them: what is   *)
(* under way to the client is dropped.                                     *)
\* Mutant: the socket is not closed.
JoinOnly == DestroyJoin /\ UNCHANGED <<net, link>>

CloseConnection == /\ DestroyJoin
                   /\ connection' = "closed"
                   /\ downstream' = <<>>
                   /\ UNCHANGED <<upstream, session, data, link>>

LinkOwnerStep == \/ (DestroyStop \/ DestroyNotifyAll) /\ UNCHANGED <<net, link>>
                 \/ CloseConnection

LinkNext == \/ \E w \in Workers : \/ LinkWorkerStep(w)
                                  \/ WakeSpuriously(w) /\ UNCHANGED <<net, link>>
            \/ \E c \in Clients : Submit(c)
            \/ LinkOwnerStep
            \/ (NodeStep \/ Break) /\ UNCHANGED <<vars, link>>

LinkSpec == LinkInit /\ [][LinkNext]_linkVars

(* The worker and a client or owner inside a call are scheduled, and the   *)
(* node's thread, which runs io_service, handles what has come: a           *)
(* connection that does not break delivers what is written to it.           *)
LinkFairness ==
    /\ \A w \in Workers : WF_linkVars(LinkWorkerStep(w))
    /\ \A c \in Clients : WF_linkVars(EnqueueNotify(c) /\ UNCHANGED <<net, link>>)
    /\ WF_linkVars(DestroyNotifyAll /\ UNCHANGED <<net, link>>)
    /\ WF_linkVars(CloseConnection)
    /\ WF_linkVars(NodeStep /\ UNCHANGED <<vars, link>>)

FairLinkSpec == LinkSpec /\ LinkFairness

-----------------------------------------------------------------------------
(* Properties.                                                             *)

(* NodeLinker.cc:46, EchoNodeSession.h:23: no unit is lost, duplicated or  *)
(* overtaken on its way through the two sockets and the node's buffer,     *)
(* however reads and writes cut the stream.                                *)
StreamInOrder ==
    connection = "open" =>
        requested = received \o downstream \o data \o upstream \o unsent

(* NodeLinker.cc:48: one read_some is taken for the reply.  A caller that   *)
(* compares lengths can tell: as long as every reply so far had the length  *)
(* of its request, each was the request of its own task.                    *)
LengthsTellMixedReplies ==
    \A i \in DOMAIN started :
        (\A j \in 1 .. i : started[j] \in DOMAIN reply
                           /\ Len(reply[started[j]]) = Length[started[j]])
        => reply[started[i]] = Request(started[i])

(* client.cc:52: what comes back is what was sent.                          *)
ReplyIsTheRequest ==
    \A t \in DOMAIN reply : reply[t] # <<>> => reply[t] = Request(t)

(* NodeLinker.cc:58-61, ThreadPool.h:46-54, EchoNodeSession.h: once a        *)
(* linker's destructor has begun, its worker ends, though it may be in a     *)
(* request or wait for one, and the destructor returns; and the node then    *)
(* lets its session go, although it may hold bytes nobody will read.         *)
SessionReleased == (owner = "stopped") ~> (owner = "joined" /\ session = "closed")
=============================================================================
