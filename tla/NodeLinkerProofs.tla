-------------------------- MODULE NodeLinkerProofs --------------------------
(***************************************************************************)
(* What NodeLinker.tla claims, proved for any number of clients, requests  *)
(* of any length, and sockets and buffers of any size.                     *)
(***************************************************************************)
EXTENDS NodeLinker, ThreadPoolProofs

(* The linker is a thread pool.                                            *)

\* Whatever a linker and its node do is a step of the pool or invisible to it.
LEMMA LinkStepsOfThePool == [LinkNext]_linkVars => [Next]_vars
<1> SUFFICES ASSUME [LinkNext]_linkVars PROVE [Next]_vars
  OBVIOUS
<1>1. ASSUME NEW w \in Workers, LinkWorkerStep(w) PROVE [Next]_vars
  <2>1. CASE TakeRequest(w)
    BY <2>1 DEF TakeRequest, Next, WorkerStep
  <2>2. CASE WriteSome(w)
    BY <2>2 DEF WriteSome
  <2>3. CASE ReadSome(w)
    BY <2>3 DEF ReadSome, Next, WorkerStep
  <2>4. CASE Fail(w)
    BY <2>4 DEF Fail, Next, WorkerStep
  <2>5. CASE (Sleep(w) \/ Exit(w)) /\ UNCHANGED <<net, link>>
    BY <2>5 DEF Next, WorkerStep
  <2> QED BY <1>1, <2>1, <2>2, <2>3, <2>4, <2>5 DEF LinkWorkerStep
<1>2. ASSUME NEW w \in Workers, WakeSpuriously(w) PROVE [Next]_vars
  BY <1>2 DEF Next
<1>3. ASSUME NEW c \in Clients, Submit(c) PROVE [Next]_vars
  BY <1>3 DEF Submit, Next
<1>4. CASE LinkOwnerStep
  BY <1>4 DEF LinkOwnerStep, CloseConnection, Next, OwnerStep
<1>5. CASE UNCHANGED vars
  BY <1>5
<1>6. CASE UNCHANGED linkVars
  BY <1>6 DEF linkVars
<1> QED BY <1>1, <1>2, <1>3, <1>4, <1>5, <1>6 DEF LinkNext

\* A linker with its node behaves like the pool of ThreadPool.h, so that what
\* is proved of the pool holds of it.
THEOREM LinkerIsAPool == LinkSpec => Spec
<1>1. LinkInit => Init
  BY DEF LinkInit
<1> QED BY <1>1, LinkStepsOfThePool, PTL DEF LinkSpec, Spec

\* The requests are sent in the order of submitTask, each once, and a
\* destroyed linker has answered all it accepted.
THEOREM LinkerTakesRequestsInOrder ==
    LinkSpec => [](Inv /\ ExactlyOnce /\ DrainedWhenDestroyed)
BY LinkerIsAPool, PoolInvariant, PoolRunsTasksExactlyOnce, PoolIsDrainedWhenDestroyed, PTL

-----------------------------------------------------------------------------
(* The stream.                                                             *)

Units == Tasks \X Nat
Streams == Seq(Units)

(* What the worker, the sockets and the node know of one another.  Only a  *)
(* worker that runs a task has something to write, only a session that     *)
(* writes has something to echo.                                           *)
StreamTypes ==
    /\ {unsent, requested, received, upstream, downstream, data} \subseteq Streams
    /\ unsent # <<>> => \E w \in Workers : worker[w] = "running"
    /\ session = "writing" <=> data # <<>>

\* A request is a stream as long as Length says.
LEMMA RequestIsAStream ==
    ASSUME NEW t \in Tasks
    PROVE  Request(t) \in Streams /\ Len(Request(t)) = Length[t] /\ Length[t] \in Nat \ {0}
<1>1. Length[t] \in Nat \ {0}
  BY LinkAssumption
<1>2. \A i \in 1 .. Length[t] : <<t, i>> \in Units
  BY <1>1 DEF Units
<1>3. Request(t) \in [1 .. Length[t] -> Units]
  BY <1>2 DEF Request
<1>4. Request(t) \in Streams
  BY <1>1, <1>3, SeqDef DEF Streams
<1>5. DOMAIN Request(t) = 1 .. Length[t]
  BY DEF Request
<1>6. Len(Request(t)) = Length[t]
  BY <1>1, <1>4, <1>5, LenProperties DEF Streams
<1> QED BY <1>1, <1>4, <1>6

\* A read takes u from the stream s and leaves v.
CutOff(s, u, v) == \E n \in Parts(s) : u = First(s, n) /\ v = Rest(s, n)

\* A write takes the first unit of t and puts it behind s, which makes u and v
\* of the two.
HandOver(s, t, u, v) == t # <<>> /\ u = Append(s, Head(t)) /\ v = Tail(t)

\* What read_some takes, put behind what was read before, and what it leaves
\* make what was there.
LEMMA CutOffKeepsTheStream ==
    ASSUME NEW r \in Seq(Units), NEW s \in Seq(Units), NEW u, NEW v, CutOff(s, u, v)
    PROVE  /\ u \in Seq(Units) /\ v \in Seq(Units)
           /\ r \o u \in Seq(Units)
           /\ r \o u \o v = r \o s
           /\ u # <<>>
<1>0. PICK n \in Parts(s) : u = First(s, n) /\ v = Rest(s, n)
  BY DEF CutOff
<1>1. Len(s) \in Nat /\ n \in 1 .. Len(s)
  BY LenProperties DEF Parts
<1>2. \A i \in 1 .. Len(s) : s[i] \in Units
  BY ElementOfSeq
<1>3. u \in Seq(Units) /\ Len(u) = n
  <2>1. \A i \in 1 .. n : s[i] \in Units
    BY <1>1, <1>2
  <2>2. SubSeq(s, 1, n) \in Seq(Units) /\ Len(SubSeq(s, 1, n)) = IF 1 <= n THEN n - 1 + 1 ELSE 0
    BY <1>1, <2>1, SubSeqProperties
  <2> QED BY <1>0, <1>1, <2>2 DEF First
<1>4. v \in Seq(Units)
  <2>1. \A i \in n + 1 .. Len(s) : s[i] \in Units
    BY <1>1, <1>2
  <2>2. SubSeq(s, n + 1, Len(s)) \in Seq(Units)
    BY <1>1, <2>1, SubSeqProperties
  <2> QED BY <1>0, <2>2 DEF Rest
<1>5. u \o v = s
  <2>1. 1 \in 1 .. Len(s) + 1 /\ n \in 1 - 1 .. Len(s) /\ Len(s) \in n .. Len(s)
    BY <1>1
  <2>2. SubSeq(s, 1, n) \o SubSeq(s, n + 1, Len(s)) = SubSeq(s, 1, Len(s))
    BY <2>1, ConcatAdjacentSubSeq
  <2>3. SubSeq(s, 1, Len(s)) = s
    BY SubSeqFull
  <2> QED BY <1>0, <2>2, <2>3 DEF First, Rest
<1>6. u # <<>>
  BY <1>1, <1>3, EmptySeq
<1>7. r \o u \in Seq(Units)
  BY <1>3, ConcatProperties
<1>8. (r \o u) \o v = r \o (u \o v)
  BY <1>3, <1>4, ConcatAssociative, SMTT(40)
<1>9. r \o u \o v = r \o s
  BY <1>5, <1>8
<1> QED BY <1>3, <1>4, <1>6, <1>7, <1>9

\* What write and async_write hand over does not show behind all that was
\* read.
LEMMA HandOverKeepsTheStream ==
    ASSUME NEW r \in Seq(Units), NEW s \in Seq(Units), NEW t \in Seq(Units),
           NEW u, NEW v, HandOver(s, t, u, v)
    PROVE  r \o s \o t = r \o u \o v
<1>0. t # <<>> /\ u = Append(s, Head(t)) /\ v = Tail(t)
  BY DEF HandOver
<1>1. Head(t) \in Units /\ Tail(t) \in Seq(Units)
  BY <1>0, HeadTailProperties
<1>2. Append(s, Head(t)) \in Seq(Units) /\ r \o s \in Seq(Units)
  BY <1>1, AppendProperties, ConcatProperties
<1>3. r \o s \o t = Append(r \o s, Head(t)) \o Tail(t)
  BY <1>0, <1>2, ShiftHead
<1>4. /\ Append(r \o s, Head(t)) = (r \o s) \o <<Head(t)>>
      /\ Append(s, Head(t)) = s \o <<Head(t)>>
      /\ <<Head(t)>> \in Seq(Units)
  BY <1>1, <1>2, AppendIsConcat
<1>5. \A h \in Seq(Units) : (r \o s) \o h = r \o (s \o h)
  BY ConcatAssociative
<1>6. (r \o s) \o <<Head(t)>> = r \o (s \o <<Head(t)>>)
  BY <1>4, <1>5
<1>7. Append(r \o s, Head(t)) = r \o u
  BY <1>0, <1>4, <1>6
<1> QED BY <1>0, <1>3, <1>7

\* They remain streams, and the second is empty when it had one unit.
LEMMA HandOverMakesStreams ==
    ASSUME NEW s \in Seq(Units), NEW t \in Seq(Units),
           NEW u, NEW v, HandOver(s, t, u, v)
    PROVE  /\ u \in Seq(Units) /\ v \in Seq(Units)
           /\ v = <<>> <=> Len(t) = 1
<1>0. t # <<>> /\ u = Append(s, Head(t)) /\ v = Tail(t)
  BY DEF HandOver
<1>1. Head(t) \in Units /\ Tail(t) \in Seq(Units) /\ Len(Tail(t)) = Len(t) - 1
  BY <1>0, HeadTailProperties
<1>2. u \in Seq(Units) /\ v \in Seq(Units)
  BY <1>0, <1>1, AppendProperties
<1>3. Len(v) = Len(t) - 1 /\ Len(t) \in Nat /\ Len(v) \in Nat
  BY <1>0, <1>1, <1>2, LenProperties
<1>4. v = <<>> <=> Len(v) = 0
  BY <1>2, EmptySeq
<1> QED BY <1>2, <1>3, <1>4

(* The inductive invariant of the stream.                                  *)
StreamInv == StreamTypes /\ StreamInOrder

\* Nothing has been sent when the linker is constructed.
LEMMA StreamInvInitially == LinkInit => StreamInv
<1> SUFFICES ASSUME LinkInit PROVE StreamInv
  OBVIOUS
<1>1. <<>> \in Seq(Units) /\ <<>> \o <<>> = <<>>
  BY EmptySeq, ConcatEmptySeq
<1>2. StreamTypes
  BY <1>1 DEF LinkInit, EchoInit, StreamTypes, Streams
<1>3. StreamInOrder
  BY <1>1 DEF LinkInit, EchoInit, StreamInOrder
<1> QED BY <1>2, <1>3 DEF StreamInv

\* The worker writes a request and reads what has come.
LEMMA WorkerKeepsTheStream ==
    ASSUME TypeOK, StreamInv, NEW w \in Workers, Workers = {w}, LinkWorkerStep(w)
    PROVE  StreamInv'
<1> USE DEF StreamInv, Streams
<1>1. CASE TakeRequest(w)
  <2> DEFINE way == received \o downstream \o data \o upstream
  <2>1. Head(tasks) \in Tasks
    BY <1>1, HeadTailProperties DEF TakeRequest, Take, TypeOK
  <2>2. Request(Head(tasks)) \in Seq(Units)
    BY <2>1, RequestIsAStream
  <2>3. unsent = <<>>
    BY <1>1 DEF TakeRequest, Take, StreamTypes
  <2>4. worker'[w] = "running"
    BY <1>1 DEF TakeRequest, Take, TypeOK
  <2>5. requested \o Request(Head(tasks)) \in Seq(Units)
    BY <2>2, ConcatProperties DEF StreamTypes
  <2>6. StreamTypes'
    BY <1>1, <2>2, <2>4, <2>5 DEF TakeRequest, net, StreamTypes
  <2>7. way \o unsent = way
    BY <2>3, ConcatProperties, ConcatEmptySeq DEF StreamTypes
  <2>8. StreamInOrder'
    BY <1>1, <2>7 DEF TakeRequest, net, StreamInOrder
  <2> QED BY <2>6, <2>8
<1>2. CASE WriteSome(w)
  <2> DEFINE read == received \o downstream \o data
  <2>1. HandOver(upstream, unsent, upstream', unsent')
    BY <1>2 DEF WriteSome, HandOver
  <2>2. read \in Seq(Units) /\ upstream \in Seq(Units) /\ unsent \in Seq(Units)
    BY ConcatProperties DEF StreamTypes
  <2> HIDE DEF read
  <2>3. upstream' \in Seq(Units) /\ unsent' \in Seq(Units)
    BY <2>1, <2>2, HandOverMakesStreams
  <2>4. StreamTypes'
    BY <1>2, <2>3 DEF WriteSome, vars, StreamTypes
  <2>5. UNCHANGED <<connection, requested, read>>
    BY <1>2 DEF WriteSome, read
  <2>6. connection = "open" => requested = read \o upstream \o unsent
    BY DEF StreamInOrder, read
  <2>7. connection' = "open" => requested' = read' \o upstream' \o unsent'
    <3>1. read \o upstream \o unsent = read \o upstream' \o unsent'
      BY <2>1, <2>2, HandOverKeepsTheStream, SMTT(40)
    <3> QED BY <2>5, <2>6, <3>1
  <2>8. StreamInOrder'
    BY <2>7 DEF read, StreamInOrder
  <2> QED BY <2>4, <2>8
<1>3. CASE ReadSome(w)
  <2>1. PICK n \in Parts(downstream) : /\ received' = received \o First(downstream, n)
                                       /\ downstream' = Rest(downstream, n)
    BY <1>3 DEF ReadSome
  <2> DEFINE u == First(downstream, n)
  <2>2. received' = received \o u /\ CutOff(downstream, u, downstream')
    BY <2>1 DEF CutOff
  <2>3. received \in Seq(Units) /\ downstream \in Seq(Units)
    BY DEF StreamTypes
  <2> HIDE DEF u
  <2>4. /\ downstream' \in Seq(Units) /\ received \o u \in Seq(Units)
        /\ received \o u \o downstream' = received \o downstream
    BY <2>2, <2>3, CutOffKeepsTheStream
  <2>5. received' \o downstream' = received \o downstream
    BY <2>2, <2>4
  <2>6. StreamTypes'
    BY <1>3, <2>2, <2>4 DEF ReadSome, StreamTypes
  <2>7. StreamInOrder'
    BY <1>3, <2>5 DEF ReadSome, StreamInOrder
  <2> QED BY <2>6, <2>7
<1>4. CASE Fail(w)
  <2>1. StreamTypes'
    BY <1>4, EmptySeq DEF Fail, net, StreamTypes
  <2>2. StreamInOrder'
    BY <1>4 DEF Fail, net, StreamInOrder
  <2> QED BY <2>1, <2>2
<1>5. CASE (Sleep(w) \/ Exit(w)) /\ UNCHANGED <<net, link>>
  <2>1. unsent = <<>>
    BY <1>5 DEF Sleep, Exit, StreamTypes
  <2> QED BY <1>5, <2>1 DEF net, link, StreamTypes, StreamInOrder
<1> QED BY <1>1, <1>2, <1>3, <1>4, <1>5 DEF LinkWorkerStep

\* The node echoes, and the network may take everything away.
LEMMA NodeKeepsTheStream ==
    ASSUME StreamInv, NodeStep \/ Break, UNCHANGED <<vars, link>>
    PROVE  StreamInv'
<1> USE DEF StreamInv, Streams
<1>0. UNCHANGED <<unsent, requested, received, worker>>
  BY DEF vars, link
<1>1. CASE Accept
  BY <1>0, <1>1 DEF Accept, StreamTypes, StreamInOrder
<1>2. CASE DoRead
  <2> DEFINE echoed == received \o downstream
  <2>1. CutOff(upstream, data', upstream')
    BY <1>2 DEF DoRead, CutOff
  <2>2. echoed \in Seq(Units) /\ upstream \in Seq(Units)
    BY ConcatProperties DEF StreamTypes
  <2>3. echoed \o data = echoed
    <3>1. data = <<>>
      BY <1>2 DEF DoRead, StreamTypes
    <3> QED BY <2>2, <3>1, ConcatEmptySeq
  <2> HIDE DEF echoed
  <2>4. /\ data' \in Seq(Units) /\ upstream' \in Seq(Units) /\ data' # <<>>
        /\ echoed \o data' \o upstream' = echoed \o upstream
    BY <2>1, <2>2, CutOffKeepsTheStream
  <2>5. StreamTypes'
    BY <1>0, <1>2, <2>4 DEF DoRead, StreamTypes
  <2>6. StreamInOrder'
    BY <1>0, <1>2, <2>3, <2>4 DEF echoed, DoRead, StreamInOrder
  <2> QED BY <2>5, <2>6
<1>3. CASE DoWrite
  <2> DEFINE sent == Append(downstream, Head(data))
  <2>1. HandOver(downstream, data, sent, data')
    BY <1>3 DEF DoWrite, HandOver, StreamTypes
  <2>2. downstream' = IF connection = "open" THEN sent ELSE downstream
    BY <1>3 DEF DoWrite
  <2>3. received \in Seq(Units) /\ downstream \in Seq(Units) /\ data \in Seq(Units)
    BY DEF StreamTypes
  <2> HIDE DEF sent
  <2>4. /\ sent \in Seq(Units) /\ data' \in Seq(Units)
        /\ data' = <<>> <=> Len(data) = 1
    BY <2>1, <2>3, HandOverMakesStreams
  <2>5. StreamTypes'
    BY <1>0, <1>3, <2>2, <2>3, <2>4 DEF DoWrite, StreamTypes
  <2>6. StreamInOrder'
    <3>1. UNCHANGED <<connection, upstream>>
      BY <1>3 DEF DoWrite
    <3>2. received \o downstream \o data = received \o sent \o data'
      BY <2>1, <2>3, HandOverKeepsTheStream, SMTT(40)
    <3> QED BY <1>0, <2>2, <3>1, <3>2 DEF StreamInOrder
  <2> QED BY <2>5, <2>6
<1>4. CASE SessionEnds
  BY <1>0, <1>4, EmptySeq DEF SessionEnds, StreamTypes, StreamInOrder
<1>5. CASE Break
  BY <1>0, <1>5, EmptySeq DEF Break, StreamTypes, StreamInOrder
<1> QED BY <1>1, <1>2, <1>3, <1>4, <1>5 DEF NodeStep

\* The clients and the owner do not touch the stream; the destructor closes it.
LEMMA StreamInvPreserved == TypeOK /\ StreamInv /\ [LinkNext]_linkVars => StreamInv'
<1> SUFFICES ASSUME TypeOK, StreamInv, [LinkNext]_linkVars PROVE StreamInv'
  OBVIOUS
<1>0. PICK w \in Workers : Workers = {w}
  BY LinkAssumption
<1>1. ASSUME UNCHANGED <<net, link>>, worker[w] = "running" => worker'[w] = "running"
      PROVE  StreamInv'
  BY <1>0, <1>1 DEF net, link, StreamInv, StreamTypes, StreamInOrder
<1>2. CASE LinkWorkerStep(w)
  BY <1>0, <1>2, WorkerKeepsTheStream
<1>3. CASE WakeSpuriously(w) /\ UNCHANGED <<net, link>>
  BY <1>1, <1>3 DEF WakeSpuriously, TypeOK
<1>4. ASSUME NEW c \in Clients, Submit(c) PROVE StreamInv'
  BY <1>1, <1>4 DEF Submit, ClientStep, EnqueuePush, EnqueueThrow, EnqueueNotify, Waiting, TypeOK
<1>5. CASE (DestroyStop \/ DestroyNotifyAll) /\ UNCHANGED <<net, link>>
  BY <1>1, <1>5 DEF DestroyStop, DestroyNotifyAll, TypeOK
<1>6. CASE CloseConnection
  BY <1>6, EmptySeq DEF CloseConnection, DestroyJoin, link, StreamInv, StreamTypes, StreamInOrder, Streams
<1>7. CASE (NodeStep \/ Break) /\ UNCHANGED <<vars, link>>
  BY <1>7, NodeKeepsTheStream
<1>8. CASE UNCHANGED linkVars
  BY <1>1, <1>8 DEF linkVars, vars
<1> QED BY <1>0, <1>2, <1>3, <1>4, <1>5, <1>6, <1>7, <1>8 DEF LinkNext, LinkOwnerStep

\* No unit of a request is lost, duplicated or overtaken between submitTask
\* and the reply, however many requests there are, however long, and however
\* small the buffers that cut them.
THEOREM LinkKeepsTheStream == LinkSpec => []StreamInv
<1>1. Inv => TypeOK
  BY DEF Inv
<1> QED BY <1>1, LinkerTakesRequestsInOrder, StreamInvInitially, StreamInvPreserved, PTL
        DEF LinkSpec

\* The property the run node_link checks (NodeLinker.cc:46, EchoNodeSession.h:23).
THEOREM StreamStaysInOrder == LinkSpec => []StreamInOrder
BY LinkKeepsTheStream, PTL DEF StreamInv

-----------------------------------------------------------------------------
(* The replies.                                                            *)

AllMatch == \A t \in finished : Len(reply[t]) = Length[t]

(* What the worker has written of a task it runs and not read.             *)
InHand(w) == IF worker[w] = "running" THEN Request(job[w]) ELSE <<>>

(* Futures get their values in the order of the queue, each once, and as    *)
(* long as all lengths were right nothing of a finished request is left in *)
(* the stream.                                                             *)
ReplyBookkeeping ==
    /\ DOMAIN reply = finished
    /\ \A i, j \in DOMAIN started : started[i] = started[j] => i = j
    /\ \A w \in Workers : worker[w] = "running" =>
          started # <<>> /\ job[w] = started[Len(started)]
    /\ AllMatch => \A w \in Workers : requested = received \o InHand(w)

ReplyInv == ReplyBookkeeping /\ LengthsTellMixedReplies

\* What a read takes from the front of a stream is a request that is there and
\* as long as it.
LEMMA AsLongIsTheSame ==
    ASSUME NEW a \in Seq(Units), NEW d \in Seq(Units), NEW x \in Seq(Units),
           NEW y \in Seq(Units), NEW q \in Seq(Units), NEW u, NEW v, CutOff(d, u, v),
           a \o q = a \o d \o x \o y, Len(u) = Len(q)
    PROVE  u = q
<1>0. PICK n \in Parts(d) : u = First(d, n)
  BY DEF CutOff
<1>1. /\ Len(d) \in Nat /\ n \in 1 .. Len(d)
      /\ u \in Seq(Units) /\ Len(u) = n
      /\ \A i \in 1 .. n : u[i] = d[i]
  <2>1. Len(d) \in Nat /\ n \in 1 .. Len(d)
    BY LenProperties DEF Parts
  <2>2. \A i \in 1 .. n : d[i] \in Units
    BY <2>1, ElementOfSeq
  <2>3. /\ SubSeq(d, 1, n) \in Seq(Units)
        /\ Len(SubSeq(d, 1, n)) = IF 1 <= n THEN n - 1 + 1 ELSE 0
        /\ \A i \in 1 .. n - 1 + 1 : SubSeq(d, 1, n)[i] = d[1 + i - 1]
    BY <2>1, <2>2, SubSeqProperties
  <2> QED BY <1>0, <2>1, <2>3 DEF First
<1>2. \A s, t \in Seq(Units) :
          /\ s \o t \in Seq(Units)
          /\ Len(s \o t) = Len(s) + Len(t) /\ Len(s) \in Nat /\ Len(t) \in Nat
          /\ \A i \in 1 .. Len(s) : (s \o t)[i] = s[i]
          /\ \A i \in 1 .. Len(t) : (s \o t)[Len(s) + i] = t[i]
  BY ConcatProperties, LenProperties
<1> DEFINE ad == a \o d
           adx == ad \o x
<1>3. /\ ad \in Seq(Units) /\ Len(ad) = Len(a) + Len(d) /\ Len(a) \in Nat
      /\ \A i \in 1 .. Len(d) : ad[Len(a) + i] = d[i]
  BY <1>2
<1> HIDE DEF ad
<1>4. /\ adx \in Seq(Units) /\ Len(adx) >= Len(ad)
      /\ \A i \in 1 .. Len(ad) : adx[i] = ad[i]
  BY <1>2, <1>3
<1> HIDE DEF adx
<1>5. \A i \in 1 .. Len(adx) : (adx \o y)[i] = adx[i]
  BY <1>2, <1>4
<1>6. \A i \in 1 .. Len(q) : (a \o q)[Len(a) + i] = q[i]
  BY <1>2
<1>7. a \o q = adx \o y
  BY DEF ad, adx
<1>8. ASSUME NEW i \in 1 .. n PROVE u[i] = q[i]
  <2>1. /\ Len(a) + i \in 1 .. Len(ad) /\ Len(a) + i \in 1 .. Len(adx)
        /\ i \in 1 .. Len(d) /\ i \in 1 .. Len(q)
    <3>1. Len(ad) \in Nat /\ Len(adx) \in Nat
      BY <1>3, <1>4, LenProperties
    <3> QED BY <1>1, <1>3, <1>4, <3>1
  <2>2. (adx \o y)[Len(a) + i] = d[i]
    BY <1>3, <1>4, <1>5, <2>1
  <2>3. (adx \o y)[Len(a) + i] = q[i]
    BY <1>6, <1>7, <2>1
  <2> QED BY <1>1, <2>2, <2>3
<1>9. \A i \in 1 .. Len(u) : u[i] = q[i]
  BY <1>1, <1>8
<1> QED BY <1>1, <1>9, SeqEqual

\* No future exists when the linker is constructed.
LEMMA ReplyInvInitially == LinkInit => ReplyInv
<1> SUFFICES ASSUME LinkInit PROVE ReplyInv
  OBVIOUS
<1>1. \A w \in Workers : InHand(w) = <<>>
  BY DEF LinkInit, Init, InHand
<1>2. <<>> \o <<>> = <<>>
  BY EmptySeq, ConcatEmptySeq
<1>3. \A w \in Workers : requested = received \o InHand(w)
  BY <1>1, <1>2 DEF LinkInit
<1>4. DOMAIN reply = finished /\ DOMAIN started = {}
  BY DEF LinkInit, Init
<1> QED BY <1>3, <1>4 DEF ReplyInv, ReplyBookkeeping, LengthsTellMixedReplies, LinkInit, Init

\* Steps that neither take a task nor make its future ready.
LEMMA ReplyInvUntouched ==
    ASSUME ReplyInv, UNCHANGED <<reply, requested, received, started, finished>>,
           \A w \in Workers : /\ worker'[w] = "running" <=> worker[w] = "running"
                              /\ job'[w] = job[w]
    PROVE  ReplyInv'
<1>1. \A w \in Workers : InHand(w)' = InHand(w)
  BY DEF InHand, Request
<1>2. AllMatch' <=> AllMatch
  BY DEF AllMatch
<1>3. ReplyBookkeeping'
  BY <1>1, <1>2 DEF ReplyInv, ReplyBookkeeping
<1>4. LengthsTellMixedReplies'
  BY DEF ReplyInv, LengthsTellMixedReplies, Request
<1> QED BY <1>3, <1>4 DEF ReplyInv

\* The next request is taken when nothing of the one before is in hand.
LEMMA TakeKeepsReplies ==
    ASSUME Inv, ExactlyOnce, StreamInv, ReplyInv,
           NEW w \in Workers, Workers = {w}, TakeRequest(w)
    PROVE  ReplyInv'
<1> DEFINE t == Head(tasks)
<1>1. /\ t \in Tasks /\ t \in Elements(tasks) /\ t \notin Elements(started)
      /\ started \in Seq(Tasks)
  BY ElementsTail DEF TakeRequest, Take, Inv, TypeOK, ExactlyOnce
<1>2. t \notin finished
  BY <1>1 DEF ExactlyOnce
<1>3. /\ started' = Append(started, t) /\ job'[w] = t /\ worker'[w] = "running"
      /\ worker[w] # "running" /\ requested' = requested \o Request(t)
      /\ UNCHANGED <<finished, reply, received>>
  BY DEF TakeRequest, Take, Inv, TypeOK
<1> HIDE DEF t
<1>4. /\ started' \in Seq(Tasks) /\ started' # <<>>
      /\ Len(started') = Len(started) + 1 /\ started'[Len(started) + 1] = t
      /\ \A i \in 1 .. Len(started) : started'[i] = started[i]
      /\ DOMAIN started = 1 .. Len(started) /\ DOMAIN started' = 1 .. Len(started) + 1
      /\ Len(started) \in Nat
  BY <1>1, <1>3, AppendProperties, LenProperties
<1>5. \A i, j \in DOMAIN started' : started'[i] = started'[j] => i = j
  BY <1>1, <1>3, AppendDistinct DEF ReplyInv, ReplyBookkeeping
<1>6. AllMatch' => requested' = received' \o InHand(w)'
  <2>1. SUFFICES ASSUME AllMatch' PROVE requested' = received' \o InHand(w)'
    OBVIOUS
  <2>2. AllMatch
    BY <1>3, <2>1 DEF AllMatch
  <2>3. requested = received \o <<>> /\ received \in Seq(Units)
    BY <1>3, <2>2 DEF ReplyInv, ReplyBookkeeping, InHand, StreamInv, StreamTypes, Streams
  <2>4. requested = received
    BY <2>3, ConcatEmptySeq
  <2>5. InHand(w)' = Request(t)
    BY <1>3 DEF InHand, Request
  <2> QED BY <1>3, <2>4, <2>5
<1>7. ReplyBookkeeping'
  BY <1>3, <1>4, <1>5, <1>6 DEF ReplyInv, ReplyBookkeeping
<1>8. LengthsTellMixedReplies'
  <2>1. t \notin DOMAIN reply'
    BY <1>2, <1>3 DEF ReplyInv, ReplyBookkeeping
  <2> SUFFICES ASSUME NEW i \in DOMAIN started',
                      \A j \in 1 .. i : started'[j] \in DOMAIN reply'
                                        /\ Len(reply'[started'[j]]) = Length[started'[j]]
               PROVE  reply'[started'[i]] = Request(started'[i])
    BY DEF LengthsTellMixedReplies, Request
  <2>2. i \in 1 .. Len(started)
    BY <1>4, <2>1
  <2>3. \A j \in 1 .. i : j \in 1 .. Len(started) /\ started'[j] = started[j]
    BY <1>4, <2>2
  <2>4. \A j \in 1 .. i : started[j] \in DOMAIN reply
                          /\ Len(reply[started[j]]) = Length[started[j]]
    BY <1>3, <2>3
  <2>5. reply[started[i]] = Request(started[i])
    BY <1>4, <2>2, <2>4 DEF ReplyInv, LengthsTellMixedReplies
  <2> QED BY <1>3, <1>4, <2>2, <2>5
<1> QED BY <1>7, <1>8 DEF ReplyInv

\* The future of the task that runs becomes ready: with its request, if all
\* lengths were right up to now.
LEMMA AnswerKeepsReplies ==
    ASSUME Inv, ExactlyOnce, StreamInv, ReplyInv,
           NEW w \in Workers, Workers = {w}, Run(w), UNCHANGED requested,
           NEW r, reply' = SetReply(job[w], r),
           AllMatch /\ Len(r) = Length[job[w]] => r = Request(job[w]) /\ received' = requested
    PROVE  ReplyInv'
<1> DEFINE t == job[w]
<1>1. /\ worker[w] = "running" /\ worker'[w] = "loop" /\ w \in Busy /\ Busy = {w}
      /\ finished' = finished \cup {t} /\ started' = started /\ started \in Seq(Tasks)
  BY DEF Run, Busy, Inv, TypeOK
<1>2. t \notin finished /\ Elements(started) = finished \cup {t}
  BY <1>1 DEF ExactlyOnce
<1>3. DOMAIN started = 1 .. Len(started) /\ Len(started) \in Nat
  BY <1>1, LenProperties
<1>4. started # <<>> /\ t = started[Len(started)]
  BY <1>1 DEF ReplyInv, ReplyBookkeeping
<1>5. Len(started) > 0
  BY <1>1, <1>4, EmptySeq
<1> HIDE DEF t
<1>6. /\ DOMAIN reply' = finished'
      /\ reply'[t] = r
      /\ \A u \in finished : reply'[u] = reply[u]
  BY <1>1, <1>2 DEF SetReply, ReplyInv, ReplyBookkeeping, t
<1>7. ASSUME AllMatch' PROVE /\ r = Request(t) /\ requested' = received' \o InHand(w)'
  <2>1. AllMatch /\ Len(r) = Length[t]
    BY <1>1, <1>2, <1>6, <1>7 DEF AllMatch
  <2>2. r = Request(t) /\ received' = requested'
    BY <2>1 DEF t
  <2>3. InHand(w)' = <<>>
    BY <1>1 DEF InHand
  <2>4. requested' \o <<>> = requested'
    BY ConcatEmptySeq DEF StreamInv, StreamTypes, Streams
  <2> QED BY <2>2, <2>3, <2>4
<1>8. ReplyBookkeeping'
  BY <1>1, <1>6, <1>7 DEF ReplyInv, ReplyBookkeeping
<1>9. LengthsTellMixedReplies'
  <2> SUFFICES ASSUME NEW i \in DOMAIN started,
                      \A j \in 1 .. i : started[j] \in DOMAIN reply'
                                        /\ Len(reply'[started[j]]) = Length[started[j]]
               PROVE  reply'[started[i]] = Request(started[i])
    BY <1>1, SMTT(40) DEF LengthsTellMixedReplies, Request
  <2>1. CASE i = Len(started)
    <3>1. \A u \in finished' : \E j \in 1 .. i : u = started[j]
      BY <1>1, <1>2, <1>3, <2>1 DEF Elements
    <3>2. AllMatch'
      BY <3>1 DEF AllMatch
    <3> QED BY <1>4, <1>6, <1>7, <2>1, <3>2
  <2>2. CASE i # Len(started)
    <3>1. \A j \in 1 .. i : j \in DOMAIN started /\ started[j] # t /\ started[j] \in Elements(started)
      <4>1. ASSUME NEW j \in 1 .. i
            PROVE  j \in DOMAIN started /\ j # Len(started) /\ Len(started) \in DOMAIN started
        <5>1. i \in 1 .. Len(started) /\ i # Len(started)
          BY <1>3, <2>2
        <5> DEFINE l == Len(started)
        <5>2. l \in Nat /\ l > 0 /\ i \in 1 .. l /\ i # l
          BY <1>3, <1>5, <5>1
        <5> HIDE DEF l
        <5>3. j \in 1 .. l /\ j # l /\ l \in 1 .. l
          BY <5>2
        <5> QED BY <1>3, <5>3 DEF l
      <4> QED BY <1>4, <4>1, SMTT(40) DEF ReplyInv, ReplyBookkeeping, Elements
    <3>2. \A j \in 1 .. i : started[j] \in finished /\ reply'[started[j]] = reply[started[j]]
      BY <1>2, <1>6, <3>1
    <3>3. \A j \in 1 .. i : started[j] \in DOMAIN reply
                            /\ Len(reply[started[j]]) = Length[started[j]]
      BY <3>2 DEF ReplyInv, ReplyBookkeeping
    <3>4. reply[started[i]] = Request(started[i])
      BY <3>3 DEF ReplyInv, LengthsTellMixedReplies
    <3>5. i \in 1 .. i
      BY <1>3
    <3> QED BY <3>2, <3>4, <3>5, SMTT(40)
  <2> QED BY <2>1, <2>2
<1> QED BY <1>8, <1>9 DEF ReplyInv

\* What one read_some returned is the request that is in hand, if it is as
\* long.
LEMMA ReadKeepsReplies ==
    ASSUME Inv, ExactlyOnce, StreamInv, ReplyInv,
           NEW w \in Workers, Workers = {w}, ReadSome(w)
    PROVE  ReplyInv'
<1>1. PICK n \in Parts(downstream) : /\ reply' = SetReply(job[w], First(downstream, n))
                                     /\ received' = received \o First(downstream, n)
  BY DEF ReadSome
<1>2. /\ worker[w] = "running" /\ Run(w) /\ requested' = requested
      /\ unsent = <<>> /\ connection = "open"
  BY DEF ReadSome, Run
<1>3. job[w] \in Tasks
  BY <1>2 DEF Inv, Bookkeeping
<1> DEFINE q == Request(job[w])
           r == First(downstream, n)
<1>4. q \in Seq(Units) /\ Len(q) = Length[job[w]]
  BY <1>3, RequestIsAStream DEF Streams
<1>5. ASSUME AllMatch, Len(r) = Length[job[w]] PROVE r = q /\ received' = requested
  <2>1. requested = received \o q
    BY <1>2, <1>5 DEF ReplyInv, ReplyBookkeeping, InHand
  <2>2. /\ received \in Seq(Units) /\ downstream \in Seq(Units) /\ data \in Seq(Units)
        /\ upstream \in Seq(Units)
    BY DEF StreamInv, StreamTypes, Streams
  <2>3. received \o downstream \o data \o upstream \in Seq(Units)
    BY <2>2, ConcatProperties
  <2>4. requested = received \o downstream \o data \o upstream \o <<>>
    BY <1>2 DEF StreamInv, StreamInOrder
  <2>5. requested = received \o downstream \o data \o upstream
    BY <2>3, <2>4, ConcatEmptySeq
  <2> HIDE DEF q
  <2>6. received \o q = received \o downstream \o data \o upstream
    BY <2>1, <2>5
  <2>7. Len(r) = Len(q)
    BY <1>4, <1>5
  <2>8. CutOff(downstream, r, Rest(downstream, n))
    BY DEF CutOff
  <2> HIDE DEF r
  <2>9. r = q
    BY <1>4, <2>2, <2>6, <2>7, <2>8, AsLongIsTheSame
  <2>10. received' = received \o r
    BY <1>1 DEF r
  <2> QED BY <2>1, <2>9, <2>10
<1> QED BY <1>1, <1>2, <1>5, AnswerKeepsReplies

\* An exception is no reply as long as a request.
LEMMA FailKeepsReplies ==
    ASSUME Inv, ExactlyOnce, StreamInv, ReplyInv,
           NEW w \in Workers, Workers = {w}, Fail(w)
    PROVE  ReplyInv'
<1>1. Run(w) /\ reply' = SetReply(job[w], <<>>) /\ requested' = requested
  BY DEF Fail
<1>2. job[w] \in Tasks
  BY <1>1 DEF Run, Inv, Bookkeeping
<1>3. Len(<<>>) # Length[job[w]]
  BY <1>2, RequestIsAStream, EmptySeq
<1> QED BY <1>1, <1>3, AnswerKeepsReplies

\* Only the worker's take and its answer touch the replies.
LEMMA ReplyInvPreserved ==
    Inv /\ ExactlyOnce /\ StreamInv /\ ReplyInv /\ [LinkNext]_linkVars => ReplyInv'
<1> SUFFICES ASSUME Inv, ExactlyOnce, StreamInv, ReplyInv, [LinkNext]_linkVars
             PROVE  ReplyInv'
  OBVIOUS
<1>0. PICK w \in Workers : Workers = {w}
  BY LinkAssumption
<1>1. ASSUME UNCHANGED <<link, job, started, finished>>,
             worker'[w] = "running" <=> worker[w] = "running"
      PROVE  ReplyInv'
  BY <1>0, <1>1, ReplyInvUntouched DEF link
<1>2. CASE LinkWorkerStep(w)
  <2>1. CASE TakeRequest(w)
    BY <1>0, <2>1, TakeKeepsReplies
  <2>2. CASE WriteSome(w)
    BY <1>0, <2>2, ReplyInvUntouched DEF WriteSome, vars
  <2>3. CASE ReadSome(w)
    BY <1>0, <2>3, ReadKeepsReplies
  <2>4. CASE Fail(w)
    BY <1>0, <2>4, FailKeepsReplies
  <2>5. CASE (Sleep(w) \/ Exit(w)) /\ UNCHANGED <<net, link>>
    BY <1>1, <2>5 DEF Sleep, Exit, history, Inv, TypeOK
  <2> QED BY <1>2, <2>1, <2>2, <2>3, <2>4, <2>5 DEF LinkWorkerStep
<1>3. CASE WakeSpuriously(w) /\ UNCHANGED <<net, link>>
  BY <1>1, <1>3 DEF WakeSpuriously, history, Inv, TypeOK
<1>4. ASSUME NEW c \in Clients, Submit(c) PROVE ReplyInv'
  BY <1>1, <1>4 DEF Submit, ClientStep, EnqueuePush, EnqueueThrow, EnqueueNotify, Waiting,
                    history, Inv, TypeOK
<1>5. CASE LinkOwnerStep
  BY <1>1, <1>5 DEF LinkOwnerStep, CloseConnection, DestroyStop, DestroyNotifyAll, DestroyJoin,
                    history, Inv, TypeOK
<1>6. CASE (NodeStep \/ Break) /\ UNCHANGED <<vars, link>>
  BY <1>1, <1>6 DEF vars
<1>7. CASE UNCHANGED linkVars
  BY <1>1, <1>7 DEF linkVars, vars
<1> QED BY <1>0, <1>2, <1>3, <1>4, <1>5, <1>6, <1>7 DEF LinkNext

\* What is known of the replies holds however the stream is cut and whenever
\* the connection breaks.
THEOREM LinkKeepsReplies == LinkSpec => []ReplyInv
BY LinkerTakesRequestsInOrder, LinkKeepsTheStream, ReplyInvInitially, ReplyInvPreserved, PTL
DEF LinkSpec

\* As long as every reply had the length of its request, every reply was the
\* request of its own task: the two lengths client.cc prints tell a reply that
\* has been cut or mixed up.
THEOREM LengthsTell == LinkSpec => []LengthsTellMixedReplies
BY LinkKeepsReplies, PTL DEF ReplyInv
=============================================================================
