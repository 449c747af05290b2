-------------------------- MODULE ThreadPoolProofs --------------------------
(***************************************************************************)
(* What ThreadPool.tla claims, proved for any number of workers, clients   *)
(* and tasks.                                                              *)
(***************************************************************************)
EXTENDS ThreadPool, SequenceTheorems, FiniteSetTheorems, TLAPS

(* The data of the pool: what a queue does to its elements.                *)

\* Moving the front of the queue behind the started tasks keeps the order in
\* which a worker's Take sees the tasks.
LEMMA ShiftHead ==
    ASSUME NEW S, NEW s \in Seq(S), NEW t \in Seq(S), t # <<>>
    PROVE  s \o t = Append(s, Head(t)) \o Tail(t)
<1>1. Head(t) \in S /\ Tail(t) \in Seq(S) /\ Len(Tail(t)) = Len(t) - 1
      /\ \A i \in 1 .. Len(Tail(t)) : Tail(t)[i] = t[i+1]
  BY HeadTailProperties
<1>2. /\ Append(s, Head(t)) \in Seq(S)
      /\ Len(Append(s, Head(t))) = Len(s) + 1
      /\ \A i \in 1 .. Len(s) : Append(s, Head(t))[i] = s[i]
      /\ Append(s, Head(t))[Len(s) + 1] = Head(t)
  BY <1>1, AppendProperties
<1>3. DEFINE l == s \o t
             r == Append(s, Head(t)) \o Tail(t)
<1>4. l \in Seq(S) /\ Len(l) = Len(s) + Len(t)
      /\ \A i \in 1 .. Len(s) + Len(t) :
            l[i] = IF i <= Len(s) THEN s[i] ELSE t[i - Len(s)]
  BY ConcatProperties
<1>5. r \in Seq(S) /\ Len(r) = Len(s) + 1 + Len(Tail(t))
      /\ \A i \in 1 .. Len(s) + 1 + Len(Tail(t)) :
            r[i] = IF i <= Len(s) + 1 THEN Append(s, Head(t))[i] ELSE Tail(t)[i - (Len(s) + 1)]
  BY <1>1, <1>2, ConcatProperties
<1>6. Len(s) \in Nat /\ Len(t) \in Nat /\ Len(t) > 0 /\ Head(t) = t[1]
  BY LenProperties, EmptySeq
<1>7. ASSUME NEW i \in 1 .. Len(l) PROVE l[i] = r[i]
  BY <1>1, <1>2, <1>4, <1>5, <1>6
<1>8. Len(l) = Len(r)
  BY <1>1, <1>4, <1>5, <1>6
<1> QED BY <1>4, <1>5, <1>7, <1>8, SeqEqual

\* What a queue holds after enqueue's push.
LEMMA ElementsAppend ==
    ASSUME NEW S, NEW s \in Seq(S), NEW e \in S
    PROVE  Elements(Append(s, e)) = Elements(s) \cup {e}
BY AppendProperties, LenProperties DEF Elements

\* What a queue holds after a worker's pop.
LEMMA ElementsTail ==
    ASSUME NEW S, NEW s \in Seq(S), s # <<>>
    PROVE  /\ Elements(s) = Elements(Tail(s)) \cup {Head(s)}
           /\ Head(s) \in S
           /\ Elements(s) \subseteq S
<1>1. /\ Head(s) \in S
      /\ Tail(s) \in Seq(S)
      /\ Len(Tail(s)) = Len(s) - 1
      /\ \A i \in 1 .. Len(Tail(s)) : Tail(s)[i] = s[i+1]
  BY HeadTailProperties
<1>2. DOMAIN Tail(s) = 1 .. Len(s) - 1 /\ DOMAIN s = 1 .. Len(s) /\ Len(s) \in Nat
      /\ Len(s) > 0 /\ Head(s) = s[1] /\ \A i \in 1 .. Len(s) : s[i] \in S
  BY <1>1, LenProperties, EmptySeq, ElementOfSeq
<1>3. ASSUME NEW i \in 1 .. Len(s), i # 1
      PROVE  i - 1 \in 1 .. Len(s) - 1 /\ s[i] = Tail(s)[i - 1]
  BY <1>1, <1>2, <1>3
<1>4. Elements(s) \subseteq Elements(Tail(s)) \cup {Head(s)}
  BY <1>2, <1>3 DEF Elements
<1>5. Elements(Tail(s)) \cup {Head(s)} \subseteq Elements(s)
  BY <1>1, <1>2 DEF Elements
<1> QED BY <1>1, <1>2, <1>4, <1>5 DEF Elements

\* What two queues one after the other hold.
LEMMA ElementsConcat ==
    ASSUME NEW S, NEW s \in Seq(S), NEW t \in Seq(S)
    PROVE  Elements(s \o t) = Elements(s) \cup Elements(t)
<1>1. /\ s \o t \in Seq(S)
      /\ Len(s \o t) = Len(s) + Len(t)
      /\ \A i \in 1 .. Len(s) + Len(t) :
            (s \o t)[i] = IF i <= Len(s) THEN s[i] ELSE t[i - Len(s)]
  BY ConcatProperties
<1>2. DOMAIN s = 1 .. Len(s) /\ DOMAIN t = 1 .. Len(t) /\ DOMAIN (s \o t) = 1 .. Len(s \o t)
      /\ Len(s) \in Nat /\ Len(t) \in Nat
  BY <1>1, LenProperties
<1>3. ASSUME NEW i \in DOMAIN (s \o t) PROVE (s \o t)[i] \in Elements(s) \cup Elements(t)
  BY <1>1, <1>2 DEF Elements
<1>4. ASSUME NEW i \in DOMAIN s PROVE s[i] \in Elements(s \o t)
  <2>1. i \in DOMAIN (s \o t) /\ (s \o t)[i] = s[i]
    BY <1>1, <1>2
  <2> QED BY <2>1 DEF Elements
<1>5. ASSUME NEW i \in DOMAIN t PROVE t[i] \in Elements(s \o t)
  <2>1. Len(s) + i \in DOMAIN (s \o t) /\ (s \o t)[Len(s) + i] = t[i]
    BY <1>1, <1>2
  <2> QED BY <2>1 DEF Elements
<1> QED BY <1>3, <1>4, <1>5 DEF Elements

-----------------------------------------------------------------------------

\* The inductive invariant: the types of the state, and what the threads
\* know of one another through the queue.
Inv == TypeOK /\ FirstInFirstOut /\ Bookkeeping

\* A worker's pop leaves a queue without duplicates.
LEMMA TailDistinct ==
    ASSUME NEW S, NEW s \in Seq(S), s # <<>>,
           \A i, j \in DOMAIN s : s[i] = s[j] => i = j
    PROVE  /\ \A i, j \in DOMAIN Tail(s) : Tail(s)[i] = Tail(s)[j] => i = j
           /\ Head(s) \notin Elements(Tail(s))
<1>1. /\ Tail(s) \in Seq(S)
      /\ Len(Tail(s)) = Len(s) - 1
      /\ \A i \in 1 .. Len(Tail(s)) : Tail(s)[i] = s[i+1]
  BY HeadTailProperties
<1>2. DOMAIN Tail(s) = 1 .. Len(s) - 1 /\ DOMAIN s = 1 .. Len(s) /\ Len(s) \in Nat
      /\ Len(s) > 0 /\ Head(s) = s[1]
  BY <1>1, LenProperties, EmptySeq
<1>3. ASSUME NEW i \in DOMAIN Tail(s)
      PROVE  i \in Nat /\ i + 1 \in DOMAIN s /\ 1 \in DOMAIN s /\ i + 1 # 1 /\ Tail(s)[i] = s[i + 1]
  BY <1>1, <1>2, <1>3
<1>4. Head(s) \notin Elements(Tail(s))
  BY <1>2, <1>3 DEF Elements
<1>5. ASSUME NEW i \in DOMAIN Tail(s), NEW j \in DOMAIN Tail(s), Tail(s)[i] = Tail(s)[j]
      PROVE  i = j
  <2>1. i + 1 = j + 1
    BY <1>3, <1>5
  <2> QED BY <2>1, <1>3
<1> QED BY <1>4, <1>5

\* enqueue's push of a task the queue does not hold leaves it without
\* duplicates.
LEMMA AppendDistinct ==
    ASSUME NEW S, NEW s \in Seq(S), NEW e \in S, e \notin Elements(s),
           \A i, j \in DOMAIN s : s[i] = s[j] => i = j
    PROVE  \A i, j \in DOMAIN Append(s, e) : Append(s, e)[i] = Append(s, e)[j] => i = j
<1>1. /\ Append(s, e) \in Seq(S)
      /\ Len(Append(s, e)) = Len(s) + 1
      /\ \A i \in 1 .. Len(s) : Append(s, e)[i] = s[i]
      /\ Append(s, e)[Len(s) + 1] = e
  BY AppendProperties
<1>2. DOMAIN Append(s, e) = 1 .. Len(s) + 1 /\ DOMAIN s = 1 .. Len(s) /\ Len(s) \in Nat
  BY <1>1, LenProperties
<1> QED BY <1>1, <1>2 DEF Elements

\* A new pool, whose workers have not looked at the queue yet.
LEMMA InvHoldsInitially == Init => Inv
<1> SUFFICES ASSUME Init PROVE Inv
  OBVIOUS
<1>1. <<>> \in Seq(Tasks) /\ <<>> \o <<>> = <<>>
  BY EmptySeq, ConcatEmptySeq
<1>2. TypeOK
  BY <1>1 DEF Init, TypeOK
<1>3. FirstInFirstOut
  BY <1>1 DEF Init, FirstInFirstOut
<1>4. Bookkeeping
  BY PoolAssumption DEF Init, Bookkeeping
<1> QED BY <1>2, <1>3, <1>4 DEF Inv

\* No critical section of a worker, a client or the destructor breaks the
\* inductive invariant.
LEMMA InvIsInductive == Inv /\ [Next]_vars => Inv'
<1> SUFFICES ASSUME Inv, [Next]_vars PROVE Inv'
  OBVIOUS
<1> USE PoolAssumption DEF Inv
<1>1. ASSUME NEW w \in Workers, Take(w) PROVE Inv'
  <2>1. Head(tasks) \in Tasks /\ Tail(tasks) \in Seq(Tasks)
    BY <1>1, HeadTailProperties DEF Take, TypeOK
  <2>2. Append(started, Head(tasks)) \in Seq(Tasks)
    BY <2>1, AppendProperties DEF TypeOK
  <2>3. TypeOK'
    BY <1>1, <2>1, <2>2 DEF Take, TypeOK
  <2>4. FirstInFirstOut'
    BY <1>1, ShiftHead DEF Take, TypeOK, FirstInFirstOut
  <2>5. \A i, j \in DOMAIN Tail(tasks) : Tail(tasks)[i] = Tail(tasks)[j] => i = j
    BY <1>1, TailDistinct DEF Take, TypeOK, Bookkeeping
  <2>6. \A v \in Workers : worker'[v] = "running" <=> job'[v] \in Tasks
    BY <1>1, <2>1 DEF Take, TypeOK, Bookkeeping
  <2>7. (\E v \in Workers : worker'[v] = "exited") => FALSE
    BY <1>1 DEF Take, TypeOK, Bookkeeping
  <2>8. owner' = "joined" => FALSE
    BY <1>1 DEF Take, TypeOK, Bookkeeping
  <2> QED BY <1>1, <2>3, <2>4, <2>5, <2>6, <2>7, <2>8 DEF Take, Bookkeeping
<1>2. ASSUME NEW w \in Workers, Sleep(w) PROVE Inv'
  BY <1>2 DEF Sleep, history, TypeOK, FirstInFirstOut, Bookkeeping
<1>3. ASSUME NEW w \in Workers, WakeSpuriously(w) PROVE Inv'
  BY <1>3 DEF WakeSpuriously, history, TypeOK, FirstInFirstOut, Bookkeeping
<1>4. ASSUME NEW w \in Workers, Exit(w) PROVE Inv'
  BY <1>4 DEF Exit, history, TypeOK, FirstInFirstOut, Bookkeeping
<1>5. ASSUME NEW w \in Workers, Run(w) PROVE Inv'
  BY <1>5 DEF Run, TypeOK, FirstInFirstOut, Bookkeeping
<1>6. ASSUME NEW c \in Clients, NEW t \in Tasks, EnqueuePush(c, t) PROVE Inv'
  <2>1. Append(tasks, t) \in Seq(Tasks) /\ Append(accepted, t) \in Seq(Tasks)
    BY AppendProperties DEF TypeOK
  <2>2. TypeOK'
    BY <1>6, <2>1 DEF EnqueuePush, TypeOK
  <2>3. <<t>> \in Seq(Tasks) /\ Append(tasks, t) = tasks \o <<t>>
        /\ Append(accepted, t) = accepted \o <<t>>
    BY AppendIsConcat DEF TypeOK
  <2>4. FirstInFirstOut'
    BY <1>6, <2>3, ConcatAssociative DEF EnqueuePush, TypeOK, FirstInFirstOut
  <2>5. t \notin Elements(tasks)
    BY <1>6, ElementsConcat DEF EnqueuePush, Fresh, FirstInFirstOut, TypeOK
  <2>6. \A i, j \in DOMAIN Append(tasks, t) :
            Append(tasks, t)[i] = Append(tasks, t)[j] => i = j
    BY <2>5, AppendDistinct DEF TypeOK, Bookkeeping
  <2> QED BY <1>6, <2>2, <2>4, <2>6 DEF EnqueuePush, Bookkeeping
<1>7. ASSUME NEW c \in Clients, NEW t \in Tasks, EnqueueThrow(c, t) PROVE Inv'
  BY <1>7 DEF EnqueueThrow, TypeOK, FirstInFirstOut, Bookkeeping
<1>8. ASSUME NEW c \in Clients, EnqueueNotify(c) PROVE Inv'
  <2>1. UNCHANGED <<tasks, stop, job, owner, accepted, started, finished, rejected>>
    BY <1>8 DEF EnqueueNotify, history
  <2>2. client' \in [Clients -> {"idle", "pushed"}]
    BY <1>8 DEF EnqueueNotify, TypeOK
  <2>3. /\ worker' \in [Workers -> {"loop", "waiting", "running", "exited"}]
        /\ \A v \in Workers : \/ worker'[v] = worker[v]
                              \/ worker[v] = "waiting" /\ worker'[v] = "loop"
    BY <1>8 DEF EnqueueNotify, Waiting, TypeOK
  <2> QED BY <2>1, <2>2, <2>3 DEF TypeOK, FirstInFirstOut, Bookkeeping
<1>9. CASE DestroyStop
  BY <1>9 DEF DestroyStop, history, TypeOK, FirstInFirstOut, Bookkeeping
<1>10. CASE DestroyNotifyAll
  BY <1>10 DEF DestroyNotifyAll, history, TypeOK, FirstInFirstOut, Bookkeeping
<1>11. CASE DestroyJoin
  BY <1>11 DEF DestroyJoin, history, TypeOK, FirstInFirstOut, Bookkeeping
<1>12. CASE UNCHANGED vars
  BY <1>12 DEF vars, TypeOK, FirstInFirstOut, Bookkeeping
<1> QED
  BY <1>1, <1>2, <1>3, <1>4, <1>5, <1>6, <1>7, <1>8, <1>9, <1>10, <1>11, <1>12
  DEF Next, WorkerStep, ClientStep, OwnerStep

\* Every reachable state satisfies the inductive invariant.
THEOREM PoolInvariant == Spec => []Inv
BY InvHoldsInitially, InvIsInductive, PTL DEF Spec

\* The state of the pool keeps its types.
THEOREM PoolTypes == Spec => []TypeOK
BY PoolInvariant, PTL DEF Inv

\* Tasks start in the order enqueue accepted them, and the queue loses and
\* duplicates none.
THEOREM PoolIsFirstInFirstOut == Spec => []FirstInFirstOut
BY PoolInvariant, PTL DEF Inv

-----------------------------------------------------------------------------

\* A new pool holds no task.
LEMMA ExactlyOnceInitially == Init => ExactlyOnce
<1> SUFFICES ASSUME Init PROVE ExactlyOnce
  OBVIOUS
<1>1. Busy = {} /\ Elements(started) = {} /\ Elements(tasks) = {} /\ finished = {}
  BY DEF Init, Busy, Elements
<1> QED BY <1>1 DEF ExactlyOnce

\* A pop hands the task to one worker, and running it moves it to the
\* finished ones; nothing else moves a started task.
LEMMA ExactlyOncePreserved == Inv /\ ExactlyOnce /\ [Next]_vars => ExactlyOnce'
<1> SUFFICES ASSUME Inv, ExactlyOnce, [Next]_vars PROVE ExactlyOnce'
  OBVIOUS
<1> USE DEF Inv
<1>1. ASSUME NEW w \in Workers, Take(w) PROVE ExactlyOnce'
  <2>1. /\ Head(tasks) \in Tasks
        /\ Elements(tasks) = Elements(Tail(tasks)) \cup {Head(tasks)}
        /\ Head(tasks) \notin Elements(Tail(tasks))
    BY <1>1, ElementsTail, TailDistinct DEF Take, TypeOK, Bookkeeping
  <2>2. Elements(Append(started, Head(tasks))) = Elements(started) \cup {Head(tasks)}
    BY <2>1, ElementsAppend DEF TypeOK
  <2>3. Busy' = Busy \cup {w} /\ w \notin Busy
    BY <1>1 DEF Take, Busy, TypeOK
  <2>4. job'[w] = Head(tasks) /\ \A v \in Busy : job'[v] = job[v]
    BY <1>1, <2>3 DEF Take, TypeOK
  <2>5. \A v \in Busy : job[v] # Head(tasks)
    BY <2>1 DEF ExactlyOnce
  <2>6. Head(tasks) \notin finished
    BY <2>1 DEF ExactlyOnce
  <2>7. {job'[v] : v \in Busy'} = {job[v] : v \in Busy} \cup {Head(tasks)}
    BY <2>3, <2>4
  <2> QED BY <1>1, <2>1, <2>2, <2>3, <2>4, <2>5, <2>6, <2>7 DEF Take, ExactlyOnce
<1>2. ASSUME NEW w \in Workers, Run(w) PROVE ExactlyOnce'
  <2>1. Busy' = Busy \ {w} /\ w \in Busy
    BY <1>2 DEF Run, Busy, TypeOK
  <2>2. \A v \in Busy' : job'[v] = job[v] /\ v # w
    BY <1>2, <2>1 DEF Run, TypeOK, Busy
  <2>3. {job'[v] : v \in Busy'} = {job[v] : v \in Busy} \ {job[w]}
    BY <2>1, <2>2 DEF ExactlyOnce
  <2> QED BY <1>2, <2>1, <2>2, <2>3 DEF Run, ExactlyOnce
<1>3. ASSUME NEW c \in Clients, NEW t \in Tasks, EnqueuePush(c, t) PROVE ExactlyOnce'
  <2>1. Elements(Append(tasks, t)) = Elements(tasks) \cup {t}
    BY ElementsAppend DEF TypeOK
  <2>2. t \notin Elements(started)
    BY <1>3, ElementsConcat DEF EnqueuePush, Fresh, FirstInFirstOut, TypeOK
  <2>3. Busy' = Busy
    BY <1>3 DEF EnqueuePush, Busy
  <2> QED BY <1>3, <2>1, <2>2, <2>3 DEF EnqueuePush, ExactlyOnce
<1>4. ASSUME UNCHANGED <<tasks, job, started, finished>>, Busy' = Busy
      PROVE  ExactlyOnce'
  BY <1>4 DEF ExactlyOnce
<1>5. ASSUME NEW w \in Workers, Sleep(w) \/ WakeSpuriously(w) \/ Exit(w)
      PROVE  ExactlyOnce'
  <2>1. Busy' = Busy
    BY <1>5 DEF Sleep, WakeSpuriously, Exit, Busy, TypeOK
  <2> QED BY <1>4, <1>5, <2>1 DEF Sleep, WakeSpuriously, Exit, history
<1>6. ASSUME NEW c \in Clients, NEW t \in Tasks, EnqueueThrow(c, t) PROVE ExactlyOnce'
  <2>1. Busy' = Busy
    BY <1>6 DEF EnqueueThrow, Busy
  <2> QED BY <1>4, <1>6, <2>1 DEF EnqueueThrow
<1>7. ASSUME NEW c \in Clients, EnqueueNotify(c) PROVE ExactlyOnce'
  <2>1. Busy' = Busy
    BY <1>7 DEF EnqueueNotify, Waiting, Busy, TypeOK
  <2> QED BY <1>4, <1>7, <2>1 DEF EnqueueNotify, history
<1>8. CASE OwnerStep
  <2>1. Busy' = Busy
    BY <1>8 DEF OwnerStep, DestroyStop, DestroyNotifyAll, DestroyJoin, Busy, TypeOK
  <2> QED BY <1>4, <1>8, <2>1 DEF OwnerStep, DestroyStop, DestroyNotifyAll, DestroyJoin, history
<1>9. CASE UNCHANGED vars
  <2>1. Busy' = Busy
    BY <1>9 DEF vars, Busy
  <2> QED BY <1>4, <1>9, <2>1 DEF vars
<1> QED BY <1>1, <1>2, <1>3, <1>5, <1>6, <1>7, <1>8, <1>9 DEF Next, WorkerStep, ClientStep

\* Every accepted task is held by exactly one of the queue, a worker and the
\* set of the finished ones.
THEOREM PoolRunsTasksExactlyOnce == Spec => []ExactlyOnce
BY PoolInvariant, ExactlyOnceInitially, ExactlyOncePreserved, PTL DEF Spec

-----------------------------------------------------------------------------

\* The sleepers, the workers on their way to the queue and the clients that
\* still have to notify can be counted.
LEMMA CountableThreads ==
    /\ IsFiniteSet(Ready) /\ Cardinality(Ready) \in Nat
    /\ IsFiniteSet(Notifying) /\ Cardinality(Notifying) \in Nat
BY PoolAssumption, FS_Subset, FS_CardinalityType DEF Ready, Notifying

\* A push adds one task and one client that will notify; a notify_one moves
\* one sleeper to the queue; a pop takes one task and leaves the loop.
LEMMA NoLostWakeupPreserved ==
    Inv /\ NoLostWakeup /\ [Next]_vars => NoLostWakeup'
<1> SUFFICES ASSUME Inv, NoLostWakeup, [Next]_vars PROVE NoLostWakeup'
  OBVIOUS
<1> USE CountableThreads DEF Inv
<1>0. Len(tasks) \in Nat /\ (tasks = <<>> => Len(tasks) = 0)
  BY LenProperties, EmptySeq DEF TypeOK
<1>1. ASSUME NEW w \in Workers, Take(w) PROVE NoLostWakeup'
  <2>1. Ready' = Ready \ {w} /\ w \in Ready
    BY <1>1 DEF Take, Ready, TypeOK
  <2>2. Waiting' = Waiting /\ Notifying' = Notifying
    BY <1>1 DEF Take, Waiting, Notifying, TypeOK
  <2>3. Cardinality(Ready') = Cardinality(Ready) - 1
    BY <2>1, FS_RemoveElement
  <2>4. Len(tasks') = Len(tasks) - 1
    BY <1>1, HeadTailProperties DEF Take, TypeOK
  <2> QED BY <1>0, <2>2, <2>3, <2>4 DEF NoLostWakeup
<1>2. ASSUME NEW w \in Workers, Sleep(w) \/ Exit(w) PROVE NoLostWakeup'
  <2>1. Len(tasks') = 0
    BY <1>0, <1>2 DEF Sleep, Exit
  <2>2. Cardinality(Ready') \in Nat /\ Cardinality(Notifying') \in Nat
    BY PoolAssumption, FS_Subset, FS_CardinalityType DEF Ready, Notifying
  <2> QED BY <2>1, <2>2 DEF NoLostWakeup
<1>3. ASSUME NEW w \in Workers, WakeSpuriously(w) PROVE NoLostWakeup'
  <2>1. Ready' = Ready \cup {w} /\ w \notin Ready /\ w \in Waiting
    BY <1>3 DEF WakeSpuriously, Ready, Waiting, TypeOK
  <2>2. Cardinality(Ready') = Cardinality(Ready) + 1
    BY <2>1, FS_AddElement
  <2>3. tasks' = tasks /\ Notifying' = Notifying
    BY <1>3 DEF WakeSpuriously, Notifying
  <2> QED BY <1>0, <2>1, <2>2, <2>3 DEF NoLostWakeup
<1>4. ASSUME NEW w \in Workers, Run(w) PROVE NoLostWakeup'
  <2>1. Ready' = Ready \cup {w} /\ w \notin Ready /\ Waiting' = Waiting
    BY <1>4 DEF Run, Ready, Waiting, TypeOK
  <2>2. Cardinality(Ready') = Cardinality(Ready) + 1
    BY <2>1, FS_AddElement
  <2>3. tasks' = tasks /\ Notifying' = Notifying
    BY <1>4 DEF Run, Notifying
  <2> QED BY <1>0, <2>1, <2>2, <2>3 DEF NoLostWakeup
<1>5. ASSUME NEW c \in Clients, NEW t \in Tasks, EnqueuePush(c, t) PROVE NoLostWakeup'
  <2>1. Notifying' = Notifying \cup {c} /\ c \notin Notifying
    BY <1>5 DEF EnqueuePush, Notifying, TypeOK
  <2>2. Cardinality(Notifying') = Cardinality(Notifying) + 1
    BY <2>1, FS_AddElement
  <2>3. Ready' = Ready /\ Waiting' = Waiting
    BY <1>5 DEF EnqueuePush, Ready, Waiting
  <2>4. Len(tasks') = Len(tasks) + 1
    BY <1>5, AppendProperties DEF EnqueuePush, TypeOK
  <2> QED BY <1>0, <2>2, <2>3, <2>4 DEF NoLostWakeup
<1>6. ASSUME NEW c \in Clients, EnqueueNotify(c) PROVE NoLostWakeup'
  <2>1. tasks' = tasks
    BY <1>6 DEF EnqueueNotify
  <2>2. Notifying' = Notifying \ {c} /\ c \in Notifying
    BY <1>6 DEF EnqueueNotify, Notifying, TypeOK
  <2>3. Cardinality(Notifying') = Cardinality(Notifying) - 1
    BY <2>2, FS_RemoveElement
  <2>4. CASE Waiting = {} /\ UNCHANGED worker
    BY <2>4 DEF NoLostWakeup, Waiting
  <2>5. ASSUME NEW w \in Waiting, worker' = [worker EXCEPT ![w] = "loop"]
        PROVE  NoLostWakeup'
    <3>1. Ready' = Ready \cup {w} /\ w \notin Ready
      BY <2>5 DEF Ready, Waiting, TypeOK
    <3>2. Cardinality(Ready') = Cardinality(Ready) + 1
      BY <3>1, FS_AddElement
    <3> QED BY <1>0, <2>1, <2>3, <2>5, <3>2 DEF NoLostWakeup
  <2> QED BY <1>6, <2>4, <2>5 DEF EnqueueNotify
<1>7. CASE DestroyNotifyAll
  <2>1. Waiting' = {}
    BY <1>7 DEF DestroyNotifyAll, Waiting
  <2> QED BY <2>1 DEF NoLostWakeup
<1>8. ASSUME UNCHANGED <<tasks, worker, client>> PROVE NoLostWakeup'
  BY <1>8 DEF NoLostWakeup, Waiting, Ready, Notifying
<1>9. ASSUME NEW c \in Clients, NEW t \in Tasks, EnqueueThrow(c, t) PROVE NoLostWakeup'
  BY <1>8, <1>9 DEF EnqueueThrow
<1>10. CASE DestroyStop \/ DestroyJoin \/ UNCHANGED vars
  BY <1>8, <1>10 DEF DestroyStop, DestroyJoin, vars
<1> QED
  BY <1>1, <1>2, <1>3, <1>4, <1>5, <1>6, <1>7, <1>9, <1>10
  DEF Next, WorkerStep, ClientStep, OwnerStep

\* No wakeup is lost, however many threads enqueue and however late their
\* notify_one comes.
THEOREM PoolLosesNoWakeup == Spec => []NoLostWakeup
<1>1. Init => NoLostWakeup
  BY DEF Init, NoLostWakeup, Waiting
<1> QED BY <1>1, PoolInvariant, NoLostWakeupPreserved, PTL DEF Spec

-----------------------------------------------------------------------------

\* The destructor leaves no accepted task undone.
THEOREM PoolIsDrainedWhenDestroyed == Spec => []DrainedWhenDestroyed
<1>1. Inv /\ ExactlyOnce => DrainedWhenDestroyed
  <2> SUFFICES ASSUME Inv, ExactlyOnce, owner = "joined"
               PROVE  finished = Elements(accepted) /\ Busy = {}
    BY DEF DrainedWhenDestroyed
  <2>1. \A w \in Workers : worker[w] = "exited"
    BY DEF Inv, Bookkeeping
  <2>2. tasks = <<>>
    BY <2>1, PoolAssumption DEF Inv, Bookkeeping
  <2>3. Busy = {}
    BY <2>1 DEF Busy
  <2>4. accepted = started
    BY <2>2, ConcatEmptySeq DEF Inv, TypeOK, FirstInFirstOut
  <2> QED BY <2>3, <2>4 DEF ExactlyOnce
<1> QED BY <1>1, PoolInvariant, PoolRunsTasksExactlyOnce, PTL

\* After the destructor's notify_all no worker sleeps again, so none is left
\* behind to be joined for ever.
THEOREM NobodyIsLeftAsleep == Spec => []NobodySleepsAfterNotifyAll
<1>1. Init => NobodySleepsAfterNotifyAll
  BY DEF Init, NobodySleepsAfterNotifyAll
<1>2. Inv /\ NobodySleepsAfterNotifyAll /\ [Next]_vars => NobodySleepsAfterNotifyAll'
  <2> SUFFICES ASSUME Inv, NobodySleepsAfterNotifyAll, [Next]_vars
               PROVE  NobodySleepsAfterNotifyAll'
    OBVIOUS
  <2> USE DEF Inv, TypeOK, Bookkeeping, NobodySleepsAfterNotifyAll, Waiting
  <2>1. ASSUME NEW w \in Workers, WorkerStep(w) PROVE NobodySleepsAfterNotifyAll'
    BY <2>1 DEF WorkerStep, Take, Sleep, Exit, Run
  <2>2. ASSUME NEW w \in Workers, WakeSpuriously(w) PROVE NobodySleepsAfterNotifyAll'
    BY <2>2 DEF WakeSpuriously
  <2>3. ASSUME NEW c \in Clients, ClientStep(c) PROVE NobodySleepsAfterNotifyAll'
    BY <2>3 DEF ClientStep, EnqueuePush, EnqueueThrow, EnqueueNotify
  <2>4. CASE OwnerStep
    BY <2>4 DEF OwnerStep, DestroyStop, DestroyNotifyAll, DestroyJoin
  <2>5. CASE UNCHANGED vars
    BY <2>5 DEF vars
  <2> QED BY <2>1, <2>2, <2>3, <2>4, <2>5 DEF Next
<1> QED BY <1>1, <1>2, PoolInvariant, PTL DEF Spec

-----------------------------------------------------------------------------

\* Every critical section is an operation of the abstract pool, or nothing
\* its callers can see.
LEMMA StepsOfThePromise ==
    Inv /\ ExactlyOnce /\ [Next]_vars => [Promise!Next]_(Promise!poolVars)
<1> SUFFICES ASSUME Inv, ExactlyOnce, [Next]_vars
             PROVE  [Promise!Next]_(Promise!poolVars)
  OBVIOUS
<1> USE DEF Inv, Promise!poolVars, Promise!Next
<1>1. ASSUME NEW w \in Workers, Take(w) PROVE Promise!Start
  <2>1. job[w] = NoTask
    BY <1>1 DEF Take, TypeOK, Bookkeeping
  <2> QED BY <1>1, <2>1 DEF Take, Promise!Start
<1>2. ASSUME NEW w \in Workers, Run(w) PROVE Promise!Complete(w)
  <2>1. job[w] # NoTask
    BY <1>2, PoolAssumption DEF Run, Bookkeeping
  <2> QED BY <1>2, <2>1 DEF Run, Promise!Complete
<1>3. ASSUME NEW c \in Clients, NEW t \in Tasks, EnqueuePush(c, t) PROVE Promise!Submit
  <2>1. Elements(accepted) = Elements(started) \cup Elements(tasks)
    BY ElementsConcat DEF FirstInFirstOut, TypeOK
  <2>2. t \notin Elements(tasks) \cup finished \cup {job[w] : w \in Busy}
    BY <1>3, <2>1 DEF EnqueuePush, Fresh, ExactlyOnce
  <2>3. \A w \in Workers : job[w] = t => w \in Busy
    BY DEF Busy, Bookkeeping
  <2>4. t \notin Promise!Known
    BY <2>2, <2>3 DEF Promise!Known, Elements
  <2> QED BY <1>3, <2>4 DEF EnqueuePush, Promise!Submit
<1>4. CASE DestroyStop
  BY <1>4 DEF DestroyStop, history, Promise!Close
<1>5. ASSUME NEW w \in Workers, Sleep(w) \/ WakeSpuriously(w) \/ Exit(w)
      PROVE  UNCHANGED Promise!poolVars
  BY <1>5 DEF Sleep, WakeSpuriously, Exit, history
<1>6. ASSUME NEW c \in Clients, NEW t \in Tasks, EnqueueThrow(c, t)
      PROVE  UNCHANGED Promise!poolVars
  BY <1>6 DEF EnqueueThrow
<1>7. ASSUME NEW c \in Clients, EnqueueNotify(c)
      PROVE  UNCHANGED Promise!poolVars
  BY <1>7 DEF EnqueueNotify, history
<1>8. CASE DestroyNotifyAll \/ DestroyJoin \/ UNCHANGED vars
  BY <1>8 DEF DestroyNotifyAll, DestroyJoin, history, vars
<1> QED
  BY <1>1, <1>2, <1>3, <1>4, <1>5, <1>6, <1>7, <1>8
  DEF Next, WorkerStep, ClientStep, OwnerStep

\* Every behaviour of the pool is one TaskPool promises (its safety part).
THEOREM PoolImplementsTaskPool == Spec => Promise!Spec
<1>1. Init => Promise!Init
  BY DEF Init, Promise!Init
<1> QED
  BY <1>1, PoolInvariant, PoolRunsTasksExactlyOnce, StepsOfThePromise, PTL
  DEF Spec, Promise!Spec
=============================================================================
