----------------------------- MODULE ThreadPool -----------------------------
(***************************************************************************)
(* common/ThreadPool.h: a fixed set of worker threads that take tasks from *)
(* a queue guarded by queue_mutex and sleep on a condition variable.       *)
(*                                                                         *)
(* A critical section under queue_mutex is one action: no other thread can *)
(* see the queue, stop or the predicate in the middle of it.  What the     *)
(* code does after it has released the mutex (notify_one, notify_all,      *)
(* running the task, joining) is an action of its own.                     *)
(***************************************************************************)
EXTENDS Naturals, Sequences, FiniteSets

CONSTANTS Workers,  \* the worker threads
          Clients,  \* the threads that call enqueue
          Tasks,    \* the tasks they enqueue, each at most once
          NoTask    \* what a worker that runs nothing runs

ASSUME PoolAssumption == /\ Workers # {}
                         /\ IsFiniteSet(Workers)
                         /\ IsFiniteSet(Clients)
                         /\ NoTask \notin Tasks

VARIABLES
    tasks,     \* the queue of the pool
    stop,      \* set by the destructor
    worker,    \* where each worker is in its loop
    job,       \* the task each worker has moved out of the queue
    client,    \* where each client is in enqueue
    owner,     \* where the owner is in the destructor
    accepted,  \* history: the tasks enqueue accepted, in order
    started,   \* history: the tasks workers took, in order
    finished,  \* the tasks whose future is ready
    rejected   \* the tasks whose enqueue threw

vars == <<tasks, stop, worker, job, client, owner,
          accepted, started, finished, rejected>>
history == <<accepted, started, finished, rejected>>

Elements(s) == {s[i] : i \in DOMAIN s}

Init == /\ tasks = <<>>
        /\ stop = FALSE
        /\ worker = [w \in Workers |-> "loop"]
        /\ job = [w \in Workers |-> NoTask]
        /\ client = [c \in Clients |-> "idle"]
        /\ owner = "alive"
        /\ accepted = <<>>
        /\ started = <<>>
        /\ finished = {}
        /\ rejected = {}

-----------------------------------------------------------------------------
(* The worker loop.                                                        *)

\* Mutant: wait without a predicate, so that a wakeup with an empty queue moves
\* an empty function out of it.
TakeUnchecked(w) == /\ worker[w] = "loop"
                    /\ worker' = [worker EXCEPT ![w] = "running"]
                    /\ job' = [job EXCEPT ![w] = IF tasks = <<>> THEN <<>> ELSE Head(tasks)]
                    /\ tasks' = IF tasks = <<>> THEN <<>> ELSE Tail(tasks)
                    /\ UNCHANGED <<stop, client, owner, history>>

\* Mutant: take the back of the queue.
TakeBack(w) == /\ worker[w] = "loop"
               /\ tasks # <<>>
               /\ worker' = [worker EXCEPT ![w] = "running"]
               /\ job' = [job EXCEPT ![w] = tasks[Len(tasks)]]
               /\ tasks' = SubSeq(tasks, 1, Len(tasks) - 1)
               /\ started' = Append(started, tasks[Len(tasks)])
               /\ UNCHANGED <<stop, client, owner, accepted, finished, rejected>>

\* Mutant: the pop is missing.
TakeWithoutPop(w) == /\ worker[w] = "loop"
                     /\ tasks # <<>>
                     /\ worker' = [worker EXCEPT ![w] = "running"]
                     /\ job' = [job EXCEPT ![w] = Head(tasks)]
                     /\ started' = Append(started, Head(tasks))
                     /\ UNCHANGED <<tasks, stop, client, owner, accepted, finished, rejected>>

\* The predicate holds and the queue is not empty: move the front task out.
Take(w) == /\ worker[w] = "loop"
           /\ tasks # <<>>
           /\ worker' = [worker EXCEPT ![w] = "running"]
           /\ job' = [job EXCEPT ![w] = Head(tasks)]
           /\ tasks' = Tail(tasks)
           /\ started' = Append(started, Head(tasks))
           /\ UNCHANGED <<stop, client, owner, accepted, finished, rejected>>

\* The predicate does not hold: release the mutex and sleep, in one step.
Sleep(w) == /\ worker[w] = "loop"
            /\ tasks = <<>>
            /\ ~stop
            /\ worker' = [worker EXCEPT ![w] = "waiting"]
            /\ UNCHANGED <<tasks, stop, job, client, owner, history>>

\* A condition variable may wake a waiter nobody notified.
WakeSpuriously(w) == /\ worker[w] = "waiting"
                     /\ worker' = [worker EXCEPT ![w] = "loop"]
                     /\ UNCHANGED <<tasks, stop, job, client, owner, history>>

\* Mutant: return as soon as the pool is stopped.
ExitUndrained(w) == /\ worker[w] = "loop"
                    /\ stop
                    /\ worker' = [worker EXCEPT ![w] = "exited"]
                    /\ UNCHANGED <<tasks, stop, job, client, owner, history>>

\* The pool is stopped and drained: the worker returns.
Exit(w) == /\ worker[w] = "loop"
           /\ stop
           /\ tasks = <<>>
           /\ worker' = [worker EXCEPT ![w] = "exited"]
           /\ UNCHANGED <<tasks, stop, job, client, owner, history>>

\* task(): a packaged_task keeps what the function throws, so the future
\* becomes ready and the worker goes on whatever the task does.
Run(w) == /\ worker[w] = "running"
          /\ finished' = finished \cup {job[w]}
          /\ job' = [job EXCEPT ![w] = NoTask]
          /\ worker' = [worker EXCEPT ![w] = "loop"]
          /\ UNCHANGED <<tasks, stop, client, owner, accepted, started, rejected>>

-----------------------------------------------------------------------------
(* enqueue.  A call may overlap the destructor up to its join and not      *)
(* outlive it: calling a member of a destroyed object is the caller's      *)
(* error, not a behaviour of the pool.                                     *)

Fresh(t) == t \notin Elements(accepted) \cup rejected

\* Mutant: push without notify_one.
EnqueueSilently(c, t) == /\ client[c] = "idle"
                         /\ owner # "joined"
                         /\ Fresh(t)
                         /\ ~stop
                         /\ tasks' = Append(tasks, t)
                         /\ accepted' = Append(accepted, t)
                         /\ UNCHANGED <<stop, worker, job, client, owner,
                                        started, finished, rejected>>

EnqueuePush(c, t) == /\ client[c] = "idle"
                     /\ owner # "joined"
                     /\ Fresh(t)
                     /\ ~stop
                     /\ tasks' = Append(tasks, t)
                     /\ accepted' = Append(accepted, t)
                     /\ client' = [client EXCEPT ![c] = "pushed"]
                     /\ UNCHANGED <<stop, worker, job, owner, started, finished, rejected>>

EnqueueThrow(c, t) == /\ client[c] = "idle"
                      /\ owner # "joined"
                      /\ Fresh(t)
                      /\ stop
                      /\ rejected' = rejected \cup {t}
                      /\ UNCHANGED <<tasks, stop, worker, job, client, owner,
                                     accepted, started, finished>>

Waiting == {w \in Workers : worker[w] = "waiting"}

\* notify_one after the mutex is released: it wakes one waiter, if any.
EnqueueNotify(c) == /\ client[c] = "pushed"
                    /\ client' = [client EXCEPT ![c] = "idle"]
                    /\ \/ /\ Waiting = {}
                          /\ UNCHANGED worker
                       \/ \E w \in Waiting : worker' = [worker EXCEPT ![w] = "loop"]
                    /\ UNCHANGED <<tasks, stop, job, owner, history>>

-----------------------------------------------------------------------------
(* The destructor.                                                         *)

DestroyStop == /\ owner = "alive"
               /\ stop' = TRUE
               /\ owner' = "stopped"
               /\ UNCHANGED <<tasks, worker, job, client, history>>

\* Mutant: notify_one where notify_all is needed.
DestroyNotifyOne == /\ owner = "stopped"
                    /\ \/ Waiting = {} /\ UNCHANGED worker
                       \/ \E w \in Waiting : worker' = [worker EXCEPT ![w] = "loop"]
                    /\ owner' = "notified"
                    /\ UNCHANGED <<tasks, stop, job, client, history>>

DestroyNotifyAll == /\ owner = "stopped"
                    /\ worker' = [w \in Workers |-> IF worker[w] = "waiting"
                                                    THEN "loop" ELSE worker[w]]
                    /\ owner' = "notified"
                    /\ UNCHANGED <<tasks, stop, job, client, history>>

\* Every join returned, and every enqueue that overlapped it has.
DestroyJoin == /\ owner = "notified"
               /\ \A w \in Workers : worker[w] = "exited"
               /\ \A c \in Clients : client[c] = "idle"
               /\ owner' = "joined"
               /\ UNCHANGED <<tasks, stop, worker, job, client, history>>

-----------------------------------------------------------------------------

WorkerStep(w) == Take(w) \/ Sleep(w) \/ Exit(w) \/ Run(w)
ClientStep(c) == \/ \E t \in Tasks : EnqueuePush(c, t) \/ EnqueueThrow(c, t)
                 \/ EnqueueNotify(c)
OwnerStep == DestroyStop \/ DestroyNotifyAll \/ DestroyJoin

Next == \/ \E w \in Workers : WorkerStep(w) \/ WakeSpuriously(w)
        \/ \E c \in Clients : ClientStep(c)
        \/ OwnerStep

Spec == Init /\ [][Next]_vars

\* A thread that can run is scheduled: the workers always, a client and the
\* owner once they are inside a call.  Nobody has to start a call.
Fairness == /\ \A w \in Workers : WF_vars(WorkerStep(w))
            /\ \A c \in Clients : WF_vars(EnqueueNotify(c))
            /\ WF_vars(DestroyNotifyAll \/ DestroyJoin)

FairSpec == Spec /\ Fairness

-----------------------------------------------------------------------------
(* Properties.                                                             *)

\* The state has the types ThreadPool.h gives it.
TypeOK == /\ tasks \in Seq(Tasks)
          /\ stop \in BOOLEAN
          /\ worker \in [Workers -> {"loop", "waiting", "running", "exited"}]
          /\ job \in [Workers -> Tasks \cup {NoTask}]
          /\ client \in [Clients -> {"idle", "pushed"}]
          /\ owner \in {"alive", "stopped", "notified", "joined"}
          /\ accepted \in Seq(Tasks)
          /\ started \in Seq(Tasks)
          /\ finished \subseteq Tasks
          /\ rejected \subseteq Tasks

\* Tasks start in the order enqueue accepted them, and none is lost or
\* duplicated on the way from the client through the queue to a worker.
FirstInFirstOut == accepted = started \o tasks

Busy == {w \in Workers : worker[w] = "running"}

\* A started task is held by exactly one worker until its future is ready,
\* and by none afterwards; no task a worker holds is also still queued.
ExactlyOnce ==
    /\ Elements(started) = finished \cup {job[w] : w \in Busy}
    /\ \A w \in Busy : job[w] \notin finished
    /\ \A v, w \in Busy : job[v] = job[w] => v = w
    /\ Elements(tasks) \cap Elements(started) = {}

Ready == {w \in Workers : worker[w] = "loop"}
Notifying == {c \in Clients : client[c] = "pushed"}

\* No wakeup is lost although enqueue notifies after it has released the
\* mutex: while some worker sleeps, every queued task has a worker on its way
\* to the queue or a notification still to come.
NoLostWakeup == Waiting # {} => Len(tasks) <= Cardinality(Ready) + Cardinality(Notifying)

\* When the destructor returns, every task enqueue accepted has run.
DrainedWhenDestroyed ==
    owner = "joined" => finished = Elements(accepted) /\ Busy = {}

\* No worker sleeps any more once the destructor has notified them all: a
\* worker that did could never be joined.
NobodySleepsAfterNotifyAll == owner \in {"notified", "joined"} => Waiting = {}

\* What keeps the properties above inductive: a queue never holds a task
\* twice, a worker holds a task exactly while it runs one, and a worker only
\* leaves its loop after stop, when the queue is empty for good.
Bookkeeping ==
    /\ \A i, j \in DOMAIN tasks : tasks[i] = tasks[j] => i = j
    /\ \A w \in Workers : worker[w] = "running" <=> job[w] \in Tasks
    /\ stop <=> owner # "alive"
    /\ (\E w \in Workers : worker[w] = "exited") => stop /\ tasks = <<>>
    /\ owner = "joined" => \A w \in Workers : worker[w] = "exited"

\* Every accepted task runs, whatever becomes of the pool.
EveryTaskRuns == \A t \in Tasks : (t \in Elements(accepted)) ~> (t \in finished)

\* The destructor returns once it is called.
DestructorReturns == (owner = "stopped") ~> (owner = "joined")

\* The pool does what TaskPool promises, with as many tasks at a time as it
\* has workers.
Promise == INSTANCE TaskPool WITH
              Slots <- Workers, pending <- tasks, slot <- job,
              done <- finished, closed <- stop
ImplementsTaskPool == Promise!FairSpec
=============================================================================
