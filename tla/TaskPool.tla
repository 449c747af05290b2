------------------------------ MODULE TaskPool ------------------------------
(***************************************************************************)
(* What common/ThreadPool.h promises to its callers, with no mutex and no  *)
(* condition variable: submitted tasks start in submission order, as many  *)
(* at a time as there are slots, each runs once, and a closed pool accepts *)
(* nothing more but still finishes what it accepted.                       *)
(***************************************************************************)
EXTENDS Naturals, Sequences

CONSTANTS Slots,   \* the tasks that can run at the same time
          Tasks,   \* the tasks that may be submitted
          NoTask   \* what a free slot holds

VARIABLES pending, \* accepted and not started, oldest first
          slot,    \* the task each slot runs
          done,    \* completed: their futures are ready
          closed   \* no further task is accepted

poolVars == <<pending, slot, done, closed>>

Init == /\ pending = <<>>
        /\ slot = [s \in Slots |-> NoTask]
        /\ done = {}
        /\ closed = FALSE

Known == {pending[i] : i \in DOMAIN pending} \cup {slot[s] : s \in Slots} \cup done

Submit == /\ ~closed
          /\ \E t \in Tasks \ Known : pending' = Append(pending, t)
          /\ UNCHANGED <<slot, done, closed>>

Start == /\ pending # <<>>
         /\ \E s \in Slots : /\ slot[s] = NoTask
                             /\ slot' = [slot EXCEPT ![s] = Head(pending)]
         /\ pending' = Tail(pending)
         /\ UNCHANGED <<done, closed>>

Complete(s) == /\ slot[s] # NoTask
               /\ slot' = [slot EXCEPT ![s] = NoTask]
               /\ done' = done \cup {slot[s]}
               /\ UNCHANGED <<pending, closed>>

Close == /\ closed' = TRUE
         /\ UNCHANGED <<pending, slot, done>>

Next == Submit \/ Start \/ (\E s \in Slots : Complete(s)) \/ Close

Spec == Init /\ [][Next]_poolVars

\* A task that can start does, and a started one completes.
FairSpec == /\ Spec
            /\ WF_poolVars(Start)
            /\ \A s \in Slots : WF_poolVars(Complete(s))
=============================================================================
