---------------------------- MODULE SerialExecution ----------------------------
(***************************************************************************)
(* Strong execution determinism (README.md:4), which every processor of    *)
(* both benchmarks promises: whatever it does in between, the state it     *)
(* leaves behind is the one that the transactions taken from the queue so  *)
(* far produce when they run whole, one after the other, in the order of   *)
(* the queue.                                                              *)
(***************************************************************************)
EXTENDS Naturals, Sequences, SequencesExt

CONSTANTS Queues,         \* the contents of the queue the source may have left
          Populations,    \* the states the populator may have left
          Process(_, _)   \* the state after a transaction: Process(state, txn)

VARIABLES pending,   \* transactions not executed yet, in the queue's order
          state      \* what the transactions executed so far have left

Init == /\ pending \in Queues
        /\ state \in Populations

(* The next transactions take effect: one for a serial processor, a whole   *)
(* batch for the others.                                                    *)
Execute == \E n \in 1 .. Len(pending) :
              /\ state' = FoldLeft(Process, state, SubSeq(pending, 1, n))
              /\ pending' = SubSeq(pending, n + 1, Len(pending))

Spec == Init /\ [][Execute]_<<pending, state>>
=============================================================================
