------------------------------ MODULE TatpSubArr ------------------------------
(***************************************************************************)
(* benchmark/tatp/TatpUtil.h, subArr: draws sub_len distinct elements of   *)
(* arr at random.  TatpPopulator::startPopulate calls it for each          *)
(* subscriber, on the same arr, which every call leaves shuffled.          *)
(*                                                                         *)
(* sub is passed by value: the call fills an array it allocates itself,    *)
(* and the caller's keeps the values it happened to hold.                  *)
(***************************************************************************)
EXTENDS Integers, Sequences, SequencesExt

CONSTANTS Elements,  \* the elements of arr, as startPopulate writes them down
          MinLen, MaxLen,
          Contents   \* bound: values an uninitialised element may hold

ASSUME SubArrAssumption == /\ MinLen \in Nat /\ MaxLen \in Nat
                           /\ MinLen <= MaxLen /\ MaxLen <= Len(Elements)

VARIABLES arr, sub_len, sub,
          caller,    \* the array the caller passed as sub
          pc         \* "call", "loop" or "return"

subArrVars == <<arr, sub_len, sub, caller, pc>>

SubArrInit == /\ arr = Elements
              /\ sub_len = 0
              /\ sub = <<>>
              /\ caller \in [1 .. MaxLen -> Contents]
              /\ pc = "call"

\* sub holds the elements written so far; arr_len is what has not been moved
\* to the tail.
ArrLen == Len(arr) - Len(sub)

Call == /\ pc = "call"
        /\ sub_len' \in MinLen .. MaxLen
        /\ sub' = <<>>
        /\ pc' = "loop"
        /\ UNCHANGED <<arr, caller>>

Swapped(i, j) == [arr EXCEPT ![i] = arr[j], ![j] = arr[i]]

\* Mutant: the drawn element stays where it is.
DrawWithReplacement ==
    /\ pc = "loop" /\ Len(sub) < sub_len
    /\ \E j \in 1 .. ArrLen : sub' = Append(sub, arr[j])
    /\ UNCHANGED <<arr, sub_len, caller, pc>>

\* Mutant: the last element overwrites the drawn one and stays in place too.
DrawOverwriting ==
    /\ pc = "loop" /\ Len(sub) < sub_len
    /\ \E j \in 1 .. ArrLen : /\ sub' = Append(sub, arr[j])
                              /\ arr' = [arr EXCEPT ![j] = arr[ArrLen]]
    /\ UNCHANGED <<sub_len, caller, pc>>

Draw == /\ pc = "loop" /\ Len(sub) < sub_len
        /\ \E j \in 1 .. ArrLen : /\ sub' = Append(sub, arr[j])
                                  /\ arr' = Swapped(j, ArrLen)
        /\ UNCHANGED <<sub_len, caller, pc>>

Return == /\ pc = "loop" /\ Len(sub) = sub_len
          /\ pc' = "return"
          /\ UNCHANGED <<arr, sub_len, sub, caller>>

\* The next subscriber: the caller's array is a new local variable.
Again == /\ pc = "return"
         /\ caller' \in [1 .. MaxLen -> Contents]
         /\ sub' = <<>>
         /\ pc' = "call"
         /\ UNCHANGED <<arr, sub_len>>

SubArrNext == Call \/ Draw \/ Return \/ Again
SubArrSpec == SubArrInit /\ [][SubArrNext]_subArrVars

-----------------------------------------------------------------------------
IsSubarray(s) == IsInjective(s) /\ ToSet(s) \subseteq ToSet(Elements)

\* The array the call allocates gets each element at most once, also after
\* the earlier calls have shuffled arr.
AllocatedArrayIsSubarray == IsSubarray(sub)

\* No call loses an element of arr: the later ones can still draw it.
ArrKeepsItsElements == ToSet(arr) = ToSet(Elements)

\* What the comment on subArr says (TatpUtil.h:28-31): the array returned to
\* the caller is such a subarray.
CallerGetsSubarray == pc = "return" => IsSubarray(SubSeq(caller, 1, sub_len))
=============================================================================
