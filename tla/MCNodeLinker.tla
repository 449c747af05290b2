---------------------------- MODULE MCNodeLinker ----------------------------
EXTENDS NodeLinker

CONSTANTS t1, t2, t3

(* Two of the same length, so that one may be taken for the other.         *)
MCLength == [t \in {t1, t2, t3} |-> IF t = t1 THEN 1 ELSE 2]
=============================================================================
