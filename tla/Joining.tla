-------------------------------- MODULE Joining --------------------------------
(***************************************************************************)
(* Loops that append to a vector, and to one of several buckets, by        *)
(* definitions that a proof can unfold: Joined is FlattenSeq of the first  *)
(* n of seqs.                                                              *)
(***************************************************************************)
EXTENDS Integers, Sequences

(* The first n of seqs, one after the other.                               *)
Joined(n, seqs) ==
    LET upto[i \in 0 .. n] == IF i = 0 THEN <<>> ELSE upto[i - 1] \o seqs[i]
    IN  upto[n]

(* An entry of a bucket is a position in the batch, alone or with a part of *)
(* the transaction there.                                                  *)
None == -1
Entries == Nat \X Int
Once(p) == << <<p, None>> >>

(* The elements of s that are in bucket t, in the order of s.              *)
Kept(s, bucket, t) ==
    Joined(Len(s), [i \in 1 .. Len(s) |-> IF bucket[s[i]] = t THEN <<s[i]>> ELSE <<>>])

(* The elements of the first n of seqs that are in bucket t.               *)
Dealt(n, seqs, bucket, t) == Joined(n, [i \in 1 .. n |-> Kept(seqs[i], bucket, t)])
=============================================================================
