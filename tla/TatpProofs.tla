----------------------------- MODULE TatpProofs -----------------------------
(***************************************************************************)
(* The safety of the TATP batch processors, for every queue of the source, *)
(* every number of buckets and threads, with the thread pool (Spec) and    *)
(* with a thread for each task (ThreadSpec).                               *)
(*                                                                         *)
(* IInv says which jobs have entries left in each phase, that an entry is  *)
(* the position of a transaction its job is for, that tasks of one job     *)
(* have entries of different buckets, and that every subscriber is looked  *)
(* up or still to be looked up.  The waits between the phases turn the     *)
(* last part into what the operations rely on.                             *)
(*                                                                         *)
(* InStep compares the batch with the serial execution of its transactions *)
(* while its operations run: After[q] is the database the first q of them  *)
(* leave.  No operation works on two subscribers, and all entries of one   *)
(* for a job are in one bucket, in their order, so that the rows of each   *)
(* subscriber are those of some After[q], while the entries behind q wait. *)
(* When none waits, q can be the last transaction for every subscriber.    *)
(*                                                                         *)
(* The last part is about subArr, for an array of any length and any       *)
(* contents.                                                               *)
(***************************************************************************)
EXTENDS TatpThreadBatch, TatpSubArr, SequenceLemmas

(* The jobs of the tasks, and those that may be alive in a phase.           *)
LookupJobs == {"dcf_sid", "icf_sid", "ul_sid"}
OperationJobs == {"dcf_icf", "gsd_ul_usd", "icf_usd"}
Jobs == LookupJobs \cup {"gad"} \cup OperationJobs

JobsIn == [collect    |-> {},
           full       |-> {},
           lookups    |-> LookupJobs \cup {"gad"},
           operations |-> {"gad"} \cup OperationJobs,
           stopped    |-> {}]

(* The transactions a job is for.                                          *)
TypesOf == [dcf_sid    |-> {"DELETE_CALL_FORWARDING"},
            icf_sid    |-> {"INSERT_CALL_FORWARDING"},
            ul_sid     |-> {"UPDATE_LOCATION"},
            gad        |-> {"GET_ACCESS_DATA"},
            dcf_icf    |-> {"DELETE_CALL_FORWARDING", "INSERT_CALL_FORWARDING"},
            gsd_ul_usd |-> {"GET_SUBSCRIBER_DATA", "UPDATE_LOCATION", "UPDATE_SUBSCRIBER_DATA"},
            icf_usd    |-> {"INSERT_CALL_FORWARDING", "UPDATE_SUBSCRIBER_DATA"}]

(* Those whose subscriber is looked up.                                    *)
Named == {p \in 1 .. Len(batch) : batch[p].type \in ByNumber}

(* The subscriber with a number, whatever has happened to the rows.         *)
IdOf(sub_nbr) == LET found == {s \in SubscriberIds : PadWithZero(s) = sub_nbr}
                 IN  CHOOSE s \in found : TRUE

(* The bucket an entry of a job was dealt into.                            *)
BucketOf == [x \in Jobs \X Entries |->
                IF x[1] \in OperationJobs THEN SubscriberBucket(x[2][1])
                ELSE Index(x[2][1]) % Parallelism]

-----------------------------------------------------------------------------
(* The inductive invariant.                                                *)

(* Only what the source draws gets into a batch.                           *)
QueueSound == queue \in Seq(Queued) /\ batch \in Seq(Queued)

(* The entries of lists are of the given jobs and for their transactions.   *)
WorkSound(lists, jobs) ==
    /\ lists \in WorkLists(Jobs, Entries)
    /\ \A x \in Pending(lists) : /\ x[1] \in jobs
                                 /\ x[2][1] \in 1 .. Len(batch)
                                 /\ x[2][2] = None
                                 /\ batch[x[2][1]].type \in TypesOf[x[1]]
    /\ Apart(lists, BucketOf)

(* The pool holds tasks of the phase.                                      *)
PhaseSound == phase \in DOMAIN JobsIn /\ WorkSound(pool, JobsIn[phase])

(* Every subscriber is there, under the number that is his id.              *)
RowsOf(d) == /\ DOMAIN d = {"sub", "facility", "forward", "answers"}
             /\ DOMAIN d.sub = SubscriberIds
             /\ \A s \in SubscriberIds : /\ DOMAIN d.sub[s] = {"sub_nbr", "bit1", "vlr"}
                                         /\ d.sub[s].sub_nbr = PadWithZero(s)
RowsSound == RowsOf(db)

(* A subscriber is looked up or still to be; in the operations he is.       *)
LookedUp ==
    /\ phase \in {"lookups", "operations"} => DOMAIN s_ids = Named
    /\ phase = "lookups" =>
          \A p \in Named : \/ s_ids[p] = IdOf(batch[p].sub_nbr)
                           \/ \E job \in LookupJobs : <<job, <<p, None>>>> \in Pending(pool)
    /\ phase = "operations" => \A p \in Named : s_ids[p] = IdOf(batch[p].sub_nbr)

IInv == QueueSound /\ PhaseSound /\ RowsSound /\ LookedUp

-----------------------------------------------------------------------------
(* What the parts say of the parameters and of a position.                 *)
LEMMA Constants ==
  /\ Parallelism \in Nat /\ Parallelism > 0 /\ Buckets = 0 .. Parallelism - 1
  /\ \A n \in Nat : n % Parallelism \in Buckets
BY BatchAssumption DEF Buckets

(* The positions of a type, and how many of them come before one.          *)
LEMMA Positions ==
  ASSUME QueueSound
  PROVE  /\ Len(batch) \in Nat /\ DOMAIN batch = 1 .. Len(batch)
         /\ \A p \in 1 .. Len(batch) : batch[p] \in Queued
         /\ \A type : Of(type) \subseteq 1 .. Len(batch)
         /\ \A p \in 1 .. Len(batch) : Index(p) \in Nat
<1>1. Len(batch) \in Nat /\ DOMAIN batch = 1 .. Len(batch)
      /\ \A p \in 1 .. Len(batch) : batch[p] \in Queued
  BY LenProperties, ElementOfSeq DEF QueueSound
<1>2. \A type : Of(type) \subseteq 1 .. Len(batch)
  BY <1>1 DEF Of
<1>3. ASSUME NEW p \in 1 .. Len(batch) PROVE Index(p) \in Nat
  <2> DEFINE before == {q \in Of(batch[p].type) : q < p}
  <2>1. IsFiniteSet(1 .. Len(batch))
    BY <1>1, FS_Interval
  <2>2. before \subseteq 1 .. Len(batch)
    BY <1>2
  <2>3. IsFiniteSet(before)
    BY <2>1, <2>2, FS_Subset
  <2>4. Cardinality(before) \in Nat
    BY <2>3, FS_CardinalityType
  <2> QED BY <2>4 DEF Index
<1> QED
  BY <1>1, <1>2, <1>3

(* A lookup's bucket holds the positions of its type at one distance from   *)
(* each other.                                                             *)
LEMMA StrideHolds ==
  ASSUME QueueSound, NEW type, NEW t \in Buckets
  PROVE  /\ Stride(type)[t] \in Seq(Entries)
         /\ Range(Stride(type)[t]) =
               {e \in Entries : /\ e[1] \in Of(type) /\ e[2] = None
                                /\ Index(e[1]) % Parallelism = t}
<1> DEFINE entries == [p \in DOMAIN batch |-> IF p \in Of(type) THEN Once(p) ELSE <<>>]
           bucket == [e \in Entries |-> Index(e[1]) % Parallelism]
<1>1. Stride(type)[t] = Dealt(Len(batch), entries, bucket, t)
  BY DEF Stride, Deal
<1>2. Len(batch) \in Nat /\ DOMAIN batch = 1 .. Len(batch) /\ Of(type) \subseteq 1 .. Len(batch)
  BY Positions
<1>3. /\ SeqsOver(Entries, Len(batch), entries)
      /\ ElementsIn(Len(batch), entries) =
            {e \in Entries : e[1] \in Of(type) /\ e[2] = None}
  <2>1. \A p \in 1 .. Len(batch) : entries[p] = IF p \in Of(type) THEN Once(p) ELSE <<>>
    BY <1>2
  <2> HIDE DEF entries
  <2>2. ElementsAre(Entries, Len(batch), entries, {e \in Entries : e[1] \in Of(type) /\ e[2] = None})
    BY <1>2, <2>1, OnceHolds, Zenon
  <2> QED BY <2>2 DEF ElementsAre
<1>4. \A e \in Entries : bucket[e] = Index(e[1]) % Parallelism
  OBVIOUS
<1> HIDE DEF entries, bucket
<1>5. ListIs(Entries, Dealt(Len(batch), entries, bucket, t),
             InBucket(ElementsIn(Len(batch), entries), bucket, t))
  BY <1>2, <1>3, DealtElements, Zenon
<1> QED
  BY <1>1, <1>3, <1>4, <1>5 DEF InBucket, ListIs

(* The positions of some types; an operation's bucket holds them by their   *)
(* subscriber.                                                             *)
OfTypes(types) == {p \in 1 .. Len(batch) : batch[p].type \in types}

(* The elements of an operation's bucket.                                  *)
LEMMA BySubscriberHolds ==
  ASSUME QueueSound, NEW types, NEW t \in Buckets
  PROVE  /\ BySubscriber(types)[t] \in Seq(Entries)
         /\ Range(BySubscriber(types)[t]) =
               {e \in Entries : /\ e[1] \in OfTypes(types) /\ e[2] = None
                                /\ SubscriberBucket(e[1]) = t}
<1> DEFINE entries == [p \in DOMAIN batch |-> IF batch[p].type \in types THEN Once(p) ELSE <<>>]
           bucket == [e \in Entries |-> SubscriberBucket(e[1])]
<1>1. BySubscriber(types)[t] = Dealt(Len(batch), entries, bucket, t)
  BY DEF BySubscriber, Deal
<1>2. Len(batch) \in Nat /\ DOMAIN batch = 1 .. Len(batch) /\ OfTypes(types) \subseteq 1 .. Len(batch)
  BY Positions DEF OfTypes
<1>3. /\ SeqsOver(Entries, Len(batch), entries)
      /\ ElementsIn(Len(batch), entries) =
            {e \in Entries : e[1] \in OfTypes(types) /\ e[2] = None}
  <2>1. \A p \in 1 .. Len(batch) : entries[p] = IF p \in OfTypes(types) THEN Once(p) ELSE <<>>
    BY <1>2 DEF OfTypes
  <2> HIDE DEF entries
  <2>2. ElementsAre(Entries, Len(batch), entries, {e \in Entries : e[1] \in OfTypes(types) /\ e[2] = None})
    BY <1>2, <2>1, OnceHolds, Zenon
  <2> QED BY <2>2 DEF ElementsAre
<1>4. \A e \in Entries : bucket[e] = SubscriberBucket(e[1])
  OBVIOUS
<1> HIDE DEF entries, bucket
<1>5. ListIs(Entries, Dealt(Len(batch), entries, bucket, t),
             InBucket(ElementsIn(Len(batch), entries), bucket, t))
  BY <1>2, <1>3, DealtElements, Zenon
<1> QED
  BY <1>1, <1>3, <1>4, <1>5 DEF InBucket, ListIs

(* The tasks of one job.                                                   *)
LEMMA TasksHold ==
  ASSUME NEW job \in Jobs, NEW buckets, \A c \in Buckets : buckets[c] \in Seq(Entries)
  PROVE  /\ Tasks(job, buckets) \in WorkLists(Jobs, Entries)
         /\ HoldBuckets(Tasks(job, buckets), job, Parallelism, buckets)
<1> DEFINE seqs == [t \in 1 .. Parallelism |-> Task(job, buckets[t - 1])]
           tasks == Joined(Parallelism, seqs)
<1>1. Tasks(job, buckets) = tasks
  BY DEF Tasks
<1>2. \A t \in 1 .. Parallelism : seqs[t] = IF buckets[t - 1] = <<>> THEN <<>>
                                            ELSE << [job |-> job, work |-> buckets[t - 1]] >>
  BY DEF Task
<1>3. tasks = Joined(Parallelism, seqs)
  OBVIOUS
<1>4. Parallelism \in Nat /\ \A c \in 0 .. Parallelism - 1 : buckets[c] \in Seq(Entries)
  BY Constants
<1> HIDE DEF seqs, tasks
<1>5. tasks \in WorkLists(Jobs, Entries) /\ HoldBuckets(tasks, job, Parallelism, buckets)
  BY <1>2, <1>3, <1>4, PendingTasks, Zenon
<1> QED
  BY <1>1, <1>5

(* The tasks of a lookup go through all transactions of its type.          *)
LEMMA LookupTasks ==
  ASSUME QueueSound, NEW job \in LookupJobs \cup {"gad"}, NEW type, TypesOf[job] = {type}
  PROVE  /\ WorkSound(Tasks(job, Stride(type)), {job})
         /\ \A p \in Of(type) : <<job, <<p, None>>>> \in Pending(Tasks(job, Stride(type)))
<1> DEFINE lists == Tasks(job, Stride(type))
<1>1. job \in Jobs /\ job \notin OperationJobs
  BY DEF Jobs, LookupJobs, OperationJobs
<1>2. /\ lists \in WorkLists(Jobs, Entries)
      /\ HoldBuckets(lists, job, Parallelism, Stride(type))
  BY <1>1, StrideHolds, TasksHold
<1>3. \A t \in Buckets : Range(Stride(type)[t]) =
         {e \in Entries : e[1] \in Of(type) /\ e[2] = None /\ Index(e[1]) % Parallelism = t}
  BY StrideHolds
<1>4. /\ Pending(lists) = {job} \X UNION {Range(Stride(type)[c]) : c \in Buckets}
      /\ (\A c \in Buckets : \A e \in Range(Stride(type)[c]) : BucketOf[<<job, e>>] = c)
         => Apart(lists, BucketOf)
  BY <1>2, Constants DEF HoldBuckets
<1> HIDE DEF lists
<1>5. ASSUME NEW c \in Buckets, NEW e \in Range(Stride(type)[c]) PROVE BucketOf[<<job, e>>] = c
  BY <1>1, <1>3 DEF BucketOf
<1>6. ASSUME NEW x \in Pending(lists)
      PROVE  /\ x[1] \in {job} /\ x[2][1] \in 1 .. Len(batch) /\ x[2][2] = None
             /\ batch[x[2][1]].type \in TypesOf[x[1]]
  <2>1. x[1] = job /\ x[2][1] \in Of(type) /\ x[2][2] = None
    BY <1>3, <1>4
  <2>2. x[2][1] \in 1 .. Len(batch) /\ batch[x[2][1]].type = type
    BY <2>1, Positions DEF Of
  <2> QED BY <2>1, <2>2
<1>7. WorkSound(lists, {job})
  BY <1>2, <1>4, <1>5, <1>6 DEF WorkSound
<1>8. ASSUME NEW p \in Of(type) PROVE <<job, <<p, None>>>> \in Pending(lists)
  <2>1. p \in 1 .. Len(batch) /\ Len(batch) \in Nat /\ Index(p) \in Nat
    BY Positions
  <2>2. <<p, None>> \in Entries /\ Index(p) % Parallelism \in Buckets
    BY <2>1, Constants DEF Entries, None
  <2>3. <<p, None>> \in Range(Stride(type)[Index(p) % Parallelism])
    BY <2>2, <1>3
  <2> QED BY <2>2, <2>3, <1>4
<1> QED
  BY <1>7, <1>8 DEF lists

(* The tasks of an operation.                                              *)
LEMMA OperationTasks ==
  ASSUME QueueSound, NEW job \in OperationJobs
  PROVE  WorkSound(Tasks(job, BySubscriber(TypesOf[job])), {job})
<1> DEFINE types == TypesOf[job]
           lists == Tasks(job, BySubscriber(types))
<1>1. job \in Jobs
  BY DEF Jobs
<1> HIDE DEF types
<1>2. /\ lists \in WorkLists(Jobs, Entries)
      /\ HoldBuckets(lists, job, Parallelism, BySubscriber(types))
  BY <1>1, BySubscriberHolds, TasksHold
<1>3. \A t \in Buckets : Range(BySubscriber(types)[t]) =
         {e \in Entries : e[1] \in OfTypes(types) /\ e[2] = None /\ SubscriberBucket(e[1]) = t}
  BY BySubscriberHolds
<1>4. /\ Pending(lists) = {job} \X UNION {Range(BySubscriber(types)[c]) : c \in Buckets}
      /\ (\A c \in Buckets : \A e \in Range(BySubscriber(types)[c]) : BucketOf[<<job, e>>] = c)
         => Apart(lists, BucketOf)
  BY <1>2, Constants DEF HoldBuckets
<1> HIDE DEF lists
<1>5. ASSUME NEW c \in Buckets, NEW e \in Range(BySubscriber(types)[c]) PROVE BucketOf[<<job, e>>] = c
  BY <1>1, <1>3 DEF BucketOf
<1>6. ASSUME NEW x \in Pending(lists)
      PROVE  /\ x[1] \in {job} /\ x[2][1] \in 1 .. Len(batch) /\ x[2][2] = None
             /\ batch[x[2][1]].type \in TypesOf[x[1]]
  <2>1. x[1] = job /\ x[2][1] \in OfTypes(types) /\ x[2][2] = None
    BY <1>3, <1>4
  <2> QED BY <2>1 DEF OfTypes, types
<1>7. WorkSound(lists, {job})
  BY <1>2, <1>4, <1>5, <1>6 DEF WorkSound
<1> QED
  BY <1>7 DEF lists, types

(* Tasks of other jobs enqueued behind.                                    *)
LEMMA BothSound ==
  ASSUME NEW s, NEW A, WorkSound(s, A), NEW t, NEW B, WorkSound(t, B), A \cap B = {}
  PROVE  /\ WorkSound(s \o t, A \cup B)
         /\ Pending(s \o t) = Pending(s) \cup Pending(t)
<1>1. s \in WorkLists(Jobs, Entries) /\ t \in WorkLists(Jobs, Entries)
  BY DEF WorkSound
<1>2. /\ s \o t \in WorkLists(Jobs, Entries)
      /\ Pending(s \o t) = Pending(s) \cup Pending(t)
      /\ /\ Apart(s, BucketOf) /\ Apart(t, BucketOf)
         /\ \A x \in Pending(s), y \in Pending(t) : x[1] # y[1]
         => Apart(s \o t, BucketOf)
  BY <1>1, PendingEnqueued
<1>3. \A x \in Pending(s), y \in Pending(t) : x[1] # y[1]
  BY DEF WorkSound
<1>4. Apart(s \o t, BucketOf)
  BY <1>2, <1>3 DEF WorkSound
<1>5. ASSUME NEW x \in Pending(s \o t)
      PROVE  /\ x[1] \in A \cup B
             /\ x[2][1] \in 1 .. Len(batch) /\ x[2][2] = None
             /\ batch[x[2][1]].type \in TypesOf[x[1]]
  BY <1>2 DEF WorkSound
<1> QED
  BY <1>2, <1>4, <1>5 DEF WorkSound

-----------------------------------------------------------------------------
(* The operations keep the subscribers and their numbers.                  *)
LEMMA RowsKept ==
  ASSUME NEW d, RowsOf(d), NEW p, NEW s_id, NEW answers
  PROVE  /\ RowsOf(DeleteForwarding(d, p, s_id))
         /\ RowsOf(InsertForwarding(d, p, s_id))
         /\ RowsOf(UpdateVlr(d, p, s_id))
         /\ RowsOf(UpdateBit1(d, p))
         /\ RowsOf(UpdateDataA(d, p))
         /\ RowsOf([d EXCEPT !.answers = @ \o answers])
<1>1. RowsOf(DeleteForwarding(d, p, s_id))
  BY DEF RowsOf, DeleteForwarding
<1>2. RowsOf(InsertForwarding(d, p, s_id))
  BY DEF RowsOf, InsertForwarding
<1>3. RowsOf(UpdateVlr(d, p, s_id))
  BY DEF RowsOf, UpdateVlr
<1>4. RowsOf(UpdateBit1(d, p))
  BY DEF RowsOf, UpdateBit1
<1>5. RowsOf(UpdateDataA(d, p))
  BY DEF RowsOf, UpdateDataA
<1>6. RowsOf([d EXCEPT !.answers = @ \o answers])
  BY DEF RowsOf
<1> QED
  BY <1>1, <1>2, <1>3, <1>4, <1>5, <1>6

(* The index on sub_nbr finds the subscriber a transaction names.          *)
LEMMA NamedIsFound ==
  ASSUME NEW d, RowsOf(d), NEW p \in Queued, p.type \in ByNumber
  PROVE  /\ SubscriberIdOf(d, p.sub_nbr) = IdOf(p.sub_nbr)
         /\ IdOf(p.sub_nbr) \in SubscriberIds
<1>1. PICK s \in SubscriberIds : p.sub_nbr = PadWithZero(s)
  BY DEF Queued, NamesSubscriber, ByNumber, ById
<1> DEFINE found == {r \in SubscriberIds : PadWithZero(r) = p.sub_nbr}
<1>2. s \in found
  BY <1>1
<1>3. {r \in DOMAIN d.sub : d.sub[r].sub_nbr = p.sub_nbr} = found
  BY DEF RowsOf
<1>4. IdOf(p.sub_nbr) = CHOOSE r \in found : TRUE
  BY DEF IdOf
<1>5. SubscriberIdOf(d, p.sub_nbr) = CHOOSE r \in found : TRUE
  BY <1>2, <1>3 DEF SubscriberIdOf
<1>6. (CHOOSE r \in found : TRUE) \in found
  BY <1>2
<1> QED
  BY <1>4, <1>5, <1>6

(* A wait leaves no entry of its jobs.                                     *)
LEMMA WaitedFor ==
  ASSUME pool \in WorkLists(Jobs, Entries), NEW jobs, Waited(jobs), NEW x \in Pending(pool)
  PROVE  x[1] \notin jobs
<1>1. pool \in Seq([job : Jobs, work : Seq(Entries)])
  BY DEF WorkLists
<1>2. DOMAIN pool = 1 .. Len(pool)
  BY <1>1
<1>3. PICK k \in 1 .. Len(pool) : x[1] = pool[k].job
  BY PendingIs
<1> QED
  BY <1>2, <1>3 DEF Waited

(* Nothing is pending and nothing gets pending.                            *)
LEMMA NothingPhaseSound ==
  ASSUME pool \in WorkLists(Jobs, Entries), Pending(pool) = {}, pool' = pool,
         phase' \in {"collect", "full", "stopped"}
  PROVE  PhaseSound'
<1>1. Apart(pool, BucketOf')
  <2>1. PICK B : Apart(pool, B)
    <3> DEFINE C == [x \in {} |-> 0]
    <3>1. ASSUME NEW k \in 1 .. Len(pool) PROVE FALSE
      BY FirstIsPending
    <3>2. Apart(pool, C)
      BY <3>1 DEF Apart
    <3> QED BY <3>2
  <2> QED BY <2>1, ApartSame
<1>2. phase' \in DOMAIN JobsIn
  BY DEF JobsIn
<1> QED
  BY <1>1, <1>2 DEF PhaseSound, WorkSound

(* An iteration takes its entry away; the buckets of what is left stay when *)
(* the ids the operations go by do.                                        *)
LEMMA IterationKeeps ==
  ASSUME QueueSound, PhaseSound, NEW k \in Active, Done(k),
         s_ids' = s_ids \/ pool[k].job \in LookupJobs
  PROVE  /\ QueueSound' /\ PhaseSound'
         /\ LeftAfter(pool', pool, k)
         /\ k \in 1 .. Len(pool)
         /\ <<pool[k].job, Entry(k)>> \in Pending(pool)
<1> DEFINE jobs == JobsIn[phase]
<1>1. pool \in WorkLists(Jobs, Entries) /\ WorkSound(pool, jobs)
  BY DEF PhaseSound, WorkSound
<1>2. k \in 1 .. Len(pool)
  <2>1. pool \in Seq([job : Jobs, work : Seq(Entries)])
    BY <1>1 DEF WorkLists
  <2>2. DOMAIN pool = 1 .. Len(pool)
    BY <2>1
  <2> QED BY <2>2 DEF Active
<1>3. pool' \in WorkLists(Jobs, Entries) /\ LeftAfter(pool', pool, k)
  <2>1. pool' = IF Len(pool[k].work) = 1 THEN RemoveAt(pool, k)
                ELSE [pool EXCEPT ![k].work = Tail(@)]
    BY DEF Done
  <2> QED BY <1>1, <1>2, <2>1, PendingAfter, Zenon
<1>4. queue' = queue /\ batch' = batch /\ phase' = phase
  BY DEF Done
<1>5. Pending(pool') \subseteq Pending(pool) /\ Apart(pool', BucketOf)
  BY <1>1, <1>3 DEF LeftAfter, WorkSound
<1>6. <<pool[k].job, Entry(k)>> \in Pending(pool)
  BY <1>1, <1>2, FirstIsPending DEF Entry
<1>7. ASSUME NEW x \in Pending(pool') PROVE BucketOf'[x] = BucketOf[x]
  <2>1. x \in Jobs \X Entries
    BY <1>3, PendingTyped
  <2>2. CASE s_ids' = s_ids
    BY <2>1, <2>2, <1>4 DEF BucketOf, SubscriberBucket, SubscriberOf, Index, Of
  <2>3. CASE pool[k].job \in LookupJobs
    <3>1. pool[k].job \in jobs
      BY <1>1, <1>6 DEF WorkSound
    <3>2. phase = "lookups" /\ x[1] \in LookupJobs \cup {"gad"}
      BY <3>1, <2>3, <1>1, <1>5 DEF JobsIn, LookupJobs, OperationJobs, PhaseSound, WorkSound
    <3>3. x[1] \notin OperationJobs
      BY <3>2 DEF LookupJobs, OperationJobs
    <3> QED BY <2>1, <3>3, <1>4 DEF BucketOf, Index, Of
  <2> QED BY <2>2, <2>3
<1>8. Apart(pool', BucketOf')
  BY <1>5, <1>7, ApartSame
<1>9. WorkSound(pool, jobs)'
  BY <1>1, <1>3, <1>4, <1>5, <1>8 DEF WorkSound
<1> QED
  BY <1>2, <1>3, <1>4, <1>6, <1>9 DEF QueueSound, PhaseSound

(* A lookup has found a subscriber, whom the operations use.               *)
LEMMA LookupKeeps ==
  ASSUME IInv, NEW k \in Active, Lookup(k)
  PROVE  IInv'
<1>1. pool[k].job \in LookupJobs /\ Done(k) /\ db' = db
      /\ s_ids' = [s_ids EXCEPT ![Position(k)] = SubscriberIdOf(db, Txn(k).sub_nbr)]
  BY DEF Lookup, Iteration, LookupJobs
<1>2. /\ QueueSound' /\ PhaseSound' /\ LeftAfter(pool', pool, k)
      /\ <<pool[k].job, Entry(k)>> \in Pending(pool)
  BY <1>1, IterationKeeps DEF IInv
<1>3. phase' = phase /\ batch' = batch /\ Named' = Named
  BY <1>1 DEF Done, Named
<1>4. /\ pool[k].job \in JobsIn[phase] /\ phase \in DOMAIN JobsIn
      /\ Position(k) \in 1 .. Len(batch) /\ Entry(k)[2] = None
      /\ batch[Position(k)].type \in TypesOf[pool[k].job]
  BY <1>2 DEF IInv, PhaseSound, WorkSound, Position
<1>5. phase = "lookups"
  BY <1>1, <1>4 DEF JobsIn, LookupJobs, OperationJobs
<1>6. batch[Position(k)].type \in ByNumber
  BY <1>1, <1>4 DEF TypesOf, LookupJobs, ByNumber
<1>7. SubscriberIdOf(db, Txn(k).sub_nbr) = IdOf(batch[Position(k)].sub_nbr)
  <2>1. batch[Position(k)] \in Queued
    BY <1>4, Positions DEF IInv
  <2> QED BY <2>1, <1>6, NamedIsFound DEF IInv, RowsSound, Txn, Position
<1>8. DOMAIN s_ids = Named /\ Position(k) \in Named
  BY <1>4, <1>5, <1>6 DEF IInv, LookedUp, Named
<1>9. DOMAIN s_ids' = Named /\ s_ids'[Position(k)] = IdOf(batch[Position(k)].sub_nbr)
      /\ \A p \in Named : p # Position(k) => s_ids'[p] = s_ids[p]
  BY <1>1, <1>7, <1>8
<1>10. ASSUME NEW p \in Named
       PROVE  \/ s_ids'[p] = IdOf(batch[p].sub_nbr)
              \/ \E job \in LookupJobs : <<job, <<p, None>>>> \in Pending(pool')
  <2>1. CASE p = Position(k)
    BY <2>1, <1>9
  <2>2. CASE p # Position(k) /\ s_ids[p] = IdOf(batch[p].sub_nbr)
    BY <2>2, <1>9
  <2>3. CASE p # Position(k) /\ ~(s_ids[p] = IdOf(batch[p].sub_nbr))
    <3>1. PICK job \in LookupJobs : <<job, <<p, None>>>> \in Pending(pool)
      BY <2>3, <1>5 DEF IInv, LookedUp
    <3>2. <<p, None>> # Entry(k)
      BY <2>3 DEF Position
    <3>3. <<job, <<p, None>>>> # <<pool[k].job, Head(pool[k].work)>>
      BY <3>2 DEF Entry
    <3>4. <<job, <<p, None>>>> \in Pending(pool')
      BY <3>1, <3>3, <1>2 DEF LeftAfter
    <3> QED BY <3>4
  <2> QED BY <2>1, <2>2, <2>3
<1>11. LookedUp'
  BY <1>3, <1>5, <1>9, <1>10 DEF LookedUp
<1>12. RowsSound'
  BY <1>1 DEF IInv, RowsSound
<1> QED
  BY <1>2, <1>11, <1>12 DEF IInv

(* The other iterations leave the ids alone.                               *)
LEMMA OperationKeeps ==
  ASSUME IInv, NEW k \in Active, pool[k].job \notin LookupJobs, Done(k), s_ids' = s_ids, RowsSound'
  PROVE  IInv'
<1>1. /\ QueueSound' /\ PhaseSound' /\ LeftAfter(pool', pool, k)
      /\ <<pool[k].job, Entry(k)>> \in Pending(pool)
  BY IterationKeeps DEF IInv
<1>2. phase' = phase /\ batch' = batch /\ Named' = Named
  BY DEF Done, Named
<1>3. ASSUME NEW p, NEW job \in LookupJobs, <<job, <<p, None>>>> \in Pending(pool)
      PROVE  <<job, <<p, None>>>> \in Pending(pool')
  <2>1. <<job, <<p, None>>>> # <<pool[k].job, Head(pool[k].work)>>
    OBVIOUS
  <2> QED BY <2>1, <1>3, <1>1 DEF LeftAfter
<1>4. LookedUp'
  BY <1>2, <1>3 DEF IInv, LookedUp
<1> QED
  BY <1>1, <1>4 DEF IInv

(* Any iteration of any task.                                              *)
LEMMA WorkKeeps ==
  ASSUME IInv, NEW k, Work(k)
  PROVE  IInv'
<1>0. k \in Active
  BY DEF Work, Lookup, AccessInfo, Forwarding, SelectSubscriber, UpdateSubscriber,
         SelectFacility, UpdateFacility, Iteration
<1>r. RowsOf(db)
  BY DEF IInv, RowsSound
<1>1. CASE Lookup(k)
  BY <1>0, <1>1, LookupKeeps
<1>2. CASE AccessInfo(k)
  <2>1. pool[k].job = "gad" /\ Done(k) /\ s_ids' = s_ids /\ db' = db
    BY <1>2 DEF AccessInfo, Iteration
  <2>2. RowsSound'
    BY <2>1, <1>r DEF RowsSound
  <2> QED BY <1>0, <2>1, <2>2, OperationKeeps DEF LookupJobs
<1>3. CASE Forwarding(k)
  <2>1. pool[k].job = "dcf_icf" /\ Done(k) /\ s_ids' = s_ids
    BY <1>3 DEF Forwarding, Iteration
  <2>2. RowsSound'
    <3>1. \/ db' = DeleteForwarding(db, Txn(k), s_ids[Position(k)])
          \/ db' = InsertForwarding(db, Txn(k), s_ids[Position(k)])
      BY <1>3 DEF Forwarding
    <3>2. RowsOf(DeleteForwarding(db, Txn(k), s_ids[Position(k)]))
      BY <1>r, RowsKept
    <3>3. RowsOf(InsertForwarding(db, Txn(k), s_ids[Position(k)]))
      BY <1>r, RowsKept
    <3>4. RowsOf(db')
      BY <3>1, <3>2, <3>3
    <3> QED BY <3>4 DEF RowsSound
  <2> QED BY <1>0, <2>1, <2>2, OperationKeeps DEF LookupJobs
<1>4. CASE SelectSubscriber(k)
  <2>1. pool[k].job = "gsd_ul_usd" /\ Done(k) /\ s_ids' = s_ids /\ db' = db
    BY <1>4 DEF SelectSubscriber, Iteration
  <2>2. RowsSound'
    BY <2>1, <1>r DEF RowsSound
  <2> QED BY <1>0, <2>1, <2>2, OperationKeeps DEF LookupJobs
<1>5. CASE UpdateSubscriber(k)
  <2>1. pool[k].job = "gsd_ul_usd" /\ Done(k) /\ s_ids' = s_ids
    BY <1>5 DEF UpdateSubscriber, Iteration
  <2>2. RowsSound'
    <3>1. db' = UpdateVlr(db, Txn(k), s_ids[Position(k)]) \/ db' = UpdateBit1(db, Txn(k))
      BY <1>5 DEF UpdateSubscriber
    <3>2. RowsOf(UpdateVlr(db, Txn(k), s_ids[Position(k)]))
      BY <1>r, RowsKept
    <3>3. RowsOf(UpdateBit1(db, Txn(k)))
      BY <1>r, RowsKept
    <3>4. RowsOf(db')
      BY <3>1, <3>2, <3>3
    <3> QED BY <3>4 DEF RowsSound
  <2> QED BY <1>0, <2>1, <2>2, OperationKeeps DEF LookupJobs
<1>6. CASE SelectFacility(k)
  <2>1. pool[k].job = "icf_usd" /\ Done(k) /\ s_ids' = s_ids /\ db' = db
    BY <1>6 DEF SelectFacility, Iteration
  <2>2. RowsSound'
    BY <2>1, <1>r DEF RowsSound
  <2> QED BY <1>0, <2>1, <2>2, OperationKeeps DEF LookupJobs
<1>7. CASE UpdateFacility(k)
  <2>1. pool[k].job = "icf_usd" /\ Done(k) /\ s_ids' = s_ids
    BY <1>7 DEF UpdateFacility, Iteration
  <2>2. RowsSound'
    BY <1>7, <1>r, RowsKept DEF RowsSound, UpdateFacility
  <2> QED BY <1>0, <2>1, <2>2, OperationKeeps DEF LookupJobs
<1> QED
  BY <1>1, <1>2, <1>3, <1>4, <1>5, <1>6, <1>7 DEF Work

-----------------------------------------------------------------------------
(* The main thread.                                                        *)

(* Before the first batch there are no tasks.                              *)
LEMMA InitSound ==
  ASSUME Init
  PROVE  IInv
<1>1. QueueSound
  <2>1. <<>> \in Seq(Queued)
    OBVIOUS
  <2> QED BY <2>1, QueueAssumption DEF Init, BatchInit, QueueSound
<1>2. PhaseSound
  <2>1. phase = "collect" /\ pool = <<>>
    BY DEF Init, BatchInit
  <2>2. WorkSound(<<>>, {})
    BY NothingPending DEF WorkSound
  <2> QED BY <2>1, <2>2 DEF PhaseSound, JobsIn
<1>3. RowsSound
  BY DEF Init, Populations, RowsSound, RowsOf, NewSubscriber
<1>4. LookedUp
  BY DEF Init, BatchInit, LookedUp
<1> QED
  BY <1>1, <1>2, <1>3, <1>4 DEF IInv

(* A batch is collected while there are no tasks.                          *)
LEMMA CollectKeeps ==
  ASSUME IInv, Collect
  PROVE  IInv'
<1>1. /\ phase = "collect" /\ queue # <<>> /\ phase' \in {"collect", "full"}
      /\ batch' = Append(batch, Head(queue)) /\ queue' = Tail(queue)
      /\ pool' = pool /\ db' = db /\ s_ids' = s_ids
  BY DEF Collect, TakeTxn
<1>2. QueueSound'
  <2>1. Head(queue) \in Queued /\ Tail(queue) \in Seq(Queued)
    BY <1>1, HeadTailProperties DEF IInv, QueueSound
  <2>2. Append(batch, Head(queue)) \in Seq(Queued)
    BY <2>1, AppendProperties DEF IInv, QueueSound
  <2> QED BY <1>1, <2>1, <2>2 DEF QueueSound
<1>3. pool \in WorkLists(Jobs, Entries) /\ Pending(pool) = {}
  BY <1>1 DEF IInv, PhaseSound, WorkSound, JobsIn
<1>6. PhaseSound'
  BY <1>1, <1>3, NothingPhaseSound
<1>7. RowsSound' /\ LookedUp'
  BY <1>1 DEF IInv, RowsSound, LookedUp
<1> QED
  BY <1>2, <1>6, <1>7 DEF IInv

(* Every position that is to be looked up gets into a task.                *)
LEMMA EnqueueLookupsKeeps ==
  ASSUME IInv, EnqueueLookups
  PROVE  IInv'
<1> DEFINE t1 == Tasks("dcf_sid", Stride("DELETE_CALL_FORWARDING"))
           t2 == Tasks("icf_sid", Stride("INSERT_CALL_FORWARDING"))
           t3 == Tasks("ul_sid", Stride("UPDATE_LOCATION"))
           t4 == Tasks("gad", Stride("GET_ACCESS_DATA"))
           lists == t1 \o t2 \o t3 \o t4
<1>0. QueueSound
  BY DEF IInv
<1>1. /\ WorkSound(t1, {"dcf_sid"})
      /\ \A p \in Of("DELETE_CALL_FORWARDING") : <<"dcf_sid", <<p, None>>>> \in Pending(t1)
  BY <1>0, LookupTasks DEF LookupJobs, TypesOf
<1>2. /\ WorkSound(t2, {"icf_sid"})
      /\ \A p \in Of("INSERT_CALL_FORWARDING") : <<"icf_sid", <<p, None>>>> \in Pending(t2)
  BY <1>0, LookupTasks DEF LookupJobs, TypesOf
<1>3. /\ WorkSound(t3, {"ul_sid"})
      /\ \A p \in Of("UPDATE_LOCATION") : <<"ul_sid", <<p, None>>>> \in Pending(t3)
  BY <1>0, LookupTasks DEF LookupJobs, TypesOf
<1>4. WorkSound(t4, {"gad"})
  BY <1>0, LookupTasks DEF LookupJobs, TypesOf
<1>5. /\ phase = "full" /\ phase' = "lookups" /\ pool' = pool \o lists
      /\ s_ids' = [p \in UNION {Of(type) : type \in ByNumber} |-> 0]
      /\ queue' = queue /\ batch' = batch /\ db' = db
  BY DEF EnqueueLookups, Enqueue
<1>l. lists = ((t1 \o t2) \o t3) \o t4
  OBVIOUS
<1> HIDE DEF t1, t2, t3, t4, lists
<1> DEFINE j2 == {"dcf_sid"} \cup {"icf_sid"}
           j3 == j2 \cup {"ul_sid"}
           j4 == j3 \cup {"gad"}
           j5 == {} \cup j4
<1>j. /\ {"dcf_sid"} \cap {"icf_sid"} = {} /\ j2 \cap {"ul_sid"} = {} /\ j3 \cap {"gad"} = {}
      /\ {} \cap j4 = {} /\ j5 = LookupJobs \cup {"gad"}
  BY DEF LookupJobs
<1> HIDE DEF j2, j3, j4, j5
<1>6. /\ WorkSound(t1 \o t2, j2)
      /\ Pending(t1 \o t2) = Pending(t1) \cup Pending(t2)
  BY <1>j, <1>1, <1>2, BothSound DEF j2
<1>7. /\ WorkSound((t1 \o t2) \o t3, j3)
      /\ Pending((t1 \o t2) \o t3) = Pending(t1 \o t2) \cup Pending(t3)
  <2>1. WorkSound((t1 \o t2) \o t3, j2 \cup {"ul_sid"})
    BY <1>j, <1>6, <1>3, BothSound, Zenon
  <2>2. Pending((t1 \o t2) \o t3) = Pending(t1 \o t2) \cup Pending(t3)
    <3>1. t1 \o t2 \in WorkLists(Jobs, Entries) /\ t3 \in WorkLists(Jobs, Entries)
      BY <1>6, <1>3 DEF WorkSound
    <3> QED BY <3>1, PendingEnqueued
  <2> QED BY <2>1, <2>2 DEF j3
<1>8. /\ WorkSound(lists, j4)
      /\ Pending(lists) = Pending((t1 \o t2) \o t3) \cup Pending(t4)
  <2>1. /\ WorkSound(((t1 \o t2) \o t3) \o t4, j4)
        /\ Pending(((t1 \o t2) \o t3) \o t4) = Pending((t1 \o t2) \o t3) \cup Pending(t4)
    BY <1>j, <1>7, <1>4, BothSound DEF j4
  <2> QED BY <2>1, <1>l
<1>9. WorkSound(pool, {})
  BY <1>5 DEF IInv, PhaseSound, JobsIn
<1>10. /\ WorkSound(pool \o lists, j5)
       /\ Pending(pool \o lists) = Pending(pool) \cup Pending(lists)
  <2>1. WorkSound(pool \o lists, {} \cup j4)
    BY <1>j, <1>8, <1>9, BothSound, Zenon
  <2>2. Pending(pool \o lists) = Pending(pool) \cup Pending(lists)
    <3>1. pool \in WorkLists(Jobs, Entries) /\ lists \in WorkLists(Jobs, Entries)
      BY <1>8, <1>9 DEF WorkSound
    <3> QED BY <3>1, PendingEnqueued
  <2> QED BY <2>1, <2>2 DEF j5
<1>12. WorkSound(pool', LookupJobs \cup {"gad"})
  BY <1>5, <1>10, <1>j
<1>13. PhaseSound'
  <2>1. \A x \in Pending(pool') : BucketOf'[x] = BucketOf[x]
    <3> TAKE x \in Pending(pool')
    <3>1. x \in Jobs \X Entries
      BY <1>12, PendingTyped DEF WorkSound
    <3>2. x[1] \notin OperationJobs
      BY <1>12 DEF WorkSound, LookupJobs, OperationJobs
    <3> QED BY <3>1, <3>2, <1>5 DEF BucketOf, Index, Of
  <2>2. Apart(pool', BucketOf')
    BY <2>1, <1>12, ApartSame DEF WorkSound
  <2>3. WorkSound(pool, LookupJobs \cup {"gad"})'
    BY <2>2, <1>12, <1>5 DEF WorkSound
  <2> QED BY <2>3, <1>5 DEF PhaseSound, JobsIn
<1>14. LookedUp'
  <2>1. Named = UNION {Of(type) : type \in ByNumber}
    BY <1>0, Positions DEF Named, Of
  <2>2. DOMAIN s_ids' = Named' /\ Named' = Named
    BY <2>1, <1>5 DEF Named
  <2>3. ASSUME NEW p \in Named
        PROVE  \E job \in LookupJobs : <<job, <<p, None>>>> \in Pending(pool')
    <3>1. \/ p \in Of("DELETE_CALL_FORWARDING") \/ p \in Of("INSERT_CALL_FORWARDING")
          \/ p \in Of("UPDATE_LOCATION")
      BY <1>0, Positions DEF Named, Of, ByNumber
    <3>2. Pending(t1) \subseteq Pending(pool') /\ Pending(t2) \subseteq Pending(pool')
          /\ Pending(t3) \subseteq Pending(pool')
      BY <1>5, <1>6, <1>7, <1>8, <1>10
    <3>3. \/ <<"dcf_sid", <<p, None>>>> \in Pending(pool')
          \/ <<"icf_sid", <<p, None>>>> \in Pending(pool')
          \/ <<"ul_sid", <<p, None>>>> \in Pending(pool')
      BY <3>1, <3>2, <1>1, <1>2, <1>3
    <3> QED BY <3>3 DEF LookupJobs
  <2> QED BY <2>2, <2>3, <1>5 DEF LookedUp
<1> QED
  BY <1>5, <1>13, <1>14 DEF IInv, QueueSound, RowsSound

(* The wait for the lookups: all ids are those of subscribers.             *)
LEMMA EnqueueOperationsKeeps ==
  ASSUME IInv, EnqueueOperations
  PROVE  IInv'
<1> DEFINE t1 == Tasks("dcf_icf", ForwardingBuckets)
           t2 == Tasks("gsd_ul_usd", SubscriberRowBuckets)
           t3 == Tasks("icf_usd", FacilityBuckets)
           lists == t1 \o t2 \o t3
<1>0. QueueSound
  BY DEF IInv
<1>1. WorkSound(t1, {"dcf_icf"})
  <2>1. ForwardingBuckets = BySubscriber(TypesOf["dcf_icf"]) /\ "dcf_icf" \in OperationJobs
    BY DEF ForwardingBuckets, TypesOf, OperationJobs
  <2> QED BY <2>1, <1>0, OperationTasks
<1>2. WorkSound(t2, {"gsd_ul_usd"})
  <2>1. SubscriberRowBuckets = BySubscriber(TypesOf["gsd_ul_usd"]) /\ "gsd_ul_usd" \in OperationJobs
    BY DEF SubscriberRowBuckets, TypesOf, OperationJobs
  <2> QED BY <2>1, <1>0, OperationTasks
<1>3. WorkSound(t3, {"icf_usd"})
  <2>1. FacilityBuckets = BySubscriber(TypesOf["icf_usd"]) /\ "icf_usd" \in OperationJobs
    BY DEF FacilityBuckets, TypesOf, OperationJobs
  <2> QED BY <2>1, <1>0, OperationTasks
<1>5. /\ phase = "lookups" /\ phase' = "operations" /\ pool' = pool \o lists
      /\ Waited(LookupJobs)
      /\ queue' = queue /\ batch' = batch /\ db' = db /\ s_ids' = s_ids
  BY DEF EnqueueOperations, Enqueue, LookupJobs
<1>l. lists = (t1 \o t2) \o t3
  OBVIOUS
<1> HIDE DEF t1, t2, t3, lists
<1>6. WorkSound(t1 \o t2, {"dcf_icf"} \cup {"gsd_ul_usd"})
  <2>1. {"dcf_icf"} \cap {"gsd_ul_usd"} = {}
    OBVIOUS
  <2> QED BY <2>1, <1>1, <1>2, BothSound
<1>7. WorkSound(lists, ({"dcf_icf"} \cup {"gsd_ul_usd"}) \cup {"icf_usd"})
  <2>1. ({"dcf_icf"} \cup {"gsd_ul_usd"}) \cap {"icf_usd"} = {}
    OBVIOUS
  <2> QED BY <2>1, <1>6, <1>3, <1>l, BothSound
<1>8. /\ \A x \in Pending(pool) : x[1] \notin LookupJobs
      /\ WorkSound(pool, {"gad"})
  <2>1. WorkSound(pool, LookupJobs \cup {"gad"})
    BY <1>5 DEF IInv, PhaseSound, JobsIn
  <2>2. \A x \in Pending(pool) : x[1] \notin LookupJobs
    BY <2>1, <1>5, WaitedFor DEF WorkSound
  <2> QED BY <2>1, <2>2 DEF WorkSound
<1>9. WorkSound(pool \o lists, {"gad"} \cup (({"dcf_icf"} \cup {"gsd_ul_usd"}) \cup {"icf_usd"}))
  <2>1. {"gad"} \cap (({"dcf_icf"} \cup {"gsd_ul_usd"}) \cup {"icf_usd"}) = {}
    OBVIOUS
  <2> QED BY <2>1, <1>7, <1>8, BothSound
<1>10. {"gad"} \cup (({"dcf_icf"} \cup {"gsd_ul_usd"}) \cup {"icf_usd"}) = {"gad"} \cup OperationJobs
  BY DEF OperationJobs
<1>11. WorkSound(pool', {"gad"} \cup OperationJobs)
  BY <1>5, <1>9, <1>10
<1>12. PhaseSound'
  <2>1. BucketOf' = BucketOf
    BY <1>5 DEF BucketOf, SubscriberBucket, SubscriberOf, Index, Of
  <2>2. WorkSound(pool, {"gad"} \cup OperationJobs)'
    BY <2>1, <1>11, <1>5 DEF WorkSound
  <2> QED BY <2>2, <1>5 DEF PhaseSound, JobsIn
<1>13. LookedUp'
  <2>1. Named' = Named /\ DOMAIN s_ids = Named
    BY <1>5 DEF Named, IInv, LookedUp
  <2>2. ASSUME NEW p \in Named PROVE s_ids[p] = IdOf(batch[p].sub_nbr)
    <3>1. \A job \in LookupJobs : <<job, <<p, None>>>> \notin Pending(pool)
      BY <1>8
    <3> QED BY <3>1, <1>5 DEF IInv, LookedUp
  <2> QED BY <2>1, <2>2, <1>5 DEF LookedUp
<1> QED
  BY <1>5, <1>12, <1>13 DEF IInv, QueueSound, RowsSound

(* The wait for all tasks before the parameters go.                        *)
LEMMA ClearBatchKeeps ==
  ASSUME IInv, ClearBatch
  PROVE  IInv'
<1>1. /\ phase = "operations" /\ Waited({"gad"} \cup OperationJobs)
      /\ phase' \in {"stopped", "collect"} /\ batch' = <<>> /\ queue' = queue /\ pool' = pool
      /\ db' = [db EXCEPT !.answers = @ \o AnswersInOrder]
  BY DEF ClearBatch, Clear, ForgetBatch, OperationJobs, Waited
<1>2. pool \in WorkLists(Jobs, Entries) /\ Pending(pool) = {}
  <2>1. WorkSound(pool, {"gad"} \cup OperationJobs)
    BY <1>1 DEF IInv, PhaseSound, JobsIn
  <2>2. \A x \in Pending(pool) : x[1] \notin {"gad"} \cup OperationJobs
    BY <2>1, <1>1, WaitedFor DEF WorkSound
  <2> QED BY <2>1, <2>2 DEF WorkSound
<1>3. PhaseSound'
  BY <1>1, <1>2, NothingPhaseSound
<1>4. QueueSound'
  <2>1. <<>> \in Seq(Queued)
    OBVIOUS
  <2> QED BY <2>1, <1>1 DEF IInv, QueueSound
<1>5. RowsSound'
  <2>1. RowsOf(db')
    BY <1>1, RowsKept DEF IInv, RowsSound
  <2> QED BY <2>1 DEF RowsSound
<1>6. LookedUp'
  BY <1>1 DEF LookedUp
<1> QED
  BY <1>3, <1>4, <1>5, <1>6 DEF IInv

-----------------------------------------------------------------------------
(* The invariant holds of both processors.                                 *)

(* Any step of the main thread.                                            *)
LEMMA MainKeeps ==
  ASSUME IInv, Main
  PROVE  IInv'
BY CollectKeeps, EnqueueLookupsKeeps, EnqueueOperationsKeeps, ClearBatchKeeps DEF Main

(* A step that changes nothing.                                            *)
LEMMA StutteringKeeps ==
  ASSUME IInv, UNCHANGED vars
  PROVE  IInv'
<1>1. /\ queue' = queue /\ batch' = batch /\ phase' = phase /\ pool' = pool
      /\ db' = db /\ s_ids' = s_ids
  BY DEF vars
<1>2. BucketOf' = BucketOf /\ Named' = Named
  BY <1>1 DEF BucketOf, SubscriberBucket, SubscriberOf, Index, Of, Named
<1>3. QueueSound' /\ RowsSound' /\ LookedUp'
  BY <1>1, <1>2 DEF IInv, QueueSound, RowsSound, LookedUp
<1>4. PhaseSound'
  BY <1>1, <1>2 DEF IInv, PhaseSound, WorkSound
<1> QED
  BY <1>3, <1>4 DEF IInv

(* The invariant of the processor with the thread pool.                    *)
THEOREM PoolSound == Spec => []IInv
<1>1. Init => IInv
  BY InitSound
<1>2. IInv /\ [Next]_vars => IInv'
  BY MainKeeps, WorkKeeps, StutteringKeeps DEF Next
<1> QED
  BY <1>1, <1>2, PTL DEF Spec

(* The invariant of the processor with a thread for each task.             *)
THEOREM ThreadsSound == ThreadSpec => []IInv
<1>1. Init => IInv
  BY InitSound
<1>2. IInv /\ [ThreadNext]_vars => IInv'
  BY MainKeeps, WorkKeeps, StutteringKeeps DEF ThreadNext, ThreadStep
<1> QED
  BY <1>1, <1>2, PTL DEF ThreadSpec

-----------------------------------------------------------------------------
(* What a task is about to work on.                                        *)
LEMMA AtEntry ==
  ASSUME IInv, NEW k \in Active
  PROVE  /\ k \in 1 .. Len(pool) /\ Len(pool[k].work) \in Nat /\ 1 \in 1 .. Len(pool[k].work)
         /\ Entry(k) = pool[k].work[1]
         /\ pool[k].job \in Jobs /\ pool[k].job \in JobsIn[phase]
         /\ phase \in {"lookups", "operations"}
         /\ Position(k) \in 1 .. Len(batch) /\ Entry(k) \in Entries /\ Entry(k)[2] = None
         /\ Txn(k) = batch[Position(k)] /\ Txn(k).type \in TypesOf[pool[k].job]
<1>1. pool \in WorkLists(Jobs, Entries) /\ WorkSound(pool, JobsIn[phase]) /\ phase \in DOMAIN JobsIn
  BY DEF IInv, PhaseSound, WorkSound
<1>2. k \in 1 .. Len(pool)
  <2>1. pool \in Seq([job : Jobs, work : Seq(Entries)])
    BY <1>1 DEF WorkLists
  <2>2. DOMAIN pool = 1 .. Len(pool)
    BY <2>1
  <2> QED BY <2>2 DEF Active
<1>3. /\ pool[k].job \in Jobs /\ Entry(k) \in Entries /\ Entry(k) = pool[k].work[1]
      /\ Len(pool[k].work) \in Nat /\ 1 \in 1 .. Len(pool[k].work)
      /\ <<pool[k].job, Entry(k)>> \in Pending(pool)
  BY <1>1, <1>2, FirstIsPending DEF Entry
<1>4. /\ pool[k].job \in JobsIn[phase] /\ Position(k) \in 1 .. Len(batch) /\ Entry(k)[2] = None
      /\ batch[Position(k)].type \in TypesOf[pool[k].job]
  BY <1>1, <1>3 DEF WorkSound, Position
<1>5. phase \in {"lookups", "operations"}
  BY <1>1, <1>4 DEF JobsIn
<1> QED
  BY <1>2, <1>3, <1>4, <1>5 DEF Txn, Position

(* Two tasks of a job come to entries of different buckets.                *)
LEMMA EntriesApart ==
  ASSUME IInv, NEW j \in Active, NEW k \in Active, j # k, pool[j].job = pool[k].job
  PROVE  /\ Position(j) # Position(k)
         /\ pool[j].job \in OperationJobs =>
               SubscriberOf(Position(j)) # SubscriberOf(Position(k))
<1>1. /\ j \in 1 .. Len(pool) /\ 1 \in 1 .. Len(pool[j].work) /\ Entry(j) = pool[j].work[1]
      /\ k \in 1 .. Len(pool) /\ 1 \in 1 .. Len(pool[k].work) /\ Entry(k) = pool[k].work[1]
      /\ pool[j].job \in Jobs /\ Entry(j) \in Entries /\ Entry(k) \in Entries
  BY AtEntry
<1>2. BucketOf[<<pool[j].job, Entry(j)>>] # BucketOf[<<pool[k].job, Entry(k)>>]
  <2>1. Apart(pool, BucketOf)
    BY DEF IInv, PhaseSound, WorkSound
  <2> QED BY <1>1, <2>1 DEF Apart
<1>3. CASE pool[j].job \in OperationJobs
  <2>1. SubscriberBucket(Position(j)) # SubscriberBucket(Position(k))
    BY <1>1, <1>2, <1>3 DEF BucketOf, Position
  <2> QED BY <2>1 DEF SubscriberBucket, SubscriberOf
<1>4. CASE pool[j].job \notin OperationJobs
  <2>1. Index(Position(j)) # Index(Position(k))
    BY <1>1, <1>2, <1>4 DEF BucketOf, Position
  <2> QED BY <2>1, <1>4
<1> QED
  BY <1>3, <1>4

(* The data of an iteration.                                               *)
LEMMA Written ==
  ASSUME NEW k, NEW w \in WritesOf(k)
  PROVE  \/ pool[k].job \in LookupJobs /\ w = <<"s_id", Position(k)>>
         \/ pool[k].job = "dcf_icf" /\ w = <<"forward", SubscriberOf(Position(k))>>
         \/ pool[k].job = "gsd_ul_usd" /\ w = <<"vlr", SubscriberOf(Position(k))>>
         \/ pool[k].job = "gsd_ul_usd" /\ w = <<"bit1", SubscriberOf(Position(k))>>
         \/ pool[k].job = "icf_usd" /\ w = <<"facility", SubscriberOf(Position(k))>>
BY DEF WritesOf, LookupJobs

(* The data it reads and does not write.                                   *)
LEMMA ReadOnly ==
  ASSUME NEW k, NEW r \in ReadsOf(k)
  PROVE  /\ pool[k].job \in OperationJobs
         /\ \/ r = <<"s_id", Position(k)>>
            \/ pool[k].job = "gsd_ul_usd" /\ r = <<"vlr", SubscriberOf(Position(k))>>
            \/ pool[k].job = "gsd_ul_usd" /\ r = <<"bit1", SubscriberOf(Position(k))>>
            \/ pool[k].job = "icf_usd" /\ r = <<"facility", SubscriberOf(Position(k))>>
BY DEF ReadsOf, OperationJobs

-----------------------------------------------------------------------------
(* Lookups of one job are dealt by their index and those of different jobs  *)
(* have transactions of different types; an operation's tasks are dealt by  *)
(* subscriber, different operations have different tables, and the ids they *)
(* read are those of a phase that is over.                                  *)
LEMMA SoundIsConflictFree == IInv => ConflictFree
<1> SUFFICES ASSUME IInv, NEW j \in Active, NEW k \in Active, j # k,
                    NEW w \in WritesOf(j), w \in WritesOf(k) \cup ReadsOf(k)
             PROVE  FALSE
  BY DEF ConflictFree
<1> DEFINE a == pool[j].job
           b == pool[k].job
<1>1. /\ a \in JobsIn[phase] /\ b \in JobsIn[phase] /\ phase \in {"lookups", "operations"}
      /\ Txn(j) = batch[Position(j)] /\ Txn(j).type \in TypesOf[a]
      /\ Txn(k) = batch[Position(k)] /\ Txn(k).type \in TypesOf[b]
  BY AtEntry
<1>2. a = b => /\ Position(j) # Position(k)
               /\ a \in OperationJobs => SubscriberOf(Position(j)) # SubscriberOf(Position(k))
  BY EntriesApart
<1>3. a \in LookupJobs => b \notin OperationJobs
  BY <1>1 DEF JobsIn, LookupJobs, OperationJobs
<1>4. a \in LookupJobs /\ b \in LookupJobs => Position(j) # Position(k)
  <2>1. CASE a = b
    BY <2>1, <1>2
  <2>2. CASE a \in LookupJobs /\ b \in LookupJobs /\ a # b
    <3>1. Txn(j).type # Txn(k).type
      BY <2>2, <1>1 DEF LookupJobs, TypesOf
    <3> QED BY <3>1, <1>1
  <2> QED BY <2>1, <2>2
<1>5. \/ a \in LookupJobs /\ w = <<"s_id", Position(j)>>
      \/ a = "dcf_icf" /\ w = <<"forward", SubscriberOf(Position(j))>>
      \/ a = "gsd_ul_usd" /\ w = <<"vlr", SubscriberOf(Position(j))>>
      \/ a = "gsd_ul_usd" /\ w = <<"bit1", SubscriberOf(Position(j))>>
      \/ a = "icf_usd" /\ w = <<"facility", SubscriberOf(Position(j))>>
  BY Written
<1>o. /\ "dcf_icf" \in OperationJobs /\ "gsd_ul_usd" \in OperationJobs /\ "icf_usd" \in OperationJobs
      /\ LookupJobs \cap OperationJobs = {}
  BY DEF LookupJobs, OperationJobs
<1>6. CASE w \in WritesOf(k)
  <2>1. \/ b \in LookupJobs /\ w = <<"s_id", Position(k)>>
        \/ b = "dcf_icf" /\ w = <<"forward", SubscriberOf(Position(k))>>
        \/ b = "gsd_ul_usd" /\ w = <<"vlr", SubscriberOf(Position(k))>>
        \/ b = "gsd_ul_usd" /\ w = <<"bit1", SubscriberOf(Position(k))>>
        \/ b = "icf_usd" /\ w = <<"facility", SubscriberOf(Position(k))>>
    BY <1>6, Written
  <2> HIDE DEF a, b
  <2> QED BY <2>1, <1>5, <1>2, <1>4, <1>o
<1>7. CASE w \in ReadsOf(k)
  <2>1. /\ b \in OperationJobs
        /\ \/ w = <<"s_id", Position(k)>>
           \/ b = "gsd_ul_usd" /\ w = <<"vlr", SubscriberOf(Position(k))>>
           \/ b = "gsd_ul_usd" /\ w = <<"bit1", SubscriberOf(Position(k))>>
           \/ b = "icf_usd" /\ w = <<"facility", SubscriberOf(Position(k))>>
    BY <1>7, ReadOnly
  <2> HIDE DEF a, b
  <2> QED BY <2>1, <1>5, <1>2, <1>3, <1>o
<1> QED
  BY <1>6, <1>7

(* Two tasks that run at the same time never touch the same data, in the    *)
(* processor with the pool and in the one with threads                      *)
(* (TatpTPBatchProcessor.cc:83-238), whatever the queue, the buckets and    *)
(* the cuts into batches are.                                               *)
THEOREM NoConflicts == Spec \/ ThreadSpec => []ConflictFree
BY PoolSound, ThreadsSound, SoundIsConflictFree, PTL

(* No task has a position that clearBatch has deleted.                     *)
LEMMA SoundHasParameters == IInv => ParametersOutliveTasks
<1> SUFFICES ASSUME IInv, NEW k \in DOMAIN pool, NEW i \in DOMAIN pool[k].work
             PROVE  pool[k].work[i][1] \in DOMAIN batch
  BY DEF ParametersOutliveTasks
<1>1. pool \in Seq([job : Jobs, work : Seq(Entries)])
  BY DEF IInv, PhaseSound, WorkSound, WorkLists
<1>2. k \in 1 .. Len(pool)
  BY <1>1
<1>3. pool[k].work \in Seq(Entries)
  <2> DEFINE T == [job : Jobs, work : Seq(Entries)]
  <2>1. pool \in Seq(T)
    BY <1>1
  <2> HIDE DEF T
  <2>2. pool[k] \in T
    BY <1>2, <2>1, ElementOfSeq
  <2> QED BY <2>2 DEF T
<1>4. i \in 1 .. Len(pool[k].work)
  BY <1>3
<1>5. <<pool[k].job, pool[k].work[i]>> \in Pending(pool)
  BY <1>2, <1>4, PendingIs
<1>6. pool[k].work[i][1] \in 1 .. Len(batch)
  BY <1>5 DEF IInv, PhaseSound, WorkSound
<1> QED
  BY <1>6, Positions DEF IInv

(* The parameters that clearBatch deletes (TatpTPBatchProcessor.cc:59-70)   *)
(* are those of no task that still runs.                                    *)
THEOREM ParametersLast == Spec \/ ThreadSpec => []ParametersOutliveTasks
BY PoolSound, ThreadsSound, SoundHasParameters, PTL

(* The ids of the operations are those the lookups have found.             *)
LEMMA SoundHasSubscribers == IInv => SubscribersAreFound
<1> SUFFICES ASSUME IInv, NEW k \in DOMAIN pool, pool[k].job \in OperationJobs,
                    NEW i \in DOMAIN pool[k].work
             PROVE  SubscriberOf(pool[k].work[i][1]) \in SubscriberIds
  BY DEF SubscribersAreFound, OperationJobs
<1> DEFINE p == pool[k].work[i][1]
<1>1. pool \in Seq([job : Jobs, work : Seq(Entries)])
  BY DEF IInv, PhaseSound, WorkSound, WorkLists
<1>2. k \in 1 .. Len(pool)
  BY <1>1
<1>3. pool[k].work \in Seq(Entries)
  <2> DEFINE T == [job : Jobs, work : Seq(Entries)]
  <2>1. pool \in Seq(T)
    BY <1>1
  <2> HIDE DEF T
  <2>2. pool[k] \in T
    BY <1>2, <2>1, ElementOfSeq
  <2> QED BY <2>2 DEF T
<1>4. i \in 1 .. Len(pool[k].work)
  BY <1>3
<1>5. <<pool[k].job, pool[k].work[i]>> \in Pending(pool)
  BY <1>2, <1>4, PendingIs
<1>6. /\ p \in 1 .. Len(batch) /\ batch[p].type \in TypesOf[pool[k].job]
      /\ pool[k].job \in JobsIn[phase] /\ phase \in DOMAIN JobsIn
  BY <1>5 DEF IInv, PhaseSound, WorkSound
<1>7. phase = "operations"
  BY <1>6 DEF JobsIn, LookupJobs, OperationJobs
<1>8. CASE batch[p].type \in ByNumber
  <2>1. s_ids[p] = IdOf(batch[p].sub_nbr)
    BY <1>6, <1>7, <1>8 DEF IInv, LookedUp, Named
  <2>2. batch[p] \in Queued
    BY <1>6, Positions DEF IInv
  <2>3. s_ids[p] \in SubscriberIds
    BY <2>1, <2>2, <1>8, NamedIsFound DEF IInv, RowsSound
  <2> QED BY <2>3, <1>8 DEF SubscriberOf
<1>9. CASE batch[p].type \notin ByNumber
  <2>1. batch[p] \in Queued
    BY <1>6, Positions DEF IInv
  <2>2. batch[p].type # "ENDEXECUTION"
    BY <1>6 DEF TypesOf, OperationJobs
  <2>3. batch[p].s_id \in SubscriberIds
    BY <2>1, <2>2, <1>9 DEF Queued, NamesSubscriber
  <2> QED BY <2>3, <1>9 DEF SubscriberOf
<1> QED
  BY <1>8, <1>9

(* The operations have the id of an existing subscriber, so that the update *)
(* without a test (TatpBaseProcessor.cc:61-64) has a row.                   *)
THEOREM SubscribersFirst == Spec \/ ThreadSpec => []SubscribersAreFound
BY PoolSound, ThreadsSound, SoundHasSubscribers, PTL

-----------------------------------------------------------------------------
(* Tables hold the rows of subscribers and nothing else.                    *)
IsFcn(f) == f = [x \in DOMAIN f |-> f[x]]
Shaped(d) ==
    /\ RowsOf(d)
    /\ d = [sub |-> d.sub, facility |-> d.facility, forward |-> d.forward, answers |-> d.answers]
    /\ IsFcn(d.sub) /\ IsFcn(d.facility) /\ IsFcn(d.forward)
    /\ \A k \in DOMAIN d.facility \cup DOMAIN d.forward : k[1] \in SubscriberIds

(* The rows of a subscriber that a job works on.                            *)
ForwardingRows(d, s_id) ==
    [k \in {f \in DOMAIN d.forward : f[1] = s_id} |-> d.forward[k]]
View(d, job, s_id) == IF job = "dcf_icf" THEN ForwardingRows(d, s_id)
                      ELSE IF job = "gsd_ul_usd" THEN SubscriberRow(d, s_id)
                      ELSE FacilityRows(d, s_id)

(* The subscriber of a transaction.                                         *)
Who(p) == IF p.type \in ByNumber THEN IdOf(p.sub_nbr) ELSE p.s_id

(* What a job does to the database for a transaction.                      *)
Did(d, job, p) ==
    IF job = "dcf_icf" THEN
            IF p.type = "DELETE_CALL_FORWARDING" THEN DeleteForwarding(d, p, Who(p))
            ELSE IF p.type = "INSERT_CALL_FORWARDING" THEN InsertForwarding(d, p, Who(p))
            ELSE d
    ELSE IF job = "gsd_ul_usd" THEN
            IF p.type = "UPDATE_LOCATION" THEN UpdateVlr(d, p, Who(p))
            ELSE IF p.type = "UPDATE_SUBSCRIBER_DATA" THEN UpdateBit1(d, p)
            ELSE d
    ELSE IF p.type = "UPDATE_SUBSCRIBER_DATA" THEN UpdateDataA(d, p) ELSE d

(* Tables with a column of a row changed.                                   *)
VlrSet(sub_rows, s_id, vlr) == [sub_rows EXCEPT ![s_id].vlr = vlr]
Bit1Set(sub_rows, s_id, bit1) == [sub_rows EXCEPT ![s_id].bit1 = bit1]
DataASet(rows, key, data_a) == IF key \in DOMAIN rows THEN [rows EXCEPT ![key] = data_a] ELSE rows

(* A job changes its own table only, and no answers.                        *)
TablesLeft(d, job, e) ==
    /\ Shaped(e) /\ e.answers = d.answers
    /\ job # "dcf_icf" => e.forward = d.forward
    /\ job # "gsd_ul_usd" => e.sub = d.sub
    /\ job # "icf_usd" => e.facility = d.facility

(* The rows that the insertion and deletion leave.                          *)
LEMMA ForwardingDone ==
  ASSUME NEW d, Shaped(d), NEW p, NEW s \in SubscriberIds
  PROVE  /\ TablesLeft(d, "dcf_icf", InsertForwarding(d, p, s))
         /\ InsertForwarding(d, p, s).forward = Insert(d.forward, ForwardingKey(s, p), p.end_time)
         /\ TablesLeft(d, "dcf_icf", DeleteForwarding(d, p, s))
         /\ DeleteForwarding(d, p, s).forward = Delete(d.forward, ForwardingKey(s, p))
<1> DEFINE i == InsertForwarding(d, p, s)
           e == DeleteForwarding(d, p, s)
           key == ForwardingKey(s, p)
<1>0. key[1] = s
  BY DEF ForwardingKey
<1>1. /\ DOMAIN d = {"sub", "facility", "forward", "answers"} /\ RowsOf(d)
      /\ d = [sub |-> d.sub, facility |-> d.facility, forward |-> d.forward, answers |-> d.answers]
      /\ IsFcn(d.sub) /\ IsFcn(d.facility) /\ IsFcn(d.forward)
      /\ \A k \in DOMAIN d.facility \cup DOMAIN d.forward : k[1] \in SubscriberIds
  BY DEF Shaped, RowsOf
<1> DEFINE more == Insert(d.forward, key, p.end_time)
           less == Delete(d.forward, key)
<1>2. i = [d EXCEPT !.forward = more]
  BY DEF InsertForwarding
<1>3. e = [d EXCEPT !.forward = less]
  BY DEF DeleteForwarding
<1>4. IsFcn(more) /\ DOMAIN more = DOMAIN d.forward \cup {key}
  BY DEF IsFcn, Insert
<1>5. IsFcn(less) /\ DOMAIN less = DOMAIN d.forward \ {key}
  BY DEF IsFcn, Delete
<1> HIDE DEF more, less, key
<1>6. ASSUME NEW new, IsFcn(new), DOMAIN new \subseteq DOMAIN d.forward \cup {key},
             NEW f, f = [d EXCEPT !.forward = new]
      PROVE  /\ Shaped(f) /\ f.sub = d.sub /\ f.facility = d.facility /\ f.answers = d.answers
             /\ f.forward = new
  <2>1. /\ f.sub = d.sub /\ f.facility = d.facility /\ f.answers = d.answers /\ f.forward = new
        /\ DOMAIN f = {"sub", "facility", "forward", "answers"}
        /\ f = [sub |-> f.sub, facility |-> f.facility, forward |-> f.forward, answers |-> f.answers]
    BY <1>1, <1>6
  <2>2. \A k \in DOMAIN f.facility \cup DOMAIN f.forward : k[1] \in SubscriberIds
    BY <2>1, <1>0, <1>1, <1>6
  <2>3. RowsOf(f)
    BY <2>1, <1>1 DEF RowsOf
  <2>4. IsFcn(f.sub) /\ IsFcn(f.facility) /\ IsFcn(f.forward)
    BY <2>1, <1>1, <1>6
  <2> QED BY <2>1, <2>2, <2>3, <2>4 DEF Shaped
<1>7. /\ Shaped(i) /\ i.sub = d.sub /\ i.facility = d.facility /\ i.answers = d.answers
      /\ i.forward = more
  BY <1>2, <1>4, <1>6
<1>8. /\ Shaped(e) /\ e.sub = d.sub /\ e.facility = d.facility /\ e.answers = d.answers
      /\ e.forward = less
  BY <1>3, <1>5, <1>6
<1> HIDE DEF i, e
<1>9. TablesLeft(d, "dcf_icf", i) /\ TablesLeft(d, "dcf_icf", e)
  BY <1>7, <1>8 DEF TablesLeft
<1> QED
  BY <1>7, <1>8, <1>9 DEF more, less, key, i, e

(* The rows that the updates leave.                                         *)
LEMMA UpdatesDone ==
  ASSUME NEW d, Shaped(d), NEW p, NEW s \in SubscriberIds
  PROVE  /\ TablesLeft(d, "gsd_ul_usd", UpdateVlr(d, p, s))
         /\ UpdateVlr(d, p, s).sub = VlrSet(d.sub, s, p.vlr_location)
         /\ TablesLeft(d, "gsd_ul_usd", UpdateBit1(d, p))
         /\ p.s_id \in SubscriberIds =>
               UpdateBit1(d, p).sub = Bit1Set(d.sub, p.s_id, p.bit_1)
         /\ TablesLeft(d, "icf_usd", UpdateDataA(d, p))
         /\ UpdateDataA(d, p).facility = DataASet(d.facility, <<p.s_id, p.sf_type>>, p.data_a)
<1> DEFINE v == UpdateVlr(d, p, s)
           b == UpdateBit1(d, p)
           a == UpdateDataA(d, p)
<1>1. /\ DOMAIN d = {"sub", "facility", "forward", "answers"} /\ RowsOf(d)
      /\ d = [sub |-> d.sub, facility |-> d.facility, forward |-> d.forward, answers |-> d.answers]
      /\ IsFcn(d.sub) /\ IsFcn(d.facility) /\ IsFcn(d.forward)
      /\ \A k \in DOMAIN d.facility \cup DOMAIN d.forward : k[1] \in SubscriberIds
  BY DEF Shaped, RowsOf
<1>2. DOMAIN d.sub = SubscriberIds
      /\ \A r \in SubscriberIds : DOMAIN d.sub[r] = {"sub_nbr", "bit1", "vlr"}
                                  /\ d.sub[r].sub_nbr = PadWithZero(r)
  BY <1>1 DEF RowsOf
<1>3. ASSUME NEW new, IsFcn(new), DOMAIN new = SubscriberIds,
             \A r \in SubscriberIds : DOMAIN new[r] = {"sub_nbr", "bit1", "vlr"}
                                      /\ new[r].sub_nbr = PadWithZero(r),
             NEW f, f = [d EXCEPT !.sub = new]
      PROVE  /\ Shaped(f) /\ f.facility = d.facility /\ f.forward = d.forward /\ f.answers = d.answers
             /\ f.sub = new
  <2>1. /\ f.facility = d.facility /\ f.forward = d.forward /\ f.answers = d.answers /\ f.sub = new
        /\ DOMAIN f = {"sub", "facility", "forward", "answers"}
        /\ f = [sub |-> f.sub, facility |-> f.facility, forward |-> f.forward, answers |-> f.answers]
    BY <1>1, <1>3
  <2>3. RowsOf(f)
    BY <2>1, <1>1, <1>3 DEF RowsOf
  <2> QED BY <2>1, <2>3, <1>1, <1>3 DEF Shaped
<1>4. /\ Shaped(v) /\ v.facility = d.facility /\ v.forward = d.forward /\ v.answers = d.answers
      /\ v.sub = [d.sub EXCEPT ![s].vlr = p.vlr_location]
  <2> DEFINE new == [d.sub EXCEPT ![s].vlr = p.vlr_location]
  <2>1. v = [d EXCEPT !.sub = new]
    BY <1>1 DEF UpdateVlr
  <2>2. IsFcn(new) /\ DOMAIN new = SubscriberIds
    BY <1>2 DEF IsFcn
  <2>3. \A r \in SubscriberIds : DOMAIN new[r] = {"sub_nbr", "bit1", "vlr"}
                                 /\ new[r].sub_nbr = PadWithZero(r)
    BY <1>2
  <2> HIDE DEF new, v
  <2>4. /\ Shaped(v) /\ v.facility = d.facility /\ v.forward = d.forward /\ v.answers = d.answers
        /\ v.sub = new
    BY <2>1, <2>2, <2>3, <1>3
  <2> QED BY <2>4 DEF new
<1>5. /\ Shaped(b) /\ b.facility = d.facility /\ b.forward = d.forward /\ b.answers = d.answers
      /\ p.s_id \in SubscriberIds => b.sub = [d.sub EXCEPT ![p.s_id].bit1 = p.bit_1]
  <2>1. CASE p.s_id \notin SubscriberIds
    BY <2>1, <1>2 DEF UpdateBit1
  <2>2. CASE p.s_id \in SubscriberIds
    <3> DEFINE new == [d.sub EXCEPT ![p.s_id].bit1 = p.bit_1]
    <3>1. b = [d EXCEPT !.sub = new]
      BY <2>2, <1>1, <1>2 DEF UpdateBit1
    <3>2. IsFcn(new) /\ DOMAIN new = SubscriberIds
      BY <1>2 DEF IsFcn
    <3>3. \A r \in SubscriberIds : DOMAIN new[r] = {"sub_nbr", "bit1", "vlr"}
                                   /\ new[r].sub_nbr = PadWithZero(r)
      BY <1>2
    <3> HIDE DEF new, b
    <3>4. /\ Shaped(b) /\ b.facility = d.facility /\ b.forward = d.forward /\ b.answers = d.answers
          /\ b.sub = new
      BY <3>1, <3>2, <3>3, <1>3
    <3> QED BY <3>4 DEF new
  <2> QED BY <2>1, <2>2
<1>6. /\ Shaped(a) /\ a.sub = d.sub /\ a.forward = d.forward /\ a.answers = d.answers
      /\ a.facility = IF <<p.s_id, p.sf_type>> \in DOMAIN d.facility
                      THEN [d.facility EXCEPT ![<<p.s_id, p.sf_type>>] = p.data_a]
                      ELSE d.facility
  <2>1. CASE <<p.s_id, p.sf_type>> \notin DOMAIN d.facility
    BY <2>1 DEF UpdateDataA
  <2>2. CASE <<p.s_id, p.sf_type>> \in DOMAIN d.facility
    <3> DEFINE new == [d.facility EXCEPT ![<<p.s_id, p.sf_type>>] = p.data_a]
    <3>1. a = [d EXCEPT !.facility = new]
      BY <2>2, <1>1 DEF UpdateDataA
    <3>2. IsFcn(new) /\ DOMAIN new = DOMAIN d.facility
      BY DEF IsFcn
    <3> HIDE DEF new, a
    <3>3. /\ a.sub = d.sub /\ a.forward = d.forward /\ a.answers = d.answers /\ a.facility = new
          /\ DOMAIN a = {"sub", "facility", "forward", "answers"}
          /\ a = [sub |-> a.sub, facility |-> a.facility, forward |-> a.forward, answers |-> a.answers]
      BY <1>1, <3>1
    <3>4. RowsOf(a)
      BY <3>3, <1>1 DEF RowsOf
    <3>5. Shaped(a)
      BY <3>2, <3>3, <3>4, <1>1 DEF Shaped
    <3> QED BY <3>3, <3>5, <2>2 DEF new
  <2> QED BY <2>1, <2>2
<1> HIDE DEF v, b, a
<1>7. /\ TablesLeft(d, "gsd_ul_usd", v) /\ TablesLeft(d, "gsd_ul_usd", b)
      /\ TablesLeft(d, "icf_usd", a)
  BY <1>4, <1>5, <1>6 DEF TablesLeft
<1> QED
  BY <1>4, <1>5, <1>6, <1>7 DEF v, b, a, VlrSet, Bit1Set, DataASet

(* An answer changes no table.                                              *)
LEMMA AnswerDone ==
  ASSUME NEW d, Shaped(d), NEW row
  PROVE  LET e == Answer(d, row)
         IN  /\ Shaped(e) /\ e.sub = d.sub /\ e.facility = d.facility /\ e.forward = d.forward
             /\ e.answers = Append(d.answers, row)
<1> DEFINE e == Answer(d, row)
<1>1. /\ DOMAIN d = {"sub", "facility", "forward", "answers"} /\ RowsOf(d)
      /\ d = [sub |-> d.sub, facility |-> d.facility, forward |-> d.forward, answers |-> d.answers]
      /\ IsFcn(d.sub) /\ IsFcn(d.facility) /\ IsFcn(d.forward)
      /\ \A k \in DOMAIN d.facility \cup DOMAIN d.forward : k[1] \in SubscriberIds
  BY DEF Shaped, RowsOf
<1> DEFINE new == Append(d.answers, row)
<1>2. e = [d EXCEPT !.answers = new]
  BY <1>1 DEF Answer
<1> HIDE DEF e, new
<1>3. /\ e.sub = d.sub /\ e.facility = d.facility /\ e.forward = d.forward /\ e.answers = new
      /\ DOMAIN e = {"sub", "facility", "forward", "answers"}
      /\ e = [sub |-> e.sub, facility |-> e.facility, forward |-> e.forward, answers |-> e.answers]
  BY <1>1, <1>2
<1>4. RowsOf(e)
  BY <1>1, <1>3 DEF RowsOf
<1>5. Shaped(e)
  BY <1>1, <1>3, <1>4 DEF Shaped
<1> QED
  BY <1>3, <1>5 DEF e, new

(* The subscriber a transaction names.                                      *)
LEMMA WhoIs ==
  ASSUME NEW p \in Queued
  PROVE  /\ p.type \in ByNumber \cup ById \cup {"ENDEXECUTION"}
         /\ p.type # "ENDEXECUTION" => Who(p) \in SubscriberIds
         /\ p.type \in ById => Who(p) = p.s_id
<1>1. p.type \in ByNumber \cup ById \cup {"ENDEXECUTION"}
  BY DEF Queued, NamesSubscriber
<1>2. CASE p.type \in ByNumber
  <2>1. PICK s \in SubscriberIds : p.sub_nbr = PadWithZero(s)
    BY <1>2 DEF Queued, NamesSubscriber, ByNumber, ById
  <2>2. IdOf(p.sub_nbr) \in SubscriberIds
    BY <2>1 DEF IdOf
  <2> QED BY <2>2, <1>1, <1>2 DEF Who, ByNumber, ById
<1>3. CASE p.type \in ById
  BY <1>3 DEF Queued, NamesSubscriber, ByNumber, ById, Who
<1>4. CASE p.type = "ENDEXECUTION"
  BY <1>4 DEF ById
<1> QED
  BY <1>1, <1>2, <1>3, <1>4

(* What a job leaves of the tables.                                         *)
LEMMA DidShaped ==
  ASSUME NEW d, Shaped(d), NEW job \in OperationJobs, NEW p \in Queued
  PROVE  TablesLeft(d, job, Did(d, job, p))
<1>1. /\ p.type # "ENDEXECUTION" => Who(p) \in SubscriberIds
      /\ p.type \in ById => Who(p) = p.s_id
  BY WhoIs
<1>2. TablesLeft(d, job, d)
  BY DEF TablesLeft
<1>3. ASSUME Who(p) \in SubscriberIds
      PROVE  /\ TablesLeft(d, "dcf_icf", DeleteForwarding(d, p, Who(p)))
             /\ TablesLeft(d, "dcf_icf", InsertForwarding(d, p, Who(p)))
             /\ TablesLeft(d, "gsd_ul_usd", UpdateVlr(d, p, Who(p)))
             /\ TablesLeft(d, "gsd_ul_usd", UpdateBit1(d, p))
             /\ TablesLeft(d, "icf_usd", UpdateDataA(d, p))
  BY <1>3, ForwardingDone, UpdatesDone
<1>4. CASE job = "dcf_icf"
  BY <1>1, <1>2, <1>3, <1>4 DEF Did
<1>5. CASE job = "gsd_ul_usd"
  BY <1>1, <1>2, <1>3, <1>5 DEF Did
<1>6. CASE job = "icf_usd"
  BY <1>1, <1>2, <1>3, <1>6 DEF Did
<1> QED
  BY <1>4, <1>5, <1>6 DEF OperationJobs

(* The rows of the other subscribers stay.                                  *)
LEMMA DidElsewhere ==
  ASSUME NEW d, Shaped(d), NEW job \in OperationJobs, NEW p \in Queued,
         NEW other \in OperationJobs, NEW s \in SubscriberIds, other # job \/ s # Who(p)
  PROVE  View(Did(d, job, p), other, s) = View(d, other, s)
<1> DEFINE e == Did(d, job, p)
<1>1. /\ p.type # "ENDEXECUTION" => Who(p) \in SubscriberIds
      /\ p.type \in ById => Who(p) = p.s_id
  BY WhoIs
<1>2. TablesLeft(d, job, e)
  BY DidShaped
<1>3. CASE other # job
  <2> HIDE DEF e
  <2>1. CASE other = "dcf_icf"
    BY <1>2, <1>3, <2>1 DEF e, TablesLeft, View, ForwardingRows
  <2>2. CASE other = "gsd_ul_usd"
    BY <1>2, <1>3, <2>2 DEF e, TablesLeft, View, SubscriberRow
  <2>3. CASE other = "icf_usd"
    BY <1>2, <1>3, <2>3 DEF e, TablesLeft, View, FacilityRows
  <2> QED BY <2>1, <2>2, <2>3 DEF OperationJobs
<1>4. CASE other = job /\ s # Who(p) /\ job = "dcf_icf"
  <2> DEFINE key == ForwardingKey(Who(p), p)
  <2>0. key[1] = Who(p)
    BY DEF ForwardingKey
  <2>1. \/ e = d
        \/ e.forward = Insert(d.forward, key, p.end_time)
        \/ e.forward = Delete(d.forward, key)
    <3>1. CASE p.type = "DELETE_CALL_FORWARDING"
      <4>1. e = DeleteForwarding(d, p, Who(p))
        BY <3>1, <1>4 DEF Did
      <4>2. Who(p) \in SubscriberIds
        BY <3>1, <1>1
      <4> QED BY <4>1, <4>2, ForwardingDone
    <3>2. CASE p.type = "INSERT_CALL_FORWARDING"
      <4>1. e = InsertForwarding(d, p, Who(p))
        BY <3>2, <1>4 DEF Did
      <4>2. Who(p) \in SubscriberIds
        BY <3>2, <1>1
      <4> QED BY <4>1, <4>2, ForwardingDone
    <3> QED BY <3>1, <3>2, <1>4 DEF Did
  <2> HIDE DEF e, key
  <2>2. ForwardingRows(e, s) = ForwardingRows(d, s)
    <3>1. CASE e.forward = Insert(d.forward, key, p.end_time)
      BY <3>1, <2>0, <1>4 DEF ForwardingRows, Insert
    <3>2. CASE e.forward = Delete(d.forward, key)
      BY <3>2, <2>0, <1>4 DEF ForwardingRows, Delete
    <3> QED BY <2>1, <3>1, <3>2
  <2> QED BY <2>2, <1>4 DEF View, e
<1>5. CASE other = job /\ s # Who(p) /\ job = "gsd_ul_usd"
  <2>0. DOMAIN d.sub = SubscriberIds
    BY DEF Shaped, RowsOf
  <2>1. \/ e = d
        \/ e.sub = VlrSet(d.sub, Who(p), p.vlr_location)
        \/ e.sub = Bit1Set(d.sub, Who(p), p.bit_1)
    BY <1>1, <1>5, UpdatesDone DEF Did, ById
  <2> HIDE DEF e
  <2>2. SubscriberRow(e, s) = SubscriberRow(d, s)
    BY <2>0, <2>1, <1>5 DEF SubscriberRow, VlrSet, Bit1Set
  <2> QED BY <2>2, <1>5 DEF View, e
<1>6. CASE other = job /\ s # Who(p) /\ job = "icf_usd"
  <2> DEFINE key == <<p.s_id, p.sf_type>>
  <2>1. \/ e = d
        \/ p.s_id = Who(p) /\ e.facility = DataASet(d.facility, key, p.data_a)
    BY <1>1, <1>6, UpdatesDone DEF Did, ById
  <2>0. key[1] = p.s_id
    OBVIOUS
  <2> HIDE DEF e, key
  <2>2. FacilityRows(e, s) = FacilityRows(d, s)
    BY <2>0, <2>1, <1>6 DEF FacilityRows, DataASet
  <2> QED BY <2>2, <1>6 DEF View, e
<1> QED
  BY <1>3, <1>4, <1>5, <1>6 DEF OperationJobs

(* What becomes of a subscriber's rows depends on them only.                *)
LEMMA DidHere ==
  ASSUME NEW d, Shaped(d), NEW e, Shaped(e), NEW job \in OperationJobs, NEW p \in Queued,
         NEW s \in SubscriberIds, s = Who(p), View(d, job, s) = View(e, job, s)
  PROVE  View(Did(d, job, p), job, s) = View(Did(e, job, p), job, s)
<1> DEFINE f == Did(d, job, p)
           g == Did(e, job, p)
<1>1. p.type \in ById => s = p.s_id
  BY WhoIs
<1>2. CASE job = "dcf_icf"
  <2> DEFINE key == ForwardingKey(s, p)
  <2>0. key[1] = s
    BY DEF ForwardingKey
  <2>1. \/ f = d /\ g = e
        \/ /\ f.forward = Insert(d.forward, key, p.end_time)
           /\ g.forward = Insert(e.forward, key, p.end_time)
        \/ /\ f.forward = Delete(d.forward, key)
           /\ g.forward = Delete(e.forward, key)
    BY <1>2, ForwardingDone DEF Did
  <2>2. ForwardingRows(d, s) = ForwardingRows(e, s)
    BY <1>2 DEF View
  <2>3. /\ {k \in DOMAIN d.forward : k[1] = s} = {k \in DOMAIN e.forward : k[1] = s}
        /\ \A k \in DOMAIN d.forward : k[1] = s => d.forward[k] = e.forward[k]
    BY <2>2 DEF ForwardingRows
  <2> HIDE DEF f, g, key
  <2>4. CASE /\ f.forward = Insert(d.forward, key, p.end_time)
             /\ g.forward = Insert(e.forward, key, p.end_time)
    <3>1. {k \in DOMAIN f.forward : k[1] = s} = {k \in DOMAIN g.forward : k[1] = s}
      BY <2>4, <2>3, <2>0 DEF Insert
    <3>2. \A k \in DOMAIN f.forward : k[1] = s => f.forward[k] = g.forward[k]
      BY <2>4, <2>3, <2>0 DEF Insert
    <3>3. ForwardingRows(f, s) = ForwardingRows(g, s)
      BY <3>1, <3>2 DEF ForwardingRows
    <3> QED BY <3>3, <1>2 DEF View, f, g
  <2>5. CASE /\ f.forward = Delete(d.forward, key)
             /\ g.forward = Delete(e.forward, key)
    <3>1. {k \in DOMAIN f.forward : k[1] = s} = {k \in DOMAIN g.forward : k[1] = s}
      BY <2>5, <2>3, <2>0 DEF Delete
    <3>2. \A k \in DOMAIN f.forward : k[1] = s => f.forward[k] = g.forward[k]
      BY <2>5, <2>3, <2>0 DEF Delete
    <3>3. ForwardingRows(f, s) = ForwardingRows(g, s)
      BY <3>1, <3>2 DEF ForwardingRows
    <3> QED BY <3>3, <1>2 DEF View, f, g
  <2> QED BY <2>1, <2>4, <2>5 DEF f, g
<1>3. CASE job = "gsd_ul_usd"
  <2>0. DOMAIN d.sub = SubscriberIds /\ DOMAIN e.sub = SubscriberIds
    BY DEF Shaped, RowsOf
  <2>1. \/ f = d /\ g = e
        \/ /\ f.sub = VlrSet(d.sub, s, p.vlr_location)
           /\ g.sub = VlrSet(e.sub, s, p.vlr_location)
        \/ /\ f.sub = Bit1Set(d.sub, s, p.bit_1)
           /\ g.sub = Bit1Set(e.sub, s, p.bit_1)
    BY <1>1, <1>3, UpdatesDone, ZenonT(60) DEF Did, ById
  <2>2. SubscriberRow(d, s) = SubscriberRow(e, s)
    BY <1>3 DEF View
  <2> HIDE DEF f, g
  <2>3. SubscriberRow(f, s) = SubscriberRow(g, s)
    BY <2>0, <2>1, <2>2 DEF SubscriberRow, VlrSet, Bit1Set
  <2> QED BY <2>3, <1>3 DEF View, f, g
<1>4. CASE job = "icf_usd"
  <2> DEFINE key == <<s, p.sf_type>>
  <2>0. key[1] = s
    OBVIOUS
  <2>1. \/ f = d /\ g = e
        \/ /\ f.facility = DataASet(d.facility, key, p.data_a)
           /\ g.facility = DataASet(e.facility, key, p.data_a)
    BY <1>1, <1>4, UpdatesDone DEF Did, ById
  <2>2. FacilityRows(d, s) = FacilityRows(e, s)
    BY <1>4 DEF View
  <2>3. /\ {k \in DOMAIN d.facility : k[1] = s} = {k \in DOMAIN e.facility : k[1] = s}
        /\ \A k \in DOMAIN d.facility : k[1] = s => d.facility[k] = e.facility[k]
    BY <2>2 DEF FacilityRows
  <2> HIDE DEF f, g, key
  <2>4. CASE /\ f.facility = DataASet(d.facility, key, p.data_a)
             /\ g.facility = DataASet(e.facility, key, p.data_a)
    <3>1. {k \in DOMAIN f.facility : k[1] = s} = {k \in DOMAIN g.facility : k[1] = s}
      BY <2>4, <2>3, <2>0 DEF DataASet
    <3>2. \A k \in DOMAIN f.facility : k[1] = s => f.facility[k] = g.facility[k]
      BY <2>4, <2>3, <2>0 DEF DataASet
    <3>3. FacilityRows(f, s) = FacilityRows(g, s)
      BY <3>1, <3>2 DEF FacilityRows
    <3> QED BY <3>3, <1>4 DEF View, f, g
  <2> QED BY <2>1, <2>2, <2>4, <1>4 DEF View, f, g
<1> QED
  BY <1>2, <1>3, <1>4 DEF OperationJobs

(* What a transaction reads.                                                *)
Readers == {"GET_SUBSCRIBER_DATA", "INSERT_CALL_FORWARDING"}
Finds(d, p) == IF p.type = "GET_SUBSCRIBER_DATA" THEN SubscriberRow(d, Who(p))
               ELSE FacilityRows(d, Who(p))

(* The table of a job, whose rows the job's views are.                      *)
Table(d, job) == IF job = "dcf_icf" THEN d.forward
                 ELSE IF job = "gsd_ul_usd" THEN d.sub ELSE d.facility

(* A transaction run whole does what its jobs do.                           *)
AllDone(d, p, e) ==
    /\ Shaped(e)
    /\ e.answers = IF p.type \in Readers THEN Append(d.answers, Finds(d, p)) ELSE d.answers
    /\ e.forward = Did(d, "dcf_icf", p).forward
    /\ e.sub = Did(d, "gsd_ul_usd", p).sub
    /\ e.facility = Did(d, "icf_usd", p).facility

(* What the serial processor does for a transaction is what the batch's     *)
(* jobs do together.                                                       *)
LEMMA ProcessIs ==
  ASSUME NEW d, Shaped(d), NEW p \in Queued
  PROVE  AllDone(d, p, Process(d, p))
<1>1. /\ p.type \in ByNumber \cup ById \cup {"ENDEXECUTION"}
      /\ p.type # "ENDEXECUTION" => Who(p) \in SubscriberIds
      /\ p.type \in ById => Who(p) = p.s_id
  BY WhoIs
<1>2. (IF p.type \in ByNumber THEN SubscriberIdOf(d, p.sub_nbr) ELSE p.s_id) = Who(p)
  <2>1. RowsOf(d)
    BY DEF Shaped
  <2>2. p.type \in ByNumber => SubscriberIdOf(d, p.sub_nbr) = IdOf(p.sub_nbr)
    BY <2>1, NamedIsFound
  <2> QED BY <2>2 DEF Who
<1> DEFINE e == Process(d, p)
<1>3. CASE p.type = "DELETE_CALL_FORWARDING"
  <2>1. e = DeleteForwarding(d, p, Who(p))
    BY <1>2, <1>3 DEF Process
  <2>2. TablesLeft(d, "dcf_icf", e)
    BY <2>1, <1>1, <1>3, ForwardingDone
  <2>3. Did(d, "dcf_icf", p) = e /\ Did(d, "gsd_ul_usd", p) = d /\ Did(d, "icf_usd", p) = d
    BY <2>1, <1>3 DEF Did
  <2> HIDE DEF e
  <2>4. AllDone(d, p, e)
    BY <2>2, <2>3, <1>3 DEF AllDone, TablesLeft, Readers
  <2> QED BY <2>4 DEF e
<1>4. CASE p.type = "INSERT_CALL_FORWARDING"
  <2> DEFINE row == FacilityRows(d, Who(p))
             a == Answer(d, row)
  <2>1. e = InsertForwarding(a, p, Who(p))
    BY <1>2, <1>4 DEF Process
  <2>2. Shaped(a) /\ a.sub = d.sub /\ a.facility = d.facility /\ a.forward = d.forward
        /\ a.answers = Append(d.answers, row)
    BY AnswerDone
  <2> HIDE DEF a
  <2>3. /\ TablesLeft(a, "dcf_icf", e)
        /\ e.forward = Insert(a.forward, ForwardingKey(Who(p), p), p.end_time)
    BY <2>1, <2>2, <1>1, <1>4, ForwardingDone
  <2>4. Did(d, "dcf_icf", p).forward = Insert(d.forward, ForwardingKey(Who(p), p), p.end_time)
    <3>1. Did(d, "dcf_icf", p) = InsertForwarding(d, p, Who(p))
      BY <1>4 DEF Did
    <3> QED BY <3>1, <1>1, <1>4, ForwardingDone
  <2>5. Did(d, "gsd_ul_usd", p) = d /\ Did(d, "icf_usd", p) = d
    BY <1>4 DEF Did
  <2> HIDE DEF e, row
  <2>6. p.type \in Readers /\ Finds(d, p) = row
    BY <1>4 DEF Readers, Finds, row
  <2>7. AllDone(d, p, e)
    BY <2>2, <2>3, <2>4, <2>5, <2>6 DEF AllDone, TablesLeft
  <2> QED BY <2>7 DEF e
<1>5. CASE p.type = "UPDATE_LOCATION"
  <2>1. e = UpdateVlr(d, p, Who(p))
    BY <1>2, <1>5 DEF Process
  <2>2. TablesLeft(d, "gsd_ul_usd", e)
    BY <2>1, <1>1, <1>5, UpdatesDone
  <2>3. Did(d, "dcf_icf", p) = d /\ Did(d, "gsd_ul_usd", p) = e /\ Did(d, "icf_usd", p) = d
    BY <2>1, <1>5 DEF Did
  <2> HIDE DEF e
  <2>4. AllDone(d, p, e)
    BY <2>2, <2>3, <1>5 DEF AllDone, TablesLeft, Readers
  <2> QED BY <2>4 DEF e
<1>6. CASE p.type = "UPDATE_SUBSCRIBER_DATA"
  <2> DEFINE b == UpdateBit1(d, p)
  <2>1. e = UpdateDataA(b, p)
    BY <1>6 DEF Process, ByNumber
  <2>2. TablesLeft(d, "gsd_ul_usd", b)
    BY <1>1, <1>6, UpdatesDone
  <2>3. b = Did(d, "gsd_ul_usd", p)
    BY <1>6 DEF Did
  <2> HIDE DEF b
  <2>4. Shaped(b) /\ b.facility = d.facility /\ b.forward = d.forward /\ b.answers = d.answers
    BY <2>2 DEF TablesLeft
  <2>5. /\ TablesLeft(b, "icf_usd", e)
        /\ e.facility = DataASet(b.facility, <<p.s_id, p.sf_type>>, p.data_a)
    BY <2>1, <2>4, <1>1, <1>6, UpdatesDone
  <2>6. Did(d, "icf_usd", p).facility = DataASet(d.facility, <<p.s_id, p.sf_type>>, p.data_a)
    <3>1. Did(d, "icf_usd", p) = UpdateDataA(d, p)
      BY <1>6 DEF Did
    <3> QED BY <3>1, <1>1, <1>6, UpdatesDone
  <2>7. Did(d, "dcf_icf", p) = d
    BY <1>6 DEF Did
  <2> HIDE DEF e
  <2>8. AllDone(d, p, e)
    BY <2>3, <2>4, <2>5, <2>6, <2>7, <1>6 DEF AllDone, TablesLeft, Readers
  <2> QED BY <2>8 DEF e
<1>7. CASE p.type = "GET_SUBSCRIBER_DATA"
  <2> DEFINE row == SubscriberRow(d, Who(p))
  <2>1. e = Answer(d, row)
    BY <1>2, <1>7 DEF Process
  <2>2. /\ Shaped(e) /\ e.sub = d.sub /\ e.facility = d.facility /\ e.forward = d.forward
        /\ e.answers = Append(d.answers, row)
    BY <2>1, AnswerDone
  <2>3. Did(d, "dcf_icf", p) = d /\ Did(d, "gsd_ul_usd", p) = d /\ Did(d, "icf_usd", p) = d
    BY <1>7 DEF Did
  <2> HIDE DEF e, row
  <2>4. p.type \in Readers /\ Finds(d, p) = row
    BY <1>7 DEF Readers, Finds, row
  <2>5. AllDone(d, p, e)
    BY <2>2, <2>3, <2>4 DEF AllDone
  <2> QED BY <2>5 DEF e
<1>8. CASE p.type \in {"GET_ACCESS_DATA", "GET_NEW_DESTINATION", "ENDEXECUTION"}
  <2>1. e = d
    BY <1>8 DEF Process
  <2>2. Did(d, "dcf_icf", p) = d /\ Did(d, "gsd_ul_usd", p) = d /\ Did(d, "icf_usd", p) = d
    BY <1>8 DEF Did
  <2>3. p.type \notin Readers
    BY <1>8 DEF Readers
  <2> HIDE DEF e
  <2>4. AllDone(d, p, e)
    BY <2>1, <2>2, <2>3 DEF AllDone
  <2> QED BY <2>4 DEF e
<1> QED
  BY <1>1, <1>3, <1>4, <1>5, <1>6, <1>7, <1>8 DEF ByNumber, ById

(* A view is a view of its job's table.                                     *)
LEMMA SameTable ==
  ASSUME NEW d, NEW e, NEW job \in OperationJobs, Table(d, job) = Table(e, job), NEW s
  PROVE  View(d, job, s) = View(e, job, s)
BY DEF Table, View, ForwardingRows, SubscriberRow, FacilityRows, OperationJobs

(* A transaction changes the views of its jobs and subscriber as the jobs   *)
(* do, and no others.                                                      *)
LEMMA ProcessViews ==
  ASSUME NEW d, Shaped(d), NEW p \in Queued, NEW job \in OperationJobs, NEW s \in SubscriberIds
  PROVE  /\ View(Process(d, p), job, s) = View(Did(d, job, p), job, s)
         /\ p.type \notin TypesOf[job] \/ s # Who(p) => View(Process(d, p), job, s) = View(d, job, s)
<1> DEFINE e == Process(d, p)
           f == Did(d, job, p)
<1>1. AllDone(d, p, e)
  BY ProcessIs
<1>2. Table(e, job) = Table(f, job)
  <2> HIDE DEF e
  <2> QED BY <1>1 DEF AllDone, Table, OperationJobs
<1>3. View(e, job, s) = View(f, job, s)
  BY <1>2, SameTable
<1>4. p.type \notin TypesOf[job] => f = d
  BY DEF Did, TypesOf, OperationJobs
<1>5. s # Who(p) => View(f, job, s) = View(d, job, s)
  BY DidElsewhere
<1> HIDE DEF e, f
<1>6. p.type \notin TypesOf[job] \/ s # Who(p) => View(e, job, s) = View(d, job, s)
  BY <1>3, <1>4, <1>5
<1> QED
  BY <1>3, <1>6 DEF e, f

(* Databases with the same views and answers are the same.                  *)
LEMMA SameViews ==
  ASSUME NEW d, Shaped(d), NEW e, Shaped(e), d.answers = e.answers,
         \A job \in OperationJobs, s \in SubscriberIds : View(d, job, s) = View(e, job, s)
  PROVE  d = e
<1>1. \A s \in SubscriberIds : /\ ForwardingRows(d, s) = ForwardingRows(e, s)
                               /\ SubscriberRow(d, s) = SubscriberRow(e, s)
                               /\ FacilityRows(d, s) = FacilityRows(e, s)
  BY DEF View, OperationJobs
<1>2. d.sub = e.sub
  <2>1. IsFcn(d.sub) /\ IsFcn(e.sub) /\ DOMAIN d.sub = SubscriberIds /\ DOMAIN e.sub = SubscriberIds
    BY DEF Shaped, RowsOf
  <2>2. \A s \in SubscriberIds : d.sub[s] = e.sub[s]
    BY <1>1 DEF SubscriberRow
  <2> QED BY <2>1, <2>2 DEF IsFcn
<1>3. d.forward = e.forward
  <2>1. /\ IsFcn(d.forward) /\ IsFcn(e.forward)
        /\ \A k \in DOMAIN d.forward \cup DOMAIN e.forward : k[1] \in SubscriberIds
    BY DEF Shaped
  <2>2. ASSUME NEW s \in SubscriberIds, NEW k, k[1] = s
        PROVE  /\ k \in DOMAIN d.forward <=> k \in DOMAIN e.forward
               /\ k \in DOMAIN d.forward => d.forward[k] = e.forward[k]
    <3>1. ForwardingRows(d, s) = ForwardingRows(e, s)
      BY <1>1
    <3>2. {f \in DOMAIN d.forward : f[1] = s} = {f \in DOMAIN e.forward : f[1] = s}
      BY <3>1 DEF ForwardingRows
    <3> QED BY <2>2, <3>1, <3>2 DEF ForwardingRows
  <2>3. DOMAIN d.forward = DOMAIN e.forward
    BY <2>1, <2>2
  <2>4. \A k \in DOMAIN d.forward : d.forward[k] = e.forward[k]
    BY <2>1, <2>2
  <2> QED BY <2>1, <2>3, <2>4 DEF IsFcn
<1>4. d.facility = e.facility
  <2>1. /\ IsFcn(d.facility) /\ IsFcn(e.facility)
        /\ \A k \in DOMAIN d.facility \cup DOMAIN e.facility : k[1] \in SubscriberIds
    BY DEF Shaped
  <2>2. ASSUME NEW s \in SubscriberIds, NEW k, k[1] = s
        PROVE  /\ k \in DOMAIN d.facility <=> k \in DOMAIN e.facility
               /\ k \in DOMAIN d.facility => d.facility[k] = e.facility[k]
    <3>1. FacilityRows(d, s) = FacilityRows(e, s)
      BY <1>1
    <3>2. {f \in DOMAIN d.facility : f[1] = s} = {f \in DOMAIN e.facility : f[1] = s}
      BY <3>1 DEF FacilityRows
    <3> QED BY <2>2, <3>1, <3>2 DEF FacilityRows
  <2>3. DOMAIN d.facility = DOMAIN e.facility
    BY <2>1, <2>2
  <2>4. \A k \in DOMAIN d.facility : d.facility[k] = e.facility[k]
    BY <2>1, <2>2
  <2> QED BY <2>1, <2>3, <2>4 DEF IsFcn
<1> QED
  BY <1>2, <1>3, <1>4 DEF Shaped

-----------------------------------------------------------------------------
(* The recursive function of the fold in SerialExecution, over the sets of  *)
(* positions up to n.                                                      *)
Executes(n, txns, base, g) ==
    g = [s \in SUBSET (1 .. n) |->
            IF s = {} THEN base ELSE Process(g[s \ {Max(s)}], txns[Max(s)])]

(* The fold is that function at all positions.                              *)
LEMMA ExecutionIs ==
  ASSUME NEW txns, NEW n, DOMAIN txns = 1 .. n, NEW base
  PROVE  FoldLeft(Process, base, txns) = (CHOOSE g : Executes(n, txns, base, g))[1 .. n]
<1> DEFINE Runs(g) == g = [s \in SUBSET DOMAIN txns |->
                              IF s = {} THEN base ELSE Process(g[s \ {Max(s)}], txns[Max(s)])]
<1>1. FoldLeft(Process, base, txns) = (CHOOSE g : Runs(g))[DOMAIN txns]
  BY Zenon DEF FoldLeft, MapThenFoldSet
<1>2. \A g : Runs(g) <=> Executes(n, txns, base, g)
  BY DEF Executes
<1>3. (CHOOSE g : Runs(g)) = CHOOSE g : Executes(n, txns, base, g)
  <2> HIDE DEF Runs
  <2> QED BY <1>2
<1> QED
  BY <1>1, <1>3

(* It exists: one more transaction runs after all sets without it.          *)
LEMMA ExecutionExists ==
  ASSUME NEW txns, NEW base, NEW n \in Nat
  PROVE  \E g : Executes(n, txns, base, g)
<1> DEFINE Good == {i \in Nat : \E g : Executes(i, txns, base, g)}
<1>1. 0 \in Good
  <2> DEFINE g == [s \in SUBSET (1 .. 0) |-> base]
  <2>1. \A s \in SUBSET (1 .. 0) : s = {}
    OBVIOUS
  <2>2. g = [s \in SUBSET (1 .. 0) |->
                IF s = {} THEN base ELSE Process(g[s \ {Max(s)}], txns[Max(s)])]
    BY <2>1
  <2>3. Executes(0, txns, base, g)
    BY <2>2 DEF Executes
  <2> QED BY <2>3
<1>2. ASSUME NEW i \in Nat, i \in Good PROVE i + 1 \in Good
  <2>1. PICK g : Executes(i, txns, base, g)
    BY <1>2
  <2>2. \A s \in SUBSET (1 .. i) :
           g[s] = IF s = {} THEN base ELSE Process(g[s \ {Max(s)}], txns[Max(s)])
    BY <2>1, Zenon DEF Executes
  <2> DEFINE f == [s \in SUBSET (1 .. i + 1) |->
                      IF i + 1 \notin s THEN g[s] ELSE Process(g[s \ {i + 1}], txns[i + 1])]
             f2 == [s \in SUBSET (1 .. i + 1) |->
                      IF s = {} THEN base ELSE Process(f[s \ {Max(s)}], txns[Max(s)])]
  <2>3. ASSUME NEW s \in SUBSET (1 .. i + 1) PROVE f[s] = f2[s]
    <3>1. CASE i + 1 \notin s
      <4>1. s \in SUBSET (1 .. i)
        BY <3>1
      <4>2. s # {} => s \ {Max(s)} \in SUBSET (1 .. i) /\ i + 1 \notin s \ {Max(s)}
                      /\ s \ {Max(s)} \in SUBSET (1 .. i + 1)
        BY <4>1, <3>1
      <4>3. s # {} => f[s \ {Max(s)}] = g[s \ {Max(s)}]
        BY <4>2
      <4> QED BY <3>1, <4>1, <4>3, <2>2
    <3>2. CASE i + 1 \in s
      <4>1. \A y \in s : i + 1 >= y
        OBVIOUS
      <4>2. \A x \in s : (\A y \in s : x >= y) => x = i + 1
        BY <3>2, <4>1
      <4>3. Max(s) = i + 1
        BY <3>2, <4>1, <4>2 DEF Max
      <4>4. s # {} /\ s \ {i + 1} \in SUBSET (1 .. i + 1) /\ i + 1 \notin s \ {i + 1}
        BY <3>2
      <4>5. f[s \ {i + 1}] = g[s \ {i + 1}]
        BY <4>4
      <4> QED BY <3>2, <4>3, <4>4, <4>5
    <3> QED BY <3>1, <3>2
  <2>4. f = f2
    <3> DEFINE old(s) == IF i + 1 \notin s THEN g[s] ELSE Process(g[s \ {i + 1}], txns[i + 1])
               new(s) == IF s = {} THEN base ELSE Process(f[s \ {Max(s)}], txns[Max(s)])
               sets == SUBSET (1 .. i + 1)
    <3>1. \A s \in sets : f[s] = old(s) /\ f2[s] = new(s)
      OBVIOUS
    <3>2. \A s \in sets : old(s) = new(s)
      BY <2>3, <3>1
    <3>3. f = [s \in sets |-> old(s)] /\ f2 = [s \in sets |-> new(s)]
      OBVIOUS
    <3> HIDE DEF old, new, sets, f, f2
    <3> QED BY <3>2, <3>3
  <2>5. Executes(i + 1, txns, base, f)
    BY <2>4, Zenon DEF Executes
  <2>6. \E h : Executes(i + 1, txns, base, h)
    BY <2>5
  <2> HIDE DEF f, f2
  <2> QED BY <2>6
<1> HIDE DEF Good
<1>3. Nat \subseteq Good
  BY <1>1, <1>2, Induction
<1> QED
  BY <1>3 DEF Good

(* The databases the first transactions leave, one after the other.         *)
Serially(n, txns, base, h) ==
    /\ h[0] = base
    /\ \A i \in 1 .. n : h[i] = Process(h[i - 1], txns[i])
    /\ FoldLeft(Process, base, txns) = h[n]

(* There are such databases, for all transactions and any to start with.   *)
LEMMA SerialStates ==
  ASSUME NEW n \in Nat, NEW txns, DOMAIN txns = 1 .. n, NEW base
  PROVE  \E h : Serially(n, txns, base, h)
<1> DEFINE g == CHOOSE f : Executes(n, txns, base, f)
           h == [i \in 0 .. n |-> g[1 .. i]]
<1>1. Executes(n, txns, base, g)
  BY ExecutionExists
<1>2. FoldLeft(Process, base, txns) = g[1 .. n]
  BY ExecutionIs
<1> HIDE DEF g
<1>3. \A s \in SUBSET (1 .. n) :
         g[s] = IF s = {} THEN base ELSE Process(g[s \ {Max(s)}], txns[Max(s)])
  BY <1>1, Zenon DEF Executes
<1>4. h[0] = base
  <2>1. 1 .. 0 = {} /\ 1 .. 0 \in SUBSET (1 .. n) /\ h[0] = g[1 .. 0]
    OBVIOUS
  <2> QED BY <2>1, <1>3
<1>5. ASSUME NEW i \in 1 .. n PROVE h[i] = Process(h[i - 1], txns[i])
  <2>0. i \in Nat \ {0}
    OBVIOUS
  <2>1. Max(1 .. i) = i /\ (1 .. i) \ {i} = 1 .. (i - 1) /\ 1 .. i # {}
    BY <2>0, UptoLast
  <2>2. 1 .. i \in SUBSET (1 .. n) /\ h[i] = g[1 .. i] /\ h[i - 1] = g[1 .. (i - 1)]
    OBVIOUS
  <2>3. g[1 .. i] = Process(g[(1 .. i) \ {Max(1 .. i)}], txns[Max(1 .. i)])
    BY <2>1, <2>2, <1>3
  <2> QED BY <2>1, <2>2, <2>3
<1>6. FoldLeft(Process, base, txns) = h[n]
  BY <1>2
<1>7. Serially(n, txns, base, h)
  BY <1>4, <1>5, <1>6 DEF Serially
<1> QED
  BY <1>7

-----------------------------------------------------------------------------
(* The databases the transactions of the batch leave when they run whole,   *)
(* one after the other.                                                    *)
After == CHOOSE h : Serially(Len(batch), batch, committed, h)

(* The transactions that have an entry for a job in a subscriber's rows, and *)
(* whether the entry is still to come.                                     *)
Relevant(job, s) == {p \in 1 .. Len(batch) : batch[p].type \in TypesOf[job] /\ Who(batch[p]) = s}
Waiting(job, p) == <<job, <<p, None>>>> \in Pending(pool)

(* The rows are those the first q transactions have left, and the entries    *)
(* of the others are still to come.                                        *)
CaughtUp(job, s) ==
    \E q \in 0 .. Len(batch) :
        /\ \A p \in Relevant(job, s) : Waiting(job, p) <=> q < p
        /\ View(db, job, s) = View(After[q], job, s)

(* The selects that are done have found what a serial execution finds.     *)
ReaderJob(p) == IF p.type = "GET_SUBSCRIBER_DATA" THEN "gsd_ul_usd" ELSE "icf_usd"
Answered == {p \in 1 .. Len(batch) : batch[p].type \in Readers /\ ~Waiting(ReaderJob(batch[p]), p)}
AnswersSound ==
    /\ DOMAIN answer = Answered
    /\ \A p \in Answered : answer[p] = Finds(After[p - 1], batch[p])

(* The answers of a database are a sequence.                               *)
Logged(d) == \E S : d.answers \in Seq(S)

(* Between the batches the rows are those of the last one cleared.         *)
InStep ==
    /\ Shaped(committed) /\ Logged(committed) /\ Shaped(db)
    /\ AllRising(pool)
    /\ phase # "operations" => db = committed /\ answer = <<>>
    /\ phase = "operations" =>
          /\ db.answers = committed.answers
          /\ \A job \in OperationJobs, s \in SubscriberIds : CaughtUp(job, s)
          /\ AnswersSound

-----------------------------------------------------------------------------
(* What a serial execution goes through are databases with all subscribers. *)
LEMMA SeriallyShaped ==
  ASSUME NEW n \in Nat, NEW txns, \A i \in 1 .. n : txns[i] \in Queued,
         NEW base, Shaped(base), NEW h, Serially(n, txns, base, h)
  PROVE  \A i \in 0 .. n : Shaped(h[i])
<1> DEFINE Good == {i \in Nat : i <= n => Shaped(h[i])}
<1>1. 0 \in Good
  BY DEF Serially
<1>2. ASSUME NEW i \in Nat, i \in Good PROVE i + 1 \in Good
  <2>1. CASE i + 1 <= n
    <3>1. i + 1 \in 1 .. n /\ i <= n /\ (i + 1) - 1 = i
      BY <2>1
    <3>2. h[i + 1] = Process(h[i], txns[i + 1])
      BY <3>1 DEF Serially
    <3>3. Shaped(h[i]) /\ txns[i + 1] \in Queued
      BY <3>1, <1>2
    <3>4. AllDone(h[i], txns[i + 1], Process(h[i], txns[i + 1]))
      BY <3>3, ProcessIs
    <3>5. Shaped(h[i + 1])
      BY <3>2, <3>4 DEF AllDone
    <3> QED BY <3>5
  <2>2. CASE ~(i + 1 <= n)
    BY <2>2
  <2> QED BY <2>1, <2>2
<1> HIDE DEF Good
<1>3. Nat \subseteq Good
  BY <1>1, <1>2, Induction
<1> QED
  BY <1>3 DEF Good

(* The transactions from q + 1 to r have nothing to do for a job in a       *)
(* subscriber's rows.                                                      *)
NoneFor(txns, q, r, job, s) ==
    \A p \in q + 1 .. r : txns[p].type \notin TypesOf[job] \/ s # Who(txns[p])

(* So they leave the rows as they are.                                     *)
LEMMA ViewsWait ==
  ASSUME NEW n \in Nat, NEW txns, \A i \in 1 .. n : txns[i] \in Queued,
         NEW base, Shaped(base), NEW h, Serially(n, txns, base, h),
         NEW job \in OperationJobs, NEW s \in SubscriberIds,
         NEW q \in 0 .. n, NEW r \in q .. n, NoneFor(txns, q, r, job, s)
  PROVE  View(h[r], job, s) = View(h[q], job, s)
<1> DEFINE Good == {i \in Nat : i <= r - q => View(h[q + i], job, s) = View(h[q], job, s)}
<1>1. 0 \in Good
  <2>1. q + 0 = q
    OBVIOUS
  <2> QED BY <2>1
<1>2. ASSUME NEW i \in Nat, i \in Good PROVE i + 1 \in Good
  <2>1. CASE i + 1 <= r - q
    <3> DEFINE p == q + i + 1
    <3>1. p \in 1 .. n /\ p - 1 = q + i /\ q + i \in 0 .. n /\ p \in q + 1 .. r /\ q + (i + 1) = p
          /\ i <= r - q
      BY <2>1
    <3> HIDE DEF p
    <3>2. h[p] = Process(h[q + i], txns[p])
      BY <3>1 DEF Serially
    <3>3. Shaped(h[q + i]) /\ txns[p] \in Queued
      BY <3>1, SeriallyShaped
    <3>4. txns[p].type \notin TypesOf[job] \/ s # Who(txns[p])
      BY <3>1 DEF NoneFor
    <3>5. View(h[p], job, s) = View(h[q + i], job, s)
      BY <3>2, <3>3, <3>4, ProcessViews
    <3>6. View(h[q + i], job, s) = View(h[q], job, s)
      BY <3>1, <1>2
    <3>7. View(h[q + (i + 1)], job, s) = View(h[q], job, s)
      BY <3>1, <3>5, <3>6
    <3> QED BY <3>7
  <2>2. CASE ~(i + 1 <= r - q)
    BY <2>2
  <2> QED BY <2>1, <2>2
<1> HIDE DEF Good
<1>3. Nat \subseteq Good
  BY <1>1, <1>2, Induction
<1>4. r - q \in Nat /\ q + (r - q) = r
  OBVIOUS
<1>5. r - q \in Good
  BY <1>3, <1>4
<1> QED
  BY <1>4, <1>5 DEF Good

(* What the transactions' selects find, in their order.                    *)
Found(n, txns, h) ==
    [p \in 1 .. n |-> IF txns[p].type \in Readers THEN <<Finds(h[p - 1], txns[p])>> ELSE <<>>]

(* It is what a serial execution adds to the answers.                      *)
LEMMA SerialAnswers ==
  ASSUME NEW n \in Nat, NEW txns, \A i \in 1 .. n : txns[i] \in Queued,
         NEW base, Shaped(base), Logged(base), NEW h, Serially(n, txns, base, h)
  PROVE  /\ h[n].answers = base.answers \o Joined(n, Found(n, txns, h))
         /\ Logged(h[n])
<1>1. PICK S : base.answers \in Seq(S)
  BY DEF Logged
<1> DEFINE V == {Finds(h[p - 1], txns[p]) : p \in 1 .. n}
           U == S \cup V
           seqs == Found(n, txns, h)
<1>2. \A i \in 1 .. n : seqs[i] = IF txns[i].type \in Readers THEN <<Finds(h[i - 1], txns[i])>> ELSE <<>>
  BY DEF Found
<1>3. \A i \in 1 .. n : seqs[i] \in Seq(U)
  <2> TAKE i \in 1 .. n
  <2> DEFINE v == Finds(h[i - 1], txns[i])
  <2>1. v \in U
    OBVIOUS
  <2> HIDE DEF v, U
  <2>2. <<v>> \in Seq(U) /\ <<>> \in Seq(U)
    BY <2>1
  <2> QED BY <2>2, <1>2 DEF v
<1>4. base.answers \in Seq(U)
  <2>1. S \subseteq U
    OBVIOUS
  <2> HIDE DEF U
  <2> QED BY <2>1, <1>1, SeqMonotonic
<1> HIDE DEF U, seqs
<1>5. PICK g : Unfolds(U, n, seqs, g)
  BY <1>3, JoinedUnfolds
<1>6. /\ g \in [0 .. n -> Seq(U)] /\ g[0] = <<>>
      /\ \A i \in 1 .. n : g[i] = g[i - 1] \o seqs[i]
      /\ Joined(n, seqs) = g[n]
  BY <1>5 DEF Unfolds
<1> DEFINE full(i) == base.answers \o g[i]
           Good == {i \in Nat : i <= n => h[i].answers = full(i)}
<1>7. full(0) = base.answers
  BY <1>4, <1>6, ConcatEmptySeq
<1>8. ASSUME NEW i \in 0 .. n - 1
      PROVE  /\ full(i) \in Seq(U) /\ full(i + 1) = full(i) \o seqs[i + 1]
             /\ seqs[i + 1] = <<>> => full(i + 1) = full(i)
  <2>1. i + 1 \in 1 .. n /\ i \in 0 .. n /\ (i + 1) - 1 = i
    OBVIOUS
  <2> DEFINE a == base.answers
             b == g[i]
             c == seqs[i + 1]
  <2>2. a \in Seq(U) /\ b \in Seq(U) /\ c \in Seq(U) /\ g[i + 1] = b \o c
    BY <2>1, <1>3, <1>4, <1>6
  <2> HIDE DEF a, b, c
  <2>3. a \o b \in Seq(U) /\ (a \o b) \o c = a \o (b \o c)
    BY <2>2, ConcatProperties, ConcatAssociative, SMTT(40)
  <2>4. c = <<>> => b \o c = b
    BY <2>2, ConcatEmptySeq
  <2> QED BY <2>2, <2>3, <2>4 DEF a, b, c
<1>9. full(n) \in Seq(U)
  <2>1. g[n] \in Seq(U)
    BY <1>6
  <2> QED BY <1>4, <2>1, ConcatProperties
<1> HIDE DEF full
<1>10. 0 \in Good
  BY <1>7 DEF Serially
<1>11. ASSUME NEW i \in Nat, i \in Good PROVE i + 1 \in Good
  <2>1. ASSUME i + 1 <= n PROVE h[i + 1].answers = full(i + 1)
    <3> DEFINE p == i + 1
               row == Finds(h[i], txns[p])
    <3>1. p \in 1 .. n /\ i \in 0 .. n - 1 /\ i \in 0 .. n /\ p - 1 = i
      BY <2>1
    <3>5. /\ full(i) \in Seq(U) /\ full(p) = full(i) \o seqs[p]
          /\ seqs[p] = <<>> => full(p) = full(i)
      BY <3>1, <1>8
    <3> HIDE DEF p
    <3>2. h[p] = Process(h[i], txns[p])
      BY <3>1 DEF Serially
    <3>3. Shaped(h[i]) /\ txns[p] \in Queued
      BY <3>1, SeriallyShaped
    <3>4. AllDone(h[i], txns[p], h[p])
      BY <3>2, <3>3, ProcessIs
    <3>6. h[i].answers = full(i)
      BY <3>1, <1>11
    <3>7. ASSUME txns[p].type \in Readers PROVE h[p].answers = full(p)
      <4>1. seqs[p] = <<row>> /\ seqs[p] \in Seq(U)
        BY <3>1, <3>7, <1>2, <1>3
      <4>2. h[p].answers = Append(h[i].answers, row)
        BY <3>4, <3>7 DEF AllDone
      <4> HIDE DEF row
      <4>3. row \in U
        <5>1. <<row>> \in Seq(U) /\ <<row>>[1] = row /\ Len(<<row>>) = 1
          BY <4>1
        <5> QED BY <5>1, ElementOfSeq
      <4>4. Append(full(i), row) = full(i) \o <<row>>
        BY <4>3, <3>5, AppendIsConcat
      <4> QED BY <4>1, <4>2, <4>4, <3>5, <3>6
    <3>8. ASSUME txns[p].type \notin Readers PROVE h[p].answers = full(p)
      <4>1. seqs[p] = <<>> /\ h[p].answers = h[i].answers
        BY <3>1, <3>4, <3>8, <1>2 DEF AllDone
      <4> QED BY <4>1, <3>5, <3>6
    <3>9. h[p].answers = full(p)
      BY <3>7, <3>8
    <3> QED BY <3>9 DEF p
  <2> QED BY <2>1
<1> HIDE DEF Good
<1>12. Nat \subseteq Good
  BY <1>10, <1>11, Induction
<1>13. h[n].answers = full(n)
  BY <1>12 DEF Good
<1> QED
  BY <1>6, <1>9, <1>13 DEF Logged, seqs, full

(* The databases of the batch.                                             *)
LEMMA AfterIs ==
  ASSUME QueueSound, Shaped(committed)
  PROVE  /\ Serially(Len(batch), batch, committed, After)
         /\ \A i \in 0 .. Len(batch) : Shaped(After[i])
<1>1. Len(batch) \in Nat /\ DOMAIN batch = 1 .. Len(batch)
      /\ \A p \in 1 .. Len(batch) : batch[p] \in Queued
  BY Positions
<1>2. \E h : Serially(Len(batch), batch, committed, h)
  BY <1>1, SerialStates
<1>3. Serially(Len(batch), batch, committed, After)
  BY <1>2, Zenon DEF After
<1> QED
  BY <1>1, <1>3, SeriallyShaped

-----------------------------------------------------------------------------
(* An iteration takes its entry, the first of its list, and no other.       *)
LEMMA IterationTakes ==
  ASSUME IInv, AllRising(pool), NEW k \in Active, Done(k)
  PROVE  /\ AllRising(pool') /\ batch' = batch /\ phase' = phase /\ queue' = queue
         /\ Pending(pool') = Pending(pool) \ {<<pool[k].job, Entry(k)>>}
         /\ \A i \in 1 .. Len(pool[k].work) : Position(k) <= pool[k].work[i][1]
<1>1. k \in 1 .. Len(pool) /\ Entry(k) = pool[k].work[1]
  BY AtEntry
<1>2. pool \in WorkLists(Jobs, Entries) /\ Apart(pool, BucketOf)
  BY DEF IInv, PhaseSound, WorkSound
<1>3. pool' = IF Len(pool[k].work) = 1 THEN RemoveAt(pool, k)
              ELSE [pool EXCEPT ![k].work = Tail(@)]
  BY DEF Done
<1>4. WithoutFirst(pool', pool, k)
  BY <1>1, <1>2, <1>3, FirstTaken, Zenon
<1>5. LeftAfter(pool', pool, k)
  BY <1>1, <1>2, <1>3, PendingAfter, Zenon
<1>6. /\ NoneTwice(pool) /\ AllRising(pool')
      /\ \A i \in 1 .. Len(pool[k].work) : pool[k].work[1][1] <= pool[k].work[i][1]
  BY <1>1, <1>2, <1>4, RisingAfter
<1>7. <<pool[k].job, Head(pool[k].work)>> \notin Pending(pool')
  BY <1>1, <1>2, <1>4, <1>6, DoneOnce
<1>8. Pending(pool') = Pending(pool) \ {<<pool[k].job, Entry(k)>>}
  BY <1>5, <1>7 DEF LeftAfter, Entry
<1> QED
  BY <1>1, <1>6, <1>8 DEF Done, Position

(* So the other entries wait as they did.                                  *)
LEMMA StillWaiting ==
  ASSUME IInv, AllRising(pool), NEW k \in Active, Done(k)
  PROVE  \A job, p : Waiting(job, p)' <=> Waiting(job, p) /\ ~(job = pool[k].job /\ p = Position(k))
<1>1. Pending(pool') = Pending(pool) \ {<<pool[k].job, Entry(k)>>}
  BY IterationTakes
<1>2. Entry(k) = <<Position(k), None>>
  <2>1. Entry(k) \in Entries /\ Entry(k)[2] = None
    BY AtEntry
  <2> QED BY <2>1 DEF Entries, Position
<1>3. \A job, p : <<job, <<p, None>>>> = <<pool[k].job, Entry(k)>> <=> job = pool[k].job /\ p = Position(k)
  BY <1>2
<1> QED
  BY <1>1, <1>3 DEF Waiting

(* In the operations a transaction's subscriber is known.                  *)
LEMMA OperatesOn ==
  ASSUME IInv, phase = "operations", NEW p \in 1 .. Len(batch), batch[p].type # "ENDEXECUTION"
  PROVE  SubscriberOf(p) = Who(batch[p]) /\ Who(batch[p]) \in SubscriberIds
<1>1. batch[p] \in Queued
  BY Positions DEF IInv
<1>2. Who(batch[p]) \in SubscriberIds
  BY <1>1, WhoIs
<1>3. CASE batch[p].type \in ByNumber
  <2>1. s_ids[p] = IdOf(batch[p].sub_nbr)
    BY <1>3 DEF IInv, LookedUp, Named
  <2> QED BY <1>2, <1>3, <2>1 DEF SubscriberOf, Who
<1>4. CASE batch[p].type \notin ByNumber
  BY <1>2, <1>4 DEF SubscriberOf, Who
<1> QED
  BY <1>3, <1>4

(* No job is for the end.                                                  *)
LEMMA TypesWork ==
  ASSUME NEW job \in Jobs
  PROVE  "ENDEXECUTION" \notin TypesOf[job]
BY DEF Jobs, LookupJobs, OperationJobs, TypesOf

(* The entries of a subscriber are in one bucket, so that a task of an      *)
(* operation has come to the first that still waits.                       *)
LEMMA FirstOfSubscriber ==
  ASSUME IInv, AllRising(pool), NEW k \in Active, Done(k), phase = "operations",
         pool[k].job \in OperationJobs,
         NEW p \in Relevant(pool[k].job, Who(Txn(k))), Waiting(pool[k].job, p)
  PROVE  Position(k) <= p
<1> DEFINE job == pool[k].job
<1>1. /\ k \in 1 .. Len(pool) /\ Entry(k) = pool[k].work[1] /\ 1 \in 1 .. Len(pool[k].work)
      /\ job \in Jobs /\ Position(k) \in 1 .. Len(batch) /\ Entry(k) \in Entries
      /\ Txn(k) = batch[Position(k)] /\ Txn(k).type \in TypesOf[job]
  BY AtEntry
<1>2. p \in 1 .. Len(batch) /\ batch[p].type \in TypesOf[job] /\ Who(batch[p]) = Who(Txn(k))
  BY DEF Relevant
<1>3. batch[p].type # "ENDEXECUTION" /\ Txn(k).type # "ENDEXECUTION"
  BY <1>1, <1>2, TypesWork
<1>4. SubscriberOf(p) = SubscriberOf(Position(k))
  BY <1>1, <1>2, <1>3, OperatesOn
<1>5. PICK j \in 1 .. Len(pool) : \E i \in 1 .. Len(pool[j].work) :
         <<job, <<p, None>>>> = <<pool[j].job, pool[j].work[i]>>
  BY PendingIs DEF Waiting
<1>6. PICK i \in 1 .. Len(pool[j].work) : <<job, <<p, None>>>> = <<pool[j].job, pool[j].work[i]>>
  BY <1>5
<1>7. pool[j].job = job /\ pool[j].work[i] = <<p, None>> /\ pool[j].work[i][1] = p
  BY <1>6
<1>8. j = k
  <2> SUFFICES ASSUME j # k PROVE FALSE
    OBVIOUS
  <2>1. BucketOf[<<job, <<p, None>>>>] # BucketOf[<<job, Entry(k)>>]
    <3>1. Apart(pool, BucketOf)
      BY DEF IInv, PhaseSound, WorkSound
    <3>2. BucketOf[<<pool[j].job, pool[j].work[i]>>] # BucketOf[<<pool[k].job, pool[k].work[1]>>]
      BY <3>1, <1>1, <1>7 DEF Apart
    <3> QED BY <3>2, <1>1, <1>7
  <2>2. <<p, None>> \in Entries
    <3>1. p \in Nat /\ None \in Int
      BY <1>2, Positions DEF None, IInv
    <3> QED BY <3>1 DEF Entries
  <2>3. BucketOf[<<job, <<p, None>>>>] = SubscriberBucket(p)
    BY <2>2, <1>1 DEF BucketOf
  <2>4. BucketOf[<<job, Entry(k)>>] = SubscriberBucket(Position(k))
    BY <1>1 DEF BucketOf, Position
  <2> QED BY <2>1, <2>3, <2>4, <1>4 DEF SubscriberBucket
<1>9. Position(k) <= pool[k].work[i][1]
  BY <1>6, <1>8, IterationTakes
<1> QED
  BY <1>7, <1>8, <1>9

(* What an iteration of an operation is about to work on.                  *)
LEMMA Operates ==
  ASSUME IInv, NEW k \in Active, pool[k].job \in OperationJobs
  PROVE  /\ phase = "operations"
         /\ Position(k) \in 1 .. Len(batch) /\ Txn(k) = batch[Position(k)] /\ Txn(k) \in Queued
         /\ Txn(k).type \in TypesOf[pool[k].job] /\ Txn(k).type # "ENDEXECUTION"
         /\ SubscriberOf(Position(k)) = Who(Txn(k)) /\ Who(Txn(k)) \in SubscriberIds
         /\ Position(k) \in Relevant(pool[k].job, Who(Txn(k)))
         /\ Waiting(pool[k].job, Position(k))
<1>1. /\ k \in 1 .. Len(pool) /\ pool[k].job \in Jobs /\ pool[k].job \in JobsIn[phase]
      /\ phase \in {"lookups", "operations"}
      /\ Position(k) \in 1 .. Len(batch) /\ Entry(k) \in Entries /\ Entry(k)[2] = None
      /\ Txn(k) = batch[Position(k)] /\ Txn(k).type \in TypesOf[pool[k].job]
  BY AtEntry
<1>2. phase = "operations"
  BY <1>1 DEF JobsIn, LookupJobs, OperationJobs
<1>3. Txn(k) \in Queued
  BY <1>1, Positions DEF IInv
<1>4. Txn(k).type # "ENDEXECUTION"
  BY <1>1, TypesWork
<1>5. SubscriberOf(Position(k)) = Who(Txn(k)) /\ Who(Txn(k)) \in SubscriberIds
  BY <1>1, <1>2, <1>4, OperatesOn
<1>6. Waiting(pool[k].job, Position(k))
  <2>1. <<pool[k].job, Head(pool[k].work)>> \in Pending(pool)
    BY <1>1, FirstIsPending DEF IInv, PhaseSound, WorkSound
  <2>2. Entry(k) = <<Position(k), None>>
    BY <1>1 DEF Entries, Position
  <2> QED BY <2>1, <2>2 DEF Waiting, Entry
<1> QED
  BY <1>1, <1>2, <1>3, <1>4, <1>5, <1>6 DEF Relevant

(* It finds the rows of its subscriber as the transactions before it leave  *)
(* them, and those behind it have not been there.                          *)
LEMMA AtItsTurn ==
  ASSUME IInv, InStep, NEW k \in Active, Done(k), pool[k].job \in OperationJobs
  PROVE  /\ View(db, pool[k].job, Who(Txn(k))) = View(After[Position(k) - 1], pool[k].job, Who(Txn(k)))
         /\ \A p \in Relevant(pool[k].job, Who(Txn(k))) :
               Waiting(pool[k].job, p) <=> Position(k) <= p
<1> DEFINE job == pool[k].job
           s == Who(Txn(k))
           P == Position(k)
<1>1. /\ phase = "operations" /\ P \in 1 .. Len(batch) /\ s \in SubscriberIds
      /\ P \in Relevant(job, s) /\ Waiting(job, P) /\ Len(batch) \in Nat
      /\ \A i \in 1 .. Len(batch) : batch[i] \in Queued
  BY Operates, Positions DEF IInv
<1>2. AllRising(pool) /\ Shaped(committed) /\ CaughtUp(job, s)
  BY <1>1 DEF InStep
<1>3. PICK q \in 0 .. Len(batch) :
         /\ \A p \in Relevant(job, s) : Waiting(job, p) <=> q < p
         /\ View(db, job, s) = View(After[q], job, s)
  BY <1>2, Zenon DEF CaughtUp
<1>4. \A p \in Relevant(job, s) : Waiting(job, p) => P <= p
  BY <1>1, <1>2, FirstOfSubscriber
<1>5. Relevant(job, s) \subseteq 1 .. Len(batch) /\ q < P
  BY <1>1, <1>3 DEF Relevant
<1>6. \A p \in Relevant(job, s) : Waiting(job, p) <=> P <= p
  BY <1>1, <1>3, <1>4, <1>5
<1>7. NoneFor(batch, q, P - 1, job, s)
  <2> SUFFICES ASSUME NEW p \in q + 1 .. P - 1
               PROVE  batch[p].type \notin TypesOf[job] \/ s # Who(batch[p])
    BY DEF NoneFor
  <2>1. p \in 1 .. Len(batch) /\ q < p /\ ~(P <= p)
    BY <1>1, <1>3
  <2>2. p \notin Relevant(job, s)
    BY <2>1, <1>3, <1>4
  <2> QED BY <2>1, <2>2 DEF Relevant
<1>8. P - 1 \in q .. Len(batch)
  BY <1>1, <1>5
<1>9. Serially(Len(batch), batch, committed, After)
  BY <1>2, AfterIs DEF IInv
<1> HIDE DEF job, s, P
<1>10. job \in OperationJobs
  BY DEF job
<1>11. View(After[P - 1], job, s) = View(After[q], job, s)
  BY <1>1, <1>2, <1>7, <1>8, <1>9, <1>10, ViewsWait
<1> QED
  BY <1>3, <1>6, <1>11 DEF job, s, P

(* The rows of every subscriber stay those that some number of transactions *)
(* have left.                                                              *)
LEMMA RowsFollow ==
  ASSUME IInv, InStep, NEW k \in Active, Done(k), pool[k].job \in OperationJobs,
         db' = Did(db, pool[k].job, Txn(k)), committed' = committed
  PROVE  /\ Shaped(db') /\ db'.answers = db.answers
         /\ \A job \in OperationJobs, s \in SubscriberIds : CaughtUp(job, s)'
<1> DEFINE mine == pool[k].job
           P == Position(k)
           T == Txn(k)
<1>1. /\ phase = "operations" /\ P \in 1 .. Len(batch) /\ T = batch[P] /\ T \in Queued
      /\ Who(T) \in SubscriberIds /\ P \in Relevant(mine, Who(T)) /\ Len(batch) \in Nat
  BY Operates, Positions DEF IInv
<1>2. AllRising(pool) /\ Shaped(committed) /\ Shaped(db)
      /\ \A job \in OperationJobs, s \in SubscriberIds : CaughtUp(job, s)
  BY <1>1 DEF InStep
<1>3. batch' = batch /\ After' = After /\ \A job, s : Relevant(job, s)' = Relevant(job, s)
  BY DEF Done, After, Relevant
<1>4. \A job, p : Waiting(job, p)' <=> Waiting(job, p) /\ ~(job = mine /\ p = P)
  BY <1>2, StillWaiting
<1>5. TablesLeft(db, mine, db')
  BY <1>1, <1>2, DidShaped
<1>6. /\ Serially(Len(batch), batch, committed, After)
      /\ \A i \in 0 .. Len(batch) : Shaped(After[i])
  BY <1>2, AfterIs DEF IInv
<1>7. /\ View(db, mine, Who(T)) = View(After[P - 1], mine, Who(T))
      /\ \A p \in Relevant(mine, Who(T)) : Waiting(mine, p) <=> P <= p
  BY AtItsTurn
<1>8. mine \in OperationJobs /\ db' = Did(db, mine, T)
  OBVIOUS
<1> HIDE DEF mine, P, T
<1>9. ASSUME NEW job \in OperationJobs, NEW s \in SubscriberIds
      PROVE  CaughtUp(job, s)'
  <2>0. Relevant(job, s) \subseteq 1 .. Len(batch)
    BY DEF Relevant
  <2>1. CASE job = mine /\ s = Who(T)
    <3>1. \A p \in Relevant(job, s) : Waiting(job, p)' <=> P < p
      BY <2>0, <2>1, <1>1, <1>4, <1>7
    <3>2. View(db', job, s) = View(Did(After[P - 1], job, T), job, s)
      <4>1. P - 1 \in 0 .. Len(batch)
        BY <1>1
      <4> QED BY <4>1, <2>1, <1>1, <1>2, <1>6, <1>7, <1>8, DidHere
    <3>3. View(After[P], job, s) = View(Did(After[P - 1], job, T), job, s)
      <4>1. P - 1 \in 0 .. Len(batch) /\ After[P] = Process(After[P - 1], T)
        BY <1>1, <1>6 DEF Serially
      <4> QED BY <4>1, <1>1, <1>6, ProcessViews
    <3>4. P \in 0 .. Len(batch)
      BY <1>1
    <3>5. View(db', job, s) = View(After'[P], job, s)
      BY <3>2, <3>3, <1>3
    <3> QED BY <3>1, <3>4, <3>5, <1>3 DEF CaughtUp
  <2>2. CASE job # mine \/ s # Who(T)
    <3>1. PICK q \in 0 .. Len(batch) :
             /\ \A p \in Relevant(job, s) : Waiting(job, p) <=> q < p
             /\ View(db, job, s) = View(After[q], job, s)
      BY <1>2, Zenon DEF CaughtUp
    <3>2. \A p \in Relevant(job, s) : Waiting(job, p)' <=> Waiting(job, p)
      <4>1. P \in Relevant(job, s) => s = Who(T)
        BY <1>1 DEF Relevant
      <4> QED BY <4>1, <1>4, <2>2
    <3>3. View(db', job, s) = View(db, job, s)
      BY <2>2, <1>1, <1>2, <1>8, DidElsewhere
    <3>4. View(db', job, s) = View(After'[q], job, s)
      BY <3>1, <3>3, <1>3
    <3> QED BY <3>1, <3>2, <3>4, <1>3 DEF CaughtUp
  <2> QED BY <2>1, <2>2
<1> QED
  BY <1>5, <1>9 DEF TablesLeft

(* A select adds what a serial execution finds; the others add nothing.     *)
LEMMA AnswersFollow ==
  ASSUME IInv, InStep, phase = "operations", NEW k \in Active, Done(k), committed' = committed,
         \/ /\ pool[k].job \in OperationJobs /\ Txn(k).type \in Readers
            /\ pool[k].job = ReaderJob(Txn(k))
            /\ answer' = Insert(answer, Position(k), Finds(db, Txn(k)))
         \/ /\ ~(Txn(k).type \in Readers /\ pool[k].job = ReaderJob(Txn(k)))
            /\ answer' = answer
  PROVE  AnswersSound'
<1> DEFINE mine == pool[k].job
           P == Position(k)
           T == Txn(k)
<1>1. /\ P \in 1 .. Len(batch) /\ T = batch[P]
      /\ AllRising(pool) /\ AnswersSound
  BY AtEntry DEF InStep
<1>2. batch' = batch /\ After' = After
  BY DEF Done, After
<1>3. \A job, p : Waiting(job, p)' <=> Waiting(job, p) /\ ~(job = mine /\ p = P)
  BY <1>1, StillWaiting
<1>4. DOMAIN answer = Answered /\ \A p \in Answered : answer[p] = Finds(After[p - 1], batch[p])
  BY <1>1 DEF AnswersSound
<1>5. \A p \in 1 .. Len(batch) :
         p \in Answered' <=> \/ p \in Answered
                             \/ p = P /\ T.type \in Readers /\ mine = ReaderJob(T)
  BY <1>1, <1>2, <1>3 DEF Answered
<1>6. Answered \subseteq 1 .. Len(batch) /\ Answered' \subseteq 1 .. Len(batch)
  BY <1>2 DEF Answered
<1>7. CASE /\ mine \in OperationJobs /\ T.type \in Readers /\ mine = ReaderJob(T)
           /\ answer' = Insert(answer, P, Finds(db, T))
  <2>1. View(db, mine, Who(T)) = View(After[P - 1], mine, Who(T))
    BY <1>7, AtItsTurn
  <2>2. Finds(db, T) = Finds(After[P - 1], T)
    BY <2>1, <1>7 DEF View, Finds, ReaderJob, Readers
  <2>3. Waiting(mine, P)
    BY <1>7, Operates
  <2> HIDE DEF mine, P, T
  <2>4. P \notin Answered
    BY <2>3, <1>1, <1>7 DEF Answered
  <2> DEFINE row == Finds(db, T)
  <2>5. answer' = Insert(answer, P, row)
    BY <1>7
  <2>6. row = Finds(After[P - 1], batch[P])
    BY <2>2, <1>1
  <2> HIDE DEF row
  <2>7. /\ DOMAIN answer' = DOMAIN answer \cup {P}
        /\ \A p \in DOMAIN answer' : answer'[p] = IF p \in DOMAIN answer THEN answer[p] ELSE row
    BY <2>5 DEF Insert
  <2>8. Answered' = Answered \cup {P}
    BY <1>1, <1>5, <1>6, <1>7
  <2>9. DOMAIN answer' = Answered'
    BY <2>7, <2>8, <1>4
  <2>10. ASSUME NEW p \in Answered' PROVE answer'[p] = Finds(After[p - 1], batch[p])
    BY <2>4, <2>6, <2>7, <2>8, <1>4
  <2> QED BY <2>9, <2>10, <1>2 DEF AnswersSound
<1>8. CASE ~(T.type \in Readers /\ mine = ReaderJob(T)) /\ answer' = answer
  <2>1. Answered' = Answered
    BY <1>5, <1>6, <1>8
  <2> QED BY <2>1, <1>2, <1>4, <1>8 DEF AnswersSound
<1> QED
  BY <1>7, <1>8

(* A step of an operation.                                                 *)
LEMMA OperationFollows ==
  ASSUME IInv, InStep, NEW k \in Active, Done(k), pool[k].job \in OperationJobs,
         db' = Did(db, pool[k].job, Txn(k)), committed' = committed,
         \/ /\ Txn(k).type \in Readers /\ pool[k].job = ReaderJob(Txn(k))
            /\ answer' = Insert(answer, Position(k), Finds(db, Txn(k)))
         \/ /\ ~(Txn(k).type \in Readers /\ pool[k].job = ReaderJob(Txn(k)))
            /\ answer' = answer
  PROVE  InStep'
<1>1. phase = "operations"
  BY Operates
<1>2. phase' = phase /\ AllRising(pool')
  BY IterationTakes DEF InStep
<1>3. /\ Shaped(db') /\ db'.answers = db.answers
      /\ \A job \in OperationJobs, s \in SubscriberIds : CaughtUp(job, s)'
  BY RowsFollow
<1>4. AnswersSound'
  BY <1>1, AnswersFollow
<1>5. Shaped(committed) /\ Logged(committed) /\ db.answers = committed.answers
  BY <1>1 DEF InStep
<1> QED
  BY <1>1, <1>2, <1>3, <1>4, <1>5 DEF InStep

(* The lookups and the gad tasks change no rows.                           *)
LEMMA OthersFollow ==
  ASSUME IInv, InStep, NEW k \in Active, Done(k), pool[k].job \notin OperationJobs,
         db' = db, answer' = answer, committed' = committed
  PROVE  InStep'
<1>1. phase' = phase /\ AllRising(pool') /\ batch' = batch
  BY IterationTakes DEF InStep
<1>2. Shaped(committed) /\ Logged(committed) /\ Shaped(db)
  BY DEF InStep
<1>3. CASE phase # "operations"
  BY <1>1, <1>2, <1>3 DEF InStep
<1>4. CASE phase = "operations"
  <2>1. pool[k].job = "gad" /\ Txn(k).type = "GET_ACCESS_DATA"
    <3>1. pool[k].job \in {"gad"} \cup OperationJobs /\ Txn(k).type \in TypesOf[pool[k].job]
      BY <1>4, AtEntry DEF JobsIn
    <3> QED BY <3>1 DEF TypesOf
  <2>2. AnswersSound'
    BY <2>1, <1>4, AnswersFollow DEF Readers
  <2>3. After' = After /\ \A job, s : Relevant(job, s)' = Relevant(job, s)
    BY <1>1 DEF After, Relevant
  <2>4. \A job \in OperationJobs : \A p : Waiting(job, p)' <=> Waiting(job, p)
    BY StillWaiting DEF InStep
  <2>5. \A job \in OperationJobs, s \in SubscriberIds : CaughtUp(job, s)'
    <3> TAKE job \in OperationJobs, s \in SubscriberIds
    <3>1. CaughtUp(job, s)
      BY <1>4 DEF InStep
    <3> QED BY <3>1, <2>3, <2>4, <1>1 DEF CaughtUp
  <2>6. db.answers = committed.answers
    BY <1>4 DEF InStep
  <2> QED BY <1>1, <1>2, <1>4, <2>2, <2>5, <2>6 DEF InStep
<1> QED
  BY <1>3, <1>4

(* Any iteration of any task.                                              *)
LEMMA WorkFollows ==
  ASSUME IInv, InStep, NEW k, Work(k)
  PROVE  InStep'
<1>0. k \in Active /\ Done(k) /\ committed' = committed
  BY DEF Work, Lookup, AccessInfo, Forwarding, SelectSubscriber, UpdateSubscriber,
         SelectFacility, UpdateFacility, Iteration
<1>j. {"dcf_icf", "gsd_ul_usd", "icf_usd"} \subseteq OperationJobs
  BY DEF OperationJobs
<1>k. pool[k].job \in OperationJobs =>
         /\ Position(k) \in 1 .. Len(batch) /\ Txn(k) = batch[Position(k)]
         /\ SubscriberOf(Position(k)) = Who(Txn(k)) /\ Txn(k) \in Queued
  BY <1>0, Operates
<1>n. /\ pool[k].job \in OperationJobs /\ Txn(k).type \in ByNumber => s_ids[Position(k)] = Who(Txn(k))
      /\ pool[k].job \in OperationJobs /\ Txn(k).type \in ById => Txn(k).s_id = Who(Txn(k))
  BY <1>k, WhoIs DEF SubscriberOf
<1>1. CASE Lookup(k)
  BY <1>0, <1>1, OthersFollow DEF Lookup, Iteration, OperationJobs
<1>2. CASE AccessInfo(k)
  BY <1>0, <1>2, OthersFollow DEF AccessInfo, Iteration, OperationJobs
<1>3. CASE Forwarding(k)
  <2>1. pool[k].job = "dcf_icf" /\ answer' = answer
    BY <1>3 DEF Forwarding, Iteration
  <2>2. \/ Txn(k).type = "DELETE_CALL_FORWARDING" /\ db' = DeleteForwarding(db, Txn(k), s_ids[Position(k)])
        \/ Txn(k).type = "INSERT_CALL_FORWARDING" /\ db' = InsertForwarding(db, Txn(k), s_ids[Position(k)])
    BY <1>3 DEF Forwarding
  <2>3. s_ids[Position(k)] = Who(Txn(k))
    BY <2>1, <2>2, <1>j, <1>n DEF ByNumber
  <2>4. db' = Did(db, pool[k].job, Txn(k))
    BY <2>1, <2>2, <2>3 DEF Did
  <2>5. pool[k].job # ReaderJob(Txn(k))
    BY <2>1 DEF ReaderJob
  <2> QED BY <2>1, <2>4, <2>5, <1>0, <1>j, OperationFollows
<1>4. CASE SelectSubscriber(k)
  <2>1. /\ pool[k].job = "gsd_ul_usd" /\ Txn(k).type = "GET_SUBSCRIBER_DATA" /\ db' = db
        /\ answer' = Insert(answer, Position(k), SubscriberRow(db, Txn(k).s_id))
    BY <1>4 DEF SelectSubscriber, Iteration
  <2>2. Finds(db, Txn(k)) = SubscriberRow(db, Txn(k).s_id)
    BY <2>1, <1>j, <1>n DEF Finds, ById
  <2>3. db' = Did(db, pool[k].job, Txn(k))
    BY <2>1 DEF Did
  <2>4. Txn(k).type \in Readers /\ pool[k].job = ReaderJob(Txn(k))
    BY <2>1 DEF Readers, ReaderJob
  <2> QED BY <2>1, <2>2, <2>3, <2>4, <1>0, <1>j, OperationFollows
<1>5. CASE UpdateSubscriber(k)
  <2>1. pool[k].job = "gsd_ul_usd" /\ answer' = answer
    BY <1>5 DEF UpdateSubscriber, Iteration
  <2>2. \/ Txn(k).type = "UPDATE_LOCATION" /\ db' = UpdateVlr(db, Txn(k), s_ids[Position(k)])
        \/ Txn(k).type = "UPDATE_SUBSCRIBER_DATA" /\ db' = UpdateBit1(db, Txn(k))
    BY <1>5 DEF UpdateSubscriber
  <2>3. Txn(k).type = "UPDATE_LOCATION" => s_ids[Position(k)] = Who(Txn(k))
    BY <2>1, <1>j, <1>n DEF ByNumber
  <2>4. db' = Did(db, pool[k].job, Txn(k))
    BY <2>1, <2>2, <2>3 DEF Did
  <2>5. Txn(k).type \notin Readers
    BY <2>2 DEF Readers
  <2> QED BY <2>1, <2>4, <2>5, <1>0, <1>j, OperationFollows
<1>6. CASE SelectFacility(k)
  <2>1. /\ pool[k].job = "icf_usd" /\ Txn(k).type = "INSERT_CALL_FORWARDING" /\ db' = db
        /\ answer' = Insert(answer, Position(k), FacilityRows(db, s_ids[Position(k)]))
    BY <1>6 DEF SelectFacility, Iteration
  <2>2. Finds(db, Txn(k)) = FacilityRows(db, s_ids[Position(k)])
    BY <2>1, <1>j, <1>n DEF Finds, ByNumber
  <2>3. db' = Did(db, pool[k].job, Txn(k))
    BY <2>1 DEF Did
  <2>4. Txn(k).type \in Readers /\ pool[k].job = ReaderJob(Txn(k))
    BY <2>1 DEF Readers, ReaderJob
  <2> QED BY <2>1, <2>2, <2>3, <2>4, <1>0, <1>j, OperationFollows
<1>7. CASE UpdateFacility(k)
  <2>1. /\ pool[k].job = "icf_usd" /\ answer' = answer
        /\ Txn(k).type = "UPDATE_SUBSCRIBER_DATA" /\ db' = UpdateDataA(db, Txn(k))
    BY <1>7 DEF UpdateFacility, Iteration
  <2>2. db' = Did(db, pool[k].job, Txn(k))
    BY <2>1 DEF Did
  <2>3. Txn(k).type \notin Readers
    BY <2>1 DEF Readers
  <2> QED BY <2>1, <2>2, <2>3, <1>0, <1>j, OperationFollows
<1> QED
  BY <1>1, <1>2, <1>3, <1>4, <1>5, <1>6, <1>7 DEF Work

-----------------------------------------------------------------------------
(* A batch is dealt in its order.                                          *)
LEMMA BucketsRising ==
  ASSUME QueueSound, NEW t \in Buckets
  PROVE  /\ \A type : Rising(Stride(type)[t])
         /\ \A types : Rising(BySubscriber(types)[t])
<1>1. Len(batch) \in Nat /\ DOMAIN batch = 1 .. Len(batch)
      /\ \A type : Of(type) \subseteq 1 .. Len(batch)
  BY Positions
<1>2. ASSUME NEW type PROVE Rising(Stride(type)[t])
  <2> DEFINE entries == [p \in DOMAIN batch |-> IF p \in Of(type) THEN Once(p) ELSE <<>>]
             bucket == [e \in Entries |-> Index(e[1]) % Parallelism]
  <2>1. Stride(type)[t] = Dealt(Len(batch), entries, bucket, t)
    BY DEF Stride, Deal
  <2>2. \A p \in 1 .. Len(batch) : entries[p] = IF p \in Of(type) THEN Once(p) ELSE <<>>
    BY <1>1
  <2> HIDE DEF entries, bucket
  <2>3. Rising(Dealt(Len(batch), entries, bucket, t))
    BY <1>1, <2>2, DealtRising
  <2> QED BY <2>1, <2>3
<1>3. ASSUME NEW types PROVE Rising(BySubscriber(types)[t])
  <2> DEFINE entries == [p \in DOMAIN batch |-> IF batch[p].type \in types THEN Once(p) ELSE <<>>]
             bucket == [e \in Entries |-> SubscriberBucket(e[1])]
  <2>1. BySubscriber(types)[t] = Dealt(Len(batch), entries, bucket, t)
    BY DEF BySubscriber, Deal
  <2>2. \A p \in 1 .. Len(batch) : entries[p] = IF p \in OfTypes(types) THEN Once(p) ELSE <<>>
    BY <1>1 DEF OfTypes
  <2>3. OfTypes(types) \subseteq 1 .. Len(batch)
    BY DEF OfTypes
  <2> HIDE DEF entries, bucket
  <2>4. Rising(Dealt(Len(batch), entries, bucket, t))
    BY <1>1, <2>2, <2>3, DealtRising
  <2> QED BY <2>1, <2>4
<1> QED
  BY <1>2, <1>3

(* So are the tasks of a job.                                              *)
LEMMA TasksInOrder ==
  ASSUME NEW job \in Jobs, NEW buckets,
         \A c \in Buckets : buckets[c] \in Seq(Entries) /\ Rising(buckets[c])
  PROVE  AllRising(Tasks(job, buckets)) /\ Tasks(job, buckets) \in WorkLists(Jobs, Entries)
<1> DEFINE seqs == [t \in 1 .. Parallelism |-> Task(job, buckets[t - 1])]
           tasks == Joined(Parallelism, seqs)
<1>1. Tasks(job, buckets) = tasks
  BY DEF Tasks
<1>2. \A t \in 1 .. Parallelism : seqs[t] = IF buckets[t - 1] = <<>> THEN <<>>
                                            ELSE << [job |-> job, work |-> buckets[t - 1]] >>
  BY DEF Task
<1>3. tasks = Joined(Parallelism, seqs)
  OBVIOUS
<1>4. /\ Parallelism \in Nat
      /\ \A c \in 0 .. Parallelism - 1 : buckets[c] \in Seq(Entries) /\ Rising(buckets[c])
  BY Constants
<1> HIDE DEF seqs, tasks
<1>5. AllRising(tasks)
  BY <1>2, <1>3, <1>4, TasksRising, Zenon
<1>6. tasks \in WorkLists(Jobs, Entries)
  BY TasksHold, <1>1
<1> QED
  BY <1>1, <1>5, <1>6

(* The tasks of both phases.                                               *)
LEMMA JobsInOrder ==
  ASSUME QueueSound, NEW job \in Jobs
  PROVE  /\ \A type : /\ AllRising(Tasks(job, Stride(type)))
                      /\ Tasks(job, Stride(type)) \in WorkLists(Jobs, Entries)
         /\ \A types : /\ AllRising(Tasks(job, BySubscriber(types)))
                       /\ Tasks(job, BySubscriber(types)) \in WorkLists(Jobs, Entries)
BY BucketsRising, StrideHolds, BySubscriberHolds, TasksInOrder

(* A task is enqueued behind others.                                       *)
Ordered(lists) == AllRising(lists) /\ lists \in WorkLists(Jobs, Entries)

(* Several of them are in order when each of them is.                      *)
LEMMA BehindInOrder ==
  ASSUME NEW s, Ordered(s), NEW t, Ordered(t)
  PROVE  Ordered(s \o t)
BY EnqueuedRising, WorkEnqueued DEF Ordered

(* The lookups start with the rows as they were.                           *)
LEMMA EnqueueLookupsFollows ==
  ASSUME IInv, InStep, EnqueueLookups
  PROVE  InStep'
<1> DEFINE t1 == Tasks("dcf_sid", Stride("DELETE_CALL_FORWARDING"))
           t2 == Tasks("icf_sid", Stride("INSERT_CALL_FORWARDING"))
           t3 == Tasks("ul_sid", Stride("UPDATE_LOCATION"))
           t4 == Tasks("gad", Stride("GET_ACCESS_DATA"))
<1>1. Ordered(t1) /\ Ordered(t2) /\ Ordered(t3) /\ Ordered(t4)
  <2>1. {"dcf_sid", "icf_sid", "ul_sid", "gad"} \subseteq Jobs
    BY DEF Jobs, LookupJobs
  <2> QED BY <2>1, JobsInOrder DEF Ordered, IInv
<1>2. /\ phase = "full" /\ phase' = "lookups" /\ pool' = pool \o (((t1 \o t2) \o t3) \o t4)
      /\ db' = db /\ answer' = answer /\ committed' = committed
  BY DEF EnqueueLookups, Enqueue
<1>3. Ordered(pool)
  BY DEF Ordered, InStep, IInv, PhaseSound, WorkSound
<1> HIDE DEF t1, t2, t3, t4
<1>4. Ordered(((t1 \o t2) \o t3) \o t4)
  BY <1>1, BehindInOrder
<1>5. Ordered(pool')
  BY <1>2, <1>3, <1>4, BehindInOrder
<1> QED
  BY <1>2, <1>5 DEF InStep, Ordered

(* When the lookups are waited for, all subscribers are known.             *)
LEMMA AllLookedUp ==
  ASSUME IInv, phase = "lookups", Waited(LookupJobs)
  PROVE  \A p \in 1 .. Len(batch) : batch[p].type # "ENDEXECUTION" =>
            SubscriberOf(p) = Who(batch[p]) /\ Who(batch[p]) \in SubscriberIds
<1>1. \A x \in Pending(pool) : x[1] \notin LookupJobs
  BY WaitedFor DEF IInv, PhaseSound, WorkSound
<1>2. ASSUME NEW p \in Named PROVE s_ids[p] = IdOf(batch[p].sub_nbr)
  <2>1. \A job \in LookupJobs : <<job, <<p, None>>>> \notin Pending(pool)
    BY <1>1
  <2> QED BY <2>1 DEF IInv, LookedUp
<1>3. ASSUME NEW p \in 1 .. Len(batch), batch[p].type # "ENDEXECUTION"
      PROVE  SubscriberOf(p) = Who(batch[p]) /\ Who(batch[p]) \in SubscriberIds
  <2>1. Who(batch[p]) \in SubscriberIds
    BY <1>3, Positions, WhoIs DEF IInv
  <2> QED BY <2>1, <1>2 DEF SubscriberOf, Who, Named
<1> QED
  BY <1>3

(* Every transaction of an operation gets an entry.                        *)
LEMMA OperationsEnqueued ==
  ASSUME QueueSound, NEW job \in OperationJobs,
         \A p \in 1 .. Len(batch) : batch[p].type # "ENDEXECUTION" =>
            SubscriberOf(p) = Who(batch[p]) /\ Who(batch[p]) \in SubscriberIds
  PROVE  \A p \in OfTypes(TypesOf[job]) :
            <<job, <<p, None>>>> \in Pending(Tasks(job, BySubscriber(TypesOf[job])))
<1> DEFINE types == TypesOf[job]
           lists == Tasks(job, BySubscriber(types))
<1>1. job \in Jobs
  BY DEF Jobs
<1>2. "ENDEXECUTION" \notin types
  BY <1>1, TypesWork
<1> HIDE DEF types
<1>3. HoldBuckets(lists, job, Parallelism, BySubscriber(types))
  BY <1>1, BySubscriberHolds, TasksHold
<1>4. \A t \in Buckets : Range(BySubscriber(types)[t]) =
         {e \in Entries : e[1] \in OfTypes(types) /\ e[2] = None /\ SubscriberBucket(e[1]) = t}
  BY BySubscriberHolds
<1>5. Pending(lists) = {job} \X UNION {Range(BySubscriber(types)[c]) : c \in Buckets}
  BY <1>3, Constants DEF HoldBuckets
<1> HIDE DEF lists
<1>6. ASSUME NEW p \in OfTypes(types) PROVE <<job, <<p, None>>>> \in Pending(lists)
  <2>1. p \in 1 .. Len(batch) /\ Len(batch) \in Nat /\ SubscriberOf(p) \in SubscriberIds
    BY <1>2, Positions DEF OfTypes
  <2>2. <<p, None>> \in Entries
    BY <2>1 DEF Entries, None
  <2>3. SubscriberBucket(p) \in Buckets
    <3>1. SubscriberOf(p) \in 0 .. Subscribers
      BY <2>1, TatpAssumption DEF SubscriberIds
    <3>2. HashInt[SubscriberOf(p)] \in Nat
      BY <3>1, HashAssumption
    <3> QED BY <3>2, Constants DEF SubscriberBucket
  <2>4. <<p, None>> \in Range(BySubscriber(types)[SubscriberBucket(p)])
    BY <2>2, <2>3, <1>4
  <2> QED BY <2>3, <2>4, <1>5
<1> QED
  BY <1>6 DEF lists, types

(* The operations start with the rows as they were and all entries to come. *)
LEMMA EnqueueOperationsFollows ==
  ASSUME IInv, InStep, EnqueueOperations
  PROVE  InStep'
<1> DEFINE t1 == Tasks("dcf_icf", BySubscriber(TypesOf["dcf_icf"]))
           t2 == Tasks("gsd_ul_usd", BySubscriber(TypesOf["gsd_ul_usd"]))
           t3 == Tasks("icf_usd", BySubscriber(TypesOf["icf_usd"]))
<1>0. QueueSound
  BY DEF IInv
<1>1. Ordered(t1) /\ Ordered(t2) /\ Ordered(t3)
  <2>1. {"dcf_icf", "gsd_ul_usd", "icf_usd"} \subseteq Jobs
    BY DEF Jobs, OperationJobs
  <2> QED BY <1>0, <2>1, JobsInOrder DEF Ordered
<1>2. /\ phase = "lookups" /\ phase' = "operations" /\ Waited(LookupJobs)
      /\ db' = db /\ answer' = answer /\ committed' = committed /\ batch' = batch
  BY DEF EnqueueOperations, LookupJobs
<1>3. pool' = pool \o ((t1 \o t2) \o t3)
  <2>1. /\ ForwardingBuckets = BySubscriber(TypesOf["dcf_icf"])
        /\ SubscriberRowBuckets = BySubscriber(TypesOf["gsd_ul_usd"])
        /\ FacilityBuckets = BySubscriber(TypesOf["icf_usd"])
    BY DEF ForwardingBuckets, SubscriberRowBuckets, FacilityBuckets, TypesOf
  <2> QED BY <2>1 DEF EnqueueOperations, Enqueue
<1>4. Ordered(pool)
  BY DEF Ordered, InStep, IInv, PhaseSound, WorkSound
<1>5. \A p \in 1 .. Len(batch) : batch[p].type # "ENDEXECUTION" =>
            SubscriberOf(p) = Who(batch[p]) /\ Who(batch[p]) \in SubscriberIds
  BY <1>2, AllLookedUp
<1>6. /\ \A p \in OfTypes(TypesOf["dcf_icf"]) : <<"dcf_icf", <<p, None>>>> \in Pending(t1)
      /\ \A p \in OfTypes(TypesOf["gsd_ul_usd"]) : <<"gsd_ul_usd", <<p, None>>>> \in Pending(t2)
      /\ \A p \in OfTypes(TypesOf["icf_usd"]) : <<"icf_usd", <<p, None>>>> \in Pending(t3)
  <2>1. {"dcf_icf", "gsd_ul_usd", "icf_usd"} \subseteq OperationJobs
    BY DEF OperationJobs
  <2> QED BY <2>1, <1>0, <1>5, OperationsEnqueued
<1> HIDE DEF t1, t2, t3
<1>7. Ordered(t1 \o t2) /\ Ordered((t1 \o t2) \o t3) /\ Ordered(pool')
  BY <1>1, <1>3, <1>4, BehindInOrder
<1>8. Pending(t1) \subseteq Pending(pool') /\ Pending(t2) \subseteq Pending(pool')
      /\ Pending(t3) \subseteq Pending(pool')
  <2>1. Pending(t1 \o t2) = Pending(t1) \cup Pending(t2)
    BY <1>1, PendingEnqueued DEF Ordered
  <2>2. Pending((t1 \o t2) \o t3) = Pending(t1 \o t2) \cup Pending(t3)
    BY <1>1, <1>7, PendingEnqueued DEF Ordered
  <2>3. Pending(pool') = Pending(pool) \cup Pending((t1 \o t2) \o t3)
    BY <1>3, <1>4, <1>7, PendingEnqueued DEF Ordered
  <2> QED BY <2>1, <2>2, <2>3
<1>9. \A job \in OperationJobs : \A p \in OfTypes(TypesOf[job]) : Waiting(job, p)'
  BY <1>6, <1>8 DEF OperationJobs, Waiting
<1>10. Shaped(committed) /\ Logged(committed) /\ db = committed /\ answer = <<>>
  BY <1>2 DEF InStep
<1>11. After' = After /\ After[0] = committed
  <2>1. Serially(Len(batch), batch, committed, After)
    BY <1>0, <1>10, AfterIs
  <2> QED BY <2>1, <1>2 DEF Serially, After
<1>12. \A job \in OperationJobs, s \in SubscriberIds : CaughtUp(job, s)'
  <2> TAKE job \in OperationJobs, s \in SubscriberIds
  <2>1. Relevant(job, s)' = Relevant(job, s) /\ Len(batch) \in Nat
    BY <1>0, <1>2, Positions DEF Relevant
  <2>2. \A p \in Relevant(job, s) : 0 < p /\ Waiting(job, p)'
    BY <1>9, <2>1 DEF Relevant, OfTypes
  <2>3. View(db', job, s) = View(After'[0], job, s)
    BY <1>2, <1>10, <1>11
  <2>4. 0 \in 0 .. Len(batch')
    BY <2>1, <1>2
  <2> QED BY <2>1, <2>2, <2>3, <2>4 DEF CaughtUp
<1>13. AnswersSound'
  <2>1. \A p \in 1 .. Len(batch) : batch[p].type \in Readers => Waiting(ReaderJob(batch[p]), p)'
    <3> TAKE p \in 1 .. Len(batch)
    <3>1. CASE batch[p].type = "GET_SUBSCRIBER_DATA"
      <4>1. p \in OfTypes(TypesOf["gsd_ul_usd"]) /\ "gsd_ul_usd" \in OperationJobs
        BY <3>1 DEF OfTypes, TypesOf, OperationJobs
      <4> QED BY <4>1, <3>1, <1>2, <1>9 DEF ReaderJob
    <3>2. CASE batch[p].type = "INSERT_CALL_FORWARDING"
      <4>1. p \in OfTypes(TypesOf["icf_usd"]) /\ "icf_usd" \in OperationJobs
        BY <3>2 DEF OfTypes, TypesOf, OperationJobs
      <4> QED BY <4>1, <3>2, <1>2, <1>9 DEF ReaderJob
    <3> QED BY <3>1, <3>2 DEF Readers
  <2>2. Answered' = {}
    BY <2>1, <1>2 DEF Answered
  <2> QED BY <2>2, <1>2, <1>10 DEF AnswersSound
<1> QED
  BY <1>2, <1>7, <1>10, <1>12, <1>13 DEF InStep, Ordered

(* When the operations are done, all of the batch is: clearBatch leaves what *)
(* a serial execution of it leaves.                                        *)
LEMMA ClearBatchFollows ==
  ASSUME IInv, InStep, ClearBatch
  PROVE  /\ InStep'
         /\ committed' = FoldLeft(Process, committed, batch)
         /\ batch = <<>> => committed' = committed
<1> DEFINE n == Len(batch)
<1>0. /\ QueueSound /\ n \in Nat /\ DOMAIN batch = 1 .. n
      /\ \A p \in 1 .. n : batch[p] \in Queued
  BY Positions DEF IInv
<1>1. /\ phase = "operations" /\ Waited({"gad"} \cup OperationJobs)
      /\ phase' \in {"stopped", "collect"} /\ pool' = pool
      /\ db' = [db EXCEPT !.answers = @ \o AnswersInOrder]
      /\ committed' = db' /\ answer' = <<>>
  BY DEF ClearBatch, Clear, ForgetBatch, OperationJobs, Waited
<1>2. /\ Shaped(committed) /\ Logged(committed) /\ Shaped(db) /\ AllRising(pool)
      /\ db.answers = committed.answers /\ AnswersSound
      /\ \A job \in OperationJobs, s \in SubscriberIds : CaughtUp(job, s)
  BY <1>1 DEF InStep
<1>3. /\ Serially(n, batch, committed, After)
      /\ \A i \in 0 .. n : Shaped(After[i])
  BY <1>0, <1>2, AfterIs
<1>4. \A job \in OperationJobs : \A p : ~Waiting(job, p)
  <2>1. \A x \in Pending(pool) : x[1] \notin {"gad"} \cup OperationJobs
    BY <1>1, WaitedFor DEF IInv, PhaseSound, WorkSound
  <2> QED BY <2>1 DEF Waiting
<1>5. ASSUME NEW job \in OperationJobs, NEW s \in SubscriberIds
      PROVE  View(db, job, s) = View(After[n], job, s)
  <2>1. PICK q \in 0 .. n :
           /\ \A p \in Relevant(job, s) : Waiting(job, p) <=> q < p
           /\ View(db, job, s) = View(After[q], job, s)
    BY <1>2, Zenon DEF CaughtUp
  <2>2. \A p \in q + 1 .. n : p \notin Relevant(job, s)
    <3> TAKE p \in q + 1 .. n
    <3>1. q < p
      BY <1>0
    <3> QED BY <3>1, <2>1, <1>4
  <2>3. NoneFor(batch, q, n, job, s)
    <3>1. \A p \in q + 1 .. n : p \in 1 .. n
      BY <1>0
    <3> QED BY <2>2, <3>1 DEF NoneFor, Relevant
  <2>4. n \in q .. n
    BY <1>0
  <2> HIDE DEF n
  <2>5. View(After[n], job, s) = View(After[q], job, s)
    BY <1>0, <1>2, <1>3, <2>3, <2>4, ViewsWait
  <2> QED BY <2>1, <2>5
<1>6. AnswersInOrder = Joined(n, Found(n, batch, After))
  <2> DEFINE mine(p) == IF p \in DOMAIN answer THEN <<answer[p]>> ELSE <<>>
             serial(p) == IF batch[p].type \in Readers THEN <<Finds(After[p - 1], batch[p])>> ELSE <<>>
  <2>1. ASSUME NEW p \in 1 .. n PROVE mine(p) = serial(p)
    <3>1. ReaderJob(batch[p]) \in OperationJobs
      BY DEF ReaderJob, OperationJobs
    <3>2. p \in Answered <=> batch[p].type \in Readers
      BY <3>1, <1>4 DEF Answered
    <3>3. p \in Answered <=> p \in DOMAIN answer
      BY <1>2 DEF AnswersSound
    <3>4. p \in Answered => answer[p] = Finds(After[p - 1], batch[p])
      BY <1>2 DEF AnswersSound
    <3> QED BY <3>2, <3>3, <3>4
  <2>2. AnswersInOrder = Joined(n, [p \in 1 .. n |-> mine(p)])
    BY DEF AnswersInOrder
  <2>3. Found(n, batch, After) = [p \in 1 .. n |-> serial(p)]
    BY DEF Found
  <2> HIDE DEF mine, serial
  <2>4. [p \in 1 .. n |-> mine(p)] = [p \in 1 .. n |-> serial(p)]
    BY <2>1
  <2> QED BY <2>2, <2>3, <2>4
<1> HIDE DEF n
<1>7. /\ After[n].answers = committed.answers \o Joined(n, Found(n, batch, After))
      /\ Logged(After[n])
  BY <1>0, <1>2, <1>3, SerialAnswers
<1> DEFINE log == db.answers \o AnswersInOrder
<1>8. log = After[n].answers
  BY <1>2, <1>6, <1>7
<1>9. db' = [db EXCEPT !.answers = log]
  BY <1>1
<1> HIDE DEF log
<1>10. /\ DOMAIN db = {"sub", "facility", "forward", "answers"} /\ RowsOf(db)
       /\ db = [sub |-> db.sub, facility |-> db.facility, forward |-> db.forward, answers |-> db.answers]
       /\ IsFcn(db.sub) /\ IsFcn(db.facility) /\ IsFcn(db.forward)
       /\ \A k \in DOMAIN db.facility \cup DOMAIN db.forward : k[1] \in SubscriberIds
  BY <1>2 DEF Shaped, RowsOf
<1>11. /\ db'.sub = db.sub /\ db'.facility = db.facility /\ db'.forward = db.forward
       /\ db'.answers = log
       /\ DOMAIN db' = {"sub", "facility", "forward", "answers"}
       /\ db' = [sub |-> db'.sub, facility |-> db'.facility, forward |-> db'.forward, answers |-> db'.answers]
  BY <1>9, <1>10
<1>12. Shaped(db')
  <2>1. RowsOf(db')
    BY <1>10, <1>11 DEF RowsOf
  <2> QED BY <2>1, <1>10, <1>11 DEF Shaped
<1>13. \A job \in OperationJobs, s \in SubscriberIds : View(db', job, s) = View(After[n], job, s)
  <2> TAKE job \in OperationJobs, s \in SubscriberIds
  <2>1. Table(db', job) = Table(db, job)
    BY <1>11 DEF Table
  <2>2. View(db', job, s) = View(db, job, s)
    BY <2>1, SameTable
  <2> QED BY <2>2, <1>5
<1>14. db' = After[n]
  <2>1. Shaped(After[n])
    BY <1>0, <1>3
  <2> QED BY <2>1, <1>8, <1>11, <1>12, <1>13, SameViews
<1>15. committed' = FoldLeft(Process, committed, batch)
  BY <1>1, <1>3, <1>14 DEF Serially
<1>16. batch = <<>> => committed' = committed
  <2>1. batch = <<>> => n = 0
    BY DEF n
  <2> QED BY <2>1, <1>1, <1>3, <1>14 DEF Serially
<1>17. InStep'
  BY <1>1, <1>2, <1>7, <1>12, <1>14 DEF InStep
<1> QED
  BY <1>15, <1>16, <1>17

(* Before the first batch.                                                 *)
LEMMA InitInStep ==
  ASSUME Init
  PROVE  InStep
<1>1. PICK f \in Facilities, c \in Forwardings :
         db = [sub      |-> [s \in SubscriberIds |-> NewSubscriber(s)],
               facility |-> [k \in f |-> 0],
               forward  |-> [k \in c |-> 0],
               answers  |-> <<>>]
  BY DEF Init, Populations
<1>2. phase = "collect" /\ pool = <<>> /\ answer = <<>> /\ committed = db
  BY DEF Init, BatchInit
<1>3. RowsOf(db)
  BY InitSound DEF IInv, RowsSound
<1>4. \A k \in f \cup c : k[1] \in SubscriberIds
  BY TatpAssumption DEF SubscriberIds
<1>5. Shaped(db)
  BY <1>1, <1>3, <1>4 DEF Shaped, IsFcn
<1>6. Logged(db)
  <2>1. db.answers = <<>> /\ <<>> \in Seq({})
    BY <1>1
  <2> QED BY <2>1 DEF Logged
<1>7. AllRising(<<>>)
  BY DEF AllRising
<1> QED
  BY <1>2, <1>5, <1>6, <1>7 DEF InStep

(* A step of the main thread or of a task, or none.                        *)
LEMMA StepFollows ==
  ASSUME IInv, InStep, Main \/ (\E k : Work(k)) \/ UNCHANGED vars
  PROVE  InStep'
<1>1. CASE Collect
  BY <1>1 DEF InStep, Collect, TakeTxn
<1>2. CASE UNCHANGED vars
  <2>1. /\ queue' = queue /\ batch' = batch /\ phase' = phase /\ pool' = pool
        /\ db' = db /\ s_ids' = s_ids /\ answer' = answer /\ committed' = committed
    BY <1>2 DEF vars
  <2>2. /\ After' = After /\ \A job, s : Relevant(job, s)' = Relevant(job, s)
        /\ \A job, p : Waiting(job, p)' <=> Waiting(job, p)
    BY <2>1 DEF After, Relevant, Waiting
  <2>3. Answered' = Answered
    BY <2>1 DEF Answered, Waiting
  <2>4. AnswersSound => AnswersSound'
    BY <2>1, <2>2, <2>3 DEF AnswersSound
  <2>5. ASSUME NEW job \in OperationJobs, NEW s \in SubscriberIds, CaughtUp(job, s)
        PROVE  CaughtUp(job, s)'
    BY <2>1, <2>2, <2>5 DEF CaughtUp
  <2> QED BY <2>1, <2>4, <2>5 DEF InStep
<1> QED
  BY <1>1, <1>2, EnqueueLookupsFollows, EnqueueOperationsFollows, ClearBatchFollows, WorkFollows
  DEF Main

-----------------------------------------------------------------------------
(* Taking a transaction from the queue into the batch moves it.            *)
LEMMA TakenMoves ==
  ASSUME NEW S, NEW b \in Seq(S), NEW q \in Seq(S), q # <<>>
  PROVE  Append(b, Head(q)) \o Tail(q) = b \o q
<1> DEFINE x == Head(q)
           t == Tail(q)
<1>1. x \in S /\ t \in Seq(S) /\ q = <<x>> \o t
  BY HeadTailProperties
<1> HIDE DEF x, t
<1>2. <<x>> \in Seq(S)
  BY <1>1
<1> DEFINE one == <<x>>
<1>3. one \in Seq(S)
  BY <1>2
<1>4. Append(b, x) = b \o one
  BY <1>1, AppendIsConcat
<1> HIDE DEF one
<1>5. (b \o one) \o t = b \o (one \o t)
  BY <1>1, <1>3, ConcatAssociative, SMTT(40)
<1> QED
  BY <1>1, <1>4, <1>5 DEF x, t, one

(* The batch is in front of what is pending.                               *)
LEMMA BatchInFront ==
  ASSUME NEW S, NEW b \in Seq(S), NEW q \in Seq(S)
  PROVE  /\ SubSeq(b \o q, 1, Len(b)) = b
         /\ SubSeq(b \o q, Len(b) + 1, Len(b \o q)) = q
         /\ Len(b) \in Nat /\ Len(b) <= Len(b \o q)
         /\ <<>> \o q = q
<1>1. Len(b) \in Nat /\ Len(q) \in Nat /\ Len(b \o q) = Len(b) + Len(q)
  BY LenProperties, ConcatProperties
<1>2. SubSeq(b \o q, 1, Len(b)) = b /\ SubSeq(b \o q, Len(b) + 1, Len(b \o q)) = q
  BY SubSeqOfConcat1, SubSeqOfConcat2, ConcatProperties, SubSeqFull, <1>1
<1> QED
  BY <1>1, <1>2, ConcatEmptySeq

(* The instance's fold is the same.                                        *)
LEMMA SameFold ==
  ASSUME NEW txns, NEW base
  PROVE  Promise!FoldLeft(Process, base, txns) = FoldLeft(Process, base, txns)
BY Zenon DEF FoldLeft, Promise!FoldLeft, MapThenFoldSet, Promise!MapThenFoldSet, Max, Promise!Max

(* A batch that is cleared executes its transactions, everything else does  *)
(* not show.                                                               *)
LEMMA StepExecutes ==
  ASSUME IInv, InStep, Main \/ (\E k : Work(k)) \/ UNCHANGED vars
  PROVE  [Promise!Execute]_<<batch \o queue, committed>>
<1>0. batch \in Seq(Queued) /\ queue \in Seq(Queued)
  BY DEF IInv, QueueSound
<1>1. CASE Collect
  <2>1. /\ queue # <<>> /\ batch' = Append(batch, Head(queue)) /\ queue' = Tail(queue)
        /\ committed' = committed
    BY <1>1 DEF Collect, TakeTxn
  <2>2. batch' \o queue' = batch \o queue
    BY <1>0, <2>1, TakenMoves
  <2> QED BY <2>1, <2>2
<1>2. CASE ClearBatch
  <2>1. batch' = <<>> /\ queue' = queue
    BY <1>2 DEF ClearBatch, Clear
  <2>2. /\ committed' = FoldLeft(Process, committed, batch)
        /\ batch = <<>> => committed' = committed
    BY <1>2, ClearBatchFollows
  <2>3. /\ SubSeq(batch \o queue, 1, Len(batch)) = batch
        /\ SubSeq(batch \o queue, Len(batch) + 1, Len(batch \o queue)) = queue
        /\ Len(batch) \in Nat /\ Len(batch) <= Len(batch \o queue)
        /\ <<>> \o queue = queue
    BY <1>0, BatchInFront
  <2>4. CASE batch = <<>>
    BY <2>1, <2>2, <2>4
  <2>5. CASE batch # <<>>
    <3>1. Len(batch) \in 1 .. Len(batch \o queue)
      <4>1. Len(batch) # 0
        BY <2>5, <1>0
      <4> QED BY <4>1, <2>3, <1>0, ConcatProperties, LenProperties
    <3>2. Promise!Execute
      BY <3>1, <2>1, <2>2, <2>3, SameFold DEF Promise!Execute
    <3> QED BY <3>2
  <2> QED BY <2>4, <2>5
<1>3. CASE EnqueueLookups \/ EnqueueOperations \/ UNCHANGED vars
  BY <1>3 DEF EnqueueLookups, EnqueueOperations, vars
<1>4. ASSUME NEW k, Work(k) PROVE UNCHANGED <<batch \o queue, committed>>
  <2>1. Done(k) /\ committed' = committed
    BY <1>4 DEF Work, Lookup, AccessInfo, Forwarding, SelectSubscriber, UpdateSubscriber,
                SelectFacility, UpdateFacility
  <2> QED BY <2>1 DEF Done
<1> QED
  BY <1>1, <1>2, <1>3, <1>4 DEF Main

(* Every batch, with the thread pool or with a thread for each task, leaves  *)
(* the database as the serial execution of its transactions does, and its   *)
(* selects find what they find there (README.md:4), whatever the queue, the *)
(* cuts into batches, the number of buckets and threads and the             *)
(* interleaving of the tasks are.                                          *)
THEOREM Deterministic == Spec \/ ThreadSpec => StrongExecutionDeterminism
<1>1. Init => Promise!Init
  <2> SUFFICES ASSUME Init PROVE Promise!Init
    OBVIOUS
  <2>1. queue \in Queues /\ batch = <<>> /\ committed = db /\ db \in Populations
    BY DEF Init, BatchInit
  <2>2. queue \in Seq(Queued)
    BY InitSound DEF IInv, QueueSound
  <2>3. batch \o queue = queue
    BY <2>1, <2>2, ConcatEmptySeq
  <2> QED BY <2>1, <2>3 DEF Promise!Init
<1>2. Init => InStep
  BY InitInStep
<1>3. IInv /\ InStep /\ [Next]_vars => InStep' /\ [Promise!Execute]_<<batch \o queue, committed>>
  BY StepFollows, StepExecutes DEF Next
<1>4. IInv /\ InStep /\ [ThreadNext]_vars => InStep' /\ [Promise!Execute]_<<batch \o queue, committed>>
  BY StepFollows, StepExecutes DEF ThreadNext, ThreadStep
<1>5. Spec => StrongExecutionDeterminism
  BY <1>1, <1>2, <1>3, PoolSound, PTL DEF Spec, StrongExecutionDeterminism, Promise!Spec
<1>6. ThreadSpec => StrongExecutionDeterminism
  BY <1>1, <1>2, <1>4, ThreadsSound, PTL DEF ThreadSpec, StrongExecutionDeterminism, Promise!Spec
<1> QED
  BY <1>5, <1>6

-----------------------------------------------------------------------------
(* The array of calls of subArr.                                            *)

(* The elements startPopulate writes down are different ones.               *)
DistinctElements == Elements \in Seq(ToSet(Elements)) /\ IsInjective(Elements)

SubArrTypes == /\ arr \in Seq(ToSet(Elements))
               /\ Len(arr) = Len(Elements)
               /\ sub \in Seq(ToSet(Elements))
               /\ sub_len \in 0 .. Len(Elements)
               /\ Len(sub) <= sub_len

(* arr is a permutation of the elements, and what was drawn from it is its  *)
(* tail in reverse.                                                         *)
SubArrInv == /\ SubArrTypes
             /\ IsInjective(arr)
             /\ ArrKeepsItsElements
             /\ \A i \in 1 .. Len(sub) : sub[i] = arr[Len(arr) + 1 - i]

(* The exchange of two elements at the end of subArr's loop.                *)
Swap(s, i, j) == [s EXCEPT ![i] = s[j], ![j] = s[i]]

(* Swapping two elements loses none and doubles none.                       *)
LEMMA SwappingKeepsElements ==
    ASSUME NEW S, NEW s \in Seq(S), NEW i \in 1 .. Len(s), NEW j \in 1 .. Len(s)
    PROVE  /\ Swap(s, i, j) \in Seq(S) /\ Len(Swap(s, i, j)) = Len(s)
           /\ Swap(s, i, j)[i] = s[j] /\ Swap(s, i, j)[j] = s[i]
           /\ \A k \in 1 .. Len(s) \ {i, j} : Swap(s, i, j)[k] = s[k]
           /\ ToSet(Swap(s, i, j)) = ToSet(s)
           /\ IsInjective(s) => IsInjective(Swap(s, i, j))
<1> DEFINE q == Swap(s, i, j)
<1>1. /\ DOMAIN s = 1 .. Len(s) /\ DOMAIN q = 1 .. Len(s)
      /\ q \in Seq(S) /\ Len(q) = Len(s)
      /\ q[i] = s[j] /\ q[j] = s[i]
      /\ \A k \in 1 .. Len(s) \ {i, j} : q[k] = s[k]
  BY DEF Swap
<1> HIDE DEF q
<1>2. ToSet(q) = ToSet(s)
  BY <1>1 DEF ToSet
<1>3. IsInjective(s) => IsInjective(q)
  BY <1>1 DEF IsInjective
<1> QED BY <1>1, <1>2, <1>3 DEF q

(* What Draw does to the sequence it extends.                               *)
LEMMA AppendingAnElement ==
    ASSUME NEW S, NEW s \in Seq(S), NEW e \in S
    PROVE  /\ Append(s, e) \in Seq(S)
           /\ Len(Append(s, e)) = Len(s) + 1
           /\ \A i \in 1 .. Len(s) : Append(s, e)[i] = s[i]
           /\ Append(s, e)[Len(s) + 1] = e
OBVIOUS

(* startPopulate starts with the elements as it wrote them down.           *)
LEMMA InvInitially == DistinctElements /\ SubArrInit => SubArrInv
<1> SUFFICES ASSUME DistinctElements, SubArrInit PROVE SubArrInv
  OBVIOUS
<1>1. Len(Elements) \in Nat /\ sub = <<>> /\ Len(sub) = 0
  BY DEF DistinctElements, SubArrInit
<1> QED BY <1>1 DEF SubArrInit, SubArrInv, SubArrTypes, DistinctElements, ArrKeepsItsElements

(* One call draws from what the earlier ones have left, and never an element *)
(* it has already drawn: that one is behind arr_len.                        *)
LEMMA DrawKeepsInv ==
    ASSUME DistinctElements, SubArrInv, Draw
    PROVE  SubArrInv'
<1> DEFINE S == ToSet(Elements)
           n == Len(arr)
           m == Len(sub)
<1>1. /\ arr \in Seq(S) /\ sub \in Seq(S)
      /\ n \in Nat /\ m \in Nat /\ m < sub_len /\ sub_len <= n
      /\ n = Len(Elements) /\ sub_len' = sub_len /\ sub_len \in 0 .. Len(Elements)
      /\ IsInjective(arr) /\ ToSet(arr) = S
      /\ \A i \in 1 .. m : sub[i] = arr[n + 1 - i]
  BY DEF SubArrInv, SubArrTypes, Draw, ArrKeepsItsElements, DistinctElements
<1>2. PICK j \in 1 .. n - m : sub' = Append(sub, arr[j]) /\ arr' = Swapped(j, n - m)
  BY DEF Draw, ArrLen
<1>3. j \in 1 .. n /\ n - m \in 1 .. n /\ arr[j] \in S
  BY <1>1, <1>2
<1>4. /\ arr' \in Seq(S) /\ Len(arr') = n
      /\ arr'[n - m] = arr[j]
      /\ \A k \in 1 .. n \ {j, n - m} : arr'[k] = arr[k]
      /\ ToSet(arr') = S
      /\ IsInjective(arr')
  <2> DEFINE last == n - m
             q == Swap(arr, j, last)
  <2>1. arr' = q
    BY <1>2 DEF Swapped, Swap
  <2>2. last \in 1 .. Len(arr) /\ j \in 1 .. Len(arr)
    BY <1>3
  <2> HIDE DEF last
  <2>3. /\ q \in Seq(S) /\ Len(q) = n
        /\ q[last] = arr[j]
        /\ \A k \in 1 .. n \ {j, last} : q[k] = arr[k]
        /\ ToSet(q) = ToSet(arr)
        /\ IsInjective(arr) => IsInjective(q)
    BY <1>1, <2>2, SwappingKeepsElements
  <2> QED BY <1>1, <2>1, <2>3 DEF last
<1>5. /\ sub' \in Seq(S) /\ Len(sub') = m + 1
      /\ \A i \in 1 .. m : sub'[i] = sub[i]
      /\ sub'[m + 1] = arr[j]
  BY <1>1, <1>2, <1>3, AppendingAnElement
<1>6. ASSUME NEW i \in 1 .. m + 1 PROVE sub'[i] = arr'[n + 1 - i]
  <2>1. CASE i = m + 1
    BY <1>1, <1>4, <1>5, <2>1
  <2>2. CASE i \in 1 .. m
    <3>1. n + 1 - i \in 1 .. n \ {j, n - m}
      BY <1>1, <1>2, <2>2
    <3> QED BY <1>1, <1>4, <1>5, <2>2, <3>1
  <2> QED BY <1>1, <2>1, <2>2
<1>7. SubArrTypes'
  BY <1>1, <1>4, <1>5 DEF SubArrTypes
<1> QED BY <1>4, <1>5, <1>6, <1>7 DEF SubArrInv, ArrKeepsItsElements

(* So does every other step, which leaves arr as it is.                     *)
LEMMA EveryStepKeepsInv ==
    ASSUME DistinctElements, SubArrInv, [SubArrNext]_subArrVars
    PROVE  SubArrInv'
<1>1. CASE Call
  <2>1. /\ arr' = arr /\ sub' = <<>> /\ Len(sub') = 0
        /\ sub_len' \in 0 .. Len(Elements)
    BY <1>1, SubArrAssumption DEF Call, DistinctElements
  <2> QED BY <2>1 DEF SubArrInv, SubArrTypes, ArrKeepsItsElements
<1>2. CASE Draw
  BY <1>2, DrawKeepsInv
<1>3. CASE Return
  BY <1>3 DEF Return, SubArrInv, SubArrTypes, ArrKeepsItsElements
<1>4. CASE Again
  <2>1. arr' = arr /\ sub' = <<>> /\ Len(sub') = 0 /\ sub_len' = sub_len
    BY <1>4 DEF Again
  <2> QED BY <2>1 DEF SubArrInv, SubArrTypes, ArrKeepsItsElements
<1>5. CASE UNCHANGED subArrVars
  BY <1>5 DEF subArrVars, SubArrInv, SubArrTypes, ArrKeepsItsElements
<1> QED BY <1>1, <1>2, <1>3, <1>4, <1>5 DEF SubArrNext

(* The invariant of all calls on one array.                                 *)
THEOREM SubArrInvariant ==
    ASSUME DistinctElements
    PROVE  SubArrSpec => []SubArrInv
<1>1. SubArrInit => SubArrInv
  BY InvInitially
<1>2. SubArrInv /\ [SubArrNext]_subArrVars => SubArrInv'
  BY EveryStepKeepsInv
<1> QED BY <1>1, <1>2, PTL DEF SubArrSpec

(* subArr only moves elements about: whatever the earlier calls drew, all of *)
(* them can be drawn again.                                                 *)
THEOREM ElementsAreKept ==
    ASSUME DistinctElements
    PROVE  SubArrSpec => []ArrKeepsItsElements
<1>1. SubArrInv => ArrKeepsItsElements
  BY DEF SubArrInv
<1> QED BY <1>1, SubArrInvariant, PTL

(* The array a call allocates holds elements of arr, none of them twice.    *)
THEOREM DrawsAreDistinct ==
    ASSUME DistinctElements
    PROVE  SubArrSpec => []AllocatedArrayIsSubarray
<1>1. SubArrInv => AllocatedArrayIsSubarray
  <2> SUFFICES ASSUME SubArrInv PROVE IsInjective(sub) /\ ToSet(sub) \subseteq ToSet(Elements)
    BY DEF AllocatedArrayIsSubarray, IsSubarray
  <2>1. /\ Len(arr) \in Nat /\ Len(sub) \in Nat /\ Len(sub) <= Len(arr)
        /\ DOMAIN arr = 1 .. Len(arr) /\ DOMAIN sub = 1 .. Len(sub)
        /\ \A i \in 1 .. Len(sub) : sub[i] = arr[Len(arr) + 1 - i]
    BY DEF SubArrInv, SubArrTypes, DistinctElements
  <2>2. ASSUME NEW i \in DOMAIN sub, NEW j \in DOMAIN sub, sub[i] = sub[j] PROVE i = j
    <3>1. /\ Len(arr) + 1 - i \in DOMAIN arr /\ Len(arr) + 1 - j \in DOMAIN arr
          /\ arr[Len(arr) + 1 - i] = arr[Len(arr) + 1 - j]
      BY <2>1, <2>2
    <3>2. Len(arr) + 1 - i = Len(arr) + 1 - j
      BY <3>1 DEF SubArrInv, IsInjective
    <3> QED BY <2>1, <3>2
  <2>3. ToSet(sub) \subseteq ToSet(Elements)
    BY <2>1 DEF ToSet, SubArrInv, SubArrTypes
  <2> QED BY <2>2, <2>3 DEF IsInjective
<1> QED BY <1>1, SubArrInvariant, PTL
=============================================================================
