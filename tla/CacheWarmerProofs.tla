-------------------------- MODULE CacheWarmerProofs --------------------------
(***************************************************************************)
(* Theorems about CacheWarmer, for every set of jobs, every priority and   *)
(* every capacity.  AddWarmupJob runs between the statements of Start, and *)
(* two batchers take from one queue; the invariant counts the pushes of a  *)
(* job still to come, says who is going to push a job the scheduler does   *)
(* not know, and, as long as batches do not meet, measures a batch against *)
(* the room in the pool.                                                   *)
(***************************************************************************)
EXTENDS CacheWarmer, FiniteSetTheorems, TLAPS

\* Start has not yet read which jobs are known.
Early == start \in {"new", "locked", "pool", "scheduler"}

\* Who is where: the flags that Start and Stop write follow from how far they
\* are, and nothing has reached the scheduler before it runs.
Progress ==
    /\ start # "copying" => copying = {}
    /\ copying \cup adding \subseteq known
    /\ adding = {} \/ \E j \in Jobs : adding = {j}
    /\ stop # "no" => start = "done"
    /\ stop = "no" => /\ poolOpen <=> start \notin {"new", "locked"}
                      /\ scheduling <=> start \in {"scheduler", "copying", "done"}
    /\ scheduled # {} => start \in {"scheduler", "copying", "done"}

\* A job is pushed at most twice: by AddWarmupJob, and by Start.
PushesBounded ==
    \A j \in Jobs :
        queue[j] + (IF j \in adding THEN 1 ELSE 0) + (IF j \in known THEN 0 ELSE 1)
                 + (IF Early \/ j \in copying THEN 1 ELSE 0) <= 2

\* Somebody is still going to push a job that the scheduler does not know.
SomebodyPushes ==
    stop = "no" =>
        \A j \in known \ scheduled : Early \/ j \in copying \/ j \in adding

\* What is in the queue, in a batch or in the pool was pushed.
WorkIsScheduled ==
    \A j \in Jobs :
        \/ queue[j] > 0
        \/ \E b \in Batchers : InSequence(j, batch[b])
        \/ InSequence(j, pool)
        => j \in scheduled

\* As long as batches do not meet, one batcher at most is at work, and what it
\* holds or may still take fits into the open pool.
BatchFits ==
    ~crowded /\ stop = "no" =>
        /\ dropped = {}
        /\ \A b, d \in Batchers : AtWork(b) /\ AtWork(d) => b = d
        /\ \A b \in Batchers :
              AtWork(b) => /\ poolOpen
                           /\ Len(pool) + Len(batch[b]) + taking[b] <= Capacity

\* The inductive invariant.
IInv == /\ TypeOK /\ NothingMislaid
        /\ Progress /\ PushesBounded /\ SomebodyPushes
        /\ WorkIsScheduled /\ BatchFits
-----------------------------------------------------------------------------
(***************************************************************************)
(* What is in a sequence.                                                  *)
(***************************************************************************)
LEMMA InEmpty == \A j : ~InSequence(j, <<>>)
BY DEF InSequence

LEMMA InAppend ==
    ASSUME NEW S, NEW s \in Seq(S), NEW x \in S
    PROVE  /\ Append(s, x) \in Seq(S) /\ Len(Append(s, x)) = Len(s) + 1
           /\ Append(s, x) # <<>>
           /\ \A j : InSequence(j, Append(s, x)) <=> InSequence(j, s) \/ j = x
<1>1. /\ Append(s, x) \in Seq(S) /\ Len(s) \in Nat
      /\ Len(Append(s, x)) = Len(s) + 1 /\ Append(s, x)[Len(s) + 1] = x
      /\ \A i \in 1..Len(s) : Append(s, x)[i] = s[i]
  OBVIOUS
<1>2. ASSUME NEW j, InSequence(j, Append(s, x)) PROVE InSequence(j, s) \/ j = x
  BY <1>1, <1>2 DEF InSequence
<1>3. ASSUME NEW j, InSequence(j, s) \/ j = x PROVE InSequence(j, Append(s, x))
  <2>1. 1..Len(s) \subseteq 1..Len(Append(s, x)) /\ Len(s) + 1 \in 1..Len(Append(s, x))
    BY <1>1
  <2> QED BY <1>1, <1>3, <2>1 DEF InSequence
<1>4. Append(s, x) # <<>>
  BY <1>1
<1> QED BY <1>1, <1>2, <1>3, <1>4

LEMMA InTail ==
    ASSUME NEW S, NEW s \in Seq(S), s # <<>>
    PROVE  /\ Head(s) \in S /\ Tail(s) \in Seq(S) /\ Len(s) = Len(Tail(s)) + 1
           /\ Len(Tail(s)) \in Nat
           /\ \A j : InSequence(j, s) <=> j = Head(s) \/ InSequence(j, Tail(s))
<1>1. /\ Head(s) = s[1] /\ Head(s) \in S /\ Tail(s) \in Seq(S)
      /\ Len(s) \in Nat \ {0} /\ Len(Tail(s)) = Len(s) - 1
      /\ \A i \in 1..(Len(s) - 1) : Tail(s)[i] = s[i + 1]
  OBVIOUS
<1>2. ASSUME NEW j, InSequence(j, s) PROVE j = Head(s) \/ InSequence(j, Tail(s))
  <2>1. PICK i \in 1..Len(s) : s[i] = j
    BY <1>2 DEF InSequence
  <2>2. CASE i = 1
    BY <1>1, <2>1, <2>2
  <2>3. CASE i # 1
    <3>1. i - 1 \in 1..(Len(s) - 1) /\ Tail(s)[i - 1] = j
      BY <1>1, <2>1, <2>3
    <3> QED BY <1>1, <3>1 DEF InSequence
  <2> QED BY <2>2, <2>3
<1>3. ASSUME NEW j, j = Head(s) \/ InSequence(j, Tail(s)) PROVE InSequence(j, s)
  <2>1. CASE j = Head(s)
    BY <1>1, <2>1 DEF InSequence
  <2>2. CASE InSequence(j, Tail(s))
    <3>1. PICK i \in 1..(Len(s) - 1) : Tail(s)[i] = j
      BY <1>1, <2>2 DEF InSequence
    <3>2. i + 1 \in 1..Len(s) /\ s[i + 1] = j
      BY <1>1, <3>1
    <3> QED BY <3>2 DEF InSequence
  <2> QED BY <1>3, <2>1, <2>2
<1> QED BY <1>1, <1>2, <1>3

-----------------------------------------------------------------------------
LEMMA Initially == Init => IInv
<1> SUFFICES ASSUME Init PROVE IInv
  OBVIOUS
<1>1. Cardinality(adding) <= 1
  BY FS_EmptySet DEF Init
<1>2. TypeOK
  <2>1. /\ queue \in [Jobs -> 0..2] /\ taking \in [Batchers -> 0..Capacity]
        /\ batch \in [Batchers -> Seq(Jobs)]
        /\ \A b \in Batchers : batch[b] = <<>> /\ taking[b] = 0
    BY CacheWarmerConstants DEF Init
  <2>2. /\ \A b \in Batchers : Len(batch[b]) + taking[b] <= Capacity
        /\ pool \in Seq(Jobs) /\ Len(pool) <= Capacity
    BY <2>1, CacheWarmerConstants DEF Init
  <2>3. /\ start = "new" /\ copying = {} /\ stop = "no" /\ known = Initial
        /\ adding = {} /\ scheduling = FALSE /\ poolOpen = FALSE
        /\ scheduled = {} /\ performed = {} /\ dropped = {} /\ crowded = FALSE
        /\ Initial \subseteq Jobs
    BY CacheWarmerConstants DEF Init
  <2> QED BY <1>1, <2>1, <2>2, <2>3 DEF TypeOK
<1>3. NothingMislaid /\ Progress /\ SomebodyPushes /\ WorkIsScheduled
  BY InEmpty DEF Init, NothingMislaid, Progress, SomebodyPushes, WorkIsScheduled, Early,
                 Batchers
<1>4. PushesBounded
  BY DEF Init, PushesBounded, Early
<1>5. BatchFits
  BY DEF Init, BatchFits, AtWork, Batchers
<1> QED BY <1>2, <1>3, <1>4, <1>5 DEF IInv

\* One job, or none, is being added.
LEMMA AddingSmall ==
    ASSUME Progress' PROVE Cardinality(adding') <= 1
<1>1. CASE adding' = {}
  BY <1>1, FS_EmptySet
<1>2. ASSUME NEW j, adding' = {j} PROVE Cardinality(adding') <= 1
  <2>1. Cardinality({j}) = 1
    BY FS_Singleton
  <2> QED BY <1>2, <2>1
<1> QED BY <1>1, <1>2 DEF Progress

\* The statements of Start and of Stop.
LEMMA StartStopStep ==
    ASSUME IInv,
           StartLock \/ StartPool \/ StartScheduler \/ StopScheduler \/ Shutdown
    PROVE  IInv'
<1> USE DEF IInv
<1>1. UNCHANGED <<known, adding, queue, batch, taking, pool, scheduled,
                  performed, dropped, crowded>>
  BY DEF StartLock, StartPool, StartScheduler, StopScheduler, Shutdown, StopPool,
         StopReturns, scheduler
<1>2. Progress'
  <2>1. CASE StartLock \/ StartPool
    BY <1>1, <2>1 DEF Progress, StartLock, StartPool, scheduler
  <2>2. CASE StartScheduler
    BY <1>1, <2>2 DEF Progress, StartScheduler, GoesOn
  <2>3. CASE StopScheduler \/ Shutdown
    BY <1>1, <2>3 DEF Progress, StopScheduler, Shutdown, StopPool, StopReturns
  <2> QED BY <2>1, <2>2, <2>3
<1>3. TypeOK'
  <2>1. /\ start' \in {"new", "locked", "pool", "scheduler", "copying", "done"}
        /\ stop' \in {"no", "scheduler", "pool", "done"}
        /\ copying' \subseteq Jobs
    BY DEF TypeOK, StartLock, StartPool, StartScheduler, GoesOn, StopScheduler, Shutdown,
           StopPool, StopReturns
  <2>2. scheduling' \in BOOLEAN /\ poolOpen' \in BOOLEAN
    BY DEF TypeOK, StartLock, StartPool, StartScheduler, GoesOn, StopScheduler, Shutdown,
           StopPool, StopReturns, scheduler
  <2> QED BY <1>1, <2>1, <2>2 DEF TypeOK
<1>4. /\ \A j \in Jobs : Early' \/ j \in copying' => Early \/ j \in copying
      /\ \A j \in known : Early \/ j \in copying => Early' \/ j \in copying'
      /\ stop' = "no" => stop = "no" /\ (poolOpen => poolOpen')
  BY DEF Early, StartLock, StartPool, StartScheduler, GoesOn, StopScheduler, Shutdown,
         StopPool, StopReturns
<1>5. PushesBounded'
  BY <1>1, <1>4 DEF PushesBounded, TypeOK
<1>6. NothingMislaid' /\ WorkIsScheduled'
  BY <1>1 DEF NothingMislaid, WorkIsScheduled
<1>7. SomebodyPushes'
  BY <1>1, <1>4 DEF SomebodyPushes
<1>8. BatchFits'
  BY <1>1, <1>4 DEF BatchFits, AtWork
<1> QED BY <1>2, <1>3, <1>5, <1>6, <1>7, <1>8

LEMMA AddStep ==
    ASSUME IInv, NEW j \in Jobs, Add(j)
    PROVE  IInv'
<1> USE DEF IInv
<1>1. /\ UNCHANGED <<start, copying, stop, scheduling, queue, batch, taking, pool,
                     poolOpen, scheduled, performed, dropped, crowded>>
      /\ j \notin known /\ known' = known \cup {j} /\ adding' = {j} /\ adding = {}
  BY DEF Add, scheduler, Unlocked
<1>2. Progress'
  BY <1>1 DEF Progress
<1>3. TypeOK'
  BY <1>1, <1>2, AddingSmall DEF TypeOK
<1>4. PushesBounded'
  BY <1>1 DEF PushesBounded, TypeOK, Early
<1>5. NothingMislaid' /\ WorkIsScheduled'
  BY <1>1 DEF NothingMislaid, WorkIsScheduled
<1>6. SomebodyPushes' /\ BatchFits'
  BY <1>1 DEF SomebodyPushes, Early, BatchFits, AtWork
<1> QED BY <1>2, <1>3, <1>4, <1>5, <1>6

\* A push of a job to the scheduler, by AddWarmupJob or by Start.
LEMMA PushStep ==
    ASSUME IInv, NEW j \in known, Push(j), known \subseteq Jobs,
           UNCHANGED <<batch, taking, pool, performed, dropped, crowded>>
    PROVE  NothingMislaid' /\ WorkIsScheduled' /\ scheduled' = scheduled \cup {j}
           /\ queue' = [queue EXCEPT ![j] = queue[j] + 1]
<1> USE DEF IInv
<1>1. /\ queue' = [queue EXCEPT ![j] = queue[j] + 1] /\ scheduled' = scheduled \cup {j}
      /\ j \in Jobs /\ queue \in [Jobs -> 0..2]
  BY DEF Push, TypeOK
<1>2. queue'[j] > 0 /\ \A i \in Jobs : queue[i] > 0 => queue'[i] > 0
  BY <1>1
<1>4. NothingMislaid'
  BY <1>1, <1>2 DEF NothingMislaid, TypeOK
<1>3. WorkIsScheduled'
  BY <1>1 DEF WorkIsScheduled
<1> QED BY <1>1, <1>3, <1>4

LEMMA AddToSchedulerStep ==
    ASSUME IInv, AddToScheduler
    PROVE  IInv'
<1> USE DEF IInv
<1>1. /\ UNCHANGED <<start, copying, stop, known, scheduling, batch, taking,
                     pool, poolOpen, performed, dropped, crowded>>
      /\ adding' = {} /\ known \subseteq Jobs
  BY DEF AddToScheduler, TypeOK
<1>2. PICK j \in Jobs : adding = {j} /\ j \in known
  BY DEF AddToScheduler, Progress
<1>3. CASE scheduling
  <2>1. Push(j)
    BY <1>2, <1>3 DEF AddToScheduler
  <2>2. /\ NothingMislaid' /\ WorkIsScheduled' /\ scheduled' = scheduled \cup {j}
        /\ queue' = [queue EXCEPT ![j] = queue[j] + 1]
    BY <1>1, <1>2, <2>1, PushStep
  <2>3. Progress'
    BY <1>1, <1>2, <1>3, <2>2 DEF Progress
  <2>a. /\ queue \in [Jobs -> 0..2] /\ queue'[j] = queue[j] + 1
        /\ \A i \in Jobs : i # j => queue'[i] = queue[i] /\ i \notin adding
    BY <1>2, <2>2 DEF TypeOK
  <2>b. queue[j] + 1 + (IF Early \/ j \in copying THEN 1 ELSE 0) <= 2
    BY <1>2, <2>a DEF PushesBounded
  <2>4. PushesBounded'
    <3> SUFFICES ASSUME NEW i \in Jobs
                 PROVE  (queue[i] + (IF i \in adding THEN 1 ELSE 0)
                          + (IF i \in known THEN 0 ELSE 1)
                          + (IF Early \/ i \in copying THEN 1 ELSE 0) <= 2)'
      BY DEF PushesBounded
    <3>1. CASE i = j
      BY <1>1, <1>2, <2>a, <2>b, <3>1 DEF Early
    <3>2. CASE i # j
      BY <1>1, <2>a, <3>2 DEF PushesBounded, Early
    <3> QED BY <3>1, <3>2
  <2>5. queue' \in [Jobs -> 0..2]
    BY <2>2, <2>a, <2>b
  <2>6. TypeOK'
    BY <1>1, <1>2, <2>2, <2>3, <2>5, AddingSmall DEF TypeOK
  <2>7. SomebodyPushes' /\ BatchFits'
    BY <1>1, <1>2, <2>2 DEF SomebodyPushes, Early, BatchFits, AtWork
  <2> QED BY <2>2, <2>3, <2>4, <2>6, <2>7
<1>4. CASE ~scheduling
  <2>1. UNCHANGED <<queue, scheduled>>
    BY <1>4 DEF AddToScheduler
  <2>2. Progress'
    BY <1>1, <2>1 DEF Progress
  <2>3. TypeOK'
    BY <1>1, <2>1, <2>2, AddingSmall DEF TypeOK
  <2>4. PushesBounded'
    BY <1>1, <2>1 DEF PushesBounded, TypeOK, Early
  <2>5. NothingMislaid' /\ WorkIsScheduled' /\ BatchFits'
    BY <1>1, <2>1 DEF NothingMislaid, WorkIsScheduled, BatchFits, AtWork
  <2>6. SomebodyPushes'
    BY <1>1, <1>4, <2>1 DEF SomebodyPushes, Early, Progress, TypeOK
  <2> QED BY <2>2, <2>3, <2>4, <2>5, <2>6
<1> QED BY <1>3, <1>4

LEMMA CopyStep ==
    ASSUME IInv, CopyJobs
    PROVE  IInv'
<1> USE DEF IInv
<1>1. /\ UNCHANGED <<stop, known, adding, scheduling, batch, taking,
                     pool, poolOpen, performed, dropped, crowded>>
      /\ start = "copying" /\ known \subseteq Jobs /\ copying \subseteq known
  BY DEF CopyJobs, TypeOK, Progress
<1>2. CASE copying = {} /\ start' = "done" /\ UNCHANGED <<copying, queue, scheduled>>
  <2>1. Progress'
    BY <1>1, <1>2 DEF Progress
  <2>2. TypeOK'
    BY <1>1, <1>2 DEF TypeOK
  <2>3. PushesBounded'
    BY <1>1, <1>2 DEF PushesBounded, TypeOK, Early
  <2>4. NothingMislaid' /\ WorkIsScheduled' /\ BatchFits'
    BY <1>1, <1>2 DEF NothingMislaid, WorkIsScheduled, BatchFits, AtWork
  <2>5. SomebodyPushes'
    BY <1>1, <1>2 DEF SomebodyPushes, Early
  <2> QED BY <2>1, <2>2, <2>3, <2>4, <2>5
<1>3. ASSUME NEW j \in copying, copying' = copying \ {j}, Push(j), UNCHANGED start
      PROVE  IInv'
  <2>1. /\ NothingMislaid' /\ WorkIsScheduled' /\ scheduled' = scheduled \cup {j}
        /\ queue' = [queue EXCEPT ![j] = queue[j] + 1]
    BY <1>1, <1>3, PushStep
  <2>2. Progress'
    BY <1>1, <1>3, <2>1 DEF Progress
  <2>3. PushesBounded'
    BY <1>1, <1>3, <2>1 DEF PushesBounded, TypeOK, Early
  <2>4. queue' \in [Jobs -> 0..2]
    BY <1>1, <1>3, <2>1 DEF PushesBounded, TypeOK
  <2>5. TypeOK'
    BY <1>1, <1>3, <2>1, <2>4 DEF TypeOK
  <2>6. SomebodyPushes' /\ BatchFits'
    BY <1>1, <1>3, <2>1 DEF SomebodyPushes, Early, BatchFits, AtWork
  <2> QED BY <2>1, <2>2, <2>3, <2>5, <2>6
<1> QED BY <1>2, <1>3 DEF CopyJobs

-----------------------------------------------------------------------------
(***************************************************************************)
(* The batchers and the pool.                                              *)
(***************************************************************************)
\* These steps leave Start, Stop and AddWarmupJob where they are.
LEMMA Elsewhere ==
    ASSUME IInv, UNCHANGED <<warmer, scheduling, poolOpen, scheduled>>
    PROVE  Progress' /\ SomebodyPushes'
BY DEF IInv, warmer, Progress, SomebodyPushes, Early

\* The types in a form that says what each variable is.
LEMMA Types ==
    ASSUME TypeOK
    PROVE  /\ queue \in [Jobs -> 0..2] /\ batch \in [Batchers -> Seq(Jobs)]
           /\ taking \in [Batchers -> 0..Capacity] /\ pool \in Seq(Jobs)
           /\ Capacity \in Nat \ {0} /\ Len(pool) \in Nat
           /\ \A b \in Batchers : /\ batch[b] \in Seq(Jobs) /\ taking[b] \in 0..Capacity
                                  /\ Len(batch[b]) \in Nat
                                  /\ Len(batch[b]) + taking[b] <= Capacity
           /\ scheduled \subseteq Jobs
BY CacheWarmerConstants DEF TypeOK

\* What is taken is held.
LEMMA OneForOne ==
    ASSUME NEW m \in Nat, NEW n \in Nat, NEW mm, NEW nn, mm = m + 1, nn = n - 1
    PROVE  mm + nn = m + n /\ mm \in Nat
OBVIOUS

LEMMA SameSum ==
    ASSUME NEW p \in Nat, NEW m \in Nat, NEW n \in Nat, NEW mm \in Nat, NEW nn \in Nat,
           NEW c, mm + nn = m + n, p + m + n <= c, c \in Nat
    PROVE  p + mm + nn <= c
OBVIOUS

\* What leaves a batch for the pool needs no more room.
LEMMA OneMoved ==
    ASSUME NEW p \in Nat, NEW n \in Nat, NEW t \in Nat, NEW pp, NEW m,
           pp = p + 1, m = n + 1, p + m + t <= Capacity
    PROVE  pp + n + t <= Capacity
OBVIOUS

LEMMA BeginStep ==
    ASSUME IInv, NEW b \in Batchers, BeginBatch(b)
    PROVE  IInv'
<1> USE DEF IInv
<1>1. /\ UNCHANGED <<warmer, scheduling, queue, batch, pool, poolOpen,
                     scheduled, performed, dropped>>
      /\ ~AtWork(b) /\ taking' = [taking EXCEPT ![b] = Capacity]
      /\ crowded' = \/ crowded \/ pool # <<>>
                    \/ \E other \in Batchers \ {b} : AtWork(other)
      /\ Queued # {}
  BY DEF BeginBatch, BatchSize
<1>2. Progress' /\ SomebodyPushes'
  BY <1>1, Elsewhere
<1>3. /\ batch[b] = <<>> /\ Len(batch[b]) = 0
      /\ taking' \in [Batchers -> 0..Capacity] /\ taking'[b] = Capacity
      /\ \A d \in Batchers : d # b => taking'[d] = taking[d]
  BY <1>1, Types DEF AtWork
<1>4. \A d \in Batchers : Len(batch'[d]) + taking'[d] <= Capacity
  BY <1>1, <1>3, Types
<1>5. TypeOK'
  BY <1>1, <1>3, <1>4 DEF TypeOK, warmer
<1>6. NothingMislaid' /\ WorkIsScheduled' /\ PushesBounded'
  BY <1>1 DEF NothingMislaid, WorkIsScheduled, PushesBounded, warmer, Early
<1>7. BatchFits'
  <2> SUFFICES ASSUME ~crowded', stop' = "no" PROVE BatchFits'
    BY DEF BatchFits
  <2>1. /\ ~crowded /\ stop = "no" /\ pool = <<>> /\ Len(pool) = 0
        /\ \A d \in Batchers : d # b => ~AtWork(d)
    BY <1>1 DEF warmer
  <2>2. \A d \in Batchers : AtWork(d)' => d = b
    BY <1>1, <1>3, <2>1 DEF AtWork
  <2>3. scheduled # {}
    BY <1>1 DEF Queued, WorkIsScheduled
  <2>4. poolOpen
    BY <2>1, <2>3 DEF Progress
  <2>5. Len(pool') + Len(batch'[b]) + taking'[b] <= Capacity
    BY <1>1, <1>3, <2>1, Types
  <2> QED BY <1>1, <2>1, <2>2, <2>4, <2>5 DEF BatchFits
<1> QED BY <1>2, <1>5, <1>6, <1>7

LEMMA TakeStep ==
    ASSUME IInv, NEW b \in Batchers, TakeJob(b)
    PROVE  IInv'
<1> USE DEF IInv
<1>1. /\ UNCHANGED <<warmer, scheduling, pool, poolOpen,
                     scheduled, performed, dropped, crowded>>
      /\ taking[b] > 0
  BY DEF TakeJob
<1>2. Progress' /\ SomebodyPushes'
  BY <1>1, Elsewhere
<1>3. CASE taking' = [taking EXCEPT ![b] = 0] /\ UNCHANGED <<queue, batch>>
  <2>1. /\ taking' \in [Batchers -> 0..Capacity]
        /\ \A d \in Batchers : taking'[d] <= taking[d]
    BY <1>3, Types
  <2>2. \A d \in Batchers : Len(batch'[d]) + taking'[d] <= Capacity
    BY <1>3, <2>1, Types
  <2>3. TypeOK'
    BY <1>1, <1>3, <2>1, <2>2 DEF TypeOK, warmer
  <2>4. NothingMislaid' /\ WorkIsScheduled' /\ PushesBounded'
    BY <1>1, <1>3 DEF NothingMislaid, WorkIsScheduled, PushesBounded, warmer, Early
  <2>5. \A d \in Batchers : AtWork(d)' => AtWork(d)
    BY <1>3, <2>1, Types DEF AtWork
  <2>6. BatchFits'
    <3>1. ASSUME NEW d \in Batchers,
                 Len(pool) + Len(batch[d]) + taking[d] <= Capacity
          PROVE  Len(pool') + Len(batch'[d]) + taking'[d] <= Capacity
      BY <1>1, <1>3, <2>1, <3>1, Types
    <3> QED BY <1>1, <2>5, <3>1 DEF BatchFits, warmer
  <2> QED BY <1>2, <2>3, <2>4, <2>6
<1>4. ASSUME NEW j \in Queued, queue' = [queue EXCEPT ![j] = @ - 1],
             batch' = [batch EXCEPT ![b] = WithTaken(b, j)],
             taking' = [taking EXCEPT ![b] = @ - 1]
      PROVE  IInv'
  <2>1. j \in Jobs /\ queue[j] > 0
    BY DEF Queued
  <2>2. /\ queue' \in [Jobs -> 0..2] /\ queue'[j] <= queue[j]
        /\ \A i \in Jobs : i # j => queue'[i] = queue[i]
    BY <1>4, <2>1, Types
  <2>3. /\ taking' \in [Batchers -> 0..Capacity] /\ taking'[b] = taking[b] - 1
        /\ \A d \in Batchers : d # b => taking'[d] = taking[d]
    BY <1>1, <1>4, Types
  <2>4. /\ batch'[b] = Append(batch[b], j)
        /\ \A d \in Batchers : d # b => batch'[d] = batch[d]
        /\ DOMAIN batch' = Batchers /\ batch' = [d \in Batchers |-> batch'[d]]
    BY <1>4, Types DEF WithTaken
  <2>5. /\ batch'[b] \in Seq(Jobs) /\ Len(batch'[b]) = Len(batch[b]) + 1
        /\ \A i : InSequence(i, batch'[b]) <=> InSequence(i, batch[b]) \/ i = j
    BY <2>1, <2>4, Types, InAppend
  <2>6. batch' \in [Batchers -> Seq(Jobs)]
    BY <2>4, <2>5, Types
  <2>7. \A d \in Batchers : /\ Len(batch'[d]) + taking'[d] = Len(batch[d]) + taking[d]
                            /\ Len(batch'[d]) \in Nat
    <3> SUFFICES ASSUME NEW d \in Batchers
                 PROVE  /\ Len(batch'[d]) + taking'[d] = Len(batch[d]) + taking[d]
                        /\ Len(batch'[d]) \in Nat
      OBVIOUS
    <3>0. Len(batch[d]) \in Nat /\ taking[d] \in Nat
      BY Types
    <3>1. CASE d = b
      <4>1. /\ Len(batch[b]) \in Nat /\ taking[b] \in Nat
            /\ Len(batch'[b]) = Len(batch[b]) + 1 /\ taking'[b] = taking[b] - 1
        BY <2>3, <2>5, <3>0, <3>1
      <4>2. /\ Len(batch'[b]) + taking'[b] = Len(batch[b]) + taking[b]
            /\ Len(batch'[b]) \in Nat
        BY <4>1, OneForOne
      <4> QED BY <3>1, <4>2
    <3>2. CASE d # b
      BY <2>3, <2>4, <3>2, Types
    <3> QED BY <3>1, <3>2
  <2>8. TypeOK'
    BY <1>1, <2>2, <2>3, <2>6, <2>7 DEF TypeOK, warmer
  <2>9. \A d \in Batchers, i \in Jobs :
           InSequence(i, batch'[d]) <=> InSequence(i, batch[d]) \/ (d = b /\ i = j)
    BY <2>4, <2>5
  <2>10. NothingMislaid'
    <3> SUFFICES ASSUME NEW i \in scheduled
                 PROVE  \/ queue'[i] > 0
                        \/ \E d \in Batchers : InSequence(i, batch'[d])
                        \/ InSequence(i, pool)
                        \/ i \in performed \cup dropped
      BY <1>1 DEF NothingMislaid
    <3>1. i \in Jobs
      BY Types
    <3> QED BY <2>2, <2>9, <3>1 DEF NothingMislaid
  <2>11. WorkIsScheduled'
    BY <1>1, <2>1, <2>2, <2>9, Types DEF WorkIsScheduled
  <2>12. PushesBounded'
    <3>1. \A i \in Jobs : queue'[i] <= queue[i] /\ queue[i] \in 0..2 /\ queue'[i] \in 0..2
      BY <2>2, Types
    <3> QED BY <1>1, <3>1 DEF PushesBounded, warmer, Early
  <2>13. BatchFits'
    <3>1. AtWork(b) /\ \A d \in Batchers : AtWork(d)' => AtWork(d)
      BY <1>1, <2>3, <2>4 DEF AtWork
    <3>2. ASSUME NEW d \in Batchers,
                 Len(pool) + Len(batch[d]) + taking[d] <= Capacity
          PROVE  Len(pool') + Len(batch'[d]) + taking'[d] <= Capacity
      <4>1. /\ Len(pool) \in Nat /\ Len(batch[d]) \in Nat /\ taking[d] \in Nat
            /\ Capacity \in Nat
        BY Types, CacheWarmerConstants
      <4>2. /\ Len(batch'[d]) \in Nat /\ Len(batch'[d]) + taking'[d] = Len(batch[d]) + taking[d]
        BY <2>7
      <4>3. taking'[d] \in Nat
        BY <2>3, Types
      <4>4. Len(pool) + Len(batch'[d]) + taking'[d] <= Capacity
        BY <3>2, <4>1, <4>2, <4>3, SameSum
      <4> QED BY <1>1, <4>4 DEF warmer
    <3> QED BY <1>1, <3>1, <3>2 DEF BatchFits, warmer
  <2> QED BY <1>2, <2>8, <2>10, <2>11, <2>12, <2>13
<1> QED BY <1>3, <1>4 DEF TakeJob

LEMMA SubmitStep ==
    ASSUME IInv, NEW b \in Batchers, Submit(b)
    PROVE  IInv'
<1> USE DEF IInv
<1> DEFINE j == Head(batch[b])
<1>1. /\ UNCHANGED <<warmer, scheduling, queue, taking, poolOpen,
                     scheduled, performed, crowded>>
      /\ taking[b] = 0 /\ batch[b] # <<>>
  BY DEF Submit
<1>2. Progress' /\ SomebodyPushes'
  BY <1>1, Elsewhere
<1>3. /\ batch'[b] = Tail(batch[b])
      /\ \A d \in Batchers : d # b => batch'[d] = batch[d]
      /\ batch' = [d \in Batchers |-> batch'[d]]
  BY Types DEF Submit
<1>4. /\ j \in Jobs /\ batch'[b] \in Seq(Jobs) /\ Len(batch[b]) = Len(batch'[b]) + 1
      /\ Len(batch'[b]) \in Nat
      /\ \A i : InSequence(i, batch[b]) <=> i = j \/ InSequence(i, batch'[b])
  BY <1>1, <1>3, Types, InTail
<1>5. /\ batch' \in [Batchers -> Seq(Jobs)]
      /\ \A d \in Batchers : /\ Len(batch'[d]) <= Len(batch[d]) /\ Len(batch'[d]) \in Nat
      /\ \A d \in Batchers, i \in Jobs :
            InSequence(i, batch[d]) <=> InSequence(i, batch'[d]) \/ (d = b /\ i = j)
  <2>1. batch' \in [Batchers -> Seq(Jobs)]
    BY <1>3, <1>4, Types
  <2>2. \A d \in Batchers : Len(batch'[d]) <= Len(batch[d]) /\ Len(batch'[d]) \in Nat
    <3>1. \A d \in Batchers : Len(batch[d]) \in Nat
      BY Types
    <3> HIDE DEF IInv
    <3> QED BY <1>3, <1>4, <3>1
  <2>3. \A d \in Batchers, i \in Jobs :
            InSequence(i, batch[d]) <=> InSequence(i, batch'[d]) \/ (d = b /\ i = j)
    BY <1>3, <1>4
  <2> QED BY <2>1, <2>2, <2>3
<1>6. \A d \in Batchers : Len(batch'[d]) + taking'[d] <= Capacity
  BY <1>1, <1>5, Types
<1>7. j \in scheduled
  BY <1>4 DEF WorkIsScheduled
<1>8. PushesBounded'
  BY <1>1 DEF PushesBounded, warmer, Early
<1>9. \A d \in Batchers : AtWork(d)' => AtWork(d)
  BY <1>1, <1>3 DEF AtWork
<1>10. AtWork(b)
  BY <1>1 DEF AtWork
<1> HIDE DEF j
<1>11. CASE poolOpen /\ Len(pool) < Capacity
  <2>1. pool' = Append(pool, j) /\ UNCHANGED dropped
    BY <1>11 DEF Submit, j
  <2>2. /\ pool' \in Seq(Jobs) /\ Len(pool') = Len(pool) + 1
        /\ \A i : InSequence(i, pool') <=> InSequence(i, pool) \/ i = j
    BY <1>4, <2>1, Types, InAppend
  <2>3. Len(pool') <= Capacity
    BY <1>11, <2>2, Types
  <2>4. TypeOK'
    BY <1>1, <1>5, <1>6, <2>1, <2>2, <2>3 DEF TypeOK, warmer
  <2>5. NothingMislaid'
    <3> SUFFICES ASSUME NEW i \in scheduled
                 PROVE  \/ queue[i] > 0
                        \/ \E d \in Batchers : InSequence(i, batch'[d])
                        \/ InSequence(i, pool')
                        \/ i \in performed \cup dropped
      BY <1>1, <2>1 DEF NothingMislaid
    <3>1. i \in Jobs
      BY Types
    <3> QED BY <1>5, <2>2, <3>1 DEF NothingMislaid
  <2>6. WorkIsScheduled'
    BY <1>1, <1>5, <1>7, <2>2 DEF WorkIsScheduled
  <2>7. BatchFits'
    <3>1. ASSUME Len(pool) + Len(batch[b]) + taking[b] <= Capacity
          PROVE  Len(pool') + Len(batch'[b]) + taking'[b] <= Capacity
      <4>1. /\ Len(pool) \in Nat /\ Len(batch'[b]) \in Nat /\ taking[b] \in Nat
            /\ taking'[b] = taking[b]
        BY <1>1, <1>4, Types
      <4> QED BY <1>4, <2>2, <3>1, <4>1, OneMoved
    <3> HIDE DEF IInv
    <3> SUFFICES ASSUME ~crowded', stop' = "no" PROVE BatchFits'
      BY DEF BatchFits
    <3>2. /\ dropped = {} /\ poolOpen
          /\ \A d, e \in Batchers : AtWork(d) /\ AtWork(e) => d = e
          /\ Len(pool) + Len(batch[b]) + taking[b] <= Capacity
      BY <1>1, <1>10 DEF BatchFits, warmer, IInv
    <3>3. \A d \in Batchers : AtWork(d)' => d = b
      BY <1>9, <1>10, <3>2
    <3> QED BY <1>1, <2>1, <3>1, <3>2, <3>3 DEF BatchFits, warmer
  <2> QED BY <1>2, <1>8, <2>4, <2>5, <2>6, <2>7
<1>12. CASE ~(poolOpen /\ Len(pool) < Capacity)
  <2>1. dropped' = dropped \cup {j} /\ UNCHANGED pool
    BY <1>12 DEF Submit, j
  <2>2. TypeOK'
    BY <1>1, <1>5, <1>6, <1>7, <2>1 DEF TypeOK, warmer
  <2>3. NothingMislaid'
    <3> SUFFICES ASSUME NEW i \in scheduled
                 PROVE  \/ queue[i] > 0
                        \/ \E d \in Batchers : InSequence(i, batch'[d])
                        \/ InSequence(i, pool)
                        \/ i \in performed \cup dropped \cup {j}
      BY <1>1, <2>1 DEF NothingMislaid
    <3>1. i \in Jobs
      BY Types
    <3> QED BY <1>5, <3>1 DEF NothingMislaid
  <2>4. WorkIsScheduled'
    BY <1>1, <1>5, <2>1 DEF WorkIsScheduled
  <2>5. BatchFits'
    <3>1. ASSUME ~crowded, stop = "no" PROVE FALSE
      <4>1. poolOpen /\ Len(pool) + Len(batch[b]) + taking[b] <= Capacity
        BY <1>10, <3>1 DEF BatchFits
      <4> QED BY <1>1, <1>4, <1>12, <4>1, Types
    <3> QED BY <1>1, <3>1 DEF BatchFits, warmer
  <2> QED BY <1>2, <1>8, <2>2, <2>3, <2>4, <2>5
<1> QED BY <1>11, <1>12

LEMMA PerformStep ==
    ASSUME IInv, Perform
    PROVE  IInv'
<1> USE DEF IInv
<1> DEFINE j == Head(pool)
<1>1. /\ UNCHANGED <<warmer, scheduler, poolOpen, scheduled, dropped, crowded>>
      /\ pool # <<>> /\ performed' = performed \cup {j} /\ pool' = Tail(pool)
  BY DEF Perform
<1>2. Progress' /\ SomebodyPushes'
  BY <1>1, Elsewhere DEF scheduler
<1>3. /\ j \in Jobs /\ pool' \in Seq(Jobs) /\ Len(pool) = Len(pool') + 1
      /\ Len(pool') \in Nat
      /\ \A i : InSequence(i, pool) <=> i = j \/ InSequence(i, pool')
  BY <1>1, Types, InTail
<1>4. j \in scheduled /\ Len(pool') <= Capacity
  BY <1>3, Types DEF WorkIsScheduled, TypeOK
<1> HIDE DEF j
<1>5. TypeOK'
  BY <1>1, <1>3, <1>4 DEF TypeOK, warmer, scheduler
<1>6. NothingMislaid' /\ WorkIsScheduled' /\ PushesBounded'
  BY <1>1, <1>3 DEF NothingMislaid, WorkIsScheduled, PushesBounded, warmer, scheduler,
                    Early
<1>7. BatchFits'
  <2>1. ASSUME NEW d \in Batchers, Len(pool) + Len(batch[d]) + taking[d] <= Capacity
        PROVE  Len(pool') + Len(batch[d]) + taking[d] <= Capacity
    BY <1>3, <2>1, Types
  <2> QED BY <1>1, <2>1 DEF BatchFits, AtWork, warmer, scheduler
<1> QED BY <1>2, <1>5, <1>6, <1>7

LEMMA Inductive == IInv /\ [Next]_vars => IInv'
<1> SUFFICES ASSUME IInv, [Next]_vars PROVE IInv'
  OBVIOUS
<1>1. CASE UNCHANGED vars
  BY <1>1 DEF vars, warmer, scheduler, IInv, TypeOK, NothingMislaid, Progress,
              PushesBounded, SomebodyPushes, WorkIsScheduled, BatchFits, Early, AtWork
<1> QED
  BY <1>1, StartStopStep, AddStep, AddToSchedulerStep, CopyStep, BeginStep, TakeStep,
     SubmitStep, PerformStep
     DEF Next, Startup

LEMMA Invariance == Spec => []IInv
BY Initially, Inductive, PTL DEF Spec

-----------------------------------------------------------------------------
(***************************************************************************)
(* The theorems.                                                           *)
(***************************************************************************)
\* A job given to the scheduler is in its queue, in a batch, in the pool's
\* channel or through: two batchers that pop from one queue without a common
\* lock (job_scheduler.go, extractJobsBatch) mislay none, and batches and
\* channel stay within the capacity.
THEOREM WarmerInvariant == Spec => []WarmerInv
<1>1. IInv => WarmerInv
  BY DEF IInv, WarmerInv
<1> QED BY <1>1, Invariance, PTL

\* Wherever AddWarmupJob runs between the statements of Start (warmer.go), the
\* job reaches the scheduler: Add writes the warmer's queue before it reads
\* whether the scheduler runs, Start starts it before it reads the queue.
THEOREM NoJobMissed == Spec => []NothingMissed
<1>1. IInv => NothingMissed
  BY DEF IInv, NothingMissed, SomebodyPushes, Progress, TypeOK, Early
<1> QED BY <1>1, Invariance, PTL

\* A batch the size of the channel, put into an empty channel while nobody else
\* submits, loses nothing (job_scheduler.go, SubmitJobs).
THEOREM DropsHaveACause == Spec => []DropNeedsCause
<1>1. IInv => DropNeedsCause
  BY DEF IInv, DropNeedsCause, BatchFits
<1> QED BY <1>1, Invariance, PTL
=============================================================================
