-------------------------- MODULE WorkerPoolProofs --------------------------
(***************************************************************************)
(* Theorems about WorkerPool, for every set of jobs, every size and any    *)
(* number of restarts.                                                     *)
(*                                                                         *)
(* PoolInv is inductive.  That nothing is sent on or closed a second time  *)
(* rests on ClosedInOrder and NotReused; FirstLife adds what makes the     *)
(* first Stop graceful: until it returns the context is not cancelled, so  *)
(* a worker leaves only when the queue is closed and empty.                *)
(***************************************************************************)
EXTENDS WorkerPool, TLAPS

\* The stretch from Start to the return of Stop.
Serving == running \/ control = "stopping"

Waiting(j) == \E k \in 1..Len(queue) : queue[k] = j
InWork(j) == \E i \in Ids : worker[i] = "process" /\ job[i] = j

\* Nothing is taken back before the first Start.
Unstarted == life = 0 => control = "idle" /\ ~running /\ ~cancelled

\* While the pool serves, the workers leave only when nothing can come any more.
FirstWorkers ==
    life = 1 =>
        /\ Serving => ~cancelled /\ (AllGone => jobChClosed /\ queue = <<>>)
        /\ ~Serving => AllGone /\ queue = <<>>

\* An accepted job waits, is worked on or has been performed.
FirstJobs ==
    /\ \A j \in Jobs : acceptedIn[j] <= life
    /\ life = 1 => \A j \in Jobs :
            acceptedIn[j] = 1 => j \in processed \/ Waiting(j) \/ InWork(j)

FirstLife == Unstarted /\ FirstWorkers /\ FirstJobs
-----------------------------------------------------------------------------
\* The sequence operators used on the queue.
LEMMA QueueFacts ==
    ASSUME NEW q \in Seq(Jobs)
    PROVE  /\ Len(q) \in Nat
           /\ \A j \in Jobs : Append(q, j) \in Seq(Jobs) /\ Len(Append(q, j)) = Len(q) + 1
           /\ q # <<>> => /\ Head(q) \in Jobs /\ Tail(q) \in Seq(Jobs)
                          /\ Len(Tail(q)) = Len(q) - 1
OBVIOUS

\* An empty channel.
LEMMA EmptyQueue == <<>> \in Seq(Jobs) /\ Len(<<>>) = 0
OBVIOUS

\* A pool has at least one worker, at most MaxSize.
LEMMA SizeFacts == \A n \in Sizes : n \in Nat /\ n >= 1 /\ n \in Ids
BY WorkerPoolConstants DEF Ids

\* The pool starts within the invariant.
LEMMA PoolInit == Init => PoolInv
<1> SUFFICES ASSUME Init PROVE PoolInv
  OBVIOUS
<1> USE DEF Init
<1>1. TypeOK
  <2>1. size \in Nat /\ size >= 1
    BY SizeFacts, WorkerPoolConstants
  <2>2. queue \in Seq(Jobs) /\ Len(queue) <= 2 * size
    BY <2>1, EmptyQueue
  <2>3. results \in 0..size /\ life \in 0..MaxLives /\ acceptedIn \in [Jobs -> 0..MaxLives]
    BY <2>1, WorkerPoolConstants
  <2> QED
    BY <2>2, <2>3, WorkerPoolConstants DEF TypeOK
<1>2. JobsInHand /\ ClosedInOrder /\ NotReused /\ PanicsOnlyWhenReused
  BY DEF JobsInHand, ClosedInOrder, NotReused, PanicsOnlyWhenReused, AllGone
<1> QED
  BY <1>1, <1>2 DEF PoolInv

\* What StartPool does to the goroutines and to the count of lives.
LEMMA StartPoolTypes ==
    ASSUME TypeOK, JobsInHand, StartPool, life < MaxLives
    PROVE  /\ worker' \in [Ids -> {"gone", "select", "process", "report"}]
           /\ collector' \in [Lives -> {"gone", "select", "lock"}]
           /\ life' \in 0..MaxLives
           /\ JobsInHand'
<1> USE WorkerPoolConstants DEF TypeOK, StartPool
<1>1. life' \in 0..MaxLives
  OBVIOUS
<1>2. worker' \in [Ids -> {"gone", "select", "process", "report"}]
  OBVIOUS
<1>3. collector' \in [Lives -> {"gone", "select", "lock"}]
  OBVIOUS
<1>4. \A i \in Ids : worker'[i] \in {"gone", "select"}
  OBVIOUS
<1>5. JobsInHand'
  BY <1>4 DEF JobsInHand
<1> QED
  BY <1>1, <1>2, <1>3, <1>5

\* New channels are empty and fit the new size.
LEMMA NewChannelsTypes ==
    ASSUME NEW n \in Sizes, NewChannels(n)
    PROVE  /\ size' \in Sizes /\ results' \in 0..size'
           /\ queue' \in Seq(Jobs) /\ Len(queue') <= 2 * size'
           /\ jobChClosed' \in BOOLEAN /\ resultChClosed' \in BOOLEAN
<1>1. n \in Nat /\ n >= 1
  BY SizeFacts
<1>2. size' = n /\ results' = 0 /\ queue' = <<>>
  BY DEF NewChannels
<1>3. queue' \in Seq(Jobs) /\ Len(queue') = 0
  BY <1>2, EmptyQueue
<1>4. size' \in Sizes /\ results' \in 0..size' /\ Len(queue') <= 2 * size'
  BY <1>1, <1>2, <1>3
<1>5. jobChClosed' \in BOOLEAN /\ resultChClosed' \in BOOLEAN
  BY DEF NewChannels
<1> QED
  BY <1>3, <1>4, <1>5

\* Types and the jobs in hand are kept by every step.
LEMMA TypeStep ==
    ASSUME TypeOK, JobsInHand, ClosedInOrder, [Next]_vars
    PROVE  TypeOK' /\ JobsInHand'
<1> USE DEF TypeOK, JobsInHand, history, channels, goroutines
<1>1. ASSUME Start PROVE TypeOK' /\ JobsInHand'
  <2>1. StartPool /\ life < MaxLives /\ control' = control
    BY <1>1 DEF Start
  <2> QED
    BY <2>1, StartPoolTypes DEF StartPool
<1>2. ASSUME NEW for \in Sizes \cup {0}, BeginStop(for) PROVE TypeOK' /\ JobsInHand'
  BY <1>2 DEF BeginStop
<1>3. ASSUME EndStop PROVE TypeOK' /\ JobsInHand'
  BY <1>3 DEF EndStop
<1>4. ASSUME NEW n \in Sizes, ResizeStopped(n) PROVE TypeOK' /\ JobsInHand'
  <2>1. NewChannels(n)
    BY <1>4 DEF ResizeStopped
  <2> QED
    BY <1>4, <2>1, NewChannelsTypes DEF ResizeStopped
<1>5. ASSUME ResizeReplaces PROVE TypeOK' /\ JobsInHand'
  <2>1. NewChannels(target) /\ target \in Sizes
    BY <1>5 DEF ResizeReplaces, ClosedInOrder
  <2> QED
    BY <1>5, <2>1, NewChannelsTypes DEF ResizeReplaces
<1>6. ASSUME ResizeRestarts PROVE TypeOK' /\ JobsInHand'
  <2>1. StartPool /\ life < MaxLives /\ control' = "idle"
    BY <1>6 DEF ResizeRestarts
  <2> QED
    BY <2>1, StartPoolTypes DEF StartPool
<1>7. ASSUME NEW j \in Jobs, SubmitJob(j) PROVE TypeOK' /\ JobsInHand'
  <2>1. queue' \in Seq(Jobs) /\ Len(queue') <= 2 * size
    <3>1. CASE queue' = queue
      BY <3>1
    <3>2. CASE queue' = Append(queue, j) /\ Len(queue) < 2 * size
      <4>1. size \in Nat
        BY SizeFacts
      <4>2. Len(queue) \in Nat /\ queue' \in Seq(Jobs) /\ Len(queue') = Len(queue) + 1
        BY <3>2, QueueFacts
      <4> QED
        BY <3>2, <4>1, <4>2
    <3> QED
      BY <1>7, <3>1, <3>2 DEF SubmitJob
  <2>2. acceptedIn' \in [Jobs -> 0..MaxLives]
    BY <1>7 DEF SubmitJob
  <2>3. panicked' \in BOOLEAN
    BY <1>7 DEF SubmitJob
  <2> QED
    BY <1>7, <2>1, <2>2, <2>3 DEF SubmitJob
<1>8. ASSUME NEW i \in Ids, Take(i) PROVE TypeOK' /\ JobsInHand'
  <2>1. Head(queue) \in Jobs /\ queue' \in Seq(Jobs) /\ Len(queue') <= 2 * size
    BY <1>8, QueueFacts, SizeFacts DEF Take
  <2> QED
    BY <1>8, <2>1 DEF Take, Become
<1>9. ASSUME NEW i \in Ids, Leave(i) PROVE TypeOK' /\ JobsInHand'
  BY <1>9 DEF Leave, Become
<1>10. ASSUME NEW i \in Ids, Process(i) PROVE TypeOK' /\ JobsInHand'
  BY <1>10 DEF Process, Become
<1>11. ASSUME NEW i \in Ids, Report(i) PROVE TypeOK' /\ JobsInHand'
  <2>1. results' \in 0..size /\ panicked' \in BOOLEAN
    <3>1. size \in Nat
      BY SizeFacts
    <3>2. results' = results \/ (results < size /\ results' = results + 1)
      BY <1>11 DEF Report, HasRoom
    <3>3. results' \in 0..size
      BY <3>1, <3>2
    <3>4. panicked' \in BOOLEAN
      BY <1>11 DEF Report
    <3> QED
      BY <3>3, <3>4
  <2>2. worker' \in [Ids -> {"gone", "select", "process", "report"}]
    BY <1>11 DEF Report, Become
  <2>3. job' \in [Ids -> Jobs \cup {NoJob}]
    BY <1>11 DEF Report, Become
  <2>4. JobsInHand'
    <3>1. CASE UNCHANGED <<worker, job>>
      BY <3>1
    <3>2. CASE \E place \in {"gone", "select"} : Become(i, place, NoJob)
      BY <3>2 DEF Become
    <3> QED
      BY <1>11, <3>1, <3>2 DEF Report
  <2> QED
    BY <1>11, <2>1, <2>2, <2>3, <2>4 DEF Report
<1>12. ASSUME NEW n \in Lives, Collect(n) PROVE TypeOK' /\ JobsInHand'
  BY <1>12, SizeFacts DEF Collect
<1>13. ASSUME NEW n \in Lives, Count(n) PROVE TypeOK' /\ JobsInHand'
  BY <1>13 DEF Count
<1>14. ASSUME NEW n \in Lives, StopCollecting(n) PROVE TypeOK' /\ JobsInHand'
  BY <1>14 DEF StopCollecting
<1>15. ASSUME UNCHANGED vars PROVE TypeOK' /\ JobsInHand'
  BY <1>15 DEF vars
<1> QED
  BY <1>1, <1>2, <1>3, <1>4, <1>5, <1>6, <1>7, <1>8, <1>9, <1>10, <1>11, <1>12, <1>13, <1>14, <1>15 DEF Next, Proceed, Work, Results

-----------------------------------------------------------------------------
\* StartPool: what a restart does to the order of closing.
LEMMA StartKeepsOrder ==
    ASSUME TypeOK, ClosedInOrder, NotReused, StartPool, control' = "idle"
    PROVE  ClosedInOrder' /\ NotReused'
<1>1. ClosedInOrder'
  BY DEF StartPool, ClosedInOrder, channels
<1>2. ASSUME ~reused' PROVE ~jobChClosed /\ ~resultChClosed
  BY <1>2 DEF StartPool, ClosedInOrder
<1> QED
  BY <1>1, <1>2 DEF StartPool, NotReused, channels

\* Workers leave and nobody comes back while resultCh is closed.
LEMMA GoneStaysGone ==
    ASSUME AllGone, worker' = worker
    PROVE  AllGone'
BY DEF AllGone

\* The order in which the channels are closed, and that a panic needs a
\* restart on closed channels, are kept by every step.
LEMMA OrderStep ==
    ASSUME PoolInv, [Next]_vars
    PROVE  ClosedInOrder' /\ NotReused' /\ PanicsOnlyWhenReused'
<1> DEFINE Goal == ClosedInOrder' /\ NotReused' /\ PanicsOnlyWhenReused'
<1> USE DEF PoolInv, PanicsOnlyWhenReused, history, channels, goroutines
<1>1. ASSUME Start PROVE Goal
  <2>1. StartPool /\ control' = "idle" /\ ~panicked
    BY <1>1 DEF Start
  <2> QED
    BY <2>1, StartKeepsOrder DEF StartPool
<1>2. ASSUME NEW for \in Sizes \cup {0}, BeginStop(for) PROVE Goal
  <2>1. ClosedInOrder'
    BY <1>2 DEF BeginStop, ClosedInOrder
  <2>2. ASSUME ~reused PROVE ~jobChClosed /\ ~resultChClosed
    BY <1>2, <2>2 DEF BeginStop, NotReused, ClosedInOrder
  <2>3. NotReused'
    BY <1>2, <2>2 DEF BeginStop, NotReused
  <2> QED
    BY <1>2, <2>1, <2>2, <2>3 DEF BeginStop
<1>3. ASSUME EndStop PROVE Goal
  <2>1. ClosedInOrder'
    BY <1>3 DEF EndStop, ClosedInOrder, TypeOK
  <2>2. ASSUME ~reused PROVE ~resultChClosed /\ ~running
    BY <1>3, <2>2 DEF EndStop, NotReused, ClosedInOrder
  <2>3. AllGone'
    BY <1>3, GoneStaysGone DEF EndStop, WaitOver
  <2>4. NotReused'
    BY <1>3, <2>2, <2>3 DEF EndStop, NotReused
  <2> QED
    BY <1>3, <2>1, <2>2, <2>4 DEF EndStop
<1>4. ASSUME NEW n \in Sizes, ResizeStopped(n) PROVE Goal
  BY <1>4 DEF ResizeStopped, NewChannels, ClosedInOrder, NotReused
<1>5. ASSUME ResizeReplaces PROVE Goal
  BY <1>5 DEF ResizeReplaces, NewChannels, ClosedInOrder, NotReused
<1>6. ASSUME ResizeRestarts PROVE Goal
  <2>1. StartPool /\ control' = "idle" /\ ~panicked
    BY <1>6 DEF ResizeRestarts
  <2> QED
    BY <2>1, StartKeepsOrder DEF StartPool
<1>7. ASSUME NEW j \in Jobs, SubmitJob(j) PROVE Goal
  <2>1. ClosedInOrder' /\ NotReused'
    BY <1>7, GoneStaysGone DEF SubmitJob, ClosedInOrder, NotReused
  <2>2. ASSUME ~reused PROVE ~panicked'
    BY <1>7, <2>2 DEF SubmitJob, NotReused
  <2> QED
    BY <1>7, <2>1, <2>2 DEF SubmitJob
<1>8. ASSUME NEW i \in Ids, Work(i) PROVE Goal
  <2>1. worker[i] # "gone"
    BY <1>8 DEF Work, Take, Leave, Process, Report
  <2>2. ASSUME ~reused PROVE ~resultChClosed
    BY <2>1, <2>2 DEF NotReused, AllGone
  <2>3. UNCHANGED <<running, control, target, jobChClosed, resultChClosed, reused>>
    BY <1>8 DEF Work, Take, Leave, Process, Report
  <2>4. ~resultChClosed => panicked' = panicked
    BY <1>8 DEF Work, Take, Leave, Process, Report
  <2>5. ClosedInOrder'
    BY <2>3 DEF ClosedInOrder
  <2>6. NotReused'
    BY <2>2, <2>3 DEF NotReused
  <2> QED
    BY <2>2, <2>3, <2>4, <2>5, <2>6
<1>9. ASSUME NEW n \in Lives, Results(n) PROVE Goal
  <2>1. UNCHANGED <<running, control, target, jobChClosed, resultChClosed, reused,
                    worker, panicked>>
    BY <1>9 DEF Results, Collect, Count, StopCollecting
  <2>2. ClosedInOrder'
    BY <2>1 DEF ClosedInOrder
  <2>3. NotReused'
    BY <2>1, GoneStaysGone DEF NotReused
  <2> QED
    BY <2>1, <2>2, <2>3
<1>10. ASSUME UNCHANGED vars PROVE Goal
  BY <1>10, GoneStaysGone DEF vars, ClosedInOrder, NotReused
<1> QED
  BY <1>1, <1>2, <1>3, <1>4, <1>5, <1>6, <1>7, <1>8, <1>9, <1>10 DEF Next, Proceed

\* The inductive invariant of the pool.
THEOREM PoolInvariant == Spec => []PoolInv
<1>1. PoolInv /\ [Next]_vars => PoolInv'
  BY TypeStep, OrderStep DEF PoolInv
<1> QED
  BY PoolInit, <1>1, PTL DEF Spec

\* The variables keep their types: the queue never holds more than twice as
\* many jobs as there are workers, the result channel never more results than
\* workers, across every Resize.
THEOREM PoolTypeCorrect == Spec => []TypeOK
<1>1. PoolInv => TypeOK
  BY DEF PoolInv
<1> QED
  BY PoolInvariant, <1>1, PTL

\* No send and no close hits a closed channel, whatever submits, works, stops
\* and resizes at the same time, unless the pool was started again on the
\* channels a Stop had closed.
THEOREM NoPanicUnlessReused == Spec => []PanicsOnlyWhenReused
<1>1. PoolInv => PanicsOnlyWhenReused
  BY DEF PoolInv
<1> QED
  BY PoolInvariant, <1>1, PTL

-----------------------------------------------------------------------------
\* A worker that leaves a channel which is not cancelled leaves an empty one.
LEMMA WorkersStep ==
    ASSUME PoolInv, FirstLife, [Next]_vars
    PROVE  Unstarted' /\ FirstWorkers'
<1> DEFINE Goal == Unstarted' /\ FirstWorkers'
<1> USE DEF history, channels, goroutines, Serving
<1>0. TypeOK /\ ClosedInOrder /\ Unstarted /\ FirstWorkers
  BY DEF PoolInv, FirstLife
<1>1. ASSUME StartPool, ~running, control # "stopping" PROVE Goal
  <2>1. life' = life + 1 /\ life \in Nat /\ cancelled' = cancelled /\ running'
    BY <1>0, <1>1 DEF StartPool, TypeOK
  <2>2. 1 \in Ids /\ 1 <= size
    BY <1>0, SizeFacts, WorkerPoolConstants DEF TypeOK, Ids
  <2>3. ~AllGone'
    BY <1>1, <2>2 DEF StartPool, AllGone
  <2>4. life' = 1 => ~cancelled'
    BY <1>0, <2>1 DEF Unstarted
  <2> QED
    BY <2>1, <2>3, <2>4 DEF Unstarted, FirstWorkers
<1>2. ASSUME NEW for \in Sizes \cup {0}, BeginStop(for) PROVE Goal
  <2>1. AllGone' = AllGone
    BY <1>2 DEF BeginStop, AllGone
  <2> QED
    BY <1>0, <1>2, <2>1 DEF BeginStop, Unstarted, FirstWorkers
<1>3. ASSUME EndStop PROVE Goal
  <2>1. AllGone /\ AllGone' /\ ~Serving'
    BY <1>0, <1>3, GoneStaysGone DEF EndStop, WaitOver, ClosedInOrder
  <2> QED
    BY <1>0, <1>3, <2>1 DEF EndStop, Unstarted, FirstWorkers
<1>4. ASSUME NEW n, NewChannels(n), ~running, running' = running, life' = life,
             control # "stopping", control' = control \/ control = "stopped",
             control' # "stopping", cancelled' = cancelled, worker' = worker
      PROVE  Goal
  <2>1. AllGone => AllGone'
    BY <1>4, GoneStaysGone
  <2> QED
    BY <1>0, <1>4, <2>1 DEF NewChannels, Unstarted, FirstWorkers
<1>5. ASSUME NEW j \in Jobs, SubmitJob(j) PROVE Goal
  <2>1. AllGone' = AllGone
    BY <1>5 DEF SubmitJob, AllGone
  <2>2. running /\ (jobChClosed => queue' = queue)
    BY <1>5 DEF SubmitJob
  <2> QED
    BY <1>0, <1>5, <2>1, <2>2 DEF SubmitJob, Unstarted, FirstWorkers
<1>6. ASSUME NEW i \in Ids, Work(i) PROVE Goal
  <2>1. /\ ~AllGone
        /\ UNCHANGED <<running, size, jobChClosed, cancelled, control, life>>
    BY <1>6 DEF Work, Take, Leave, Process, Report, AllGone
  <2>2. ASSUME life = 1 PROVE Serving /\ ~cancelled
    BY <1>0, <2>1, <2>2 DEF FirstWorkers
  <2>3. ASSUME life = 1, AllGone' PROVE jobChClosed /\ queue' = <<>>
    <3>1. worker[i] # "gone" /\ worker'[i] = "gone"
      BY <1>6, <2>3 DEF AllGone, Work, Take, Leave, Process, Report
    <3>2. Leave(i)
      BY <1>0, <1>6, <2>2, <2>3, <3>1 DEF TypeOK, Work, Take, Process, Report, Become
    <3> QED
      BY <2>2, <2>3, <3>2 DEF Leave, Drained
  <2> QED
    BY <1>0, <2>1, <2>2, <2>3 DEF Unstarted, FirstWorkers
<1>7. ASSUME UNCHANGED <<running, queue, jobChClosed, cancelled, control, life, worker>>
      PROVE  Goal
  <2>1. AllGone' = AllGone
    BY <1>7 DEF AllGone
  <2> QED
    BY <1>0, <1>7, <2>1 DEF Unstarted, FirstWorkers
<1>8. ASSUME NEW n \in Lives, Results(n) PROVE Goal
  BY <1>7, <1>8 DEF Results, Collect, Count, StopCollecting
<1>9. ASSUME Start PROVE Goal
  BY <1>1, <1>9 DEF Start
<1>10. ASSUME NEW n \in Sizes, ResizeStopped(n) PROVE Goal
  BY <1>4, <1>10 DEF ResizeStopped
<1>11. ASSUME ResizeReplaces PROVE Goal
  <2>1. ~running
    BY <1>0, <1>11 DEF ResizeReplaces, ClosedInOrder
  <2> QED
    BY <1>4, <1>11, <2>1 DEF ResizeReplaces
<1>12. ASSUME ResizeRestarts PROVE Goal
  <2>1. ~running
    BY <1>0, <1>12 DEF ResizeRestarts, ClosedInOrder
  <2> QED
    BY <1>1, <1>12, <2>1 DEF ResizeRestarts
<1>13. ASSUME UNCHANGED vars PROVE Goal
  BY <1>7, <1>13 DEF vars
<1> QED
  BY <1>2, <1>3, <1>5, <1>6, <1>8, <1>9, <1>10, <1>11, <1>12, <1>13 DEF Next, Proceed

\* The queue after a receive: what was not taken still waits.
LEMMA TakenOrWaiting ==
    ASSUME NEW q \in Seq(Jobs), q # <<>>, NEW k \in 1..Len(q)
    PROVE  q[k] = Head(q) \/ \E m \in 1..Len(Tail(q)) : Tail(q)[m] = q[k]
<1>1. Len(q) \in Nat /\ Len(Tail(q)) = Len(q) - 1
  BY QueueFacts
<1>2. CASE k = 1
  BY <1>2
<1>3. CASE k # 1
  <2>1. k - 1 \in 1..Len(Tail(q))
    BY <1>1, <1>3
  <2>2. Tail(q)[k - 1] = q[k]
    BY <1>1, <1>3, <2>1
  <2> QED
    BY <2>1, <2>2
<1> QED
  BY <1>2, <1>3

\* The queue after a send: the new job waits, and so does what waited.
LEMMA SentWaits ==
    ASSUME NEW q \in Seq(Jobs), NEW j \in Jobs
    PROVE  /\ Len(Append(q, j)) \in Nat /\ Len(Append(q, j)) \in 1..Len(Append(q, j))
           /\ Append(q, j)[Len(Append(q, j))] = j
           /\ \A k \in 1..Len(q) : k \in 1..Len(Append(q, j)) /\ Append(q, j)[k] = q[k]
BY QueueFacts

\* An accepted job is somewhere on its way in the first life.
LEMMA JobsStep ==
    ASSUME PoolInv, FirstLife, [Next]_vars
    PROVE  FirstJobs'
<1> USE DEF history, channels, goroutines
<1>0. TypeOK /\ ClosedInOrder /\ Unstarted /\ FirstWorkers /\ FirstJobs
  BY DEF PoolInv, FirstLife
<1> DEFINE OnItsWay(k) == k \in processed \/ Waiting(k) \/ InWork(k)
<1>1. ASSUME StartPool PROVE FirstJobs'
  <2>1. life' = life + 1 /\ life \in Nat /\ acceptedIn' = acceptedIn
    BY <1>0, <1>1 DEF StartPool, TypeOK
  <2>2. \A k \in Jobs : acceptedIn[k] \in Nat /\ acceptedIn[k] <= life
    BY <1>0 DEF TypeOK, FirstJobs
  <2>3. life' = 1 => \A k \in Jobs : acceptedIn'[k] # 1
    BY <2>1, <2>2
  <2>4. \A k \in Jobs : acceptedIn'[k] <= life'
    BY <2>1, <2>2
  <2> QED
    BY <2>3, <2>4 DEF FirstJobs
<1>2. ASSUME life' = life, acceptedIn' = acceptedIn,
             \A k \in Jobs : life = 1 /\ acceptedIn[k] = 1 /\ OnItsWay(k) => OnItsWay(k)'
      PROVE  FirstJobs'
  BY <1>0, <1>2 DEF FirstJobs
<1>3. ASSUME life' = life, UNCHANGED <<acceptedIn, processed, worker, job>>,
             life = 1 => queue' = queue
      PROVE  FirstJobs'
  BY <1>2, <1>3 DEF Waiting, InWork
<1>4. ASSUME NEW n, NewChannels(n), ~running, control # "stopping", life' = life,
             UNCHANGED <<acceptedIn, processed, worker, job>>
      PROVE  FirstJobs'
  <2>1. life = 1 => queue' = queue
    BY <1>0, <1>4 DEF FirstWorkers, Serving, NewChannels
  <2> QED
    BY <1>3, <1>4, <2>1
<1>5. ASSUME NEW j \in Jobs, SubmitJob(j) PROVE FirstJobs'
  <2>1. CASE UNCHANGED <<queue, acceptedIn>>
    BY <1>3, <1>5, <2>1 DEF SubmitJob
  <2>2. CASE queue' = Append(queue, j) /\ acceptedIn' = [acceptedIn EXCEPT ![j] = life]
    <3>1. queue \in Seq(Jobs) /\ life \in Nat /\ \A k \in Jobs : acceptedIn[k] \in Nat
      BY <1>0 DEF TypeOK
    <3>2. Waiting(j)'
      BY <2>2, <3>1, SentWaits DEF Waiting
    <3>3. \A k \in Jobs : Waiting(k) => Waiting(k)'
      BY <2>2, <3>1, SentWaits DEF Waiting
    <3>4. \A k \in Jobs : InWork(k) => InWork(k)'
      BY <1>5 DEF SubmitJob, InWork
    <3>5. \A k \in Jobs : acceptedIn'[k] = IF k = j THEN life ELSE acceptedIn[k]
      BY <1>0, <2>2 DEF TypeOK
    <3>6. UNCHANGED <<life, processed>>
      BY <1>5 DEF SubmitJob
    <3>7. \A k \in Jobs : acceptedIn'[k] <= life'
      BY <1>0, <3>1, <3>5, <3>6 DEF FirstJobs
    <3>8. ASSUME life = 1, NEW k \in Jobs, acceptedIn'[k] = 1 PROVE OnItsWay(k)'
      <4>1. CASE k = j
        BY <3>2, <4>1
      <4>2. CASE k # j
        BY <1>0, <3>3, <3>4, <3>5, <3>6, <3>8, <4>2 DEF FirstJobs
      <4> QED
        BY <4>1, <4>2
    <3> QED
      BY <3>6, <3>7, <3>8 DEF FirstJobs
  <2> QED
    BY <1>5, <2>1, <2>2 DEF SubmitJob
<1>6. ASSUME NEW i \in Ids, Take(i) PROVE FirstJobs'
  <2>1. queue \in Seq(Jobs) /\ queue # <<>> /\ queue' = Tail(queue)
    BY <1>0, <1>6 DEF Take, TypeOK
  <2>2. worker'[i] = "process" /\ job'[i] = Head(queue) /\ worker[i] = "select"
    BY <1>0, <1>6 DEF Take, Become, TypeOK
  <2>3. \A h \in Ids \ {i} : worker'[h] = worker[h] /\ job'[h] = job[h]
    BY <1>0, <1>6 DEF Take, Become, TypeOK
  <2>4. \A k \in Jobs : Waiting(k) => Waiting(k)' \/ InWork(k)'
    BY <2>1, <2>2, TakenOrWaiting DEF Waiting, InWork
  <2>5. \A k \in Jobs : InWork(k) => InWork(k)'
    BY <2>2, <2>3 DEF InWork
  <2> QED
    BY <1>2, <1>6, <2>4, <2>5 DEF Take
<1>7. ASSUME NEW i \in Ids, Process(i) PROVE FirstJobs'
  <2>1. processed' = processed \cup {job[i]} /\ queue' = queue
    BY <1>7 DEF Process
  <2>2. \A h \in Ids \ {i} : worker'[h] = worker[h] /\ job'[h] = job[h]
    BY <1>0, <1>7 DEF Process, Become, TypeOK
  <2>3. \A k \in Jobs : InWork(k) => k \in processed' \/ InWork(k)'
    BY <2>1, <2>2 DEF InWork
  <2>4. \A k \in Jobs : Waiting(k) => Waiting(k)'
    BY <2>1 DEF Waiting
  <2> QED
    BY <1>2, <1>7, <2>1, <2>3, <2>4 DEF Process
<1>8. ASSUME NEW i \in Ids, Leave(i) \/ Report(i) PROVE FirstJobs'
  <2>1. worker[i] # "process" /\ UNCHANGED <<queue, life, acceptedIn, processed>>
    BY <1>8 DEF Leave, Report
  <2>2. \A h \in Ids \ {i} : worker'[h] = worker[h] /\ job'[h] = job[h]
    BY <1>0, <1>8 DEF Leave, Report, Become, TypeOK
  <2>3. \A k \in Jobs : (InWork(k) => InWork(k)') /\ (Waiting(k) => Waiting(k)')
    BY <2>1, <2>2 DEF InWork, Waiting
  <2> QED
    BY <1>2, <2>1, <2>3
<1>9. ASSUME NEW n \in Lives, Results(n) PROVE FirstJobs'
  BY <1>3, <1>9 DEF Results, Collect, Count, StopCollecting
<1>10. ASSUME NEW for \in Sizes \cup {0}, BeginStop(for) PROVE FirstJobs'
  BY <1>3, <1>10 DEF BeginStop
<1>11. ASSUME EndStop PROVE FirstJobs'
  BY <1>3, <1>11 DEF EndStop
<1>12. ASSUME NEW n \in Sizes, ResizeStopped(n) PROVE FirstJobs'
  BY <1>4, <1>12 DEF ResizeStopped
<1>13. ASSUME ResizeReplaces PROVE FirstJobs'
  <2>1. ~running
    BY <1>0, <1>13 DEF ResizeReplaces, ClosedInOrder
  <2> QED
    BY <1>4, <1>13, <2>1 DEF ResizeReplaces
<1>14. ASSUME UNCHANGED vars PROVE FirstJobs'
  BY <1>3, <1>14 DEF vars
<1> QED
  BY <1>1, <1>5, <1>6, <1>7, <1>8, <1>9, <1>10, <1>11, <1>12, <1>13, <1>14
     DEF Next, Proceed, Work, Start, ResizeRestarts

\* A new pool has accepted nothing.
LEMMA FirstLifeInit == Init => FirstLife
BY WorkerPoolConstants DEF Init, FirstLife, Unstarted, FirstWorkers, FirstJobs

\* What makes the first Stop graceful holds throughout.
THEOREM FirstLifeInvariant == Spec => []FirstLife
<1>1. PoolInv /\ FirstLife /\ [Next]_vars => FirstLife'
  BY WorkersStep, JobsStep DEF FirstLife
<1> QED
  BY FirstLifeInit, PoolInvariant, <1>1, PTL DEF Spec

\* When the first Stop returns, every job SubmitJob had accepted has been
\* performed, for any number of workers and of jobs still in the queue.
THEOREM StopDrainsHolds == Spec => StopDrains
<1> DEFINE Drains == control = "stopping" /\ control' # "stopping" /\ life = 1
                        => \A j \in Jobs : acceptedIn[j] = 1 => j \in processed
<1>1. PoolInv /\ FirstLife /\ [Next]_vars => Drains
  <2> SUFFICES ASSUME PoolInv, FirstLife, [Next]_vars, control = "stopping",
                      control' # "stopping", life = 1
               PROVE  \A j \in Jobs : acceptedIn[j] = 1 => j \in processed
    OBVIOUS
  <2>1. EndStop
    BY DEF Next, vars, Start, BeginStop, ResizeStopped, Proceed, ResizeReplaces,
           ResizeRestarts, SubmitJob, Work, Take, Leave, Process, Report,
           Results, Collect, Count, StopCollecting
  <2>2. AllGone /\ queue = <<>>
    BY <2>1 DEF EndStop, WaitOver, FirstLife, FirstWorkers, Serving
  <2>3. \A j \in Jobs : ~Waiting(j) /\ ~InWork(j)
    BY <2>2, EmptyQueue DEF AllGone, Waiting, InWork
  <2> QED
    BY <2>3 DEF FirstLife, FirstJobs
<1>2. PoolInv /\ FirstLife /\ [Next]_vars => [Drains]_vars
  BY <1>1
<1> QED
  BY PoolInvariant, FirstLifeInvariant, <1>2, PTL DEF Spec, StopDrains
=============================================================================
