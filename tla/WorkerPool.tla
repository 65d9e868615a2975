------------------------------ MODULE WorkerPool ------------------------------
(***************************************************************************)
(* The pool of goroutines that performs cache warm-up jobs                 *)
(* (backend/internal/cache/worker_pool.go): a buffered channel of jobs,    *)
(* workers, a buffered channel of results and one goroutine that collects  *)
(* them.                                                                   *)
(*                                                                         *)
(* Stop holds the pool's lock while it waits for the workers; the          *)
(* collector needs that lock for every result it takes.  Everything else   *)
(* under the lock is short and is one step here, possible when Stop does   *)
(* not hold it.  A Go select that finds several cases ready takes any of   *)
(* them, also one that panics (a send on a closed channel).                *)
(*                                                                         *)
(* "life" counts the calls of Start that did something.  The context of    *)
(* the pool is made by NewWorkerPool and cancelled by the first Stop, so   *)
(* a pool in its second life has a cancelled one.                          *)
(*                                                                         *)
(* Calls that change nothing (SubmitJob refused or dropped on a full       *)
(* queue, Start of a running pool, Stop of a stopped one) are stuttering   *)
(* steps.  The statistics are left out.                                    *)
(***************************************************************************)
EXTENDS Integers, Sequences

CONSTANTS
    Jobs,        \* warm-up jobs
    Sizes,       \* numbers of workers the pool may be given
    MaxSize,     \* the largest of them
    FirstSize,   \* the number given to NewWorkerPool
    MaxLives     \* bound on the number of Starts

ASSUME WorkerPoolConstants ==
    /\ MaxSize \in Nat /\ Sizes \subseteq 1..MaxSize
    /\ FirstSize \in Sizes
    /\ MaxLives \in Nat

VARIABLES
    running, size,           \* wp.running, wp.workers
    queue, jobChClosed,      \* wp.jobCh
    results, resultChClosed, \* wp.resultCh: how many results are in it
    cancelled,               \* wp.ctx is done
    worker,                  \* worker[i]: where worker i is
    job,                     \* job[i]: the job worker i has taken
    collector,               \* collector[n]: the one started in life n
    control,                 \* where Stop or Resize is
    target,                  \* the argument of Resize, 0 in a plain Stop
    life,
    panicked,                \* the process has died of a panic
    acceptedIn,              \* history: acceptedIn[j], life SubmitJob said yes in
    processed,               \* history: the jobs processJob has performed
    reused                   \* history: Start has found a closed jobCh

channels == <<queue, jobChClosed, results, resultChClosed>>
goroutines == <<worker, job, collector>>
history == <<acceptedIn, processed, reused>>
vars == <<running, size, channels, cancelled, goroutines, control, target, life,
          panicked, history>>

Ids == 1..MaxSize
Lives == 1..MaxLives
NoJob == "none"

TypeOK ==
    /\ running \in BOOLEAN /\ size \in Sizes
    /\ queue \in Seq(Jobs) /\ Len(queue) <= 2 * size
    /\ results \in 0..size
    /\ jobChClosed \in BOOLEAN /\ resultChClosed \in BOOLEAN
    /\ cancelled \in BOOLEAN
    /\ worker \in [Ids -> {"gone", "select", "process", "report"}]
    /\ job \in [Ids -> Jobs \cup {NoJob}]
    /\ collector \in [Lives -> {"gone", "select", "lock"}]
    /\ control \in {"idle", "stopping", "stopped", "replaced"}
    /\ target \in Sizes \cup {0}
    /\ life \in 0..MaxLives
    /\ panicked \in BOOLEAN
    /\ acceptedIn \in [Jobs -> 0..MaxLives]
    /\ processed \subseteq Jobs
    /\ reused \in BOOLEAN

\* NewWorkerPool
Init ==
    /\ running = FALSE /\ size = FirstSize
    /\ queue = <<>> /\ results = 0
    /\ jobChClosed = FALSE /\ resultChClosed = FALSE /\ cancelled = FALSE
    /\ worker = [i \in Ids |-> "gone"]
    /\ job = [i \in Ids |-> NoJob]
    /\ collector = [n \in Lives |-> "gone"]
    /\ control = "idle" /\ target = 0 /\ life = 0
    /\ panicked = FALSE
    /\ acceptedIn = [j \in Jobs |-> 0] /\ processed = {} /\ reused = FALSE
-----------------------------------------------------------------------------
\* wp.mu can be taken by others.
Unlocked == control # "stopping"

\* wp.wg has counted down.
AllGone == \A i \in Ids : worker[i] = "gone"

StartPool ==
    /\ running' = TRUE
    /\ worker' = [i \in Ids |-> IF i <= size THEN "select" ELSE "gone"]
    /\ collector' = [collector EXCEPT ![life + 1] = "select"]
    /\ life' = life + 1
    /\ reused' = (reused \/ jobChClosed)
    /\ UNCHANGED <<size, channels, cancelled, job, target, panicked,
                   acceptedIn, processed>>

Start ==
    /\ ~panicked /\ control = "idle" /\ ~running /\ life < MaxLives
    /\ StartPool
    /\ UNCHANGED control

\* Stop up to wg.Wait, called on its own or (for = a size) by Resize.
BeginStop(for) ==
    /\ ~panicked /\ control = "idle" /\ running
    /\ running' = FALSE
    /\ IF jobChClosed
       THEN panicked' = TRUE /\ UNCHANGED jobChClosed
       ELSE jobChClosed' = TRUE /\ UNCHANGED panicked
    /\ control' = "stopping" /\ target' = for
    /\ UNCHANGED <<size, queue, results, resultChClosed, cancelled, goroutines,
                   life, history>>

(* Mutant of WaitOver: wg.Wait is forgotten. *)
DoNotWait == TRUE

WaitOver == AllGone

\* Stop from the return of wg.Wait on.
EndStop ==
    /\ ~panicked /\ control = "stopping" /\ WaitOver
    /\ cancelled' = TRUE
    /\ IF resultChClosed
       THEN panicked' = TRUE /\ UNCHANGED resultChClosed
       ELSE resultChClosed' = TRUE /\ UNCHANGED panicked
    /\ control' = IF target = 0 THEN "idle" ELSE "stopped"
    /\ UNCHANGED <<running, size, queue, jobChClosed, results, goroutines,
                   target, life, history>>

\* Resize makes new channels, without the lock; the context stays.
NewChannels(n) ==
    /\ size' = n
    /\ queue' = <<>> /\ jobChClosed' = FALSE
    /\ results' = 0 /\ resultChClosed' = FALSE

ResizeStopped(n) ==
    /\ ~panicked /\ control = "idle" /\ ~running
    /\ NewChannels(n)
    /\ UNCHANGED <<running, cancelled, goroutines, control, target, life,
                   panicked, history>>

ResizeReplaces ==
    /\ ~panicked /\ control = "stopped"
    /\ NewChannels(target)
    /\ control' = "replaced"
    /\ UNCHANGED <<running, cancelled, goroutines, target, life, panicked, history>>

ResizeRestarts ==
    /\ ~panicked /\ control = "replaced" /\ life < MaxLives
    /\ StartPool
    /\ control' = "idle"
-----------------------------------------------------------------------------
\* SubmitJob; SubmitJobs is a sequence of these.
SubmitJob(j) ==
    /\ ~panicked /\ Unlocked /\ running
    /\ acceptedIn[j] = 0
    /\ \/ /\ ~jobChClosed /\ Len(queue) < 2 * size
          /\ queue' = Append(queue, j)
          /\ acceptedIn' = [acceptedIn EXCEPT ![j] = life]
          /\ UNCHANGED panicked
       \/ /\ jobChClosed
          /\ panicked' = TRUE
          /\ UNCHANGED <<queue, acceptedIn>>
    /\ UNCHANGED <<running, size, jobChClosed, results, resultChClosed, cancelled,
                   goroutines, control, target, life, processed, reused>>

Become(i, place, j) ==
    /\ worker' = [worker EXCEPT ![i] = place]
    /\ job' = [job EXCEPT ![i] = j]

\* worker: the select for the next job.
Take(i) ==
    /\ ~panicked /\ worker[i] = "select"
    /\ queue # <<>>
    /\ queue' = Tail(queue)
    /\ Become(i, "process", Head(queue))
    /\ UNCHANGED <<running, size, jobChClosed, results, resultChClosed, cancelled,
                   collector, control, target, life, panicked, history>>

(* Mutant of Drained: what is still in a closed channel is not received. *)
ClosedAtOnce == jobChClosed

Drained == jobChClosed /\ queue = <<>>

Leave(i) ==
    /\ ~panicked /\ worker[i] = "select"
    /\ cancelled \/ Drained
    /\ Become(i, "gone", NoJob)
    /\ UNCHANGED <<running, size, channels, cancelled, collector, control, target,
                   life, panicked, history>>

\* processJob: the cache has been set, or it could not be.
Process(i) ==
    /\ ~panicked /\ worker[i] = "process"
    /\ processed' = processed \cup {job[i]}
    /\ Become(i, "report", job[i])
    /\ UNCHANGED <<running, size, channels, cancelled, collector, control, target,
                   life, panicked, acceptedIn, reused>>

(* Mutant of MayDrop: the default case is missing. *)
NeverDrop == FALSE

HasRoom == results < size

\* A result may be dropped when nothing else is possible.
MayDrop == results = size /\ ~resultChClosed /\ ~cancelled

\* worker: the select that hands the result over.
Report(i) ==
    /\ ~panicked /\ worker[i] = "report"
    /\ \/ /\ ~resultChClosed /\ HasRoom
          /\ results' = results + 1
          /\ Become(i, "select", NoJob)
          /\ UNCHANGED panicked
       \/ /\ resultChClosed
          /\ panicked' = TRUE
          /\ UNCHANGED <<results, worker, job>>
       \/ /\ cancelled
          /\ Become(i, "gone", NoJob)
          /\ UNCHANGED <<results, panicked>>
       \/ /\ MayDrop
          /\ Become(i, "select", NoJob)
          /\ UNCHANGED <<results, panicked>>
    /\ UNCHANGED <<running, size, queue, jobChClosed, resultChClosed, cancelled,
                   collector, control, target, life, history>>

\* resultCollector
Collect(n) ==
    /\ ~panicked /\ collector[n] = "select" /\ results > 0
    /\ results' = results - 1
    /\ collector' = [collector EXCEPT ![n] = "lock"]
    /\ UNCHANGED <<running, size, queue, jobChClosed, resultChClosed, cancelled,
                   worker, job, control, target, life, panicked, history>>

Count(n) ==
    /\ ~panicked /\ collector[n] = "lock" /\ Unlocked
    /\ collector' = [collector EXCEPT ![n] = "select"]
    /\ UNCHANGED <<running, size, channels, cancelled, worker, job, control,
                   target, life, panicked, history>>

StopCollecting(n) ==
    /\ ~panicked /\ collector[n] = "select"
    /\ cancelled \/ (resultChClosed /\ results = 0)
    /\ collector' = [collector EXCEPT ![n] = "gone"]
    /\ UNCHANGED <<running, size, channels, cancelled, worker, job, control,
                   target, life, panicked, history>>

Work(i) == Take(i) \/ Leave(i) \/ Process(i) \/ Report(i)
Results(n) == Collect(n) \/ Count(n) \/ StopCollecting(n)
Proceed == EndStop \/ ResizeReplaces \/ ResizeRestarts

Next ==
    \/ Start
    \/ \E for \in Sizes \cup {0} : BeginStop(for)
    \/ \E n \in Sizes : ResizeStopped(n)
    \/ Proceed
    \/ \E j \in Jobs : SubmitJob(j)
    \/ \E i \in Ids : Work(i)
    \/ \E n \in Lives : Results(n)

Spec == Init /\ [][Next]_vars

\* Goroutines run and cache calls return.  Nobody has to start, stop or use
\* the pool.
Fairness ==
    /\ WF_vars(Proceed)
    /\ \A i \in Ids : WF_vars(Work(i))
    /\ \A n \in Lives : WF_vars(Results(n))

FairSpec == Spec /\ Fairness
-----------------------------------------------------------------------------
\* Closing the two channels never collides with a send or with another close,
\* whoever submits, works, stops and resizes at the same time: only a pool that
\* was stopped and started again without a Resize can panic.
PanicsOnlyWhenReused == panicked => reused

\* A worker that performs or reports a job has one.
JobsInHand ==
    \A i \in Ids : worker[i] \in {"process", "report"} => job[i] \in Jobs

\* Stop closes jobCh first; a pool that Stop or Resize works on is not running,
\* and only a Resize goes on after its Stop.
ClosedInOrder ==
    /\ resultChClosed => jobChClosed
    /\ control = "stopping" => jobChClosed
    /\ control # "idle" => ~running
    /\ control = "stopped" => target \in Sizes

\* Without a restart on closed channels a running pool has open ones, and
\* nobody is left to send when resultCh is closed.
NotReused ==
    ~reused =>
        /\ running => ~jobChClosed
        /\ control = "stopping" => ~resultChClosed
        /\ resultChClosed => AllGone

\* No send and no close hits a closed channel, whoever submits, works, stops and
\* resizes at the same time, unless the pool was reused; with what that rests on.
\* (Inductive.)
PoolInv ==
    /\ TypeOK
    /\ JobsInHand
    /\ ClosedInOrder
    /\ NotReused
    /\ PanicsOnlyWhenReused

\* Stop is graceful: when it returns for the first time every job SubmitJob
\* had said yes to has been performed, those still in the queue included.
StopDrains ==
    [][control = "stopping" /\ control' # "stopping" /\ life = 1
         => \A j \in Jobs : acceptedIn[j] = 1 => j \in processed]_vars

\* Stop and Resize return, although they hold the lock the collector waits for
\* while the workers wait for room in the channel the collector empties.
StopReturns == control = "stopping" ~> (control # "stopping" \/ panicked)

\* A job SubmitJob accepts in the first life of the pool is performed, with or
\* without a Stop.
FirstLifeJobsRun == \A j \in Jobs : acceptedIn[j] = 1 ~> j \in processed
=============================================================================
