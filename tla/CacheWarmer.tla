----------------------------- MODULE CacheWarmer -----------------------------
(***************************************************************************)
(* The legacy cache warmer: CacheWarmer (backend/internal/cache/warmer.go) *)
(* with its JobScheduler (job_scheduler.go), two PriorityQueues            *)
(* (priority_queue.go) and WorkerPool, in the configuration of the program *)
(* (UseWorkerPool and UseScheduler).                                       *)
(*                                                                         *)
(* Start releases the warmer's lock before it starts the pool and the      *)
(* scheduler and copies the jobs known so far into the scheduler's queue,  *)
(* so AddWarmupJob, which holds that lock, runs in between.  The scheduler *)
(* goroutine ("loop") and callers of WarmCacheManually ("manual") take     *)
(* batches from the same queue, one Pop at a time, and submit them to the  *)
(* pool, which is abstracted to its channel here (see WorkerPool.tla).     *)
(*                                                                         *)
(* The warmer is started and stopped at most once, as in main.go.          *)
(***************************************************************************)
EXTENDS Integers, Sequences, FiniteSets

CONSTANTS
    Jobs,       \* warm-up jobs
    Priority,   \* Priority[j]: the higher the earlier
    Initial,    \* the jobs of the strategy given to NewCacheWarmer
    Capacity    \* cap(jobCh) of the pool, also the size of a batch

ASSUME CacheWarmerConstants ==
    /\ Priority \in [Jobs -> Int]
    /\ Initial \subseteq Jobs
    /\ Capacity \in Nat \ {0}

Batchers == {"loop", "manual"}

VARIABLES
    start,      \* where Start is
    copying,    \* what GetJobs returned and ScheduleJobs has still to push
    stop,       \* where Stop is
    known,      \* cw.priorityQueue, from which nothing is ever taken
    adding,     \* {} or the job AddWarmupJob holds cw.mu for
    scheduling, \* js.running
    queue,      \* js.queue: how often each job is in it
    batch,      \* batch[b]: the jobs b has taken and not yet submitted
    taking,     \* taking[b]: how many jobs b may still take
    pool,       \* the pool's jobCh
    poolOpen,   \* the pool is running
    scheduled,  \* history: the jobs pushed to js.queue
    performed,  \* history: the jobs the pool has performed
    dropped,    \* history: the jobs SubmitJob said no to
    crowded     \* history: a batch was begun while the pool had work left

warmer == <<start, copying, stop, known, adding>>
scheduler == <<scheduling, queue, batch, taking>>
vars == <<warmer, scheduler, pool, poolOpen, scheduled, performed, dropped, crowded>>

TypeOK ==
    /\ start \in {"new", "locked", "pool", "scheduler", "copying", "done"}
    /\ copying \subseteq Jobs
    /\ stop \in {"no", "scheduler", "pool", "done"}
    /\ known \subseteq Jobs
    /\ adding \subseteq Jobs /\ Cardinality(adding) <= 1
    /\ scheduling \in BOOLEAN
    /\ queue \in [Jobs -> 0..2]
    /\ batch \in [Batchers -> Seq(Jobs)]
    /\ taking \in [Batchers -> 0..Capacity]
    /\ \A b \in Batchers : Len(batch[b]) + taking[b] <= Capacity
    /\ pool \in Seq(Jobs) /\ Len(pool) <= Capacity
    /\ poolOpen \in BOOLEAN
    /\ scheduled \subseteq known
    /\ performed \cup dropped \subseteq scheduled
    /\ crowded \in BOOLEAN

\* NewCacheWarmer
Init ==
    /\ start = "new" /\ copying = {} /\ stop = "no"
    /\ known = Initial /\ adding = {}
    /\ scheduling = FALSE
    /\ queue = [j \in Jobs |-> 0]
    /\ batch = [b \in Batchers |-> <<>>]
    /\ taking = [b \in Batchers |-> 0]
    /\ pool = <<>> /\ poolOpen = FALSE
    /\ scheduled = {} /\ performed = {} /\ dropped = {} /\ crowded = FALSE
-----------------------------------------------------------------------------
\* cw.mu is free: neither AddWarmupJob nor Stop holds it.
Unlocked == adding = {} /\ stop \in {"no", "done"}

\* ScheduleJob
Push(j) ==
    /\ queue' = [queue EXCEPT ![j] = @ + 1]
    /\ scheduled' = scheduled \cup {j}

\* AddWarmupJob: the push to the warmer's own queue, then the question
\* whether the scheduler is running.
Add(j) ==
    /\ Unlocked /\ j \notin known
    /\ known' = known \cup {j} /\ adding' = {j}
    /\ UNCHANGED <<start, copying, stop, scheduler, pool, poolOpen,
                   scheduled, performed, dropped, crowded>>

AddToScheduler ==
    /\ adding # {}
    /\ IF scheduling
       THEN \E j \in adding : Push(j)
       ELSE UNCHANGED <<queue, scheduled>>
    /\ adding' = {}
    /\ UNCHANGED <<start, copying, stop, known, scheduling, batch, taking,
                   pool, poolOpen, performed, dropped, crowded>>

\* Start, in the order of its statements; only the first holds cw.mu.
StartLock ==
    /\ start = "new" /\ Unlocked
    /\ start' = "locked"
    /\ UNCHANGED <<copying, stop, known, adding, scheduler, pool, poolOpen,
                   scheduled, performed, dropped, crowded>>

StartPool ==
    /\ start = "locked"
    /\ start' = "pool" /\ poolOpen' = TRUE
    /\ UNCHANGED <<copying, stop, known, adding, scheduler, pool,
                   scheduled, performed, dropped, crowded>>

(* Mutant of GoesOn: the jobs are copied before the scheduler is started. *)
CopyFirst ==
    \/ start = "pool" /\ start' = "scheduler" /\ copying' = known /\ UNCHANGED scheduling
    \/ start = "scheduler" /\ start' = "copying" /\ scheduling' = TRUE /\ UNCHANGED copying

\* The scheduler is started, then the jobs known are read.
GoesOn ==
    \/ start = "pool" /\ start' = "scheduler" /\ scheduling' = TRUE /\ UNCHANGED copying
    \/ start = "scheduler" /\ start' = "copying" /\ copying' = known /\ UNCHANGED scheduling

StartScheduler ==
    /\ GoesOn
    /\ UNCHANGED <<stop, known, adding, queue, batch, taking, pool, poolOpen,
                   scheduled, performed, dropped, crowded>>

CopyJobs ==
    /\ start = "copying"
    /\ \/ copying = {} /\ start' = "done" /\ UNCHANGED <<copying, queue, scheduled>>
       \/ \E j \in copying : copying' = copying \ {j} /\ Push(j) /\ UNCHANGED start
    /\ UNCHANGED <<stop, known, adding, scheduling, batch, taking, pool, poolOpen,
                   performed, dropped, crowded>>

\* Stop, which keeps cw.mu: the scheduler, then the pool, which first
\* performs what is in its channel.
StopScheduler ==
    /\ start = "done" /\ stop = "no" /\ Unlocked
    /\ stop' = "scheduler" /\ scheduling' = FALSE
    /\ UNCHANGED <<start, copying, known, adding, queue, batch, taking, pool, poolOpen,
                   scheduled, performed, dropped, crowded>>

StopPool ==
    /\ stop = "scheduler"
    /\ stop' = "pool" /\ poolOpen' = FALSE
    /\ UNCHANGED <<start, copying, known, adding, scheduler, pool,
                   scheduled, performed, dropped, crowded>>

StopReturns ==
    /\ stop = "pool" /\ pool = <<>>
    /\ stop' = "done"
    /\ UNCHANGED <<start, copying, known, adding, scheduler, pool, poolOpen,
                   scheduled, performed, dropped, crowded>>
-----------------------------------------------------------------------------
Queued == {j \in Jobs : queue[j] > 0}
AtWork(b) == batch[b] # <<>> \/ taking[b] > 0

(* Mutants of BatchSize: one too many, and queue_length for queue_capacity. *)
BatchSizeTooLarge == Capacity + 1
BatchSizeFromLength == Len(pool)

\* extractJobsBatch asks the pool for its capacity, not for its free room.
BatchSize == Capacity

\* (GetStats, like SubmitJob, waits while the pool is being stopped.)
\* ProcessScheduledJobs, from a trigger of the loop or from WarmCacheManually.
BeginBatch(b) ==
    /\ b = "loop" => scheduling
    /\ ~AtWork(b) /\ Queued # {} /\ stop # "pool"
    /\ taking' = [taking EXCEPT ![b] = BatchSize]
    /\ crowded' = \/ crowded \/ pool # <<>>
                  \/ \E other \in Batchers \ {b} : AtWork(other)
    /\ UNCHANGED <<warmer, scheduling, queue, batch, pool, poolOpen,
                   scheduled, performed, dropped>>

(* Mutant of WithTaken: the batch is overwritten. *)
TakenAlone(b, j) == <<j>>

WithTaken(b, j) == Append(batch[b], j)

\* One turn of the loop in extractJobsBatch; the other batcher may have
\* emptied the queue between Empty and Pop, so an empty queue ends it too.
TakeJob(b) ==
    /\ taking[b] > 0
    /\ \/ /\ Queued = {}
          /\ taking' = [taking EXCEPT ![b] = 0]
          /\ UNCHANGED <<queue, batch>>
       \/ \E j \in Queued :
          /\ \A i \in Queued : Priority[i] <= Priority[j]
          /\ queue' = [queue EXCEPT ![j] = @ - 1]
          /\ batch' = [batch EXCEPT ![b] = WithTaken(b, j)]
          /\ taking' = [taking EXCEPT ![b] = @ - 1]
    /\ UNCHANGED <<warmer, scheduling, pool, poolOpen,
                   scheduled, performed, dropped, crowded>>

\* SubmitJobs; what the pool refuses is gone.
Submit(b) ==
    /\ taking[b] = 0 /\ batch[b] # <<>>
    /\ stop # "pool"
    /\ IF poolOpen /\ Len(pool) < Capacity
       THEN pool' = Append(pool, Head(batch[b])) /\ UNCHANGED dropped
       ELSE dropped' = dropped \cup {Head(batch[b])} /\ UNCHANGED pool
    /\ batch' = [batch EXCEPT ![b] = Tail(@)]
    /\ UNCHANGED <<warmer, scheduling, queue, taking, poolOpen,
                   scheduled, performed, crowded>>

\* A worker of the pool.
Perform ==
    /\ pool # <<>>
    /\ performed' = performed \cup {Head(pool)}
    /\ pool' = Tail(pool)
    /\ UNCHANGED <<warmer, scheduler, poolOpen, scheduled, dropped, crowded>>

Startup == StartLock \/ StartPool \/ StartScheduler \/ CopyJobs
Shutdown == StopPool \/ StopReturns

Next ==
    \/ \E j \in Jobs : Add(j)
    \/ AddToScheduler
    \/ Startup
    \/ StopScheduler \/ Shutdown
    \/ \E b \in Batchers : BeginBatch(b) \/ TakeJob(b) \/ Submit(b)
    \/ Perform

Spec == Init /\ [][Next]_vars

\* The program starts its warmer, goroutines run, and the interval trigger
\* fires again and again (lastRun moves only when jobs were taken).
Fairness ==
    /\ WF_vars(AddToScheduler) /\ WF_vars(Startup) /\ WF_vars(Shutdown)
    /\ WF_vars(BeginBatch("loop"))
    /\ \A b \in Batchers : WF_vars(TakeJob(b)) /\ WF_vars(Submit(b))
    /\ WF_vars(Perform)

FairSpec == Spec /\ Fairness
-----------------------------------------------------------------------------
InSequence(j, s) == \E i \in 1..Len(s) : s[i] = j

\* However AddWarmupJob and Start interleave, no job is missed: once Start has
\* returned every job added (up to a Stop) has reached the scheduler.  Each
\* side writes before it reads, Add the queue and Start the flag.
NothingMissed ==
    start = "done" /\ adding = {} /\ stop = "no" => known = scheduled

\* A job in the scheduler is never mislaid between the queue, the batches and
\* the pool, although two batchers work on one queue without a common lock.
NothingMislaid ==
    \A j \in scheduled :
        \/ queue[j] > 0
        \/ \E b \in Batchers : InSequence(j, batch[b])
        \/ InSequence(j, pool)
        \/ j \in performed \cup dropped

WarmerInv == TypeOK /\ NothingMislaid

\* A batch alone always fits into the pool: a job is dropped only if another
\* batch or its rest was in the way, or the pool was not running.
DropNeedsCause ==
    dropped # {} => crowded \/ stop # "no"

\* Every job that reaches the scheduler is performed or dropped in the end,
\* unless the warmer is stopped.
ScheduledJobsEnd ==
    \A j \in Jobs : j \in scheduled ~> (j \in performed \cup dropped \/ stop # "no")
=============================================================================
