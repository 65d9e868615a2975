--------------------------- MODULE DistributedJobs ---------------------------
(***************************************************************************)
(* Cache jobs of the integrated cache warmer                               *)
(* (backend/internal/cache/integrated_cache_warmer.go and the job          *)
(* constructors of unified_cache_manager.go): the router sends a job to    *)
(* the local worker pool or to Redis; workers, of all replicas, share      *)
(* three Redis structures, the sorted sets "cache_jobs" (immediate) and    *)
(* "cache_jobs_delayed" (delayed) and the list "cache_jobs_dlq" (dead).    *)
(*                                                                         *)
(* A worker's poll is a sequence of Redis commands; each is a step and may *)
(* fail.  A member of the sorted sets is the JSON of a job: two of them    *)
(* are the same member iff job, kind, attempts and ProcessAt agree.        *)
(* Time is in seconds, as the scores are.                                  *)
(***************************************************************************)
EXTENDS Integers, Functions

CONSTANTS
    Jobs,          \* enqueued jobs
    Kind,          \* Kind[j]: warmup, scheduled, batch, eviction, validation
    Key,           \* Key[j]: the cache key the job is about
    Priority,      \* Priority[j]: 1 to 10
    Delay,         \* Delay[j]: seconds until ProcessAt when enqueued
    MaxTries,      \* 3 in every constructor
    Workers,       \* distributed workers, of one or several replicas
    RedisAtStart,  \* jobRouter.redisAvailable: the PING in the constructor
    MaxTime,       \* bound on the clock; later due times are taken to be MaxTime
    LastEnqueue,   \* bound: no job is enqueued later than this
    MaxFaults      \* bound on crashes and failed commands

Kinds == {"warmup", "scheduled", "batch", "eviction", "validation"}

ASSUME DistributedJobsConstants ==
    /\ Kind \in [Jobs -> Kinds]
    /\ Priority \in [Jobs -> 1..10]
    /\ Delay \in [Jobs -> Nat]
    /\ MaxTries \in Nat \ {0}
    /\ RedisAtStart \in BOOLEAN
    /\ MaxTime \in Nat /\ LastEnqueue \in Nat /\ MaxFaults \in Nat

VARIABLES
    now,        \* the clock
    immediate,  \* sorted set: member |-> score
    delayed,    \* sorted set; the score of a member is its "due"
    dead,       \* the jobs in the dead letter list
    local,      \* members the router handed to the local worker pool
    cached,     \* the keys that have an entry in the cache
    worker,     \* worker[w]: where worker w is in its poll
    stopping,   \* Stop has been called
    enqueued,   \* history: jobs an Enqueue call accepted
    done,       \* history: jobs a handler performed without an error
    executed,   \* history: members some worker has executed
    doubled,    \* history: a member has been executed twice
    overlap,    \* history: two workers had the same delayed member listed
    faults      \* history: crashes and failed Redis commands

queues == <<immediate, delayed, dead, local>>
history == <<enqueued, done, executed, doubled, overlap>>
vars == <<now, queues, cached, worker, stopping, history, faults>>

\* What a batch job that is executed locally writes to: its keys are a
\* []string there, not the []interface{} enqueueToLocal expects, so the key is
\* the text of a missing "key".
NilKey == "<nil>"
CacheKeys == {Key[j] : j \in Jobs} \cup {NilKey}

Members == [job : Jobs, kind : Kinds, tries : 0..MaxTries, due : 0..MaxTime]

Polling == [at |-> "poll", seen |-> {}, member |-> {}]

TypeOK ==
    /\ now \in 0..MaxTime
    /\ DOMAIN immediate \subseteq Members
    /\ \A m \in DOMAIN immediate : immediate[m] \in (-10)..MaxTime
    /\ delayed \subseteq Members
    /\ dead \subseteq Jobs
    /\ local \subseteq Members
    /\ cached \subseteq CacheKeys
    /\ \A w \in Workers :
        /\ worker[w].at \in {"poll", "move", "add", "pop", "execute", "retry", "stopped"}
        /\ worker[w].seen \subseteq Members
        /\ IF worker[w].at \in {"add", "execute", "retry"}
           THEN \E m \in Members : worker[w].member = {m}
           ELSE worker[w].member = {}
    /\ stopping \in BOOLEAN
    /\ done \subseteq enqueued /\ enqueued \subseteq Jobs
    /\ executed \subseteq Members
    /\ faults \in 0..MaxFaults

Init ==
    /\ now = 0
    /\ immediate = [m \in {} |-> 0] /\ delayed = {} /\ dead = {} /\ local = {}
    /\ cached \in {{}, {Key[j] : j \in Jobs}}
    /\ worker = [w \in Workers |->
                    IF RedisAtStart THEN Polling ELSE [Polling EXCEPT !.at = "stopped"]]
    /\ stopping = FALSE
    /\ enqueued = {} /\ done = {} /\ executed = {}
    /\ doubled = FALSE /\ overlap = FALSE
    /\ faults = 0
-----------------------------------------------------------------------------
(* Mutant of AddImmediate: the ZADD is forgotten. *)
AddNothing(m) == UNCHANGED immediate

\* ZADD cache_jobs: the score lets a higher Priority overtake.
Score(j) == now - Priority[j]
AddImmediate(m) ==
    immediate' = [n \in DOMAIN immediate \cup {m} |->
                     IF n = m THEN Score(m.job) ELSE immediate[n]]

In(seconds) == IF now + seconds <= MaxTime THEN now + seconds ELSE MaxTime

Fresh(j, kind, delay) == [job |-> j, kind |-> kind, tries |-> 0, due |-> In(delay)]

\* enqueueToRedis
EnqueueToRedis(m) ==
    /\ IF m.due > now
       THEN delayed' = delayed \cup {m} /\ UNCHANGED immediate
       ELSE AddImmediate(m) /\ UNCHANGED delayed
    /\ UNCHANGED <<dead, local>>

\* enqueueToLocal; WorkerPool.tla says what becomes of the job.
EnqueueToLocal(m) ==
    /\ local' = local \cup {m}
    /\ UNCHANGED <<immediate, delayed, dead>>

\* routeJob and, for scheduled jobs, EnqueueScheduledWarmup.  How full the
\* local queue is, is left open.
Route(m) ==
    \/ ~RedisAtStart /\ EnqueueToLocal(m)
    \/ RedisAtStart /\ m.kind = "scheduled" /\ EnqueueToRedis(m)
    \/ RedisAtStart /\ m.kind # "scheduled" /\ EnqueueToLocal(m)
    \/ RedisAtStart /\ m.kind # "scheduled" /\ Priority[m.job] # 1 /\ EnqueueToRedis(m)

\* EnqueueWarmupJob and the others.  One that returns an error changes nothing.
Enqueue(j) ==
    /\ j \notin enqueued /\ now <= LastEnqueue
    /\ Route(Fresh(j, Kind[j], IF Kind[j] = "scheduled" THEN Delay[j] ELSE 0))
    /\ enqueued' = enqueued \cup {j}
    /\ UNCHANGED <<now, cached, worker, stopping, done, executed, doubled, overlap, faults>>

\* A local worker performs every kind of job as a Set of "key" to "data".
RunLocally ==
    /\ \E m \in local :
        /\ local' = local \ {m}
        /\ cached' = cached \cup {IF m.kind = "batch" THEN NilKey ELSE Key[m.job]}
        /\ done' = done \cup {m.job}
    /\ UNCHANGED <<now, immediate, delayed, dead, worker, stopping,
                   enqueued, executed, doubled, overlap, faults>>
-----------------------------------------------------------------------------
\* The poll of a distributed worker.

Go(w, place) == worker' = [worker EXCEPT ![w] = place]
At(w, place) == worker[w].at = place
Have(w) == CHOOSE m \in worker[w].member : TRUE

Due(m) == m.due <= now

(* Mutant of AfterList: the early return of moveDelayedJobs ends the poll. *)
AfterListOrDone(seen) == IF seen = {} THEN "poll" ELSE "move"

AfterList(seen) == IF seen = {} THEN "pop" ELSE "move"

\* moveDelayedJobs: ZRANGEBYSCORE, then ZREM and ZADD for each member listed.
\* Redis lists by score, so members are moved in that order.
List(w) ==
    /\ At(w, "poll")
    /\ LET seen == {m \in delayed : Due(m)} IN
       /\ Go(w, [Polling EXCEPT !.at = AfterList(seen), !.seen = seen])
       /\ overlap' = \/ overlap
                     \/ \E v \in Workers \ {w} :
                            (worker[v].seen \cup worker[v].member) \cap seen # {}
    /\ UNCHANGED <<now, queues, cached, stopping, enqueued, done, executed, doubled, faults>>

Remove(w) ==
    /\ At(w, "move")
    /\ \E m \in worker[w].seen :
        /\ \A n \in worker[w].seen : m.due <= n.due
        /\ delayed' = delayed \ {m}
        /\ Go(w, [at |-> "add", seen |-> worker[w].seen \ {m}, member |-> {m}])
    /\ UNCHANGED <<now, immediate, dead, local, cached, stopping, history, faults>>

AfterAdd(w) ==
    [worker[w] EXCEPT !.at = IF worker[w].seen = {} THEN "pop" ELSE "move", !.member = {}]

Add(w) ==
    /\ At(w, "add")
    /\ AddImmediate(Have(w))
    /\ Go(w, AfterAdd(w))
    /\ UNCHANGED <<now, delayed, dead, local, cached, stopping, history, faults>>

(* Mutant of LeftAfterPop: the member stays (ZRANGE for ZPOPMIN). *)
PopForgets(m) == immediate

LeftAfterPop(m) == Restrict(immediate, DOMAIN immediate \ {m})

\* ZPOPMIN takes a member with the lowest score.
Lowest(m) == \A n \in DOMAIN immediate : immediate[m] <= immediate[n]

\* processImmediateJobs
Pop(w) ==
    /\ At(w, "pop")
    /\ \/ /\ DOMAIN immediate = {}
          /\ Go(w, Polling)
          /\ UNCHANGED immediate
       \/ \E m \in DOMAIN immediate :
          /\ Lowest(m)
          /\ immediate' = LeftAfterPop(m)
          /\ Go(w, [at |-> "execute", seen |-> {}, member |-> {m}])
    /\ UNCHANGED <<now, delayed, dead, local, cached, stopping, history, faults>>

Tried(m) == [m EXCEPT !.tries = @ + 1]

\* The handlers.  Set never reports an error; Delete does when the breaker is
\* open or Redis fails (L1 is clean by then, Redis is not); Exists may fail,
\* and a validation whose key is missing enqueues a warm-up.
Handle(m) ==
    \/ /\ m.kind \in {"warmup", "scheduled", "batch"}
       /\ cached' = cached \cup {Key[m.job]}
       /\ UNCHANGED queues
    \/ /\ m.kind = "eviction"
       /\ cached' = cached \ {Key[m.job]}
       /\ UNCHANGED queues
    \/ /\ m.kind = "validation" /\ Key[m.job] \in cached
       /\ UNCHANGED <<cached, queues>>
    \/ /\ m.kind = "validation"
       /\ Route(Fresh(m.job, "warmup", 0))
       /\ UNCHANGED cached

MayFail(m) == m.kind \in {"eviction", "validation"}

\* executeJob: the handler.
Execute(w) ==
    /\ At(w, "execute")
    /\ \/ /\ Handle(Have(w))
          /\ done' = done \cup {Have(w).job}
          /\ Go(w, Polling)
       \/ /\ MayFail(Have(w))
          /\ Go(w, [worker[w] EXCEPT !.at = "retry", !.member = {Tried(Have(w))}])
          /\ UNCHANGED <<cached, queues, done>>
    /\ executed' = executed \cup {Have(w)}
    /\ doubled' = (doubled \/ Have(w) \in executed)
    /\ UNCHANGED <<now, stopping, enqueued, overlap, faults>>

(* Mutant of MayRetry: no last try. *)
RetryOnceLess(m) == m.tries + 1 < MaxTries

MayRetry(m) == m.tries < MaxTries

\* executeJob: a failed job goes back to the delayed set, due in as many
\* seconds as it has been tried, or to the dead letter list.
Retry(w) ==
    /\ At(w, "retry")
    /\ LET m == Have(w) IN
       IF MayRetry(m)
       THEN delayed' = delayed \cup {[m EXCEPT !.due = In(m.tries)]} /\ UNCHANGED dead
       ELSE dead' = dead \cup {m.job} /\ UNCHANGED delayed
    /\ Go(w, Polling)
    /\ UNCHANGED <<now, immediate, local, cached, stopping, history, faults>>

\* A worker's Redis command fails; no result of the two poll loops' ZREM, ZADD
\* and LPUSH is looked at.
CommandFails(w) ==
    /\ faults < MaxFaults /\ faults' = faults + 1
    /\ \/ At(w, "poll") /\ Go(w, [Polling EXCEPT !.at = "pop"])
       \/ /\ At(w, "move")
          /\ \E m \in worker[w].seen :
              /\ \A n \in worker[w].seen : m.due <= n.due
              /\ Go(w, [at |-> "add", seen |-> worker[w].seen \ {m}, member |-> {m}])
       \/ At(w, "add") /\ Go(w, AfterAdd(w))
       \/ At(w, "pop") /\ Go(w, Polling)
       \/ At(w, "retry") /\ Go(w, Polling)
    /\ UNCHANGED <<now, queues, cached, stopping, history>>

\* The process of a worker dies and is started again; Redis keeps the queues.
\* (The local pool is left alone: that its jobs die with it is no news.)
Crash(w) ==
    /\ worker[w].at \notin {"poll", "stopped"}
    /\ faults < MaxFaults /\ faults' = faults + 1
    /\ Go(w, Polling)
    /\ UNCHANGED <<now, queues, cached, stopping, history>>

\* IntegratedCacheWarmer.Stop: each worker leaves between two polls.
Stop ==
    /\ ~stopping /\ stopping' = TRUE
    /\ UNCHANGED <<now, queues, cached, worker, history, faults>>

Leave(w) ==
    /\ stopping /\ At(w, "poll")
    /\ Go(w, [Polling EXCEPT !.at = "stopped"])
    /\ UNCHANGED <<now, queues, cached, stopping, history, faults>>

Tick ==
    /\ now < MaxTime /\ now' = now + 1
    /\ UNCHANGED <<queues, cached, worker, stopping, history, faults>>

Poll(w) == List(w) \/ Remove(w) \/ Add(w) \/ Pop(w) \/ Execute(w) \/ Retry(w)

Next ==
    \/ \E j \in Jobs : Enqueue(j)
    \/ RunLocally
    \/ \E w \in Workers : Poll(w) \/ CommandFails(w) \/ Crash(w) \/ Leave(w)
    \/ Stop
    \/ Tick

Spec == Init /\ [][Next]_vars

\* Workers poll every 100 ms and time passes.
Fairness ==
    /\ WF_vars(Tick)
    /\ WF_vars(RunLocally)
    /\ \A w \in Workers : WF_vars(Poll(w))

FairSpec == Spec /\ Fairness
-----------------------------------------------------------------------------
InHand(w) == {m.job : m \in worker[w].member}

\* Retries, moves between the queues and a graceful Stop lose no job: without
\* a crash or a failed command every accepted job is done, dead, queued or in
\* the hands of a worker.
LossNeedsFault ==
    faults = 0 =>
        \A j \in enqueued :
            \/ j \in done \cup dead
            \/ j \in {m.job : m \in DOMAIN immediate \cup delayed \cup local}
            \/ \E w \in Workers : j \in InHand(w)

\* The same attempt at a job is made twice only if two workers had it listed at
\* the same time or a fault intervened: a ZREM whose result nobody looks at is
\* the only hole.
DoubleNeedsOverlap == doubled => overlap \/ faults > 0

\* Neither backoff nor a scheduled time is cut short, by whatever path a job
\* reaches a worker (beyond the fraction of a second that scores and clock are
\* rounded down by).
NothingEarly ==
    /\ \A m \in DOMAIN immediate : m.due <= now
    /\ \A w \in Workers :
        /\ \A m \in worker[w].seen : m.due <= now
        /\ ~At(w, "retry") => \A m \in worker[w].member : m.due <= now

\* A job is given up only after MaxTries attempts that were really made, also
\* when copies of it are under way: the attempts an entry counts were made,
\* and one that waits has not used them up.
Attempted(j, n) == \E m \in executed : m.job = j /\ m.tries = n
Counted(m) == \A n \in 0..(m.tries - 1) : Attempted(m.job, n)
Open(m) == m.tries < MaxTries /\ Counted(m)

DeadMeansExhausted ==
    /\ \A j \in dead : \A n \in 0..(MaxTries - 1) : Attempted(j, n)
    /\ \A m \in DOMAIN immediate \cup delayed : Open(m)
    /\ \A w \in Workers :
        /\ \A m \in worker[w].seen : Open(m)
        /\ \A m \in worker[w].member :
              Counted(m) /\ (m.tries = MaxTries => At(w, "retry"))

QueueInv == TypeOK /\ NothingEarly /\ DeadMeansExhausted

\* Without faults every accepted job is done or dead in the end, unless the
\* warmer is stopped.
JobsEnd ==
    \A j \in Jobs : j \in enqueued ~> (j \in done \cup dead \/ stopping \/ faults > 0)
=============================================================================
