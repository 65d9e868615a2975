------------------------------ MODULE JobWorker ------------------------------
(***************************************************************************)
(* The background job worker (backend/internal/worker/worker.go): jobs are *)
(* JSON in Redis lists; goroutines take them with BLPOP, put back what is  *)
(* not due yet, run the handler and send a failed job to "retry_queue"     *)
(* with an exponential delay or, after MaxTries attempts, to "dead_queue". *)
(*                                                                         *)
(* Every Redis command of a goroutine uses the worker's context, which     *)
(* Stop cancels: a push that comes after that fails, and its job is gone.  *)
(* Time is in minutes, the unit of the retry delays.                       *)
(***************************************************************************)
EXTENDS Integers, Sequences

CONSTANTS
    Jobs,
    Goroutines,   \* workerLoop runs this often
    Served,       \* config.Queues, in order; BLPOP prefers the earlier
    Handled,      \* jobs of a type with a registered handler
    Delay,        \* Delay[j]: minutes until ProcessAt when enqueued
    MaxTries,     \* 3 in EnqueueAt
    MaxTime,      \* bound on the clock; later due times are taken to be MaxTime
    MaxFaults     \* bound on crashes and failed commands

ASSUME JobWorkerConstants ==
    /\ Served \in Seq({"default", "retry_queue"})
    /\ Handled \subseteq Jobs
    /\ Delay \in [Jobs -> Nat]
    /\ MaxTries \in Nat \ {0} /\ MaxTime \in Nat /\ MaxFaults \in Nat
    /\ \A n \in 0..MaxTries : 2 ^ n \in Nat  \* true; the provers ask for it

VARIABLES
    now,        \* the clock
    list,       \* list[q]: the Redis lists default and retry_queue
    dead,       \* dead_queue
    go,         \* go[g]: where goroutine g is, and with which job
    cancelled,  \* w.ctx is done
    enqueued,   \* history
    done,       \* history: jobs whose handler returned nil
    runs,       \* history: how often the handler was run for each job
    ready,      \* history: no attempt at the job is due before this time
    early,      \* history: a handler was run before its job was ready
    unhandled,  \* history: jobs dropped because no handler was registered
    faults      \* history: crashes and failed commands

vars == <<now, list, dead, go, cancelled, enqueued, done, runs, ready, early, unhandled, faults>>

QueueNames == {"default", "retry_queue"}
Entries == [job : Jobs, tries : 0..MaxTries, due : 0..MaxTime]
Looping == [at |-> "loop", from |-> "default", entry |-> {}]

TypeOK ==
    /\ now \in 0..MaxTime
    /\ list \in [QueueNames -> Seq(Entries)]
    /\ dead \subseteq Entries
    /\ \A g \in Goroutines :
        /\ go[g].at \in {"loop", "popped", "run", "retry", "bury", "gone"}
        /\ go[g].from \in QueueNames
        /\ IF go[g].at \in {"loop", "gone"} THEN go[g].entry = {}
           ELSE \E e \in Entries : go[g].entry = {e}
    /\ cancelled \in BOOLEAN
    /\ done \cup unhandled \subseteq enqueued /\ enqueued \subseteq Jobs
    /\ runs \in [Jobs -> 0..MaxTries] /\ ready \in [Jobs -> 0..MaxTime]
    /\ early \in BOOLEAN
    /\ faults \in 0..MaxFaults

Init ==
    /\ now = 0
    /\ list = [q \in QueueNames |-> <<>>] /\ dead = {}
    /\ go = [g \in Goroutines |-> Looping]
    /\ cancelled = FALSE
    /\ enqueued = {} /\ done = {} /\ unhandled = {}
    /\ runs = [j \in Jobs |-> 0] /\ ready = [j \in Jobs |-> 0] /\ early = FALSE
    /\ faults = 0
-----------------------------------------------------------------------------
In(minutes) == IF now + minutes <= MaxTime THEN now + minutes ELSE MaxTime

Put(g, place) == go' = [go EXCEPT ![g] = place]
At(g, place) == go[g].at = place
Entry(g) == CHOOSE e \in go[g].entry : TRUE
RPush(q, e) == list' = [list EXCEPT ![q] = Append(@, e)]

\* JobQueue.Enqueue and EnqueueAt.
Enqueue(j) ==
    /\ j \notin enqueued
    /\ enqueued' = enqueued \cup {j}
    /\ RPush("default", [job |-> j, tries |-> 0, due |-> In(Delay[j])])
    /\ ready' = [ready EXCEPT ![j] = In(Delay[j])]
    /\ UNCHANGED <<now, dead, go, cancelled, done, runs, early, unhandled, faults>>

(* Mutants of FirstNonempty and Rest: only the first list is served, and the
   job is read where it is instead of popped. *)
FirstOnly(i) == i = 1 /\ list[Served[i]] # <<>>
AllOf(s) == s

\* BLPOP looks at its lists in the order given.
FirstNonempty(i) ==
    /\ list[Served[i]] # <<>>
    /\ \A k \in 1..(i - 1) : list[Served[k]] = <<>>

Rest(s) == Tail(s)

\* processNextJob up to the reply of BLPOP; a time-out changes nothing.
Pop(g) ==
    /\ At(g, "loop") /\ ~cancelled
    /\ \E i \in 1..Len(Served) :
        /\ FirstNonempty(i)
        /\ list' = [list EXCEPT ![Served[i]] = Rest(@)]
        /\ Put(g, [at |-> "popped", from |-> Served[i], entry |-> {Head(list[Served[i]])}])
    /\ UNCHANGED <<now, dead, cancelled, enqueued, done, runs, ready, early, unhandled, faults>>

NotDue(e) == now < e.due

\* requeueJob; after a Stop the push fails.
PutBack(g) ==
    /\ At(g, "popped") /\ NotDue(Entry(g))
    /\ IF cancelled THEN UNCHANGED list ELSE RPush(go[g].from, Entry(g))
    /\ Put(g, Looping)
    /\ UNCHANGED <<now, dead, cancelled, enqueued, done, runs, ready, early, unhandled, faults>>

\* executeJob up to the call of the handler; without one the job is gone.
StartHandler(g) ==
    /\ At(g, "popped") /\ ~NotDue(Entry(g))
    /\ LET j == Entry(g).job IN
       IF j \in Handled
       THEN /\ Put(g, [go[g] EXCEPT !.at = "run"])
            /\ early' = (early \/ now < ready[j])
            /\ UNCHANGED unhandled
       ELSE /\ Put(g, Looping)
            /\ unhandled' = unhandled \cup {j}
            /\ UNCHANGED early
    /\ UNCHANGED <<now, list, dead, cancelled, enqueued, done, runs, ready, faults>>

MayRetry(tries) == tries < MaxTries

\* executeJob: the handler returns nil, or an error.
FinishHandler(g) ==
    /\ At(g, "run")
    /\ LET e == Entry(g)
           tried == [e EXCEPT !.tries = @ + 1] IN
       /\ runs' = [runs EXCEPT ![e.job] = @ + 1]
       /\ \/ done' = done \cup {e.job} /\ Put(g, Looping) /\ UNCHANGED ready
          \/ /\ Put(g, [go[g] EXCEPT !.entry = {tried},
                                     !.at = IF MayRetry(tried.tries) THEN "retry" ELSE "bury"])
             /\ ready' = [ready EXCEPT ![e.job] = In(2 ^ tried.tries)]
             /\ UNCHANGED done
    /\ UNCHANGED <<now, list, dead, cancelled, enqueued, early, unhandled, faults>>

(* Mutant of RetryEntry: the old time stamp stays. *)
RetryAtOnce(e) == e

\* retryJob: due in 2 ^ attempts minutes.
RetryEntry(e) == [e EXCEPT !.due = In(2 ^ e.tries)]

Retry(g) ==
    /\ At(g, "retry")
    /\ IF cancelled THEN UNCHANGED list ELSE RPush("retry_queue", RetryEntry(Entry(g)))
    /\ Put(g, Looping)
    /\ UNCHANGED <<now, dead, cancelled, enqueued, done, runs, ready, early, unhandled, faults>>

\* moveToDeadQueue
Bury(g) ==
    /\ At(g, "bury")
    /\ dead' = IF cancelled THEN dead ELSE dead \cup {Entry(g)}
    /\ Put(g, Looping)
    /\ UNCHANGED <<now, list, cancelled, enqueued, done, runs, ready, early, unhandled, faults>>

\* Redis fails a push: the error is logged and the job is gone.
FailPush(g) ==
    /\ \/ At(g, "popped") /\ NotDue(Entry(g))
       \/ At(g, "retry") \/ At(g, "bury")
    /\ faults < MaxFaults /\ faults' = faults + 1
    /\ Put(g, Looping)
    /\ UNCHANGED <<now, list, dead, cancelled, enqueued, done, runs, ready, early, unhandled>>

\* The process dies and another is started: what the goroutines had in hand
\* is gone, the lists are not.
Crash ==
    /\ faults < MaxFaults /\ faults' = faults + 1
    /\ go' = [g \in Goroutines |-> Looping]
    /\ cancelled' = FALSE
    /\ UNCHANGED <<now, list, dead, enqueued, done, runs, ready, early, unhandled>>

\* Stop; a goroutine leaves when it is back in its loop.
Stop ==
    /\ ~cancelled /\ cancelled' = TRUE
    /\ UNCHANGED <<now, list, dead, go, enqueued, done, runs, ready, early, unhandled, faults>>

Leave(g) ==
    /\ cancelled /\ At(g, "loop")
    /\ Put(g, [Looping EXCEPT !.at = "gone"])
    /\ UNCHANGED <<now, list, dead, cancelled, enqueued, done, runs, ready, early, unhandled, faults>>

Tick ==
    /\ now < MaxTime /\ now' = now + 1
    /\ UNCHANGED <<list, dead, go, cancelled, enqueued, done, runs, ready, early, unhandled, faults>>

Loop(g) ==
    \/ Pop(g) \/ PutBack(g) \/ StartHandler(g) \/ FinishHandler(g)
    \/ Retry(g) \/ Bury(g) \/ Leave(g)

Next ==
    \/ \E j \in Jobs : Enqueue(j)
    \/ \E g \in Goroutines : Loop(g) \/ FailPush(g)
    \/ Crash
    \/ Stop
    \/ Tick

Spec == Init /\ [][Next]_vars

\* Goroutines run, handlers return (their context has a 30 s time-out), time
\* passes.
Fairness == WF_vars(Tick) /\ \A g \in Goroutines : WF_vars(Loop(g))

FairSpec == Spec /\ Fairness
-----------------------------------------------------------------------------
\* done, dropped for want of a handler, or buried.
Ended(j) == j \in done \cup unhandled \/ \E e \in dead : e.job = j
Waits(j) == \E q \in QueueNames : \E i \in 1..Len(list[q]) : list[q][i].job = j
InHand(j) == \E g \in Goroutines : \E e \in go[g].entry : e.job = j

\* An entry that waits or is in hand: its attempts have been made, it has one
\* left unless it is to be buried, and its job has not ended.
Alive(e) == e.job \in enqueued /\ ~Ended(e.job) /\ runs[e.job] = e.tries

\* Exactly once: whatever goroutines compete, put back, retry and bury, and
\* whatever crashes, a job is in one place at most; it is lost only in a fault
\* or after a Stop.
OnePlace ==
    /\ \A q, r \in QueueNames : \A i \in 1..Len(list[q]), k \in 1..Len(list[r]) :
           list[q][i].job = list[r][k].job => q = r /\ i = k
    /\ \A g, h \in Goroutines : \A e \in go[g].entry, f \in go[h].entry :
           e.job = f.job => g = h
    /\ \A g \in Goroutines : \A e \in go[g].entry : ~Waits(e.job)
    /\ \A d, e \in dead : d.job = e.job => d = e
    /\ \A e \in dead : e.job \notin done \cup unhandled
    /\ done \cap unhandled = {}
    /\ \A j \in enqueued : Waits(j) \/ InHand(j) \/ Ended(j) \/ cancelled \/ faults > 0

\* A job is buried only after its handler has run MaxTries times, and one that
\* still waits has attempts left and all the others behind it.
AttemptsCount ==
    /\ \A e \in dead : e.job \in enqueued /\ runs[e.job] = MaxTries
    /\ \A q \in QueueNames : \A i \in 1..Len(list[q]) :
           Alive(list[q][i]) /\ list[q][i].tries < MaxTries
    /\ \A g \in Goroutines : \A e \in go[g].entry :
           /\ Alive(e)
           /\ e.tries = MaxTries <=> At(g, "bury")

JobInv == TypeOK /\ OnePlace /\ AttemptsCount

\* No handler runs before its job was to be run, or within the backoff after
\* its last attempt, however often and through whichever lists the job went.
NeverEarly == ~early

\* Every job ends, if the worker serves the retry queue too.
JobsEnd ==
    \A j \in Jobs :
        j \in enqueued ~> \/ j \in done \cup unhandled \/ \E e \in dead : e.job = j
                          \/ cancelled \/ faults > 0
=============================================================================
