----------------------------- MODULE Lifecycle -----------------------------
(***************************************************************************)
(* The life of the backend processes (backend/main.go): boot with the      *)
(* database migrations, the cache manager's workers, serving, and the      *)
(* shutdown after a signal.  Processes share one database, whose schema    *)
(* version and dirty flag outlive them; any of them may crash at any time  *)
(* and is started again.                                                   *)
(*                                                                         *)
(* The signal is handled in a goroutine: Server.Shutdown, then cleanup.    *)
(* ListenAndServe returns as soon as Shutdown begins, main returns with    *)
(* it, and that ends the process wherever the goroutine is.                *)
(***************************************************************************)
EXTENDS Naturals

CONSTANTS
    Processes,
    NoOne,          \* not a process
    Latest,         \* the number of migrations
    MaxRetries,     \* MigrationConfig.MaxRetries
    Workers,        \* Workers[p]: WarmupStrategy.ConcurrentJobs
    MaxInFlight,    \* MaxInFlight[p]: bound on the requests in progress
    MaxFaults       \* bound on crashes and on failures of what boot needs

ASSUME LifecycleConstants ==
    /\ NoOne \notin Processes
    /\ Latest \in Nat /\ MaxRetries \in Nat \ {0} /\ MaxFaults \in Nat
    /\ Workers \in [Processes -> Nat] /\ MaxInFlight \in [Processes -> Nat]

VARIABLES
    version, dirty,  \* the row of schema_migrations
    lock,            \* the process that holds the migration lock
    stage,           \* stage[p]: how far process p is
    tries,           \* tries[p]: failed pings of waitForDatabase
    inflight,        \* inflight[p]: requests in progress
    open,            \* open[p]: what cleanup has not closed yet
    worker,          \* worker[p][w]: the distributed cache worker
    told,            \* told[p]: workers 1..told[p] have their stopCh closed
    timedOut,        \* history: processes whose Shutdown gave up waiting
    late,            \* history: workers Stop did not wait for
    faults           \* history: crashes and failures of what boot needs

schema == <<version, dirty, lock>>
service == <<inflight, open, worker, told, timedOut, late>>
vars == <<version, dirty, lock, stage, tries, inflight, open, worker, told,
          timedOut, late, faults>>

Booting == {"down", "connect", "ping", "lock", "migrate", "apply", "caches"}
Stopping == {"drain", "stop", "await", "close cache", "close redis", "close db", "done"}
Resources == {"cache", "redis", "db"}

Stages == Booting \cup Stopping \cup {"serve"}
WorkerPlaces == {"none", "spawned", "loop", "poll", "gone"}

BootTypeOK ==
    /\ version \in 0..Latest /\ dirty \in BOOLEAN
    /\ lock \in Processes \cup {NoOne}
    /\ stage \in [Processes -> Stages]
    /\ tries \in [Processes -> 0..MaxRetries]
    /\ faults \in 0..MaxFaults

ServiceTypeOK ==
    /\ inflight \in [Processes -> Nat] /\ told \in [Processes -> Nat]
    /\ open \in [Processes -> SUBSET Resources]
    /\ timedOut \subseteq Processes
    /\ late \in [Processes -> SUBSET Nat] /\ DOMAIN worker = Processes
    /\ \A p \in Processes :
        /\ inflight[p] <= MaxInFlight[p] /\ told[p] <= Workers[p]
        /\ worker[p] \in [1..Workers[p] -> WorkerPlaces]
        /\ late[p] \subseteq 1..Workers[p]

LifecycleTypeOK == BootTypeOK /\ ServiceTypeOK

Init ==
    /\ version = 0 /\ dirty = FALSE /\ lock = NoOne
    /\ stage = [p \in Processes |-> "down"]
    /\ tries = [p \in Processes |-> 0]
    /\ inflight = [p \in Processes |-> 0]
    /\ open = [p \in Processes |-> {}]
    /\ worker = [p \in Processes |-> [w \in 1..Workers[p] |-> "none"]]
    /\ told = [p \in Processes |-> 0]
    /\ timedOut = {}
    /\ late = [p \in Processes |-> {}]
    /\ faults = 0
-----------------------------------------------------------------------------
(* Mutants: Up that ignores the dirty flag, a lock that survives its       *)
(* holder, a cleanup that does not wait for Shutdown, a worker that never  *)
(* looks at its channel.                                                   *)
IgnoresDirty == version = Latest
LockSurvives(p) == lock
NoDrain(p) == TRUE
DeafWorker(p, w) == FALSE

Go(p, s) == stage' = [stage EXCEPT ![p] = s]

\* The advisory lock belongs to the session that took it.
Unlocked(p) == IF lock = p THEN NoOne ELSE lock

\* Everything in the process's memory is gone, and its database sessions.
Gone(p) ==
    /\ Go(p, "down")
    /\ lock' = Unlocked(p)
    /\ tries' = [tries EXCEPT ![p] = 0]
    /\ inflight' = [inflight EXCEPT ![p] = 0]
    /\ open' = [open EXCEPT ![p] = {}]
    /\ worker' = [worker EXCEPT ![p] = [w \in 1..Workers[p] |-> "none"]]
    /\ told' = [told EXCEPT ![p] = 0]
    /\ timedOut' = timedOut \ {p}
    /\ late' = [late EXCEPT ![p] = {}]

Start(p) ==
    /\ stage[p] = "down" /\ Go(p, "connect")
    /\ UNCHANGED <<schema, tries, service, faults>>

\* dbCfg.Connect.
Connect(p) ==
    /\ stage[p] = "connect" /\ Go(p, "ping")
    /\ UNCHANGED <<schema, tries, service, faults>>

\* waitForDatabase.
Ping(p) ==
    /\ stage[p] = "ping" /\ Go(p, "lock")
    /\ UNCHANGED <<schema, tries, service, faults>>

PingAgain(p) ==
    /\ stage[p] = "ping" /\ tries[p] + 1 < MaxRetries
    /\ tries' = [tries EXCEPT ![p] = @ + 1]
    /\ UNCHANGED <<schema, stage, service, faults>>

\* m.Up takes the advisory lock first.
Lock(p) ==
    /\ stage[p] = "lock" /\ lock = NoOne
    /\ lock' = p
    /\ Go(p, "migrate")
    /\ UNCHANGED <<version, dirty, tries, service, faults>>

HasMore == version < Latest /\ ~dirty

\* Up sets the next version and the dirty flag, runs the file, and clears
\* the flag.
BeginMigration(p) ==
    /\ stage[p] = "migrate" /\ HasMore
    /\ version' = version + 1 /\ dirty' = TRUE
    /\ Go(p, "apply")
    /\ UNCHANGED <<lock, tries, service, faults>>

EndMigration(p) ==
    /\ stage[p] = "apply"
    /\ dirty' = FALSE
    /\ Go(p, "migrate")
    /\ UNCHANGED <<version, lock, tries, service, faults>>

\* Nothing left to do: nil or ErrNoChange, and the lock is released.
Migrated == version = Latest /\ ~dirty

EndUp(p) ==
    /\ stage[p] = "migrate" /\ Migrated
    /\ lock' = Unlocked(p)
    /\ Go(p, "caches")
    /\ UNCHANGED <<version, dirty, tries, service, faults>>

\* determineMode: Redis answers the manager's ping as well.
MayIntegrate(redis, integrated) == integrated => redis

\* IntegratedCacheWarmer.Start.
Spawned(p, integrated) ==
    [w \in 1..Workers[p] |-> IF integrated THEN "spawned" ELSE "none"]

\* The rest of initializeApplication and the start of the server.  Redis may
\* be gone at once, or between the ping of main and that of the manager,
\* which is then in legacy mode and has no workers.
StartServer(p) ==
    /\ stage[p] = "caches"
    /\ \E redis, integrated \in BOOLEAN :
        /\ MayIntegrate(redis, integrated)
        /\ open' = [open EXCEPT ![p] = IF redis THEN Resources ELSE Resources \ {"redis"}]
        /\ worker' = [worker EXCEPT ![p] = Spawned(p, integrated)]
    /\ Go(p, "serve")
    /\ UNCHANGED <<schema, tries, inflight, told, timedOut, late, faults>>

Fault == faults < MaxFaults /\ faults' = faults + 1

\* log.Fatalf: no connection, no answer to MaxRetries pings, the port taken.
Fatal(p) ==
    /\ \/ stage[p] \in {"connect", "caches"}
       \/ stage[p] = "ping" /\ tries[p] + 1 = MaxRetries
    /\ Fault
    /\ Gone(p)
    /\ UNCHANGED <<version, dirty>>

\* log.Fatalf: the schema is dirty, or the lock was not free for 15 seconds,
\* which only a running migration can take.
MigrationFatal(p) ==
    /\ \/ stage[p] = "migrate" /\ dirty
       \/ stage[p] = "lock" /\ \E q \in Processes : stage[q] = "apply"
    /\ Gone(p)
    /\ UNCHANGED <<version, dirty, faults>>

\* A crash; in "apply" it stands for a migration that fails as well.
Crash(p) ==
    /\ stage[p] # "down"
    /\ Fault
    /\ Gone(p)
    /\ UNCHANGED <<version, dirty>>
-----------------------------------------------------------------------------
Accept(p) ==
    /\ stage[p] = "serve" /\ inflight[p] < MaxInFlight[p]
    /\ inflight' = [inflight EXCEPT ![p] = @ + 1]
    /\ UNCHANGED <<schema, stage, tries, open, worker, told, timedOut, late, faults>>

\* The handler returns, or panics and is recovered.
Respond(p) ==
    /\ inflight[p] > 0
    /\ inflight' = [inflight EXCEPT ![p] = @ - 1]
    /\ UNCHANGED <<schema, stage, tries, open, worker, told, timedOut, late, faults>>

SetWorker(p, w, s) ==
    /\ worker' = [worker EXCEPT ![p][w] = s]
    /\ UNCHANGED <<schema, stage, tries, inflight, open, told, timedOut, late, faults>>

\* DistributedCacheWorker.start: wg.Add runs here, in the goroutine.
WorkerBegins(p, w) == worker[p][w] = "spawned" /\ SetWorker(p, w, "loop")

\* processJobs.  The select may prefer the ticker to a closed stopCh.
WorkerPolls(p, w) == worker[p][w] = "loop" /\ SetWorker(p, w, "poll")
WorkerPolled(p, w) == worker[p][w] = "poll" /\ SetWorker(p, w, "loop")

Hears(p, w) == w <= told[p]
WorkerStops(p, w) == worker[p][w] = "loop" /\ Hears(p, w) /\ SetWorker(p, w, "gone")

WorkerStep(p, w) == \/ WorkerBegins(p, w) \/ WorkerPolls(p, w)
                    \/ WorkerPolled(p, w) \/ WorkerStops(p, w)
-----------------------------------------------------------------------------
\* SIGINT or SIGTERM: Server.Shutdown closes the listeners and waits.
Signal(p) ==
    /\ stage[p] = "serve" /\ Go(p, "drain")
    /\ UNCHANGED <<schema, tries, service, faults>>

Drained(p) == inflight[p] = 0

\* Shutdown returns: all requests are answered, or 30 seconds are over.
EndShutdown(p) ==
    /\ stage[p] = "drain"
    /\ \/ Drained(p) /\ UNCHANGED timedOut
       \/ inflight[p] > 0 /\ timedOut' = timedOut \cup {p}
    /\ Go(p, "stop")
    /\ UNCHANGED <<schema, tries, inflight, open, worker, told, late, faults>>

\* CacheManager.Stop, one worker after the other: close stopCh and wait.
StopWorker(p) ==
    /\ stage[p] = "stop" /\ told[p] < Workers[p]
    /\ told' = [told EXCEPT ![p] = @ + 1]
    /\ Go(p, "await")
    /\ UNCHANGED <<schema, tries, inflight, open, worker, timedOut, late, faults>>

\* The worker's WaitGroup is zero before the goroutine's Add as well.
WaitOver(p, w) == worker[p][w] \in {"none", "spawned", "gone"}

AwaitWorker(p) ==
    /\ stage[p] = "await" /\ WaitOver(p, told[p])
    /\ late' = IF worker[p][told[p]] = "spawned"
               THEN [late EXCEPT ![p] = @ \cup {told[p]}] ELSE late
    /\ Go(p, "stop")
    /\ UNCHANGED <<schema, tries, inflight, open, worker, told, timedOut, faults>>

\* The local pool and the scheduler stop; then cleanup closes the rest.
EndStop(p) ==
    /\ stage[p] = "stop" /\ told[p] = Workers[p]
    /\ Go(p, "close cache")
    /\ UNCHANGED <<schema, tries, service, faults>>

CloseNext(p) ==
    /\ \/ /\ stage[p] = "close cache" /\ Go(p, "close redis")
          /\ open' = [open EXCEPT ![p] = @ \ {"cache"}]
       \/ /\ stage[p] = "close redis" /\ Go(p, "close db")
          /\ open' = [open EXCEPT ![p] = @ \ {"redis"}]
       \/ /\ stage[p] = "close db" /\ Go(p, "done")
          /\ open' = [open EXCEPT ![p] = @ \ {"db"}]
    /\ UNCHANGED <<schema, tries, inflight, worker, told, timedOut, late, faults>>

\* main returns: at the latest now, at the earliest when Shutdown begins.
Exit(p) ==
    /\ stage[p] \in Stopping
    /\ Gone(p)
    /\ UNCHANGED <<version, dirty, faults>>

Boot(p) == \/ Start(p) \/ Connect(p) \/ Ping(p) \/ PingAgain(p) \/ Lock(p)
           \/ BeginMigration(p) \/ EndMigration(p) \/ EndUp(p) \/ StartServer(p)

Cleanup(p) == EndShutdown(p) \/ StopWorker(p) \/ AwaitWorker(p) \/ EndStop(p) \/ CloseNext(p)

Next ==
    \E p \in Processes :
        \/ Boot(p) \/ Fatal(p) \/ MigrationFatal(p) \/ Crash(p)
        \/ Accept(p) \/ Respond(p)
        \/ \E w \in 1..Workers[p] : WorkerStep(p, w)
        \/ Signal(p) \/ Cleanup(p) \/ Exit(p)

\* The supervisor restarts a process, the database and the lock serve every
\* process, cleanup's goroutine runs, and a worker whose select finds a closed
\* stopCh again and again takes it some day.
Fairness ==
    \A p \in Processes :
        /\ SF_vars(Boot(p) \/ (MigrationFatal(p) /\ stage[p] = "migrate"))
        /\ WF_vars(Cleanup(p) \/ (Exit(p) /\ stage[p] = "done"))
        /\ \A w \in 1..Workers[p] : /\ WF_vars(WorkerPolled(p, w))
                                 /\ SF_vars(WorkerStops(p, w))

Spec == Init /\ [][Next]_vars /\ Fairness
-----------------------------------------------------------------------------
(* A process that serves, or still cleans up, works on the complete        *)
(* schema: no crash in the middle of a migration, of this process or of    *)
(* another that boots at the same time, lets a later one past it, and no   *)
(* two processes are inside Up at once.                                    *)
MigratesAlone ==
    \A p \in Processes :
        /\ stage[p] \in {"migrate", "apply"} <=> lock = p
        /\ stage[p] = "apply" => dirty

ServesOnlyMigrated ==
    \A p \in Processes : stage[p] \in {"caches", "serve"} \cup Stopping =>
        version = Latest /\ ~dirty

LifecycleInv ==
    /\ LifecycleTypeOK
    /\ \A p \in Processes : stage[p] = "await" => told[p] > 0
    /\ MigratesAlone
    /\ ServesOnlyMigrated

(* Nothing is pulled from under its user: cleanup closes the cache, Redis  *)
(* or the database while a request runs only when Shutdown's time was up,  *)
(* and a cache worker polls a closed Redis only when Stop came before its  *)
(* goroutine had run far enough to be waited for.                          *)
ClosedAfterUse ==
    \A p \in Processes : stage[p] \in Stopping =>
        /\ inflight[p] > 0 /\ p \notin timedOut =>
             stage[p] = "drain"
        /\ \A w \in 1..Workers[p] :
             worker[p][w] = "poll" /\ "redis" \notin open[p] => w \in late[p]

(* Boot ends: with a database that answers now and then, every process     *)
(* serves again and again, whichever of them crashed or migrates first -   *)
(* unless a crash in the middle of a migration has left the schema dirty,  *)
(* which no restart repairs.                                               *)
BootsUnlessDirty ==
    \A p \in Processes : <>[]dirty \/ []<>(stage[p] \in {"serve"} \cup Stopping)

(* Cleanup is never stuck on a worker, whatever its select prefers.        *)
CleanupEnds ==
    \A p \in Processes : stage[p] = "drain" ~> stage[p] \in {"done", "down"}

(* The documented 30 seconds for requests in flight: only a crash or the   *)
(* time-out ends the process while one is being handled.  main does not    *)
(* wait for it.                                                            *)
InFlightRequestsFinish ==
    [][\A p \in Processes :
         stage[p] \in Stopping /\ stage'[p] = "down" /\ faults' = faults /\ p \notin timedOut
            => inflight[p] = 0]_vars
=============================================================================
