--------------------------- MODULE ServerProofs ----------------------------
(***************************************************************************)
(* Theorems about the server around its handlers: the life of its          *)
(* processes (Lifecycle), the rate limiters and the breaker of the HTTP    *)
(* middleware (RateLimiter, HttpBreaker) and the decisions of the          *)
(* authorization middleware (Authorization).                               *)
(***************************************************************************)
EXTENDS Lifecycle, RateLimiter, HttpBreaker, Authorization, FiniteSetTheorems, TLAPS

(***************************************************************************)
(* Theorems about Lifecycle, for any number of processes, migrations,      *)
(* workers, requests and faults.                                           *)
(*                                                                         *)
(* LifecycleInv is inductive: what Up may do next depends on the lock, the *)
(* version and the dirty flag only, and the lock is the one thing that the *)
(* end of a process gives back.  ClosedAfterUse needs to know of every     *)
(* worker Stop has passed that it is gone or was not waited for (UseInv).  *)
(***************************************************************************)
\* The variables of the service that are functions, and one process's share.
Maps ==
    /\ inflight \in [Processes -> Nat] /\ told \in [Processes -> Nat]
    /\ open \in [Processes -> SUBSET Resources]
    /\ timedOut \subseteq Processes
    /\ late \in [Processes -> SUBSET Nat] /\ DOMAIN worker = Processes

Share(p) ==
    /\ inflight[p] <= MaxInFlight[p] /\ told[p] <= Workers[p]
    /\ worker[p] \in [1..Workers[p] -> WorkerPlaces]
    /\ late[p] \subseteq 1..Workers[p]

Same(q) ==
    /\ inflight'[q] = inflight[q] /\ told'[q] = told[q] /\ open'[q] = open[q]
    /\ worker'[q] = worker[q] /\ late'[q] = late[q] /\ (q \in timedOut' <=> q \in timedOut)

\* A step of one process keeps the types of the others.
LEMMA OthersKeep ==
    ASSUME ServiceTypeOK, NEW p \in Processes, Maps', Share(p)',
           \A q \in Processes \ {p} : Same(q)
    PROVE  ServiceTypeOK'
BY DEF ServiceTypeOK, Maps, Share, Same

\* Going to a stage moves one process only.
LEMMA GoType ==
    ASSUME BootTypeOK, NEW p \in Processes, NEW s \in Stages, Go(p, s)
    PROVE  /\ stage' \in [Processes -> Stages] /\ stage'[p] = s
           /\ \A q \in Processes \ {p} : stage'[q] = stage[q]
BY DEF Go, BootTypeOK

LEMMA StageTypes ==
    /\ Booting \subseteq Stages /\ Stopping \subseteq Stages /\ "serve" \in Stages
    /\ "down" \in Booting /\ "down" \notin Stopping
BY DEF Stages, Booting, Stopping
-----------------------------------------------------------------------------
\* Every process starts with nothing.
LEMMA BootInit == Init => LifecycleInv
<1> SUFFICES ASSUME Init PROVE LifecycleInv
  OBVIOUS
<1> USE DEF Init
<1>1. BootTypeOK
  <2>1. dirty \in BOOLEAN
    OBVIOUS
  <2>2. version \in 0..Latest /\ lock \in Processes \cup {NoOne} /\ faults \in 0..MaxFaults
    BY LifecycleConstants
  <2>3. stage \in [Processes -> Stages] /\ tries \in [Processes -> 0..MaxRetries]
    BY LifecycleConstants DEF Stages, Booting
  <2> QED
    BY <2>1, <2>2, <2>3 DEF BootTypeOK
<1>2. ServiceTypeOK
  <2>1. Maps
    BY DEF Maps
  <2>2. ASSUME NEW p \in Processes PROVE Share(p)
    <3>1. worker[p] = [w \in 1..Workers[p] |-> "none"]
      OBVIOUS
    <3> QED
      BY <3>1, LifecycleConstants DEF Share, WorkerPlaces
  <2> QED
    BY <2>1, <2>2 DEF ServiceTypeOK, Maps, Share
<1>3. MigratesAlone /\ ServesOnlyMigrated
  BY LifecycleConstants DEF MigratesAlone, ServesOnlyMigrated, Stopping
<1> QED
  BY <1>1, <1>2, <1>3 DEF LifecycleInv, LifecycleTypeOK
-----------------------------------------------------------------------------
\* The service's variables keep their types when a process ends, ...
LEMMA GoneService ==
    ASSUME ServiceTypeOK, NEW p \in Processes, Gone(p)
    PROVE  ServiceTypeOK' /\ \A q \in Processes \ {p} : Same(q)
<1>1. Maps'
  BY DEF Gone, ServiceTypeOK, Maps
<1>2. \A q \in Processes \ {p} : Same(q)
  BY DEF Gone, ServiceTypeOK, Same
<1>3. Share(p)'
  <2>1. /\ worker'[p] = [w \in 1..Workers[p] |-> "none"] /\ inflight'[p] = 0
        /\ told'[p] = 0 /\ late'[p] = {}
    BY DEF Gone, ServiceTypeOK
  <2> QED
    BY <2>1, LifecycleConstants DEF Share, WorkerPlaces
<1> QED
  BY <1>1, <1>2, <1>3, OthersKeep

\* ... when the server starts, ...
LEMMA StartService ==
    ASSUME ServiceTypeOK, NEW p \in Processes, StartServer(p)
    PROVE  ServiceTypeOK' /\ \A q \in Processes \ {p} : Same(q)
<1>1. Maps'
  BY DEF StartServer, Spawned, ServiceTypeOK, Maps
<1>2. \A q \in Processes \ {p} : Same(q)
  BY DEF StartServer, ServiceTypeOK, Same
<1>3. Share(p)'
  <2>1. \E place \in {"spawned", "none"} : worker'[p] = [w \in 1..Workers[p] |-> place]
    BY DEF StartServer, Spawned, ServiceTypeOK
  <2>2. /\ inflight'[p] <= MaxInFlight[p] /\ told'[p] <= Workers[p]
        /\ late'[p] \subseteq 1..Workers[p]
    BY DEF StartServer, Spawned, ServiceTypeOK
  <2> QED
    BY <2>1, <2>2 DEF Share, WorkerPlaces
<1> QED
  BY <1>1, <1>2, <1>3, OthersKeep

\* ... when it serves, ...
LEMMA ServeService ==
    ASSUME ServiceTypeOK, NEW p \in Processes, Accept(p) \/ Respond(p)
    PROVE  ServiceTypeOK' /\ \A q \in Processes \ {p} : Same(q)
<1>1. Maps'
  <2>1. inflight' \in [Processes -> Nat]
    BY DEF Accept, Respond, ServiceTypeOK
  <2> QED
    BY <2>1 DEF Accept, Respond, ServiceTypeOK, Maps
<1>2. \A q \in Processes \ {p} : Same(q)
  BY DEF Accept, Respond, ServiceTypeOK, Same
<1>3. Share(p)'
  BY LifecycleConstants DEF Accept, Respond, ServiceTypeOK, Share
<1> QED
  BY <1>1, <1>2, <1>3, OthersKeep

\* ... when a worker moves, ...
LEMMA WorkService ==
    ASSUME ServiceTypeOK, NEW p \in Processes, NEW w \in 1..Workers[p],
           NEW s \in WorkerPlaces, SetWorker(p, w, s)
    PROVE  /\ ServiceTypeOK' /\ \A q \in Processes \ {p} : Same(q)
           /\ worker'[p][w] = s
           /\ \A v \in 1..Workers[p] : v # w => worker'[p][v] = worker[p][v]
<1>1. Maps'
  BY DEF SetWorker, ServiceTypeOK, Maps
<1>2. \A q \in Processes \ {p} : Same(q)
  BY DEF SetWorker, ServiceTypeOK, Same
<1>3. Share(p)'
  BY DEF SetWorker, ServiceTypeOK, Share
<1>4. /\ worker'[p][w] = s
      /\ \A v \in 1..Workers[p] : v # w => worker'[p][v] = worker[p][v]
  BY DEF SetWorker, ServiceTypeOK
<1> QED
  BY <1>1, <1>2, <1>3, <1>4, OthersKeep

\* ... and during cleanup.
LEMMA CleanupService ==
    ASSUME ServiceTypeOK, NEW p \in Processes, stage[p] = "await" => told[p] > 0,
           EndShutdown(p) \/ StopWorker(p) \/ AwaitWorker(p) \/ CloseNext(p)
    PROVE  ServiceTypeOK' /\ \A q \in Processes \ {p} : Same(q)
<1>1. Maps'
  <2>1. CASE EndShutdown(p)
    BY <2>1 DEF EndShutdown, ServiceTypeOK, Maps
  <2>2. CASE StopWorker(p)
    BY <2>2 DEF StopWorker, ServiceTypeOK, Maps
  <2>3. CASE AwaitWorker(p)
    BY <2>3 DEF AwaitWorker, ServiceTypeOK, Maps
  <2>4. CASE CloseNext(p)
    <3>1. \E r \in Resources : open' = [open EXCEPT ![p] = @ \ {r}]
      BY <2>4 DEF CloseNext, Resources
    <3>2. open' \in [Processes -> SUBSET Resources]
      BY <3>1 DEF ServiceTypeOK
    <3> QED
      BY <2>4, <3>2 DEF CloseNext, ServiceTypeOK, Maps
  <2> QED
    BY <2>1, <2>2, <2>3, <2>4
<1>2. \A q \in Processes \ {p} : Same(q)
  BY DEF EndShutdown, StopWorker, AwaitWorker, CloseNext, ServiceTypeOK, Same
<1>3. Share(p)'
  <2> USE LifecycleConstants DEF ServiceTypeOK, Share
  <2>1. CASE EndShutdown(p) \/ CloseNext(p)
    BY <2>1 DEF EndShutdown, CloseNext
  <2>2. CASE StopWorker(p)
    BY <2>2 DEF StopWorker
  <2>3. CASE AwaitWorker(p)
    BY <2>3 DEF AwaitWorker
  <2> QED
    BY <2>1, <2>2, <2>3
<1> QED
  BY <1>1, <1>2, <1>3, OthersKeep

\* Steps that leave the service alone.
LEMMA ServiceRests ==
    ASSUME ServiceTypeOK, UNCHANGED service
    PROVE  ServiceTypeOK' /\ \A q \in Processes : Same(q)
BY DEF ServiceTypeOK, service, Same
-----------------------------------------------------------------------------
\* The part of LifecycleInv that is about the schema and the stages.
BootInv == BootTypeOK /\ MigratesAlone /\ ServesOnlyMigrated

LEMMA GoneBoot ==
    ASSUME BootInv, NEW p \in Processes, Gone(p), UNCHANGED <<version, dirty>>,
           faults' \in 0..MaxFaults
    PROVE  BootInv' /\ stage'[p] = "down" /\ \A q \in Processes \ {p} : stage'[q] = stage[q]
<1> USE StageTypes DEF BootInv, Gone
<1>1. /\ stage' \in [Processes -> Stages] /\ stage'[p] = "down"
      /\ \A q \in Processes \ {p} : stage'[q] = stage[q]
  BY GoType
<1>2. BootTypeOK'
  <2>1. lock' \in Processes \cup {NoOne} /\ tries' \in [Processes -> 0..MaxRetries]
    BY LifecycleConstants DEF BootTypeOK, Unlocked
  <2> QED
    BY <1>1, <2>1 DEF BootTypeOK
<1>3. MigratesAlone'
  BY <1>1, LifecycleConstants DEF MigratesAlone, Unlocked
<1>4. ServesOnlyMigrated'
  BY <1>1, StageTypes DEF ServesOnlyMigrated, Migrated, Booting, Stopping
<1> QED
  BY <1>1, <1>2, <1>3, <1>4

\* A step that only moves one process between two stages of one kind.
LEMMA MoveBoot ==
    ASSUME BootInv, NEW p \in Processes, NEW s \in Stages, Go(p, s),
           UNCHANGED <<schema, tries, faults>>,
           /\ stage[p] \notin {"migrate", "apply"} /\ s \notin {"migrate", "apply"}
           /\ s \in {"caches", "serve"} \cup Stopping =>
                 stage[p] \in {"caches", "serve"} \cup Stopping
    PROVE  BootInv' /\ stage'[p] = s /\ \A q \in Processes \ {p} : stage'[q] = stage[q]
<1>1. /\ stage' \in [Processes -> Stages] /\ stage'[p] = s
      /\ \A q \in Processes \ {p} : stage'[q] = stage[q]
  BY GoType DEF BootInv
<1>2. BootTypeOK'
  BY <1>1 DEF BootInv, BootTypeOK, schema
<1>3. MigratesAlone' /\ ServesOnlyMigrated'
  BY <1>1 DEF BootInv, MigratesAlone, ServesOnlyMigrated, Migrated, schema
<1> QED
  BY <1>1, <1>2, <1>3 DEF BootInv

\* Up: one process at a time, and past it only when every migration is done.
LEMMA UpBoot ==
    ASSUME BootInv, NEW p \in Processes,
           Lock(p) \/ BeginMigration(p) \/ EndMigration(p) \/ EndUp(p)
    PROVE  BootInv' /\ stage'[p] \in Booting /\ \A q \in Processes \ {p} : stage'[q] = stage[q]
<1> USE StageTypes DEF BootInv
<1>1. PICK s \in {"migrate", "apply", "caches"} :
          Go(p, s) /\ UNCHANGED <<tries, faults>> /\ (s = "caches" => EndUp(p))
  BY DEF Lock, BeginMigration, EndMigration, EndUp
<1>2. /\ stage' \in [Processes -> Stages] /\ stage'[p] = s
      /\ \A q \in Processes \ {p} : stage'[q] = stage[q]
  BY <1>1, GoType DEF Stages, Booting
<1>3. dirty' \in BOOLEAN
  BY DEF Lock, BeginMigration, EndMigration, EndUp, BootTypeOK
<1>4. version' \in 0..Latest /\ lock' \in Processes \cup {NoOne}
  BY LifecycleConstants
     DEF Lock, BeginMigration, HasMore, EndMigration, EndUp, Unlocked, BootTypeOK
<1>5. BootTypeOK'
  BY <1>1, <1>2, <1>3, <1>4 DEF BootTypeOK
<1>6. MigratesAlone'
  BY <1>2, LifecycleConstants
     DEF Lock, BeginMigration, EndMigration, EndUp, Unlocked, MigratesAlone, Go, BootTypeOK
<1>7. ServesOnlyMigrated'
  <2>1. CASE Lock(p)
    BY <2>1, <1>2 DEF Lock, ServesOnlyMigrated, Migrated, Stopping, Go, BootTypeOK
  <2>2. CASE BeginMigration(p) \/ EndMigration(p)
    <3>1. ~Migrated
      BY <2>2, LifecycleConstants
         DEF BeginMigration, HasMore, EndMigration, MigratesAlone, Migrated, BootTypeOK
    <3>2. \A q \in Processes : stage[q] \notin {"caches", "serve"} \cup Stopping
      BY <3>1 DEF ServesOnlyMigrated, Migrated
    <3>3. stage'[p] \in {"migrate", "apply"}
      BY <2>2, <1>2 DEF BeginMigration, EndMigration, Go, BootTypeOK
    <3> QED
      BY <3>2, <3>3, <1>2 DEF ServesOnlyMigrated, Stopping
  <2>3. CASE EndUp(p)
    BY <2>3, <1>2 DEF EndUp, ServesOnlyMigrated, Migrated
  <2> QED
    BY <2>1, <2>2, <2>3
<1> QED
  BY <1>1, <1>2, <1>5, <1>6, <1>7 DEF Booting
-----------------------------------------------------------------------------
\* What a step of process p does to the rest: nothing but take the lock.
Alone(p) ==
    /\ \A q \in Processes \ {p} : Same(q) /\ stage'[q] = stage[q]

\* One step per action: LifecycleInv is kept, and only p moves.
LEMMA LifecycleStep ==
    ASSUME LifecycleInv, NEW p \in Processes,
           \/ Boot(p) \/ Fatal(p) \/ MigrationFatal(p) \/ Crash(p)
           \/ Accept(p) \/ Respond(p)
           \/ \E w \in 1..Workers[p] : WorkerStep(p, w)
           \/ Signal(p) \/ Cleanup(p) \/ Exit(p)
    PROVE  LifecycleInv' /\ Alone(p)
<1>0. BootInv /\ ServiceTypeOK /\ (stage[p] = "await" => told[p] > 0)
  BY DEF LifecycleInv, LifecycleTypeOK, BootInv
<1> SUFFICES /\ BootInv' /\ ServiceTypeOK' /\ Alone(p)
             /\ stage'[p] = "await" => told'[p] > 0
  BY DEF LifecycleInv, LifecycleTypeOK, BootInv, Alone, Same
<1>1. CASE Fatal(p) \/ MigrationFatal(p) \/ Crash(p) \/ Exit(p)
  <2>1. Gone(p) /\ UNCHANGED <<version, dirty>>
    BY <1>1 DEF Fatal, MigrationFatal, Crash, Exit
  <2>2. faults' \in 0..MaxFaults
    BY <1>0, <1>1, LifecycleConstants
       DEF Fatal, MigrationFatal, Crash, Exit, Fault, BootInv, BootTypeOK
  <2> QED
    BY <1>0, <2>1, <2>2, GoneBoot, GoneService DEF Alone
<1>2. CASE Lock(p) \/ BeginMigration(p) \/ EndMigration(p) \/ EndUp(p)
  <2>1. UNCHANGED service
    BY <1>2 DEF Lock, BeginMigration, EndMigration, EndUp
  <2> QED
    BY <1>0, <1>2, <2>1, UpBoot, ServiceRests DEF Alone, Booting
<1>3. CASE PingAgain(p)
  <2>1. BootInv' /\ UNCHANGED <<stage, service>>
    <3>1. tries' \in [Processes -> 0..MaxRetries]
      BY <1>0, <1>3, LifecycleConstants DEF PingAgain, BootInv, BootTypeOK
    <3> QED
      BY <1>0, <1>3, <3>1 DEF PingAgain, schema, BootInv, BootTypeOK, MigratesAlone,
                              ServesOnlyMigrated, Migrated
  <2> QED
    BY <1>0, <1>3, <2>1, ServiceRests DEF Alone, PingAgain
<1>4. CASE Start(p) \/ Connect(p) \/ Ping(p) \/ Signal(p) \/ EndStop(p)
  <2>1. PICK s \in {"connect", "ping", "lock", "drain", "close cache"} :
            /\ Go(p, s) /\ UNCHANGED <<schema, tries, faults, service>>
            /\ stage[p] \notin {"migrate", "apply"}
            /\ s \in {"drain", "close cache"} => stage[p] \in {"serve", "stop"}
    BY <1>4 DEF Start, Connect, Ping, Signal, EndStop
  <2>2. s \in Stages /\ s \notin {"migrate", "apply", "await"}
    BY DEF Stages, Booting, Stopping
  <2>3. s \in {"caches", "serve"} \cup Stopping => stage[p] \in {"caches", "serve"} \cup Stopping
    BY <2>1 DEF Stopping
  <2> QED
    BY <1>0, <2>1, <2>2, <2>3, MoveBoot, ServiceRests DEF Alone
<1>5. CASE StartServer(p)
  BY <1>0, <1>5, StartService, MoveBoot, StageTypes DEF StartServer, Alone
<1>6. CASE Accept(p) \/ Respond(p)
  <2>1. UNCHANGED <<schema, stage, tries, faults, told>>
    BY <1>6 DEF Accept, Respond
  <2>2. BootInv'
    BY <1>0, <2>1 DEF schema, BootInv, BootTypeOK, MigratesAlone, ServesOnlyMigrated, Migrated
  <2> QED
    BY <1>0, <1>6, <2>1, <2>2, ServeService DEF Alone
<1>7. CASE \E w \in 1..Workers[p] : WorkerStep(p, w)
  <2>1. PICK w \in 1..Workers[p] : \E s \in WorkerPlaces : SetWorker(p, w, s)
    BY <1>7 DEF WorkerStep, WorkerBegins, WorkerPolls, WorkerPolled, WorkerStops, WorkerPlaces
  <2>2. UNCHANGED <<schema, stage, tries, faults, told>>
    BY <2>1 DEF SetWorker
  <2>3. BootInv'
    BY <1>0, <2>2 DEF schema, BootInv, BootTypeOK, MigratesAlone, ServesOnlyMigrated, Migrated
  <2> QED
    BY <1>0, <2>1, <2>2, <2>3, WorkService DEF Alone
<1>8. CASE EndShutdown(p) \/ StopWorker(p) \/ AwaitWorker(p) \/ CloseNext(p)
  <2>1. PICK s \in Stopping :
            /\ Go(p, s) /\ UNCHANGED <<schema, tries, faults>>
            /\ stage[p] \in Stopping
    BY <1>8 DEF EndShutdown, StopWorker, AwaitWorker, CloseNext, Stopping
  <2>2. BootInv' /\ stage'[p] = s /\ \A q \in Processes \ {p} : stage'[q] = stage[q]
    BY <1>0, <2>1, MoveBoot, StageTypes DEF Stopping
  <2>3. s = "await" => told'[p] > 0
    <3>1. CASE StopWorker(p)
      BY <1>0, <3>1 DEF StopWorker, ServiceTypeOK
    <3>2. CASE ~StopWorker(p)
      BY <1>0, <1>8, <2>1, <3>2
         DEF EndShutdown, AwaitWorker, CloseNext, Go, BootInv, BootTypeOK
    <3> QED
      BY <3>1, <3>2
  <2> QED
    BY <1>0, <1>8, <2>2, <2>3, CleanupService DEF Alone
<1> QED
  BY <1>1, <1>2, <1>3, <1>4, <1>5, <1>6, <1>7, <1>8 DEF Boot, Cleanup

\* LifecycleInv holds for ever: two processes are never inside Up at once and
\* whoever serves works on the complete schema, whatever crashes when.
THEOREM LifecycleInvariant == Spec => []LifecycleInv
<1>1. LifecycleInv /\ [Next]_vars => LifecycleInv'
  <2> SUFFICES ASSUME LifecycleInv, [Next]_vars PROVE LifecycleInv'
    OBVIOUS
  <2>1. CASE Next
    BY <2>1, LifecycleStep DEF Next
  <2>2. CASE UNCHANGED vars
    BY <2>2 DEF vars, LifecycleInv, LifecycleTypeOK, BootTypeOK, ServiceTypeOK, MigratesAlone,
                ServesOnlyMigrated, Migrated
  <2> QED
    BY <2>1, <2>2
<1> QED
  BY BootInit, <1>1, PTL DEF Spec
-----------------------------------------------------------------------------
\* Stop has passed worker w of process p.
Passed(p, w) == w < told[p] \/ (w = told[p] /\ stage[p] # "await")

\* Workers that Stop has passed poll no more, or were not waited for; after
\* Stop that is every worker, and without Redis there is none.
UseOf(p) ==
    /\ stage[p] \in Stopping \ {"drain"} /\ inflight[p] > 0 => p \in timedOut
    /\ \A w \in 1..Workers[p] :
          Passed(p, w) => worker[p][w] \in {"none", "gone"} \/ w \in late[p]
    /\ stage[p] \in {"close cache", "close redis", "close db", "done"} =>
          told[p] = Workers[p]
    /\ stage[p] \in Booting \cup {"serve", "drain"} => told[p] = 0
    /\ "redis" \notin open[p] /\ stage[p] \notin {"close db", "done"} =>
          \A w \in 1..Workers[p] : worker[p][w] = "none"

UseInv == \A p \in Processes : UseOf(p)

LEMMA UseInit == Init => UseInv
<1> SUFFICES ASSUME Init, NEW p \in Processes PROVE UseOf(p)
  BY DEF UseInv
<1>1. stage[p] = "down" /\ told[p] = 0 /\ \A w \in 1..Workers[p] : worker[p][w] = "none"
  BY DEF Init
<1> QED
  BY <1>1 DEF UseOf, Stopping

\* A process that ends, or has not started, uses nothing.
LEMMA UseNothing ==
    ASSUME ServiceTypeOK, NEW p \in Processes, Gone(p), stage'[p] = "down"
    PROVE  UseOf(p)'
BY DEF ServiceTypeOK, Gone, UseOf, Passed, Stopping

LEMMA UseStart ==
    ASSUME ServiceTypeOK, BootTypeOK, NEW p \in Processes, UseOf(p), StartServer(p)
    PROVE  UseOf(p)'
<1>1. /\ stage'[p] = "serve" /\ told'[p] = 0 /\ late'[p] = late[p] /\ "serve" \notin Stopping
      /\ \/ "redis" \in open'[p]
         \/ \A w \in 1..Workers[p] : worker'[p][w] = "none"
  <2>1. stage[p] = "caches" /\ stage'[p] = "serve" /\ UNCHANGED <<told, late>>
    BY DEF StartServer, Go, BootTypeOK
  <2>2. told[p] = 0
    BY <2>1 DEF UseOf, Booting
  <2>3. PICK redis, integrated \in BOOLEAN :
            /\ MayIntegrate(redis, integrated)
            /\ open' = [open EXCEPT ![p] = IF redis THEN Resources ELSE Resources \ {"redis"}]
            /\ worker' = [worker EXCEPT ![p] = Spawned(p, integrated)]
    BY DEF StartServer
  <2>4. CASE redis
    BY <2>1, <2>2, <2>3, <2>4 DEF ServiceTypeOK, Resources, Stopping
  <2>5. CASE ~integrated
    BY <2>1, <2>2, <2>3, <2>5 DEF Spawned, ServiceTypeOK, Stopping
  <2> QED
    BY <2>3, <2>4, <2>5 DEF MayIntegrate
<1> QED
  <2>1. \A w \in 1..Workers[p] : ~Passed(p, w)'
    <3>1. Workers[p] \in Nat
      BY LifecycleConstants
    <3> QED
      BY <1>1, <3>1 DEF Passed
  <2> QED
    BY <1>1, <2>1 DEF UseOf

\* Boot, up to the start of the server.
LEMMA UseBoot ==
    ASSUME BootTypeOK, NEW p \in Processes, UseOf(p), UNCHANGED service,
           stage[p] \in Booting, stage'[p] \in Booting
    PROVE  UseOf(p)'
BY DEF service, UseOf, Passed, Booting, Stopping

\* No request is accepted after the signal, and a worker that Stop has passed
\* goes nowhere unless it was not waited for.
LEMMA UseServe ==
    ASSUME ServiceTypeOK, NEW p \in Processes, UseOf(p), Accept(p) \/ Respond(p)
    PROVE  UseOf(p)'
<1>1. /\ UNCHANGED <<stage, open, worker, told, timedOut, late>>
      /\ stage[p] \in Stopping => inflight'[p] = inflight[p] - 1
  BY DEF Accept, Respond, ServiceTypeOK, Stopping
<1>2. inflight[p] \in Nat
  BY DEF ServiceTypeOK
<1> QED
  <2>1. stage[p] \in Stopping \ {"drain"} /\ inflight'[p] > 0 => p \in timedOut'
    <3>1. stage[p] \in Stopping \ {"drain"} /\ inflight[p] > 0 => p \in timedOut
      BY DEF UseOf
    <3> QED
      BY <1>1, <1>2, <3>1
  <2> QED
    BY <1>1, <2>1 DEF UseOf, Passed

LEMMA UseWork ==
    ASSUME ServiceTypeOK, NEW p \in Processes, UseOf(p),
           NEW w \in 1..Workers[p], WorkerStep(p, w)
    PROVE  UseOf(p)'
<1>1. PICK s \in WorkerPlaces : SetWorker(p, w, s)
  BY DEF WorkerStep, WorkerBegins, WorkerPolls, WorkerPolled, WorkerStops, WorkerPlaces
<1>2. /\ worker[p][w] \notin {"none", "gone"}
      /\ UNCHANGED <<stage, inflight, open, told, timedOut, late>>
  BY DEF WorkerStep, WorkerBegins, WorkerPolls, WorkerPolled, WorkerStops, SetWorker
<1>3. /\ worker'[p][w] = s
      /\ \A v \in 1..Workers[p] : v # w => worker'[p][v] = worker[p][v]
  BY <1>1, WorkService
<1> QED
  BY <1>2, <1>3 DEF UseOf, Passed

LEMMA UseCleanup ==
    ASSUME LifecycleInv, NEW p \in Processes, UseOf(p), Signal(p) \/ Cleanup(p)
    PROVE  UseOf(p)'
<1>0. /\ BootTypeOK /\ ServiceTypeOK /\ (stage[p] = "await" => told[p] > 0)
      /\ told[p] \in 0..Workers[p] /\ inflight[p] \in Nat /\ Workers[p] \in Nat
  BY LifecycleConstants DEF LifecycleInv, LifecycleTypeOK, ServiceTypeOK
<1>1. CASE Signal(p)
  <2>1. stage[p] = "serve" /\ stage'[p] = "drain" /\ UNCHANGED service
    BY <1>0, <1>1 DEF Signal, Go, BootTypeOK
  <2> QED
    BY <2>1 DEF UseOf, Passed, service, Stopping, Booting
<1>2. CASE EndShutdown(p)
  <2>1. /\ stage[p] = "drain" /\ stage'[p] = "stop"
        /\ UNCHANGED <<inflight, open, worker, told, late>>
        /\ inflight[p] > 0 => p \in timedOut'
    BY <1>0, <1>2 DEF EndShutdown, Drained, Go, BootTypeOK, ServiceTypeOK
  <2> QED
    BY <2>1 DEF UseOf, Passed, Stopping, Booting
<1>3. CASE StopWorker(p)
  <2>1. /\ stage[p] = "stop" /\ stage'[p] = "await" /\ told'[p] = told[p] + 1
        /\ UNCHANGED <<inflight, open, worker, timedOut, late>>
    BY <1>0, <1>3 DEF StopWorker, Go, BootTypeOK, ServiceTypeOK
  <2>2. \A w \in 1..Workers[p] : Passed(p, w)' => Passed(p, w)
    BY <1>0, <2>1 DEF Passed
  <2> QED
    BY <2>1, <2>2 DEF UseOf, Stopping, Booting
<1>4. CASE AwaitWorker(p)
  <2>1. /\ stage[p] = "await" /\ stage'[p] = "stop" /\ WaitOver(p, told[p])
        /\ UNCHANGED <<inflight, open, worker, told, timedOut>>
        /\ late[p] \subseteq late'[p]
        /\ worker[p][told[p]] = "spawned" => told[p] \in late'[p]
    BY <1>0, <1>4 DEF AwaitWorker, Go, BootTypeOK, ServiceTypeOK
  <2>2. \A w \in 1..Workers[p] : Passed(p, w)' => Passed(p, w) \/ w = told[p]
    BY <1>0, <2>1 DEF Passed
  <2> QED
    BY <2>1, <2>2 DEF UseOf, WaitOver, Stopping, Booting
<1>5. CASE EndStop(p)
  <2>1. /\ stage[p] = "stop" /\ stage'[p] = "close cache" /\ told[p] = Workers[p]
        /\ UNCHANGED service
    BY <1>0, <1>5 DEF EndStop, Go, BootTypeOK
  <2> QED
    BY <2>1 DEF UseOf, Passed, service, Stopping, Booting
<1>6. CASE CloseNext(p)
  <2>1. /\ \/ stage[p] = "close cache" /\ stage'[p] = "close redis"
           \/ stage[p] = "close redis" /\ stage'[p] = "close db"
           \/ stage[p] = "close db" /\ stage'[p] = "done"
        /\ UNCHANGED <<inflight, worker, told, timedOut, late>>
        /\ stage'[p] = "close redis" => ("redis" \in open'[p] <=> "redis" \in open[p])
    BY <1>0, <1>6 DEF CloseNext, Go, BootTypeOK, ServiceTypeOK
  <2> QED
    BY <2>1 DEF UseOf, Passed, Stopping, Booting
<1> QED
  BY <1>1, <1>2, <1>3, <1>4, <1>5, <1>6 DEF Cleanup

\* The other processes' use of theirs does not change.
LEMMA UseAlone ==
    ASSUME UseInv, NEW p \in Processes, Alone(p), UseOf(p)'
    PROVE  UseInv'
<1> SUFFICES ASSUME NEW q \in Processes \ {p} PROVE UseOf(q)'
  BY DEF UseInv
<1>1. UseOf(q) /\ stage'[q] = stage[q] /\ Same(q)
  BY DEF UseInv, Alone
<1>2. \A w : Passed(q, w)' <=> Passed(q, w)
  BY <1>1 DEF Passed, Same
<1> QED
  BY <1>1, <1>2 DEF UseOf, Same

LEMMA UseStep ==
    ASSUME LifecycleInv, UseInv, [Next]_vars
    PROVE  UseInv'
<1>1. CASE Next
  <2>1. PICK p \in Processes :
            \/ Boot(p) \/ Fatal(p) \/ MigrationFatal(p) \/ Crash(p)
            \/ Accept(p) \/ Respond(p)
            \/ \E w \in 1..Workers[p] : WorkerStep(p, w)
            \/ Signal(p) \/ Cleanup(p) \/ Exit(p)
    BY <1>1 DEF Next
  <2>2. Alone(p) /\ BootTypeOK /\ ServiceTypeOK /\ UseOf(p)
    BY <2>1, LifecycleStep DEF LifecycleInv, LifecycleTypeOK, UseInv
  <2>3. CASE Fatal(p) \/ MigrationFatal(p) \/ Crash(p) \/ Exit(p)
    <3>1. Gone(p) /\ stage'[p] = "down"
      BY <2>2, <2>3 DEF Fatal, MigrationFatal, Crash, Exit, Gone, Go, BootTypeOK
    <3> QED
      BY <2>2, <3>1, UseNothing, UseAlone
  <2>4. CASE Boot(p) /\ ~StartServer(p)
    <3>1. UNCHANGED service /\ stage[p] \in Booting /\ stage'[p] \in Booting
      BY <2>2, <2>4 DEF Boot, Start, Connect, Ping, PingAgain, Lock, BeginMigration, EndMigration,
                        EndUp, Go, BootTypeOK, Booting
    <3> QED
      BY <2>2, <3>1, UseBoot, UseAlone
  <2>5. CASE StartServer(p)
    BY <2>2, <2>5, UseStart, UseAlone
  <2> QED
    BY <2>1, <2>2, <2>3, <2>4, <2>5, UseServe, UseWork, UseCleanup, UseAlone
<1>2. CASE UNCHANGED vars
  BY <1>2 DEF vars, UseInv, UseOf, Passed
<1> QED
  BY <1>1, <1>2

LEMMA UseSuffices ==
    ASSUME LifecycleInv, UseInv
    PROVE  ClosedAfterUse
<1> SUFFICES ASSUME NEW p \in Processes, stage[p] \in Stopping
             PROVE  /\ inflight[p] > 0 /\ p \notin timedOut => stage[p] = "drain"
                    /\ \A w \in 1..Workers[p] :
                          worker[p][w] = "poll" /\ "redis" \notin open[p] => w \in late[p]
  BY DEF ClosedAfterUse
<1>1. UseOf(p)
  BY DEF UseInv
<1>2. inflight[p] > 0 /\ p \notin timedOut => stage[p] = "drain"
  BY <1>1 DEF UseOf
<1>3. ASSUME NEW w \in 1..Workers[p], worker[p][w] = "poll", "redis" \notin open[p]
      PROVE  w \in late[p]
  <2>1. stage[p] \in {"close db", "done"} /\ told[p] = Workers[p]
    BY <1>1, <1>3 DEF UseOf
  <2>2. Passed(p, w)
    <3>1. Workers[p] \in Nat
      BY LifecycleConstants
    <3>2. w \in 1..Workers[p]
      BY <1>3
    <3>3. w < Workers[p] \/ w = Workers[p]
      BY <3>1, <3>2
    <3>4. stage[p] # "await"
      BY <2>1
    <3> QED
      BY <2>1, <3>3, <3>4 DEF Passed
  <2> QED
    BY <1>1, <1>3, <2>2 DEF UseOf
<1> QED
  BY <1>2, <1>3

\* Cleanup closes nothing that is in use: no request but one whose 30 seconds
\* are up, no poll but one of a worker Stop could not wait for.
THEOREM ClosedAfterUseHolds == Spec => []ClosedAfterUse
<1>1. LifecycleInv /\ UseInv /\ [Next]_vars => UseInv'
  BY UseStep
<1> QED
  BY LifecycleInvariant, UseInit, <1>1, UseSuffices, PTL DEF Spec
-----------------------------------------------------------------------------
(***************************************************************************)
(* Theorems about RateLimiter and HttpBreaker, the two parts of            *)
(* rate_limiter.go, for any number of requests and any parameters.         *)
(*                                                                         *)
(* LimiterInv is inductive as it stands, and ExactWhenAlone rests on       *)
(* ExactInv, see "Exactness".  For the breaker: a caller's view            *)
(* is out of date only if something was reported since it read it, and     *)
(* ViewsOK says what a caller that no failure has outrun, or no reset has  *)
(* overtaken, may still rely on.                                           *)
(***************************************************************************)
LEMMA LimiterNumbers ==
    /\ MaxTime \in Nat /\ Window \in Nat \ {0} /\ Never \in 0..Never
    /\ \A t \in 0..MaxTime : t + Window \in 0..Never /\ t + Window # Never
BY LimiterConstants DEF Never

LEMMA CountIsNat == ASSUME entries \subseteq 0..MaxTime PROVE Cardinality(entries) \in Nat
<1>1. IsFiniteSet(0..MaxTime)
  BY LimiterNumbers, FS_Interval
<1> QED
  BY <1>1, FS_Subset, FS_CardinalityType

\* A key without a time to live holds only what the property says.
Mortal == expiresAt = Never => entries \subseteq abandoned \cup {stamp[s] : s \in Busy}

LEMMA LimiterStarts == LimiterInit => LimiterInv
<1> SUFFICES ASSUME LimiterInit PROVE LimiterInv
  OBVIOUS
<1>1. LimiterTypeOK
  BY LimiterNumbers DEF LimiterInit, LimiterTypeOK, Outcomes
<1>2. entries = {}
  BY DEF LimiterInit
<1> QED
  BY <1>1, <1>2 DEF LimiterInv

\* Who stays in flight keeps its stamp.
LEMMA BusyKeeps ==
    ASSUME Mortal, entries' \subseteq entries, expiresAt = Never,
           abandoned \subseteq abandoned',
           \A s \in Busy : (s \in Busy' /\ stamp'[s] = stamp[s]) \/ stamp[s] \in abandoned'
    PROVE  Mortal'
BY DEF Mortal

LEMMA LimiterArrive ==
    ASSUME LimiterInv, NEW s \in Slots, Arrive(s)
    PROVE  LimiterInv'
<1>1. LimiterTypeOK'
  BY DEF Arrive, LimiterInv, LimiterTypeOK, Commands
<1>2. \A q \in Busy : q \in Busy' /\ stamp'[q] = stamp[q]
  BY DEF Arrive, Busy, LimiterInv, LimiterTypeOK
<1> QED
  BY <1>1, <1>2, BusyKeeps DEF Arrive, LimiterInv, Mortal

LEMMA LimiterCommand ==
    ASSUME LimiterInv, NEW s \in Slots, Prune(s) \/ Count(s) \/ Add(s)
    PROVE  LimiterInv'
<1>1. s \in Busy /\ Busy' = Busy
  BY DEF Prune, Count, Add, Busy, Commands, LimiterInv, LimiterTypeOK
<1>2. UNCHANGED <<clock, stamp, alone, cut, arrivals, recorded, abandoned>>
  BY DEF Prune, Count, Add
<1>3. CASE Prune(s)
  <2>1. entries' \subseteq entries
    BY <1>3 DEF Prune, InWindow
  <2>2. LimiterTypeOK'
    BY <1>2, <1>3, <2>1, LimiterNumbers DEF Prune, LimiterInv, LimiterTypeOK, Commands
  <2>3. CASE entries' = {}
    BY <2>2, <2>3 DEF LimiterInv
  <2>4. CASE entries' # {}
    BY <1>1, <1>2, <1>3, <2>1, <2>2, <2>4, BusyKeeps DEF Prune, LimiterInv, Mortal
  <2> QED
    BY <2>3, <2>4
<1>4. CASE Count(s)
  <2>1. LimiterTypeOK'
    BY <1>2, <1>4, CountIsNat DEF Count, LimiterInv, LimiterTypeOK, Commands
  <2> QED
    BY <1>1, <1>2, <1>4, <2>1 DEF Count, LimiterInv
<1>5. CASE Add(s)
  <2>1. LimiterTypeOK'
    BY <1>2, <1>5 DEF Add, LimiterInv, LimiterTypeOK, Commands
  <2>2. expiresAt' = expiresAt /\ entries' = entries \cup {stamp[s]}
    BY <1>5 DEF Add
  <2> QED
    BY <1>1, <1>2, <2>1, <2>2 DEF LimiterInv
<1> QED
  BY <1>3, <1>4, <1>5

LEMMA AnswerTypes ==
    ASSUME LimiterTypeOK, NEW s \in Slots, NEW outcome \in Outcomes, Answer(s, outcome),
           UNCHANGED <<clock, entries>>, expiresAt' \in 0..Never
    PROVE  LimiterTypeOK'
<1>1. /\ at' \in [Slots -> Commands \cup Outcomes]
      /\ stamp' \in [Slots -> 0..MaxTime] /\ count' \in [Slots -> Nat]
  BY LimiterNumbers DEF Answer, LimiterTypeOK
<1>2. alone' \in [Slots -> BOOLEAN] /\ cut' \subseteq Slots
  BY Zenon DEF Answer, LimiterTypeOK
<1>3. stamp[s] \in 0..MaxTime
  BY DEF LimiterTypeOK
<1>4. recorded' \cup abandoned' \subseteq arrivals' /\ arrivals' \subseteq 0..MaxTime
  BY <1>3 DEF Answer, LimiterTypeOK
<1> QED
  BY <1>1, <1>2, <1>4 DEF LimiterTypeOK

LEMMA LimiterExpire ==
    ASSUME LimiterInv, NEW s \in Slots, Expire(s)
    PROVE  LimiterInv'
<1>1. expiresAt' \in 0..Never /\ (entries' # {} => expiresAt' # Never)
  BY LimiterNumbers DEF Expire, Renewed, LimiterInv, LimiterTypeOK
<1>2. LimiterTypeOK'
  <2>1. PICK outcome \in {"admitted", "refused"} : Answer(s, outcome)
    BY DEF Expire
  <2>2. abandoned' = abandoned /\ UNCHANGED <<clock, entries>>
    BY <2>1 DEF Answer, Expire
  <2> QED
    BY <1>1, <2>1, <2>2, AnswerTypes DEF LimiterInv, Outcomes
<1> QED
  BY <1>1, <1>2 DEF LimiterInv

LEMMA LimiterRepeat ==
    ASSUME LimiterInv, NEW s \in Slots, Repeat(s)
    PROVE  LimiterInv'
<1>1. LimiterTypeOK'
  BY DEF Repeat, LimiterInv, LimiterTypeOK, Commands
<1>2. \A q \in Busy : q \in Busy' /\ stamp'[q] = stamp[q]
  BY DEF Repeat, Busy, Commands, LimiterInv, LimiterTypeOK
<1> QED
  BY <1>1, <1>2, BusyKeeps DEF Repeat, LimiterInv, Mortal

LEMMA LimiterGiveUp ==
    ASSUME LimiterInv, NEW s \in Slots, GiveUp(s)
    PROVE  LimiterInv'
<1>1. Answer(s, "unchecked") /\ UNCHANGED <<clock, entries, expiresAt>>
  BY DEF GiveUp
<1>2. abandoned' = abandoned \cup {stamp[s]} /\ recorded' = recorded
  BY <1>1 DEF Answer
<1>3. LimiterTypeOK'
  BY <1>1, AnswerTypes DEF LimiterInv, LimiterTypeOK, Outcomes
<1>4. \A q \in Busy : (q \in Busy' /\ stamp'[q] = stamp[q]) \/ stamp[q] \in abandoned'
  BY <1>1, <1>2 DEF Answer, Busy, LimiterInv, LimiterTypeOK
<1> QED
  BY <1>1, <1>2, <1>3, <1>4, BusyKeeps DEF LimiterInv, Mortal

LEMMA LimiterClock == ASSUME LimiterInv, LimiterTick PROVE LimiterInv'
<1>1. LimiterTypeOK'
  <2>1. clock' \in 0..MaxTime
    BY LimiterNumbers DEF LimiterTick, LimiterInv, LimiterTypeOK
  <2>2. \/ entries' = {} /\ expiresAt' = Never /\ cut' = Busy
        \/ UNCHANGED <<entries, expiresAt, cut>>
    BY DEF LimiterTick
  <2>3. cut' \subseteq Slots
    BY <2>2 DEF Busy, LimiterInv, LimiterTypeOK
  <2>4. entries' \subseteq 0..MaxTime /\ expiresAt' \in 0..Never
    BY <2>2, LimiterNumbers DEF LimiterInv, LimiterTypeOK
  <2> QED
    BY <2>1, <2>3, <2>4 DEF LimiterTick, LimiterInv, LimiterTypeOK
<1>2. entries' = {} \/ (UNCHANGED <<entries, expiresAt>> /\ Busy' = Busy)
  BY DEF LimiterTick, Busy
<1> QED
  BY <1>1, <1>2 DEF LimiterTick, LimiterInv

\* Whatever overlaps, is repeated or given up, only a pipeline given up after
\* its ZADD leaves the key without a time to live.
THEOREM LimiterInvariant == LimiterSpec => []LimiterInv
<1>1. LimiterInv /\ [LimiterNext]_limiterVars => LimiterInv'
  <2> SUFFICES ASSUME LimiterInv, [LimiterNext]_limiterVars PROVE LimiterInv'
    OBVIOUS
  <2>1. CASE UNCHANGED limiterVars
    BY <2>1 DEF limiterVars, LimiterInv, LimiterTypeOK, Busy
  <2> QED
    BY <2>1, LimiterArrive, LimiterCommand, LimiterExpire, LimiterRepeat, LimiterGiveUp,
       LimiterClock DEF LimiterNext
<1> QED
  BY LimiterStarts, <1>1, PTL DEF LimiterSpec
-----------------------------------------------------------------------------
(***************************************************************************)
(* Exactness.  What was recorded stays in the sorted set until the window  *)
(* has left it behind: a pipeline prunes only what is older, and the key   *)
(* lives a window longer than anything recorded.  So a request that runs   *)
(* alone counts the stamps recorded in its window, and nothing that has    *)
(* not arrived.                                                            *)
(***************************************************************************)
ClockBounds ==
    /\ \A s \in Slots : stamp[s] <= clock
    /\ \A u \in arrivals : u <= clock

\* The key outlives what is recorded.
RecordedKept ==
    /\ \A u \in recorded : u + Window <= expiresAt
    /\ \A u \in recorded : u \in entries \/ u + Window <= clock
    /\ \A s \in Slots : at[s] = "EXPIRE" /\ s \notin cut =>
                            stamp[s] \in entries \/ stamp[s] + Window <= clock

EntriesCame == \A u \in entries : u \in arrivals \/ \E s \in Busy : u = stamp[s]

\* What ZCARD counts for s: the members but for its own.
Others(s) == entries \ {stamp[s]}

\* A request that has been alone from the start, its key alive.
Exact(s) ==
    /\ Busy = {s} /\ stamp[s] \notin arrivals
    /\ at[s] # "EXPIRE" => entries \subseteq arrivals
    /\ s \notin cut =>
        /\ \A u \in recorded : u > stamp[s] - Window => u \in entries
        /\ at[s] # "ZREMRANGEBYSCORE" => \A u \in Others(s) : u > stamp[s] - Window
        /\ at[s] \in {"ZADD", "EXPIRE"} => count[s] = Cardinality(Others(s))

ExactInv ==
    /\ LimiterTypeOK /\ ClockBounds /\ RecordedKept /\ EntriesCame
    /\ \A s \in Slots : alone[s] => Exact(s)
-----------------------------------------------------------------------------
LEMMA LimiterInts ==
    ASSUME LimiterTypeOK
    PROVE  /\ clock \in Nat /\ clock <= MaxTime /\ Window \in Nat \ {0} /\ MaxTime \in Nat
           /\ \A u \in entries : u \in Nat
           /\ \A u \in arrivals : u \in Nat
           /\ \A u \in recorded : u \in Nat /\ u \in arrivals /\ u <= MaxTime
           /\ \A s \in Slots : stamp[s] \in Nat /\ stamp[s] <= MaxTime
           /\ expiresAt \in Nat /\ Never = MaxTime + Window + 1
<1>1. MaxTime \in Nat /\ Window \in Nat \ {0}
  BY LimiterNumbers
<1>2. Never = MaxTime + Window + 1 /\ Never \in Nat
  BY <1>1 DEF Never
<1>3. clock \in 0..MaxTime /\ expiresAt \in 0..Never
  BY DEF LimiterTypeOK
<1>4. clock \in Nat /\ clock <= MaxTime /\ expiresAt \in Nat
  BY <1>1, <1>2, <1>3
<1>5. entries \subseteq 0..MaxTime /\ arrivals \subseteq 0..MaxTime /\ recorded \subseteq arrivals
  BY DEF LimiterTypeOK
<1>6. \A u \in 0..MaxTime : u \in Nat /\ u <= MaxTime
  BY <1>1
<1>7. /\ \A u \in entries : u \in Nat
      /\ \A u \in arrivals : u \in Nat
      /\ \A u \in recorded : u \in Nat /\ u \in arrivals /\ u <= MaxTime
  BY <1>5, <1>6
<1>8. \A s \in Slots : stamp[s] \in 0..MaxTime
  BY DEF LimiterTypeOK
<1>9. \A s \in Slots : stamp[s] \in Nat /\ stamp[s] <= MaxTime
  BY <1>6, <1>8
<1> QED
  BY <1>1, <1>2, <1>4, <1>7, <1>9

\* Who is alone is the only one in flight.
LEMMA OnlyOne ==
    ASSUME ExactInv, NEW s \in Busy, NEW q \in Slots, alone[q]
    PROVE  q = s
BY DEF ExactInv, Exact

LEMMA ExactStarts == LimiterInit => ExactInv
<1> SUFFICES ASSUME LimiterInit PROVE ExactInv
  OBVIOUS
<1>1. LimiterTypeOK
  BY LimiterStarts DEF LimiterInv
<1>2. ClockBounds
  BY DEF LimiterInit, ClockBounds
<1>3. RecordedKept /\ EntriesCame
  BY DEF LimiterInit, RecordedKept, EntriesCame
<1>4. \A s \in Slots : ~alone[s]
  BY DEF LimiterInit
<1> QED
  BY <1>1, <1>2, <1>3, <1>4 DEF ExactInv

LEMMA ExactArrive ==
    ASSUME ExactInv, LimiterTypeOK', NEW s \in Slots, Arrive(s)
    PROVE  ExactInv'
<1>1. /\ s \notin Busy /\ clock \notin arrivals
      /\ UNCHANGED <<clock, entries, expiresAt, count, cut, arrivals, recorded>>
      /\ at'[s] = "ZREMRANGEBYSCORE" /\ stamp'[s] = clock
      /\ \A q \in Slots \ {s} : at'[q] = at[q] /\ stamp'[q] = stamp[q]
  BY DEF Arrive, ExactInv, LimiterTypeOK
<1>2. Busy' = Busy \cup {s}
  BY <1>1 DEF Busy, Commands
<1>3. /\ alone'[s] => Busy = {}
      /\ \A q \in Slots \ {s} : alone'[q] => alone[q] /\ q \notin Busy
  BY Zenon DEF Arrive
<1>4. \A q \in Slots \ {s} : ~alone'[q]
  BY <1>3 DEF ExactInv, Exact
<1>5. ClockBounds'
  BY <1>1, LimiterInts DEF ExactInv, ClockBounds
<1>6. RecordedKept'
  BY <1>1 DEF ExactInv, RecordedKept
<1>7. EntriesCame'
  <2> SUFFICES ASSUME NEW u \in entries, u \notin arrivals
               PROVE  \E q \in Busy' : u = stamp'[q]
    BY <1>1 DEF EntriesCame
  <2>1. PICK q \in Busy : u = stamp[q]
    BY DEF ExactInv, EntriesCame
  <2>2. q \in Busy' /\ stamp'[q] = stamp[q]
    BY <1>1, <1>2, <2>1 DEF Busy
  <2> QED
    BY <2>1, <2>2
<1>8. ASSUME alone'[s] PROVE Exact(s)'
  <2>1. Busy' = {s} /\ entries \subseteq arrivals
    BY <1>2, <1>3, <1>8 DEF ExactInv, EntriesCame
  <2>2. \A u \in recorded : u > clock - Window => u \in entries
    BY LimiterInts DEF ExactInv, RecordedKept
  <2> QED
    BY <1>1, <2>1, <2>2 DEF Exact
<1> QED
  BY <1>4, <1>5, <1>6, <1>7, <1>8 DEF ExactInv

\* What a command does to the others.
LEMMA ExactCommand ==
    ASSUME ExactInv, LimiterTypeOK', NEW s \in Slots, Prune(s) \/ Count(s) \/ Add(s)
    PROVE  ExactInv'
<1>1. /\ s \in Busy /\ Busy' = Busy
      /\ UNCHANGED <<clock, stamp, alone, cut, arrivals, recorded>>
      /\ \A q \in Slots \ {s} : at'[q] = at[q] /\ count'[q] = count[q]
      /\ at'[s] \in Commands
  <2>1. at'[s] \in Commands /\ \A q \in Slots \ {s} : at'[q] = at[q]
    BY DEF Prune, Count, Add, Commands, ExactInv, LimiterTypeOK
  <2>2. s \in Busy /\ Busy' = Busy
    BY <2>1 DEF Prune, Count, Add, Busy, Commands
  <2> QED
    BY <2>1, <2>2 DEF Prune, Count, Add, ExactInv, LimiterTypeOK
<1>2. ClockBounds'
  BY <1>1 DEF ExactInv, ClockBounds
<1>3. ASSUME Exact(s)' \/ ~alone[s]
      PROVE  \A q \in Slots : alone'[q] => Exact(q)'
  BY <1>1, <1>3, OnlyOne
<1>4. CASE Prune(s)
  <2>1. /\ at[s] = "ZREMRANGEBYSCORE" /\ at'[s] = "ZCARD"
        /\ entries' = {u \in entries : u > stamp[s] - Window}
        /\ expiresAt' = Never \/ expiresAt' = expiresAt
    BY <1>4 DEF Prune, InWindow, ExactInv, LimiterTypeOK
  <2>2. RecordedKept'
    <3>1. \A u \in recorded' : u + Window <= expiresAt'
      BY <1>1, <2>1, LimiterInts DEF ExactInv, RecordedKept
    <3>2. ASSUME NEW u \in Nat, u \in entries \/ u + Window <= clock
          PROVE  u \in entries' \/ u + Window <= clock
      BY <2>1, <3>2, LimiterInts DEF ExactInv, ClockBounds
    <3>3. \A u \in recorded' : u \in entries' \/ u + Window <= clock'
      BY <1>1, <3>2, LimiterInts DEF ExactInv, RecordedKept
    <3>4. ASSUME NEW q \in Slots, at'[q] = "EXPIRE", q \notin cut'
          PROVE  stamp'[q] \in entries' \/ stamp'[q] + Window <= clock'
      <4>1. stamp[q] \in entries \/ stamp[q] + Window <= clock
        BY <1>1, <2>1, <3>4 DEF ExactInv, RecordedKept
      <4> QED
        BY <1>1, <3>2, <4>1, LimiterInts DEF ExactInv
    <3> QED
      BY <3>1, <3>3, <3>4 DEF RecordedKept
  <2>3. EntriesCame'
    BY <1>1, <2>1 DEF ExactInv, EntriesCame
  <2>4. ASSUME alone[s] PROVE Exact(s)'
    <3>1. Exact(s)
      BY <2>4 DEF ExactInv
    <3> QED
      BY <1>1, <2>1, <3>1 DEF Exact, Others
  <2> QED
    BY <1>2, <1>3, <2>2, <2>3, <2>4 DEF ExactInv
<1>5. CASE Count(s)
  <2>1. /\ at[s] = "ZCARD" /\ at'[s] = "ZADD" /\ UNCHANGED <<entries, expiresAt>>
        /\ count'[s] = Cardinality(entries)
    BY <1>5 DEF Count, ExactInv, LimiterTypeOK
  <2>2. RecordedKept' /\ EntriesCame'
    BY <1>1, <2>1 DEF ExactInv, RecordedKept, EntriesCame
  <2>3. ASSUME alone[s] PROVE Exact(s)'
    <3>1. Exact(s)
      BY <2>3 DEF ExactInv
    <3>2. Others(s) = entries
      BY <2>1, <3>1 DEF Exact, Others
    <3> QED
      BY <1>1, <2>1, <3>1, <3>2 DEF Exact, Others
  <2> QED
    BY <1>2, <1>3, <2>2, <2>3 DEF ExactInv
<1>6. CASE Add(s)
  <2>1. /\ at[s] = "ZADD" /\ at'[s] = "EXPIRE" /\ UNCHANGED <<expiresAt, count>>
        /\ entries' = entries \cup {stamp[s]}
    BY <1>6 DEF Add, ExactInv, LimiterTypeOK
  <2>2. RecordedKept'
    BY <1>1, <2>1 DEF ExactInv, RecordedKept
  <2>3. EntriesCame'
    BY <1>1, <2>1 DEF ExactInv, EntriesCame
  <2>4. ASSUME alone[s] PROVE Exact(s)'
    <3>1. Exact(s)
      BY <2>4 DEF ExactInv
    <3>2. Others(s)' = Others(s)
      BY <1>1, <2>1 DEF Others
    <3> QED
      BY <1>1, <2>1, <3>1, <3>2 DEF Exact
  <2> QED
    BY <1>2, <1>3, <2>2, <2>3, <2>4 DEF ExactInv
<1> QED
  BY <1>4, <1>5, <1>6

\* A request that is answered was the only one that can have been alone.
LEMMA ExactAnswer ==
    ASSUME ExactInv, LimiterTypeOK', NEW s \in Slots, Expire(s) \/ GiveUp(s)
    PROVE  ExactInv'
<1>1. PICK outcome \in Outcomes :
        /\ Answer(s, outcome)
        /\ Expire(s) \/ outcome = "unchecked"
  BY DEF Expire, GiveUp, Outcomes
<1>2. /\ s \in Busy /\ UNCHANGED <<clock, entries>> /\ cut' = cut \ {s}
      /\ arrivals' = arrivals \cup {stamp[s]}
      /\ recorded' = recorded \/ (s \notin cut /\ recorded' = recorded \cup {stamp[s]} /\ Expire(s))
      /\ at'[s] = outcome /\ stamp'[s] = 0 /\ ~alone'[s]
      /\ \A q \in Slots \ {s} : at'[q] = at[q] /\ stamp'[q] = stamp[q] /\ (alone'[q] => alone[q])
  <2>1. /\ s \in Busy /\ UNCHANGED <<clock, entries>>
    BY DEF Expire, GiveUp, Busy, Commands
  <2>2. ~alone'[s] /\ \A q \in Slots \ {s} : alone'[q] => alone[q]
    BY <1>1, Zenon DEF Answer, ExactInv, LimiterTypeOK
  <2> QED
    BY <1>1, <2>1, <2>2 DEF Answer, ExactInv, LimiterTypeOK
<1>3. \A q \in Busy \ {s} : q \in Busy'
  BY <1>2 DEF Busy
<1>4. \A q \in Slots : ~alone'[q]
  BY <1>2, OnlyOne
<1>5. ClockBounds'
  BY <1>2, LimiterInts DEF ExactInv, ClockBounds
<1>6. EntriesCame'
  <2> SUFFICES ASSUME NEW u \in entries, u \notin arrivals, u # stamp[s]
               PROVE  \E q \in Busy' : u = stamp'[q]
    BY <1>2 DEF EntriesCame
  <2>1. PICK q \in Busy : u = stamp[q]
    BY DEF ExactInv, EntriesCame
  <2>2. q \in Busy' /\ stamp'[q] = stamp[q]
    BY <1>2, <1>3, <2>1 DEF Busy
  <2> QED
    BY <2>1, <2>2
<1>7. RecordedKept'
  <2>1. \A u \in recorded' : u + Window <= expiresAt'
    <3>1. CASE Expire(s)
      <4>1. expiresAt' = Never \/ expiresAt' = clock + Window
        BY <3>1 DEF Expire, Renewed
      <4>2. \A u \in recorded' : u \in Nat /\ u <= MaxTime /\ u <= clock
        BY <1>2, LimiterInts DEF ExactInv, ClockBounds
      <4> QED
        BY <4>1, <4>2, LimiterInts DEF ExactInv
    <3>2. CASE GiveUp(s)
      BY <1>2, <3>2 DEF GiveUp, Expire, Answer, ExactInv, RecordedKept
    <3> QED
      BY <3>1, <3>2
  <2>2. \A u \in recorded' : u \in entries' \/ u + Window <= clock'
    <3>1. Expire(s) /\ s \notin cut => stamp[s] \in entries \/ stamp[s] + Window <= clock
      BY DEF Expire, ExactInv, RecordedKept
    <3> QED
      BY <1>2, <3>1 DEF ExactInv, RecordedKept
  <2>3. ASSUME NEW q \in Slots, at'[q] = "EXPIRE", q \notin cut'
        PROVE  stamp'[q] \in entries' \/ stamp'[q] + Window <= clock'
    <3>1. q # s
      BY <1>2, <2>3 DEF Outcomes
    <3> QED
      BY <1>2, <2>3, <3>1 DEF ExactInv, RecordedKept
  <2> QED
    BY <2>1, <2>2, <2>3 DEF RecordedKept
<1> QED
  BY <1>4, <1>5, <1>6, <1>7 DEF ExactInv

LEMMA ExactRepeat ==
    ASSUME ExactInv, LimiterTypeOK', NEW s \in Slots, Repeat(s)
    PROVE  ExactInv'
<1>1. /\ s \in Busy /\ UNCHANGED <<clock, entries, expiresAt, stamp, cut, arrivals, recorded>>
      /\ at'[s] = "ZREMRANGEBYSCORE" /\ \A q \in Slots \ {s} : at'[q] = at[q]
  BY DEF Repeat, ExactInv, LimiterTypeOK
<1>2. Busy' = Busy
  BY <1>1 DEF Busy, Commands
<1>3. ~alone'[s] /\ \A q \in Slots \ {s} : alone'[q] => alone[q]
  BY Zenon DEF Repeat, ExactInv, LimiterTypeOK
<1>4. \A q \in Slots : ~alone'[q]
  BY <1>1, <1>3, OnlyOne
<1>5. ClockBounds' /\ RecordedKept' /\ EntriesCame'
  BY <1>1, <1>2 DEF ExactInv, ClockBounds, RecordedKept, EntriesCame
<1> QED
  BY <1>4, <1>5 DEF ExactInv

LEMMA ExactTick ==
    ASSUME ExactInv, LimiterTypeOK', LimiterTick
    PROVE  ExactInv'
<1>1. /\ clock' = clock + 1 /\ UNCHANGED <<at, stamp, count, alone, arrivals, recorded>>
      /\ Busy' = Busy
  BY DEF LimiterTick, Busy
<1>2. ClockBounds'
  BY <1>1, LimiterInts DEF ExactInv, ClockBounds
<1>3. CASE UNCHANGED <<entries, expiresAt, cut>>
  <2>1. RecordedKept'
    BY <1>1, <1>3, LimiterInts DEF ExactInv, RecordedKept
  <2>2. EntriesCame'
    BY <1>1, <1>3 DEF ExactInv, EntriesCame
  <2>3. \A s \in Slots : alone'[s] => Exact(s)'
    BY <1>1, <1>3 DEF ExactInv, Exact, Others
  <2> QED
    BY <1>2, <2>1, <2>2, <2>3 DEF ExactInv
<1>4. CASE entries' = {} /\ expiresAt' = Never /\ cut' = Busy /\ expiresAt <= clock'
  <2>1. RecordedKept'
    <3>1. \A u \in recorded' : u + Window <= clock' /\ u + Window <= Never
      BY <1>1, <1>4, LimiterInts DEF ExactInv, RecordedKept
    <3>2. \A s \in Slots : at'[s] = "EXPIRE" => s \in cut'
      BY <1>1, <1>4 DEF Busy, Commands
    <3> QED
      BY <1>4, <3>1, <3>2 DEF RecordedKept
  <2>2. EntriesCame'
    BY <1>4 DEF EntriesCame
  <2>3. \A s \in Slots : alone'[s] => Exact(s)'
    BY <1>1, <1>4 DEF ExactInv, Exact
  <2> QED
    BY <1>2, <2>1, <2>2, <2>3 DEF ExactInv
<1> QED
  BY <1>3, <1>4 DEF LimiterTick

LEMMA ExactKept == LimiterInv /\ ExactInv /\ [LimiterNext]_limiterVars => ExactInv'
<1> SUFFICES ASSUME LimiterInv, ExactInv, [LimiterNext]_limiterVars PROVE ExactInv'
  OBVIOUS
<1>1. LimiterTypeOK'
  <2>1. CASE UNCHANGED limiterVars
    BY <2>1 DEF limiterVars, LimiterInv, LimiterTypeOK
  <2> QED
    BY <2>1, LimiterArrive, LimiterCommand, LimiterExpire, LimiterRepeat, LimiterGiveUp,
       LimiterClock DEF LimiterNext, LimiterInv
<1>2. CASE UNCHANGED limiterVars
  <2>1. ClockBounds' /\ RecordedKept' /\ EntriesCame'
    BY <1>2 DEF limiterVars, ExactInv, ClockBounds, RecordedKept, EntriesCame, Busy
  <2>2. \A s \in Slots : alone'[s] => Exact(s)'
    BY <1>2 DEF limiterVars, ExactInv, Exact, Others, Busy
  <2> QED
    BY <1>1, <2>1, <2>2 DEF ExactInv
<1> QED
  BY <1>1, <1>2, ExactArrive, ExactCommand, ExactAnswer, ExactRepeat, ExactTick DEF LimiterNext

\* Only the end of a pipeline admits or refuses.
LEMMA ByExpire ==
    ASSUME LimiterTypeOK, NEW s \in Slots, s \in Busy, [LimiterNext]_limiterVars,
           at'[s] \in {"admitted", "refused"}
    PROVE  Expire(s)
<1>1. at[s] \in Commands
  BY DEF Busy
<1>2. at'[s] # at[s]
  BY <1>1 DEF Commands
<1>3. ASSUME NEW q \in Slots, Arrive(q) \/ Prune(q) \/ Count(q) \/ Add(q) \/ Repeat(q)
      PROVE  FALSE
  BY <1>2, <1>3 DEF Arrive, Prune, Count, Add, Repeat, LimiterTypeOK
<1>4. ASSUME NEW q \in Slots, GiveUp(q)
      PROVE  FALSE
  BY <1>2, <1>4 DEF GiveUp, Answer, LimiterTypeOK
<1>5. ASSUME NEW q \in Slots, Expire(q)
      PROVE  q = s
  BY <1>2, <1>5 DEF Expire, Answer, LimiterTypeOK
<1>6. ~LimiterTick /\ ~UNCHANGED limiterVars
  BY <1>2 DEF LimiterTick, limiterVars
<1> QED
  BY <1>3, <1>4, <1>5, <1>6 DEF LimiterNext

LEMMA ExactStep ==
    ASSUME ExactInv, [LimiterNext]_limiterVars,
           NEW s \in Slots, alone[s], s \notin cut, s \notin Busy'
    PROVE  /\ at'[s] = "admitted" =>
                 Cardinality({u \in recorded : u > stamp[s] - Window}) < Rate
           /\ at'[s] = "refused" =>
                 Cardinality({u \in arrivals : u > stamp[s] - Window}) >= Rate
<1> DEFINE R == {u \in recorded : u > stamp[s] - Window}
<1> DEFINE A == {u \in arrivals : u > stamp[s] - Window}
<1> SUFFICES ASSUME at'[s] \in {"admitted", "refused"}
             PROVE  /\ at'[s] = "admitted" => Cardinality(R) < Rate
                    /\ at'[s] = "refused" => Cardinality(A) >= Rate
  OBVIOUS
<1>1. LimiterTypeOK /\ Exact(s) /\ s \in Busy
  BY DEF ExactInv, Exact
<1>2. Expire(s)
  BY <1>1, ByExpire
<1>3. /\ at[s] = "EXPIRE" /\ count[s] = Cardinality(Others(s))
      /\ at'[s] = IF count[s] < Rate THEN "admitted" ELSE "refused"
  BY <1>1, <1>2 DEF Expire, Answer, Allowed, LimiterTypeOK, Exact
<1>4. R \subseteq Others(s)
  BY <1>1, LimiterInts DEF Exact, Others
<1>5. Others(s) \subseteq A
  <2>1. \A u \in entries : u \in arrivals \/ u = stamp[s]
    BY <1>1 DEF ExactInv, EntriesCame, Exact
  <2> QED
    BY <1>1, <1>3, <2>1 DEF Exact, Others
<1>6. IsFiniteSet(A) /\ IsFiniteSet(Others(s))
  <2>1. IsFiniteSet(0..MaxTime)
    BY LimiterNumbers, FS_Interval
  <2>2. A \subseteq 0..MaxTime /\ Others(s) \subseteq 0..MaxTime
    BY <1>1 DEF LimiterTypeOK, Others
  <2> QED
    BY <2>1, <2>2, FS_Subset
<1>7. Cardinality(R) <= Cardinality(Others(s)) /\ Cardinality(Others(s)) <= Cardinality(A)
  BY <1>4, <1>5, <1>6, FS_Subset
<1>8. /\ Cardinality(R) \in Nat /\ Cardinality(A) \in Nat /\ Cardinality(Others(s)) \in Nat
      /\ Rate \in Nat
  BY <1>4, <1>6, FS_Subset, FS_CardinalityType, LimiterConstants
<1> HIDE DEF R, A
<1> QED
  BY <1>3, <1>7, <1>8

\* A request nothing ran beside is admitted only when fewer than Rate requests
\* were recorded in its window, and refused only when Rate arrived in it.
THEOREM ExactWhenAloneHolds == LimiterSpec => ExactWhenAlone
<1>1. LimiterInit => LimiterInv /\ ExactInv
  BY LimiterStarts, ExactStarts
<1>2. LimiterInv /\ ExactInv /\ [LimiterNext]_limiterVars => LimiterInv' /\ ExactInv'
  <2>1. LimiterInv /\ [LimiterNext]_limiterVars => LimiterInv'
    <3>1. CASE UNCHANGED limiterVars
      BY <3>1 DEF limiterVars, LimiterInv, LimiterTypeOK, Busy
    <3> QED
      BY <3>1, LimiterArrive, LimiterCommand, LimiterExpire, LimiterRepeat, LimiterGiveUp,
         LimiterClock DEF LimiterNext
  <2> QED
    BY <2>1, ExactKept
<1>3. ExactInv /\ [LimiterNext]_limiterVars =>
        [\A s \in Slots : alone[s] /\ s \notin cut /\ s \notin Busy' =>
            LET Since(times) == {u \in times : u > stamp[s] - Window} IN
            /\ at'[s] = "admitted" => Cardinality(Since(recorded)) < Rate
            /\ at'[s] = "refused" => Cardinality(Since(arrivals)) >= Rate]_limiterVars
  BY ExactStep
<1> QED
  BY <1>1, <1>2, <1>3, PTL DEF LimiterSpec, ExactWhenAlone
-----------------------------------------------------------------------------
\* HttpBreakerInv but for the service.
Fields ==
    /\ state \in {"closed", "open", "half-open"}
    /\ failures \in 0..FailureCap
    /\ sinceFailure \in 0..Late
    /\ call \in [Callers -> {"idle", "saw open", "calling"}]
    /\ age \in [Callers -> 0..Late]
    /\ outrun \subseteq Callers /\ reset \subseteq Callers

OpenAtThreshold == state = "open" <=> Trips(failures)

\* The clock and the counter stay in their ranges.
LEMMA Ranges ==
    /\ 0 \in 0..Late /\ Late \in 0..Late /\ \A t \in 0..Late : Older(t) \in 0..Late
    /\ 0 \in 0..FailureCap /\ (failures \in 0..FailureCap => OneMore \in 0..FailureCap)
BY HttpBreakerConstants DEF Late, Older, OneMore

LEMMA Thresholds ==
    /\ ~Trips(0)
    /\ failures \in 0..FailureCap => (Trips(OneMore) <=> Trips(failures + 1))
    /\ failures \in 0..FailureCap /\ Trips(failures) => Trips(OneMore)
BY HttpBreakerConstants DEF Trips, OneMore

LEMMA InvParts == HttpBreakerInv <=> Fields /\ OpenAtThreshold /\ up \in BOOLEAN
BY DEF HttpBreakerInv, BreakerTypeOK, Fields, OpenAtThreshold

\* The invariant holds before the first call.
LEMMA HttpInit == BreakerInit => HttpBreakerInv
<1> SUFFICES ASSUME BreakerInit PROVE HttpBreakerInv
  OBVIOUS
<1>1. Fields /\ OpenAtThreshold
  BY Ranges, Thresholds DEF BreakerInit, Fields, OpenAtThreshold
<1>2. up \in BOOLEAN
  BY DEF BreakerInit
<1> QED
  BY <1>1, <1>2, InvParts

\* One step per action.
LEMMA HttpStep == HttpBreakerInv /\ [BreakerNext]_breakerVars => HttpBreakerInv'
<1> SUFFICES ASSUME Fields, OpenAtThreshold, up \in BOOLEAN, [BreakerNext]_breakerVars
             PROVE  Fields' /\ OpenAtThreshold' /\ up' \in BOOLEAN
  BY InvParts DEF HttpBreakerInv, BreakerTypeOK, Fields, OpenAtThreshold
<1>1. ASSUME NEW c \in Callers, ReadState(c)
      PROVE  Fields' /\ OpenAtThreshold'
  BY <1>1, Ranges DEF ReadState, Fields, OpenAtThreshold
<1>2. ASSUME NEW c \in Callers, Refuse(c)
      PROVE  Fields' /\ OpenAtThreshold'
  BY <1>2, Ranges DEF Refuse, Leave, Fields, OpenAtThreshold
<1>3. ASSUME NEW c \in Callers, TryAgain(c)
      PROVE  Fields' /\ OpenAtThreshold'
  BY <1>3, Ranges, Thresholds
     DEF TryAgain, Cleared, NoticeReset, UnderWay, Fields, OpenAtThreshold
<1>4. ASSUME NEW c \in Callers, Fail(c)
      PROVE  Fields' /\ OpenAtThreshold'
  BY <1>4, Ranges, Thresholds DEF Fail, Leave, UnderWay, Fields, OpenAtThreshold
<1>5. ASSUME NEW c \in Callers, Succeed(c)
      PROVE  Fields' /\ OpenAtThreshold'
  BY <1>5, Ranges, Thresholds
     DEF Succeed, Leave, Cleared, NoticeReset, UnderWay, Fields, OpenAtThreshold
<1>6. CASE BreakerTick
  BY <1>6, Ranges DEF BreakerTick, Fields, OpenAtThreshold
<1>7. CASE ServiceChanges \/ UNCHANGED breakerVars
  BY <1>7 DEF ServiceChanges, breakerVars, Fields, OpenAtThreshold
<1>8. up' \in BOOLEAN
  BY Zenon DEF BreakerNext, Act, ReadState, Refuse, TryAgain, Fail, Succeed, BreakerTick,
               ServiceChanges, breakerVars
<1> QED
  BY <1>1, <1>2, <1>3, <1>4, <1>5, <1>6, <1>7, <1>8 DEF BreakerNext, Act

\* The breaker is open exactly while its counter is at the threshold, however
\* the reports and resets of the callers interleave.
THEOREM HttpBreakerInvariant == BreakerSpec => []HttpBreakerInv
BY HttpInit, HttpStep, PTL DEF BreakerSpec
-----------------------------------------------------------------------------
\* What the view of caller c is still good for.
ViewsOK ==
    \A c \in Callers :
        /\ c \notin outrun /\ call[c] = "saw open" => age[c] = sinceFailure
        /\ c \notin outrun /\ call[c] = "calling" => state # "open"
        /\ c \notin reset /\ call[c] = "saw open" => state = "open"

LEMMA ViewsInit == BreakerInit => ViewsOK
BY DEF BreakerInit, ViewsOK

LEMMA ViewsStep ==
    ASSUME Fields, ViewsOK, [BreakerNext]_breakerVars
    PROVE  ViewsOK'
<1> USE DEF Fields, ViewsOK
<1>1. ASSUME NEW c \in Callers, ReadState(c) \/ Refuse(c)
      PROVE  ViewsOK'
  BY <1>1 DEF ReadState, Refuse, Leave
<1>2. ASSUME NEW c \in Callers, TryAgain(c)
      PROVE  ViewsOK'
  BY <1>2 DEF TryAgain, NoticeReset, UnderWay
<1>3. ASSUME NEW c \in Callers, Fail(c)
      PROVE  ViewsOK'
  BY <1>3 DEF Fail, Leave, UnderWay
<1>4. ASSUME NEW c \in Callers, Succeed(c)
      PROVE  ViewsOK'
  BY <1>4 DEF Succeed, Leave, NoticeReset, UnderWay
<1>5. CASE BreakerTick
  BY <1>5 DEF BreakerTick
<1>6. CASE ServiceChanges \/ UNCHANGED breakerVars
  BY <1>6 DEF ServiceChanges, breakerVars
<1> QED
  BY <1>1, <1>2, <1>3, <1>4, <1>5, <1>6 DEF BreakerNext, Act

\* A step that departs from the textbook is one of a caller with an old view.
LEMMA TextbookStep ==
    ASSUME Fields, ViewsOK, [BreakerNext]_breakerVars
    PROVE  /\ state = "open" /\ state' # "open" /\ sinceFailure <= ResetTime =>
                 \E c \in Callers : call'[c] # call[c] /\ c \in outrun
           /\ state # "open" /\ failures' < failures =>
                 \E c \in Callers : call'[c] # call[c] /\ (call[c] = "calling" \/ c \in reset)
<1>0. sinceFailure \in Nat /\ failures \in 0..FailureCap /\ ResetTime \in Nat /\ FailureCap \in Nat
  <2>1. 0..Late \subseteq Nat /\ ResetTime \in Nat /\ FailureCap \in Nat
    BY HttpBreakerConstants DEF Late
  <2> QED
    BY <2>1 DEF Fields
<1>1. ASSUME NEW c \in Callers, TryAgain(c)
      PROVE  /\ sinceFailure <= ResetTime => c \in outrun
             /\ state # "open" => c \in reset
             /\ call'[c] # call[c]
  <2>1. call[c] = "saw open" /\ call'[c] = "calling"
    BY <1>1 DEF TryAgain, Fields
  <2>2. sinceFailure <= ResetTime => age[c] # sinceFailure
    <3>1. age[c] > ResetTime
      BY <1>1 DEF TryAgain, Cool
    <3> QED
      BY <1>0, <3>1
  <2> QED
    BY <2>1, <2>2 DEF ViewsOK
<1>2. ASSUME NEW c \in Callers, Succeed(c)
      PROVE  /\ state = "open" => c \in outrun
             /\ call[c] = "calling" /\ call'[c] # call[c]
  BY <1>2 DEF Succeed, Leave, Fields, ViewsOK
<1>3. ASSUME NEW c \in Callers, ReadState(c) \/ Refuse(c) \/ Fail(c)
      PROVE  (state = "open" => state' = "open") /\ ~(failures' < failures)
  <2>1. failures' = failures \/ failures' = OneMore
    BY <1>3 DEF ReadState, Refuse, Fail
  <2>2. ~(failures' < failures)
    BY <1>0, <2>1 DEF OneMore
  <2> QED
    BY <1>3, <2>2 DEF ReadState, Refuse, Fail
<1>4. CASE BreakerTick \/ ServiceChanges \/ UNCHANGED breakerVars
  <2>1. UNCHANGED <<state, failures>>
    BY <1>4 DEF BreakerTick, ServiceChanges, breakerVars
  <2> QED
    BY <1>0, <2>1
<1> QED
  BY <1>1, <1>2, <1>3, <1>4 DEF BreakerNext, Act

\* A cool-down is cut short, or a count dropped, only by a caller whose view
\* of the breaker was overtaken by somebody else's report.
THEOREM TextbookUnlessOutrunHolds == BreakerSpec => TextbookUnlessOutrun
<1>1. HttpBreakerInv => Fields
  BY InvParts
<1>2. Fields /\ ViewsOK /\ [BreakerNext]_breakerVars => ViewsOK'
  BY ViewsStep
<1>3. Fields /\ ViewsOK /\ [BreakerNext]_breakerVars =>
          [/\ state = "open" /\ state' # "open" /\ sinceFailure <= ResetTime =>
                 \E c \in Callers : call'[c] # call[c] /\ c \in outrun
           /\ state # "open" /\ failures' < failures =>
                 \E c \in Callers : call'[c] # call[c] /\ (call[c] = "calling" \/ c \in reset)
          ]_breakerVars
  BY TextbookStep
<1> QED
  BY HttpBreakerInvariant, ViewsInit, <1>1, <1>2, <1>3, PTL DEF BreakerSpec, TextbookUnlessOutrun
-----------------------------------------------------------------------------
(***************************************************************************)
(* DecisionIsExplained for any roles, departments and administrators.      *)
(*                                                                         *)
(* A running evaluation has read some of the facts its decision rests on.  *)
(* Without a write since it began they hold of the tables still; with one, *)
(* each of them holds of the tables before or after that write, and the    *)
(* write touched one table only.  Past says so without a history of whole  *)
(* tables: it asks for old tables that explain what has been read.         *)
(***************************************************************************)
\* The facts the next read relies on, of tables a, g, d, t.
Permitted(a, g) == \E r \in g : a[r] = "live"
Admin(a) == a["admin"] = "live"

\* The old tables differ from the new ones by one write.
OneWrite(a, g, d, t) ==
    \/ \E r \in Roles : /\ a[r] = "none" /\ assigned = [a EXCEPT ![r] = "live"]
                        /\ g = granted /\ d = department /\ t = task
    \/ \E r \in Roles : /\ a[r] = "live" /\ assigned = [a EXCEPT ![r] = "revoked"]
                        /\ g = granted /\ d = department /\ t = task
    \/ \E r \in Roles : granted = g \cup {r} /\ a = assigned /\ d = department /\ t = task
    \/ d = {} /\ a = assigned /\ g = granted /\ t = task
    \/ t = "there" /\ task = "gone" /\ a = assigned /\ g = granted /\ d = department

\* What has been read was read of tables a, g, d, t or of the present ones.
ReadOf(a, g, d, t) ==
    /\ phase # "permission" => Permitted(a, g) \/ HasPermission
    /\ phase \in {"admin", "task", "owner"} => attribute \in {d, department}
    /\ phase \in {"task", "owner"} => ~Admin(a) \/ ~HasRole("admin")
    /\ phase = "owner" => t = "there" \/ task = "there"

\* What the path to the present phase says of the request.
PathOf ==
    /\ phase \in {"task", "owner"} =>
          request.resource = "task" /\ request.action # "create" /\ request.target # "none"
    /\ phase = "owner" => request.target # "own" /\ attribute # {}

Present == ReadOf(assigned, granted, department, task)

Past ==
    \E a \in [Roles -> {"none", "live", "revoked"}], g \in SUBSET Roles,
       d \in SUBSET Departments, t \in {"there", "gone"} :
        /\ OneWrite(a, g, d, t) /\ ReadOf(a, g, d, t)
        /\ VerdictOf(a, g, d, t) \in seen

Explained ==
    /\ AuthorizationTypeOK
    /\ Running =>
         /\ Verdict \in seen /\ PathOf
         /\ changes = 0 => Present
         /\ changes = 1 => Past
    /\ DecisionIsExplained

LEMMA ExplainedInit == AuthorizationInit => Explained
BY AuthorizationConstants
   DEF AuthorizationInit, Explained, AuthorizationTypeOK, DecisionIsExplained, Running, Reads, Decisions

\* The decision yes, and what its read has just seen.
DecidedBy(yes) ==
    \/ phase = "permission" /\ ~HasPermission /\ yes = FALSE
    \/ /\ phase = "admin" /\ HasRole("admin") /\ yes = TRUE
    \/ /\ phase = "admin" /\ ~HasRole("admin")
       /\ \/ request.resource = "profile" /\ yes = UserPolicy
          \/ request.resource = "other" /\ yes = TRUE
          \/ /\ request.resource = "task" /\ yes = TRUE
             /\ request.action = "create" \/ request.target = "none"
    \/ /\ phase = "task"
       /\ \/ task = "gone" /\ yes = FALSE
          \/ task # "gone" /\ request.target = "own" /\ yes = TRUE
          \/ task # "gone" /\ request.target # "own" /\ attribute = {} /\ yes = FALSE
    \/ phase = "owner" /\ yes = ColleagueMay

Word(yes) == IF yes THEN "allowed" ELSE "denied"

\* Without a write since the call, the decision is the policy's.
LEMMA PresentDecides ==
    ASSUME AuthorizationTypeOK, PathOf, Present, NEW yes \in BOOLEAN, DecidedBy(yes)
    PROVE  Verdict = Word(yes)
BY AuthorizationConstants
   DEF AuthorizationTypeOK, PathOf, Present, ReadOf, Permitted, Admin, HasPermission, HasRole, UserPolicy,
       ColleagueMay, DecidedBy, Word, Verdict, VerdictOf

\* With one, it is the policy's of the tables before or after it.
LEMMA PastDecides ==
    ASSUME AuthorizationTypeOK, PathOf, NEW yes \in BOOLEAN, DecidedBy(yes),
           NEW a \in [Roles -> {"none", "live", "revoked"}], NEW g \in SUBSET Roles,
           NEW d \in SUBSET Departments, NEW t \in {"there", "gone"},
           OneWrite(a, g, d, t), ReadOf(a, g, d, t)
    PROVE  Word(yes) \in {Verdict, VerdictOf(a, g, d, t)}
<1> USE DEF Word, Verdict, VerdictOf, HasPermission, HasRole, Permitted, Admin, PathOf, AuthorizationTypeOK
<1>1. CASE phase = "permission"
  BY <1>1 DEF DecidedBy
<1>2. CASE phase = "admin" /\ HasRole("admin")
  BY <1>2, AuthorizationConstants DEF DecidedBy, OneWrite, ReadOf
<1>3. CASE phase = "admin" /\ ~HasRole("admin")
  BY <1>3, AuthorizationConstants DEF DecidedBy, OneWrite, ReadOf, UserPolicy
<1>4. CASE phase = "task"
  BY <1>4, AuthorizationConstants DEF DecidedBy, OneWrite, ReadOf
<1>5. CASE phase = "owner"
  BY <1>5, AuthorizationConstants DEF DecidedBy, OneWrite, ReadOf, ColleagueMay
<1> QED
  BY <1>1, <1>2, <1>3, <1>4, <1>5 DEF DecidedBy
-----------------------------------------------------------------------------
\* One read of IsAuthorized.
Reading == \/ ReadPermission \/ ReadAttributes \/ ReadAdmin
           \/ ReadTask \/ ReadOwner \/ ReadFails

\* What a read decides follows from what it sees.
LEMMA ReadDecides ==
    ASSUME AuthorizationTypeOK, Reading, phase' \in {"allowed", "denied"}
    PROVE  \E yes \in BOOLEAN : DecidedBy(yes) /\ phase' = Word(yes)
<1> USE DEF DecidedBy, Word, AuthorizationTypeOK
<1>1. CASE ReadPermission
  <2>1. DecidedBy(FALSE) /\ phase' = Word(FALSE)
    BY <1>1 DEF ReadPermission
  <2> QED
    BY <2>1
<1>2. CASE ReadAdmin
  <2>1. ASSUME NEW yes \in BOOLEAN, DecidedBy(yes), Decide(yes)
        PROVE  \E y \in BOOLEAN : DecidedBy(y) /\ phase' = Word(y)
    BY <2>1 DEF Decide
  <2>2. UserPolicy \in BOOLEAN
    BY DEF UserPolicy
  <2>3. request.resource \in {"task", "profile", "other"}
    BY AuthorizationConstants
  <2>4. CASE HasRole("admin")
    BY <1>2, <2>1, <2>4 DEF ReadAdmin
  <2>5. CASE ~HasRole("admin") /\ request.resource = "profile"
    BY <1>2, <2>1, <2>2, <2>5 DEF ReadAdmin
  <2>6. CASE ~HasRole("admin") /\ request.resource = "other"
    BY <1>2, <2>1, <2>6 DEF ReadAdmin
  <2>7. CASE ~HasRole("admin") /\ request.resource = "task"
    <3>1. DecidedBy(TRUE) /\ phase' = Word(TRUE)
      BY <1>2, <2>7 DEF ReadAdmin
    <3> QED
      BY <3>1
  <2> QED
    BY <2>3, <2>4, <2>5, <2>6, <2>7
<1>3. CASE ReadTask
  <2>1. \/ DecidedBy(TRUE) /\ phase' = Word(TRUE)
        \/ DecidedBy(FALSE) /\ phase' = Word(FALSE)
    BY <1>3 DEF ReadTask
  <2> QED
    BY <2>1
<1>4. CASE ReadOwner
  <2>1. DecidedBy(ColleagueMay) /\ phase' = Word(ColleagueMay) /\ ColleagueMay \in BOOLEAN
    BY <1>4 DEF ReadOwner, Decide, ColleagueMay
  <2> QED
    BY <2>1
<1>5. CASE ReadAttributes \/ ReadFails
  BY <1>5 DEF ReadAttributes, ReadFails
<1> QED
  BY <1>1, <1>2, <1>3, <1>4, <1>5 DEF Reading

\* A read that goes on keeps what is known of the request, and adds to it.
LEMMA PathGoesOn ==
    ASSUME AuthorizationTypeOK, PathOf, Reading, Running', Unwritten
    PROVE  PathOf'
<1> USE DEF AuthorizationTypeOK, PathOf, Unwritten
<1>1. CASE ReadPermission \/ ReadAttributes
  BY <1>1 DEF ReadPermission, ReadAttributes
<1>2. CASE ReadAdmin
  BY <1>2, AuthorizationConstants DEF ReadAdmin, Decide, Running, Reads
<1>3. CASE ReadTask
  BY <1>3 DEF ReadTask, Running, Reads
<1>4. CASE ReadOwner \/ ReadFails
  BY <1>4 DEF ReadOwner, ReadFails, Decide, Running, Reads
<1> QED
  BY <1>1, <1>2, <1>3, <1>4 DEF Reading

\* What has been read stays true of the tables it was read of.
LEMMA ReadGoesOn ==
    ASSUME AuthorizationTypeOK, Reading, Running', Unwritten,
           NEW a, NEW g, NEW d, NEW t, ReadOf(a, g, d, t)
    PROVE  ReadOf(a, g, d, t)'
<1> USE DEF AuthorizationTypeOK, ReadOf, Unwritten, HasPermission, HasRole
<1>1. CASE ReadPermission
  BY <1>1 DEF ReadPermission, Running, Reads
<1>2. CASE ReadAttributes
  BY <1>2 DEF ReadAttributes
<1>3. CASE ReadAdmin
  BY <1>3, AuthorizationConstants DEF ReadAdmin, Decide, Running, Reads
<1>4. CASE ReadTask
  BY <1>4 DEF ReadTask, Running, Reads
<1>5. CASE ReadOwner \/ ReadFails
  BY <1>5 DEF ReadOwner, ReadFails, Decide, Running, Reads
<1> QED
  BY <1>1, <1>2, <1>3, <1>4, <1>5 DEF Reading

\* The history of the evaluation is left alone by its own reads.
LEMMA ReadLeaves ==
    ASSUME Reading
    PROVE  Unwritten /\ UNCHANGED <<seen, changes>> /\ Running
BY DEF Reading, ReadPermission, ReadAttributes, ReadAdmin, ReadTask, ReadOwner, ReadFails, Running, Reads

LEMMA ReadTypes ==
    ASSUME AuthorizationTypeOK, Reading
    PROVE  AuthorizationTypeOK'
<1>1. phase' \in Reads \cup Decisions
  <2>1. request.resource \in {"task", "profile", "other"}
    BY AuthorizationConstants DEF AuthorizationTypeOK
  <2>2. CASE ReadAdmin
    BY <2>1, <2>2 DEF ReadAdmin, Decide, Reads, Decisions
  <2>3. CASE ~ReadAdmin
    BY <2>3 DEF Reading, ReadPermission, ReadAttributes, ReadTask, ReadOwner, ReadFails,
                Decide, Reads, Decisions
  <2> QED
    BY <2>2, <2>3
<1>2. attribute' \subseteq Departments
  BY DEF AuthorizationTypeOK, Reading, ReadPermission, ReadAttributes, ReadAdmin, ReadTask, ReadOwner, ReadFails
<1> QED
  BY <1>1, <1>2, ReadLeaves DEF AuthorizationTypeOK, Unwritten

\* OneWrite and the two verdicts speak of tables a read does not touch.
LEMMA ReadKeeps ==
    ASSUME Unwritten, NEW a, NEW g, NEW d, NEW t
    PROVE  /\ OneWrite(a, g, d, t) => OneWrite(a, g, d, t)'
           /\ VerdictOf(a, g, d, t)' = VerdictOf(a, g, d, t)
           /\ Verdict' = Verdict
BY DEF Unwritten, OneWrite, VerdictOf, Verdict

\* A read keeps the invariant.
LEMMA ReadExplained ==
    ASSUME Explained, Reading
    PROVE  Explained'
<1>1. AuthorizationTypeOK /\ PathOf /\ Running /\ Unwritten /\ UNCHANGED <<seen, changes>> /\ Verdict \in seen
  BY ReadLeaves DEF Explained
<1>2. AuthorizationTypeOK'
  BY <1>1, ReadTypes
<1>3. CASE changes = 0
  <2>1. Present /\ changes' = 0
    BY <1>1, <1>3 DEF Explained
  <2>2. ASSUME Running' PROVE PathOf' /\ Present'
    <3>1. PICK a, g, d, t : a = assigned /\ g = granted /\ d = department /\ t = task
      OBVIOUS
    <3>2. ReadOf(a, g, d, t)
      BY <2>1, <3>1 DEF Present
    <3>3. PathOf' /\ ReadOf(a, g, d, t)'
      BY <1>1, <2>2, <3>2, PathGoesOn, ReadGoesOn
    <3> QED
      BY <1>1, <3>1, <3>3 DEF Present, Unwritten, ReadOf
  <2>3. ASSUME phase' \in {"allowed", "denied"} PROVE phase' \in seen'
    <3>1. PICK yes \in BOOLEAN : DecidedBy(yes) /\ phase' = Word(yes)
      BY <1>1, <2>3, ReadDecides
    <3> QED
      BY <1>1, <2>1, <3>1, PresentDecides
  <2>4. Verdict' \in seen'
    BY <1>1, ReadKeeps
  <2> QED
    BY <1>2, <2>1, <2>2, <2>3, <2>4 DEF Explained, DecisionIsExplained
<1>4. CASE changes = 1
  <2>1. PICK a \in [Roles -> {"none", "live", "revoked"}], g \in SUBSET Roles,
             d \in SUBSET Departments, t \in {"there", "gone"} :
                 OneWrite(a, g, d, t) /\ ReadOf(a, g, d, t) /\ VerdictOf(a, g, d, t) \in seen
    BY <1>1, <1>4 DEF Explained, Past
  <2>2. ASSUME Running' PROVE PathOf' /\ Past'
    <3>1. PathOf' /\ ReadOf(a, g, d, t)'
      BY <1>1, <2>1, <2>2, PathGoesOn, ReadGoesOn
    <3>2. OneWrite(a, g, d, t)' /\ VerdictOf(a, g, d, t)' \in seen'
      BY <1>1, <2>1, ReadKeeps
    <3> QED
      BY <3>1, <3>2 DEF Past
  <2>3. ASSUME phase' \in {"allowed", "denied"} PROVE phase' \in seen'
    <3>1. PICK yes \in BOOLEAN : DecidedBy(yes) /\ phase' = Word(yes)
      BY <1>1, <2>3, ReadDecides
    <3>2. Word(yes) \in {Verdict, VerdictOf(a, g, d, t)}
      BY <1>1, <2>1, <3>1, PastDecides
    <3> QED
      BY <1>1, <2>1, <3>1, <3>2
  <2>4. Verdict' \in seen'
    BY <1>1, ReadKeeps
  <2> QED
    BY <1>1, <1>2, <1>4, <2>2, <2>3, <2>4 DEF Explained, DecisionIsExplained
<1>5. CASE changes = 2
  <2>1. Running' => PathOf'
    BY <1>1, PathGoesOn
  <2>2. Verdict' \in seen'
    BY <1>1, ReadKeeps
  <2> QED
    BY <1>1, <1>2, <1>5, <2>1, <2>2 DEF Explained, DecisionIsExplained
<1>6. changes \in 0..2
  BY <1>1 DEF AuthorizationTypeOK
<1> QED
  BY <1>3, <1>4, <1>5, <1>6
-----------------------------------------------------------------------------
\* A write while an evaluation runs makes of the present the past.
LEMMA WriteExplained ==
    ASSUME Explained, AuthorizationTypeOK', Written,
           NEW a, NEW g, NEW d, NEW t,
           a = assigned, g = granted, d = department, t = task,
           OneWrite(a, g, d, t)'
    PROVE  Explained'
<1>1. AuthorizationTypeOK /\ UNCHANGED <<request, phase, attribute>> /\ (Running' <=> Running)
  BY DEF Explained, Written, Running
<1>2. CASE ~Running
  BY <1>1, <1>2 DEF Explained, Written, DecisionIsExplained
<1>3. CASE Running
  <2>1. Verdict' \in seen' /\ seen \subseteq seen' /\ PathOf'
    BY <1>1, <1>3 DEF Explained, Written, PathOf
  <2>2. changes' # 0 /\ (changes' = 1 => changes = 0)
    BY <1>1, <1>3 DEF Written, AuthorizationTypeOK
  <2>3. ASSUME changes = 0 PROVE Past'
    <3>1. ReadOf(a, g, d, t)'
      BY <1>1, <1>3, <2>3 DEF Explained, Present, ReadOf, Permitted, Admin, HasPermission, HasRole
    <3>2. VerdictOf(a, g, d, t)' \in seen'
      BY <1>1, <1>3, <2>1 DEF Explained, Verdict, VerdictOf
    <3>3. /\ a \in [Roles -> {"none", "live", "revoked"}] /\ g \in SUBSET Roles
          /\ d \in SUBSET Departments /\ t \in {"there", "gone"}
      BY <1>1 DEF AuthorizationTypeOK
    <3> QED
      BY <3>1, <3>2, <3>3 DEF Past
  <2>4. DecisionIsExplained'
    BY <1>1, <1>3 DEF DecisionIsExplained, Running, Reads
  <2> QED
    BY <2>1, <2>2, <2>3, <2>4 DEF Explained
<1> QED
  BY <1>2, <1>3

LEMMA WrittenTypes ==
    ASSUME AuthorizationTypeOK, Written
    PROVE  /\ UNCHANGED <<request, phase, attribute>>
           /\ seen' \subseteq {"allowed", "denied"} /\ changes' \in 0..2
<1>1. Verdict' \in {"allowed", "denied"}
  BY DEF Verdict, VerdictOf
<1> QED
  BY <1>1 DEF AuthorizationTypeOK, Written

\* What the invariant says depends on the administrators in no way.
LEMMA TablesOnly ==
    ASSUME Explained, AuthorizationTypeOK', UNCHANGED <<tables, request, phase, attribute, seen, changes>>
    PROVE  Explained'
<1>1. /\ Verdict' = Verdict /\ (PathOf' <=> PathOf) /\ (Present' <=> Present)
      /\ (Running' <=> Running) /\ (DecisionIsExplained' <=> DecisionIsExplained)
  BY DEF tables, Verdict, VerdictOf, PathOf, Present, ReadOf, HasPermission, HasRole, Running,
         DecisionIsExplained
<1>2. Past' <=> Past
  BY DEF tables, Past, OneWrite, ReadOf, VerdictOf, HasPermission, HasRole
<1> QED
  BY <1>1, <1>2 DEF Explained

\* One step per action.
LEMMA ExplainedStep == Explained /\ [AuthorizationNext]_authorizationVars => Explained'
<1> SUFFICES ASSUME Explained, [AuthorizationNext]_authorizationVars PROVE Explained'
  OBVIOUS
<1>0. AuthorizationTypeOK
  BY DEF Explained
<1>a. PICK a, g, d, t : a = assigned /\ g = granted /\ d = department /\ t = task
  OBVIOUS
<1>1. CASE Ask
  <2>1. AuthorizationTypeOK'
    <3>1. Verdict \in {"allowed", "denied"}
      BY DEF Verdict, VerdictOf
    <3> QED
      BY <1>0, <1>1, <3>1 DEF Ask, AuthorizationTypeOK, Unwritten, Reads
  <2>2. Verdict' = Verdict
    BY <1>1, ReadKeeps DEF Ask
  <2> QED
    BY <1>1, <2>1, <2>2 DEF Ask, Explained, PathOf, Present, ReadOf, DecisionIsExplained
<1>2. CASE Reading
  BY <1>2, ReadExplained
<1>3. ASSUME NEW b \in Administrators, InsertRole(b) PROVE Explained'
  <2>0. assigning' \in [Administrators -> SUBSET Roles]
    BY <1>0, <1>3 DEF AuthorizationTypeOK, InsertRole
  <2>1. ASSUME NEW r \in assigning[b], assigned[r] = "none",
               assigned' = [assigned EXCEPT ![r] = "live"],
               UNCHANGED <<granted, department, task>>, Written
        PROVE  Explained'
    <3>0. r \in Roles
      BY <1>0, <2>1 DEF AuthorizationTypeOK
    <3>1. AuthorizationTypeOK'
      BY <1>0, <2>0, <2>1, WrittenTypes DEF AuthorizationTypeOK
    <3>2. OneWrite(a, g, d, t)'
      BY <1>0, <1>a, <2>1, <3>0 DEF OneWrite, AuthorizationTypeOK
    <3> QED
      BY <1>a, <2>1, <3>1, <3>2, WriteExplained
  <2>2. CASE UNCHANGED <<tables, request, phase, attribute, seen, changes>>
    BY <1>0, <2>0, <2>2, TablesOnly DEF AuthorizationTypeOK, tables
  <2> QED
    BY <1>3, <2>1, <2>2 DEF InsertRole
<1>4. ASSUME NEW b \in Administrators, NEW r \in Roles, LookForRole(b, r) PROVE Explained'
  BY <1>0, <1>4, TablesOnly DEF LookForRole, AuthorizationTypeOK, tables
<1>5. ASSUME NEW r \in Roles, RevokeRole(r) PROVE Explained'
  <2>1. AuthorizationTypeOK'
    BY <1>0, <1>5, WrittenTypes DEF AuthorizationTypeOK, RevokeRole
  <2>2. OneWrite(a, g, d, t)'
    BY <1>0, <1>5, <1>a DEF RevokeRole, HasRole, OneWrite
  <2> QED
    BY <1>5, <1>a, <2>1, <2>2, WriteExplained DEF RevokeRole
<1>6. ASSUME NEW r \in Roles, GrantPermissionToRole(r) PROVE Explained'
  <2>1. AuthorizationTypeOK'
    BY <1>0, <1>6, WrittenTypes DEF AuthorizationTypeOK, GrantPermissionToRole
  <2>2. OneWrite(a, g, d, t)'
    BY <1>6, <1>a DEF GrantPermissionToRole, OneWrite
  <2> QED
    BY <1>6, <1>a, <2>1, <2>2, WriteExplained DEF GrantPermissionToRole
<1>7. ASSUME NEW x \in Departments, SetUserAttribute(x) PROVE Explained'
  <2>1. AuthorizationTypeOK'
    BY <1>0, <1>7, WrittenTypes DEF AuthorizationTypeOK, SetUserAttribute
  <2>2. OneWrite(a, g, d, t)'
    BY <1>7, <1>a DEF SetUserAttribute, OneWrite
  <2> QED
    BY <1>7, <1>a, <2>1, <2>2, WriteExplained DEF SetUserAttribute
<1>8. CASE DeleteTask
  <2>1. AuthorizationTypeOK'
    BY <1>0, <1>8, WrittenTypes DEF AuthorizationTypeOK, DeleteTask
  <2>2. OneWrite(a, g, d, t)'
    BY <1>8, <1>a DEF DeleteTask, OneWrite
  <2> QED
    BY <1>8, <1>a, <2>1, <2>2, WriteExplained DEF DeleteTask
<1>9. CASE UNCHANGED authorizationVars
  BY <1>0, <1>9, TablesOnly DEF authorizationVars, tables, AuthorizationTypeOK
<1> QED
  BY <1>1, <1>2, <1>3, <1>4, <1>5, <1>6, <1>7, <1>8, <1>9
     DEF AuthorizationNext, IsAuthorized, Reading

\* The tables keep their types, and as long as one write at most comes in
\* between, IsAuthorized decides as the policy did at some moment while its
\* reads were made.
THEOREM AuthorizationInvariant == AuthorizationSpec => []AuthorizationInv
<1>1. Explained => AuthorizationInv
  BY DEF Explained, AuthorizationInv
<1> QED
  BY ExplainedInit, ExplainedStep, <1>1, PTL DEF AuthorizationSpec
=============================================================================
