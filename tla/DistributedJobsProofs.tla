----------------------- MODULE DistributedJobsProofs -----------------------
(***************************************************************************)
(* Theorems about DistributedJobs, for any jobs, workers, tries and bounds.*)
(*                                                                         *)
(* What a queue or a worker holds is judged member by member: Fit is what  *)
(* every member satisfies wherever it is, Queued what one that waits for   *)
(* its time satisfies, Ripe what one that may be executed satisfies.  All  *)
(* three only ever become true as time passes and attempts are made, so a  *)
(* step has to be looked at only for the members it moves.                 *)
(***************************************************************************)
EXTENDS DistributedJobs, TLAPS

Fit(m) == m \in Members /\ m.job \in enqueued /\ Counted(m)
Queued(m) == Fit(m) /\ m.tries < MaxTries
Ripe(m) == Queued(m) /\ m.due <= now

Places == [at : {"poll", "move", "add", "pop", "execute", "retry", "stopped"},
           seen : SUBSET Members, member : SUBSET Members]

PlaceOK(p) ==
    /\ p \in Places
    /\ \A m \in p.seen : Ripe(m)
    /\ p.at \in {"add", "execute"} => \E m \in Members : p.member = {m} /\ Ripe(m)
    /\ p.at = "retry" => \E m \in Members : p.member = {m} /\ Fit(m)
    /\ p.at \notin {"add", "execute", "retry"} => p.member = {}

Workplaces == worker \in [Workers -> Places] /\ \A w \in Workers : PlaceOK(worker[w])

Immediate == \A m \in DOMAIN immediate : Ripe(m) /\ immediate[m] \in (-10)..MaxTime
Delayed == \A m \in delayed : Queued(m)
Local == \A m \in local : Fit(m)
Dead == dead \subseteq Jobs /\ \A j \in dead : \A n \in 0..(MaxTries - 1) : Attempted(j, n)

Plain ==
    /\ now \in 0..MaxTime
    /\ cached \subseteq CacheKeys
    /\ done \subseteq enqueued /\ enqueued \subseteq Jobs
    /\ executed \subseteq Members
    /\ faults \in 0..MaxFaults

\* QueueInv, but for the flag, as the proof needs it.
JobsOK == Plain /\ Immediate /\ Delayed /\ Local /\ Dead /\ Workplaces
-----------------------------------------------------------------------------
LEMMA Numbers ==
    /\ MaxTime \in Nat /\ MaxTries \in Nat \ {0} /\ MaxFaults \in Nat
    /\ \A j \in Jobs : Priority[j] \in 1..10 /\ Kind[j] \in Kinds /\ Delay[j] \in Nat
BY DistributedJobsConstants

LEMMA MemberFields ==
    ASSUME NEW m \in Members
    PROVE  /\ m.job \in Jobs /\ m.kind \in Kinds /\ m.tries \in 0..MaxTries /\ m.due \in 0..MaxTime
           /\ m.tries \in Nat /\ m.due \in Nat
BY Numbers DEF Members

\* The judgements are kept by every step.
LEMMA Persist ==
    ASSUME now \in 0..MaxTime, now' \in 0..MaxTime, now <= now',
           enqueued \subseteq enqueued', executed \subseteq executed'
    PROVE  /\ \A m : Fit(m) => Fit(m)'
           /\ \A m : Queued(m) => Queued(m)'
           /\ \A m : Ripe(m) => Ripe(m)'
           /\ \A p : PlaceOK(p) => PlaceOK(p)'
           /\ \A j, n : Attempted(j, n) => Attempted(j, n)'
<1>1. \A j, n : Attempted(j, n) => Attempted(j, n)'
  BY DEF Attempted
<1>2. \A m : Fit(m) => Fit(m)'
  BY <1>1 DEF Fit, Counted
<1>3. \A m : Queued(m) => Queued(m)'
  BY <1>2 DEF Queued
<1>4. \A m : Ripe(m) => Ripe(m)'
  BY <1>3, MemberFields, Numbers DEF Ripe, Queued, Fit
<1>5. \A p : PlaceOK(p) => PlaceOK(p)'
  BY <1>2, <1>4 DEF PlaceOK
<1> QED
  BY <1>1, <1>2, <1>3, <1>4, <1>5

\* A new job has no attempts behind it.
LEMMA FreshFits ==
    ASSUME NEW j \in Jobs, NEW kind \in Kinds, NEW delay \in Nat, now \in 0..MaxTime
    PROVE  /\ Fresh(j, kind, delay) \in Members
           /\ Fresh(j, kind, delay).job = j
           /\ Fresh(j, kind, delay).tries = 0
<1>1. In(delay) \in 0..MaxTime
  BY Numbers DEF In
<1> QED
  BY <1>1, Numbers DEF Fresh, Members

LEMMA FreshQueued ==
    ASSUME NEW m \in Members, m.tries = 0, m.job \in enqueued
    PROVE  Queued(m)
BY Numbers DEF Queued, Fit, Counted

\* The member a worker has in hand.
LEMMA InHandIs ==
    ASSUME NEW w \in Workers, Workplaces, worker[w].at \in {"add", "execute", "retry"}
    PROVE  /\ worker[w].member = {Have(w)} /\ Have(w) \in Members /\ Fit(Have(w))
           /\ worker[w].at # "retry" => Ripe(Have(w))
<1>1. PlaceOK(worker[w])
  BY DEF Workplaces
<1>2. PICK m \in Members : worker[w].member = {m} /\ Fit(m) /\ (worker[w].at # "retry" => Ripe(m))
  BY <1>1 DEF PlaceOK, Ripe, Queued
<1>3. Have(w) = m
  BY <1>2 DEF Have
<1> QED
  BY <1>2, <1>3

\* One worker goes on to a good place.
LEMMA GoOK ==
    ASSUME Workplaces, NEW w \in Workers, NEW p, Go(w, p), PlaceOK(p)',
           \A q : PlaceOK(q) => PlaceOK(q)'
    PROVE  Workplaces'
<1>0. p \in Places
  BY Zenon DEF PlaceOK, Places, Members
<1>1. worker' \in [Workers -> Places]
  BY <1>0 DEF Workplaces, Go
<1>2. ASSUME NEW v \in Workers PROVE PlaceOK(worker[v])'
  <2>1. PICK q : q = worker'[v]
    OBVIOUS
  <2>2. q = IF v = w THEN p ELSE worker[v]
    BY <2>1 DEF Workplaces, Go
  <2>3. PlaceOK(q)'
    BY <2>2 DEF Workplaces
  <2> QED
    BY <2>1, <2>3
<1> QED
  BY <1>1, <1>2 DEF Workplaces

\* What a step leaves alone stays good.
Onward == /\ Plain /\ Plain' /\ now <= now'
          /\ enqueued \subseteq enqueued' /\ executed \subseteq executed'

LEMMA Kept ==
    ASSUME Onward
    PROVE  /\ Immediate /\ immediate' = immediate => Immediate'
           /\ Delayed /\ delayed' \subseteq delayed => Delayed'
           /\ Local /\ local' \subseteq local => Local'
           /\ Dead /\ dead' = dead => Dead'
           /\ Workplaces /\ worker' = worker => Workplaces'
           /\ \A m : Ripe(m) => Ripe(m)'
           /\ \A m : Queued(m) => Queued(m)'
           /\ \A m : Fit(m) => Fit(m)'
           /\ \A p : PlaceOK(p) => PlaceOK(p)'
<1>1. now \in 0..MaxTime /\ now' \in 0..MaxTime
  BY DEF Onward, Plain
<1>2. /\ \A m : Fit(m) => Fit(m)'
      /\ \A m : Queued(m) => Queued(m)'
      /\ \A m : Ripe(m) => Ripe(m)'
      /\ \A p : PlaceOK(p) => PlaceOK(p)'
      /\ \A j, n : Attempted(j, n) => Attempted(j, n)'
  BY <1>1, Persist DEF Onward
<1>3. Immediate /\ immediate' = immediate => Immediate'
  BY <1>2 DEF Immediate
<1>4. Delayed /\ delayed' \subseteq delayed => Delayed'
  BY <1>2 DEF Delayed
<1>5. Local /\ local' \subseteq local => Local'
  BY <1>2 DEF Local
<1>6. Dead /\ dead' = dead => Dead'
  BY <1>2 DEF Dead
<1>7. Workplaces /\ worker' = worker => Workplaces'
  <2> SUFFICES ASSUME Workplaces, worker' = worker PROVE Workplaces'
    OBVIOUS
  <2>1. ASSUME NEW w \in Workers PROVE PlaceOK(worker[w])'
    <3>1. PICK q : q = worker[w]
      OBVIOUS
    <3> QED
      BY <1>2, <3>1 DEF Workplaces
  <2> QED
    BY <2>1 DEF Workplaces
<1> QED
  BY <1>2, <1>3, <1>4, <1>5, <1>6, <1>7

\* ZADD of a ripe member.
LEMMA AddOK ==
    ASSUME Onward, Immediate, NEW m \in Members, Ripe(m)', AddImmediate(m)
    PROVE  Immediate'
<1>1. Score(m.job) \in (-10)..MaxTime
  <2>1. now \in 0..MaxTime /\ m.job \in Jobs
    BY MemberFields DEF Onward, Plain
  <2>2. Priority[m.job] \in 1..10
    BY <2>1, Numbers
  <2> QED
    BY <2>1, <2>2, Numbers DEF Score
<1>2. DOMAIN immediate' = DOMAIN immediate \cup {m}
  BY DEF AddImmediate
<1>3. ASSUME NEW n \in DOMAIN immediate' PROVE Ripe(n)' /\ immediate'[n] \in (-10)..MaxTime
  BY <1>1, <1>2, <1>3, Kept DEF AddImmediate, Immediate
<1> QED
  BY <1>3 DEF Immediate

\* The router puts a job without attempts where it may be.
LEMMA RouteOK ==
    ASSUME Onward, Immediate, Delayed, Local, now' = now,
           NEW m \in Members, m.tries = 0, m.job \in enqueued', Route(m)
    PROVE  Immediate' /\ Delayed' /\ Local' /\ dead' = dead
<1>1. Queued(m)'
  BY Numbers DEF Queued, Fit, Counted
<1>2. CASE EnqueueToLocal(m)
  BY <1>1, <1>2, Kept DEF EnqueueToLocal, Local, Queued
<1>3. CASE EnqueueToRedis(m) /\ m.due > now
  BY <1>1, <1>3, Kept DEF EnqueueToRedis, Delayed
<1>4. CASE EnqueueToRedis(m) /\ ~(m.due > now)
  <2>1. m.due \in Nat /\ now \in Nat
    <3>1. now \in 0..MaxTime
      BY DEF Onward, Plain
    <3> QED
      BY <3>1, Numbers, MemberFields
  <2>2. m.due <= now
    BY <1>4, <2>1
  <2>3. Ripe(m)'
    BY <1>1, <2>2 DEF Ripe
  <2>4. Immediate'
    BY <1>4, <2>3, AddOK DEF EnqueueToRedis
  <2> QED
    BY <1>4, <2>4, Kept DEF EnqueueToRedis
<1> QED
  BY <1>2, <1>3, <1>4 DEF Route
-----------------------------------------------------------------------------
LEMMA JobsInit == Init => JobsOK
<1> SUFFICES ASSUME Init PROVE JobsOK
  OBVIOUS
<1>1. Plain /\ Immediate /\ Delayed /\ Local /\ Dead
  BY Numbers DEF Init, Plain, Immediate, Delayed, Local, Dead, CacheKeys
<1>2. ASSUME NEW w \in Workers PROVE worker[w] \in Places /\ PlaceOK(worker[w])
  BY DEF Init, Polling, PlaceOK, Places
<1>3. worker \in [Workers -> Places]
  <2>1. worker = [w \in Workers |-> worker[w]]
    BY DEF Init
  <2> QED
    BY <1>2, <2>1
<1> QED
  BY <1>1, <1>2, <1>3 DEF JobsOK, Workplaces

LEMMA EnqueueOK ==
    ASSUME JobsOK, NEW j \in Jobs, Enqueue(j)
    PROVE  JobsOK'
<1>1. Plain' /\ Onward
  BY DEF JobsOK, Plain, Enqueue, Onward
<1>2. PICK m \in Members : m.tries = 0 /\ m.job = j /\ Route(m)
  <2>1. now \in 0..MaxTime /\ Kind[j] \in Kinds /\ Delay[j] \in Nat
    BY Numbers DEF JobsOK, Plain
  <2>2. (IF Kind[j] = "scheduled" THEN Delay[j] ELSE 0) \in Nat
    BY <2>1
  <2> QED
    BY <2>1, <2>2, FreshFits DEF Enqueue
<1>3. j \in enqueued' /\ now' = now /\ worker' = worker
  BY DEF Enqueue
<1>4. Immediate' /\ Delayed' /\ Local' /\ dead' = dead
  BY <1>1, <1>2, <1>3, RouteOK DEF JobsOK
<1> QED
  BY <1>1, <1>3, <1>4, Kept DEF JobsOK

LEMMA RunLocallyOK ==
    ASSUME JobsOK, RunLocally
    PROVE  JobsOK'
<1>1. Plain'
  <2>1. PICK m \in local : /\ cached' = cached \cup {IF m.kind = "batch" THEN NilKey ELSE Key[m.job]}
                           /\ done' = done \cup {m.job}
    BY DEF RunLocally
  <2>2. m \in Members /\ m.job \in enqueued
    BY DEF JobsOK, Local, Fit
  <2>3. cached' \subseteq CacheKeys
    BY <2>1, <2>2, MemberFields DEF JobsOK, Plain, CacheKeys
  <2> QED
    BY <2>1, <2>2, <2>3 DEF JobsOK, Plain, RunLocally
<1>2. Onward
  BY <1>1 DEF JobsOK, Onward, RunLocally, Plain
<1> QED
  BY <1>1, <1>2, Kept DEF JobsOK, RunLocally
-----------------------------------------------------------------------------
\* The poll of a worker, command by command.

LEMMA Moves ==
    ASSUME JobsOK, now' = now, enqueued' = enqueued, executed' = executed,
           cached' = cached, done' = done, faults' \in 0..MaxFaults
    PROVE  Onward /\ Plain'
BY DEF JobsOK, Plain, Onward

LEMMA ListOK ==
    ASSUME JobsOK, NEW w \in Workers, List(w)
    PROVE  JobsOK'
<1>1. Onward /\ Plain'
  BY Moves DEF List, JobsOK, Plain
<1>2. PICK seen : seen = {m \in delayed : Due(m)}
  OBVIOUS
<1>3. PICK p : p = [Polling EXCEPT !.at = AfterList(seen), !.seen = seen]
  OBVIOUS
<1>4. \A m \in seen : Ripe(m) /\ m \in Members
  BY <1>2 DEF JobsOK, Delayed, Ripe, Due, Queued, Fit
<1>5. PlaceOK(p)
  <2>1. p \in Places /\ p.member = {} /\ p.seen = seen /\ p.at \in {"pop", "move"}
    BY <1>3, <1>4 DEF Places, Polling, AfterList
  <2> QED
    BY <1>4, <2>1 DEF PlaceOK
<1>6. Workplaces'
  <2>1. Go(w, p)
    BY <1>2, <1>3 DEF List
  <2> QED
    BY <1>1, <1>5, <2>1, Kept, GoOK DEF JobsOK
<1> QED
  BY <1>1, <1>6, Kept DEF JobsOK, List, queues

\* The place after a member has been taken from the list of those seen.
LEMMA TakeOK ==
    ASSUME JobsOK, NEW w \in Workers, NEW m \in worker[w].seen
    PROVE  PlaceOK([at |-> "add", seen |-> worker[w].seen \ {m}, member |-> {m}])
<1>1. Ripe(m) /\ m \in Members /\ worker[w].seen \subseteq Members /\ \A n \in worker[w].seen : Ripe(n)
  BY DEF JobsOK, Workplaces, PlaceOK, Ripe, Queued, Fit, Places
<1> QED
  BY <1>1 DEF PlaceOK, Places

LEMMA RemoveOK ==
    ASSUME JobsOK, NEW w \in Workers, Remove(w)
    PROVE  JobsOK'
<1>1. Onward /\ Plain'
  BY Moves DEF Remove, JobsOK, Plain, history
<1>2. PICK m \in worker[w].seen :
          Go(w, [at |-> "add", seen |-> worker[w].seen \ {m}, member |-> {m}])
  BY DEF Remove
<1>3. Workplaces'
  <2>1. PICK p : p = [at |-> "add", seen |-> worker[w].seen \ {m}, member |-> {m}]
    OBVIOUS
  <2>2. Go(w, p) /\ PlaceOK(p)
    BY <1>2, <2>1, TakeOK
  <2> QED
    BY <1>1, <2>2, Kept, GoOK DEF JobsOK
<1> QED
  BY <1>1, <1>3, Kept DEF JobsOK, Remove

\* The place after a move.
LEMMA AfterAddOK ==
    ASSUME JobsOK, NEW w \in Workers
    PROVE  PlaceOK(AfterAdd(w))
<1>1. worker[w] \in Places /\ \A n \in worker[w].seen : Ripe(n)
  BY DEF JobsOK, Workplaces, PlaceOK
<1>2. /\ AfterAdd(w) \in Places /\ AfterAdd(w).seen = worker[w].seen
      /\ AfterAdd(w).member = {} /\ AfterAdd(w).at \in {"pop", "move"}
  BY <1>1 DEF AfterAdd, Places
<1> QED
  BY <1>1, <1>2 DEF PlaceOK

LEMMA PollingOK ==
    /\ PlaceOK(Polling)
    /\ PlaceOK([Polling EXCEPT !.at = "pop"])
    /\ PlaceOK([Polling EXCEPT !.at = "stopped"])
BY DEF Polling, PlaceOK, Places

LEMMA AddStepOK ==
    ASSUME JobsOK, NEW w \in Workers, Add(w)
    PROVE  JobsOK'
<1>1. Onward /\ Plain'
  BY Moves DEF Add, JobsOK, Plain, history
<1>2. Workplaces'
  <2>1. PICK p : p = AfterAdd(w)
    OBVIOUS
  <2>2. Go(w, p) /\ PlaceOK(p)
    BY <2>1, AfterAddOK DEF Add
  <2> QED
    BY <1>1, <2>2, Kept, GoOK DEF JobsOK
<1>3. Immediate'
  <2>1. PICK m : m = Have(w)
    OBVIOUS
  <2>2. m \in Members /\ Ripe(m) /\ AddImmediate(m)
    BY <2>1, InHandIs DEF JobsOK, Add, At
  <2> QED
    BY <1>1, <2>2, Kept, AddOK DEF JobsOK
<1> QED
  BY <1>1, <1>2, <1>3, Kept DEF JobsOK, Add

LEMMA PopOK ==
    ASSUME JobsOK, NEW w \in Workers, Pop(w)
    PROVE  JobsOK'
<1>1. Onward /\ Plain'
  BY Moves DEF Pop, JobsOK, Plain, history
<1>2. CASE Go(w, Polling) /\ UNCHANGED immediate
  <2>1. Workplaces'
    BY <1>1, <1>2, Kept, GoOK, PollingOK DEF JobsOK
  <2> QED
    BY <1>1, <1>2, <2>1, Kept DEF JobsOK, Pop
<1>3. ASSUME NEW m \in DOMAIN immediate, immediate' = LeftAfterPop(m),
             Go(w, [at |-> "execute", seen |-> {}, member |-> {m}])
      PROVE  JobsOK'
  <2>1. Workplaces'
    <3>1. PICK p : p = [at |-> "execute", seen |-> {}, member |-> {m}]
      OBVIOUS
    <3>2. Ripe(m) /\ m \in Members
      BY DEF JobsOK, Immediate, Ripe, Queued, Fit
    <3>3. PlaceOK(p)
      BY <3>1, <3>2 DEF PlaceOK, Places
    <3> QED
      BY <1>1, <1>3, <3>1, <3>3, Kept, GoOK DEF JobsOK
  <2>2. Immediate'
    <3>1. immediate' = [n \in (DOMAIN immediate \ {m}) |-> immediate[n]]
      BY <1>3 DEF LeftAfterPop, Restrict
    <3> QED
      BY <1>1, <3>1, Kept DEF JobsOK, Immediate
  <2> QED
    BY <1>1, <2>1, <2>2, Kept DEF JobsOK, Pop
<1> QED
  BY <1>2, <1>3 DEF Pop

\* A failed attempt has been made.
LEMMA TriedFits ==
    ASSUME Onward, NEW m \in Members, Ripe(m), m \in executed'
    PROVE  Tried(m) \in Members /\ Fit(Tried(m))'
<1>1. Fit(m)' /\ m.tries \in 0..MaxTries /\ m.tries < MaxTries /\ m.tries \in Nat
  BY Kept, MemberFields DEF Ripe, Queued
<1>2. Tried(m) = [job |-> m.job, kind |-> m.kind, tries |-> m.tries + 1, due |-> m.due]
  BY DEF Tried, Members
<1>3. m.tries + 1 \in 0..MaxTries
  BY <1>1, Numbers
<1>4. Tried(m) \in Members
  BY <1>2, <1>3, MemberFields DEF Members
<1>5. \A n \in 0..((m.tries + 1) - 1) : Attempted(m.job, n)'
  <2>1. Attempted(m.job, m.tries)'
    BY DEF Attempted
  <2>2. \A n \in 0..(m.tries - 1) : Attempted(m.job, n)'
    BY <1>1 DEF Fit, Counted
  <2> QED
    BY <1>1, <2>1, <2>2
<1>6. Tried(m).tries = m.tries + 1 /\ Tried(m).job = m.job
  BY <1>2
<1>7. Counted(Tried(m))'
  BY <1>5, <1>6 DEF Counted
<1> QED
  BY <1>1, <1>4, <1>6, <1>7 DEF Fit

LEMMA HandleOK ==
    ASSUME JobsOK, Onward, now' = now, NEW m \in Members, m.job \in enqueued', Handle(m)
    PROVE  Immediate' /\ Delayed' /\ Local' /\ Dead' /\ cached' \subseteq CacheKeys
<1>1. m.job \in Jobs /\ cached \subseteq CacheKeys /\ Key[m.job] \in CacheKeys
  BY MemberFields DEF JobsOK, Plain, CacheKeys
<1>2. CASE UNCHANGED queues /\ (cached' \subseteq cached \cup {Key[m.job]})
  BY <1>1, <1>2, Kept DEF JobsOK, queues
<1>3. CASE Route(Fresh(m.job, "warmup", 0)) /\ cached' = cached
  <2>1. PICK n : n = Fresh(m.job, "warmup", 0)
    OBVIOUS
  <2>2. now \in 0..MaxTime
    BY DEF Onward, Plain
  <2>3. n \in Members /\ n.job = m.job /\ n.tries = 0 /\ Route(n)
    BY <1>1, <1>3, <2>1, <2>2, FreshFits DEF Kinds
  <2>4. Immediate' /\ Delayed' /\ Local' /\ dead' = dead
    BY <2>3, RouteOK DEF JobsOK
  <2> QED
    BY <1>1, <1>3, <2>4, Kept DEF JobsOK
<1> QED
  BY <1>2, <1>3 DEF Handle

LEMMA ExecuteOK ==
    ASSUME JobsOK, NEW w \in Workers, Execute(w)
    PROVE  JobsOK'
<1>1. PICK m : m = Have(w)
  OBVIOUS
<1>2. /\ m \in Members /\ Ripe(m) /\ Fit(m) /\ m.job \in enqueued
      /\ now' = now /\ enqueued' = enqueued /\ executed' = executed \cup {m}
  <2>1. worker[w].at = "execute"
    BY DEF Execute, At
  <2> QED
    BY <1>1, <2>1, InHandIs DEF JobsOK, Execute, Fit
<1>3. Plain /\ faults' = faults
  BY DEF JobsOK, Execute
<1>4. cached' \subseteq CacheKeys /\ done' \subseteq enqueued
  <2>1. cached \subseteq CacheKeys /\ Key[m.job] \in CacheKeys
    BY <1>2, <1>3, MemberFields DEF Plain, CacheKeys
  <2>2. CASE Handle(m) /\ done' = done \cup {m.job}
    <3>1. cached' \subseteq cached \cup {Key[m.job]}
      BY <2>2 DEF Handle
    <3> QED
      BY <1>2, <1>3, <2>1, <2>2, <3>1 DEF Plain
  <2>3. CASE UNCHANGED <<cached, done>>
    BY <1>3, <2>1, <2>3 DEF Plain
  <2> QED
    BY <1>1, <2>2, <2>3 DEF Execute
<1>5. Onward /\ Plain'
  BY <1>2, <1>3, <1>4 DEF Plain, Onward
<1>6. CASE Handle(m) /\ Go(w, Polling)
  <2>1. Immediate' /\ Delayed' /\ Local' /\ Dead'
    BY <1>2, <1>5, <1>6, HandleOK
  <2>2. Workplaces'
    BY <1>5, <1>6, Kept, GoOK, PollingOK DEF JobsOK
  <2> QED
    BY <1>5, <2>1, <2>2 DEF JobsOK
<1>7. CASE /\ Go(w, [worker[w] EXCEPT !.at = "retry", !.member = {Tried(m)}])
           /\ UNCHANGED queues
  <2>1. PICK p : p = [worker[w] EXCEPT !.at = "retry", !.member = {Tried(m)}]
    OBVIOUS
  <2>2. Tried(m) \in Members /\ Fit(Tried(m))'
    BY <1>2, <1>5, TriedFits
  <2>3. worker[w] \in Places /\ \A n \in worker[w].seen : Ripe(n)
    BY DEF JobsOK, Workplaces, PlaceOK
  <2>4. /\ p \in Places /\ p.at = "retry" /\ p.seen = worker[w].seen
        /\ p.member = {Tried(m)}
    BY <2>1, <2>2, <2>3 DEF Places
  <2>5. PICK n : n = Tried(m)
    OBVIOUS
  <2>6. Fit(n)'
    BY <1>1, <2>2, <2>5
  <2>7. PlaceOK(p)'
    BY <1>5, <2>2, <2>3, <2>4, <2>5, <2>6, Kept DEF PlaceOK
  <2>8. Workplaces'
    BY <1>5, <1>7, <2>1, <2>7, Kept, GoOK DEF JobsOK
  <2> QED
    BY <1>5, <1>7, <2>8, Kept DEF JobsOK, queues
<1> QED
  BY <1>1, <1>6, <1>7 DEF Execute

LEMMA RetryOK ==
    ASSUME JobsOK, NEW w \in Workers, Retry(w)
    PROVE  JobsOK'
<1>1. Onward /\ Plain'
  BY Moves DEF Retry, JobsOK, Plain, history
<1>2. Workplaces'
  BY <1>1, Kept, GoOK, PollingOK DEF JobsOK, Retry
<1>3. PICK m : m = Have(w)
  OBVIOUS
<1>4. m \in Members /\ Fit(m)
  BY <1>3, InHandIs DEF JobsOK, Retry, At
<1>5. CASE MayRetry(m)
  <2>1. PICK n : n = [m EXCEPT !.due = In(m.tries)]
    OBVIOUS
  <2>2. In(m.tries) \in 0..MaxTime
    <3>1. now \in 0..MaxTime
      BY DEF JobsOK, Plain
    <3> QED
      BY <1>4, <3>1, MemberFields, Numbers DEF In
  <2>3. n \in Members /\ n.job = m.job /\ n.tries = m.tries
    BY <1>4, <2>1, <2>2 DEF Members
  <2>4. Queued(n)
    BY <1>4, <1>5, <2>3 DEF Queued, Fit, Counted, MayRetry
  <2>5. delayed' = delayed \cup {n} /\ dead' = dead
    BY <1>3, <1>5, <2>1 DEF Retry
  <2>6. Delayed'
    BY <1>1, <2>4, <2>5, Kept DEF JobsOK, Delayed
  <2> QED
    BY <1>1, <1>2, <2>5, <2>6, Kept DEF JobsOK, Retry
<1>6. CASE ~MayRetry(m)
  <2>1. m.tries = MaxTries /\ m.job \in Jobs
    BY <1>4, <1>6, MemberFields, Numbers DEF MayRetry
  <2>2. \A n \in 0..(MaxTries - 1) : Attempted(m.job, n)
    BY <1>4, <2>1 DEF Fit, Counted
  <2>3. dead' = dead \cup {m.job} /\ delayed' = delayed /\ executed' = executed
    BY <1>3, <1>6 DEF Retry, history
  <2>4. Dead'
    BY <2>1, <2>2, <2>3 DEF JobsOK, Dead, Attempted
  <2> QED
    BY <1>1, <1>2, <2>3, <2>4, Kept DEF JobsOK, Retry
<1> QED
  BY <1>5, <1>6

\* A failed command or a crash moves a worker on and touches no queue.
LEMMA FaultOK ==
    ASSUME JobsOK, NEW w \in Workers, CommandFails(w) \/ Crash(w)
    PROVE  JobsOK'
<1>1. faults' \in 0..MaxFaults
  BY Numbers DEF JobsOK, Plain, CommandFails, Crash
<1>2. Onward /\ Plain'
  BY <1>1, Moves DEF CommandFails, Crash, JobsOK, Plain, history
<1>3. PICK p : Go(w, p) /\ PlaceOK(p)
  BY TakeOK, AfterAddOK, PollingOK DEF CommandFails, Crash
<1>4. Workplaces'
  BY <1>2, <1>3, Kept, GoOK DEF JobsOK
<1> QED
  BY <1>2, <1>4, Kept DEF JobsOK, CommandFails, Crash, queues

LEMMA LeaveOK ==
    ASSUME JobsOK, NEW w \in Workers, Leave(w)
    PROVE  JobsOK'
<1>1. Onward /\ Plain'
  BY Moves DEF Leave, JobsOK, Plain, history
<1>2. Workplaces'
  BY <1>1, Kept, GoOK, PollingOK DEF JobsOK, Leave
<1> QED
  BY <1>1, <1>2, Kept DEF JobsOK, Leave, queues

LEMMA IdleOK ==
    ASSUME JobsOK, Stop \/ Tick \/ UNCHANGED vars
    PROVE  JobsOK'
<1>1. Plain' /\ Onward
  BY Numbers DEF JobsOK, Plain, Onward, Stop, Tick, vars, history
<1> QED
  BY <1>1, Kept DEF JobsOK, Stop, Tick, vars, queues

LEMMA JobsStep == JobsOK /\ [Next]_vars => JobsOK'
BY EnqueueOK, RunLocallyOK, ListOK, RemoveOK, AddStepOK, PopOK, ExecuteOK, RetryOK, FaultOK,
   LeaveOK, IdleOK DEF Next, Poll

LEMMA JobsInvariant == Spec => []JobsOK
BY JobsInit, JobsStep, PTL DEF Spec
-----------------------------------------------------------------------------
LEMMA StoppingOK == Spec => [](stopping \in BOOLEAN)
<1>1. Init => stopping \in BOOLEAN
  BY DEF Init
<1>2. stopping \in BOOLEAN /\ [Next]_vars => (stopping \in BOOLEAN)'
  BY Zenon DEF Next, Poll, Enqueue, RunLocally, List, Remove, Add, Pop, Execute, Retry,
               CommandFails, Crash, Leave, Stop, Tick, vars
<1> QED
  BY <1>1, <1>2, PTL DEF Spec

LEMMA JobsTyped ==
    ASSUME JobsOK, stopping \in BOOLEAN
    PROVE  TypeOK
<1>1. DOMAIN immediate \subseteq Members /\ \A m \in DOMAIN immediate : immediate[m] \in (-10)..MaxTime
  BY DEF JobsOK, Immediate, Ripe, Queued, Fit
<1>2. delayed \subseteq Members /\ local \subseteq Members /\ dead \subseteq Jobs
  BY DEF JobsOK, Delayed, Local, Dead, Queued, Fit
<1>3. ASSUME NEW w \in Workers
      PROVE  /\ worker[w].at \in {"poll", "move", "add", "pop", "execute", "retry", "stopped"}
             /\ worker[w].seen \subseteq Members
             /\ IF worker[w].at \in {"add", "execute", "retry"}
                THEN \E m \in Members : worker[w].member = {m}
                ELSE worker[w].member = {}
  BY DEF JobsOK, Workplaces, PlaceOK, Places
<1> QED
  BY <1>1, <1>2, <1>3 DEF JobsOK, Plain, TypeOK

LEMMA JobsNotEarly == ASSUME JobsOK PROVE NothingEarly
<1>1. ASSUME NEW w \in Workers
      PROVE  /\ \A m \in worker[w].seen : m.due <= now
             /\ ~At(w, "retry") => \A m \in worker[w].member : m.due <= now
  BY DEF JobsOK, Workplaces, PlaceOK, Ripe, At
<1> QED
  BY <1>1 DEF JobsOK, Immediate, Ripe, NothingEarly

LEMMA JobsExhausted == ASSUME JobsOK PROVE DeadMeansExhausted
<1>1. ASSUME NEW w \in Workers
      PROVE  /\ \A m \in worker[w].seen : Open(m)
             /\ \A m \in worker[w].member : Counted(m) /\ (m.tries = MaxTries => At(w, "retry"))
  <2>1. PlaceOK(worker[w])
    BY DEF JobsOK, Workplaces
  <2>2. \A m : Ripe(m) => Open(m) /\ Counted(m) /\ m.tries # MaxTries
    BY MemberFields, Numbers DEF Ripe, Queued, Fit, Open
  <2> QED
    BY <2>1, <2>2 DEF PlaceOK, At, Fit
<1>2. \A m \in DOMAIN immediate \cup delayed : Open(m)
  BY DEF JobsOK, Immediate, Delayed, Ripe, Queued, Fit, Open
<1> QED
  BY <1>1, <1>2 DEF JobsOK, Dead, DeadMeansExhausted

\* No job is executed early, and none is dead before its attempts were made,
\* whatever the workers, crashes and lost commands do to the queues.
THEOREM QueueInvariant == Spec => []QueueInv
<1>1. JobsOK /\ stopping \in BOOLEAN => QueueInv
  BY JobsTyped, JobsNotEarly, JobsExhausted DEF QueueInv
<1> QED
  BY JobsInvariant, StoppingOK, <1>1, PTL
-----------------------------------------------------------------------------
\* Where job j is, member by member.
Queueing(j) == \E m \in DOMAIN immediate \cup delayed \cup local : m.job = j
Held(j) == \E w \in Workers : \E m \in worker[w].member : m.job = j
Somewhere(j) == j \in done \cup dead \/ Queueing(j) \/ Held(j)

LEMMA LossIs == LossNeedsFault <=> (faults = 0 => \A j \in enqueued : Somewhere(j))
BY DEF LossNeedsFault, InHand, Somewhere, Queueing, Held

\* Only the worker that steps changes what is held.
LEMMA HeldOn ==
    ASSUME JobsOK, NEW w \in Workers, NEW p, Go(w, p), NEW j, Held(j),
           \A m \in worker[w].member : m.job = j => \E n \in p.member : n.job = j
    PROVE  Held(j)'
<1>1. PICK v \in Workers : \E m \in worker[v].member : m.job = j
  BY DEF Held
<1>2. worker'[v] = IF v = w THEN p ELSE worker[v]
  BY DEF JobsOK, Workplaces, Go
<1> QED
  BY <1>1, <1>2 DEF Held

LEMMA HeldNow ==
    ASSUME JobsOK, NEW w \in Workers, NEW p, Go(w, p), NEW m \in p.member
    PROVE  Held(m.job)'
BY DEF JobsOK, Workplaces, Go, Held

\* A worker between two members has nothing in hand.
LEMMA EmptyHanded ==
    ASSUME JobsOK, NEW w \in Workers, worker[w].at \notin {"add", "execute", "retry"}
    PROVE  worker[w].member = {}
BY DEF JobsOK, Workplaces, PlaceOK

\* The router adds a job and takes none away.
LEMMA RouteKeeps ==
    ASSUME NEW m \in Members, Route(m), NEW j
    PROVE  /\ Queueing(j) => Queueing(j)'
           /\ Queueing(m.job)' /\ dead' = dead
BY DEF Route, EnqueueToLocal, EnqueueToRedis, AddImmediate, Queueing

\* A step of a worker loses no job, one of whose members it moves.
LEMMA LossStep ==
    ASSUME JobsOK, [Next]_vars, faults' = faults, NEW j \in enqueued, Somewhere(j)
    PROVE  Somewhere(j)'
<1>1. ASSUME NEW i \in Jobs, Enqueue(i) PROVE Somewhere(j)'
  <2>1. PICK m \in Members : Route(m)
    <3>1. now \in 0..MaxTime /\ Kind[i] \in Kinds /\ Delay[i] \in Nat
      BY Numbers DEF JobsOK, Plain
    <3>2. (IF Kind[i] = "scheduled" THEN Delay[i] ELSE 0) \in Nat
      BY <3>1
    <3> QED
      BY <1>1, <3>1, <3>2, FreshFits DEF Enqueue
  <2>2. (Queueing(j) => Queueing(j)') /\ dead' = dead /\ UNCHANGED <<worker, done>>
    BY <1>1, <2>1, RouteKeeps DEF Enqueue
  <2> QED
    BY <2>2 DEF Somewhere, Held
<1>2. CASE RunLocally
  BY <1>2 DEF RunLocally, Somewhere, Queueing, Held
<1>3. ASSUME NEW w \in Workers, List(w) PROVE Somewhere(j)'
  <2>1. PICK p : Go(w, p)
    BY <1>3 DEF List
  <2>2. worker[w].member = {}
    BY <1>3, EmptyHanded DEF List, At
  <2>3. Held(j) => Held(j)'
    BY <2>1, <2>2, HeldOn
  <2> QED
    BY <1>3, <2>3 DEF List, queues, Somewhere, Queueing
<1>4. ASSUME NEW w \in Workers, Remove(w) PROVE Somewhere(j)'
  <2>1. PICK m \in worker[w].seen : /\ delayed' = delayed \ {m}
             /\ Go(w, [at |-> "add", seen |-> worker[w].seen \ {m}, member |-> {m}])
    BY <1>4 DEF Remove
  <2>2. PICK p : p = [at |-> "add", seen |-> worker[w].seen \ {m}, member |-> {m}]
    OBVIOUS
  <2>3. worker[w].member = {}
    BY <1>4, EmptyHanded DEF Remove, At
  <2>4. Held(j) => Held(j)'
    BY <2>1, <2>2, <2>3, HeldOn
  <2>5. Held(m.job)'
    BY <2>1, <2>2, HeldNow
  <2>6. Queueing(j) => Queueing(j)' \/ j = m.job
    BY <1>4, <2>1 DEF Remove, Queueing
  <2> QED
    BY <1>4, <2>4, <2>5, <2>6 DEF Remove, history, Somewhere
<1>5. ASSUME NEW w \in Workers, Add(w) PROVE Somewhere(j)'
  <2>1. PICK m : m = Have(w) /\ worker[w].member = {m} /\ AddImmediate(m)
    BY <1>5, InHandIs DEF JobsOK, Add, At
  <2>2. Queueing(m.job)' /\ (Queueing(j) => Queueing(j)')
    BY <1>5, <2>1 DEF Add, AddImmediate, Queueing
  <2>3. PICK p : Go(w, p)
    BY <1>5 DEF Add
  <2>4. Held(j) => Held(j)' \/ j = m.job
    BY <2>1, <2>3, HeldOn
  <2> QED
    BY <1>5, <2>2, <2>4 DEF Add, history, Somewhere
<1>6. ASSUME NEW w \in Workers, Pop(w) PROVE Somewhere(j)'
  <2>1. worker[w].member = {}
    BY <1>6, EmptyHanded DEF Pop, At
  <2>2. PICK p : Go(w, p)
    BY <1>6 DEF Pop
  <2>3. Held(j) => Held(j)'
    BY <2>1, <2>2, HeldOn
  <2>4. Queueing(j) => Queueing(j)' \/ Held(j)'
    <3>1. CASE UNCHANGED immediate
      BY <1>6, <3>1 DEF Pop, Queueing
    <3>2. ASSUME NEW m \in DOMAIN immediate, immediate' = LeftAfterPop(m),
                 Go(w, [at |-> "execute", seen |-> {}, member |-> {m}])
          PROVE  Queueing(j) => Queueing(j)' \/ Held(j)'
      <4>1. PICK q : q = [at |-> "execute", seen |-> {}, member |-> {m}]
        OBVIOUS
      <4>2. Held(m.job)'
        BY <3>2, <4>1, HeldNow
      <4>3. DOMAIN immediate' = DOMAIN immediate \ {m}
        BY <3>2 DEF LeftAfterPop, Restrict
      <4> QED
        BY <1>6, <4>2, <4>3 DEF Pop, Queueing
    <3> QED
      BY <1>6, <3>1, <3>2 DEF Pop
  <2> QED
    BY <1>6, <2>3, <2>4 DEF Pop, history, Somewhere
<1>7. ASSUME NEW w \in Workers, Execute(w) PROVE Somewhere(j)'
  <2>1. PICK m : m = Have(w) /\ worker[w].member = {m} /\ m \in Members
    BY <1>7, InHandIs DEF JobsOK, Execute, At
  <2>2. CASE Handle(m) /\ done' = done \cup {m.job} /\ Go(w, Polling)
    <3>1. (Queueing(j) => Queueing(j)') /\ dead' = dead
      <4>1. CASE UNCHANGED queues
        BY <4>1 DEF queues, Queueing
      <4>2. CASE Route(Fresh(m.job, "warmup", 0))
        <5>1. now \in 0..MaxTime /\ m.job \in Jobs
          BY <2>1, MemberFields DEF JobsOK, Plain
        <5>2. Fresh(m.job, "warmup", 0) \in Members
          BY <5>1, FreshFits DEF Kinds
        <5> QED
          BY <4>2, <5>2, RouteKeeps
      <4> QED
        BY <2>2, <4>1, <4>2 DEF Handle, queues
    <3>2. Held(j) => Held(j)' \/ j = m.job
      BY <2>1, <2>2, HeldOn
    <3> QED
      BY <2>2, <3>1, <3>2 DEF Somewhere
  <2>3. CASE /\ Go(w, [worker[w] EXCEPT !.at = "retry", !.member = {Tried(m)}])
             /\ UNCHANGED <<queues, done>>
    <3>1. PICK p : p = [worker[w] EXCEPT !.at = "retry", !.member = {Tried(m)}]
      OBVIOUS
    <3>2. worker[w] \in Places
      BY DEF JobsOK, Workplaces
    <3>3. Tried(m) \in p.member /\ Tried(m).job = m.job
      BY <2>1, <3>1, <3>2 DEF Places, Tried, Members
    <3>4. Held(j) => Held(j)'
      BY <2>1, <2>3, <3>1, <3>3, HeldOn
    <3> QED
      BY <2>3, <3>4 DEF queues, Somewhere, Queueing
  <2> QED
    BY <1>7, <2>1, <2>2, <2>3 DEF Execute
<1>8. ASSUME NEW w \in Workers, Retry(w) PROVE Somewhere(j)'
  <2>1. PICK m : m = Have(w) /\ worker[w].member = {m} /\ m \in Members
    BY <1>8, InHandIs DEF JobsOK, Retry, At
  <2>2. Held(j) => Held(j)' \/ j = m.job
    BY <1>8, <2>1, HeldOn DEF Retry
  <2>3. Queueing(m.job)' \/ m.job \in dead'
    <3>1. [m EXCEPT !.due = In(m.tries)].job = m.job
      BY <2>1 DEF Members
    <3> QED
      BY <1>8, <2>1, <3>1 DEF Retry, Queueing
  <2>4. (Queueing(j) => Queueing(j)') /\ dead \subseteq dead' /\ done' = done
    BY <1>8 DEF Retry, Queueing, history
  <2> QED
    BY <2>2, <2>3, <2>4 DEF Somewhere
<1>9. ASSUME NEW w \in Workers, CommandFails(w) \/ Crash(w) PROVE FALSE
  BY <1>9, Numbers DEF CommandFails, Crash, JobsOK, Plain
<1>10. ASSUME NEW w \in Workers, Leave(w) PROVE Somewhere(j)'
  <2>1. worker[w].member = {}
    BY <1>10, EmptyHanded DEF Leave, At
  <2>2. Held(j) => Held(j)'
    BY <1>10, <2>1, HeldOn DEF Leave
  <2> QED
    BY <1>10, <2>2 DEF Leave, queues, history, Somewhere, Queueing
<1>11. CASE Stop \/ Tick \/ UNCHANGED vars
  BY <1>11 DEF Stop, Tick, vars, queues, history, Somewhere, Queueing, Held
<1> QED
  BY <1>1, <1>2, <1>3, <1>4, <1>5, <1>6, <1>7, <1>8, <1>9, <1>10, <1>11 DEF Next, Poll

\* A job that has just been accepted is in a queue.
LEMMA AcceptedIsQueued ==
    ASSUME JobsOK, [Next]_vars, NEW j \in enqueued', j \notin enqueued
    PROVE  Somewhere(j)'
<1>1. Enqueue(j)
  <2>1. ASSUME NEW i \in Jobs, Enqueue(i) PROVE i = j
    BY <2>1 DEF Enqueue
  <2>2. enqueued' = enqueued \/ \E i \in Jobs : Enqueue(i)
    BY DEF Next, Poll, RunLocally, List, Remove, Add, Pop, Execute, Retry, CommandFails, Crash,
           Leave, Stop, Tick, vars, history
  <2> QED
    BY <2>1, <2>2
<1>2. now \in 0..MaxTime /\ j \in Jobs /\ Kind[j] \in Kinds /\ Delay[j] \in Nat
  <2>1. JobsOK'
    BY JobsStep
  <2> QED
    BY <2>1, Numbers DEF JobsOK, Plain
<1>3. (IF Kind[j] = "scheduled" THEN Delay[j] ELSE 0) \in Nat
  BY <1>2
<1>4. PICK m \in Members : m.job = j /\ Route(m)
  BY <1>1, <1>2, <1>3, FreshFits DEF Enqueue
<1> QED
  BY <1>4, RouteKeeps DEF Somewhere

\* Retries, moves between the queues and a graceful Stop lose no job, whatever
\* the workers of however many replicas do at the same time.
THEOREM LossNeedsFaultHolds == Spec => []LossNeedsFault
<1>1. Init => LossNeedsFault
  BY DEF Init, LossNeedsFault
<1>2. JobsOK /\ LossNeedsFault /\ [Next]_vars => LossNeedsFault'
  <2> SUFFICES ASSUME JobsOK, LossNeedsFault, [Next]_vars, faults' = 0, NEW j \in enqueued'
               PROVE  Somewhere(j)'
    BY LossIs DEF LossNeedsFault, InHand, Somewhere, Queueing, Held
  <2>1. faults = 0
    <3>1. faults' = faults \/ faults' = faults + 1
      BY DEF Next, Poll, Enqueue, RunLocally, List, Remove, Add, Pop, Execute, Retry, CommandFails,
             Crash, Leave, Stop, Tick, vars, history
    <3> QED
      BY <3>1, Numbers DEF JobsOK, Plain
  <2>2. CASE j \in enqueued
    BY <2>1, <2>2, LossIs, LossStep
  <2>3. CASE j \notin enqueued
    BY <2>3, AcceptedIsQueued
  <2> QED
    BY <2>2, <2>3
<1> QED
  BY JobsInvariant, <1>1, <1>2, PTL DEF Spec
-----------------------------------------------------------------------------
(***************************************************************************)
(* Executed once.  As long as no two workers list the same member and      *)
(* nothing fails, there is one copy of a job at a time, in one queue or in *)
(* one pair of hands, and it is further than everything executed of it: a  *)
(* later attempt, or the warm-up that a validation asked for.              *)
(***************************************************************************)
Copy(place, by, m) == [in |-> place, by |-> by, m |-> m]

Live == {Copy("delayed", {}, m) : m \in delayed}
        \cup {Copy("immediate", {}, m) : m \in DOMAIN immediate}
        \cup {Copy("local", {}, m) : m \in local}
        \cup UNION {{Copy("hand", {w}, m) : m \in worker[w].member} : w \in Workers}

Single == \A x, y \in Live : x.m.job = y.m.job => x = y

\* What a worker has listed is still there, and nobody else has it listed.
SeenDelayed ==
    \A v, w \in Workers :
        /\ worker[w].seen \subseteq delayed
        /\ v # w => worker[v].seen \cap worker[w].seen = {}

Newer(m) ==
    \A e \in executed :
        e.job = m.job => \/ e.kind = m.kind /\ e.tries < m.tries
                         \/ e.kind = "validation" /\ m.kind = "warmup"

AllNewer == \A x \in Live : Newer(x.m)

Calm == ~overlap /\ faults = 0

Once == Single /\ SeenDelayed /\ AllNewer /\ doubled = FALSE

OnceInv == /\ \A e \in executed : e.job \in enqueued
           /\ Calm => Once

\* What a copy is.
LEMMA CopyFields ==
    \A a, b, m : Copy(a, b, m).in = a /\ Copy(a, b, m).by = b /\ Copy(a, b, m).m = m
BY DEF Copy

\* Where copies are.
LEMMA LiveIn ==
    /\ \A m \in delayed : Copy("delayed", {}, m) \in Live
    /\ \A m \in DOMAIN immediate : Copy("immediate", {}, m) \in Live
    /\ \A m \in local : Copy("local", {}, m) \in Live
    /\ \A w \in Workers : \A m \in worker[w].member : Copy("hand", {w}, m) \in Live
<1>1. ASSUME NEW w \in Workers, NEW m \in worker[w].member
      PROVE  Copy("hand", {w}, m) \in Live
  <2>1. Copy("hand", {w}, m) \in {Copy("hand", {w}, n) : n \in worker[w].member}
    OBVIOUS
  <2>2. Copy("hand", {w}, m) \in
            UNION {{Copy("hand", {v}, n) : n \in worker[v].member} : v \in Workers}
    BY <2>1
  <2> QED BY <2>2 DEF Live
<1>2. \A m \in delayed : Copy("delayed", {}, m) \in Live
  BY DEF Live
<1>3. \A m \in DOMAIN immediate : Copy("immediate", {}, m) \in Live
  BY DEF Live
<1>4. \A m \in local : Copy("local", {}, m) \in Live
  BY DEF Live
<1> QED BY <1>1, <1>2, <1>3, <1>4

LEMMA LiveOut ==
    ASSUME NEW x \in Live
    PROVE  \/ x.m \in delayed /\ x = Copy("delayed", {}, x.m) /\ x.in = "delayed"
           \/ x.m \in DOMAIN immediate /\ x = Copy("immediate", {}, x.m) /\ x.in = "immediate"
           \/ x.m \in local /\ x = Copy("local", {}, x.m) /\ x.in = "local"
           \/ \E w \in Workers : x.m \in worker[w].member /\ x = Copy("hand", {w}, x.m)
                                   /\ x.in = "hand" /\ x.by = {w}
<1>1. CASE x \in {Copy("delayed", {}, m) : m \in delayed}
  BY <1>1, CopyFields
<1>2. CASE x \in {Copy("immediate", {}, m) : m \in DOMAIN immediate}
  BY <1>2, CopyFields
<1>3. CASE x \in {Copy("local", {}, m) : m \in local}
  BY <1>3, CopyFields
<1>4. CASE x \in UNION {{Copy("hand", {w}, m) : m \in worker[w].member} : w \in Workers}
  <2>1. PICK w \in Workers : x \in {Copy("hand", {w}, m) : m \in worker[w].member}
    BY <1>4
  <2>2. PICK m \in worker[w].member : x = Copy("hand", {w}, m)
    BY <2>1
  <2>3. x.m = m /\ x.in = "hand" /\ x.by = {w}
    BY <2>2, CopyFields
  <2> QED BY <2>2, <2>3
<1> QED BY <1>1, <1>2, <1>3, <1>4 DEF Live

\* The same of the copies after a step.
LEMMA LiveOutNext ==
    ASSUME NEW x \in Live'
    PROVE  \/ x.m \in delayed' /\ x = Copy("delayed", {}, x.m) /\ x.in = "delayed"
           \/ x.m \in DOMAIN immediate' /\ x = Copy("immediate", {}, x.m) /\ x.in = "immediate"
           \/ x.m \in local' /\ x = Copy("local", {}, x.m) /\ x.in = "local"
           \/ \E w \in Workers : x.m \in worker'[w].member /\ x = Copy("hand", {w}, x.m)
                                   /\ x.in = "hand" /\ x.by = {w}
<1>1. CASE x \in {Copy("delayed", {}, m) : m \in delayed'}
  BY <1>1, CopyFields
<1>2. CASE x \in {Copy("immediate", {}, m) : m \in DOMAIN immediate'}
  BY <1>2, CopyFields
<1>3. CASE x \in {Copy("local", {}, m) : m \in local'}
  BY <1>3, CopyFields
<1>4. CASE x \in UNION {{Copy("hand", {w}, m) : m \in worker'[w].member} : w \in Workers}
  <2>1. PICK w \in Workers : x \in {Copy("hand", {w}, m) : m \in worker'[w].member}
    BY <1>4
  <2>2. PICK m \in worker'[w].member : x = Copy("hand", {w}, m)
    BY <2>1
  <2>3. x.m = m /\ x.in = "hand" /\ x.by = {w}
    BY <2>2, CopyFields
  <2> QED BY <2>2, <2>3
<1> QED BY <1>1, <1>2, <1>3, <1>4 DEF Live

\* Every copy is a member of an accepted job.
LEMMA LiveFit ==
    ASSUME JobsOK, NEW x \in Live
    PROVE  Fit(x.m) /\ x.m \in Members
<1>1. \A w \in Workers : \A m \in worker[w].member : Fit(m)
  <2> SUFFICES ASSUME NEW w \in Workers, NEW m \in worker[w].member PROVE Fit(m)
    OBVIOUS
  <2>1. worker[w].at \in {"add", "execute", "retry"}
    BY EmptyHanded
  <2> QED BY <2>1, InHandIs DEF JobsOK
<1> QED
  BY <1>1, LiveOut DEF JobsOK, Immediate, Delayed, Local, Ripe, Queued, Fit

\* The copies after a step of one worker.
LEMMA LiveAfter ==
    ASSUME JobsOK, NEW w \in Workers, NEW p, Go(w, p), NEW x \in Live'
    PROVE  \/ x.m \in delayed' /\ x = Copy("delayed", {}, x.m) /\ x.in = "delayed"
           \/ x.m \in DOMAIN immediate' /\ x = Copy("immediate", {}, x.m) /\ x.in = "immediate"
           \/ x.m \in local' /\ x = Copy("local", {}, x.m) /\ x.in = "local"
           \/ x.m \in p.member /\ x = Copy("hand", {w}, x.m)
                                   /\ x.in = "hand" /\ x.by = {w}
           \/ \E v \in Workers \ {w} :
                  /\ x.m \in worker[v].member /\ x = Copy("hand", {v}, x.m)
                  /\ x \in Live
<1>1. ASSUME NEW v \in Workers, x.m \in worker'[v].member, x = Copy("hand", {v}, x.m)
      PROVE  \/ x.m \in p.member /\ x = Copy("hand", {w}, x.m)
                                   /\ x.in = "hand" /\ x.by = {w}
             \/ v # w /\ x.m \in worker[v].member /\ x \in Live
  <2>1. worker'[v] = IF v = w THEN p ELSE worker[v]
    BY DEF JobsOK, Workplaces, Go
  <2>2. CASE v = w
    BY <1>1, <2>1, <2>2, CopyFields
  <2>3. CASE v # w
    BY <1>1, <2>1, <2>3, LiveIn
  <2> QED BY <2>2, <2>3
<1>2. \/ x.m \in delayed' /\ x = Copy("delayed", {}, x.m) /\ x.in = "delayed"
      \/ x.m \in DOMAIN immediate' /\ x = Copy("immediate", {}, x.m) /\ x.in = "immediate"
      \/ x.m \in local' /\ x = Copy("local", {}, x.m) /\ x.in = "local"
      \/ \E v \in Workers : x.m \in worker'[v].member /\ x = Copy("hand", {v}, x.m)
  BY LiveOutNext
<1> QED BY <1>1, <1>2

\* Only copies the step has made are new.
LEMMA LiveBound ==
    ASSUME JobsOK, NEW w \in Workers, NEW p, Go(w, p), NEW Y,
           \A n \in delayed' : n \in delayed \/ Copy("delayed", {}, n) \in Y,
           \A n \in DOMAIN immediate' :
               n \in DOMAIN immediate \/ Copy("immediate", {}, n) \in Y,
           \A n \in local' : n \in local \/ Copy("local", {}, n) \in Y,
           \A n \in p.member : Copy("hand", {w}, n) \in Y
    PROVE  Live' \subseteq Live \cup Y
<1> SUFFICES ASSUME NEW x \in Live' PROVE x \in Live \cup Y
  OBVIOUS
<1>1. CASE x.m \in delayed' /\ x = Copy("delayed", {}, x.m)
  BY <1>1, LiveIn
<1>2. CASE x.m \in DOMAIN immediate' /\ x = Copy("immediate", {}, x.m)
  BY <1>2, LiveIn
<1>3. CASE x.m \in local' /\ x = Copy("local", {}, x.m)
  BY <1>3, LiveIn
<1>4. CASE x.m \in p.member /\ x = Copy("hand", {w}, x.m)
  BY <1>4
<1> QED BY <1>1, <1>2, <1>3, <1>4, LiveAfter

\* Where there is no copy after a step.
LEMMA NotLive ==
    ASSUME NEW m
    PROVE  /\ m \notin delayed' => Copy("delayed", {}, m) \notin Live'
           /\ m \notin DOMAIN immediate' => Copy("immediate", {}, m) \notin Live'
           /\ m \notin local' => Copy("local", {}, m) \notin Live'
<1>1. ASSUME NEW x \in Live', x = Copy("delayed", {}, m) PROVE m \in delayed'
  <2>1. x.in = "delayed" /\ x.m = m
    BY <1>1, CopyFields
  <2> QED BY <2>1, LiveOutNext
<1>2. ASSUME NEW x \in Live', x = Copy("immediate", {}, m) PROVE m \in DOMAIN immediate'
  <2>1. x.in = "immediate" /\ x.m = m
    BY <1>2, CopyFields
  <2> QED BY <2>1, LiveOutNext
<1>3. ASSUME NEW x \in Live', x = Copy("local", {}, m) PROVE m \in local'
  <2>1. x.in = "local" /\ x.m = m
    BY <1>3, CopyFields
  <2> QED BY <2>1, LiveOutNext
<1> QED BY <1>1, <1>2, <1>3

LEMMA NotInHand ==
    ASSUME JobsOK, NEW w \in Workers, NEW p, Go(w, p), NEW m, m \notin p.member
    PROVE  Copy("hand", {w}, m) \notin Live'
<1> SUFFICES ASSUME NEW x \in Live', x = Copy("hand", {w}, m) PROVE m \in p.member
  OBVIOUS
<1>1. x.in = "hand" /\ x.by = {w} /\ x.m = m
  BY CopyFields
<1>2. PICK v \in Workers : x.m \in worker'[v].member /\ x = Copy("hand", {v}, x.m)
  BY <1>1, LiveOutNext
<1>3. {v} = {w}
  BY <1>1, <1>2, CopyFields
<1>4. v = w
  BY <1>3
<1>5. worker'[w] = p
  BY DEF JobsOK, Workplaces, Go
<1> QED BY <1>1, <1>2, <1>4, <1>5

\* A copy of a job replaced by another copy of it, or taken away.
LEMMA Replaced ==
    ASSUME Single, NEW x \in Live, NEW y, y.m.job = x.m.job,
           Live' \subseteq (Live \ {x}) \cup {y}
    PROVE  Single'
BY DEF Single

LEMMA Fewer ==
    ASSUME Single, Live' \subseteq Live
    PROVE  Single'
BY DEF Single

\* The lists of the workers after a step of one of them.
LEMMA SeenAfter ==
    ASSUME JobsOK, SeenDelayed, NEW w \in Workers, NEW p, Go(w, p),
           p.seen \subseteq worker[w].seen, p.seen \subseteq delayed',
           \A v \in Workers \ {w} : worker[v].seen \subseteq delayed'
    PROVE  SeenDelayed'
<1>1. \A v \in Workers : worker'[v] = IF v = w THEN p ELSE worker[v]
  BY DEF JobsOK, Workplaces, Go
<1>2. \A v \in Workers : worker'[v].seen \subseteq worker[v].seen
  BY <1>1
<1>3. \A v \in Workers : worker'[v].seen \subseteq delayed'
  BY <1>1
<1> QED BY <1>2, <1>3 DEF SeenDelayed

\* Copies that were there before, and the one that is new.
LEMMA NewerAfter ==
    ASSUME AllNewer, executed' = executed, NEW y, Newer(y.m), Live' \subseteq Live \cup {y}
    PROVE  AllNewer'
BY DEF AllNewer, Newer

\* The members in different hands, and in hands and queues, are different jobs.
LEMMA InHandOnly ==
    ASSUME JobsOK, Once, NEW w \in Workers, NEW m \in worker[w].member, NEW x \in Live,
           x.m.job = m.job
    PROVE  x = Copy("hand", {w}, m)
BY LiveIn, CopyFields DEF Once, Single

LEMMA HandIsNewer ==
    ASSUME Once, NEW w \in Workers, NEW m \in worker[w].member
    PROVE  Copy("hand", {w}, m) \in Live /\ Newer(m)
<1>1. PICK x \in Live : x = Copy("hand", {w}, m)
  BY LiveIn
<1>2. x.m = m
  BY <1>1, CopyFields
<1> QED BY <1>1, <1>2 DEF Once, AllNewer

\* A copy moves: it leaves where it was and is put elsewhere, as it is or with
\* other times or tries; what is executed is not touched.
LEMMA MoveOnce ==
    ASSUME Once, NEW x \in Live, NEW y, y.m.job = x.m.job,
           Live' \subseteq (Live \ {x}) \cup {y}, Newer(y.m),
           executed' = executed, doubled' = doubled, SeenDelayed'
    PROVE  Once'
BY Replaced, NewerAfter DEF Once

LEMMA DropOnce ==
    ASSUME Once, Live' \subseteq Live,
           executed' = executed, doubled' = doubled, SeenDelayed'
    PROVE  Once'
BY Fewer DEF Once, AllNewer, Newer

LEMMA ListOnce ==
    ASSUME JobsOK, Once, NEW w \in Workers, List(w), ~overlap'
    PROVE  Once'
<1>1. PICK seen : seen = {m \in delayed : Due(m)}
  OBVIOUS
<1>2. PICK p : p = [Polling EXCEPT !.at = AfterList(seen), !.seen = seen]
  OBVIOUS
<1>3. /\ Go(w, p) /\ p.member = {} /\ p.seen = seen /\ seen \subseteq delayed
      /\ UNCHANGED <<delayed, immediate, local, executed, doubled>>
      /\ \A v \in Workers \ {w} : worker[v].seen \cap seen = {}
  BY <1>1, <1>2 DEF List, queues, Polling
<1>4. Live' \subseteq Live
  BY <1>3, LiveAfter, LiveIn
<1>5. SeenDelayed'
  <2>1. \A v \in Workers : worker'[v] = IF v = w THEN p ELSE worker[v]
    BY <1>3 DEF JobsOK, Workplaces, Go
  <2>2. ASSUME NEW v \in Workers PROVE worker'[v].seen \subseteq delayed'
    BY <1>3, <2>1 DEF Once, SeenDelayed
  <2>3. ASSUME NEW v \in Workers, NEW u \in Workers, u # v
        PROVE  worker'[u].seen \cap worker'[v].seen = {}
    <3>1. CASE u = w
      BY <1>3, <2>1, <2>3, <3>1
    <3>2. CASE v = w
      BY <1>3, <2>1, <2>3, <3>2
    <3>3. CASE u # w /\ v # w
      BY <2>1, <2>3, <3>3 DEF Once, SeenDelayed
    <3> QED BY <3>1, <3>2, <3>3
  <2> QED BY <2>2, <2>3 DEF SeenDelayed
<1> QED BY <1>3, <1>4, <1>5, DropOnce

LEMMA RemoveOnce ==
    ASSUME JobsOK, Once, NEW w \in Workers, Remove(w)
    PROVE  Once'
<1>1. PICK m \in worker[w].seen :
          /\ delayed' = delayed \ {m}
          /\ Go(w, [at |-> "add", seen |-> worker[w].seen \ {m}, member |-> {m}])
  BY DEF Remove
<1>2. PICK p : p = [at |-> "add", seen |-> worker[w].seen \ {m}, member |-> {m}]
  OBVIOUS
<1>3. /\ Go(w, p) /\ p.member = {m} /\ p.seen = worker[w].seen \ {m}
      /\ UNCHANGED <<immediate, local, executed, doubled>>
  BY <1>1, <1>2 DEF Remove, history
<1>4. m \in delayed /\ Copy("delayed", {}, m) \in Live
  BY LiveIn DEF Once, SeenDelayed
<1>5. SeenDelayed'
  <2>1. p.seen \subseteq worker[w].seen /\ p.seen \subseteq delayed'
    BY <1>1, <1>3 DEF Once, SeenDelayed
  <2>2. \A v \in Workers \ {w} : worker[v].seen \subseteq delayed'
    BY <1>1 DEF Once, SeenDelayed
  <2> QED BY <1>3, <2>1, <2>2, SeenAfter DEF Once
<1>6. Live' \subseteq (Live \ {Copy("delayed", {}, m)}) \cup {Copy("hand", {w}, m)}
  <2> SUFFICES ASSUME NEW x \in Live'
               PROVE  x \in (Live \ {Copy("delayed", {}, m)}) \cup {Copy("hand", {w}, m)}
    OBVIOUS
  <2>1. x # Copy("delayed", {}, m)
    BY <1>1, NotLive
  <2>2. x \in Live \/ x = Copy("hand", {w}, m)
    BY <1>1, <1>3, LiveAfter, LiveIn
  <2> QED BY <2>1, <2>2
<1>7. Newer(m)
  BY <1>4, CopyFields DEF Once, AllNewer
<1> QED BY <1>3, <1>4, <1>5, <1>6, <1>7, CopyFields, MoveOnce

LEMMA AddOnce ==
    ASSUME JobsOK, Once, NEW w \in Workers, Add(w)
    PROVE  Once'
<1>1. PICK m : worker[w].member = {m} /\ m \in Members /\ AddImmediate(m)
  BY InHandIs DEF JobsOK, Add, At
<1>2. PICK p : p = AfterAdd(w)
  OBVIOUS
<1>3. /\ Go(w, p) /\ p.member = {} /\ p.seen = worker[w].seen
      /\ UNCHANGED <<delayed, local, executed, doubled>>
      /\ DOMAIN immediate' = DOMAIN immediate \cup {m}
  <2>1. worker[w] \in Places
    BY DEF JobsOK, Workplaces
  <2> QED BY <1>1, <1>2, <2>1 DEF Add, history, AfterAdd, AddImmediate, Places
<1>4. SeenDelayed'
  BY <1>3, SeenAfter DEF Once, SeenDelayed
<1>5. Copy("hand", {w}, m) \in Live /\ Newer(m)
  BY <1>1, HandIsNewer
<1>6. Live' \subseteq (Live \ {Copy("hand", {w}, m)}) \cup {Copy("immediate", {}, m)}
  <2> SUFFICES ASSUME NEW x \in Live'
               PROVE  x \in (Live \ {Copy("hand", {w}, m)}) \cup {Copy("immediate", {}, m)}
    OBVIOUS
  <2>1. x # Copy("hand", {w}, m)
    BY <1>3, NotInHand
  <2>2. x \in Live \/ x = Copy("immediate", {}, m)
    BY <1>3, LiveAfter, LiveIn
  <2> QED BY <2>1, <2>2
<1>7. PICK x \in Live : x = Copy("hand", {w}, m) /\ x.m = m
  BY <1>5, CopyFields
<1>8. PICK y : y = Copy("immediate", {}, m) /\ y.m = m
  BY CopyFields
<1>9. y.m.job = x.m.job /\ Newer(y.m) /\ Live' \subseteq (Live \ {x}) \cup {y}
  BY <1>5, <1>6, <1>7, <1>8
<1> QED BY <1>3, <1>4, <1>7, <1>9, MoveOnce

LEMMA PopOnce ==
    ASSUME JobsOK, Once, NEW w \in Workers, Pop(w)
    PROVE  Once'
<1>1. UNCHANGED <<delayed, local, executed, doubled>>
  BY DEF Pop, history
<1>2. CASE Go(w, Polling) /\ UNCHANGED immediate
  <2>1. Polling.member = {} /\ Polling.seen = {}
    BY DEF Polling
  <2>2. Live' \subseteq Live
    BY <1>1, <1>2, <2>1, LiveAfter, LiveIn
  <2>3. SeenDelayed'
    BY <1>1, <1>2, <2>1, SeenAfter DEF Once, SeenDelayed
  <2> QED BY <1>1, <2>2, <2>3, DropOnce
<1>3. ASSUME NEW m \in DOMAIN immediate, immediate' = LeftAfterPop(m),
             Go(w, [at |-> "execute", seen |-> {}, member |-> {m}])
      PROVE  Once'
  <2>1. PICK p : p = [at |-> "execute", seen |-> {}, member |-> {m}]
    OBVIOUS
  <2>2. Go(w, p) /\ p.member = {m} /\ p.seen = {}
    BY <1>3, <2>1
  <2>3. DOMAIN immediate' = DOMAIN immediate \ {m}
    BY <1>3 DEF LeftAfterPop, Restrict
  <2>4. Copy("immediate", {}, m) \in Live /\ Newer(m)
    BY LiveIn, CopyFields DEF Once, AllNewer
  <2>5. Live' \subseteq (Live \ {Copy("immediate", {}, m)}) \cup {Copy("hand", {w}, m)}
    <3> SUFFICES ASSUME NEW x \in Live'
                 PROVE  x \in (Live \ {Copy("immediate", {}, m)}) \cup {Copy("hand", {w}, m)}
      OBVIOUS
    <3>1. x # Copy("immediate", {}, m)
      BY <2>3, NotLive
    <3>2. x \in Live \/ x = Copy("hand", {w}, m)
      BY <1>1, <2>2, <2>3, LiveAfter, LiveIn
    <3> QED BY <3>1, <3>2
  <2>6. SeenDelayed'
    BY <1>1, <2>2, SeenAfter DEF Once, SeenDelayed
  <2> QED BY <1>1, <2>4, <2>5, <2>6, CopyFields, MoveOnce
<1> QED BY <1>2, <1>3 DEF Pop

LEMMA RetryOnce ==
    ASSUME JobsOK, Once, NEW w \in Workers, Retry(w)
    PROVE  Once'
<1>1. PICK m : m = Have(w) /\ worker[w].member = {m} /\ m \in Members
  BY InHandIs DEF JobsOK, Retry, At
<1>2. PICK n : n = [m EXCEPT !.due = In(m.tries)]
  OBVIOUS
<1>3. n.job = m.job /\ n.kind = m.kind /\ n.tries = m.tries
  BY <1>1, <1>2 DEF Members
<1>4. /\ Go(w, Polling) /\ Polling.member = {} /\ Polling.seen = {}
      /\ UNCHANGED <<immediate, local, executed, doubled>>
      /\ delayed \subseteq delayed' /\ delayed' \subseteq delayed \cup {n}
  BY <1>1, <1>2 DEF Retry, history, Polling
<1>5. SeenDelayed'
  BY <1>4, SeenAfter DEF Once, SeenDelayed
<1>6. Copy("hand", {w}, m) \in Live /\ Newer(m)
  BY <1>1, HandIsNewer
<1>7. Newer(n)
  BY <1>3, <1>6 DEF Newer
<1>8. Live' \subseteq (Live \ {Copy("hand", {w}, m)}) \cup {Copy("delayed", {}, n)}
  <2> SUFFICES ASSUME NEW x \in Live'
               PROVE  x \in (Live \ {Copy("hand", {w}, m)}) \cup {Copy("delayed", {}, n)}
    OBVIOUS
  <2>1. x # Copy("hand", {w}, m)
    BY <1>4, NotInHand
  <2>2. x \in Live \/ x = Copy("delayed", {}, n)
    <3>1. CASE x.m \in delayed' /\ x = Copy("delayed", {}, x.m)
      BY <1>4, <3>1, LiveIn
    <3>2. CASE ~(x.m \in delayed' /\ x = Copy("delayed", {}, x.m))
      BY <1>4, <3>2, LiveAfter, LiveIn
    <3> QED BY <3>1, <3>2
  <2> QED BY <2>1, <2>2
<1>9. PICK x \in Live : x = Copy("hand", {w}, m) /\ x.m = m
  BY <1>6, CopyFields
<1>10. PICK y : y = Copy("delayed", {}, n) /\ y.m = n
  BY CopyFields
<1> QED BY <1>3, <1>4, <1>5, <1>7, <1>8, <1>9, <1>10, MoveOnce

\* The execution of a member: its copy gives way to at most one other, of a
\* later attempt or of the warm-up that a validation asks for.
Later(n, m) == \/ n.kind = m.kind /\ m.tries < n.tries
               \/ m.kind = "validation" /\ n.kind = "warmup"

LEMMA ExecuteMove ==
    ASSUME JobsOK, Once, NEW w \in Workers, NEW m \in worker[w].member, NEW Y,
           \A y \in Y : y.m \in Members /\ y.m.job = m.job /\ Later(y.m, m),
           \A y, z \in Y : y = z,
           Live' \subseteq (Live \ {Copy("hand", {w}, m)}) \cup Y,
           executed' = executed \cup {m}, doubled' = (doubled \/ m \in executed),
           SeenDelayed'
    PROVE  Once'
<1>1. PICK c \in Live : c = Copy("hand", {w}, m) /\ c.m = m /\ Newer(m) /\ m \in Members
  <2>1. Copy("hand", {w}, m) \in Live /\ Newer(m)
    BY HandIsNewer
  <2>2. \A c \in Live : c = Copy("hand", {w}, m) => c.m = m
    BY CopyFields
  <2> QED BY <2>1, <2>2, LiveFit
<1>2. \A x \in Live \ {c} : x.m.job # m.job
  BY <1>1 DEF Once, Single
<1>3. Single'
  <2> SUFFICES ASSUME NEW x \in Live', NEW y \in Live', x.m.job = y.m.job PROVE x = y
    BY DEF Single
  <2>1. CASE x \in Live \ {c} /\ y \in Live \ {c}
    BY <2>1 DEF Once, Single
  <2>2. CASE x \in Y /\ y \in Y
    BY <2>2
  <2>3. ~(x \in Live \ {c} /\ y \in Y) /\ ~(y \in Live \ {c} /\ x \in Y)
    BY <1>2
  <2> QED BY <1>1, <2>1, <2>2, <2>3
<1>4. ASSUME NEW x \in Live' PROVE Newer(x.m)'
  <2>1. CASE x \in Live \ {c}
    <3>1. Newer(x.m) /\ x.m.job # m.job
      BY <1>2, <2>1 DEF Once, AllNewer
    <3> QED BY <3>1 DEF Newer
  <2>2. CASE x \in Y
    <3> SUFFICES ASSUME NEW e \in executed', e.job = x.m.job
                 PROVE  \/ e.kind = x.m.kind /\ e.tries < x.m.tries
                        \/ e.kind = "validation" /\ x.m.kind = "warmup"
      BY DEF Newer
    <3>1. Later(x.m, m) /\ x.m.job = m.job /\ x.m \in Members
      BY <2>2
    <3>2. CASE e = m
      BY <3>1, <3>2 DEF Later
    <3>3. CASE e \in executed
      <4>1. \/ e.kind = m.kind /\ e.tries < m.tries
            \/ e.kind = "validation" /\ m.kind = "warmup"
        BY <1>1, <3>1, <3>3 DEF Newer
      <4>2. e \in Members
        BY <3>3 DEF JobsOK, Plain
      <4>3. e.tries \in Nat /\ m.tries \in Nat /\ x.m.tries \in Nat
        BY <1>1, <3>1, <4>2, MemberFields
      <4> QED BY <3>1, <4>1, <4>3 DEF Later
    <3> QED BY <3>2, <3>3
  <2> QED BY <1>1, <2>1, <2>2
<1>5. m \notin executed
  <2>1. m.tries \in Nat
    BY <1>1, MemberFields
  <2> QED BY <1>1, <2>1 DEF Newer
<1> QED BY <1>3, <1>4, <1>5 DEF Once, AllNewer

\* The router adds one copy.
LEMMA RouteAdds ==
    ASSUME NEW m \in Members, Route(m)
    PROVE  \E y : /\ y.m = m
                  /\ \A n \in delayed' : n \in delayed \/ y = Copy("delayed", {}, n)
                  /\ \A n \in DOMAIN immediate' :
                         n \in DOMAIN immediate \/ y = Copy("immediate", {}, n)
                  /\ \A n \in local' : n \in local \/ y = Copy("local", {}, n)
                  /\ delayed \subseteq delayed'
<1>1. CASE EnqueueToLocal(m)
  <2>1. /\ delayed' = delayed /\ immediate' = immediate /\ local' = local \cup {m}
        /\ Copy("local", {}, m).m = m
    BY <1>1, CopyFields DEF EnqueueToLocal
  <2> QED BY <2>1
<1>2. CASE EnqueueToRedis(m) /\ m.due > now
  <2>1. /\ delayed' = delayed \cup {m} /\ immediate' = immediate /\ local' = local
        /\ Copy("delayed", {}, m).m = m
    BY <1>2, CopyFields DEF EnqueueToRedis
  <2> QED BY <2>1
<1>3. CASE EnqueueToRedis(m) /\ ~(m.due > now)
  <2>1. /\ delayed' = delayed /\ DOMAIN immediate' = DOMAIN immediate \cup {m}
        /\ local' = local /\ Copy("immediate", {}, m).m = m
    BY <1>3, CopyFields DEF EnqueueToRedis, AddImmediate
  <2> QED BY <2>1
<1> QED BY <1>1, <1>2, <1>3 DEF Route

LEMMA ExecuteOnce ==
    ASSUME JobsOK, Once, NEW w \in Workers, Execute(w)
    PROVE  Once'
<1>1. PICK m : m = Have(w) /\ worker[w].member = {m} /\ m \in Members /\ Ripe(m)
  BY InHandIs DEF JobsOK, Execute, At
<1>2. executed' = executed \cup {m} /\ doubled' = (doubled \/ m \in executed)
  BY <1>1 DEF Execute
<1>3. CASE Handle(m) /\ Go(w, Polling) /\ UNCHANGED queues
  <2>1. Polling.member = {} /\ Polling.seen = {}
    BY DEF Polling
  <2>2. SeenDelayed'
    BY <1>3, <2>1, SeenAfter DEF Once, SeenDelayed, queues
  <2>3. PICK Y : Y = {}
    OBVIOUS
  <2>4. Live' \subseteq Live \cup Y
    BY <1>3, <2>1, LiveBound DEF queues
  <2>5. Live' \subseteq (Live \ {Copy("hand", {w}, m)}) \cup Y
    BY <1>3, <2>1, <2>4, NotInHand
  <2> QED BY <1>1, <1>2, <2>2, <2>3, <2>5, ExecuteMove
<1>4. CASE m.kind = "validation" /\ Route(Fresh(m.job, "warmup", 0)) /\ Go(w, Polling)
  <2>1. Polling.member = {} /\ Polling.seen = {}
    BY DEF Polling
  <2>2. PICK f \in Members : f.job = m.job /\ f.kind = "warmup" /\ Route(f)
    <3>1. now \in 0..MaxTime /\ m.job \in Jobs
      BY <1>1, MemberFields DEF JobsOK, Plain
    <3>2. Fresh(m.job, "warmup", 0).kind = "warmup"
      BY DEF Fresh
    <3> QED BY <1>4, <3>1, <3>2, FreshFits DEF Kinds
  <2>3. PICK y : /\ y.m = f
                 /\ \A n \in delayed' : n \in delayed \/ y = Copy("delayed", {}, n)
                 /\ \A n \in DOMAIN immediate' :
                        n \in DOMAIN immediate \/ y = Copy("immediate", {}, n)
                 /\ \A n \in local' : n \in local \/ y = Copy("local", {}, n)
                 /\ delayed \subseteq delayed'
    BY <2>2, RouteAdds
  <2>4. SeenDelayed'
    BY <1>4, <2>1, <2>3, SeenAfter DEF Once, SeenDelayed
  <2>5. PICK Y : Y = {y}
    OBVIOUS
  <2>6. Live' \subseteq Live \cup Y
    BY <1>4, <2>1, <2>3, <2>5, LiveBound
  <2>7. Live' \subseteq (Live \ {Copy("hand", {w}, m)}) \cup Y
    BY <1>4, <2>1, <2>6, NotInHand
  <2>8. \A z \in Y : z.m \in Members /\ z.m.job = m.job /\ Later(z.m, m)
    BY <1>4, <2>2, <2>3, <2>5 DEF Later
  <2>9. m \in worker[w].member /\ \A x, z \in Y : x = z
    BY <1>1, <2>5
  <2> QED BY <1>2, <2>4, <2>7, <2>8, <2>9, ExecuteMove
<1>5. CASE /\ Go(w, [worker[w] EXCEPT !.at = "retry", !.member = {Tried(m)}])
           /\ UNCHANGED queues
  <2>1. PICK p : p = [worker[w] EXCEPT !.at = "retry", !.member = {Tried(m)}]
    OBVIOUS
  <2>2. /\ p.member = {Tried(m)} /\ p.seen = worker[w].seen /\ Go(w, p)
    <3>1. worker[w] \in Places
      BY DEF JobsOK, Workplaces
    <3> QED BY <1>5, <2>1, <3>1 DEF Places
  <2>3. /\ Tried(m) \in Members /\ Tried(m).job = m.job /\ Tried(m).kind = m.kind
        /\ m.tries < Tried(m).tries
    <3>1. /\ Tried(m) = [job |-> m.job, kind |-> m.kind, tries |-> m.tries + 1, due |-> m.due]
          /\ m.tries < MaxTries
      BY <1>1 DEF Tried, Members, Ripe, Queued
    <3> QED BY <1>1, <3>1, MemberFields, Numbers DEF Members
  <2>4. SeenDelayed'
    BY <1>5, <2>2, SeenAfter DEF Once, SeenDelayed, queues
  <2>5. PICK y : y = Copy("hand", {w}, Tried(m)) /\ y.m = Tried(m)
    BY CopyFields
  <2>6. PICK Y : Y = {y}
    OBVIOUS
  <2>7. m # Tried(m)
    BY <1>1, <2>3, MemberFields
  <2>8. Live' \subseteq Live \cup Y
    BY <1>5, <2>2, <2>5, <2>6, LiveBound DEF queues
  <2>9. Live' \subseteq (Live \ {Copy("hand", {w}, m)}) \cup Y
    BY <2>2, <2>7, <2>8, NotInHand
  <2>10. \A z \in Y : z.m \in Members /\ z.m.job = m.job /\ Later(z.m, m)
    BY <2>3, <2>5, <2>6 DEF Later
  <2> QED BY <1>1, <1>2, <2>4, <2>6, <2>9, <2>10, ExecuteMove
<1> QED BY <1>1, <1>3, <1>4, <1>5 DEF Execute, Handle

LEMMA EnqueueOnce ==
    ASSUME JobsOK, Once, \A e \in executed : e.job \in enqueued,
           NEW j \in Jobs, Enqueue(j)
    PROVE  Once'
<1>1. /\ j \notin enqueued /\ UNCHANGED <<worker, executed, doubled>>
  BY DEF Enqueue
<1>2. PICK m \in Members : m.job = j /\ Route(m)
  <2>1. now \in 0..MaxTime /\ Kind[j] \in Kinds /\ Delay[j] \in Nat
    BY Numbers DEF JobsOK, Plain
  <2>2. (IF Kind[j] = "scheduled" THEN Delay[j] ELSE 0) \in Nat
    BY <2>1
  <2> QED BY <2>1, <2>2, FreshFits DEF Enqueue
<1>3. PICK y : /\ y.m = m
               /\ \A n \in delayed' : n \in delayed \/ y = Copy("delayed", {}, n)
               /\ \A n \in DOMAIN immediate' :
                      n \in DOMAIN immediate \/ y = Copy("immediate", {}, n)
               /\ \A n \in local' : n \in local \/ y = Copy("local", {}, n)
               /\ delayed \subseteq delayed'
  BY <1>2, RouteAdds
<1>4. ASSUME NEW x \in Live' PROVE x \in Live \/ x = y
  <2>1. CASE x.m \in delayed' /\ x = Copy("delayed", {}, x.m)
    BY <1>3, <2>1, LiveIn
  <2>2. CASE x.m \in DOMAIN immediate' /\ x = Copy("immediate", {}, x.m)
    BY <1>3, <2>2, LiveIn
  <2>3. CASE x.m \in local' /\ x = Copy("local", {}, x.m)
    BY <1>3, <2>3, LiveIn
  <2>4. ASSUME NEW w \in Workers, x.m \in worker[w].member, x = Copy("hand", {w}, x.m)
        PROVE  x \in Live
    BY <2>4, LiveIn
  <2> QED BY <1>1, <2>1, <2>2, <2>3, <2>4, LiveOutNext
<1>5. \A x \in Live : x.m.job # j
  BY <1>1, LiveFit DEF Fit
<1>6. Single'
  <2> SUFFICES ASSUME NEW x \in Live', NEW z \in Live', x.m.job = z.m.job PROVE x = z
    BY DEF Single
  <2> QED BY <1>2, <1>3, <1>4, <1>5 DEF Once, Single
<1>7. Newer(m)
  BY <1>1, <1>2 DEF Newer
<1>8. AllNewer'
  <2>1. Live' \subseteq Live \cup {y} /\ Newer(y.m)
    BY <1>3, <1>4, <1>7
  <2> QED BY <1>1, <2>1, NewerAfter DEF Once
<1>9. SeenDelayed'
  BY <1>1, <1>3 DEF Once, SeenDelayed
<1> QED BY <1>1, <1>6, <1>8, <1>9 DEF Once

LEMMA RestOnce ==
    ASSUME JobsOK, Once,
           \/ RunLocally \/ Stop \/ Tick \/ UNCHANGED vars
           \/ \E w \in Workers : Leave(w)
    PROVE  Once'
<1>1. CASE RunLocally \/ Stop \/ Tick \/ UNCHANGED vars
  <2>1. /\ UNCHANGED <<worker, delayed, immediate, executed, doubled>>
        /\ local' \subseteq local
    BY <1>1 DEF RunLocally, Stop, Tick, vars, queues, history
  <2>2. Live' \subseteq Live
    <3> SUFFICES ASSUME NEW x \in Live' PROVE x \in Live
      OBVIOUS
    <3>1. ASSUME NEW w \in Workers, x.m \in worker[w].member, x = Copy("hand", {w}, x.m)
          PROVE  x \in Live
      BY <3>1, LiveIn
    <3> QED BY <2>1, <3>1, LiveOutNext, LiveIn
  <2>3. SeenDelayed'
    BY <2>1 DEF Once, SeenDelayed
  <2> QED BY <2>1, <2>2, <2>3, DropOnce
<1>2. ASSUME NEW w \in Workers, Leave(w) PROVE Once'
  <2>1. PICK p : p = [Polling EXCEPT !.at = "stopped"]
    OBVIOUS
  <2>2. /\ Go(w, p) /\ p.member = {} /\ p.seen = {}
        /\ UNCHANGED <<delayed, immediate, local, executed, doubled>>
    BY <1>2, <2>1 DEF Leave, Polling, queues, history
  <2>3. Live' \subseteq Live
    <3>1. PICK Y : Y = {}
      OBVIOUS
    <3>2. Live' \subseteq Live \cup Y
      BY <2>2, LiveBound
    <3> QED BY <3>1, <3>2
  <2>4. SeenDelayed'
    BY <2>2, SeenAfter DEF Once, SeenDelayed
  <2> QED BY <2>2, <2>3, <2>4, DropOnce
<1> QED BY <1>1, <1>2

\* A step that ends in calm began in calm, and was no fault.
LEMMA CalmBefore ==
    ASSUME JobsOK, [Next]_vars, Calm'
    PROVE  Calm /\ \A w \in Workers : ~CommandFails(w) /\ ~Crash(w)
<1>1. faults \in Nat
  BY Numbers DEF JobsOK, Plain
<1>2. \A w \in Workers : CommandFails(w) \/ Crash(w) => faults' = faults + 1
  BY DEF CommandFails, Crash
<1>3. faults' = faults \/ faults' = faults + 1
  BY DEF Next, Poll, Enqueue, RunLocally, List, Remove, Add, Pop, Execute, Retry, CommandFails,
         Crash, Leave, Stop, Tick, vars, history
<1>4. ASSUME overlap PROVE overlap'
  BY <1>4, Zenon
     DEF Next, Poll, Enqueue, RunLocally, List, Remove, Add, Pop, Execute, Retry, CommandFails,
         Crash, Leave, Stop, Tick, vars, history
<1> QED BY <1>1, <1>2, <1>3, <1>4 DEF Calm

\* What is executed was accepted.
LEMMA ExecutedWasAccepted ==
    ASSUME JobsOK, [Next]_vars, \A e \in executed : e.job \in enqueued
    PROVE  (\A e \in executed : e.job \in enqueued)'
<1>1. ASSUME NEW w \in Workers, Execute(w)
      PROVE  (\A e \in executed : e.job \in enqueued)'
  <2>1. Fit(Have(w))
    BY <1>1, InHandIs DEF JobsOK, Execute, At
  <2> QED BY <1>1, <2>1 DEF Execute, Fit
<1>2. CASE \A w \in Workers : ~Execute(w)
  <2>1. executed' = executed /\ enqueued \subseteq enqueued'
    BY <1>2 DEF Next, Poll, Enqueue, RunLocally, List, Remove, Add, Pop, Retry, CommandFails,
                Crash, Leave, Stop, Tick, vars, history
  <2> QED BY <2>1
<1> QED BY <1>1, <1>2

LEMMA OnceStep == JobsOK /\ OnceInv /\ [Next]_vars => OnceInv'
<1> SUFFICES ASSUME JobsOK, OnceInv, [Next]_vars PROVE OnceInv'
  OBVIOUS
<1>1. (\A e \in executed : e.job \in enqueued)'
  BY ExecutedWasAccepted DEF OnceInv
<1>2. ASSUME Calm' PROVE Once'
  <2>1. Once /\ \A w \in Workers : ~CommandFails(w) /\ ~Crash(w)
    BY <1>2, CalmBefore DEF OnceInv
  <2> QED
    BY <1>2, <2>1, EnqueueOnce, ListOnce, RemoveOnce, AddOnce, PopOnce, ExecuteOnce,
       RetryOnce, RestOnce DEF Next, Poll, OnceInv, Calm
<1> QED BY <1>1, <1>2 DEF OnceInv

LEMMA OnceInit == Init => OnceInv
<1> SUFFICES ASSUME Init PROVE OnceInv
  OBVIOUS
<1>1. \A w \in Workers : worker[w].seen = {} /\ worker[w].member = {}
  BY DEF Init, Polling
<1>2. Live = {}
  <2>1. \A x \in Live : FALSE
    BY <1>1, LiveOut DEF Init
  <2> QED BY <2>1
<1> QED BY <1>1, <1>2 DEF Init, OnceInv, Once, Single, SeenDelayed, AllNewer

\* Without a fault the same attempt at a job is made twice only if two workers
\* had it listed at the same time (moveDelayedJobs looks at no result of its
\* ZREM): two copies of a job never come from retries, from validations that
\* ask for a warm-up, or from the router's two destinations.
THEOREM DoubleNeedsOverlapHolds == Spec => []DoubleNeedsOverlap
<1>1. JobsOK /\ OnceInv => DoubleNeedsOverlap
  BY Numbers DEF JobsOK, Plain, OnceInv, Once, Calm, DoubleNeedsOverlap
<1>2. Spec => []OnceInv
  BY JobsInvariant, OnceInit, OnceStep, PTL DEF Spec
<1> QED BY JobsInvariant, <1>1, <1>2, PTL
=============================================================================
