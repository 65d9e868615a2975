------------------------------ MODULE TaskCache ------------------------------
(***************************************************************************)
(* Cached reads and writes of one task row: CachedTaskService              *)
(* (backend/internal/services/cached_tasks.go) over the two-level cache    *)
(* (backend/internal/cache/multilevel.go), whose first level is private to *)
(* a backend replica and whose second level, Redis, is shared by all of    *)
(* them.                                                                   *)
(*                                                                         *)
(* No lock spans two of the steps of a request: a request is a program of  *)
(* single cache or database operations ("prog"), and the programs of       *)
(* concurrent requests interleave.  Data is abstracted to the version of   *)
(* the row it shows.  Whether an operation on Redis takes place (breaker   *)
(* admits it and Redis executes it) or not (breaker open, Redis error) is  *)
(* left open here; CircuitBreaker.tla and MultiLevelCache.tla say when.    *)
(***************************************************************************)
EXTENDS Integers, Sequences

CONSTANTS
    Keys,        \* the cache keys that are modelled, a subset of CacheKeys
    Replicas,    \* backend processes, each with an L1
    Clients,     \* concurrent requests
    Home,        \* Home[c]: the replica that serves client c
    Ttl,         \* Ttl[k]: time to live given by the service for key k
    PromoteTtl,  \* time to live of an L1 entry filled from L2
    MaxOp,       \* clock ticks a request may last (database, Redis time-outs)
    MaxVersion   \* bound on the number of writes

\* "task": task:<id>; "page": tasks_paginated:...; "all": all_tasks;
\* "user": user_tasks:<user id>.
CacheKeys == {"task", "page", "all", "user"}

ASSUME TaskCacheConstants ==
    /\ Keys \subseteq CacheKeys
    /\ Home \in [Clients -> Replicas]
    /\ Ttl \in [CacheKeys -> Nat \ {0}]
    /\ PromoteTtl \in Nat \ {0}
    /\ MaxOp \in Nat
    /\ MaxVersion \in Nat \ {0}

VARIABLES
    row,        \* the database: [version, live]
    l1,         \* l1[r][k]: MemoryCache of replica r
    l2,         \* l2[k]: Redis
    prog,       \* prog[c]: the operations client c still has to perform
    writing,    \* the clients whose request is a write
    dest,       \* dest[c]: the version client c has in hand, 0 when idle
    age,        \* age[c]: ticks since the request of client c began
    staleFor,   \* history: staleFor[v], ticks since version v was superseded
    excused     \* history: something has happened that may leave a cache stale

vars == <<row, l1, l2, prog, writing, dest, age, staleFor, excused>>

Versions == 0..MaxVersion

\* A cache entry shows a version of the row and expires in "left" ticks.
NoEntry == [version |-> 0, left |-> 0]
Entry(v, ttl) == [version |-> v, left |-> ttl]
Live(e) == e.left > 0

LongestTtl == CHOOSE n \in {Ttl[k] : k \in CacheKeys} \cup {PromoteTtl} :
                 \A k \in CacheKeys : Ttl[k] <= n /\ PromoteTtl <= n

\* A stale value is read from the database just before it is superseded,
\* reaches Redis up to MaxOp ticks later, is read there just before its life
\* of Ttl[k] ticks ends (so Ttl[k] - 1 ticks later), reaches an L1 up to MaxOp
\* ticks after that and is last seen when its life of PromoteTtl ticks ends.
StaleBound(k) == (MaxOp + Ttl[k] - 1) + (MaxOp + PromoteTtl - 1)
StaleCap == 2 * MaxOp + LongestTtl + PromoteTtl

Instr == [do : {"l2get", "promote", "dbread", "l1set", "l2set",
                "l1del", "l2del", "keys", "del"}, key : Keys]
Entries == [version : Versions, left : 0..LongestTtl]

TypeOK ==
    /\ row \in [version : Versions, live : BOOLEAN]
    /\ l1 \in [Replicas -> [Keys -> Entries]]
    /\ l2 \in [Keys -> Entries]
    /\ prog \in [Clients -> Seq(Instr)]
    /\ writing \subseteq Clients
    /\ dest \in [Clients -> Versions]
    /\ age \in [Clients -> 0..MaxOp]
    /\ staleFor \in [Versions -> 0..StaleCap]
    /\ excused \in BOOLEAN

Init ==
    /\ row = [version |-> 0, live |-> FALSE]
    /\ l1 = [r \in Replicas |-> [k \in Keys |-> NoEntry]]
    /\ l2 = [k \in Keys |-> NoEntry]
    /\ prog = [c \in Clients |-> <<>>]
    /\ writing = {}
    /\ dest = [c \in Clients |-> 0]
    /\ age = [c \in Clients |-> 0]
    /\ staleFor = [v \in Versions |-> 0]
    /\ excused = FALSE
-----------------------------------------------------------------------------
\* Programs.

Idle(c) == prog[c] = <<>>
AllIdle == \A c \in Clients : Idle(c)

Do(what, k) == [do |-> what, key |-> k]

\* Steps on a key that is not modelled are left out of a program.
IfModelled(k, p) == IF k \in Keys THEN p ELSE <<>>

\* MultiLevelCache.Set: L1, then Redis.
Fill(k) == IfModelled(k, <<Do("l1set", k), Do("l2set", k)>>)

\* MultiLevelCache.Delete: L1, then Redis.
Drop(k) == IfModelled(k, <<Do("l1del", k), Do("l2del", k)>>)

\* MultiLevelCache.DeletePattern of a pattern that matches key k: L1, then
\* Redis, where KEYS and DEL are two commands.
DropMatching(k) ==
    IfModelled(k, <<Do("l1del", k), Do("keys", k), Do("del", k)>>)

(* Mutant of DropLists: the pages are forgotten. *)
DropListsButPages == Drop("all")

\* What every write does to the lists.  The pattern "user_tasks:<id>:*"
\* matches no key at all, in particular not "user_tasks:<id>", the key
\* GetTasksByUser fills; so its DeletePattern does nothing.
DropLists == DropMatching("page") \o Drop("all")

CreateProgram == Fill("task") \o DropLists
ChangeProgram == Drop("task") \o DropLists

\* A read after a miss in L1.
AfterL1Miss(k) == <<Do("l2get", k)>>
AfterL2Miss(k) == <<Do("dbread", k)>>

Become(c, p) == prog' = [prog EXCEPT ![c] = p]
Advance(c) == Become(c, Tail(prog[c]))
At(c, what) == ~Idle(c) /\ Head(prog[c]).do = what
KeyOf(c) == Head(prog[c]).key
-----------------------------------------------------------------------------
\* Requests.

\* GetTaskByID, GetTasks, GetTasksPaginated, GetTasksByUser look into L1
\* first.  A hit ends the request at once and changes nothing; this is a miss.
StartRead(c, k) ==
    /\ Idle(c)
    /\ ~Live(l1[Home[c]][k])
    /\ Become(c, AfterL1Miss(k))
    /\ excused' = (excused \/ writing # {})
    /\ UNCHANGED <<row, l1, l2, writing, dest, age, staleFor>>

\* The database has executed a write of client c, which goes on with the
\* cache; a failed write ends the request and changes nothing.
StartWrite(c, newRow, program) ==
    /\ Idle(c)
    /\ row' = newRow
    /\ Become(c, program)
    /\ IF program = <<>>
       THEN UNCHANGED <<writing, dest>>
       ELSE /\ writing' = writing \cup {c}
            /\ dest' = [dest EXCEPT ![c] = newRow.version]
    /\ excused' = \/ excused
                  \/ ~AllIdle
                  \/ \E r \in Replicas \ {Home[c]}, k \in Keys : Live(l1[r][k])
    /\ UNCHANGED <<l1, l2, age, staleFor>>

Changed(live) == [version |-> row.version + 1, live |-> live]

\* CreateTask caches the task it was given and drops the lists.
CreateTask(c) ==
    /\ row.version = 0
    /\ StartWrite(c, Changed(TRUE), CreateProgram)

\* UpdateTask and DeleteTask drop the task and the lists, also when the row
\* is gone already (no rows affected is not an error).
UpdateTask(c) ==
    \/ /\ row.live /\ row.version < MaxVersion
       /\ StartWrite(c, Changed(TRUE), ChangeProgram)
    \/ ~row.live /\ StartWrite(c, row, ChangeProgram)

DeleteTask(c) ==
    \/ /\ row.live /\ row.version < MaxVersion
       /\ StartWrite(c, Changed(FALSE), ChangeProgram)
    \/ ~row.live /\ StartWrite(c, row, ChangeProgram)
-----------------------------------------------------------------------------
\* Steps of a request.

\* A request that has done its last step is over.
Finish(c) ==
    IF Idle(c)'
    THEN /\ age' = [age EXCEPT ![c] = 0]
         /\ dest' = [dest EXCEPT ![c] = 0]
         /\ writing' = writing \ {c}
    ELSE UNCHANGED <<age, dest, writing>>

RedisSteps == {"l2get", "l2set", "l2del", "keys", "del"}

\* The breaker is open or Redis fails.  Get answers with a miss, Set and
\* Delete are given up, a pattern whose KEYS fails deletes nothing.
RedisFails(c) ==
    /\ ~Idle(c) /\ Head(prog[c]).do \in RedisSteps
    /\ Become(c, IF At(c, "l2get") THEN AfterL2Miss(KeyOf(c))
                 ELSE IF At(c, "keys") THEN Tail(Tail(prog[c]))
                 ELSE Tail(prog[c]))
    /\ excused' = (excused \/ Head(prog[c]).do \in {"l2del", "keys", "del"})
    /\ Finish(c)
    /\ UNCHANGED <<row, l1, l2, staleFor>>

\* MultiLevelCache.Get asks Redis.
GetFromRedis(c) ==
    /\ At(c, "l2get")
    /\ IF Live(l2[KeyOf(c)])
       THEN /\ dest' = [dest EXCEPT ![c] = l2[KeyOf(c)].version]
            /\ Become(c, <<Do("promote", KeyOf(c))>>)
       ELSE /\ Become(c, AfterL2Miss(KeyOf(c)))
            /\ UNCHANGED dest
    /\ UNCHANGED <<row, l1, l2, writing, age, staleFor, excused>>

(* Mutant of LifeOfPromoted: the time to live the service gives. *)
LifeOfPromotedFull(k) == Ttl[k]

LifeOfPromoted(k) == PromoteTtl

\* ... and copies a hit into L1.
Promote(c) ==
    /\ At(c, "promote")
    /\ l1' = [l1 EXCEPT ![Home[c]][KeyOf(c)] = Entry(dest[c], LifeOfPromoted(KeyOf(c)))]
    /\ Advance(c)
    /\ Finish(c)
    /\ UNCHANGED <<row, l2, staleFor, excused>>

\* The service reads the database.  A task that is not there, or an error,
\* ends the request; nothing is cached.
ReadDatabase(c) ==
    /\ At(c, "dbread")
    /\ KeyOf(c) = "task" => row.live
    /\ dest' = [dest EXCEPT ![c] = row.version]
    /\ Become(c, Fill(KeyOf(c)))
    /\ UNCHANGED <<row, l1, l2, writing, age, staleFor, excused>>

ReadNothing(c) ==
    /\ At(c, "dbread")
    /\ Advance(c)
    /\ Finish(c)
    /\ UNCHANGED <<row, l1, l2, staleFor, excused>>

SetL1(c) ==
    /\ At(c, "l1set")
    /\ l1' = [l1 EXCEPT ![Home[c]][KeyOf(c)] = Entry(dest[c], Ttl[KeyOf(c)])]
    /\ Advance(c)
    /\ Finish(c)
    /\ UNCHANGED <<row, l2, staleFor, excused>>

SetRedis(c) ==
    /\ At(c, "l2set")
    /\ l2' = [l2 EXCEPT ![KeyOf(c)] = Entry(dest[c], Ttl[KeyOf(c)])]
    /\ Advance(c)
    /\ Finish(c)
    /\ UNCHANGED <<row, l1, staleFor, excused>>

DeleteL1(c) ==
    /\ At(c, "l1del")
    /\ l1' = [l1 EXCEPT ![Home[c]][KeyOf(c)] = NoEntry]
    /\ Advance(c)
    /\ Finish(c)
    /\ UNCHANGED <<row, l2, staleFor, excused>>

DeleteRedis(c) ==
    /\ At(c, "l2del") \/ At(c, "del")
    /\ l2' = [l2 EXCEPT ![KeyOf(c)] = NoEntry]
    /\ Advance(c)
    /\ Finish(c)
    /\ UNCHANGED <<row, l1, staleFor, excused>>

\* KEYS lists what DEL will be given; DEL is not sent for an empty list.
ListRedisKeys(c) ==
    /\ At(c, "keys")
    /\ Become(c, IF Live(l2[KeyOf(c)]) THEN Tail(prog[c]) ELSE Tail(Tail(prog[c])))
    /\ Finish(c)
    /\ UNCHANGED <<row, l1, l2, staleFor, excused>>

\* An entry one tick later; an expired one is dropped (lazily by the next
\* MemoryCache.Get or by its cleanup loop, and by Redis).
Aged(e) == IF e.left > 1 THEN [e EXCEPT !.left = @ - 1] ELSE NoEntry

\* The clock.  No request outlives MaxOp ticks.
Tick ==
    /\ \A c \in Clients : Idle(c) \/ age[c] < MaxOp
    /\ age' = [c \in Clients |-> IF Idle(c) THEN 0 ELSE age[c] + 1]
    /\ l1' = [r \in Replicas |-> [k \in Keys |-> Aged(l1[r][k])]]
    /\ l2' = [k \in Keys |-> Aged(l2[k])]
    /\ staleFor' = [v \in Versions |->
                      IF v < row.version /\ staleFor[v] < StaleCap
                      THEN staleFor[v] + 1 ELSE staleFor[v]]
    /\ UNCHANGED <<row, prog, writing, dest, excused>>

Steps(c) ==
    \/ RedisFails(c) \/ GetFromRedis(c) \/ Promote(c)
    \/ ReadDatabase(c) \/ ReadNothing(c)
    \/ SetL1(c) \/ SetRedis(c) \/ DeleteL1(c) \/ DeleteRedis(c)
    \/ ListRedisKeys(c)

\* The handlers: a well-formed request is handed to the service, any other
\* ends at once.  (TaskHandler.GetTasksByUser reads the database itself; the
\* service's method of this name, with its key "user", has no caller yet.)
Read(c) == \E k \in Keys : StartRead(c, k)
Write(c) == CreateTask(c) \/ UpdateTask(c) \/ DeleteTask(c)

Next == Tick \/ \E c \in Clients : Read(c) \/ Write(c) \/ Steps(c)

Spec == Init /\ [][Next]_vars
-----------------------------------------------------------------------------
Cached(k) == {e \in {l2[k]} \cup {l1[r][k] : r \in Replicas} : Live(e)}

\* Staleness is bounded: whatever requests race and whatever Redis calls are
\* lost, no cache shows a version that was superseded longer ago than
\* the TTLs account for.  In particular stale values are never passed back
\* and forth between L1 and Redis with fresh lives.
BoundedStaleness ==
    \A k \in Keys : \A e \in Cached(k) :
        e.version < row.version => staleFor[e.version] <= StaleBound(k)

\* No entry outlives its TTL, and no cache shows a row longer than these
\* lives allow after it was superseded.
CacheInv == TypeOK /\ BoundedStaleness

\* Staleness has a cause: between requests, if no request ever overlapped a
\* write, no deletion in Redis was skipped and no other replica had anything
\* in its L1 at a write, every entry shows the row as it is now.  This is the
\* part of the invalidation in CreateTask, UpdateTask and DeleteTask that a
\* forgotten key would break.
StaleNeedsCause ==
    AllIdle /\ ~excused =>
        \A k \in Keys : \A e \in Cached(k) :
            e.version = row.version /\ (k = "task" => row.live)
=============================================================================
