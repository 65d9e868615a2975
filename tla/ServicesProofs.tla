-------------------------- MODULE ServicesProofs ---------------------------
(***************************************************************************)
(* Theorems about the services: the sessions and registrations of          *)
(* Accounts, for any number of concurrent requests, tokens and accounts,   *)
(* and the cached tasks of TaskCache, for any replicas, clients and times  *)
(* to live.                                                                *)
(***************************************************************************)
EXTENDS Accounts, TaskCache, TLAPS

(***************************************************************************)
(* Cached tasks.  A request is in one of two phases: it looks for the      *)
(* value, in one step after the other, or it fills and drops keys.  How    *)
(* long a value has been superseded is followed from place to place, with  *)
(* the life it has left there added.                                       *)
(***************************************************************************)
WriteSteps == {"l1set", "l2set", "l1del", "l2del", "keys", "del"}
ReadSteps == {"l2get", "dbread", "promote"}

\* A program that fills or drops keys: KEYS is followed by its DEL.
Proper(s) ==
    /\ s \in Seq(Instr)
    /\ \A i \in 1..Len(s) :
        /\ s[i].do \in WriteSteps
        /\ s[i].do = "keys" =>
              i + 1 \in 1..Len(s) /\ s[i + 1].do = "del" /\ s[i + 1].key = s[i].key

\* A program that is still looking for the value.
Looking(s, what) == \E k \in Keys : s = <<Do(what, k)>>

ProgramOK(s) == Proper(s) \/ \E what \in ReadSteps : Looking(s, what)

Programs == \A c \in Clients : ProgramOK(prog[c])

\* The row's version has not been superseded at all.
NewestIsFresh == \A v \in Versions : v >= row.version => staleFor[v] = 0

\* What a request has in hand it has read since it began, from the database or
\* from an entry of Redis that was alive.
HandFresh ==
    \A c \in Clients :
        /\ Proper(prog[c]) /\ ~Idle(c) => staleFor[dest[c]] <= age[c]
        /\ \A k \in Keys :
              prog[c] = <<Do("promote", k)>> => staleFor[dest[c]] <= MaxOp + Ttl[k] - 1 + age[c]

RedisFresh ==
    \A k \in Keys :
        Live(l2[k]) => staleFor[l2[k].version] + l2[k].left <= MaxOp + Ttl[k]

L1Bound(k) == 2 * MaxOp + Ttl[k] - 1 + PromoteTtl

L1Fresh ==
    \A r \in Replicas : \A k \in Keys :
        Live(l1[r][k]) => staleFor[l1[r][k].version] + l1[r][k].left <= L1Bound(k)

\* The inductive invariant for staleness.
StaleInv == TypeOK /\ Programs /\ NewestIsFresh /\ HandFresh /\ RedisFresh /\ L1Fresh
-----------------------------------------------------------------------------
LEMMA CacheNumbers ==
    /\ \A k \in CacheKeys : Ttl[k] \in Nat \ {0}
    /\ PromoteTtl \in Nat \ {0} /\ MaxOp \in Nat /\ MaxVersion \in Nat \ {0}
    /\ Keys \subseteq CacheKeys
    /\ \A k \in Keys : Ttl[k] \in Nat \ {0}
    /\ \A c \in Clients : Home[c] \in Replicas
BY TaskCacheConstants

\* The longest life there is.
LEMMA LongestIs ==
    /\ LongestTtl \in Nat \ {0} /\ StaleCap \in Nat
    /\ \A k \in CacheKeys : Ttl[k] <= LongestTtl
    /\ PromoteTtl <= LongestTtl
<1> DEFINE Longer(m, n) == IF m <= n THEN n ELSE m
<1> DEFINE A == Longer(Ttl["task"], Ttl["page"])
<1> DEFINE B == Longer(Ttl["all"], Ttl["user"])
<1> DEFINE M == Longer(Longer(A, B), PromoteTtl)
<1>1. /\ Ttl["task"] \in Nat \ {0} /\ Ttl["page"] \in Nat \ {0}
      /\ Ttl["all"] \in Nat \ {0} /\ Ttl["user"] \in Nat \ {0}
      /\ PromoteTtl \in Nat \ {0} /\ MaxOp \in Nat
  BY CacheNumbers DEF CacheKeys
<1>2. /\ Ttl["task"] <= M /\ Ttl["page"] <= M /\ Ttl["all"] <= M /\ Ttl["user"] <= M
      /\ PromoteTtl <= M
      /\ M = Ttl["task"] \/ M = Ttl["page"] \/ M = Ttl["all"] \/ M = Ttl["user"] \/ M = PromoteTtl
  BY <1>1
<1> HIDE DEF M
<1>3. M \in {Ttl[k] : k \in CacheKeys} \cup {PromoteTtl}
  BY <1>2 DEF CacheKeys
<1>4. \A k \in CacheKeys : Ttl[k] <= M /\ PromoteTtl <= M
  BY <1>2 DEF CacheKeys
<1>5. /\ LongestTtl \in {Ttl[k] : k \in CacheKeys} \cup {PromoteTtl}
      /\ \A k \in CacheKeys : Ttl[k] <= LongestTtl /\ PromoteTtl <= LongestTtl
  BY <1>3, <1>4 DEF LongestTtl
<1>6. LongestTtl \in Nat \ {0}
  BY <1>5, CacheNumbers
<1>7. "task" \in CacheKeys
  BY DEF CacheKeys
<1> QED BY <1>1, <1>5, <1>6, <1>7 DEF StaleCap

LEMMA EntryType ==
    ASSUME NEW v \in Versions, NEW k \in Keys
    PROVE  /\ Entry(v, Ttl[k]) \in Entries /\ Entry(v, PromoteTtl) \in Entries
           /\ NoEntry \in Entries /\ ~Live(NoEntry)
<1>1. Ttl[k] \in 0..LongestTtl /\ PromoteTtl \in 0..LongestTtl /\ 0 \in 0..LongestTtl
  BY CacheNumbers, LongestIs
<1>2. 0 \in Versions
  BY CacheNumbers DEF Versions
<1> QED BY <1>1, <1>2 DEF Entry, NoEntry, Entries, Live

-----------------------------------------------------------------------------
(***************************************************************************)
(* Programs as sequences.                                                  *)
(***************************************************************************)
LEMMA DoType ==
    ASSUME NEW k \in Keys,
           NEW what \in {"l2get", "promote", "dbread", "l1set", "l2set",
                         "l1del", "l2del", "keys", "del"}
    PROVE  Do(what, k) \in Instr /\ Do(what, k).do = what /\ Do(what, k).key = k
BY DEF Do, Instr

LEMMA ProperEmpty == Proper(<<>>)
BY DEF Proper

LEMMA ProperTail ==
    ASSUME NEW s, Proper(s), s # <<>>
    PROVE  /\ Head(s) \in Instr /\ Head(s).do \in WriteSteps
           /\ Proper(Tail(s))
           /\ Head(s).do = "keys" => /\ Tail(s) # <<>> /\ Head(Tail(s)).do = "del"
                                     /\ Head(Tail(s)).key = Head(s).key
<1>1. /\ s \in Seq(Instr) /\ Head(s) = s[1] /\ Tail(s) \in Seq(Instr)
      /\ Len(s) \in Nat \ {0} /\ Len(Tail(s)) = Len(s) - 1
      /\ \A i \in 1..(Len(s) - 1) : Tail(s)[i] = s[i + 1]
      /\ Head(s) \in Instr
  BY DEF Proper
<1>2. Head(s).do \in WriteSteps
  BY <1>1 DEF Proper
<1>3. ASSUME NEW i \in 1..Len(Tail(s))
      PROVE  /\ Tail(s)[i].do \in WriteSteps
             /\ Tail(s)[i].do = "keys" =>
                   /\ i + 1 \in 1..Len(Tail(s)) /\ Tail(s)[i + 1].do = "del"
                   /\ Tail(s)[i + 1].key = Tail(s)[i].key
  <2>1. i + 1 \in 1..Len(s) /\ Tail(s)[i] = s[i + 1]
    BY <1>1
  <2>2. CASE s[i + 1].do = "keys"
    <3>1. /\ (i + 1) + 1 \in 1..Len(s) /\ s[(i + 1) + 1].do = "del"
          /\ s[(i + 1) + 1].key = s[i + 1].key
      BY <2>1, <2>2 DEF Proper
    <3>2. i + 1 \in 1..(Len(s) - 1) /\ Tail(s)[i + 1] = s[(i + 1) + 1]
      BY <1>1, <3>1
    <3> QED BY <1>1, <2>1, <3>1, <3>2 DEF Proper
  <2> QED BY <2>1, <2>2 DEF Proper
<1>4. ASSUME Head(s).do = "keys"
      PROVE  Tail(s) # <<>> /\ Head(Tail(s)).do = "del" /\ Head(Tail(s)).key = Head(s).key
  <2>1. 2 \in 1..Len(s) /\ s[2].do = "del" /\ s[2].key = s[1].key
    BY <1>1, <1>4 DEF Proper
  <2>2. /\ 1 \in 1..(Len(s) - 1) /\ Tail(s)[1] = s[1 + 1]
        /\ Tail(s) # <<>> /\ Head(Tail(s)) = Tail(s)[1]
    <3>1. 1 \in 1..(Len(s) - 1)
      BY <1>1, <2>1
    <3>2. Tail(s)[1] = s[1 + 1]
      BY <1>1, <3>1
    <3>3. Len(Tail(s)) # Len(<<>>)
      BY <1>1, <3>1
    <3>4. Tail(s) # <<>>
      BY <3>3, Zenon
    <3> QED BY <1>1, <3>1, <3>2, <3>4
  <2> QED BY <1>1, <2>1, <2>2
<1> QED BY <1>1, <1>2, <1>3, <1>4 DEF Proper

LEMMA ProperConcat ==
    ASSUME NEW s, NEW t, Proper(s), Proper(t)
    PROVE  Proper(s \o t)
<1>1. /\ s \in Seq(Instr) /\ t \in Seq(Instr) /\ s \o t \in Seq(Instr)
      /\ Len(s) \in Nat /\ Len(t) \in Nat /\ Len(s \o t) = Len(s) + Len(t)
      /\ \A i \in 1..Len(s) : (s \o t)[i] = s[i]
      /\ \A i \in 1..Len(t) : (s \o t)[Len(s) + i] = t[i]
  BY DEF Proper
<1>2. ASSUME NEW i \in 1..Len(s \o t)
      PROVE  /\ (s \o t)[i].do \in WriteSteps
             /\ (s \o t)[i].do = "keys" =>
                   /\ i + 1 \in 1..Len(s \o t) /\ (s \o t)[i + 1].do = "del"
                   /\ (s \o t)[i + 1].key = (s \o t)[i].key
  <2>1. CASE i \in 1..Len(s)
    <3>1. (s \o t)[i] = s[i] /\ s[i].do \in WriteSteps
      BY <1>1, <2>1 DEF Proper
    <3>2. CASE s[i].do = "keys"
      <4>1. i + 1 \in 1..Len(s) /\ s[i + 1].do = "del" /\ s[i + 1].key = s[i].key
        BY <2>1, <3>2 DEF Proper
      <4>2. (s \o t)[i + 1] = s[i + 1] /\ i + 1 \in 1..Len(s \o t)
        BY <1>1, <4>1
      <4> QED BY <3>1, <4>1, <4>2
    <3> QED BY <3>1, <3>2
  <2>2. CASE i \notin 1..Len(s)
    <3>1. PICK n \in 1..Len(t) : i = Len(s) + n
      <4>1. i - Len(s) \in 1..Len(t) /\ i = Len(s) + (i - Len(s))
        BY <1>1, <2>2
      <4> QED BY <4>1
    <3>2. (s \o t)[i] = t[n] /\ t[n].do \in WriteSteps
      BY <1>1, <3>1 DEF Proper
    <3>3. CASE t[n].do = "keys"
      <4>1. n + 1 \in 1..Len(t) /\ t[n + 1].do = "del" /\ t[n + 1].key = t[n].key
        BY <3>3 DEF Proper
      <4>2. i + 1 = Len(s) + (n + 1) /\ i + 1 \in 1..Len(s \o t)
        BY <1>1, <3>1, <4>1
      <4>3. (s \o t)[i + 1] = t[n + 1]
        BY <1>1, <4>1, <4>2
      <4> QED BY <3>2, <4>1, <4>2, <4>3
    <3> QED BY <3>2, <3>3
  <2> QED BY <2>1, <2>2
<1> QED BY <1>1, <1>2 DEF Proper

LEMMA ProperFill ==
    ASSUME NEW k
    PROVE  Proper(Fill(k)) /\ Proper(Drop(k)) /\ Proper(DropMatching(k))
<1>1. CASE k \notin Keys
  BY <1>1, ProperEmpty DEF Fill, Drop, DropMatching, IfModelled
<1>2. CASE k \in Keys
  <2>1. \A what \in WriteSteps : /\ Do(what, k) \in Instr
                                 /\ Do(what, k).do = what /\ Do(what, k).key = k
    BY <1>2, DoType DEF WriteSteps
  <2>2. Proper(<<Do("l1set", k), Do("l2set", k)>>)
    BY <2>1 DEF Proper, WriteSteps
  <2>3. Proper(<<Do("l1del", k), Do("l2del", k)>>)
    BY <2>1 DEF Proper, WriteSteps
  <2>4. Proper(<<Do("l1del", k), Do("keys", k), Do("del", k)>>)
    BY <2>1 DEF Proper, WriteSteps
  <2> QED BY <1>2, <2>2, <2>3, <2>4 DEF Fill, Drop, DropMatching, IfModelled
<1> QED BY <1>1, <1>2

LEMMA ProperPrograms == Proper(CreateProgram) /\ Proper(ChangeProgram)
BY ProperFill, ProperConcat DEF CreateProgram, ChangeProgram, DropLists

\* A program that looks is one step long.
LEMMA LookingIs ==
    ASSUME NEW k \in Keys, NEW what \in ReadSteps
    PROVE  /\ <<Do(what, k)>> \in Seq(Instr) /\ <<Do(what, k)>> # <<>>
           /\ Head(<<Do(what, k)>>) = Do(what, k) /\ Tail(<<Do(what, k)>>) = <<>>
           /\ Do(what, k).do = what /\ Do(what, k).key = k
           /\ ~Proper(<<Do(what, k)>>)
           /\ ProgramOK(<<Do(what, k)>>)
<1>1. Do(what, k) \in Instr /\ Do(what, k).do = what /\ Do(what, k).key = k
  BY DoType DEF ReadSteps
<1>2. ~Proper(<<Do(what, k)>>)
  <2>1. Len(<<Do(what, k)>>) = 1 /\ <<Do(what, k)>>[1] = Do(what, k)
    OBVIOUS
  <2> QED BY <1>1, <2>1 DEF Proper, WriteSteps, ReadSteps
<1> QED BY <1>1, <1>2 DEF ProgramOK, Looking

\* The step a client is about to take, and what is left of its program after it.
LEMMA AtHead ==
    ASSUME NEW s, ProgramOK(s), s # <<>>
    PROVE  /\ s \in Seq(Instr) /\ Head(s) \in Instr /\ Head(s).key \in Keys
           /\ Head(s).do \in ReadSteps =>
                 /\ s = <<Do(Head(s).do, Head(s).key)>> /\ Tail(s) = <<>>
                 /\ ~Proper(s)
           /\ Head(s).do \in WriteSteps => Proper(s) /\ Proper(Tail(s))
           /\ Head(s).do = "keys" => Proper(Tail(Tail(s)))
<1>1. CASE Proper(s)
  <2>1. /\ Head(s) \in Instr /\ Head(s).do \in WriteSteps /\ Proper(Tail(s))
        /\ Head(s).do = "keys" => Tail(s) # <<>>
    BY <1>1, ProperTail
  <2>2. Head(s).do \notin ReadSteps
    BY <2>1 DEF ReadSteps, WriteSteps
  <2>3. Head(s).do = "keys" => Proper(Tail(Tail(s)))
    BY <2>1, ProperTail
  <2>4. s \in Seq(Instr)
    BY <1>1 DEF Proper
  <2>5. Head(s).key \in Keys
    BY <2>1 DEF Instr
  <2> QED BY <1>1, <2>1, <2>2, <2>3, <2>4, <2>5
<1>2. ASSUME NEW what \in ReadSteps, NEW k \in Keys, s = <<Do(what, k)>>
      PROVE  /\ s \in Seq(Instr) /\ Head(s) \in Instr /\ Head(s).key \in Keys
             /\ Head(s).do \in ReadSteps =>
                   /\ s = <<Do(Head(s).do, Head(s).key)>> /\ Tail(s) = <<>>
                   /\ ~Proper(s)
             /\ Head(s).do \notin WriteSteps
  <2>1. /\ Head(s) = Do(what, k) /\ Tail(s) = <<>> /\ ~Proper(s) /\ s \in Seq(Instr)
        /\ Head(s).do = what /\ Head(s).key = k
    BY <1>2, LookingIs
  <2>2. Do(what, k) \in Instr
    BY DoType DEF ReadSteps
  <2>3. what \notin WriteSteps
    BY DEF ReadSteps, WriteSteps
  <2> QED BY <1>2, <2>1, <2>2, <2>3
<1> QED BY <1>1, <1>2 DEF ProgramOK, Looking, WriteSteps
-----------------------------------------------------------------------------
(***************************************************************************)
(* The parts of a step that many actions share.                            *)
(***************************************************************************)
HandsOK(p, d, a) ==
    /\ Proper(p) /\ p # <<>> => staleFor[d] <= a
    /\ \A k \in Keys : p = <<Do("promote", k)>> => staleFor[d] <= MaxOp + Ttl[k] - 1 + a

\* One client goes on; what the others have in hand does not change.
LEMMA ClientStep ==
    ASSUME StaleInv, NEW c \in Clients, NEW p, Become(c, p), ProgramOK(p),
           dest' \in [Clients -> Versions], age' \in [Clients -> 0..MaxOp],
           \A x \in Clients \ {c} : dest'[x] = dest[x] /\ age'[x] = age[x],
           staleFor' = staleFor, HandsOK(p, dest'[c], age'[c])
    PROVE  /\ prog' \in [Clients -> Seq(Instr)] /\ Programs' /\ HandFresh'
<1>1. /\ prog \in [Clients -> Seq(Instr)] /\ Programs /\ HandFresh
  BY DEF StaleInv, TypeOK
<1>2. p \in Seq(Instr)
  <2>1. CASE Proper(p)
    BY <2>1 DEF Proper
  <2>2. CASE ~Proper(p)
    BY <2>2, LookingIs DEF ProgramOK, Looking
  <2> QED BY <2>1, <2>2
<1>3. /\ prog' \in [Clients -> Seq(Instr)] /\ prog'[c] = p
      /\ \A x \in Clients \ {c} : prog'[x] = prog[x]
  BY <1>1, <1>2 DEF Become
<1>4. Programs'
  BY <1>1, <1>3 DEF Programs
<1>5. ASSUME NEW x \in Clients
      PROVE  /\ Proper(prog'[x]) /\ prog'[x] # <<>> => staleFor'[dest'[x]] <= age'[x]
             /\ \A k \in Keys : prog'[x] = <<Do("promote", k)>> =>
                   staleFor'[dest'[x]] <= MaxOp + Ttl[k] - 1 + age'[x]
  <2>1. CASE x = c
    BY <1>3, <2>1 DEF HandsOK
  <2>2. CASE x # c
    BY <1>1, <1>3, <2>2 DEF HandFresh, Idle
  <2> QED BY <2>1, <2>2
<1>6. HandFresh'
  BY <1>5 DEF HandFresh, Idle
<1> QED BY <1>3, <1>4, <1>6

\* The end of a step.  What is in hand is kept for the rest of the program.
LEMMA FinishStep ==
    ASSUME StaleInv, NEW c \in Clients, NEW p, Become(c, p), ProgramOK(p), Finish(c),
           staleFor' = staleFor,
           Proper(p) /\ p # <<>> => Proper(prog[c]) /\ ~Idle(c),
           \A k \in Keys : p # <<Do("promote", k)>>
    PROVE  /\ prog' \in [Clients -> Seq(Instr)] /\ writing' \subseteq Clients
           /\ dest' \in [Clients -> Versions] /\ age' \in [Clients -> 0..MaxOp]
           /\ Programs' /\ HandFresh'
<1>1. /\ dest \in [Clients -> Versions] /\ age \in [Clients -> 0..MaxOp]
      /\ writing \subseteq Clients /\ prog \in [Clients -> Seq(Instr)] /\ HandFresh
  BY DEF StaleInv, TypeOK
<1>2. prog'[c] = p
  BY <1>1 DEF Become
<1>3. 0 \in Versions /\ 0 \in 0..MaxOp
  BY CacheNumbers DEF Versions
<1>4. /\ dest' \in [Clients -> Versions] /\ age' \in [Clients -> 0..MaxOp]
      /\ writing' \subseteq Clients
      /\ \A x \in Clients \ {c} : dest'[x] = dest[x] /\ age'[x] = age[x]
      /\ p # <<>> => dest' = dest /\ age' = age
  <2>1. CASE p = <<>>
    BY <1>1, <1>2, <1>3, <2>1 DEF Finish, Idle
  <2>2. CASE p # <<>>
    BY <1>1, <1>2, <2>2 DEF Finish, Idle
  <2> QED BY <2>1, <2>2
<1>5. HandsOK(p, dest'[c], age'[c])
  BY <1>1, <1>4 DEF HandsOK, HandFresh
<1> QED BY <1>4, <1>5, ClientStep

LEMMA RedisPut ==
    ASSUME StaleInv, NEW k \in Keys, NEW e \in Entries, l2' = [l2 EXCEPT ![k] = e],
           staleFor' = staleFor,
           Live(e) => staleFor[e.version] + e.left <= MaxOp + Ttl[k]
    PROVE  l2' \in [Keys -> Entries] /\ RedisFresh'
<1>1. l2 \in [Keys -> Entries] /\ RedisFresh
  BY DEF StaleInv, TypeOK
<1>2. l2' \in [Keys -> Entries] /\ l2'[k] = e /\ \A x \in Keys \ {k} : l2'[x] = l2[x]
  BY <1>1
<1>3. ASSUME NEW x \in Keys, Live(l2'[x])
      PROVE  staleFor'[l2'[x].version] + l2'[x].left <= MaxOp + Ttl[x]
  BY <1>1, <1>2, <1>3 DEF RedisFresh
<1>4. RedisFresh'
  BY <1>3 DEF RedisFresh, Live
<1> QED BY <1>2, <1>4

LEMMA L1Put ==
    ASSUME StaleInv, NEW r \in Replicas, NEW k \in Keys, NEW e \in Entries,
           l1' = [l1 EXCEPT ![r][k] = e], staleFor' = staleFor,
           Live(e) => staleFor[e.version] + e.left <= L1Bound(k)
    PROVE  l1' \in [Replicas -> [Keys -> Entries]] /\ L1Fresh'
<1>1. l1 \in [Replicas -> [Keys -> Entries]] /\ L1Fresh
  BY DEF StaleInv, TypeOK
<1>2. /\ l1' \in [Replicas -> [Keys -> Entries]] /\ l1'[r][k] = e
      /\ \A q \in Replicas, x \in Keys : q # r \/ x # k => l1'[q][x] = l1[q][x]
  BY <1>1
<1>3. ASSUME NEW q \in Replicas, NEW x \in Keys, Live(l1'[q][x])
      PROVE  staleFor'[l1'[q][x].version] + l1'[q][x].left <= L1Bound(x)
  <2>1. CASE q = r /\ x = k
    BY <1>2, <1>3, <2>1
  <2>2. CASE ~(q = r /\ x = k)
    BY <1>1, <1>2, <1>3, <2>2 DEF L1Fresh
  <2> QED BY <2>1, <2>2
<1>4. L1Fresh'
  BY <1>3 DEF L1Fresh, Live
<1> QED BY <1>2, <1>4
-----------------------------------------------------------------------------
(***************************************************************************)
(* Bounded staleness, action by action.                                    *)
(***************************************************************************)
LEMMA StaleInit == Init => StaleInv
<1> SUFFICES ASSUME Init PROVE StaleInv
  OBVIOUS
<1>1. 0 \in Versions /\ 0 \in 0..MaxOp /\ 0 \in 0..StaleCap /\ 0 \in 0..LongestTtl
  BY CacheNumbers, LongestIs DEF Versions
<1>2. NoEntry \in Entries /\ ~Live(NoEntry)
  BY <1>1 DEF NoEntry, Entries, Live
<1>3. \A c \in Clients : prog[c] = <<>>
  BY DEF Init
<1>4. TypeOK
  <2>1. <<>> \in Seq(Instr)
    OBVIOUS
  <2> QED BY <1>1, <1>2, <2>1 DEF Init, TypeOK
<1>5. Programs
  BY <1>3, ProperEmpty DEF Programs, ProgramOK
<1>6. HandFresh
  BY <1>3, LookingIs DEF HandFresh, Idle, ReadSteps
<1>7. NewestIsFresh
  BY DEF Init, NewestIsFresh
<1>8. RedisFresh /\ L1Fresh
  BY <1>2 DEF Init, RedisFresh, L1Fresh
<1> QED BY <1>4, <1>5, <1>6, <1>7, <1>8 DEF StaleInv

LEMMA StartReadKeeps ==
    ASSUME StaleInv, NEW c \in Clients, NEW k \in Keys, StartRead(c, k)
    PROVE  StaleInv'
<1>1. TypeOK /\ NewestIsFresh /\ RedisFresh /\ L1Fresh
  BY DEF StaleInv
<1>2. /\ Become(c, <<Do("l2get", k)>>) /\ excused' \in BOOLEAN
      /\ UNCHANGED <<row, l1, l2, writing, dest, age, staleFor>>
  BY DEF StartRead, AfterL1Miss
<1>3. ProgramOK(<<Do("l2get", k)>>) /\ ~Proper(<<Do("l2get", k)>>)
  BY LookingIs DEF ReadSteps
<1>4. \A x \in Keys : <<Do("l2get", k)>> # <<Do("promote", x)>>
  BY DEF Do
<1>5. HandsOK(<<Do("l2get", k)>>, dest'[c], age'[c])
  BY <1>3, <1>4 DEF HandsOK
<1>6. /\ dest' \in [Clients -> Versions] /\ age' \in [Clients -> 0..MaxOp]
      /\ staleFor' = staleFor /\ dest' = dest /\ age' = age
  BY <1>1, <1>2 DEF TypeOK
<1>7. prog' \in [Clients -> Seq(Instr)] /\ Programs' /\ HandFresh'
  BY <1>2, <1>3, <1>5, <1>6, ClientStep
<1>8. TypeOK'
  BY <1>1, <1>2, <1>7 DEF TypeOK
<1>9. NewestIsFresh' /\ RedisFresh' /\ L1Fresh'
  BY <1>1, <1>2 DEF NewestIsFresh, RedisFresh, L1Fresh, Live
<1> QED BY <1>7, <1>8, <1>9 DEF StaleInv

LEMMA StartWriteKeeps ==
    ASSUME StaleInv, NEW c \in Clients, NEW v \in Versions, NEW live \in BOOLEAN, NEW p,
           v >= row.version, Proper(p),
           StartWrite(c, [version |-> v, live |-> live], p)
    PROVE  StaleInv'
<1>1. TypeOK /\ NewestIsFresh /\ RedisFresh /\ L1Fresh
  BY DEF StaleInv
<1>2. /\ Become(c, p) /\ excused' \in BOOLEAN
      /\ row' = [version |-> v, live |-> live] /\ l1' = l1 /\ l2' = l2 /\ age' = age
      /\ staleFor' = staleFor
  BY DEF StartWrite
<1>3. ProgramOK(p)
  BY DEF ProgramOK
<1>4. /\ writing' \subseteq Clients /\ dest' \in [Clients -> Versions]
      /\ \A x \in Clients \ {c} : dest'[x] = dest[x]
      /\ p # <<>> => dest'[c] = v
  BY <1>1 DEF StartWrite, TypeOK
<1>5. /\ v \in Int /\ row.version \in Int
  BY <1>1, CacheNumbers DEF TypeOK, Versions
<1>6. /\ staleFor[v] = 0 /\ age' \in [Clients -> 0..MaxOp] /\ 0 <= age'[c]
  BY <1>1, <1>2, CacheNumbers DEF NewestIsFresh, TypeOK
<1>7. \A k \in Keys : p # <<Do("promote", k)>>
  BY LookingIs DEF ReadSteps
<1>8. HandsOK(p, dest'[c], age'[c])
  BY <1>4, <1>6, <1>7 DEF HandsOK
<1>9. prog' \in [Clients -> Seq(Instr)] /\ Programs' /\ HandFresh'
  BY <1>2, <1>3, <1>4, <1>6, <1>8, ClientStep
<1>10. TypeOK'
  BY <1>1, <1>2, <1>4, <1>6, <1>9 DEF TypeOK
<1>11. NewestIsFresh'
  BY <1>1, <1>2, <1>5, CacheNumbers DEF NewestIsFresh, Versions
<1>12. RedisFresh' /\ L1Fresh'
  BY <1>1, <1>2 DEF RedisFresh, L1Fresh, Live
<1> QED BY <1>9, <1>10, <1>11, <1>12 DEF StaleInv

LEMMA WriteKeeps ==
    ASSUME StaleInv, NEW c \in Clients, Write(c)
    PROVE  StaleInv'
<1>1. /\ row \in [version : Versions, live : BOOLEAN]
      /\ row.version \in Int /\ row.version \in Versions /\ row.live \in BOOLEAN
      /\ row = [version |-> row.version, live |-> row.live]
      /\ row.version < MaxVersion => row.version + 1 \in Versions /\ row.version + 1 >= row.version
      /\ 0 < MaxVersion /\ row.version >= row.version
  <2>1. row \in [version : Versions, live : BOOLEAN]
    BY DEF StaleInv, TypeOK
  <2> QED BY <2>1, CacheNumbers DEF Versions
<1>2. ASSUME CreateTask(c) PROVE StaleInv'
  BY <1>1, <1>2, StartWriteKeeps, ProperPrograms DEF CreateTask, Changed
<1>3. ASSUME UpdateTask(c) PROVE StaleInv'
  BY <1>1, <1>3, StartWriteKeeps, ProperPrograms DEF UpdateTask, Changed
<1>4. ASSUME DeleteTask(c) PROVE StaleInv'
  BY <1>1, <1>4, StartWriteKeeps, ProperPrograms DEF DeleteTask, Changed
<1> QED BY <1>2, <1>3, <1>4 DEF Write

\* What each kind of step leaves alone.
LEMMA KeepsTheRest ==
    ASSUME StaleInv, UNCHANGED <<row, staleFor>>, excused' \in BOOLEAN,
           prog' \in [Clients -> Seq(Instr)], writing' \subseteq Clients,
           dest' \in [Clients -> Versions], age' \in [Clients -> 0..MaxOp],
           Programs', HandFresh',
           l1' \in [Replicas -> [Keys -> Entries]], L1Fresh',
           l2' \in [Keys -> Entries], RedisFresh'
    PROVE  StaleInv'
<1>1. TypeOK'
  BY DEF StaleInv, TypeOK
<1>2. NewestIsFresh'
  BY DEF StaleInv, NewestIsFresh
<1> QED BY <1>1, <1>2 DEF StaleInv

LEMMA SameCaches ==
    ASSUME StaleInv, staleFor' = staleFor
    PROVE  /\ l1' = l1 => l1' \in [Replicas -> [Keys -> Entries]] /\ L1Fresh'
           /\ l2' = l2 => l2' \in [Keys -> Entries] /\ RedisFresh'
BY DEF StaleInv, TypeOK, L1Fresh, RedisFresh, Live

LEMMA ProperOrLooking ==
    ASSUME NEW s
    PROVE  /\ Proper(s) => /\ ProgramOK(s)
                           /\ \A k \in Keys, what \in ReadSteps : s # <<Do(what, k)>>
           /\ ProgramOK(s) /\ ~Proper(s) => Tail(s) = <<>> /\ Head(s).do \in ReadSteps
<1>1. ASSUME Proper(s), NEW k \in Keys, NEW what \in ReadSteps
      PROVE  s # <<Do(what, k)>>
  BY <1>1, LookingIs
<1>2. ASSUME NEW what \in ReadSteps, NEW k \in Keys, s = <<Do(what, k)>>
      PROVE  Tail(s) = <<>> /\ Head(s).do \in ReadSteps
  BY <1>2, LookingIs
<1> QED BY <1>1, <1>2 DEF ProgramOK, Looking

\* The step of a program that fills and drops keys.
LEMMA Proceed ==
    ASSUME StaleInv, NEW c \in Clients, ~Idle(c), Finish(c), staleFor' = staleFor,
           \/ Advance(c)
           \/ Head(prog[c]).do = "keys" /\ Become(c, Tail(Tail(prog[c])))
    PROVE  /\ prog' \in [Clients -> Seq(Instr)] /\ writing' \subseteq Clients
           /\ dest' \in [Clients -> Versions] /\ age' \in [Clients -> 0..MaxOp]
           /\ Programs' /\ HandFresh'
<1>1. ProgramOK(prog[c]) /\ prog[c] # <<>>
  BY DEF StaleInv, Programs, Idle
<1>2. PICK p : /\ Become(c, p)
               /\ Proper(p)
               /\ p # <<>> => Proper(prog[c])
  <2>1. CASE Proper(prog[c])
    BY <1>1, <2>1, ProperTail, AtHead DEF Advance
  <2>2. CASE ~Proper(prog[c])
    <3>1. Tail(prog[c]) = <<>> /\ Head(prog[c]).do # "keys"
      BY <1>1, <2>2, ProperOrLooking DEF ReadSteps
    <3> QED BY <3>1, ProperEmpty DEF Advance
  <2> QED BY <2>1, <2>2
<1>3. ProgramOK(p) /\ \A k \in Keys : p # <<Do("promote", k)>>
  <2>1. "promote" \in ReadSteps
    BY DEF ReadSteps
  <2> QED BY <1>2, <2>1, ProperOrLooking
<1>4. Proper(p) /\ p # <<>> => Proper(prog[c]) /\ ~Idle(c)
  BY <1>1, <1>2 DEF Idle
<1> QED BY <1>2, <1>3, <1>4, FinishStep

LEMMA StepHead ==
    ASSUME StaleInv, NEW c \in Clients, ~Idle(c)
    PROVE  /\ ProgramOK(prog[c]) /\ prog[c] # <<>>
           /\ KeyOf(c) \in Keys /\ Home[c] \in Replicas /\ dest[c] \in Versions
           /\ dest[c] \in Versions /\ Head(prog[c]).do \in ReadSteps \cup WriteSteps
           /\ staleFor[dest[c]] \in Nat /\ age[c] \in Nat /\ age[c] <= MaxOp
           /\ Head(prog[c]).do \in WriteSteps => /\ Proper(prog[c]) /\ staleFor[dest[c]] <= age[c]
           /\ Head(prog[c]).do \in ReadSteps => prog[c] = <<Do(Head(prog[c]).do, KeyOf(c))>>
           /\ At(c, "promote") => staleFor[dest[c]] <= MaxOp + Ttl[KeyOf(c)] - 1 + age[c]
<1>1. ProgramOK(prog[c]) /\ prog[c] # <<>>
  BY DEF StaleInv, Programs, Idle
<1>2. /\ KeyOf(c) \in Keys /\ Head(prog[c]).do \in ReadSteps \cup WriteSteps
      /\ Head(prog[c]).do \in WriteSteps => Proper(prog[c])
      /\ Head(prog[c]).do \in ReadSteps => prog[c] = <<Do(Head(prog[c]).do, KeyOf(c))>>
  <2>1. Head(prog[c]) \in Instr
    BY <1>1, AtHead
  <2>2. Head(prog[c]).do \in ReadSteps \cup WriteSteps
    BY <2>1 DEF Instr, ReadSteps, WriteSteps
  <2> QED BY <1>1, <2>2, AtHead DEF KeyOf
<1>3. /\ dest[c] \in Versions /\ age[c] \in Nat /\ age[c] <= MaxOp
      /\ staleFor[dest[c]] \in Nat
  BY CacheNumbers, LongestIs DEF StaleInv, TypeOK
<1>4. Head(prog[c]).do \in WriteSteps => staleFor[dest[c]] <= age[c]
  BY <1>2 DEF StaleInv, HandFresh
<1>5. At(c, "promote") => staleFor[dest[c]] <= MaxOp + Ttl[KeyOf(c)] - 1 + age[c]
  <2>1. At(c, "promote") => prog[c] = <<Do("promote", KeyOf(c))>>
    BY <1>2 DEF At, ReadSteps
  <2> QED BY <1>2, <2>1 DEF StaleInv, HandFresh
<1> QED BY <1>1, <1>2, <1>3, <1>4, <1>5, CacheNumbers

LEMMA RedisFailsKeeps ==
    ASSUME StaleInv, NEW c \in Clients, RedisFails(c)
    PROVE  StaleInv'
<1>1. /\ ~Idle(c) /\ Finish(c) /\ UNCHANGED <<row, l1, l2, staleFor>>
      /\ excused' \in BOOLEAN
  BY DEF RedisFails
<1>2. /\ prog' \in [Clients -> Seq(Instr)] /\ writing' \subseteq Clients
      /\ dest' \in [Clients -> Versions] /\ age' \in [Clients -> 0..MaxOp]
      /\ Programs' /\ HandFresh'
  <2>1. CASE At(c, "l2get")
    <3>1. KeyOf(c) \in Keys /\ Become(c, <<Do("dbread", KeyOf(c))>>)
      BY <1>1, <2>1, StepHead DEF RedisFails, AfterL2Miss
    <3>2. /\ ProgramOK(<<Do("dbread", KeyOf(c))>>) /\ ~Proper(<<Do("dbread", KeyOf(c))>>)
          /\ \A k \in Keys : <<Do("dbread", KeyOf(c))>> # <<Do("promote", k)>>
      BY <3>1, LookingIs DEF ReadSteps, Do
    <3> QED BY <1>1, <3>1, <3>2, FinishStep
  <2>2. CASE ~At(c, "l2get")
    <3>1. \/ Advance(c)
          \/ Head(prog[c]).do = "keys" /\ Become(c, Tail(Tail(prog[c])))
      BY <2>2 DEF RedisFails, Advance, At
    <3> QED BY <1>1, <3>1, Proceed
  <2> QED BY <2>1, <2>2
<1> QED BY <1>1, <1>2, SameCaches, KeepsTheRest

LEMMA GetFromRedisKeeps ==
    ASSUME StaleInv, NEW c \in Clients, GetFromRedis(c)
    PROVE  StaleInv'
<1> DEFINE k == KeyOf(c)
<1>1. /\ At(c, "l2get") /\ ~Idle(c) /\ UNCHANGED <<row, l1, l2, writing, age, staleFor, excused>>
  BY DEF GetFromRedis, At
<1>2. /\ k \in Keys /\ Ttl[k] \in Nat /\ MaxOp \in Nat
      /\ dest \in [Clients -> Versions] /\ age \in [Clients -> 0..MaxOp]
      /\ writing \subseteq Clients /\ excused \in BOOLEAN /\ age[c] \in Nat
  BY <1>1, StepHead, CacheNumbers DEF StaleInv, TypeOK
<1>3. /\ prog' \in [Clients -> Seq(Instr)] /\ Programs' /\ HandFresh'
      /\ dest' \in [Clients -> Versions]
  <2>1. CASE Live(l2[k])
    <3>1. /\ dest' = [dest EXCEPT ![c] = l2[k].version] /\ Become(c, <<Do("promote", k)>>)
      BY <2>1 DEF GetFromRedis
    <3>2. /\ l2[k] \in Entries /\ l2[k].version \in Versions /\ l2[k].left \in Nat
          /\ l2[k].left > 0 /\ staleFor[l2[k].version] \in Nat
          /\ staleFor[l2[k].version] + l2[k].left <= MaxOp + Ttl[k]
      BY <1>2, <2>1, CacheNumbers, LongestIs DEF StaleInv, TypeOK, RedisFresh, Entries, Live
    <3>3. /\ dest' \in [Clients -> Versions] /\ dest'[c] = l2[k].version
          /\ \A x \in Clients \ {c} : dest'[x] = dest[x]
      BY <1>2, <3>1, <3>2
    <3>4. /\ ProgramOK(<<Do("promote", k)>>) /\ ~Proper(<<Do("promote", k)>>)
          /\ \A x \in Keys : <<Do("promote", k)>> = <<Do("promote", x)>> => x = k
      BY <1>2, LookingIs DEF ReadSteps, Do
    <3>5. staleFor[dest'[c]] <= MaxOp + Ttl[k] - 1 + age'[c]
      BY <1>1, <1>2, <3>2, <3>3
    <3>6. HandsOK(<<Do("promote", k)>>, dest'[c], age'[c])
      BY <3>4, <3>5 DEF HandsOK
    <3>7. age' \in [Clients -> 0..MaxOp] /\ age' = age /\ staleFor' = staleFor
      BY <1>1, <1>2
    <3> QED BY <3>1, <3>3, <3>4, <3>6, <3>7, ClientStep
  <2>2. CASE ~Live(l2[k])
    <3>1. dest' = dest /\ Become(c, <<Do("dbread", k)>>)
      BY <2>2 DEF GetFromRedis, AfterL2Miss
    <3>2. /\ ProgramOK(<<Do("dbread", k)>>) /\ ~Proper(<<Do("dbread", k)>>)
          /\ \A x \in Keys : <<Do("dbread", k)>> # <<Do("promote", x)>>
      BY <1>2, LookingIs DEF ReadSteps, Do
    <3>3. HandsOK(<<Do("dbread", k)>>, dest'[c], age'[c])
      BY <3>2 DEF HandsOK
    <3>4. /\ age' \in [Clients -> 0..MaxOp] /\ age' = age /\ staleFor' = staleFor
          /\ dest' \in [Clients -> Versions]
      BY <1>1, <1>2, <3>1
    <3> QED BY <3>1, <3>2, <3>3, <3>4, ClientStep
  <2> QED BY <2>1, <2>2
<1>4. /\ writing' \subseteq Clients /\ age' \in [Clients -> 0..MaxOp] /\ excused' \in BOOLEAN
      /\ UNCHANGED <<row, staleFor>> /\ l1' = l1 /\ l2' = l2 /\ staleFor' = staleFor
  BY <1>1, <1>2
<1> QED BY <1>3, <1>4, SameCaches, KeepsTheRest

LEMMA PutL1Keeps ==
    ASSUME StaleInv, NEW c \in Clients, Promote(c) \/ SetL1(c) \/ DeleteL1(c)
    PROVE  StaleInv'
<1> DEFINE k == KeyOf(c)
<1>1. /\ ~Idle(c) /\ Advance(c) /\ Finish(c) /\ UNCHANGED <<row, l2, staleFor, excused>>
  BY DEF Promote, SetL1, DeleteL1, At
<1>2. /\ k \in Keys /\ Ttl[k] \in Nat \ {0} /\ PromoteTtl \in Nat \ {0} /\ MaxOp \in Nat
      /\ excused' \in BOOLEAN /\ Home[c] \in Replicas /\ dest[c] \in Versions
      /\ staleFor[dest[c]] \in Nat /\ age[c] \in Nat /\ age[c] <= MaxOp
  BY <1>1, StepHead, CacheNumbers DEF StaleInv, TypeOK
<1>3. PICK e \in Entries :
        /\ l1' = [l1 EXCEPT ![Home[c]][k] = e]
        /\ Live(e) => staleFor[e.version] + e.left <= L1Bound(k)
  <2>1. CASE Promote(c)
    <3>1. staleFor[dest[c]] <= MaxOp + Ttl[k] - 1 + age[c]
      BY <1>1, <2>1, StepHead DEF Promote
    <3>2. staleFor[dest[c]] + PromoteTtl <= L1Bound(k)
      BY <1>2, <3>1 DEF L1Bound
    <3>3. Entry(dest[c], PromoteTtl).version = dest[c] /\ Entry(dest[c], PromoteTtl).left = PromoteTtl
      BY DEF Entry
    <3>4. Entry(dest[c], PromoteTtl) \in Entries
      BY <1>2, EntryType
    <3> QED BY <2>1, <3>2, <3>3, <3>4 DEF Promote, LifeOfPromoted
  <2>2. CASE SetL1(c)
    <3>1. staleFor[dest[c]] <= age[c]
      BY <1>1, <2>2, StepHead DEF SetL1, At, WriteSteps
    <3>2. staleFor[dest[c]] + Ttl[k] <= L1Bound(k)
      BY <1>2, <3>1 DEF L1Bound
    <3>3. Entry(dest[c], Ttl[k]).version = dest[c] /\ Entry(dest[c], Ttl[k]).left = Ttl[k]
      BY DEF Entry
    <3>4. Entry(dest[c], Ttl[k]) \in Entries
      BY <1>2, EntryType
    <3> QED BY <2>2, <3>2, <3>3, <3>4 DEF SetL1
  <2>3. CASE DeleteL1(c)
    <3>1. NoEntry \in Entries /\ ~Live(NoEntry)
      BY <1>2, EntryType
    <3> QED BY <2>3, <3>1 DEF DeleteL1
  <2> QED BY <2>1, <2>2, <2>3
<1>4. /\ prog' \in [Clients -> Seq(Instr)] /\ writing' \subseteq Clients
      /\ dest' \in [Clients -> Versions] /\ age' \in [Clients -> 0..MaxOp]
      /\ Programs' /\ HandFresh'
  BY <1>1, Proceed
<1>5. l1' \in [Replicas -> [Keys -> Entries]] /\ L1Fresh'
  BY <1>1, <1>2, <1>3, L1Put
<1>6. l2' \in [Keys -> Entries] /\ RedisFresh'
  BY <1>1, SameCaches
<1> QED BY <1>1, <1>2, <1>4, <1>5, <1>6, KeepsTheRest

LEMMA PutRedisKeeps ==
    ASSUME StaleInv, NEW c \in Clients, SetRedis(c) \/ DeleteRedis(c)
    PROVE  StaleInv'
<1> DEFINE k == KeyOf(c)
<1>1. /\ ~Idle(c) /\ Advance(c) /\ Finish(c) /\ UNCHANGED <<row, l1, staleFor, excused>>
  BY DEF SetRedis, DeleteRedis, At
<1>2. /\ k \in Keys /\ Ttl[k] \in Nat \ {0} /\ MaxOp \in Nat
      /\ excused' \in BOOLEAN /\ dest[c] \in Versions
      /\ staleFor[dest[c]] \in Nat /\ age[c] \in Nat /\ age[c] <= MaxOp
  BY <1>1, StepHead, CacheNumbers DEF StaleInv, TypeOK
<1>3. PICK e \in Entries :
        /\ l2' = [l2 EXCEPT ![k] = e]
        /\ Live(e) => staleFor[e.version] + e.left <= MaxOp + Ttl[k]
  <2>1. CASE SetRedis(c)
    <3>1. staleFor[dest[c]] <= age[c]
      BY <1>1, <2>1, StepHead DEF SetRedis, At, WriteSteps
    <3>2. staleFor[dest[c]] + Ttl[k] <= MaxOp + Ttl[k]
      BY <1>2, <3>1
    <3>3. Entry(dest[c], Ttl[k]).version = dest[c] /\ Entry(dest[c], Ttl[k]).left = Ttl[k]
      BY DEF Entry
    <3>4. Entry(dest[c], Ttl[k]) \in Entries
      BY <1>2, EntryType
    <3> QED BY <2>1, <3>2, <3>3, <3>4 DEF SetRedis
  <2>2. CASE DeleteRedis(c)
    <3>1. NoEntry \in Entries /\ ~Live(NoEntry)
      BY <1>2, EntryType
    <3> QED BY <2>2, <3>1 DEF DeleteRedis
  <2> QED BY <2>1, <2>2
<1>4. /\ prog' \in [Clients -> Seq(Instr)] /\ writing' \subseteq Clients
      /\ dest' \in [Clients -> Versions] /\ age' \in [Clients -> 0..MaxOp]
      /\ Programs' /\ HandFresh'
  BY <1>1, Proceed
<1>5. l2' \in [Keys -> Entries] /\ RedisFresh'
  BY <1>1, <1>2, <1>3, RedisPut
<1>6. l1' \in [Replicas -> [Keys -> Entries]] /\ L1Fresh'
  BY <1>1, SameCaches
<1> QED BY <1>1, <1>2, <1>4, <1>5, <1>6, KeepsTheRest

LEMMA SameCachesKeeps ==
    ASSUME StaleInv, NEW c \in Clients, ListRedisKeys(c) \/ ReadNothing(c)
    PROVE  StaleInv'
<1>1. /\ ~Idle(c) /\ Finish(c) /\ UNCHANGED <<row, l1, l2, staleFor>> /\ excused' \in BOOLEAN
  BY DEF ListRedisKeys, ReadNothing, At, StaleInv, TypeOK
<1>2. \/ Advance(c)
      \/ Head(prog[c]).do = "keys" /\ Become(c, Tail(Tail(prog[c])))
  BY DEF ListRedisKeys, ReadNothing, At, Advance
<1>3. /\ prog' \in [Clients -> Seq(Instr)] /\ writing' \subseteq Clients
      /\ dest' \in [Clients -> Versions] /\ age' \in [Clients -> 0..MaxOp]
      /\ Programs' /\ HandFresh'
  BY <1>1, <1>2, Proceed
<1> QED BY <1>1, <1>3, SameCaches, KeepsTheRest

LEMMA ReadDatabaseKeeps ==
    ASSUME StaleInv, NEW c \in Clients, ReadDatabase(c)
    PROVE  StaleInv'
<1> DEFINE k == KeyOf(c)
<1>1. /\ ~Idle(c) /\ Become(c, Fill(k)) /\ dest' = [dest EXCEPT ![c] = row.version]
      /\ UNCHANGED <<row, l1, l2, writing, age, staleFor, excused>>
  BY DEF ReadDatabase, At
<1>2. /\ k \in Keys /\ dest \in [Clients -> Versions] /\ age \in [Clients -> 0..MaxOp]
      /\ row.version \in Versions /\ age[c] \in Nat /\ staleFor[row.version] = 0
      /\ writing \subseteq Clients /\ excused \in BOOLEAN
  <2>1. row.version \in Versions /\ row.version >= row.version
    BY CacheNumbers DEF StaleInv, TypeOK, Versions
  <2> QED BY <1>1, <2>1, StepHead, CacheNumbers DEF StaleInv, TypeOK, NewestIsFresh
<1>3. Proper(Fill(k)) /\ ProgramOK(Fill(k)) /\ \A x \in Keys : Fill(k) # <<Do("promote", x)>>
  BY ProperFill, ProperOrLooking DEF ReadSteps
<1>4. /\ dest' \in [Clients -> Versions] /\ dest'[c] = row.version
      /\ \A x \in Clients \ {c} : dest'[x] = dest[x]
      /\ age' = age /\ age' \in [Clients -> 0..MaxOp] /\ staleFor' = staleFor
  BY <1>1, <1>2
<1>5. HandsOK(Fill(k), dest'[c], age'[c])
  BY <1>2, <1>3, <1>4 DEF HandsOK
<1>6. prog' \in [Clients -> Seq(Instr)] /\ Programs' /\ HandFresh'
  BY <1>1, <1>3, <1>4, <1>5, ClientStep
<1>7. /\ writing' \subseteq Clients /\ excused' \in BOOLEAN /\ UNCHANGED <<row, staleFor>>
      /\ l1' = l1 /\ l2' = l2
  BY <1>1, <1>2
<1> QED BY <1>4, <1>6, <1>7, SameCaches, KeepsTheRest

\* A tick makes a superseded version one tick older and takes one from the
\* life of its entries, so the two together stay.
LEMMA AgedEntry ==
    ASSUME NEW e \in Entries
    PROVE  /\ Aged(e) \in Entries
           /\ Live(Aged(e)) => Live(e) /\ Aged(e).version = e.version /\ Aged(e).left = e.left - 1
<1>1. /\ e \in [version : Versions, left : 0..LongestTtl] /\ LongestTtl \in Nat
      /\ e.left \in Nat /\ e.left <= LongestTtl
  BY LongestIs DEF Entries
<1>2. CASE e.left > 1
  <2>1. e.left - 1 \in 0..LongestTtl
    BY <1>1, <1>2
  <2>2. Aged(e) = [e EXCEPT !.left = e.left - 1]
    BY <1>2 DEF Aged
  <2>3. Aged(e) \in Entries /\ Aged(e).version = e.version /\ Aged(e).left = e.left - 1
    BY <1>1, <2>1, <2>2 DEF Entries
  <2> QED BY <1>2, <2>3, <1>1 DEF Live
<1>3. CASE ~(e.left > 1)
  <2>1. Aged(e) = NoEntry
    BY <1>3 DEF Aged
  <2>2. NoEntry \in Entries /\ ~Live(NoEntry)
    BY CacheNumbers, LongestIs DEF NoEntry, Entries, Versions, Live
  <2> QED BY <2>1, <2>2
<1> QED BY <1>2, <1>3

LEMMA TickKeeps ==
    ASSUME StaleInv, Tick
    PROVE  StaleInv'
<1>1. /\ TypeOK /\ Programs /\ NewestIsFresh /\ HandFresh /\ RedisFresh /\ L1Fresh
  BY DEF StaleInv
<1>2. /\ row' = row /\ prog' = prog /\ writing' = writing /\ dest' = dest /\ excused' = excused
      /\ age' = [c \in Clients |-> IF Idle(c) THEN 0 ELSE age[c] + 1]
      /\ l1' = [r \in Replicas |-> [k \in Keys |-> Aged(l1[r][k])]]
      /\ l2' = [k \in Keys |-> Aged(l2[k])]
      /\ \A c \in Clients : Idle(c) \/ age[c] < MaxOp
  BY DEF Tick
<1>3. MaxOp \in Nat /\ StaleCap \in Nat
  BY CacheNumbers, LongestIs
<1>4. /\ staleFor' \in [Versions -> 0..StaleCap]
      /\ \A v \in Versions : /\ staleFor[v] \in Nat /\ staleFor'[v] \in Nat
                             /\ staleFor'[v] <= staleFor[v] + 1
                             /\ v >= row.version => staleFor'[v] = staleFor[v]
  <2>1. staleFor \in [Versions -> 0..StaleCap] /\ row.version \in Versions
    BY <1>1 DEF TypeOK
  <2>2. \A v \in Versions : v \in Nat
    BY CacheNumbers DEF Versions
  <2>3. staleFor' = [v \in Versions |-> IF v < row.version /\ staleFor[v] < StaleCap
                                        THEN staleFor[v] + 1 ELSE staleFor[v]]
    BY DEF Tick
  <2>4. ASSUME NEW v \in Versions
        PROVE  /\ staleFor[v] \in Nat /\ staleFor'[v] \in 0..StaleCap
               /\ staleFor'[v] <= staleFor[v] + 1
               /\ v >= row.version => staleFor'[v] = staleFor[v]
    <3>1. /\ staleFor[v] \in Nat /\ staleFor[v] <= StaleCap /\ v \in Nat /\ row.version \in Nat
      BY <1>3, <2>1, <2>2
    <3>2. staleFor'[v] = IF v < row.version /\ staleFor[v] < StaleCap
                         THEN staleFor[v] + 1 ELSE staleFor[v]
      BY <2>3
    <3> QED BY <1>3, <3>1, <3>2
  <2> QED BY <1>3, <2>3, <2>4
<1>5. \A c \in Clients : /\ age'[c] \in 0..MaxOp /\ age[c] \in Nat
                         /\ ~Idle(c) => age'[c] = age[c] + 1
  BY <1>1, <1>2, <1>3 DEF TypeOK
<1>6. age' \in [Clients -> 0..MaxOp]
  BY <1>2, <1>5
<1>7. /\ l1' \in [Replicas -> [Keys -> Entries]] /\ l2' \in [Keys -> Entries]
      /\ \A k \in Keys : l2[k] \in Entries /\ l2'[k] = Aged(l2[k])
      /\ \A r \in Replicas, k \in Keys : l1[r][k] \in Entries /\ l1'[r][k] = Aged(l1[r][k])
  <2>1. /\ \A k \in Keys : l2[k] \in Entries
        /\ \A r \in Replicas, k \in Keys : l1[r][k] \in Entries
    BY <1>1 DEF TypeOK
  <2> QED BY <1>2, <2>1, AgedEntry
<1>8. TypeOK'
  BY <1>1, <1>2, <1>4, <1>6, <1>7 DEF TypeOK
<1>9. Programs'
  BY <1>1, <1>2 DEF Programs
<1>10. NewestIsFresh'
  <2>1. ASSUME NEW v \in Versions, v >= row'.version
        PROVE  staleFor'[v] = 0
    <3>1. staleFor[v] = 0
      BY <1>1, <1>2, <2>1 DEF NewestIsFresh
    <3>2. staleFor'[v] = staleFor[v]
      BY <1>2, <1>4, <2>1
    <3> QED BY <3>1, <3>2
  <2> QED BY <2>1 DEF NewestIsFresh
<1>11. ASSUME NEW c \in Clients, ~Idle(c)
       PROVE  /\ Proper(prog[c]) => staleFor'[dest[c]] <= age'[c]
              /\ \A k \in Keys :
                    prog[c] = <<Do("promote", k)>> =>
                       staleFor'[dest[c]] <= MaxOp + Ttl[k] - 1 + age'[c]
  <2>1. /\ dest[c] \in Versions
        /\ staleFor[dest[c]] \in Nat /\ staleFor'[dest[c]] \in Nat
        /\ staleFor'[dest[c]] <= staleFor[dest[c]] + 1 /\ age'[c] = age[c] + 1 /\ age[c] \in Nat
    <3>1. dest[c] \in Versions
      BY <1>1 DEF TypeOK
    <3>2. \A v \in Versions : /\ staleFor[v] \in Nat /\ staleFor'[v] \in Nat
                              /\ staleFor'[v] <= staleFor[v] + 1
      BY <1>4
    <3> QED BY <1>5, <1>11, <3>1, <3>2
  <2>2. Proper(prog[c]) => staleFor[dest[c]] <= age[c]
    BY <1>1, <1>11 DEF HandFresh
  <2>3. ASSUME NEW k \in Keys, prog[c] = <<Do("promote", k)>>
        PROVE  staleFor'[dest[c]] <= MaxOp + Ttl[k] - 1 + age'[c]
    <3>1. staleFor[dest[c]] <= MaxOp + Ttl[k] - 1 + age[c] /\ Ttl[k] \in Nat
      BY <1>1, <2>3, CacheNumbers DEF HandFresh
    <3> QED BY <1>3, <2>1, <3>1
  <2> QED BY <2>1, <2>2, <2>3
<1>12. HandFresh'
  <2>1. ASSUME NEW c \in Clients
        PROVE  /\ Proper(prog'[c]) /\ prog'[c] # <<>> => staleFor'[dest'[c]] <= age'[c]
               /\ \A k \in Keys : prog'[c] = <<Do("promote", k)>> =>
                     staleFor'[dest'[c]] <= MaxOp + Ttl[k] - 1 + age'[c]
    <3>1. CASE Idle(c)
      BY <1>2, <3>1, LookingIs DEF Idle, ReadSteps
    <3>2. CASE ~Idle(c)
      BY <1>2, <1>11, <3>2
    <3> QED BY <3>1, <3>2
  <2> QED BY <2>1 DEF HandFresh, Idle
<1>13. ASSUME NEW e \in Entries, NEW n \in Nat, Live(Aged(e)),
              Live(e) => staleFor[e.version] + e.left <= n
       PROVE  staleFor'[Aged(e).version] + Aged(e).left <= n
  <2>1. /\ Live(e) /\ Aged(e).version = e.version /\ Aged(e).left = e.left - 1
        /\ e.version \in Versions /\ e.left \in Nat
    BY <1>13, AgedEntry, LongestIs DEF Entries
  <2>2. staleFor[e.version] \in Nat /\ staleFor'[e.version] \in Nat
        /\ staleFor'[e.version] <= staleFor[e.version] + 1
    <3>1. \A v \in Versions : /\ staleFor[v] \in Nat /\ staleFor'[v] \in Nat
                              /\ staleFor'[v] <= staleFor[v] + 1
      BY <1>4
    <3> QED BY <2>1, <3>1
  <2>3. staleFor[e.version] + e.left <= n
    BY <1>13, <2>1
  <2>4. staleFor'[e.version] + (e.left - 1) <= n
    BY <2>1, <2>2, <2>3
  <2> QED BY <2>1, <2>4
<1>14. ASSUME NEW k \in Keys, Live(l2'[k])
       PROVE  staleFor'[l2'[k].version] + l2'[k].left <= MaxOp + Ttl[k]
  <2>1. MaxOp + Ttl[k] \in Nat
    BY CacheNumbers
  <2> QED BY <1>1, <1>7, <1>13, <1>14, <2>1 DEF RedisFresh
<1>15. ASSUME NEW r \in Replicas, NEW k \in Keys, Live(l1'[r][k])
       PROVE  staleFor'[l1'[r][k].version] + l1'[r][k].left <= L1Bound(k)
  <2>1. L1Bound(k) \in Nat
    BY CacheNumbers DEF L1Bound
  <2> QED BY <1>1, <1>7, <1>13, <1>15, <2>1 DEF L1Fresh
<1>16. RedisFresh' /\ L1Fresh'
  BY <1>14, <1>15 DEF RedisFresh, L1Fresh, Live
<1> QED BY <1>8, <1>9, <1>10, <1>12, <1>16 DEF StaleInv

LEMMA StaleInvKept == StaleInv /\ [Next]_vars => StaleInv'
<1> SUFFICES ASSUME StaleInv, [Next]_vars PROVE StaleInv'
  OBVIOUS
<1>1. ASSUME NEW c \in Clients, Read(c) PROVE StaleInv'
  BY <1>1, StartReadKeeps DEF Read
<1>2. ASSUME NEW c \in Clients, Steps(c) PROVE StaleInv'
  BY <1>2, RedisFailsKeeps, GetFromRedisKeeps, PutL1Keeps, PutRedisKeeps, SameCachesKeeps,
     ReadDatabaseKeeps DEF Steps
<1>3. CASE UNCHANGED vars
  <2>1. /\ TypeOK' /\ Programs' /\ NewestIsFresh'
    BY <1>3 DEF vars, StaleInv, TypeOK, Programs, NewestIsFresh
  <2>2. HandFresh' /\ RedisFresh' /\ L1Fresh'
    BY <1>3 DEF vars, StaleInv, HandFresh, RedisFresh, L1Fresh, Live, Idle
  <2> QED BY <2>1, <2>2 DEF StaleInv
<1> QED BY <1>1, <1>2, <1>3, WriteKeeps, TickKeeps DEF Next

\* A live entry in Redis or in an L1 is at most StaleBound old: its bound less
\* the life it has left.
LEMMA StaleInvImplies == StaleInv => CacheInv
<1> SUFFICES ASSUME StaleInv PROVE CacheInv
  OBVIOUS
<1>1. ASSUME NEW k \in Keys, NEW e \in Cached(k)
      PROVE  staleFor[e.version] <= StaleBound(k)
  <2>1. /\ MaxOp \in Nat /\ Ttl[k] \in Nat \ {0} /\ PromoteTtl \in Nat \ {0}
    BY CacheNumbers
  <2>2. /\ Live(e) /\ e \in Entries
        /\ staleFor[e.version] + e.left <= L1Bound(k)
    <3>1. CASE e = l2[k]
      <4>1. Live(e) /\ e \in Entries /\ staleFor[e.version] + e.left <= MaxOp + Ttl[k]
        BY <3>1 DEF Cached, StaleInv, TypeOK, RedisFresh
      <4>2. staleFor[e.version] \in Nat /\ e.left \in Nat
        BY <4>1, LongestIs DEF Entries, StaleInv, TypeOK
      <4> QED BY <2>1, <4>1, <4>2 DEF L1Bound
    <3>2. CASE e # l2[k]
      BY <3>2 DEF Cached, StaleInv, TypeOK, L1Fresh
    <3> QED BY <3>1, <3>2
  <2>3. staleFor[e.version] \in Nat /\ e.left \in Nat /\ e.left > 0
    BY <2>2, LongestIs DEF Entries, StaleInv, TypeOK, Live
  <2> QED BY <2>1, <2>2, <2>3 DEF L1Bound, StaleBound
<1>2. BoundedStaleness
  BY <1>1 DEF BoundedStaleness
<1> QED BY <1>2 DEF StaleInv, CacheInv

\* Whatever requests race and whatever Redis calls are lost, every cached row
\* is of its type and no cache shows a version that was superseded longer ago
\* than the lives given by the service and by the promotion account for
\* (MultiLevelCache.Get and Set, CachedTaskService).
THEOREM StalenessBounded == Spec => []CacheInv
<1>1. Init => StaleInv
  BY StaleInit
<1>2. StaleInv /\ [Next]_vars => StaleInv'
  BY StaleInvKept
<1>3. StaleInv => CacheInv
  BY StaleInvImplies
<1> QED BY <1>1, <1>2, <1>3, PTL DEF Spec
-----------------------------------------------------------------------------
(***************************************************************************)
(* The cause of staleness.  As long as nothing has happened that may leave *)
(* a cache stale, at most one request is under way that writes, and then   *)
(* nothing reads; and an entry that does not show the row is one that the  *)
(* writer is still going to drop.                                          *)
(***************************************************************************)
Has(s, what, k) == \E i \in 1..Len(s) : s[i].do \in what /\ s[i].key = k

FillSteps == {"l1set", "l2set", "promote"}
DropSteps == {"l2del", "keys", "del"}

Shows(e, k) == e.version = row.version /\ (k = "task" => row.live)

Writers ==
    /\ row.version = 0 => ~row.live
    /\ \A c \in writing : c \in Clients /\ prog[c] # <<>> /\ Proper(prog[c])

OneWriter == writing # {} => \A c \in Clients \ writing : prog[c] = <<>>

\* What is going to be cached is the row.
HandShows ==
    \A c \in Clients :
        prog[c] # <<>> /\ (Proper(prog[c]) \/ Looking(prog[c], "promote")) =>
            /\ dest[c] = row.version
            /\ Has(prog[c], FillSteps, "task") => row.live

RedisShows ==
    \A k \in Keys : Live(l2[k]) =>
        Shows(l2[k], k) \/ \E c \in writing : Has(prog[c], DropSteps, k)

L1Shows ==
    \A r \in Replicas : \A k \in Keys : Live(l1[r][k]) =>
        Shows(l1[r][k], k) \/ \E c \in writing : Home[c] = r /\ Has(prog[c], {"l1del"}, k)

Undisturbed == OneWriter /\ HandShows /\ RedisShows /\ L1Shows

CauseInv == StaleInv /\ Writers /\ (~excused => Undisturbed)
-----------------------------------------------------------------------------
LEMMA HasEmpty == ASSUME NEW what, NEW k PROVE ~Has(<<>>, what, k)
BY DEF Has

LEMMA HasTail ==
    ASSUME NEW s \in Seq(Instr), s # <<>>, NEW what, NEW k
    PROVE  Has(s, what, k) <=> \/ Head(s).do \in what /\ Head(s).key = k
                               \/ Has(Tail(s), what, k)
<1>1. /\ Head(s) = s[1] /\ Len(s) \in Nat \ {0} /\ Len(Tail(s)) = Len(s) - 1
      /\ \A i \in 1..(Len(s) - 1) : Tail(s)[i] = s[i + 1]
  OBVIOUS
<1>2. ASSUME Has(s, what, k), ~(Head(s).do \in what /\ Head(s).key = k)
      PROVE  Has(Tail(s), what, k)
  <2>1. PICK i \in 1..Len(s) : s[i].do \in what /\ s[i].key = k
    BY <1>2 DEF Has
  <2>2. i # 1
    BY <1>1, <1>2, <2>1
  <2>3. i - 1 \in 1..Len(Tail(s)) /\ (i - 1) + 1 = i
    BY <1>1, <2>2
  <2>4. Tail(s)[i - 1] = s[i]
    BY <1>1, <2>3
  <2> QED BY <2>1, <2>3, <2>4 DEF Has
<1>3. ASSUME Head(s).do \in what /\ Head(s).key = k
      PROVE  Has(s, what, k)
  <2>1. 1 \in 1..Len(s)
    BY <1>1
  <2> QED BY <1>1, <1>3, <2>1 DEF Has
<1>4. ASSUME Has(Tail(s), what, k)
      PROVE  Has(s, what, k)
  <2>1. PICK i \in 1..Len(Tail(s)) : Tail(s)[i].do \in what /\ Tail(s)[i].key = k
    BY <1>4 DEF Has
  <2>2. i + 1 \in 1..Len(s) /\ Tail(s)[i] = s[i + 1]
    BY <1>1
  <2> QED BY <2>1, <2>2 DEF Has
<1> QED BY <1>2, <1>3, <1>4

LEMMA HasConcat ==
    ASSUME NEW s \in Seq(Instr), NEW t \in Seq(Instr), NEW what, NEW k
    PROVE  Has(s \o t, what, k) <=> Has(s, what, k) \/ Has(t, what, k)
<1>1. /\ Len(s) \in Nat /\ Len(t) \in Nat /\ Len(s \o t) = Len(s) + Len(t)
      /\ \A i \in 1..Len(s) : (s \o t)[i] = s[i]
      /\ \A i \in 1..Len(t) : (s \o t)[Len(s) + i] = t[i]
  OBVIOUS
<1>2. ASSUME Has(s \o t, what, k), ~Has(s, what, k)
      PROVE  Has(t, what, k)
  <2>1. PICK i \in 1..Len(s \o t) : (s \o t)[i].do \in what /\ (s \o t)[i].key = k
    BY <1>2 DEF Has
  <2>2. i \notin 1..Len(s)
    <3> SUFFICES ASSUME i \in 1..Len(s) PROVE FALSE
      OBVIOUS
    <3>1. (s \o t)[i] = s[i]
      BY <1>1
    <3> QED BY <1>2, <2>1, <3>1 DEF Has
  <2>3. i - Len(s) \in 1..Len(t) /\ Len(s) + (i - Len(s)) = i
    BY <1>1, <2>2
  <2>4. (s \o t)[i] = t[i - Len(s)]
    BY <1>1, <2>3
  <2> QED BY <2>1, <2>3, <2>4 DEF Has
<1>3. ASSUME Has(s, what, k)
      PROVE  Has(s \o t, what, k)
  <2>1. PICK i \in 1..Len(s) : s[i].do \in what /\ s[i].key = k
    BY <1>3 DEF Has
  <2>2. i \in 1..Len(s \o t) /\ (s \o t)[i] = s[i]
    BY <1>1
  <2> QED BY <2>1, <2>2 DEF Has
<1>4. ASSUME Has(t, what, k)
      PROVE  Has(s \o t, what, k)
  <2>1. PICK i \in 1..Len(t) : t[i].do \in what /\ t[i].key = k
    BY <1>4 DEF Has
  <2>2. Len(s) + i \in 1..Len(s \o t) /\ (s \o t)[Len(s) + i] = t[i]
    BY <1>1
  <2> QED BY <2>1, <2>2 DEF Has
<1> QED BY <1>2, <1>3, <1>4

LEMMA HasOne ==
    ASSUME NEW d, NEW what, NEW k
    PROVE  Has(<<d>>, what, k) <=> d.do \in what /\ d.key = k
<1>1. Len(<<d>>) = 1 /\ <<d>>[1] = d /\ 1..1 = {1}
  OBVIOUS
<1> QED BY <1>1 DEF Has

\* What the parts of the programs contain.
LEMMA HasFill ==
    ASSUME NEW x \in Keys, NEW what, NEW k
    PROVE  Has(Fill(x), what, k) => x = k
<1>1. Fill(x) = <<Do("l1set", x), Do("l2set", x)>>
  BY DEF Fill, IfModelled
<1>2. \A i \in 1..Len(Fill(x)) : Fill(x)[i].key = x
  BY <1>1 DEF Do
<1> QED BY <1>2 DEF Has

LEMMA HasDrop ==
    ASSUME NEW k \in Keys
    PROVE  /\ Has(Drop(k), {"l1del"}, k) /\ Has(Drop(k), DropSteps, k)
           /\ Has(DropMatching(k), {"l1del"}, k) /\ Has(DropMatching(k), DropSteps, k)
<1>1. /\ Drop(k) = <<Do("l1del", k), Do("l2del", k)>>
      /\ DropMatching(k) = <<Do("l1del", k), Do("keys", k), Do("del", k)>>
  BY DEF Drop, DropMatching, IfModelled
<1>2. /\ 1 \in 1..Len(Drop(k)) /\ Drop(k)[1] = Do("l1del", k)
      /\ 2 \in 1..Len(Drop(k)) /\ Drop(k)[2] = Do("l2del", k)
      /\ 1 \in 1..Len(DropMatching(k)) /\ DropMatching(k)[1] = Do("l1del", k)
      /\ 2 \in 1..Len(DropMatching(k)) /\ DropMatching(k)[2] = Do("keys", k)
  BY <1>1
<1>3. \A what : Do(what, k).do = what /\ Do(what, k).key = k
  BY DEF Do
<1> QED BY <1>2, <1>3 DEF Has, DropSteps

LEMMA DropFillsNothing ==
    ASSUME NEW x, NEW k
    PROVE  ~Has(Drop(x), FillSteps, k) /\ ~Has(DropMatching(x), FillSteps, k)
<1>1. \A what : Do(what, x).do = what
  BY DEF Do
<1>2. \A i \in 1..Len(Drop(x)) : Drop(x)[i].do \notin FillSteps
  BY <1>1 DEF Drop, IfModelled, FillSteps
<1>3. \A i \in 1..Len(DropMatching(x)) : DropMatching(x)[i].do \notin FillSteps
  BY <1>1 DEF DropMatching, IfModelled, FillSteps
<1> QED BY <1>2, <1>3 DEF Has

LEMMA ProgramParts ==
    /\ \A k : /\ Fill(k) \in Seq(Instr) /\ Drop(k) \in Seq(Instr)
              /\ DropMatching(k) \in Seq(Instr)
    /\ DropLists \in Seq(Instr)
BY ProperFill DEF Proper, DropLists

\* A write drops every key there is, but for the task just created.
LEMMA WriteDrops ==
    ASSUME "user" \notin Keys, NEW k \in Keys, NEW what, what = {"l1del"} \/ what = DropSteps
    PROVE  Has(ChangeProgram, what, k) /\ (k # "task" => Has(CreateProgram, what, k))
<1>1. k \in {"task", "page", "all"}
  BY CacheNumbers DEF CacheKeys
<1>2. Has(Drop(k), what, k) /\ Has(DropMatching(k), what, k)
  BY HasDrop
<1>3. k # "task" => Has(DropLists, what, k)
  BY <1>1, <1>2, ProgramParts, HasConcat DEF DropLists
<1> QED BY <1>1, <1>2, <1>3, ProgramParts, HasConcat DEF ChangeProgram, CreateProgram

LEMMA ChangeFillsNothing == ~Has(ChangeProgram, FillSteps, "task")
<1>1. ~Has(DropLists, FillSteps, "task")
  BY DropFillsNothing, ProgramParts, HasConcat DEF DropLists
<1> QED BY <1>1, DropFillsNothing, ProgramParts, HasConcat DEF ChangeProgram
-----------------------------------------------------------------------------
\* The end of a step of a program that fills and drops keys.
GoesOn(c, p) ==
    /\ ~Idle(c) /\ Become(c, p) /\ Finish(c) /\ row' = row
    /\ Proper(p) /\ (p # <<>> => Proper(prog[c]))

LEMMA GoOn ==
    ASSUME StaleInv, Writers, NEW c \in Clients, NEW p, GoesOn(c, p)
    PROVE  /\ Writers' /\ prog'[c] = p /\ writing' \subseteq writing
           /\ \A x \in Clients \ {c} :
                 /\ prog'[x] = prog[x] /\ dest'[x] = dest[x]
                 /\ x \in writing => x \in writing'
           /\ p # <<>> => dest' = dest /\ writing' = writing
<1>1. /\ dest \in [Clients -> Versions] /\ prog \in [Clients -> Seq(Instr)]
      /\ writing \subseteq Clients
  BY DEF StaleInv, TypeOK
<1>2. prog'[c] = p /\ \A x \in Clients \ {c} : prog'[x] = prog[x]
  BY <1>1 DEF GoesOn, Become
<1>3. CASE p = <<>>
  <2>1. writing' = writing \ {c} /\ dest' = [dest EXCEPT ![c] = 0]
    BY <1>2, <1>3 DEF GoesOn, Finish, Idle
  <2>2. Writers'
    BY <1>2, <2>1 DEF Writers, GoesOn
  <2> QED BY <1>1, <1>2, <1>3, <2>1, <2>2
<1>4. CASE p # <<>>
  <2>1. writing' = writing /\ dest' = dest
    BY <1>2, <1>4 DEF GoesOn, Finish, Idle
  <2>2. Writers'
    BY <1>2, <1>4, <2>1 DEF Writers, GoesOn
  <2> QED BY <1>1, <1>2, <1>4, <2>1, <2>2
<1> QED BY <1>3, <1>4

LEMMA GoOnHands ==
    ASSUME StaleInv, Writers, OneWriter, HandShows, NEW c \in Clients, NEW p, GoesOn(c, p),
           Has(p, FillSteps, "task") => Has(prog[c], FillSteps, "task")
    PROVE  OneWriter' /\ HandShows'
<1>1. /\ prog'[c] = p /\ writing' \subseteq writing /\ row' = row
      /\ \A x \in Clients \ {c} :
            /\ prog'[x] = prog[x] /\ dest'[x] = dest[x]
            /\ x \in writing => x \in writing'
      /\ p # <<>> => dest' = dest /\ writing' = writing
      /\ prog[c] # <<>> /\ Proper(p) /\ (p # <<>> => Proper(prog[c]))
  BY GoOn DEF GoesOn, Idle
<1>2. ASSUME writing' # {}, NEW x \in Clients \ writing'
      PROVE  prog'[x] = <<>>
  <2>1. CASE x = c /\ p = <<>>
    BY <1>1, <2>1
  <2>2. CASE x # c \/ p # <<>>
    <3>1. x \notin writing /\ writing # {}
      BY <1>1, <1>2, <2>2
    <3>2. prog[x] = <<>>
      BY <3>1 DEF OneWriter
    <3> QED BY <1>1, <3>2
  <2> QED BY <2>1, <2>2
<1>3. OneWriter'
  BY <1>2 DEF OneWriter
<1>4. ASSUME NEW x \in Clients, prog'[x] # <<>>,
             Proper(prog'[x]) \/ Looking(prog'[x], "promote")
      PROVE  dest'[x] = row.version /\ (Has(prog'[x], FillSteps, "task") => row.live)
  <2>1. CASE x = c
    BY <1>1, <1>4, <2>1 DEF HandShows
  <2>2. CASE x # c
    BY <1>1, <1>4, <2>2 DEF HandShows
  <2> QED BY <2>1, <2>2
<1>5. HandShows'
  BY <1>1, <1>4 DEF HandShows
<1> QED BY <1>3, <1>5

\* What the client is still going to do, it is still going to do.
LEMMA StillHas ==
    ASSUME StaleInv, Writers, NEW c \in Clients, NEW p, GoesOn(c, p),
           NEW x \in writing, NEW what, NEW k, Has(prog[x], what, k),
           x = c => Has(p, what, k)
    PROVE  x \in writing' /\ Has(prog'[x], what, k)
<1>1. x \in Clients
  BY DEF Writers
<1>2. CASE x = c
  <2>1. p # <<>>
    BY <1>2, HasEmpty
  <2> QED BY <1>2, <2>1, GoOn
<1>3. CASE x # c
  BY <1>1, <1>3, GoOn
<1> QED BY <1>2, <1>3

\* In an undisturbed run a request that looks is not alone with a writer.
LEMMA NobodyWrites ==
    ASSUME Writers, OneWriter, NEW c \in Clients, prog[c] # <<>>, ~Proper(prog[c])
    PROVE  writing = {}
BY DEF Writers, OneWriter

LEMMA CauseInit == Init => CauseInv
<1> SUFFICES ASSUME Init PROVE CauseInv
  OBVIOUS
<1>1. ~Live(NoEntry)
  BY DEF NoEntry, Live
<1>2. Writers /\ OneWriter /\ HandShows /\ RedisShows /\ L1Shows
  BY <1>1 DEF Init, Writers, OneWriter, HandShows, RedisShows, L1Shows
<1> QED BY <1>2, StaleInit DEF CauseInv, Undisturbed

LEMMA CauseStartRead ==
    ASSUME CauseInv, NEW c \in Clients, NEW k \in Keys, StartRead(c, k), StaleInv'
    PROVE  CauseInv'
<1>1. /\ prog[c] = <<>> /\ prog' = [prog EXCEPT ![c] = <<Do("l2get", k)>>]
      /\ UNCHANGED <<row, l1, l2, writing, dest>> /\ Writers
      /\ prog \in [Clients -> Seq(Instr)]
  BY DEF StartRead, Idle, Become, AfterL1Miss, CauseInv, StaleInv, TypeOK
<1>2. /\ prog'[c] = <<Do("l2get", k)>> /\ \A x \in Clients \ {c} : prog'[x] = prog[x]
  BY <1>1
<1>3. c \notin writing
  BY <1>1 DEF Writers
<1>4. Writers'
  BY <1>1, <1>2, <1>3 DEF Writers
<1>5. ASSUME ~excused'
      PROVE  Undisturbed'
  <2>1. writing = {} /\ Undisturbed
    BY <1>5 DEF StartRead, CauseInv
  <2>2. /\ ~Proper(prog'[c]) /\ ~Looking(prog'[c], "promote")
    <3>1. ~Proper(<<Do("l2get", k)>>)
      BY LookingIs DEF ReadSteps
    <3>2. \A x \in Keys : <<Do("l2get", k)>> # <<Do("promote", x)>>
      BY DEF Do
    <3> QED BY <1>2, <3>1, <3>2 DEF Looking
  <2>3. OneWriter'
    BY <1>1, <2>1 DEF OneWriter
  <2>4. HandShows'
    BY <1>1, <1>2, <2>1, <2>2 DEF Undisturbed, HandShows
  <2>5. RedisShows' /\ L1Shows'
    BY <1>1, <2>1 DEF Undisturbed, RedisShows, L1Shows, Shows, Live
  <2> QED BY <2>3, <2>4, <2>5 DEF Undisturbed
<1> QED BY <1>4, <1>5 DEF CauseInv

LEMMA CauseTick ==
    ASSUME CauseInv, Tick, StaleInv'
    PROVE  CauseInv'
<1>1. /\ UNCHANGED <<row, prog, writing, dest, excused>> /\ StaleInv /\ Writers
      /\ l1' = [r \in Replicas |-> [k \in Keys |-> Aged(l1[r][k])]]
      /\ l2' = [k \in Keys |-> Aged(l2[k])]
  BY DEF Tick, CauseInv
<1>2. /\ \A k \in Keys : Live(l2'[k]) => Live(l2[k]) /\ l2'[k].version = l2[k].version
      /\ \A r \in Replicas, k \in Keys :
            Live(l1'[r][k]) => Live(l1[r][k]) /\ l1'[r][k].version = l1[r][k].version
  <2>1. /\ \A k \in Keys : l2[k] \in Entries
        /\ \A r \in Replicas, k \in Keys : l1[r][k] \in Entries
    BY <1>1 DEF StaleInv, TypeOK
  <2> QED BY <1>1, <2>1, AgedEntry
<1>3. Writers'
  BY <1>1 DEF Writers
<1>4. ASSUME ~excused'
      PROVE  Undisturbed'
  <2>1. Undisturbed
    BY <1>1, <1>4 DEF CauseInv
  <2>2. OneWriter' /\ HandShows'
    BY <1>1, <2>1 DEF Undisturbed, OneWriter, HandShows
  <2>3. RedisShows' /\ L1Shows'
    BY <1>1, <1>2, <2>1 DEF Undisturbed, RedisShows, L1Shows, Shows, Live
  <2> QED BY <2>2, <2>3 DEF Undisturbed
<1> QED BY <1>3, <1>4 DEF CauseInv

\* A write that is counted as undisturbed finds every request idle and nothing
\* in the other replicas; what it finds in its own and in Redis it will drop.
LEMMA CauseStartWrite ==
    ASSUME CauseInv, "user" \notin Keys, NEW c \in Clients, NEW newRow, NEW p,
           StartWrite(c, newRow, p), StaleInv', Proper(p),
           newRow.version = 0 => ~newRow.live,
           Has(p, FillSteps, "task") => newRow.live,
           \A k \in Keys, what \in {{"l1del"}, DropSteps} :
               Has(p, what, k) \/ (k = "task" /\ ~row.live)
    PROVE  CauseInv'
<1>1. /\ prog[c] = <<>> /\ row' = newRow /\ l1' = l1 /\ l2' = l2
      /\ Writers /\ StaleInv
      /\ prog' = [prog EXCEPT ![c] = p] /\ prog \in [Clients -> Seq(Instr)]
      /\ dest \in [Clients -> Versions]
  BY DEF StartWrite, Idle, Become, CauseInv, StaleInv, TypeOK
<1>2. /\ prog'[c] = p /\ \A x \in Clients \ {c} : prog'[x] = prog[x]
  BY <1>1
<1>3. /\ p # <<>> => dest'[c] = newRow.version /\ writing' = writing \cup {c}
      /\ p = <<>> => writing' = writing
  BY <1>1 DEF StartWrite
<1>4. c \notin writing
  BY <1>1 DEF Writers
<1>5. Writers'
  BY <1>1, <1>2, <1>3, <1>4 DEF Writers
<1>6. ASSUME ~excused'
      PROVE  Undisturbed'
  <2>1. /\ Undisturbed
        /\ \A x \in Clients : prog[x] = <<>>
        /\ \A r \in Replicas \ {Home[c]}, k \in Keys : ~Live(l1[r][k])
    BY <1>6 DEF StartWrite, CauseInv, AllIdle, Idle
  <2>2. writing = {}
    BY <1>1, <2>1 DEF Writers
  <2>3. OneWriter'
    BY <1>2, <1>3, <2>1, <2>2 DEF OneWriter
  <2>4. HandShows'
    <3>1. ASSUME NEW x \in Clients, prog'[x] # <<>>
          PROVE  /\ dest'[x] = row'.version
                 /\ Has(prog'[x], FillSteps, "task") => row'.live
      <4>1. x = c
        BY <1>2, <2>1, <3>1
      <4> QED BY <1>1, <1>2, <1>3, <3>1, <4>1
    <3> QED BY <3>1 DEF HandShows
  <2>5. ASSUME NEW k \in Keys, NEW what \in {{"l1del"}, DropSteps},
               k = "task" => row.live
        PROVE  c \in writing' /\ Has(prog'[c], what, k)
    <3>1. Has(p, what, k)
      BY <2>5
    <3> QED BY <1>2, <1>3, <3>1, HasEmpty
  <2>6. RedisShows'
    <3>1. ASSUME NEW k \in Keys, Live(l2'[k])
          PROVE  \E x \in writing' : Has(prog'[x], DropSteps, k)
      <4>1. Shows(l2[k], k)
        BY <1>1, <2>1, <2>2, <3>1 DEF Undisturbed, RedisShows
      <4> QED BY <2>5, <4>1 DEF Shows
    <3> QED BY <3>1 DEF RedisShows, Live
  <2>7. L1Shows'
    <3>1. ASSUME NEW r \in Replicas, NEW k \in Keys, Live(l1'[r][k])
          PROVE  \E x \in writing' : Home[x] = r /\ Has(prog'[x], {"l1del"}, k)
      <4>1. r = Home[c]
        BY <1>1, <2>1, <3>1
      <4>2. Shows(l1[r][k], k)
        BY <1>1, <2>1, <2>2, <3>1 DEF Undisturbed, L1Shows
      <4> QED BY <2>5, <4>1, <4>2 DEF Shows
    <3> QED BY <3>1 DEF L1Shows, Live
  <2> QED BY <2>3, <2>4, <2>6, <2>7 DEF Undisturbed
<1> QED BY <1>5, <1>6 DEF CauseInv

LEMMA CauseWrite ==
    ASSUME CauseInv, "user" \notin Keys, NEW c \in Clients, Write(c), StaleInv'
    PROVE  CauseInv'
<1>1. /\ row.version \in Nat /\ (row.version = 0 => ~row.live)
  BY CacheNumbers DEF CauseInv, Writers, StaleInv, TypeOK, Versions
<1>2. Proper(CreateProgram) /\ Proper(ChangeProgram)
  BY ProperPrograms
<1>3. \A k \in Keys, what \in {{"l1del"}, DropSteps} :
        Has(ChangeProgram, what, k) /\ (k # "task" => Has(CreateProgram, what, k))
  BY WriteDrops
<1>4. ASSUME NEW live, StartWrite(c, Changed(live), ChangeProgram)
      PROVE  CauseInv'
  <2>1. Changed(live).version # 0
    BY <1>1 DEF Changed
  <2> QED BY <1>2, <1>3, <1>4, <2>1, ChangeFillsNothing, CauseStartWrite
<1>5. ASSUME StartWrite(c, row, ChangeProgram)
      PROVE  CauseInv'
  BY <1>1, <1>2, <1>3, <1>5, ChangeFillsNothing, CauseStartWrite
<1>6. ASSUME row.version = 0, StartWrite(c, Changed(TRUE), CreateProgram)
      PROVE  CauseInv'
  <2>1. Changed(TRUE).version # 0 /\ Changed(TRUE).live
    BY <1>1 DEF Changed
  <2>2. ~row.live
    BY <1>1, <1>6
  <2> QED BY <1>2, <1>3, <1>6, <2>1, <2>2, CauseStartWrite
<1> QED BY <1>4, <1>5, <1>6 DEF Write, CreateTask, UpdateTask, DeleteTask
-----------------------------------------------------------------------------
\* Steps of a request that looks: nobody writes, if undisturbed.
LEMMA CauseLooks ==
    ASSUME CauseInv, NEW c \in Clients, NEW p, Become(c, p), StaleInv',
           prog[c] # <<>>, ~Proper(prog[c]), writing' = writing \/ writing' = writing \ {c},
           \A x \in Clients \ {c} : dest'[x] = dest[x],
           row' = row, ~excused' => ~excused,
           ~excused' /\ writing = {} => RedisShows' /\ L1Shows',
           ~excused' /\ writing = {} /\ p # <<>> /\ (Proper(p) \/ Looking(p, "promote")) =>
               /\ dest'[c] = row.version
               /\ Has(p, FillSteps, "task") => row.live
    PROVE  CauseInv'
<1>1. /\ Writers /\ prog \in [Clients -> Seq(Instr)]
  BY DEF CauseInv, StaleInv, TypeOK
<1>2. /\ prog'[c] = p /\ \A x \in Clients \ {c} : prog'[x] = prog[x]
  BY <1>1 DEF Become
<1>3. c \notin writing /\ writing' = writing
  BY <1>1 DEF Writers
<1>4. Writers'
  BY <1>1, <1>2, <1>3 DEF Writers
<1>5. ASSUME ~excused'
      PROVE  Undisturbed'
  <2>1. Undisturbed /\ writing = {}
    BY <1>1, <1>5, NobodyWrites DEF CauseInv, Undisturbed
  <2>2. OneWriter'
    BY <1>3, <2>1 DEF OneWriter
  <2>3. HandShows'
    <3>1. ASSUME NEW x \in Clients, prog'[x] # <<>>,
                 Proper(prog'[x]) \/ Looking(prog'[x], "promote")
          PROVE  dest'[x] = row.version /\ (Has(prog'[x], FillSteps, "task") => row.live)
      <4>1. CASE x = c
        BY <1>2, <1>5, <2>1, <3>1, <4>1
      <4>2. CASE x # c
        BY <1>2, <2>1, <3>1, <4>2 DEF Undisturbed, HandShows
      <4> QED BY <4>1, <4>2
    <3> QED BY <3>1 DEF HandShows
  <2> QED BY <1>5, <2>1, <2>2, <2>3 DEF Undisturbed
<1> QED BY <1>4, <1>5 DEF CauseInv

\* The caches of an undisturbed run in which nobody writes.
LEMMA QuietCaches ==
    ASSUME Undisturbed, writing = {}, row' = row
    PROVE  /\ \A k \in Keys : Live(l2[k]) => Shows(l2[k], k)
           /\ \A r \in Replicas, k \in Keys : Live(l1[r][k]) => Shows(l1[r][k], k)
           /\ l2' = l2 => RedisShows'
           /\ l1' = l1 => L1Shows'
<1>1. /\ \A k \in Keys : Live(l2[k]) => Shows(l2[k], k)
      /\ \A r \in Replicas, k \in Keys : Live(l1[r][k]) => Shows(l1[r][k], k)
  BY DEF Undisturbed, RedisShows, L1Shows
<1> QED BY <1>1 DEF RedisShows, L1Shows, Shows, Live

\* The step of a client that looks.
LEMMA AtLooks ==
    ASSUME StaleInv, NEW c \in Clients, NEW what \in ReadSteps, At(c, what)
    PROVE  /\ prog[c] # <<>> /\ ~Proper(prog[c]) /\ KeyOf(c) \in Keys
           /\ prog[c] = <<Do(what, KeyOf(c))>> /\ Tail(prog[c]) = <<>>
           /\ Looking(prog[c], what)
<1>1. prog[c] # <<>> /\ Head(prog[c]).do = what /\ ProgramOK(prog[c])
  BY StepHead DEF At, Idle
<1>2. /\ KeyOf(c) \in Keys /\ prog[c] = <<Do(what, KeyOf(c))>> /\ Tail(prog[c]) = <<>>
      /\ ~Proper(prog[c])
  BY <1>1, AtHead DEF KeyOf
<1> QED BY <1>1, <1>2 DEF Looking

LEMMA CauseRedisMiss ==
    ASSUME CauseInv, NEW c \in Clients, At(c, "l2get"), StaleInv',
           Become(c, AfterL2Miss(KeyOf(c))),
           UNCHANGED <<row, l1, l2, dest, writing>>, ~excused' => ~excused
    PROVE  CauseInv'
<1> DEFINE p == <<Do("dbread", KeyOf(c))>>
<1>1. /\ prog[c] # <<>> /\ ~Proper(prog[c]) /\ KeyOf(c) \in Keys
  BY AtLooks DEF CauseInv, ReadSteps
<1>2. ~Proper(p) /\ ~Looking(p, "promote")
  <2>1. ~Proper(p)
    BY <1>1, LookingIs DEF ReadSteps
  <2>2. \A x \in Keys : p # <<Do("promote", x)>>
    BY DEF Do
  <2> QED BY <2>1, <2>2 DEF Looking
<1>3. ~excused' /\ writing = {} => RedisShows' /\ L1Shows'
  BY QuietCaches DEF CauseInv
<1>4. Become(c, p)
  BY DEF AfterL2Miss
<1> QED BY <1>1, <1>2, <1>3, <1>4, CauseLooks

LEMMA CauseGetFromRedis ==
    ASSUME CauseInv, NEW c \in Clients, GetFromRedis(c), StaleInv'
    PROVE  CauseInv'
<1> DEFINE k == KeyOf(c)
<1> DEFINE p == <<Do("promote", k)>>
<1>1. /\ At(c, "l2get") /\ UNCHANGED <<row, l1, l2, writing, excused>>
      /\ prog[c] # <<>> /\ ~Proper(prog[c]) /\ k \in Keys
      /\ dest \in [Clients -> Versions]
  BY AtLooks DEF GetFromRedis, CauseInv, ReadSteps, StaleInv, TypeOK
<1>2. CASE Live(l2[k])
  <2>1. /\ dest' = [dest EXCEPT ![c] = l2[k].version] /\ Become(c, p)
    BY <1>2 DEF GetFromRedis
  <2>2. dest'[c] = l2[k].version /\ \A x \in Clients \ {c} : dest'[x] = dest[x]
    BY <1>1, <2>1
  <2>3. ~excused' /\ writing = {} => RedisShows' /\ L1Shows' /\ Shows(l2[k], k)
    BY <1>1, <1>2, QuietCaches DEF CauseInv
  <2>4. Has(p, FillSteps, "task") => k = "task"
    BY HasOne DEF Do
  <2>5. ~excused' /\ writing = {} =>
            /\ dest'[c] = row.version
            /\ Has(p, FillSteps, "task") => row.live
    BY <2>2, <2>3, <2>4 DEF Shows
  <2> HIDE DEF p
  <2> QED BY <1>1, <2>1, <2>2, <2>3, <2>5, CauseLooks
<1>3. CASE ~Live(l2[k])
  BY <1>1, <1>3, CauseRedisMiss DEF GetFromRedis
<1> QED BY <1>2, <1>3

LEMMA CausePromote ==
    ASSUME CauseInv, NEW c \in Clients, Promote(c), StaleInv'
    PROVE  CauseInv'
<1> DEFINE k == KeyOf(c)
<1>1. /\ At(c, "promote") /\ prog[c] # <<>> /\ ~Proper(prog[c]) /\ k \in Keys
      /\ prog[c] = <<Do("promote", k)>> /\ Tail(prog[c]) = <<>> /\ Looking(prog[c], "promote")
      /\ UNCHANGED <<row, l2, excused>> /\ Home[c] \in Replicas
  BY AtLooks, CacheNumbers DEF Promote, CauseInv, ReadSteps
<1>2. Become(c, <<>>)
  BY <1>1 DEF Promote, Advance
<1>3. /\ writing' = writing \ {c} \/ writing' = writing
      /\ \A x \in Clients \ {c} : dest'[x] = dest[x]
  BY DEF Promote, Finish, CauseInv, StaleInv, TypeOK
<1>4. /\ l1' = [l1 EXCEPT ![Home[c]][k] = Entry(dest[c], PromoteTtl)]
      /\ l1 \in [Replicas -> [Keys -> Entries]]
  BY DEF Promote, LifeOfPromoted, CauseInv, StaleInv, TypeOK
<1>5. ASSUME ~excused', writing = {}
      PROVE  RedisShows' /\ L1Shows'
  <2>1. Undisturbed
    BY <1>1, <1>5 DEF CauseInv
  <2>2. /\ dest[c] = row.version /\ (k = "task" => row.live)
    <3>1. Has(prog[c], FillSteps, "task") <=> k = "task"
      BY <1>1, HasOne DEF Do, FillSteps
    <3> QED BY <1>1, <2>1, <3>1 DEF Undisturbed, HandShows
  <2>3. ASSUME NEW r \in Replicas, NEW x \in Keys, Live(l1'[r][x])
        PROVE  Shows(l1'[r][x], x)
    <3>1. CASE r = Home[c] /\ x = k
      BY <1>4, <2>2, <3>1 DEF Shows, Entry
    <3>2. CASE ~(r = Home[c] /\ x = k)
      <4>1. l1'[r][x] = l1[r][x]
        BY <1>4, <3>2
      <4> QED BY <1>1, <1>5, <2>1, <2>3, <4>1, QuietCaches
    <3> QED BY <3>1, <3>2
  <2>4. L1Shows'
    BY <1>1, <2>3 DEF L1Shows, Shows, Live
  <2> QED BY <1>1, <1>5, <2>1, <2>4, QuietCaches
<1> QED BY <1>1, <1>2, <1>3, <1>5, CauseLooks

LEMMA CauseReadDatabase ==
    ASSUME CauseInv, NEW c \in Clients, ReadDatabase(c), StaleInv'
    PROVE  CauseInv'
<1> DEFINE k == KeyOf(c)
<1>1. /\ At(c, "dbread") /\ prog[c] # <<>> /\ ~Proper(prog[c]) /\ k \in Keys
      /\ UNCHANGED <<row, l1, l2, writing, excused>> /\ Become(c, Fill(k))
      /\ (k = "task" => row.live) /\ dest' = [dest EXCEPT ![c] = row.version]
      /\ dest \in [Clients -> Versions]
  BY AtLooks DEF ReadDatabase, CauseInv, ReadSteps, StaleInv, TypeOK
<1>2. dest'[c] = row.version /\ \A x \in Clients \ {c} : dest'[x] = dest[x]
  BY <1>1
<1>3. ~excused' /\ writing = {} => RedisShows' /\ L1Shows'
  BY <1>1, QuietCaches DEF CauseInv
<1>4. Has(Fill(k), FillSteps, "task") => row.live
  BY <1>1, HasFill
<1> QED BY <1>1, <1>2, <1>3, <1>4, CauseLooks

LEMMA CauseReadNothing ==
    ASSUME CauseInv, NEW c \in Clients, ReadNothing(c), StaleInv'
    PROVE  CauseInv'
<1>1. /\ prog[c] # <<>> /\ ~Proper(prog[c]) /\ Become(c, <<>>)
      /\ UNCHANGED <<row, l1, l2, excused>>
  BY AtLooks DEF ReadNothing, Advance, CauseInv, ReadSteps
<1>2. /\ writing' = writing \ {c} \/ writing' = writing
      /\ \A x \in Clients \ {c} : dest'[x] = dest[x]
  BY DEF ReadNothing, Finish, CauseInv, StaleInv, TypeOK
<1>3. ~excused' /\ writing = {} => RedisShows' /\ L1Shows'
  BY <1>1, QuietCaches DEF CauseInv
<1> QED BY <1>1, <1>2, <1>3, CauseLooks
-----------------------------------------------------------------------------
\* Steps of a request that fills and drops keys.  An entry of Redis stays as
\* good as it was if the client still drops what it was going to drop.
LEMMA RedisStillShows ==
    ASSUME StaleInv, Writers, RedisShows, NEW c \in Clients, NEW p, GoesOn(c, p),
           \A k \in Keys : Live(l2'[k]) =>
               \/ Shows(l2'[k], k)
               \/ /\ l2'[k] = l2[k]
                  /\ Has(prog[c], DropSteps, k) => Has(p, DropSteps, k)
    PROVE  RedisShows'
<1>1. ASSUME NEW k \in Keys, Live(l2'[k]), ~Shows(l2'[k], k)
      PROVE  \E x \in writing' : Has(prog'[x], DropSteps, k)
  <2>1. /\ l2'[k] = l2[k] /\ (Has(prog[c], DropSteps, k) => Has(p, DropSteps, k))
    BY <1>1
  <2>2. PICK x \in writing : Has(prog[x], DropSteps, k)
    BY <1>1, <2>1 DEF RedisShows
  <2>3. x \in writing' /\ Has(prog'[x], DropSteps, k)
    BY <2>1, <2>2, StillHas
  <2> QED BY <2>3
<1>2. row' = row
  BY DEF GoesOn
<1> QED BY <1>1, <1>2 DEF RedisShows, Shows, Live

LEMMA L1StillShows ==
    ASSUME StaleInv, Writers, L1Shows, NEW c \in Clients, NEW p, GoesOn(c, p),
           \A r \in Replicas : \A k \in Keys : Live(l1'[r][k]) =>
               \/ Shows(l1'[r][k], k)
               \/ /\ l1'[r][k] = l1[r][k]
                  /\ Home[c] = r /\ Has(prog[c], {"l1del"}, k) => Has(p, {"l1del"}, k)
    PROVE  L1Shows'
<1>1. ASSUME NEW r \in Replicas, NEW k \in Keys, Live(l1'[r][k]), ~Shows(l1'[r][k], k)
      PROVE  \E x \in writing' : Home[x] = r /\ Has(prog'[x], {"l1del"}, k)
  <2>1. /\ l1'[r][k] = l1[r][k]
        /\ Home[c] = r /\ Has(prog[c], {"l1del"}, k) => Has(p, {"l1del"}, k)
    BY <1>1
  <2>2. PICK x \in writing : Home[x] = r /\ Has(prog[x], {"l1del"}, k)
    BY <1>1, <2>1 DEF L1Shows
  <2>3. x \in writing' /\ Has(prog'[x], {"l1del"}, k)
    BY <2>1, <2>2, StillHas
  <2> QED BY <2>2, <2>3
<1>2. row' = row
  BY DEF GoesOn
<1> QED BY <1>1, <1>2 DEF L1Shows, Shows, Live

LEMMA CauseGoesOn ==
    ASSUME CauseInv, NEW c \in Clients, NEW p, GoesOn(c, p), StaleInv',
           ~excused' => ~excused,
           ~excused' => (Has(p, FillSteps, "task") => Has(prog[c], FillSteps, "task")),
           ~excused' /\ Undisturbed => RedisShows' /\ L1Shows'
    PROVE  CauseInv'
<1>1. StaleInv /\ Writers
  BY DEF CauseInv
<1>2. Writers'
  BY <1>1, GoOn
<1>3. ASSUME ~excused'
      PROVE  Undisturbed'
  <2>1. Undisturbed
    BY <1>3 DEF CauseInv
  <2>2. OneWriter' /\ HandShows'
    BY <1>1, <1>3, <2>1, GoOnHands DEF Undisturbed
  <2>3. RedisShows' /\ L1Shows'
    BY <1>3, <2>1
  <2> QED BY <2>2, <2>3 DEF Undisturbed
<1> QED BY <1>2, <1>3 DEF CauseInv

\* The next step, and what remains of the program.
LEMMA NextStep ==
    ASSUME StaleInv, NEW c \in Clients, ~Idle(c), Head(prog[c]).do \in WriteSteps
    PROVE  /\ Proper(prog[c]) /\ prog[c] # <<>> /\ KeyOf(c) \in Keys
           /\ Proper(Tail(prog[c])) /\ Home[c] \in Replicas
           /\ \A what, k : Has(prog[c], what, k) <=>
                 \/ Head(prog[c]).do \in what /\ KeyOf(c) = k
                 \/ Has(Tail(prog[c]), what, k)
<1>1. /\ Proper(prog[c]) /\ prog[c] # <<>> /\ KeyOf(c) \in Keys /\ Home[c] \in Replicas
  BY StepHead
<1>2. Proper(Tail(prog[c])) /\ prog[c] \in Seq(Instr)
  BY <1>1, ProperTail DEF Proper
<1> QED BY <1>1, <1>2, HasTail DEF KeyOf

\* A fill puts the row into the cache, in an undisturbed run.
LEMMA FillShows ==
    ASSUME StaleInv, HandShows, NEW c \in Clients, ~Idle(c), Head(prog[c]).do \in {"l1set", "l2set"},
           NEW ttl
    PROVE  Shows(Entry(dest[c], ttl), KeyOf(c))
<1>1. /\ Proper(prog[c]) /\ prog[c] # <<>> /\ (KeyOf(c) = "task" => Has(prog[c], FillSteps, "task"))
  BY NextStep DEF WriteSteps, FillSteps
<1> QED BY <1>1 DEF HandShows, Shows, Entry

LEMMA CauseSetL1 ==
    ASSUME CauseInv, NEW c \in Clients, SetL1(c), StaleInv'
    PROVE  CauseInv'
<1> DEFINE k == KeyOf(c)
<1> DEFINE p == Tail(prog[c])
<1>1. /\ ~Idle(c) /\ Head(prog[c]).do = "l1set" /\ GoesOn(c, p) /\ StaleInv /\ Writers
      /\ UNCHANGED <<row, l2, excused>> /\ k \in Keys /\ Home[c] \in Replicas
      /\ \A what, x : Has(p, what, x) => Has(prog[c], what, x)
      /\ \A what, x : Has(prog[c], what, x) /\ "l1set" \notin what => Has(p, what, x)
      /\ l1' = [l1 EXCEPT ![Home[c]][k] = Entry(dest[c], Ttl[k])]
      /\ l1 \in [Replicas -> [Keys -> Entries]]
  BY NextStep DEF SetL1, At, GoesOn, Advance, WriteSteps, CauseInv, StaleInv, TypeOK
<1>2. ASSUME ~excused', Undisturbed
      PROVE  RedisShows' /\ L1Shows'
  <2>1. \A x \in Keys : Has(prog[c], DropSteps, x) => Has(p, DropSteps, x)
    BY <1>1 DEF DropSteps
  <2>2. RedisShows'
    BY <1>1, <1>2, <2>1, RedisStillShows DEF Undisturbed
  <2>3. ASSUME NEW r \in Replicas, NEW x \in Keys, Live(l1'[r][x])
        PROVE  \/ Shows(l1'[r][x], x)
               \/ /\ l1'[r][x] = l1[r][x]
                  /\ Home[c] = r /\ Has(prog[c], {"l1del"}, x) => Has(p, {"l1del"}, x)
    <3>1. CASE r = Home[c] /\ x = k
      BY <1>1, <1>2, <3>1, FillShows DEF Undisturbed
    <3>2. CASE ~(r = Home[c] /\ x = k)
      BY <1>1, <3>2
    <3> QED BY <3>1, <3>2
  <2>4. L1Shows'
    BY <1>1, <1>2, <2>3, L1StillShows DEF Undisturbed
  <2> QED BY <2>2, <2>4
<1> HIDE DEF p
<1> QED BY <1>1, <1>2, CauseGoesOn

LEMMA CauseSetRedis ==
    ASSUME CauseInv, NEW c \in Clients, SetRedis(c), StaleInv'
    PROVE  CauseInv'
<1> DEFINE k == KeyOf(c)
<1> DEFINE p == Tail(prog[c])
<1>1. /\ ~Idle(c) /\ Head(prog[c]).do = "l2set" /\ GoesOn(c, p) /\ StaleInv /\ Writers
      /\ UNCHANGED <<row, l1, excused>> /\ k \in Keys
      /\ \A what, x : Has(p, what, x) => Has(prog[c], what, x)
      /\ \A what, x : Has(prog[c], what, x) /\ "l2set" \notin what => Has(p, what, x)
      /\ l2' = [l2 EXCEPT ![k] = Entry(dest[c], Ttl[k])]
      /\ l2 \in [Keys -> Entries]
  BY NextStep DEF SetRedis, At, GoesOn, Advance, WriteSteps, CauseInv, StaleInv, TypeOK
<1>2. ASSUME ~excused', Undisturbed
      PROVE  RedisShows' /\ L1Shows'
  <2>1. ASSUME NEW x \in Keys, Live(l2'[x])
        PROVE  \/ Shows(l2'[x], x)
               \/ /\ l2'[x] = l2[x]
                  /\ Has(prog[c], DropSteps, x) => Has(p, DropSteps, x)
    <3>1. CASE x = k
      BY <1>1, <1>2, <3>1, FillShows DEF Undisturbed
    <3>2. CASE x # k
      BY <1>1, <3>2 DEF DropSteps
    <3> QED BY <3>1, <3>2
  <2>2. RedisShows'
    BY <1>1, <1>2, <2>1, RedisStillShows DEF Undisturbed
  <2>3. \A x \in Keys : Has(prog[c], {"l1del"}, x) => Has(p, {"l1del"}, x)
    BY <1>1
  <2>4. L1Shows'
    BY <1>1, <1>2, <2>3, L1StillShows DEF Undisturbed
  <2> QED BY <2>2, <2>4
<1> HIDE DEF p
<1> QED BY <1>1, <1>2, CauseGoesOn

LEMMA CauseDeleteL1 ==
    ASSUME CauseInv, NEW c \in Clients, DeleteL1(c), StaleInv'
    PROVE  CauseInv'
<1> DEFINE k == KeyOf(c)
<1> DEFINE p == Tail(prog[c])
<1>1. /\ ~Idle(c) /\ Head(prog[c]).do = "l1del" /\ GoesOn(c, p) /\ StaleInv /\ Writers
      /\ UNCHANGED <<row, l2, excused>> /\ k \in Keys /\ Home[c] \in Replicas
      /\ \A what, x : Has(p, what, x) => Has(prog[c], what, x)
      /\ \A what, x : Has(prog[c], what, x) /\ ("l1del" \notin what \/ x # k) => Has(p, what, x)
      /\ l1' = [l1 EXCEPT ![Home[c]][k] = NoEntry]
      /\ l1 \in [Replicas -> [Keys -> Entries]]
  BY NextStep DEF DeleteL1, At, GoesOn, Advance, WriteSteps, CauseInv, StaleInv, TypeOK
<1>2. ASSUME ~excused', Undisturbed
      PROVE  RedisShows' /\ L1Shows'
  <2>1. \A x \in Keys : Has(prog[c], DropSteps, x) => Has(p, DropSteps, x)
    BY <1>1 DEF DropSteps
  <2>2. RedisShows'
    BY <1>1, <1>2, <2>1, RedisStillShows DEF Undisturbed
  <2>3. ASSUME NEW r \in Replicas, NEW x \in Keys, Live(l1'[r][x])
        PROVE  /\ l1'[r][x] = l1[r][x]
               /\ Home[c] = r /\ Has(prog[c], {"l1del"}, x) => Has(p, {"l1del"}, x)
    <3>1. ~(r = Home[c] /\ x = k)
      BY <1>1, <2>3 DEF NoEntry, Live
    <3> QED BY <1>1, <3>1
  <2>4. L1Shows'
    BY <1>1, <1>2, <2>3, L1StillShows DEF Undisturbed
  <2> QED BY <2>2, <2>4
<1> HIDE DEF p
<1> QED BY <1>1, <1>2, CauseGoesOn

\* DEL, of one key or of those that KEYS has found.
LEMMA CauseDeleteRedis ==
    ASSUME CauseInv, NEW c \in Clients, DeleteRedis(c), StaleInv'
    PROVE  CauseInv'
<1> DEFINE k == KeyOf(c)
<1> DEFINE p == Tail(prog[c])
<1>1. /\ ~Idle(c) /\ Head(prog[c]).do \in {"l2del", "del"} /\ GoesOn(c, p)
      /\ StaleInv /\ Writers /\ UNCHANGED <<row, l1, excused>> /\ k \in Keys
      /\ \A what, x : Has(p, what, x) => Has(prog[c], what, x)
      /\ \A what, x : Has(prog[c], what, x) /\ (what \cap {"l2del", "del"} = {} \/ x # k) => Has(p, what, x)
      /\ l2' = [l2 EXCEPT ![k] = NoEntry]
      /\ l2 \in [Keys -> Entries]
  BY NextStep DEF DeleteRedis, At, GoesOn, Advance, WriteSteps, CauseInv, StaleInv, TypeOK
<1>2. ASSUME ~excused', Undisturbed
      PROVE  RedisShows' /\ L1Shows'
  <2>1. ASSUME NEW x \in Keys, Live(l2'[x])
        PROVE  /\ l2'[x] = l2[x]
               /\ Has(prog[c], DropSteps, x) => Has(p, DropSteps, x)
    <3>1. x # k
      BY <1>1, <2>1 DEF NoEntry, Live
    <3> QED BY <1>1, <3>1
  <2>2. RedisShows'
    BY <1>1, <1>2, <2>1, RedisStillShows DEF Undisturbed
  <2>3. \A x \in Keys : Has(prog[c], {"l1del"}, x) => Has(p, {"l1del"}, x)
    BY <1>1
  <2>4. L1Shows'
    BY <1>1, <1>2, <2>3, L1StillShows DEF Undisturbed
  <2> QED BY <2>2, <2>4
<1> HIDE DEF p
<1> QED BY <1>1, <1>2, CauseGoesOn

\* KEYS: what it does not find is not there, what it finds DEL will be given.
LEMMA CauseListRedisKeys ==
    ASSUME CauseInv, NEW c \in Clients, ListRedisKeys(c), StaleInv'
    PROVE  CauseInv'
<1> DEFINE k == KeyOf(c)
<1> DEFINE t == Tail(prog[c])
<1>1. /\ ~Idle(c) /\ Head(prog[c]).do = "keys" /\ StaleInv /\ Writers /\ Proper(t)
      /\ Proper(prog[c]) /\ prog[c] # <<>> /\ k \in Keys
      /\ UNCHANGED <<row, l1, l2, excused>>
      /\ \A what, x : Has(prog[c], what, x) <=> ("keys" \in what /\ x = k) \/ Has(t, what, x)
  <2>1. /\ ~Idle(c) /\ Head(prog[c]).do = "keys" /\ StaleInv /\ Writers
        /\ UNCHANGED <<row, l1, l2, excused>>
    BY DEF ListRedisKeys, At, CauseInv
  <2>2. Head(prog[c]).do \in WriteSteps
    BY <2>1 DEF WriteSteps
  <2> QED BY <2>1, <2>2, NextStep
<1>2. /\ t # <<>> /\ Head(t).do = "del" /\ Head(t).key = k /\ t \in Seq(Instr) /\ Proper(Tail(t))
  BY <1>1, ProperTail DEF Proper, KeyOf
<1>3. \A what, x : Has(t, what, x) <=> ("del" \in what /\ x = k) \/ Has(Tail(t), what, x)
  BY <1>2, HasTail
<1>4. PICK p : /\ GoesOn(c, p)
               /\ \A what, x : Has(p, what, x) => Has(prog[c], what, x)
               /\ \A x : Has(prog[c], {"l1del"}, x) => Has(p, {"l1del"}, x)
               /\ \A x \in Keys : Live(l2[x]) /\ Has(prog[c], DropSteps, x) => Has(p, DropSteps, x)
  <2>1. CASE Live(l2[k])
    <3>1. GoesOn(c, t)
      BY <1>1, <2>1 DEF ListRedisKeys, GoesOn
    <3>2. /\ \A what, x : Has(t, what, x) => Has(prog[c], what, x)
          /\ \A x : Has(prog[c], {"l1del"}, x) => Has(t, {"l1del"}, x)
      BY <1>1
    <3>3. \A x : Has(prog[c], DropSteps, x) => Has(t, DropSteps, x)
      BY <1>1, <1>3 DEF DropSteps
    <3> QED BY <3>1, <3>2, <3>3
  <2>2. CASE ~Live(l2[k])
    <3>1. GoesOn(c, Tail(t))
      BY <1>1, <1>2, <2>2 DEF ListRedisKeys, GoesOn
    <3>2. /\ \A what, x : Has(Tail(t), what, x) => Has(prog[c], what, x)
          /\ \A x : Has(prog[c], {"l1del"}, x) => Has(Tail(t), {"l1del"}, x)
      BY <1>1, <1>3
    <3>3. \A x : x # k /\ Has(prog[c], DropSteps, x) => Has(Tail(t), DropSteps, x)
      BY <1>1, <1>3
    <3> QED BY <2>2, <3>1, <3>2, <3>3
  <2> QED BY <2>1, <2>2
<1>5. ASSUME ~excused', Undisturbed
      PROVE  RedisShows' /\ L1Shows'
  <2>1. RedisShows'
    BY <1>1, <1>4, <1>5, RedisStillShows DEF Undisturbed
  <2>2. L1Shows'
    BY <1>1, <1>4, <1>5, L1StillShows DEF Undisturbed
  <2> QED BY <2>1, <2>2
<1> QED BY <1>1, <1>4, <1>5, CauseGoesOn

\* A deletion that is skipped is a cause; a fill that is skipped loses nothing.
LEMMA CauseRedisFails ==
    ASSUME CauseInv, NEW c \in Clients, RedisFails(c), StaleInv'
    PROVE  CauseInv'
<1>1. /\ StaleInv /\ Writers /\ ~Idle(c) /\ Head(prog[c]).do \in RedisSteps /\ Finish(c)
      /\ UNCHANGED <<row, l1, l2, staleFor>> /\ (~excused' => ~excused)
      /\ ~excused' => Head(prog[c]).do \notin {"l2del", "keys", "del"}
  BY DEF RedisFails, CauseInv
<1>2. CASE Head(prog[c]).do = "l2get"
  <2>1. At(c, "l2get") /\ Become(c, AfterL2Miss(KeyOf(c)))
    BY <1>1, <1>2 DEF RedisFails, At
  <2>2. prog'[c] # <<>>
    <3>1. AfterL2Miss(KeyOf(c)) # <<>>
      BY DEF AfterL2Miss
    <3> QED BY <2>1, <3>1 DEF Become, CauseInv, StaleInv, TypeOK
  <2>3. UNCHANGED <<dest, writing>>
    BY <1>1, <2>2 DEF Finish, Idle
  <2> QED BY <1>1, <2>1, <2>3, CauseRedisMiss
<1>3. CASE Head(prog[c]).do = "keys"
  <2>1. Become(c, Tail(Tail(prog[c]))) /\ excused'
    BY <1>3 DEF RedisFails, At
  <2>2. GoesOn(c, Tail(Tail(prog[c])))
    BY <1>1, <1>3, <2>1, StepHead, AtHead DEF GoesOn, WriteSteps
  <2>3. Writers'
    BY <1>1, <2>2, GoOn
  <2> QED BY <2>1, <2>3 DEF CauseInv
<1>4. CASE Head(prog[c]).do \notin {"l2get", "keys"}
  <2> DEFINE p == Tail(prog[c])
  <2>1. Become(c, p) /\ Head(prog[c]).do \in WriteSteps
    BY <1>1, <1>4 DEF RedisFails, At, RedisSteps, WriteSteps
  <2>2. /\ GoesOn(c, p) /\ KeyOf(c) \in Keys
        /\ \A what, x : Has(p, what, x) => Has(prog[c], what, x)
        /\ \A what, x : Has(prog[c], what, x) /\ Head(prog[c]).do \notin what => Has(p, what, x)
    BY <1>1, <2>1, NextStep DEF GoesOn
  <2>3. ASSUME ~excused', Undisturbed
        PROVE  RedisShows' /\ L1Shows'
    <3>1. Head(prog[c]).do \notin DropSteps /\ Head(prog[c]).do # "l1del"
      BY <1>1, <2>3 DEF DropSteps, RedisSteps
    <3>2. RedisShows'
      BY <1>1, <2>2, <2>3, <3>1, RedisStillShows DEF Undisturbed
    <3>3. L1Shows'
      BY <1>1, <2>2, <2>3, <3>1, L1StillShows DEF Undisturbed
    <3> QED BY <3>2, <3>3
  <2> HIDE DEF p
  <2> QED BY <1>1, <2>2, <2>3, CauseGoesOn
<1> QED BY <1>2, <1>3, <1>4

LEMMA CauseKept ==
    ASSUME "user" \notin Keys
    PROVE  CauseInv /\ [Next]_vars => CauseInv'
<1> SUFFICES ASSUME CauseInv, [Next]_vars PROVE CauseInv'
  OBVIOUS
<1>1. StaleInv'
  BY StaleInvKept DEF CauseInv
<1>2. ASSUME NEW c \in Clients, Read(c) PROVE CauseInv'
  BY <1>1, <1>2, CauseStartRead DEF Read
<1>3. ASSUME NEW c \in Clients, Write(c) PROVE CauseInv'
  BY <1>1, <1>3, CauseWrite
<1>4. ASSUME NEW c \in Clients, Steps(c) PROVE CauseInv'
  BY <1>1, <1>4, CauseRedisFails, CauseGetFromRedis, CausePromote, CauseReadDatabase,
     CauseReadNothing, CauseSetL1, CauseSetRedis, CauseDeleteL1, CauseDeleteRedis,
     CauseListRedisKeys DEF Steps
<1>5. CASE UNCHANGED vars
  <2>1. Writers' /\ OneWriter' = OneWriter /\ HandShows' = HandShows
        /\ RedisShows' = RedisShows /\ L1Shows' = L1Shows
    BY <1>5 DEF vars, Writers, OneWriter, HandShows, RedisShows, L1Shows, Shows, Live, CauseInv
  <2>2. excused' = excused
    BY <1>5 DEF vars
  <2> QED BY <1>1, <2>1, <2>2 DEF CauseInv, Undisturbed
<1> QED BY <1>1, <1>2, <1>3, <1>4, <1>5, CauseTick DEF Next

LEMMA CauseInvImplies == CauseInv => StaleNeedsCause
<1> SUFFICES ASSUME CauseInv, AllIdle, ~excused, NEW k \in Keys, NEW e \in Cached(k)
             PROVE  e.version = row.version /\ (k = "task" => row.live)
  BY DEF StaleNeedsCause
<1>1. writing = {}
  BY DEF CauseInv, Writers, AllIdle, Idle
<1>2. Undisturbed
  BY DEF CauseInv
<1>3. Shows(e, k)
  BY <1>1, <1>2 DEF Cached, Undisturbed, RedisShows, L1Shows
<1> QED BY <1>3 DEF Shows

\* Staleness has a cause: between requests, if no request ever overlapped a
\* write, no deletion in Redis was skipped and no other replica had anything
\* in its L1 at a write, every cached entry shows the row.  The list of one
\* user is left out: the pattern that CreateTask, UpdateTask and DeleteTask
\* drop does not match its key, and no handler reads it through the cache.
THEOREM StalenessHasACause ==
    ASSUME "user" \notin Keys
    PROVE  Spec => []StaleNeedsCause
<1>1. Init => CauseInv
  BY CauseInit
<1>2. CauseInv /\ [Next]_vars => CauseInv'
  BY CauseKept
<1>3. CauseInv => StaleNeedsCause
  BY CauseInvImplies
<1> QED BY <1>1, <1>2, <1>3, PTL DEF Spec

-----------------------------------------------------------------------------
(***************************************************************************)
(* Theorems about the sessions and the registrations of Accounts, for any  *)
(* number of concurrent requests, tokens and accounts.                     *)
(*                                                                         *)
(* A request works for the session (the root) whose token it replaces or   *)
(* has just made.  SessionInv says that an unforked session has one such   *)
(* request at most, that a refresh under way leaves no working token in    *)
(* clients' hands but the one it replaces, and that none is left when a    *)
(* new one is about to be answered.  RegistrationInv says what a           *)
(* registration that has passed a check may still rely on.                 *)
(***************************************************************************)
\* The variables of the sessions keep their types.
TypesOK ==
    /\ token \in [Tokens -> {"unused", "live", "dead"}]
    /\ pc \in [Requests -> {"idle", "login", "answer"} \cup Registering \cup Refreshing]
    /\ old \in [Requests -> Tokens \cup {NoToken}]
    /\ new \in [Requests -> Tokens \cup {NoToken}]
    /\ held \subseteq Tokens
    /\ root \in [Tokens -> Tokens \cup {NoToken}]

Used(t) == t \in Tokens /\ token[t] # "unused" /\ root[t] \in Tokens

\* A token is in use when it is held, replaced, made, or a root.
UsedTokens ==
    /\ \A t \in held : Used(t)
    /\ \A t \in Tokens : token[t] # "unused" => Used(t) /\ token[root[t]] # "unused"
    /\ \A r \in Requests :
        /\ pc[r] \in Refreshing => Used(old[r])
        /\ pc[r] \in {"delete", "answer"} => Used(new[r]) /\ new[r] \notin held
        /\ pc[r] = "delete" => root[new[r]] = root[old[r]] /\ new[r] # old[r]
    /\ \A r, s \in Requests :
        r # s /\ {pc[r], pc[s]} \subseteq {"delete", "answer"} => new[r] # new[s]
    /\ \A k \in ended : k \in Tokens /\ token[k] # "unused"

\* Request r works for session k.
WorksFor(r, k) ==
    \/ pc[r] \in Refreshing /\ root[old[r]] = k
    \/ pc[r] = "answer" /\ root[new[r]] = k

OneRequest ==
    \A k \in Tokens \ forked : \A r, s \in Requests :
        WorksFor(r, k) /\ WorksFor(s, k) => r = s

OnlyTheOldWorks ==
    \A k \in Tokens \ forked : \A r \in Requests : \A t \in HeldLive(k) :
        WorksFor(r, k) => pc[r] \in Refreshing /\ t = old[r]

EndedIsOver ==
    \A k \in ended : HeldLive(k) = {} /\ \A r \in Requests : ~WorksFor(r, k)

SessionInv ==
    /\ TypesOK /\ UsedTokens
    /\ OneSessionPerLogin /\ OneRequest /\ OnlyTheOldWorks /\ EndedIsOver
-----------------------------------------------------------------------------
\* Before the first request there is no session.
LEMMA SessionInit == AccountsInit => SessionInv
BY DEF AccountsInit, SessionInv, TypesOK, UsedTokens, OneSessionPerLogin, OneRequest,
       OnlyTheOldWorks, EndedIsOver, HeldLive, WorksFor, Refreshing, Registering,
       NoToken

\* A request that ends works for no session.
LEMMA EndTypes ==
    ASSUME TypesOK, NEW r \in Requests, End(r)
    PROVE  /\ pc' \in [Requests -> {"idle", "login", "answer"} \cup Registering \cup Refreshing]
           /\ old' \in [Requests -> Tokens \cup {NoToken}]
           /\ new' \in [Requests -> Tokens \cup {NoToken}]
           /\ pc'[r] = "idle"
           /\ \A s \in Requests \ {r} : pc'[s] = pc[s] /\ old'[s] = old[s] /\ new'[s] = new[s]
BY DEF TypesOK, End, Goto

\* A step that touches no token, at which every request goes on with what it
\* had or works for no session.
Quiet ==
    /\ UNCHANGED <<token, held, root, forked, ended>>
    /\ \A s \in Requests :
        \/ pc'[s] = pc[s] /\ old'[s] = old[s] /\ new'[s] = new[s]
        \/ pc'[s] \notin Refreshing \cup {"answer"}

\* Such a step keeps the invariant.
LEMMA QuietStep ==
    ASSUME SessionInv, TypesOK', Quiet
    PROVE  SessionInv'
<1> USE DEF SessionInv, Quiet
<1>1. \A k : HeldLive(k)' = HeldLive(k)
  BY DEF HeldLive
<1>2. \A t : Used(t)' <=> Used(t)
  BY DEF Used
<1>3. \A r \in Requests : \A k : WorksFor(r, k)' =>
          WorksFor(r, k) /\ pc'[r] = pc[r] /\ old'[r] = old[r] /\ new'[r] = new[r]
  BY DEF WorksFor
<1>4. UsedTokens'
  BY <1>2 DEF UsedTokens, Refreshing
<1>5. OneSessionPerLogin' /\ EndedIsOver'
  BY <1>1, <1>3 DEF OneSessionPerLogin, EndedIsOver
<1>6. OneRequest'
  BY <1>3 DEF OneRequest
<1>7. OnlyTheOldWorks'
  BY <1>1, <1>3 DEF OnlyTheOldWorks
<1> QED
  BY <1>4, <1>5, <1>6, <1>7

\* Registrations, the start of a log-in and a failure are quiet.
LEMMA QuietActions ==
    ASSUME SessionInv, NEW r \in Requests,
           Register(r) \/ (\E e \in Emails : StartLogin(r, e)) \/ FailToken(r)
    PROVE  TypesOK' /\ Quiet
<1> USE DEF session
<1>1. TypesOK
  BY DEF SessionInv
<1>2. ASSUME End(r), UNCHANGED <<token, held, root, forked, ended>>
      PROVE  TypesOK' /\ Quiet
  BY <1>1, <1>2, EndTypes DEF TypesOK, Quiet, Refreshing
<1>3. ASSUME NEW place \in {"login"} \cup Registering, Goto(r, place), UNCHANGED session
      PROVE  TypesOK' /\ Quiet
  BY <1>1, <1>3 DEF TypesOK, Quiet, Goto, Refreshing, Registering
<1>4. CASE \E f \in Forms : StartRegistration(r, f)
  BY <1>3, <1>4 DEF StartRegistration, Registering
<1>5. CASE CheckName(r)
  BY <1>2, <1>3, <1>5 DEF CheckName, Registering
<1>6. CASE InsertUser(r)
  BY <1>2, <1>3, <1>6 DEF InsertUser, Registering
<1>7. CASE Commit(r)
  BY <1>2, <1>7 DEF Commit
<1>8. CASE FailRegistration(r)
  BY <1>2, <1>8 DEF FailRegistration
<1>9. CASE \E e \in Emails : StartLogin(r, e)
  BY <1>3, <1>9 DEF StartLogin
<1>10. CASE FailToken(r)
  BY <1>2, <1>10 DEF FailToken
<1> QED
  BY <1>4, <1>5, <1>6, <1>7, <1>8, <1>9, <1>10 DEF Register
-----------------------------------------------------------------------------
\* A refresh of a token that works: if nobody else works for its session, this
\* request is the only one, and if somebody does the session is forked.
LEMMA StartRefreshStep ==
    ASSUME SessionInv, NEW r \in Requests, NEW t \in Tokens, StartRefresh(r, t)
    PROVE  SessionInv'
<1> USE DEF SessionInv
<1>1. /\ pc[r] = "idle" /\ pc'[r] = "rotate" /\ old'[r] = t
      /\ \A s \in Requests \ {r} : pc'[s] = pc[s] /\ old'[s] = old[s]
      /\ UNCHANGED <<token, held, new, root, ended>>
  BY DEF StartRefresh, Goto, TypesOK
<1>2. TypesOK'
  BY <1>1 DEF TypesOK, StartRefresh, Goto, Refreshing
<1>3. t \in HeldLive(root[t]) /\ Used(t) /\ root[t] \in Tokens
  BY DEF StartRefresh, HeldLive, UsedTokens, Used
<1>4. (\A k : HeldLive(k)' = HeldLive(k)) /\ (\A u : Used(u)' <=> Used(u))
  BY <1>1 DEF HeldLive, Used
<1>5. /\ \A s \in Requests \ {r} : \A k : WorksFor(s, k)' <=> WorksFor(s, k)
      /\ \A k : WorksFor(r, k)' <=> k = root[t]
  BY <1>1 DEF WorksFor, Refreshing
<1>6. UsedTokens'
  BY <1>1, <1>3, <1>4 DEF UsedTokens, Refreshing
<1>7. forked \subseteq forked' /\ OneSessionPerLogin'
  BY <1>4 DEF StartRefresh, OneSessionPerLogin
<1>8. root[t] \notin forked' => \A s \in Requests : ~WorksFor(s, root[t])
  <2> SUFFICES ASSUME root[t] \notin forked', NEW s \in Requests, WorksFor(s, root[t])
               PROVE  FALSE
    OBVIOUS
  <2>1. pc[s] \in Refreshing /\ t = old[s]
    BY <1>3, <1>7 DEF OnlyTheOldWorks
  <2>2. s \in RefreshesOf(t)
    BY <2>1 DEF RefreshesOf
  <2> QED
    BY <2>2 DEF StartRefresh
<1>9. OneRequest'
  BY <1>5, <1>7, <1>8 DEF OneRequest
<1>10. OnlyTheOldWorks'
  <2> SUFFICES ASSUME NEW k \in Tokens \ forked', NEW s \in Requests, NEW u \in HeldLive(k),
                      WorksFor(s, k)'
               PROVE  pc'[s] \in Refreshing /\ u = old'[s]
    BY <1>4 DEF OnlyTheOldWorks
  <2>1. CASE s = r
    BY <1>1, <1>3, <1>5, <1>7, <2>1 DEF OneSessionPerLogin, Refreshing
  <2>2. CASE s # r
    BY <1>1, <1>5, <1>7, <2>2 DEF OnlyTheOldWorks
  <2> QED
    BY <2>1, <2>2
<1>11. EndedIsOver'
  BY <1>1, <1>3, <1>4, <1>5 DEF EndedIsOver
<1> QED
  BY <1>2, <1>6, <1>7, <1>9, <1>10, <1>11

\* A new token is nobody's yet and starts a session or continues one.
LEMMA GenerateTokenStep ==
    ASSUME SessionInv, NEW r \in Requests, GenerateToken(r)
    PROVE  SessionInv'
<1> USE DEF SessionInv
<1>1. PICK t \in Tokens :
        /\ token[t] = "unused"
        /\ token' = [token EXCEPT ![t] = "live"]
        /\ new' = [new EXCEPT ![r] = t]
        /\ root' = [root EXCEPT ![t] = IF pc[r] = "login" THEN t ELSE root[old[r]]]
  BY DEF GenerateToken
<1>2. /\ pc[r] \in {"login", "rotate"}
      /\ pc'[r] = IF pc[r] = "login" THEN "answer" ELSE "delete"
      /\ \A s \in Requests \ {r} : pc'[s] = pc[s]
      /\ UNCHANGED <<old, held, forked, ended>>
  BY DEF GenerateToken, Goto, TypesOK
<1>3. /\ token'[t] = "live" /\ new'[r] = t
      /\ \A u \in Tokens \ {t} : token'[u] = token[u] /\ root'[u] = root[u]
      /\ \A s \in Requests \ {r} : new'[s] = new[s]
      /\ root'[t] = IF pc[r] = "login" THEN t ELSE root[old[r]]
  BY <1>1 DEF TypesOK
<1>4. pc[r] = "rotate" => Used(old[r]) /\ root[old[r]] \in Tokens
  BY DEF UsedTokens, Used, Refreshing
<1>5. TypesOK'
  BY <1>1, <1>2, <1>4 DEF TypesOK, GenerateToken, Goto, Refreshing
<1>6. \A u : Used(u) => u # t /\ Used(u)' /\ root'[u] = root[u] /\ root[u] # t
  BY <1>1, <1>3 DEF Used, UsedTokens
<1>7. root'[t] \in Tokens /\ Used(t)' /\ t \notin held
  BY <1>1, <1>2, <1>3, <1>4 DEF Used, UsedTokens
<1>8. UsedTokens'
  <2>1. \A u \in held' : Used(u)'
    BY <1>2, <1>6 DEF UsedTokens
  <2>2. \A u \in Tokens : token'[u] # "unused" => Used(u)' /\ token'[root'[u]] # "unused"
    <3> SUFFICES ASSUME NEW u \in Tokens, token'[u] # "unused"
                 PROVE  Used(u)' /\ token'[root'[u]] # "unused"
      OBVIOUS
    <3>1. CASE u = t
      <4>1. CASE pc[r] = "login"
        BY <1>3, <1>7, <3>1, <4>1
      <4>2. CASE pc[r] = "rotate"
        <5>1. root'[t] = root[old[r]] /\ token[root[old[r]]] # "unused" /\ root[old[r]] # t
          BY <1>3, <1>4, <1>6, <4>2 DEF UsedTokens, Used
        <5> QED
          BY <1>3, <1>4, <1>7, <3>1, <4>2, <5>1
      <4> QED
        BY <1>2, <4>1, <4>2
    <3>2. CASE u # t
      <4>1. Used(u) /\ token[root[u]] # "unused" /\ root[u] \in Tokens
        BY <1>3, <3>2 DEF UsedTokens, Used
      <4> QED
        BY <1>3, <1>6, <4>1
    <3> QED
      BY <3>1, <3>2
  <2>3. \A s \in Requests : pc'[s] \in Refreshing => Used(old[s])'
    BY <1>2, <1>4, <1>6 DEF UsedTokens, Refreshing
  <2>4. \A s \in Requests : pc'[s] \in {"delete", "answer"} => Used(new[s])' /\ new'[s] \notin held'
    BY <1>2, <1>3, <1>6, <1>7 DEF UsedTokens
  <2>5. \A s \in Requests :
            pc'[s] = "delete" => root'[new'[s]] = root'[old'[s]] /\ new'[s] # old'[s]
    BY <1>2, <1>3, <1>4, <1>6 DEF UsedTokens, Refreshing
  <2>6. \A q, s \in Requests :
            q # s /\ {pc'[q], pc'[s]} \subseteq {"delete", "answer"} => new'[q] # new'[s]
    BY <1>2, <1>3, <1>6 DEF UsedTokens
  <2>7. \A k \in ended' : k \in Tokens /\ token'[k] # "unused"
    BY <1>2, <1>3 DEF UsedTokens
  <2> QED
    BY <2>1, <2>2, <2>3, <2>4, <2>5, <2>6, <2>7 DEF UsedTokens
<1>9. \A k : HeldLive(k)' = HeldLive(k)
  BY <1>2, <1>3, <1>6, <1>7 DEF HeldLive, UsedTokens, Used
<1>10. \A s \in Requests \ {r} : \A k : WorksFor(s, k)' <=> WorksFor(s, k)
  BY <1>2, <1>3, <1>6 DEF WorksFor, UsedTokens, Refreshing
<1>11. CASE pc[r] = "rotate"
  <2>1. \A k : WorksFor(r, k)' <=> WorksFor(r, k)
    BY <1>2, <1>4, <1>6, <1>11 DEF WorksFor, Refreshing
  <2>2. \A s \in Requests : pc[s] \in Refreshing <=> pc'[s] \in Refreshing
    BY <1>2, <1>11 DEF Refreshing
  <2>3. OneRequest' /\ OneSessionPerLogin' /\ EndedIsOver'
    BY <1>2, <1>9, <1>10, <2>1 DEF OneRequest, OneSessionPerLogin, EndedIsOver
  <2>4. OnlyTheOldWorks'
    BY <1>2, <1>9, <1>10, <2>1, <2>2 DEF OnlyTheOldWorks
  <2> QED
    BY <1>5, <1>8, <2>3, <2>4
<1>12. CASE pc[r] = "login"
  <2>1. \A k : WorksFor(r, k)' <=> k = t
    BY <1>2, <1>3, <1>12 DEF WorksFor, Refreshing
  <2>2. \A s \in Requests : ~WorksFor(s, t)
    BY <1>1, <1>6 DEF WorksFor, UsedTokens, Refreshing
  <2>3. HeldLive(t) = {} /\ t \notin ended
    BY <1>1, <1>6 DEF HeldLive, UsedTokens
  <2>4. OneSessionPerLogin' /\ EndedIsOver'
    BY <1>2, <1>9, <1>10, <2>1, <2>3 DEF OneSessionPerLogin, EndedIsOver
  <2>5. OneRequest'
    BY <1>2, <1>10, <2>1, <2>2 DEF OneRequest
  <2>6. OnlyTheOldWorks'
    BY <1>2, <1>9, <1>10, <2>1, <2>3 DEF OnlyTheOldWorks
  <2> QED
    BY <1>5, <1>8, <2>4, <2>5, <2>6
<1> QED
  BY <1>2, <1>11, <1>12

\* The request that rotated a token deletes it: nobody holds one that works.
LEMMA DeleteOldTokenStep ==
    ASSUME SessionInv, NEW r \in Requests, DeleteOldToken(r)
    PROVE  SessionInv'
<1> USE DEF SessionInv
<1>1. /\ pc[r] = "delete" /\ pc'[r] = "answer"
      /\ \A s \in Requests \ {r} : pc'[s] = pc[s]
      /\ UNCHANGED <<old, new, held, root, forked, ended>>
  BY DEF DeleteOldToken, Goto, TypesOK
<1>2. /\ Used(old[r]) /\ Used(new[r]) /\ new[r] \notin held
      /\ root[new[r]] = root[old[r]] /\ new[r] # old[r]
  BY <1>1 DEF UsedTokens, Refreshing
<1>3. /\ token'[old[r]] = "dead"
      /\ \A u \in Tokens \ {old[r]} : token'[u] = token[u]
  BY <1>2 DEF DeleteOldToken, AfterDeletion, TypesOK, Used
<1>4. TypesOK'
  BY <1>1 DEF TypesOK, DeleteOldToken, AfterDeletion, Goto, Refreshing
<1>5. \A u : Used(u)' <=> Used(u)
  BY <1>1, <1>2, <1>3 DEF Used
<1>6. \A u \in Tokens : token'[u] # "unused" <=> token[u] # "unused"
  BY <1>2, <1>3 DEF Used
<1>7. UsedTokens'
  BY <1>1, <1>2, <1>5, <1>6 DEF UsedTokens, Used, Refreshing
<1>8. \A k : HeldLive(k)' \subseteq HeldLive(k) \ {old[r]}
  BY <1>1, <1>3, <1>7 DEF HeldLive, TypesOK
<1>9. \A s \in Requests : \A k : WorksFor(s, k)' <=> WorksFor(s, k)
  BY <1>1, <1>2 DEF WorksFor, Refreshing
<1>10. OneSessionPerLogin' /\ OneRequest' /\ EndedIsOver'
  BY <1>1, <1>8, <1>9 DEF OneSessionPerLogin, OneRequest, EndedIsOver
<1>11. OnlyTheOldWorks'
  <2> SUFFICES ASSUME NEW k \in Tokens \ forked, NEW s \in Requests, NEW u \in HeldLive(k)',
                      WorksFor(s, k)
               PROVE  pc'[s] \in Refreshing /\ u = old'[s]
    BY <1>1, <1>9 DEF OnlyTheOldWorks
  <2>1. u \in HeldLive(k) /\ u # old[r]
    BY <1>8
  <2>2. pc[s] \in Refreshing /\ u = old[s]
    BY <2>1 DEF OnlyTheOldWorks
  <2> QED
    BY <1>1, <2>1, <2>2
<1> QED
  BY <1>4, <1>7, <1>10, <1>11

\* The client gets the new token when no other of the session works.
LEMMA AnswerStep ==
    ASSUME SessionInv, NEW r \in Requests, Answer(r)
    PROVE  SessionInv'
<1> USE DEF SessionInv
<1>0. PICK k0 : k0 = root[new[r]]
  OBVIOUS
<1>1. /\ pc[r] = "answer" /\ held \subseteq held' /\ held' \subseteq held \cup {new[r]}
      /\ UNCHANGED <<token, root, forked, ended>> /\ End(r)
  BY DEF Answer
<1>2. Used(new[r]) /\ WorksFor(r, k0)
  BY <1>0, <1>1 DEF UsedTokens, WorksFor
<1>3. TypesOK'
  BY <1>1, <1>2, EndTypes DEF TypesOK, Used
<1>4. /\ pc'[r] = "idle"
      /\ \A s \in Requests \ {r} : pc'[s] = pc[s] /\ old'[s] = old[s] /\ new'[s] = new[s]
  BY <1>1, EndTypes
<1>5. \A u : Used(u)' <=> Used(u)
  BY <1>1 DEF Used
<1>6. UsedTokens'
  BY <1>1, <1>2, <1>4, <1>5 DEF UsedTokens, Refreshing
<1>7. \A s \in Requests : \A k : WorksFor(s, k)' => s # r /\ WorksFor(s, k)
  BY <1>1, <1>4 DEF WorksFor, Refreshing
<1>8. \A k : k # k0 => HeldLive(k)' = HeldLive(k)
  BY <1>0, <1>1 DEF HeldLive
<1>9. HeldLive(k0)' \subseteq HeldLive(k0) \cup {new[r]}
  BY <1>1 DEF HeldLive
<1>10. k0 \in Tokens /\ k0 \notin ended
  BY <1>0, <1>2 DEF EndedIsOver, Used
<1>11. k0 \notin forked => HeldLive(k0) = {}
  BY <1>1, <1>2, <1>10 DEF OnlyTheOldWorks, Refreshing
<1>12. EndedIsOver'
  BY <1>1, <1>7, <1>8, <1>10 DEF EndedIsOver
<1>13. OneRequest'
  BY <1>1, <1>7 DEF OneRequest
<1>14. OneSessionPerLogin'
  BY <1>1, <1>8, <1>9, <1>11 DEF OneSessionPerLogin
<1>15. OnlyTheOldWorks'
  <2> SUFFICES ASSUME NEW k \in Tokens \ forked, NEW s \in Requests, NEW u \in HeldLive(k)',
                      WorksFor(s, k)'
               PROVE  pc'[s] \in Refreshing /\ u = old'[s]
    BY <1>1 DEF OnlyTheOldWorks
  <2>1. s # r /\ WorksFor(s, k)
    BY <1>7
  <2>2. k # k0
    BY <1>2, <2>1 DEF OneRequest
  <2>3. u \in HeldLive(k)
    BY <1>8, <2>2
  <2> QED
    BY <1>4, <2>1, <2>3 DEF OnlyTheOldWorks
<1> QED
  BY <1>3, <1>6, <1>12, <1>13, <1>14, <1>15
-----------------------------------------------------------------------------
\* A step of the database: a token may stop working, and a session may end of
\* which no client holds a working token and for which no request works.
LEMMA TokenStops ==
    ASSUME SessionInv, NEW t \in Tokens,
           token[t] # "unused", token' = [token EXCEPT ![t] = "dead"],
           UNCHANGED <<pc, old, new, held, root, forked>>,
           \A k \in ended' : \/ k \in ended
                             \/ /\ k \in Tokens /\ token[k] # "unused"
                                /\ HeldLive(k)' = {}
                                /\ \A r \in Requests : ~WorksFor(r, k)
    PROVE  SessionInv'
<1> USE DEF SessionInv
<1>1. /\ token'[t] = "dead"
      /\ \A u \in Tokens \ {t} : token'[u] = token[u]
  BY DEF TypesOK
<1>2. TypesOK'
  BY DEF TypesOK
<1>3. \A u : Used(u)' <=> Used(u)
  BY <1>1 DEF Used
<1>4. \A u \in Tokens : token'[u] # "unused" <=> token[u] # "unused"
  BY <1>1
<1>5. UsedTokens'
  BY <1>3, <1>4 DEF UsedTokens, Used
<1>6. \A k : HeldLive(k)' \subseteq HeldLive(k)
  BY <1>1 DEF HeldLive, TypesOK
<1>7. \A s \in Requests : \A k : WorksFor(s, k)' <=> WorksFor(s, k)
  BY DEF WorksFor
<1>8. OneSessionPerLogin' /\ OneRequest' /\ OnlyTheOldWorks' /\ EndedIsOver'
  BY <1>6, <1>7 DEF OneSessionPerLogin, OneRequest, OnlyTheOldWorks, EndedIsOver
<1> QED
  BY <1>2, <1>5, <1>8

\* A log-out that ends a session takes the one token a client holds of it.
LEMMA LogoutStep ==
    ASSUME SessionInv, NEW t \in Tokens, Logout(t)
    PROVE  SessionInv'
<1> USE DEF SessionInv
<1>1. /\ Used(t) /\ t \in held /\ token' = [token EXCEPT ![t] = "dead"]
      /\ UNCHANGED <<pc, old, new, held, root, forked>>
  BY DEF Logout, AfterLogout, UsedTokens
<1>2. ASSUME NEW k \in ended', k \notin ended
      PROVE  /\ k \in Tokens /\ token[k] # "unused" /\ HeldLive(k)' = {}
             /\ \A r \in Requests : ~WorksFor(r, k)
  <2>1. /\ k = root[t] /\ k \notin forked /\ token[t] = "live"
        /\ \A r \in Requests : pc[r] \in Refreshing => root[old[r]] # k
    BY <1>2 DEF Logout
  <2>2. t \in HeldLive(k) /\ k \in Tokens /\ token[k] # "unused"
    BY <1>1, <2>1 DEF HeldLive, Used, UsedTokens
  <2>3. \A r \in Requests : ~WorksFor(r, k)
    BY <2>1, <2>2 DEF OnlyTheOldWorks, WorksFor
  <2>4. HeldLive(k) \subseteq {t}
    BY <2>1, <2>2 DEF OneSessionPerLogin
  <2>5. HeldLive(k)' = {}
    BY <1>1, <2>4 DEF HeldLive, TypesOK, UsedTokens, Used
  <2> QED
    BY <2>2, <2>3, <2>5
<1> QED
  BY <1>1, <1>2, TokenStops DEF Used

\* A token that expires is one that stops working.
LEMMA ExpireStep ==
    ASSUME SessionInv, NEW t \in Tokens, Expire(t)
    PROVE  SessionInv'
BY TokenStops DEF Expire

\* Every step keeps the invariant.
LEMMA SessionStep == SessionInv /\ [AccountsNext]_accountsVars => SessionInv'
<1> SUFFICES ASSUME SessionInv, [AccountsNext]_accountsVars
             PROVE  SessionInv'
  OBVIOUS
<1>1. ASSUME NEW r \in Requests, Register(r) \/ Authenticate(r)
      PROVE  SessionInv'
  <2>1. CASE Register(r) \/ (\E e \in Emails : StartLogin(r, e)) \/ FailToken(r)
    BY <2>1, QuietActions, QuietStep
  <2>2. CASE \E t \in Tokens : StartRefresh(r, t)
    BY <2>2, StartRefreshStep
  <2>3. CASE GenerateToken(r)
    BY <2>3, GenerateTokenStep
  <2>4. CASE DeleteOldToken(r)
    BY <2>4, DeleteOldTokenStep
  <2>5. CASE Answer(r)
    BY <2>5, AnswerStep
  <2> QED
    BY <1>1, <2>1, <2>2, <2>3, <2>4, <2>5 DEF Authenticate
<1>2. ASSUME NEW t \in Tokens, Logout(t) \/ Expire(t)
      PROVE  SessionInv'
  BY <1>2, LogoutStep, ExpireStep
<1>3. CASE UNCHANGED accountsVars
  <2>1. TypesOK' /\ Quiet
    BY <1>3 DEF accountsVars, registration, session, SessionInv, TypesOK, Quiet
  <2> QED
    BY <2>1, QuietStep
<1> QED
  BY <1>1, <1>2, <1>3 DEF AccountsNext
-----------------------------------------------------------------------------
\* Whatever log-ins, refreshes and log-outs run at once, the sessions and the
\* requests under way stay in the relation SessionInv states.
THEOREM SessionInvariant == AccountsSpec => []SessionInv
BY SessionInit, SessionStep, PTL DEF AccountsSpec

\* However often its tokens are rotated, a log-in stays one session, unless two
\* refreshes of one token overlap: RefreshToken inserts before it deletes, and
\* answers last.
THEOREM OneSessionPerLoginHolds == AccountsSpec => []OneSessionPerLogin
<1>1. SessionInv => OneSessionPerLogin
  BY DEF SessionInv
<1> QED
  BY <1>1, SessionInvariant, PTL

\* A session logged out while nobody refreshes it never works again.
THEOREM LogoutEndsHolds == AccountsSpec => []LogoutEnds
<1>1. SessionInv => LogoutEnds
  BY DEF SessionInv, EndedIsOver, LogoutEnds
<1> QED
  BY <1>1, SessionInvariant, PTL
-----------------------------------------------------------------------------
\* The variables of the registrations keep their types.
FormsOK ==
    /\ users \in Seq(Forms) /\ Len(users) <= MaxUsers
    /\ form \in [Requests -> Forms \cup {NoForm}]
    /\ \A r \in Requests : pc[r] \in Registering => form[r] \in Forms
    /\ raced \subseteq Names

\* The rows that a transaction is about to commit have addresses of their own.
OwnEmails ==
    \A r \in Requests : pc[r] = "commit" =>
        /\ ~HasEmail(form[r].email)
        /\ \A s \in Requests \ {r} : pc[s] = "commit" => form[s].email # form[r].email

\* A name that is shared after its check has been raced for.
SharedNames ==
    \A r \in Requests : pc[r] \in {"insert", "commit"} =>
        /\ HasName(form[r].name) => form[r].name \in raced
        /\ NameUnderWay(r) => form[r].name \in raced

RegistrationInv == FormsOK /\ OwnEmails /\ SharedNames /\ AccountsDistinct

LEMMA RegistrationInit == AccountsInit => RegistrationInv
<1> SUFFICES ASSUME AccountsInit PROVE RegistrationInv
  OBVIOUS
<1>1. users = <<>> /\ <<>> \in Seq(Forms) /\ Len(<<>>) = 0 /\ DOMAIN users = {}
  BY DEF AccountsInit
<1>2. FormsOK
  BY <1>1, AccountsConstants DEF AccountsInit, FormsOK, Registering
<1> QED
  BY <1>1, <1>2 DEF AccountsInit, RegistrationInv, OwnEmails, SharedNames, AccountsDistinct

\* Who has passed the check of the name stays where it is or is done.
Settled ==
    /\ UNCHANGED <<users, raced>>
    /\ form' \in [Requests -> Forms \cup {NoForm}]
    /\ \A s \in Requests :
        \/ pc'[s] = pc[s] /\ form'[s] = form[s]
        \/ pc'[s] \notin Registering
        \/ pc'[s] = "name" /\ form'[s] \in Forms

LEMMA SettledStep ==
    ASSUME RegistrationInv, Settled
    PROVE  RegistrationInv'
<1> USE DEF RegistrationInv, Settled
<1>1. FormsOK'
  BY DEF FormsOK, Registering
<1>2. (\A e : HasEmail(e)' <=> HasEmail(e)) /\ (\A n : HasName(n)' <=> HasName(n))
  BY DEF HasEmail, HasName
<1>3. \A s \in Requests : pc'[s] \in {"insert", "commit"} => pc'[s] = pc[s] /\ form'[s] = form[s]
  BY DEF Registering
<1>4. OwnEmails'
  BY <1>2, <1>3 DEF OwnEmails
<1>5. SharedNames'
  BY <1>2, <1>3 DEF SharedNames, NameUnderWay
<1> QED
  BY <1>1, <1>4, <1>5 DEF AccountsDistinct

LEMMA EndSettles ==
    ASSUME RegistrationInv, TypesOK, NEW r \in Requests, End(r), UNCHANGED <<users, raced>>
    PROVE  RegistrationInv'
<1>1. Settled
  BY DEF RegistrationInv, FormsOK, TypesOK, End, Goto, Settled, Registering
<1> QED
  BY <1>1, SettledStep

LEMMA StartSettles ==
    ASSUME RegistrationInv, TypesOK, NEW r \in Requests, NEW f \in Forms, StartRegistration(r, f)
    PROVE  RegistrationInv'
<1>1. Settled
  BY DEF RegistrationInv, FormsOK, TypesOK, StartRegistration, Goto, Settled, Registering
<1> QED
  BY <1>1, SettledStep

LEMMA CheckNameStep ==
    ASSUME RegistrationInv, TypesOK, NEW r \in Requests, CheckName(r), NameFree(r)
    PROVE  RegistrationInv'
<1>1. /\ pc[r] = "name" /\ pc' = [pc EXCEPT ![r] = "insert"] /\ UNCHANGED <<users, form>>
      /\ raced \subseteq raced'
      /\ NameUnderWay(r) => form[r].name \in raced'
      /\ raced' \subseteq raced \cup {form[r].name}
  BY DEF CheckName, Goto
<1>2. pc'[r] = "insert" /\ \A s \in Requests \ {r} : pc'[s] = pc[s]
  BY <1>1 DEF TypesOK
<1>3. form[r] \in Forms /\ form[r].name \in Names
  BY <1>1 DEF RegistrationInv, FormsOK, Registering, Forms
<1>4. FormsOK'
  BY <1>1, <1>2, <1>3 DEF RegistrationInv, FormsOK, Registering
<1>5. OwnEmails'
  BY <1>1, <1>2 DEF RegistrationInv, OwnEmails, HasEmail
<1>6. SharedNames'
  <2>1. (\A n : HasName(n)' <=> HasName(n)) /\ ~HasName(form[r].name)
    BY <1>1 DEF HasName, NameFree
  <2>2. NameUnderWay(r)' => NameUnderWay(r)
    BY <1>1, <1>2 DEF NameUnderWay
  <2>3. ASSUME NEW s \in Requests \ {r}, pc[s] \in {"insert", "commit"}, NameUnderWay(s)'
        PROVE  form[s].name \in raced'
    <3>1. CASE form[s].name = form[r].name
      BY <1>1, <2>3, <3>1 DEF NameUnderWay
    <3>2. CASE form[s].name # form[r].name
      BY <1>1, <1>2, <2>3, <3>2 DEF NameUnderWay, RegistrationInv, SharedNames
    <3> QED
      BY <3>1, <3>2
  <2> QED
    BY <1>1, <1>2, <2>1, <2>2, <2>3 DEF RegistrationInv, SharedNames
<1>7. AccountsDistinct'
  BY <1>1 DEF RegistrationInv, AccountsDistinct
<1> QED
  BY <1>4, <1>5, <1>6, <1>7 DEF RegistrationInv

LEMMA InsertStep ==
    ASSUME RegistrationInv, TypesOK, NEW r \in Requests, pc[r] = "insert",
           EmailFree(r), ~EmailPending(r), Goto(r, "commit"), UNCHANGED <<users, form, raced>>
    PROVE  RegistrationInv'
<1>1. pc'[r] = "commit" /\ \A s \in Requests \ {r} : pc'[s] = pc[s]
  BY DEF TypesOK, Goto
<1>2. FormsOK'
  BY <1>1 DEF RegistrationInv, FormsOK, Registering
<1>3. OwnEmails'
  BY <1>1 DEF RegistrationInv, OwnEmails, HasEmail, EmailFree, EmailPending
<1>4. SharedNames'
  BY <1>1 DEF RegistrationInv, SharedNames, HasName, NameUnderWay
<1> QED
  BY <1>2, <1>3, <1>4 DEF RegistrationInv, AccountsDistinct

LEMMA CommitStep ==
    ASSUME RegistrationInv, TypesOK, NEW r \in Requests, Commit(r)
    PROVE  RegistrationInv'
<1>1. PICK f : f = form[r]
  OBVIOUS
<1>2. /\ pc[r] = "commit" /\ f \in Forms /\ Len(users) < MaxUsers
      /\ users' = Append(users, f) /\ UNCHANGED raced /\ End(r)
  BY <1>1 DEF Commit, Row, RegistrationInv, FormsOK, Registering
<1>3. pc'[r] = "idle" /\ \A s \in Requests \ {r} : pc'[s] = pc[s] /\ form'[s] = form[s]
  BY <1>2 DEF TypesOK, End, Goto, RegistrationInv, FormsOK
<1>4. users \in Seq(Forms) /\ MaxUsers \in Nat
  BY AccountsConstants DEF RegistrationInv, FormsOK
<1>5. /\ users' \in Seq(Forms) /\ Len(users') = Len(users) + 1 /\ Len(users) \in Nat
      /\ DOMAIN users = 1..Len(users) /\ DOMAIN users' = DOMAIN users \cup {Len(users) + 1}
      /\ Len(users) + 1 \notin DOMAIN users
      /\ users'[Len(users) + 1] = f /\ \A i \in DOMAIN users : users'[i] = users[i]
  BY <1>2, <1>4
<1>6. FormsOK'
  <2>1. form' \in [Requests -> Forms \cup {NoForm}]
    BY <1>2 DEF End, RegistrationInv, FormsOK
  <2> QED
    BY <1>2, <1>3, <1>4, <1>5, <2>1 DEF RegistrationInv, FormsOK, Registering
<1>7. /\ \A e : HasEmail(e)' <=> HasEmail(e) \/ e = f.email
      /\ \A n : HasName(n)' <=> HasName(n) \/ n = f.name
  BY <1>5 DEF HasEmail, HasName
<1>8. OwnEmails'
  BY <1>1, <1>2, <1>3, <1>7 DEF RegistrationInv, OwnEmails
<1>9. SharedNames'
  BY <1>1, <1>2, <1>3, <1>7 DEF RegistrationInv, SharedNames, NameUnderWay
<1>10. AccountsDistinct'
  <2>1. ~HasEmail(f.email) /\ (HasName(f.name) => f.name \in raced)
    BY <1>1, <1>2 DEF RegistrationInv, OwnEmails, SharedNames
  <2>2. \A i \in DOMAIN users : users[i].email # f.email /\ (users[i].name = f.name => f.name \in raced)
    BY <2>1 DEF HasEmail, HasName
  <2> QED
    BY <1>2, <1>5, <2>2 DEF RegistrationInv, AccountsDistinct
<1> QED
  BY <1>6, <1>8, <1>9, <1>10 DEF RegistrationInv

\* What happens to the tokens does not touch registrations.
LEMMA AuthenticateSettles ==
    ASSUME RegistrationInv, TypesOK, NEW r \in Requests, Authenticate(r)
    PROVE  RegistrationInv'
<1>1. ASSUME NEW place, place \notin Registering, Goto(r, place), UNCHANGED registration
      PROVE  RegistrationInv'
  <2>1. Settled
    BY <1>1 DEF RegistrationInv, FormsOK, TypesOK, Goto, Settled, registration
  <2> QED
    BY <2>1, SettledStep
<1>2. CASE (\E e \in Emails : StartLogin(r, e)) \/ (\E t \in Tokens : StartRefresh(r, t))
  BY <1>1, <1>2 DEF StartLogin, StartRefresh, Registering
<1>3. CASE GenerateToken(r) \/ DeleteOldToken(r)
  BY <1>1, <1>3 DEF GenerateToken, DeleteOldToken, Registering
<1>4. CASE FailToken(r) \/ Answer(r)
  BY <1>4, EndSettles DEF FailToken, Answer
<1> QED
  BY <1>2, <1>3, <1>4 DEF Authenticate

LEMMA RegistrationStep ==
    ASSUME RegistrationInv, TypesOK, [AccountsNext]_accountsVars
    PROVE  RegistrationInv'
<1>1. ASSUME NEW r \in Requests, Register(r)
      PROVE  RegistrationInv'
  <2>1. CASE CheckName(r)
    BY <2>1, CheckNameStep, EndSettles DEF CheckName
  <2>2. CASE InsertUser(r)
    BY <2>2, InsertStep, EndSettles DEF InsertUser
  <2> QED
    BY <1>1, <2>1, <2>2, StartSettles, CommitStep, EndSettles DEF Register, FailRegistration
<1>2. CASE (\E t \in Tokens : Logout(t) \/ Expire(t)) \/ UNCHANGED accountsVars
  <2>1. Settled
    BY <1>2 DEF Logout, Expire, accountsVars, registration, Settled, RegistrationInv, FormsOK
  <2> QED
    BY <2>1, SettledStep
<1> QED
  BY <1>1, <1>2, AuthenticateSettles DEF AccountsNext

\* The roots named in the histories are tokens.
HistoriesOK == forked \subseteq Tokens /\ ended \subseteq Tokens

LEMMA HistoriesStep ==
    ASSUME SessionInv, HistoriesOK, [AccountsNext]_accountsVars
    PROVE  HistoriesOK'
<1>1. \A t \in held : root[t] \in Tokens
  BY DEF SessionInv, UsedTokens, Used
<1>2. ASSUME NEW r \in Requests, Register(r)
      PROVE  HistoriesOK'
  BY <1>2 DEF HistoriesOK, Register, StartRegistration, CheckName, InsertUser, Commit,
              FailRegistration, session
<1>3. ASSUME NEW r \in Requests, Authenticate(r)
      PROVE  HistoriesOK'
  BY <1>1, <1>3 DEF HistoriesOK, Authenticate, StartLogin, StartRefresh, GenerateToken,
                    DeleteOldToken, FailToken, Answer, session
<1>4. ASSUME NEW t \in Tokens, Logout(t) \/ Expire(t)
      PROVE  HistoriesOK'
  BY <1>1, <1>4 DEF HistoriesOK, Logout, Expire
<1> QED
  BY <1>2, <1>3, <1>4 DEF AccountsNext, accountsVars, session, HistoriesOK

\* However registrations race, two accounts never share an address, and they
\* share a name only when the registrations overlapped.
THEOREM AccountsInvariant == AccountsSpec => []AccountsInv
<1>1. AccountsInit => HistoriesOK
  BY DEF AccountsInit, HistoriesOK
<1>2. SessionInv => TypesOK
  BY DEF SessionInv
<1>3. SessionInv /\ RegistrationInv /\ HistoriesOK => AccountsInv
  BY DEF SessionInv, TypesOK, RegistrationInv, FormsOK, HistoriesOK, AccountsInv, AccountsTypeOK
<1> QED
  BY SessionInvariant, RegistrationInit, RegistrationStep, HistoriesStep, <1>1, <1>2, <1>3,
     PTL DEF AccountsSpec
=============================================================================
