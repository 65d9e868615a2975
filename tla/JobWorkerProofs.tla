-------------------------- MODULE JobWorkerProofs --------------------------
(***************************************************************************)
(* Theorems about JobWorker, for any jobs, goroutines, served lists, tries *)
(* and bounds.                                                             *)
(*                                                                         *)
(* The lists matter only through the entries that wait in them, so what    *)
(* Append and Tail do to those is proved first, for any pair of lists L.   *)
(***************************************************************************)
EXTENDS JobWorker, SequenceTheorems, TLAPS

Lists == [QueueNames -> Seq(Entries)]

InList(L, x) == \E q \in QueueNames : \E i \in 1..Len(L[q]) : L[q][i] = x

\* No two places of the lists hold the same job.
Distinct(L) ==
    \A q, r \in QueueNames : \A i \in 1..Len(L[q]), k \in 1..Len(L[r]) :
        L[q][i].job = L[r][k].job => q = r /\ i = k

Pushed(L, q, e, M) == M = [L EXCEPT ![q] = Append(@, e)]
Popped(L, q, M) == M = [L EXCEPT ![q] = Tail(@)]

LEMMA InListTyped == ASSUME NEW L \in Lists, NEW x, InList(L, x) PROVE x \in Entries
BY DEF Lists, InList

LEMMA AppendFacts ==
    ASSUME NEW L \in Lists, NEW q \in QueueNames, NEW e \in Entries,
           NEW M, Pushed(L, q, e, M)
    PROVE  /\ M \in Lists
           /\ \A r \in QueueNames : r # q => M[r] = L[r]
           /\ Len(L[q]) \in Nat /\ Len(M[q]) = Len(L[q]) + 1
           /\ \A i \in 1..Len(L[q]) : M[q][i] = L[q][i]
           /\ M[q][Len(L[q]) + 1] = e
<1>1. L[q] \in Seq(Entries) /\ M[q] = Append(L[q], e)
  BY DEF Lists, Pushed
<1>2. M \in Lists
  BY <1>1 DEF Lists, Pushed
<1>3. \A r \in QueueNames : r # q => M[r] = L[r]
  BY DEF Lists, Pushed
<1> QED
  BY <1>1, <1>2, <1>3

LEMMA AppendEntries ==
    ASSUME NEW L \in Lists, NEW q \in QueueNames, NEW e \in Entries,
           NEW M, Pushed(L, q, e, M)
    PROVE  \A x : InList(M, x) <=> InList(L, x) \/ x = e
<1>1. ASSUME NEW x, InList(M, x) PROVE InList(L, x) \/ x = e
  <2>1. PICK r \in QueueNames : \E i \in 1..Len(M[r]) : M[r][i] = x
    BY <1>1 DEF InList
  <2>2. PICK i \in 1..Len(M[r]) : M[r][i] = x
    BY <2>1
  <2>3. CASE r # q
    BY <2>2, <2>3, AppendFacts DEF InList
  <2>4. CASE r = q
    <3>1. i \in 1..Len(L[q]) \/ i = Len(L[q]) + 1
      BY <2>2, <2>4, AppendFacts
    <3> QED
      BY <2>2, <2>4, <3>1, AppendFacts DEF InList
  <2> QED
    BY <2>3, <2>4
<1>2. ASSUME NEW x, InList(L, x) PROVE InList(M, x)
  <2>1. PICK r \in QueueNames : \E i \in 1..Len(L[r]) : L[r][i] = x
    BY <1>2 DEF InList
  <2>2. PICK i \in 1..Len(L[r]) : L[r][i] = x
    BY <2>1
  <2>3. i \in 1..Len(M[r]) /\ M[r][i] = x
    BY <2>2, AppendFacts
  <2> QED
    BY <2>3 DEF InList
<1>3. InList(M, e)
  <2>1. Len(L[q]) + 1 \in 1..Len(M[q]) /\ M[q][Len(L[q]) + 1] = e
    BY AppendFacts
  <2> QED
    BY <2>1 DEF InList
<1> QED
  BY <1>1, <1>2, <1>3

LEMMA AppendDistinct ==
    ASSUME NEW L \in Lists, NEW q \in QueueNames, NEW e \in Entries,
           NEW M, Pushed(L, q, e, M),
           Distinct(L), \A x : InList(L, x) => x.job # e.job
    PROVE  Distinct(M)
<1> SUFFICES ASSUME NEW r \in QueueNames, NEW s \in QueueNames,
                    NEW i \in 1..Len(M[r]), NEW k \in 1..Len(M[s]),
                    M[r][i].job = M[s][k].job
             PROVE  r = s /\ i = k
  BY DEF Distinct
<1>1. ASSUME NEW t \in QueueNames, NEW n \in 1..Len(M[t])
      PROVE  \/ n \in 1..Len(L[t]) /\ M[t][n] = L[t][n]
             \/ t = q /\ n = Len(L[q]) + 1 /\ M[t][n] = e
  <2>1. CASE t # q
    BY <1>1, <2>1, AppendFacts
  <2>2. CASE t = q
    <3>1. n \in 1..Len(L[q]) \/ n = Len(L[q]) + 1
      BY <1>1, <2>2, AppendFacts
    <3> QED
      BY <2>2, <3>1, AppendFacts
  <2> QED
    BY <2>1, <2>2
<1>2. \A t \in QueueNames : \A n \in 1..Len(L[t]) : L[t][n].job # e.job
  BY DEF InList
<1>3. CASE i \in 1..Len(L[r]) /\ M[r][i] = L[r][i]
  <2>1. k \in 1..Len(L[s]) /\ M[s][k] = L[s][k]
    BY <1>1, <1>2, <1>3
  <2> QED
    BY <1>3, <2>1 DEF Distinct
<1>4. CASE r = q /\ i = Len(L[q]) + 1 /\ M[r][i] = e
  <2>1. s = q /\ k = Len(L[q]) + 1
    BY <1>1, <1>2, <1>4
  <2> QED
    BY <1>4, <2>1
<1> QED
  BY <1>1, <1>3, <1>4

LEMMA TailFacts ==
    ASSUME NEW L \in Lists, NEW q \in QueueNames, L[q] # <<>>,
           NEW M, Popped(L, q, M)
    PROVE  /\ M \in Lists
           /\ \A r \in QueueNames : r # q => M[r] = L[r]
           /\ Len(L[q]) \in Nat /\ Len(M[q]) \in Nat /\ Len(L[q]) = Len(M[q]) + 1
           /\ \A i \in 1..(Len(L[q]) - 1) : M[q][i] = L[q][i + 1]
           /\ Head(L[q]) = L[q][1]
<1>1. L[q] \in Seq(Entries) /\ M[q] = Tail(L[q])
  BY DEF Lists, Popped
<1>2. /\ Tail(L[q]) \in Seq(Entries) /\ Len(Tail(L[q])) = Len(L[q]) - 1
      /\ \A i \in 1..Len(Tail(L[q])) : Tail(L[q])[i] = L[q][i + 1]
  BY <1>1, HeadTailProperties
<1>3. M \in Lists
  BY <1>1, <1>2 DEF Lists, Popped
<1>4. \A r \in QueueNames : r # q => M[r] = L[r]
  BY DEF Lists, Popped
<1>5. Len(L[q]) \in Nat /\ Len(M[q]) \in Nat /\ Len(L[q]) = Len(M[q]) + 1
  <2>1. Len(L[q]) \in Nat /\ Len(Tail(L[q])) \in Nat
    BY <1>1, <1>2, LenProperties
  <2> QED
    BY <1>1, <1>2, <2>1
<1>6. Head(L[q]) = L[q][1]
  BY <1>1
<1> QED
  BY <1>1, <1>2, <1>3, <1>4, <1>5, <1>6

LEMMA TailEntries ==
    ASSUME NEW L \in Lists, NEW q \in QueueNames, L[q] # <<>>, Distinct(L),
           NEW M, Popped(L, q, M)
    PROVE  /\ Distinct(M)
           /\ InList(L, Head(L[q])) /\ Head(L[q]) \in Entries
           /\ \A x : InList(M, x) => InList(L, x) /\ x.job # Head(L[q]).job
           /\ \A x : InList(L, x) => InList(M, x) \/ x = Head(L[q])
<1>0. /\ M \in Lists /\ Len(L[q]) \in Nat /\ Len(M[q]) \in Nat /\ Len(L[q]) = Len(M[q]) + 1
      /\ \A n \in 1..(Len(L[q]) - 1) : M[q][n] = L[q][n + 1]
  BY TailFacts
<1>1. ASSUME NEW r \in QueueNames, NEW i \in 1..Len(M[r])
      PROVE  \E k \in 1..Len(L[r]) : /\ M[r][i] = L[r][k]
                                     /\ k = IF r = q THEN i + 1 ELSE i
  <2>1. CASE r # q
    BY <1>1, <2>1, TailFacts
  <2>2. CASE r = q
    <3>1. i \in 1..(Len(L[q]) - 1) /\ i + 1 \in 1..Len(L[q])
      BY <1>0, <1>1, <2>2
    <3> QED
      BY <1>0, <2>2, <3>1
  <2> QED
    BY <2>1, <2>2
<1>2. Distinct(M)
  <2> SUFFICES ASSUME NEW r \in QueueNames, NEW s \in QueueNames,
                      NEW i \in 1..Len(M[r]), NEW k \in 1..Len(M[s]),
                      M[r][i].job = M[s][k].job
               PROVE  r = s /\ i = k
    BY DEF Distinct
  <2>1. PICK m \in 1..Len(L[r]) : M[r][i] = L[r][m] /\ m = IF r = q THEN i + 1 ELSE i
    BY <1>1
  <2>2. PICK n \in 1..Len(L[s]) : M[s][k] = L[s][n] /\ n = IF s = q THEN k + 1 ELSE k
    BY <1>1
  <2>3. r = s /\ m = n
    BY <2>1, <2>2 DEF Distinct
  <2> QED
    BY <2>1, <2>2, <2>3
<1>3. 1 \in 1..Len(L[q]) /\ L[q][1] = Head(L[q])
  BY TailFacts
<1>4. InList(L, Head(L[q])) /\ Head(L[q]) \in Entries
  <2>1. InList(L, Head(L[q]))
    BY <1>3 DEF InList
  <2> QED
    BY <2>1, InListTyped
<1>5. ASSUME NEW x, InList(M, x) PROVE InList(L, x) /\ x.job # Head(L[q]).job
  <2>1. PICK r \in QueueNames : \E i \in 1..Len(M[r]) : M[r][i] = x
    BY <1>5 DEF InList
  <2>2. PICK i \in 1..Len(M[r]) : M[r][i] = x
    BY <2>1
  <2>3. PICK k \in 1..Len(L[r]) : M[r][i] = L[r][k] /\ k = IF r = q THEN i + 1 ELSE i
    BY <1>1
  <2>4. r # q \/ k # 1
    BY <2>3
  <2>5. x.job # L[q][1].job
    BY <1>3, <2>2, <2>3, <2>4 DEF Distinct
  <2> QED
    BY <1>3, <2>2, <2>3, <2>5 DEF InList
<1>6. ASSUME NEW x, InList(L, x) PROVE InList(M, x) \/ x = Head(L[q])
  <2>1. PICK r \in QueueNames : \E i \in 1..Len(L[r]) : L[r][i] = x
    BY <1>6 DEF InList
  <2>2. PICK i \in 1..Len(L[r]) : L[r][i] = x
    BY <2>1
  <2>3. CASE r # q
    BY <2>2, <2>3, TailFacts DEF InList
  <2>4. CASE r = q /\ i = 1
    BY <1>3, <2>2, <2>4
  <2>5. CASE r = q /\ i # 1
    <3>1. i - 1 \in 1..Len(M[q]) /\ M[q][i - 1] = x
      BY <2>2, <2>5, TailFacts
    <3> QED
      BY <3>1 DEF InList
  <2> QED
    BY <2>3, <2>4, <2>5
<1> QED
  BY <1>2, <1>4, <1>5, <1>6
-----------------------------------------------------------------------------
\* What holds of an entry that waits, and of one that seat p has in hand.
Waiting(x) == Alive(x) /\ x.tries < MaxTries /\ ready[x.job] <= x.due
HeldOK(p, x) ==
    /\ Alive(x)
    /\ x.tries = MaxTries <=> p.at = "bury"
    /\ p.at \in {"popped", "run"} => ready[x.job] <= x.due
    /\ p.at = "retry" => ready[x.job] <= In(2 ^ x.tries)

Empty == {"loop", "gone"}
Seats == [at : {"loop", "popped", "run", "retry", "bury", "gone"},
          from : QueueNames, entry : SUBSET Entries]

SeatOK(p) ==
    /\ p \in Seats
    /\ p.at \in Empty => p.entry = {}
    /\ p.at \notin Empty => \E x \in Entries : p.entry = {x} /\ HeldOK(p, x)

Plain ==
    /\ now \in 0..MaxTime
    /\ done \cup unhandled \subseteq enqueued /\ enqueued \subseteq Jobs
    /\ done \cap unhandled = {}
    /\ \A j \in Jobs \ enqueued : runs[j] = 0
    /\ runs \in [Jobs -> 0..MaxTries] /\ ready \in [Jobs -> 0..MaxTime]
    /\ faults \in 0..MaxFaults

Lined == list \in Lists /\ Distinct(list) /\ \A x : InList(list, x) => Waiting(x)

Seated ==
    /\ go \in [Goroutines -> Seats]
    /\ \A g \in Goroutines : SeatOK(go[g])
    /\ \A g, h \in Goroutines : \A e \in go[g].entry, f \in go[h].entry :
           e.job = f.job => g = h

Apart == \A g \in Goroutines : \A e \in go[g].entry : \A x : InList(list, x) => x.job # e.job

Buried ==
    /\ dead \subseteq Entries
    /\ \A d, e \in dead : d.job = e.job => d = e
    /\ \A e \in dead : /\ e.job \notin done \cup unhandled
                       /\ e.job \in enqueued /\ runs[e.job] = MaxTries

Placed(j) == (\E x : InList(list, x) /\ x.job = j) \/ InHand(j) \/ Ended(j)
Covered == \A j \in enqueued : Placed(j) \/ cancelled \/ faults > 0

\* JobInv and the due times, as the proof needs them.
JobsOK == Plain /\ Lined /\ Seated /\ Apart /\ Buried /\ Covered
-----------------------------------------------------------------------------
LEMMA Numbers ==
    /\ MaxTime \in Nat /\ MaxTries \in Nat \ {0} /\ MaxFaults \in Nat
    /\ \A j \in Jobs : Delay[j] \in Nat
    /\ \A n \in 0..MaxTries : 2 ^ n \in Nat
BY JobWorkerConstants

LEMMA EntryFields ==
    ASSUME NEW x \in Entries
    PROVE  x.job \in Jobs /\ x.tries \in 0..MaxTries /\ x.due \in 0..MaxTime
BY DEF Entries

LEMMA InFacts ==
    ASSUME NEW n \in Nat, now \in 0..MaxTime
    PROVE  /\ In(n) \in 0..MaxTime
           /\ now' \in 0..MaxTime => In(n)' \in 0..MaxTime
           /\ now' \in 0..MaxTime /\ now <= now' => In(n) <= In(n)'
BY Numbers DEF In

\* Nothing happens to the other jobs.
Others(j) ==
    /\ Plain /\ Plain' /\ now <= now' /\ enqueued \subseteq enqueued'
    /\ \A i \in Jobs : i # j =>
          runs'[i] = runs[i] /\ ready'[i] = ready[i] /\ (Ended(i)' <=> Ended(i))
          /\ (i \in done' \cup unhandled' <=> i \in done \cup unhandled)

LEMMA Persist ==
    ASSUME NEW j, Others(j), NEW x \in Entries, x.job # j
    PROVE  /\ Waiting(x) => Waiting(x)'
           /\ \A p : HeldOK(p, x) => HeldOK(p, x)'
<1>1. x.job \in Jobs /\ 2 ^ x.tries \in Nat
  BY EntryFields, Numbers
<1>2. /\ Alive(x) => Alive(x)'
      /\ ready'[x.job] = ready[x.job]
  BY <1>1 DEF Others, Alive
<1>3. In(2 ^ x.tries) <= In(2 ^ x.tries)' /\ In(2 ^ x.tries) \in Int /\ In(2 ^ x.tries)' \in Int
  <2>1. PICK n \in Nat : n = 2 ^ x.tries
    BY <1>1
  <2>2. now \in 0..MaxTime /\ now' \in 0..MaxTime /\ now <= now'
    BY DEF Others, Plain
  <2>3. In(n) <= In(n)' /\ In(n) \in Int /\ In(n)' \in Int
    BY <2>2, InFacts
  <2> QED
    BY <2>1, <2>3
<1>4. ready[x.job] \in Int
  BY <1>1 DEF Others, Plain
<1>5. ASSUME NEW p, HeldOK(p, x) PROVE HeldOK(p, x)'
  <2>1. ready[x.job] <= In(2 ^ x.tries) => ready'[x.job] <= In(2 ^ x.tries)'
    BY <1>2, <1>3, <1>4
  <2> QED
    BY <1>2, <1>5, <2>1 DEF HeldOK
<1> QED
  BY <1>2, <1>5 DEF Waiting

\* A goroutine that sits with an entry.
LEMMA EntryIs ==
    ASSUME JobsOK, NEW g \in Goroutines, go[g].at \notin Empty
    PROVE  /\ go[g].entry = {Entry(g)} /\ Entry(g) \in Entries /\ HeldOK(go[g], Entry(g))
           /\ \A h \in Goroutines : h # g => \A e \in go[h].entry : e.job # Entry(g).job
           /\ \A x : InList(list, x) => x.job # Entry(g).job
<1>1. PICK x \in Entries : go[g].entry = {x} /\ HeldOK(go[g], x)
  BY DEF JobsOK, Seated, SeatOK
<1>2. Entry(g) = x
  BY <1>1 DEF Entry
<1> QED
  BY <1>1, <1>2 DEF JobsOK, Seated, Apart

\* A step of goroutine g that concerns job j only.
LEMMA SeatStep ==
    ASSUME JobsOK, NEW j, Others(j), NEW g \in Goroutines, NEW p, Put(g, p), SeatOK(p)',
           \A h \in Goroutines : h # g => \A e \in go[h].entry : e.job # j,
           \A e \in p.entry : e.job = j
    PROVE  Seated'
<1>0. p \in Seats
  BY Zenon DEF SeatOK, Seats, Entries
<1>1. go' \in [Goroutines -> Seats]
  BY <1>0 DEF JobsOK, Seated, Put
<1>2. \A h \in Goroutines : go'[h] = IF h = g THEN p ELSE go[h]
  BY DEF JobsOK, Seated, Put
<1>3. ASSUME NEW h \in Goroutines PROVE SeatOK(go[h])'
  <2>1. PICK q : q = go'[h]
    OBVIOUS
  <2>2. CASE h = g
    BY <1>2, <2>1, <2>2
  <2>3. CASE h # g
    <3>1. SeatOK(q) /\ q = go[h]
      BY <1>2, <2>1, <2>3 DEF JobsOK, Seated
    <3>2. ASSUME NEW x \in Entries, q.entry = {x}, HeldOK(q, x) PROVE HeldOK(q, x)'
      BY <2>3, <3>1, <3>2, Persist
    <3>3. SeatOK(q)'
      BY <3>1, <3>2 DEF SeatOK, Seats, Entries
    <3> QED
      BY <2>1, <3>3
  <2> QED
    BY <2>2, <2>3
<1>4. ASSUME NEW h \in Goroutines, NEW i \in Goroutines,
             NEW e \in go'[h].entry, NEW f \in go'[i].entry, e.job = f.job
      PROVE  h = i
  BY <1>2, <1>4 DEF JobsOK, Seated
<1> QED
  BY <1>1, <1>3, <1>4 DEF Seated

\* The lists are left alone, or one entry is put at an end.
LEMMA ListKept ==
    ASSUME JobsOK, NEW j, Others(j), list' = list, \A x : InList(list, x) => x.job # j
    PROVE  Lined'
<1>1. ASSUME NEW x, InList(list, x) PROVE Waiting(x)'
  BY <1>1, InListTyped, Persist DEF JobsOK, Lined
<1> QED
  BY <1>1 DEF JobsOK, Lined

LEMMA ListPushed ==
    ASSUME JobsOK, NEW j, Others(j), NEW q \in QueueNames, NEW e \in Entries,
           RPush(q, e), e.job = j, Waiting(e)', \A x : InList(list, x) => x.job # j
    PROVE  Lined' /\ \A x : InList(list, x)' <=> InList(list, x) \/ x = e
<1>1. PICK L, M : L = list /\ M = list'
  OBVIOUS
<1>2. L \in Lists /\ Pushed(L, q, e, M) /\ Distinct(L)
  BY <1>1 DEF JobsOK, Lined, RPush, Pushed
<1>3. M \in Lists /\ Distinct(M) /\ \A x : InList(M, x) <=> InList(L, x) \/ x = e
  BY <1>1, <1>2, AppendFacts, AppendEntries, AppendDistinct
<1>4. ASSUME NEW x, InList(M, x) PROVE Waiting(x)'
  <2>1. InList(L, x) => Waiting(x) /\ x \in Entries /\ x.job # j
    BY <1>1, InListTyped DEF JobsOK, Lined
  <2> QED
    BY <1>3, <1>4, <2>1, Persist
<1> QED
  BY <1>1, <1>3, <1>4 DEF Lined

\* The dead are left alone.
LEMMA DeadKept ==
    ASSUME JobsOK, NEW j, Others(j), dead' = dead, ~Ended(j)
    PROVE  Buried'
<1>1. ASSUME NEW e \in dead PROVE e.job # j /\ e.job \in Jobs /\ Ended(e.job)
  BY <1>1, EntryFields DEF Ended, JobsOK, Buried
<1>2. ASSUME NEW e \in dead
      PROVE  e.job \notin done' \cup unhandled' /\ e.job \in enqueued' /\ runs'[e.job] = MaxTries
  <2>1. runs'[e.job] = runs[e.job]
    BY <1>1 DEF Others
  <2> QED
    BY <1>1, <2>1 DEF JobsOK, Buried, Others, Ended
<1> QED
  BY <1>2 DEF JobsOK, Buried

\* No goroutine moves.
LEMMA SeatsKept ==
    ASSUME JobsOK, NEW j, Others(j), go' = go,
           \A h \in Goroutines : \A e \in go[h].entry : e.job # j
    PROVE  Seated'
<1>1. ASSUME NEW h \in Goroutines PROVE SeatOK(go[h])'
  <2>1. PICK q : q = go[h]
    OBVIOUS
  <2>2. SeatOK(q)
    BY <2>1 DEF JobsOK, Seated
  <2>3. ASSUME NEW x \in Entries, q.entry = {x}, HeldOK(q, x) PROVE HeldOK(q, x)'
    BY <2>1, <2>3, Persist
  <2>4. SeatOK(q)'
    BY <2>2, <2>3 DEF SeatOK, Seats, Entries
  <2> QED
    BY <2>1, <2>4
<1> QED
  BY <1>1 DEF JobsOK, Seated

LEMMA HandStep ==
    ASSUME JobsOK, NEW j, NEW g \in Goroutines, NEW p, Put(g, p),
           \A e \in go[g].entry : e.job = j
    PROVE  /\ \A i : InHand(i) => InHand(i)' \/ i = j
           /\ \A e \in p.entry : InHand(e.job)'
<1>1. \A h \in Goroutines : go'[h] = IF h = g THEN p ELSE go[h]
  BY DEF JobsOK, Seated, Put
<1> QED
  BY <1>1 DEF InHand

LEMMA ApartStep ==
    ASSUME JobsOK, NEW j, NEW g \in Goroutines, NEW p, Put(g, p),
           \A e \in p.entry : e.job = j,
           \A h \in Goroutines : h # g => \A e \in go[h].entry : e.job # j,
           \A x : InList(list, x)' => InList(list, x) \/ x.job = j,
           p.entry # {} => \A x : InList(list, x)' => x.job # j
    PROVE  Apart'
<1>1. \A h \in Goroutines : go'[h] = IF h = g THEN p ELSE go[h]
  BY DEF JobsOK, Seated, Put
<1> QED
  BY <1>1 DEF JobsOK, Apart

LEMMA CoverStep ==
    ASSUME JobsOK, NEW j, enqueued' \subseteq enqueued \cup {j},
           \A i : i # j /\ Placed(i) => Placed(i)',
           Placed(j)' \/ cancelled' \/ faults' > 0,
           cancelled => cancelled', faults > 0 => faults' > 0
    PROVE  Covered'
BY DEF JobsOK, Covered
-----------------------------------------------------------------------------
LEMMA JobsInit == Init => JobsOK
<1> SUFFICES ASSUME Init PROVE JobsOK
  OBVIOUS
<1>1. Plain /\ Buried
  BY Numbers DEF Init, Plain, Buried
<1>2. ASSUME NEW x PROVE ~InList(list, x)
  BY DEF Init, InList
<1>3. Lined
  <2>1. list \in Lists
    BY DEF Init, Lists
  <2>2. Distinct(list)
    BY DEF Init, Distinct
  <2> QED
    BY <1>2, <2>1, <2>2 DEF Lined
<1>4. Seated
  BY DEF Init, Seated, SeatOK, Seats, Looping, QueueNames, Empty
<1>5. Apart /\ Covered
  BY <1>2 DEF Init, Apart, Covered
<1> QED
  BY <1>1, <1>3, <1>4, <1>5 DEF JobsOK

\* Every job that something is known of has been enqueued.
LEMMA Known ==
    ASSUME JobsOK
    PROVE  /\ \A x : InList(list, x) => x.job \in enqueued /\ ~Ended(x.job) /\ x \in Entries
           /\ \A g \in Goroutines : \A x \in go[g].entry : x.job \in enqueued /\ ~Ended(x.job)
           /\ \A i : Ended(i) => i \in enqueued
<1>1. ASSUME NEW x, InList(list, x) PROVE x.job \in enqueued /\ ~Ended(x.job) /\ x \in Entries
  BY <1>1, InListTyped DEF JobsOK, Lined, Waiting, Alive
<1>2. ASSUME NEW g \in Goroutines, NEW x \in go[g].entry PROVE x.job \in enqueued /\ ~Ended(x.job)
  <2>1. SeatOK(go[g])
    BY DEF JobsOK, Seated
  <2> QED
    BY <2>1 DEF SeatOK, HeldOK, Alive
<1>3. ASSUME NEW i, Ended(i) PROVE i \in enqueued
  BY <1>3 DEF JobsOK, Buried, Plain, Ended
<1> QED
  BY <1>1, <1>2, <1>3

LEMMA EnqueueOK ==
    ASSUME JobsOK, NEW j \in Jobs, Enqueue(j)
    PROVE  JobsOK'
<1>1. PICK e : e = [job |-> j, tries |-> 0, due |-> In(Delay[j])]
  OBVIOUS
<1>2. In(Delay[j]) \in 0..MaxTime
  <2>1. Delay[j] \in Nat /\ now \in 0..MaxTime
    BY Numbers DEF JobsOK, Plain
  <2> QED
    BY <2>1, InFacts
<1>3. e \in Entries /\ e.job = j /\ e.tries = 0 /\ e.due = In(Delay[j])
  BY <1>1, <1>2, Numbers DEF Entries
<1>4. j \notin enqueued /\ ~Ended(j) /\ runs[j] = 0
  <2>1. j \notin enqueued
    BY DEF Enqueue
  <2> QED
    BY <2>1, Known DEF JobsOK, Plain
<1>5. Plain'
  BY <1>2 DEF JobsOK, Plain, Enqueue
<1>6. Others(j)
  BY <1>5 DEF Others, JobsOK, Enqueue, Plain, Ended
<1>7. /\ \A x : InList(list, x) => x.job # j
      /\ \A h \in Goroutines : \A x \in go[h].entry : x.job # j
  BY <1>4, Known
<1>8. ready'[j] = e.due /\ RPush("default", e) /\ "default" \in QueueNames
  BY <1>1, <1>3 DEF JobsOK, Plain, Enqueue, QueueNames
<1>9. Waiting(e)'
  <2>1. Alive(e)'
    BY <1>3, <1>4 DEF Enqueue, Alive, Ended
  <2>2. 0 < MaxTries /\ e.due <= e.due
    BY <1>2, <1>3, Numbers
  <2> QED
    BY <1>3, <1>8, <2>1, <2>2 DEF Waiting
<1>10. Lined' /\ \A x : InList(list, x)' <=> InList(list, x) \/ x = e
  BY <1>3, <1>6, <1>7, <1>8, <1>9, ListPushed
<1>11. Seated'
  BY <1>6, <1>7, SeatsKept DEF Enqueue
<1>12. Apart'
  BY <1>3, <1>7, <1>10 DEF JobsOK, Apart, Enqueue
<1>13. Buried'
  BY <1>4, <1>6, DeadKept DEF Enqueue
<1>14. Covered'
  <2>1. \A i : Placed(i) => Placed(i)'
    BY <1>10 DEF Placed, InHand, Ended, Enqueue
  <2>2. Placed(j)'
    BY <1>3, <1>10 DEF Placed
  <2> QED
    BY <2>1, <2>2, CoverStep DEF Enqueue
<1> QED
  BY <1>5, <1>10, <1>11, <1>12, <1>13, <1>14 DEF JobsOK
-----------------------------------------------------------------------------
\* A step that changes nothing about any job but where it is.
Quiet == /\ Plain /\ Plain' /\ now <= now'
         /\ UNCHANGED <<dead, enqueued, done, runs, ready, unhandled>>

LEMMA QuietOthers ==
    ASSUME Quiet
    PROVE  /\ \A j : Others(j)
           /\ \A x \in Entries : Waiting(x) => Waiting(x)'
           /\ \A x \in Entries : \A p : HeldOK(p, x) => HeldOK(p, x)'
<1>1. \A j : Others(j)
  BY DEF Quiet, Others, Ended
<1>2. ASSUME NEW x \in Entries
      PROVE  (Waiting(x) => Waiting(x)') /\ \A p : HeldOK(p, x) => HeldOK(p, x)'
  <2>1. PICK j : j # x.job
    <3>1. 1 # x.job \/ 2 # x.job
      OBVIOUS
    <3> QED
      BY <3>1
  <2> QED
    BY <1>1, <2>1, Persist
<1> QED
  BY <1>1, <1>2

LEMMA QuietBuried ==
    ASSUME JobsOK, Quiet
    PROVE  Buried'
BY DEF JobsOK, Quiet, Buried

LEMMA EmptySeat ==
    ASSUME NEW p \in Seats, p.at \in Empty, p.entry = {}
    PROVE  SeatOK(p)'
BY DEF SeatOK, Empty, Seats, Entries

LEMMA LoopingOK ==
    /\ Looping \in Seats /\ Looping.at \in Empty /\ Looping.entry = {} /\ SeatOK(Looping)'
    /\ LET p == [Looping EXCEPT !.at = "gone"] IN p \in Seats /\ p.at \in Empty /\ p.entry = {}
<1>1. /\ Looping \in Seats /\ Looping.at \in Empty /\ Looping.entry = {}
      /\ LET p == [Looping EXCEPT !.at = "gone"] IN p \in Seats /\ p.at \in Empty /\ p.entry = {}
  BY DEF Looping, Seats, QueueNames, Empty
<1> QED
  BY <1>1, EmptySeat

LEMMA PopOK ==
    ASSUME JobsOK, NEW g \in Goroutines, Pop(g)
    PROVE  JobsOK'
<1>1. Quiet
  BY DEF JobsOK, Quiet, Plain, Pop
<1>2. PICK i \in 1..Len(Served) :
          /\ list[Served[i]] # <<>>
          /\ list' = [list EXCEPT ![Served[i]] = Tail(@)]
          /\ Put(g, [at |-> "popped", from |-> Served[i], entry |-> {Head(list[Served[i]])}])
  BY DEF Pop, FirstNonempty, Rest
<1>3. PICK q, L, M, e : q = Served[i] /\ L = list /\ M = list' /\ e = Head(list[q])
  OBVIOUS
<1>4. q \in QueueNames
  <2>1. Served \in Seq({"default", "retry_queue"})
    BY JobWorkerConstants
  <2> QED
    BY <1>3, <2>1 DEF QueueNames
<1>5. L \in Lists /\ Distinct(L) /\ L[q] # <<>> /\ Popped(L, q, M)
  BY <1>2, <1>3 DEF JobsOK, Lined, Popped
<1>6. /\ M \in Lists /\ Distinct(M) /\ InList(L, e) /\ e \in Entries
      /\ \A x : InList(M, x) => InList(L, x) /\ x.job # e.job
      /\ \A x : InList(L, x) => InList(M, x) \/ x = e
  BY <1>3, <1>4, <1>5, TailFacts, TailEntries
<1>7. Lined'
  <2>1. ASSUME NEW x, InList(M, x) PROVE Waiting(x)'
    <3>1. InList(list, x) /\ x \in Entries /\ Waiting(x)
      BY <1>3, <1>6, <2>1, InListTyped DEF JobsOK, Lined
    <3> QED
      BY <1>1, <3>1, QuietOthers
  <2> QED
    BY <1>3, <1>6, <2>1 DEF Lined
<1>8. PICK p : p = [at |-> "popped", from |-> q, entry |-> {e}]
  OBVIOUS
<1>9. Waiting(e)' /\ InList(list, e) /\ \A h \in Goroutines : \A f \in go[h].entry : f.job # e.job
  BY <1>1, <1>3, <1>6, QuietOthers DEF JobsOK, Lined, Apart
<1>10. SeatOK(p)'
  <2>1. p \in Seats /\ p.at \notin Empty /\ p.entry = {e} /\ p.at = "popped"
    BY <1>4, <1>6, <1>8 DEF Seats, Empty
  <2>2. e.tries # MaxTries
    BY <1>6, <1>9, EntryFields, Numbers DEF Waiting
  <2>3. HeldOK(p, e)'
    BY <1>9, <2>1, <2>2 DEF HeldOK, Waiting
  <2> QED
    BY <1>6, <2>1, <2>3 DEF SeatOK
<1>11. Put(g, p) /\ (\A f \in p.entry : f.job = e.job) /\ p.entry = {e}
  BY <1>2, <1>3, <1>8
<1>12. go[g].entry = {}
  BY DEF Pop, At, JobsOK, Seated, SeatOK, Empty
<1>13. Seated'
  BY <1>1, <1>9, <1>10, <1>11, QuietOthers, SeatStep
<1>14. Apart'
  BY <1>3, <1>6, <1>9, <1>11, ApartStep
<1>15. Covered'
  <2>1. (\A j : InHand(j) => InHand(j)' \/ j = e.job) /\ InHand(e.job)'
    BY <1>11, <1>12, HandStep
  <2>2. \A j : Ended(j) => Ended(j)'
    BY <1>1 DEF Quiet, Ended
  <2>3. \A j : j # e.job /\ Placed(j) => Placed(j)'
    BY <1>3, <1>6, <2>1, <2>2 DEF Placed
  <2> QED
    BY <2>1, <2>3, CoverStep DEF Placed, Pop
<1> QED
  BY <1>1, <1>7, <1>13, <1>14, <1>15, QuietBuried DEF JobsOK, Quiet

\* An entry goes back to a list: requeueJob and retryJob.
LEMMA GiveOK ==
    ASSUME JobsOK, Quiet, UNCHANGED <<now, cancelled, faults>>,
           NEW g \in Goroutines, go[g].at \notin Empty, Put(g, Looping),
           NEW q \in QueueNames, NEW x \in Entries, RPush(q, x),
           x.job = Entry(g).job, x.tries = Entry(g).tries, x.tries < MaxTries,
           ready[x.job] <= x.due
    PROVE  JobsOK'
<1>1. PICK e : e = Entry(g)
  OBVIOUS
<1>2. /\ go[g].entry = {e} /\ HeldOK(go[g], e)
      /\ \A h \in Goroutines : h # g => \A f \in go[h].entry : f.job # e.job
      /\ \A y : InList(list, y) => y.job # e.job
  BY <1>1, EntryIs
<1>3. Waiting(x)'
  <2>1. Waiting(x)
    BY <1>1, <1>2 DEF HeldOK, Waiting, Alive
  <2> QED
    BY <2>1, QuietOthers
<1>4. Others(e.job) /\ x.job = e.job
  BY <1>1, QuietOthers
<1>5. Lined' /\ \A y : InList(list, y)' <=> InList(list, y) \/ y = x
  BY <1>2, <1>3, <1>4, ListPushed
<1>6. Seated' /\ Apart'
  BY <1>2, <1>4, <1>5, LoopingOK, SeatStep, ApartStep
<1>7. Covered'
  <2>1. \A j : InHand(j) => InHand(j)' \/ j = e.job
    BY <1>2, HandStep
  <2>2. Placed(e.job)'
    BY <1>4, <1>5 DEF Placed
  <2>3. \A j : j # e.job /\ Placed(j) => Placed(j)'
    BY <1>5, <2>1 DEF Placed, Quiet, Ended
  <2> QED
    BY <2>2, <2>3, CoverStep DEF Quiet
<1> QED
  BY <1>5, <1>6, <1>7, QuietBuried DEF JobsOK, Quiet

\* Seats are left alone or emptied; if an entry was in one, a Stop or a fault
\* explains that it is lost.
LEMMA LetGoOK ==
    ASSUME JobsOK, Quiet, list' = list, go' \in [Goroutines -> Seats],
           \A h \in Goroutines : \/ go'[h] = go[h]
                                 \/ go'[h].at \in Empty /\ go'[h].entry = {},
           (cancelled \/ faults > 0) => (cancelled' \/ faults' > 0),
           \/ \A h \in Goroutines : go'[h] = go[h] \/ go[h].entry = {}
           \/ cancelled' \/ faults' > 0
    PROVE  JobsOK'
<1>1. Lined'
  <2>1. ASSUME NEW x, InList(list, x) PROVE Waiting(x)'
    BY <2>1, InListTyped, QuietOthers DEF JobsOK, Lined
  <2> QED
    BY <2>1 DEF JobsOK, Lined
<1>2. ASSUME NEW h \in Goroutines PROVE SeatOK(go[h])'
  <2>1. PICK q : q = go'[h]
    OBVIOUS
  <2>2. CASE q = go[h]
    <3>1. SeatOK(q)
      BY <2>2 DEF JobsOK, Seated
    <3>2. SeatOK(q)'
      BY <3>1, QuietOthers DEF SeatOK, Seats, Entries
    <3> QED
      BY <2>1, <3>2
  <2>3. CASE q.at \in Empty /\ q.entry = {}
    <3>1. q \in Seats
      BY <2>1
    <3>2. SeatOK(q)'
      BY <2>3, <3>1, EmptySeat
    <3> QED
      BY <2>1, <3>2
  <2> QED
    BY <2>1, <2>2, <2>3
<1>3. Seated'
  BY <1>2 DEF JobsOK, Seated
<1>4. Apart'
  BY DEF JobsOK, Apart
<1>5. Covered'
  <2>1. CASE cancelled' \/ faults' > 0
    BY <2>1 DEF Covered
  <2>2. CASE ~(cancelled' \/ faults' > 0)
    <3>1. \A i : InHand(i) => InHand(i)'
      BY <2>2 DEF InHand
    <3>2. \A i : Placed(i) => Placed(i)'
      BY <3>1 DEF Placed, Quiet, Ended
    <3> QED
      BY <2>2, <3>2 DEF JobsOK, Covered, Quiet
  <2> QED
    BY <2>1, <2>2
<1> QED
  BY <1>1, <1>3, <1>4, <1>5, QuietBuried DEF JobsOK, Quiet

\* One goroutine empties its seat.
LEMMA LeaveSeat ==
    ASSUME JobsOK, NEW g \in Goroutines, NEW p \in Seats, Put(g, p), p.at \in Empty, p.entry = {}
    PROVE  /\ go' \in [Goroutines -> Seats]
           /\ \A h \in Goroutines : \/ h # g /\ go'[h] = go[h]
                                    \/ h = g /\ go'[h].at \in Empty /\ go'[h].entry = {}
BY DEF JobsOK, Seated, Put

LEMMA PutBackOK ==
    ASSUME JobsOK, NEW g \in Goroutines, PutBack(g)
    PROVE  JobsOK'
<1>1. Quiet /\ Put(g, Looping) /\ go[g].at = "popped" /\ UNCHANGED <<now, cancelled, faults>>
  BY DEF JobsOK, Quiet, Plain, PutBack, At
<1>2. CASE cancelled
  <2>1. list' = list /\ cancelled'
    BY <1>2 DEF PutBack
  <2> QED
    BY <1>1, <2>1, LoopingOK, LeaveSeat, LetGoOK
<1>3. CASE ~cancelled
  <2>1. go[g].from \in QueueNames
    BY DEF JobsOK, Seated, Seats
  <2>2. PICK x : x = Entry(g)
    OBVIOUS
  <2>3. x \in Entries /\ HeldOK(go[g], x)
    BY <1>1, <2>2, EntryIs DEF Empty
  <2>4. x.tries < MaxTries /\ ready[x.job] <= x.due
    BY <1>1, <2>3, EntryFields, Numbers DEF HeldOK
  <2>5. RPush(go[g].from, x)
    BY <1>3, <2>2 DEF PutBack
  <2> QED
    BY <1>1, <2>1, <2>2, <2>3, <2>4, <2>5, GiveOK DEF Empty
<1> QED
  BY <1>2, <1>3

LEMMA RetryOK ==
    ASSUME JobsOK, NEW g \in Goroutines, Retry(g)
    PROVE  JobsOK'
<1>1. Quiet /\ Put(g, Looping) /\ go[g].at = "retry" /\ UNCHANGED <<now, cancelled, faults>>
  BY DEF JobsOK, Quiet, Plain, Retry, At
<1>2. CASE cancelled
  <2>1. list' = list /\ cancelled'
    BY <1>2 DEF Retry
  <2> QED
    BY <1>1, <2>1, LoopingOK, LeaveSeat, LetGoOK
<1>3. CASE ~cancelled
  <2>1. PICK e : e = Entry(g)
    OBVIOUS
  <2>2. e \in Entries /\ HeldOK(go[g], e)
    BY <1>1, <2>1, EntryIs DEF Empty
  <2>3. PICK n \in Nat : n = 2 ^ e.tries
    BY <2>2, EntryFields, Numbers
  <2>4. In(n) \in 0..MaxTime
    BY InFacts DEF JobsOK, Plain
  <2>5. PICK x : x = [e EXCEPT !.due = In(n)]
    OBVIOUS
  <2>6. x \in Entries /\ x.job = e.job /\ x.tries = e.tries /\ x.due = In(n)
    BY <2>2, <2>4, <2>5 DEF Entries
  <2>7. e.tries < MaxTries
    BY <1>1, <2>2, EntryFields, Numbers DEF HeldOK
  <2>8. ready[x.job] <= x.due
    BY <1>1, <2>2, <2>3, <2>6 DEF HeldOK
  <2>9. RPush("retry_queue", x) /\ "retry_queue" \in QueueNames
    BY <1>3, <2>1, <2>3, <2>5 DEF Retry, RetryEntry, QueueNames
  <2> QED
    BY <1>1, <2>1, <2>6, <2>7, <2>8, <2>9, GiveOK DEF Empty
<1> QED
  BY <1>2, <1>3

LEMMA IdleOK ==
    ASSUME JobsOK, Stop \/ Tick \/ UNCHANGED vars
    PROVE  JobsOK'
<1>1. Plain' /\ now <= now'
  BY Numbers DEF JobsOK, Plain, Stop, Tick, vars
<1>2. Quiet /\ UNCHANGED <<list, go, faults>>
  BY <1>1 DEF JobsOK, Quiet, Stop, Tick, vars
<1>3. cancelled => cancelled'
  BY DEF Stop, Tick, vars
<1>4. go' \in [Goroutines -> Seats]
  BY <1>2 DEF JobsOK, Seated
<1> QED
  BY <1>2, <1>3, <1>4, LetGoOK

LEMMA LeaveOK ==
    ASSUME JobsOK, NEW g \in Goroutines, Leave(g)
    PROVE  JobsOK'
<1>1. Quiet /\ UNCHANGED <<list, cancelled, faults>>
  BY DEF JobsOK, Quiet, Plain, Leave
<1>2. PICK p : p = [Looping EXCEPT !.at = "gone"]
  OBVIOUS
<1>3. p \in Seats /\ p.at \in Empty /\ p.entry = {} /\ Put(g, p)
  BY <1>2, LoopingOK DEF Leave
<1> QED
  BY <1>1, <1>3, LeaveSeat, LetGoOK DEF Leave

LEMMA FaultOK ==
    ASSUME JobsOK, Crash \/ \E g \in Goroutines : FailPush(g)
    PROVE  JobsOK'
<1>1. Plain' /\ faults' > 0
  BY Numbers DEF JobsOK, Plain, Crash, FailPush
<1>2. Quiet /\ list' = list
  BY <1>1 DEF JobsOK, Quiet, Crash, FailPush, Plain
<1>3. CASE Crash
  <2>1. go' = [g \in Goroutines |-> Looping]
    BY <1>3 DEF Crash
  <2> QED
    BY <1>1, <1>2, <2>1, LoopingOK, LetGoOK
<1>4. ASSUME NEW g \in Goroutines, FailPush(g) PROVE JobsOK'
  <2>1. Put(g, Looping)
    BY <1>4 DEF FailPush
  <2> QED
    BY <1>1, <1>2, <2>1, LoopingOK, LeaveSeat, LetGoOK
<1> QED
  BY <1>3, <1>4

\* A goroutine goes on with its job, or the job has ended.
LEMMA SitOK ==
    ASSUME JobsOK, NEW g \in Goroutines, go[g].at \notin Empty, NEW p, Put(g, p), SeatOK(p)',
           NEW j, j = Entry(g).job, Others(j), Buried',
           UNCHANGED <<list, enqueued, cancelled, faults>>,
           \A x \in p.entry : x.job = j,
           p.entry # {} \/ Ended(j)'
    PROVE  JobsOK'
<1>1. PICK e : e = Entry(g)
  OBVIOUS
<1>2. /\ go[g].entry = {e} /\ e.job = j
      /\ \A h \in Goroutines : h # g => \A f \in go[h].entry : f.job # j
      /\ \A y : InList(list, y) => y.job # j
  BY <1>1, EntryIs
<1>3. Lined'
  BY <1>2, ListKept
<1>4. Seated' /\ Apart'
  BY <1>2, SeatStep, ApartStep
<1>5. Covered'
  <2>1. (\A i : InHand(i) => InHand(i)' \/ i = j) /\ \A x \in p.entry : InHand(x.job)'
    BY <1>2, HandStep
  <2>2. Placed(j)'
    BY <2>1 DEF Placed
  <2>3. ASSUME NEW i, i # j, Placed(i) PROVE Placed(i)'
    <3>1. Ended(i) => i \in Jobs
      BY EntryFields DEF JobsOK, Plain, Buried, Ended
    <3>2. Ended(i) => Ended(i)'
      BY <2>3, <3>1 DEF Others
    <3> QED
      BY <2>1, <2>3, <3>2 DEF Placed
  <2> QED
    BY <2>2, <2>3, CoverStep
<1> QED
  BY <1>3, <1>4, <1>5 DEF JobsOK, Others

LEMMA StartHandlerOK ==
    ASSUME JobsOK, NEW g \in Goroutines, StartHandler(g)
    PROVE  JobsOK'
<1>1. PICK e, j : e = Entry(g) /\ j = e.job
  OBVIOUS
<1>2. go[g].at = "popped" /\ go[g].at \notin Empty
  BY DEF StartHandler, At, Empty
<1>3. go[g].entry = {e} /\ e \in Entries /\ HeldOK(go[g], e) /\ Alive(e)
  BY <1>1, <1>2, EntryIs DEF HeldOK
<1>4. CASE j \in Handled
  <2>1. Quiet /\ UNCHANGED <<list, enqueued, cancelled, faults>> /\ dead' = dead
    BY <1>1, <1>4 DEF JobsOK, Quiet, Plain, StartHandler
  <2>2. PICK p : p = [go[g] EXCEPT !.at = "run"]
    OBVIOUS
  <2>3. p \in Seats /\ p.entry = {e} /\ p.at = "run"
    BY <1>3, <2>2 DEF JobsOK, Seated, Seats
  <2>4. HeldOK(p, e)
    BY <1>2, <1>3, <2>3 DEF HeldOK
  <2>5. SeatOK(p)'
    BY <1>3, <2>1, <2>3, <2>4, QuietOthers DEF SeatOK, Seats, Entries, Empty
  <2>6. Put(g, p)
    BY <1>1, <1>4, <2>2 DEF StartHandler
  <2> QED
    BY <1>1, <1>2, <2>1, <2>3, <2>5, <2>6, QuietOthers, QuietBuried, SitOK
<1>5. CASE j \notin Handled
  <2>1. /\ unhandled' = unhandled \cup {j} /\ Put(g, Looping)
        /\ UNCHANGED <<now, list, dead, cancelled, enqueued, done, runs, ready, faults>>
    BY <1>1, <1>5 DEF StartHandler
  <2>2. Plain'
    BY <1>1, <1>3, <2>1 DEF JobsOK, Plain, Alive, Ended
  <2>3. Others(j)
    BY <2>1, <2>2 DEF JobsOK, Others, Plain, Ended
  <2>4. Buried'
    BY <1>1, <1>3, <2>1, <2>3, DeadKept DEF Alive
  <2>5. Ended(j)'
    BY <2>1 DEF Ended
  <2> QED
    BY <1>1, <1>2, <2>1, <2>3, <2>4, <2>5, LoopingOK, SitOK
<1> QED
  BY <1>4, <1>5

LEMMA FinishHandlerOK ==
    ASSUME JobsOK, NEW g \in Goroutines, FinishHandler(g)
    PROVE  JobsOK'
<1>1. PICK e, j, x : e = Entry(g) /\ j = e.job /\ x = [e EXCEPT !.tries = @ + 1]
  OBVIOUS
<1>2. go[g].at = "run" /\ go[g].at \notin Empty
  BY DEF FinishHandler, At, Empty
<1>3. go[g].entry = {e} /\ e \in Entries /\ HeldOK(go[g], e) /\ Alive(e)
  BY <1>1, <1>2, EntryIs DEF HeldOK
<1>4. /\ j \in Jobs /\ j \in enqueued /\ runs[j] = e.tries /\ ~Ended(j)
      /\ e.tries \in Nat /\ e.tries < MaxTries /\ e.tries + 1 \in 0..MaxTries
  BY <1>1, <1>2, <1>3, EntryFields, Numbers DEF HeldOK, Alive
<1>5. runs' = [runs EXCEPT ![j] = @ + 1]
  BY <1>1 DEF FinishHandler
<1>6. runs' \in [Jobs -> 0..MaxTries] /\ runs'[j] = e.tries + 1 /\ \A i \in Jobs : i # j => runs'[i] = runs[i]
  BY <1>4, <1>5 DEF JobsOK, Plain
<1>7. UNCHANGED <<now, list, dead, cancelled, enqueued, unhandled, faults>>
  BY DEF FinishHandler
<1>8. CASE done' = done \cup {j} /\ Put(g, Looping) /\ UNCHANGED ready
  <2>1. Plain'
    BY <1>4, <1>6, <1>7, <1>8 DEF JobsOK, Plain, Ended
  <2>2. Others(j)
    BY <1>6, <1>7, <1>8, <2>1 DEF JobsOK, Others, Plain, Ended
  <2>3. Buried' /\ Ended(j)'
    BY <1>4, <1>7, <1>8, <2>2, DeadKept DEF Ended
  <2> QED
    BY <1>1, <1>2, <1>7, <1>8, <2>2, <2>3, LoopingOK, SitOK
<1>9. CASE /\ Put(g, [go[g] EXCEPT !.entry = {x}, !.at = IF MayRetry(x.tries) THEN "retry" ELSE "bury"])
           /\ ready' = [ready EXCEPT ![j] = In(2 ^ x.tries)]
           /\ UNCHANGED done
  <2>1. /\ x \in Entries /\ x.job = j /\ x.tries = e.tries + 1 /\ x.due = e.due
    BY <1>1, <1>3, <1>4 DEF Entries
  <2>2. PICK n \in Nat : n = 2 ^ x.tries
    BY <1>4, <2>1, Numbers
  <2>3. In(n) \in 0..MaxTime /\ now' = now
    BY <1>7, InFacts DEF JobsOK, Plain
  <2>4. /\ ready' \in [Jobs -> 0..MaxTime] /\ ready'[j] = In(n)
        /\ \A i \in Jobs : i # j => ready'[i] = ready[i]
    BY <1>4, <1>9, <2>2, <2>3 DEF JobsOK, Plain
  <2>5. Plain'
    BY <1>4, <1>6, <1>7, <1>9, <2>4 DEF JobsOK, Plain
  <2>6. Others(j)
    BY <1>6, <1>7, <1>9, <2>4, <2>5 DEF JobsOK, Others, Plain, Ended
  <2>7. Buried'
    BY <1>4, <1>7, <2>6, DeadKept
  <2>8. PICK p : p = [go[g] EXCEPT !.entry = {x}, !.at = IF MayRetry(x.tries) THEN "retry" ELSE "bury"]
    OBVIOUS
  <2>9. /\ p \in Seats /\ p.entry = {x}
        /\ p.at = IF MayRetry(x.tries) THEN "retry" ELSE "bury"
    <3>1. go[g] \in Seats
      BY DEF JobsOK, Seated
    <3>2. PICK q : q = IF MayRetry(x.tries) THEN "retry" ELSE "bury"
      OBVIOUS
    <3>3. q \in {"retry", "bury"}
      BY <3>2
    <3>4. p = [go[g] EXCEPT !.entry = {x}, !.at = q]
      BY <2>8, <3>2
    <3>5. p \in Seats /\ p.entry = {x} /\ p.at = q
      BY <2>1, <3>1, <3>3, <3>4 DEF Seats
    <3> QED
      BY <3>2, <3>5
  <2>10. x.tries = MaxTries <=> ~MayRetry(x.tries)
    BY <1>4, <2>1, Numbers DEF MayRetry
  <2>11. Alive(x)'
    BY <1>4, <1>6, <1>7, <1>9, <2>1 DEF Alive, Ended
  <2>12. ready'[x.job] <= In(2 ^ x.tries)'
    BY <2>1, <2>2, <2>3, <2>4, Numbers DEF In
  <2>13. HeldOK(p, x)'
    BY <2>9, <2>10, <2>11, <2>12 DEF HeldOK
  <2>14. SeatOK(p)'
    BY <2>1, <2>9, <2>13 DEF SeatOK, Empty
  <2>15. Put(g, p)
    BY <1>9, <2>8 DEF Put
  <2>16. (\A y \in p.entry : y.job = j) /\ p.entry # {}
    BY <2>1, <2>9
  <2> QED
    BY <1>1, <1>2, <1>7, <2>6, <2>7, <2>14, <2>15, <2>16, SitOK
<1> QED
  BY <1>1, <1>8, <1>9 DEF FinishHandler

LEMMA BuryOK ==
    ASSUME JobsOK, NEW g \in Goroutines, Bury(g)
    PROVE  JobsOK'
<1>1. PICK e, j : e = Entry(g) /\ j = e.job
  OBVIOUS
<1>2. go[g].at = "bury" /\ go[g].at \notin Empty /\ Put(g, Looping)
  BY DEF Bury, At, Empty
<1>3. go[g].entry = {e} /\ e \in Entries /\ HeldOK(go[g], e) /\ Alive(e)
  BY <1>1, <1>2, EntryIs DEF HeldOK
<1>4. UNCHANGED <<now, list, cancelled, enqueued, done, runs, ready, unhandled, faults>>
  BY DEF Bury
<1>5. Plain'
  BY <1>4 DEF JobsOK, Plain
<1>6. CASE cancelled
  <2>1. dead' = dead /\ cancelled'
    BY <1>6 DEF Bury
  <2>2. Quiet
    BY <1>4, <1>5, <2>1 DEF JobsOK, Quiet, Plain
  <2> QED
    BY <1>2, <1>4, <2>1, <2>2, LoopingOK, LeaveSeat, LetGoOK
<1>7. CASE ~cancelled
  <2>1. dead' = dead \cup {e}
    BY <1>1, <1>7 DEF Bury
  <2>2. Others(j) /\ Ended(j)'
    BY <1>1, <1>4, <1>5, <2>1 DEF JobsOK, Others, Plain, Ended
  <2>3. Buried'
    BY <1>2, <1>3, <1>4, <2>1 DEF JobsOK, Buried, HeldOK, Alive, Ended
  <2> QED
    BY <1>1, <1>2, <1>4, <2>2, <2>3, LoopingOK, SitOK
<1> QED
  BY <1>6, <1>7

LEMMA JobsStep == JobsOK /\ [Next]_vars => JobsOK'
BY EnqueueOK, PopOK, PutBackOK, StartHandlerOK, FinishHandlerOK, RetryOK, BuryOK, LeaveOK,
   FaultOK, IdleOK DEF Next, Loop

LEMMA JobsInvariant == Spec => []JobsOK
BY JobsInit, JobsStep, PTL DEF Spec
-----------------------------------------------------------------------------
LEMMA FlagsOK == Spec => [](cancelled \in BOOLEAN /\ early \in BOOLEAN)
<1>1. Init => cancelled \in BOOLEAN /\ early \in BOOLEAN
  BY DEF Init
<1>2. cancelled \in BOOLEAN /\ early \in BOOLEAN /\ [Next]_vars
          => (cancelled \in BOOLEAN /\ early \in BOOLEAN)'
  BY Zenon DEF Next, Loop, Enqueue, Pop, PutBack, StartHandler, FinishHandler, Retry, Bury, Leave,
               FailPush, Crash, Stop, Tick, vars
<1> QED
  BY <1>1, <1>2, PTL DEF Spec

LEMMA JobsTyped ==
    ASSUME JobsOK, cancelled \in BOOLEAN /\ early \in BOOLEAN
    PROVE  TypeOK
<1>1. ASSUME NEW g \in Goroutines
      PROVE  /\ go[g].at \in {"loop", "popped", "run", "retry", "bury", "gone"}
             /\ go[g].from \in QueueNames
             /\ IF go[g].at \in {"loop", "gone"} THEN go[g].entry = {}
                ELSE \E e \in Entries : go[g].entry = {e}
  BY DEF JobsOK, Seated, SeatOK, Seats, Empty
<1> QED
  BY <1>1 DEF JobsOK, Plain, Lined, Lists, Buried, TypeOK

\* What waits, place by place.
LEMMA WaitsIs == \A j : Waits(j) <=> \E x : InList(list, x) /\ x.job = j
BY DEF Waits, InList

LEMMA JobsInOnePlace == ASSUME JobsOK PROVE OnePlace
<1>1. /\ \A g, h \in Goroutines : \A e \in go[g].entry, f \in go[h].entry :
             e.job = f.job => g = h
      /\ \A g \in Goroutines : \A e \in go[g].entry : ~Waits(e.job)
  BY WaitsIs DEF JobsOK, Seated, Apart
<1>2. \A j \in enqueued : Waits(j) \/ InHand(j) \/ Ended(j) \/ cancelled \/ faults > 0
  BY WaitsIs DEF JobsOK, Covered, Placed
<1>3. Distinct(list)
  BY DEF JobsOK, Lined
<1> QED
  BY <1>1, <1>2, <1>3 DEF JobsOK, Buried, Plain, OnePlace, Distinct

LEMMA JobsCounted == ASSUME JobsOK PROVE AttemptsCount
<1>1. ASSUME NEW g \in Goroutines, NEW e \in go[g].entry
      PROVE  Alive(e) /\ (e.tries = MaxTries <=> At(g, "bury"))
  BY DEF JobsOK, Seated, SeatOK, HeldOK, At
<1>2. \A x : InList(list, x) => Alive(x) /\ x.tries < MaxTries
  BY DEF JobsOK, Lined, Waiting
<1>3. \A q \in QueueNames : \A i \in 1..Len(list[q]) :
          Alive(list[q][i]) /\ list[q][i].tries < MaxTries
  BY <1>2 DEF InList
<1> QED
  BY <1>1, <1>3 DEF JobsOK, Buried, AttemptsCount

\* A job is in one place at most, lost only in a fault or after a Stop, and
\* buried only when its attempts are used up, whatever goroutines compete.
THEOREM JobInvariant == Spec => []JobInv
<1>1. JobsOK /\ cancelled \in BOOLEAN /\ early \in BOOLEAN => JobInv
  BY JobsTyped, JobsInOnePlace, JobsCounted DEF JobInv
<1> QED
  BY JobsInvariant, FlagsOK, <1>1, PTL

\* No handler is run before its time, or within the backoff of its last run.
THEOREM NeverEarlyHolds == Spec => []NeverEarly
<1>1. Init => NeverEarly
  BY DEF Init, NeverEarly
<1>2. JobsOK /\ NeverEarly /\ [Next]_vars => NeverEarly'
  <2> SUFFICES ASSUME JobsOK, ~early, [Next]_vars PROVE ~early'
    BY DEF NeverEarly
  <2>1. ASSUME NEW g \in Goroutines, StartHandler(g) PROVE ~early'
    <3>1. PICK e : e = Entry(g)
      OBVIOUS
    <3>2. e \in Entries /\ HeldOK(go[g], e) /\ go[g].at = "popped"
      BY <2>1, <3>1, EntryIs DEF StartHandler, At, Empty
    <3>3. ready[e.job] <= e.due /\ ~(now < e.due)
      BY <2>1, <3>1, <3>2 DEF StartHandler, NotDue, HeldOK
    <3>4. now \in Int /\ e.due \in Int /\ ready[e.job] \in Int
      BY <3>2, EntryFields DEF JobsOK, Plain
    <3>5. ~(now < ready[e.job])
      BY <3>3, <3>4
    <3> QED
      BY <2>1, <3>1, <3>5 DEF StartHandler
  <2>2. CASE UNCHANGED early
    BY <2>2
  <2> QED
    BY <2>1, <2>2 DEF Next, Loop, Enqueue, Pop, PutBack, FinishHandler, Retry, Bury, Leave,
                      FailPush, Crash, Stop, Tick, vars
<1> QED
  BY JobsInvariant, <1>1, <1>2, PTL DEF Spec
=============================================================================
