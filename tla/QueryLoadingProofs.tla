------------------------- MODULE QueryLoadingProofs -------------------------
(***************************************************************************)
(* What QueryLoading keeps for any queries, parts of the page, updates and *)
(* slots.                                                                  *)
(***************************************************************************)
EXTENDS QueryLoading, FiniteSetTheorems, SequenceTheorems, TLAPS

Job == [query : Query, at : {"queued", "asked", "answered", "done"},
        reply : {"none", "rows", "changed", "failed"},
        promise : {"pending", "resolved", "rejected"}]

Using(js) == {j \in DOMAIN js : js[j].at \in {"asked", "answered"}}
Queued(js) == {j \in DOMAIN js : js[j].at = "queued"}

\* The loads js, of which busy hold a slot, and line waits for one.
Line(js, line, busy) ==
    /\ js \in Seq(Job) /\ line \in SUBSET Queued(js)
    /\ busy \in Nat /\ busy <= MaxActive /\ busy = Cardinality(Using(js))

\* The load of a query is one of it that is still open, in a page that loads on demand.
Open(js, jb, rs, m) ==
    \A q \in Query : jb[q] # 0 =>
        /\ jb[q] \in DOMAIN js /\ js[jb[q]].query = q /\ js[jb[q]].promise = "pending"
        /\ js[jb[q]].at # "done" /\ rs[q] = None /\ m = "deferred"

\* A promise that is pending is waited for, and one that was kept has brought rows.
Kept(js, jb, rs) ==
    \A j \in DOMAIN js :
        /\ js[j].promise = "pending" => jb[js[j].query] = j
        /\ js[j].promise = "resolved" => rs[js[j].query] # None

\* Of the loads of a query all but one were given up.
OneEach(js) ==
    \A i, j \in DOMAIN js :
        /\ js[i].query = js[j].query
        /\ js[i].promise # "rejected" /\ js[j].promise # "rejected"
        => i = j

Sound(js, jb, rs, m) == Open(js, jb, rs, m) /\ Kept(js, jb, rs) /\ OneEach(js)

\* Whoever updates waits for every query that is not there.
Asked(js, rs, stage, w) ==
    \A u \in Updater : stage[u] = "waiting" =>
        \A q \in Query : rs[q] # None \/ \E j \in w[u] : js[j].query = q

Sorts ==
    /\ server \in [revision : [Query -> Nat], moved : BOOLEAN]
    /\ mode \in {"loading", "full", "deferred", "eager", "failed", "closed"}
    /\ rows \in [Query -> Nat \cup {None}] /\ job \in [Query -> Nat]
    /\ at \in [Caller -> {"idle", "waiting", "ready", "failed", "answered", "done"}]
    /\ awaits \in [Caller -> SUBSET DOMAIN jobs]
    /\ edits \in [Updater -> [Query -> Nat \cup {None}]]

Eager == mode = "eager" => \A q \in Query : rows[q] # None

Inv ==
    /\ Sorts /\ Line(jobs, queue, active)
    /\ Sound(jobs, job, rows, mode)
    /\ Eager /\ Asked(jobs, rows, at, awaits)

-----------------------------------------------------------------------------
(* Lines and numbers.                                                      *)

\* Only so many have less than n before them.
LEMMA FewAreForemost ==
    ASSUME NEW line \in SUBSET Nat, IsFiniteSet(line), NEW n \in Nat
    PROVE  /\ Foremost(line, n) \subseteq line /\ IsFiniteSet(Foremost(line, n))
           /\ Cardinality(Foremost(line, n)) \in 0..n
<1> DEFINE Before(j) == {i \in line : i < j}
           F == Foremost(line, n)
           f == [j \in F |-> Cardinality(Before(j))]
<1>1. F \subseteq line /\ \A j \in F : Cardinality(Before(j)) < n
    BY DEF Foremost
<1>2. IsFiniteSet(F)
    BY <1>1, FS_Subset
<1>3. \A j \in line : IsFiniteSet(Before(j)) /\ Cardinality(Before(j)) \in Nat
    BY FS_Subset, FS_CardinalityType
<1>4. f \in [F -> 0..(n - 1)]
    <2>1. ASSUME NEW j \in F PROVE Cardinality(Before(j)) \in 0..(n - 1)
        <3>1. j \in line /\ Cardinality(Before(j)) < n /\ Cardinality(Before(j)) \in Nat
            BY <1>1, <1>3
        <3> HIDE DEF Before
        <3> QED
            BY <3>1
    <2> HIDE DEF Before
    <2> QED
        BY <2>1
<1>5. ASSUME NEW i \in F, NEW j \in F, i < j
      PROVE  Cardinality(Before(i)) < Cardinality(Before(j))
    <2>1. i \in line /\ j \in line /\ i \in Nat /\ j \in Nat
        BY <1>1
    <2>2. i \in Before(j) /\ i \notin Before(i)
        BY <2>1, <1>5
    <2>3. Before(i) \in SUBSET Before(j)
        <3>1. ASSUME NEW k \in line, k < i PROVE k < j
            <4>1. k \in Nat
                OBVIOUS
            <4> QED
                BY <4>1, <2>1, <3>1, <1>5
        <3> QED
            BY <3>1
    <2>4. Cardinality(Before(i)) <= Cardinality(Before(j))
          /\ (Cardinality(Before(i)) = Cardinality(Before(j)) => Before(i) = Before(j))
        BY <2>1, <2>3, <1>3, FS_Subset
    <2> QED
        BY <2>1, <2>2, <2>4, <1>3
<1>6. f \in Injection(F, 0..(n - 1))
    <2>1. ASSUME NEW i \in F, NEW j \in F, f[i] = f[j] PROVE i = j
        <3>1. i \in Nat /\ j \in Nat /\ f[i] = Cardinality(Before(i)) /\ f[j] = Cardinality(Before(j))
            BY <1>1
        <3>2. Cardinality(Before(i)) \in Nat /\ Cardinality(Before(j)) \in Nat
            BY <1>1, <1>3
        <3> QED
            BY <2>1, <3>1, <3>2, <1>5
    <2> QED
        BY <2>1, <1>4 DEF Injection, IsInjective
<1>7. IsFiniteSet(0..(n - 1)) /\ Cardinality(0..(n - 1)) = n
    BY FS_Interval
<1>8. Cardinality(F) <= n
    BY <1>6, <1>7, FS_Injection
<1> QED
    BY <1>1, <1>2, <1>8, FS_CardinalityType

Rank(new, q) == Cardinality({p \in new : Place(p) <= Place(q)})

LEMMA Places ==
    /\ IsFiniteSet(Query)
    /\ \A q \in Query : Place(q) \in Nat /\ Order[Place(q)] = q
<1>1. Len(Order) \in Nat /\ DOMAIN Order = 1..Len(Order)
    BY LoadingAssumption, LenProperties
<1>2. \A q \in Query : Place(q) \in DOMAIN Order /\ Order[Place(q)] = q
    BY DEF Place, Query
<1>3. IsFiniteSet(DOMAIN Order)
    BY <1>1, FS_Interval
<1>4. IsFiniteSet(Query)
    <2> DEFINE f == [i \in DOMAIN Order |-> Order[i]]
    <2>1. f \in Surjection(DOMAIN Order, Query)
        BY DEF Surjection, Query
    <2> QED
        BY <2>1, <1>3, FS_Surjection
<1> QED
    BY <1>1, <1>2, <1>4

\* The ranks of a set of queries count it.
LEMMA Ranks ==
    ASSUME NEW new \in SUBSET Query
    PROVE  /\ IsFiniteSet(new) /\ Cardinality(new) \in Nat
           /\ \A q \in new : Rank(new, q) \in 1..Cardinality(new)
           /\ \A p, q \in new : Rank(new, p) = Rank(new, q) => p = q
           /\ \A k \in 1..Cardinality(new) : \E q \in new : Rank(new, q) = k
<1> DEFINE UpTo(q) == {p \in new : Place(p) <= Place(q)}
           N == Cardinality(new)
           f == [q \in new |-> Cardinality(UpTo(q))]
<1>1. IsFiniteSet(new) /\ N \in Nat
    BY Places, FS_Subset, FS_CardinalityType
<1>2. \A q \in new : /\ IsFiniteSet(UpTo(q)) /\ Cardinality(UpTo(q)) \in Nat
                     /\ Cardinality(UpTo(q)) <= N
    BY <1>1, FS_Subset, FS_CardinalityType
<1>3. \A q \in new : Cardinality(UpTo(q)) # 0
    BY <1>2, FS_EmptySet, Places
<1>4. ASSUME NEW p \in new, NEW q \in new, Place(p) < Place(q)
      PROVE  Cardinality(UpTo(p)) < Cardinality(UpTo(q))
    <2>1. p \in Query /\ q \in Query /\ Place(p) \in Nat /\ Place(q) \in Nat
        BY Places
    <2>2. UpTo(p) \in SUBSET UpTo(q) /\ q \in UpTo(q) /\ q \notin UpTo(p)
        BY <2>1, <1>4, Places
    <2>3. Cardinality(UpTo(p)) <= Cardinality(UpTo(q))
          /\ (Cardinality(UpTo(q)) = Cardinality(UpTo(p)) => UpTo(q) = UpTo(p))
        BY <2>2, <1>2, FS_Subset
    <2> QED
        BY <2>2, <2>3, <1>2
<1>5. ASSUME NEW p \in new, NEW q \in new, Cardinality(UpTo(p)) = Cardinality(UpTo(q))
      PROVE  p = q
    <2>1. Place(p) \in Nat /\ Place(q) \in Nat /\ Order[Place(p)] = p /\ Order[Place(q)] = q
        BY Places
    <2>2. ~(Place(p) < Place(q)) /\ ~(Place(q) < Place(p))
        BY <1>2, <1>4, <1>5
    <2> QED
        BY <2>1, <2>2
<1>6. f \in Injection(new, 1..N)
    <2>1. f \in [new -> 1..N]
        BY <1>1, <1>2, <1>3
    <2> QED
        BY <2>1, <1>5 DEF Injection, IsInjective
<1>7. IsFiniteSet(1..N) /\ Cardinality(1..N) = N
    BY <1>1, FS_Interval
<1>8. f \in Surjection(new, 1..N)
    BY <1>6, <1>7, FS_Injection
<1>9. \A q \in new : Rank(new, q) = Cardinality(UpTo(q))
    BY DEF Rank
<1> HIDE DEF UpTo, N
<1>10. \A q \in new : Rank(new, q) \in 1..N
    BY <1>1, <1>2, <1>3, <1>9
<1>11. \A k \in 1..N : \E q \in new : Rank(new, q) = k
    BY <1>8, <1>9 DEF Surjection
<1>12. \A p, q \in new : Rank(new, p) = Rank(new, q) => p = q
    BY <1>5, <1>9
<1> USE DEF N
<1> QED
    BY <1>1, <1>10, <1>11, <1>12

-----------------------------------------------------------------------------
(* Draining the line.                                                      *)

\* The same loads, some of which hold a slot that did not.
Same(js, ks) ==
    /\ DOMAIN ks = DOMAIN js
    /\ \A j \in DOMAIN js : /\ ks[j].query = js[j].query /\ ks[j].promise = js[j].promise
                            /\ ks[j].at = "done" <=> js[j].at = "done"

LEMMA Finite ==
    ASSUME NEW js \in Seq(Job)
    PROVE  /\ DOMAIN js \in SUBSET Nat /\ 0 \notin DOMAIN js /\ IsFiniteSet(DOMAIN js)
           /\ \A S \in SUBSET DOMAIN js : IsFiniteSet(S) /\ Cardinality(S) \in Nat
           /\ \A j \in DOMAIN js : js[j] \in Job
           /\ Len(js) \in Nat /\ DOMAIN js = 1..Len(js)
<1>1. Len(js) \in Nat /\ DOMAIN js = 1..Len(js) /\ \A j \in DOMAIN js : js[j] \in Job
    BY LenProperties
<1>2. IsFiniteSet(DOMAIN js)
    BY <1>1, FS_Interval
<1>3. \A S \in SUBSET DOMAIN js : IsFiniteSet(S) /\ Cardinality(S) \in Nat
    BY <1>2, FS_Subset, FS_CardinalityType
<1>4. DOMAIN js \in SUBSET Nat /\ 0 \notin DOMAIN js
    BY <1>1
<1> QED
    BY <1>1, <1>2, <1>3, <1>4

LEMMA Drained ==
    ASSUME NEW js, NEW line, NEW busy, Line(js, line, busy), Drain(js, line, busy)
    PROVE  Line(jobs', queue', active') /\ Same(js, jobs')
<1> DEFINE live == {j \in line : job'[js[j].query] = j}
           starts == IF mode' = "closed" THEN {} ELSE Foremost(live, Slots(busy))
<1>1. /\ js \in Seq(Job) /\ line \in SUBSET Queued(js) /\ busy \in Nat /\ busy <= MaxActive
      /\ busy = Cardinality(Using(js))
    BY DEF Line
<1>2. /\ jobs' = [j \in DOMAIN js |-> IF j \in starts THEN [js[j] EXCEPT !.at = "asked"] ELSE js[j]]
      /\ queue' = live \ starts
      /\ active' = busy + Cardinality(starts)
    BY DEF Drain
<1>3. Slots(busy) \in Nat /\ busy + Slots(busy) = MaxActive /\ MaxActive \in Nat
    BY <1>1, LoadingAssumption DEF Slots
<1>4. live \in SUBSET line /\ live \in SUBSET DOMAIN js /\ live \in SUBSET Nat /\ IsFiniteSet(live)
    BY <1>1, Finite DEF Queued
<1>5. starts \in SUBSET live /\ IsFiniteSet(starts) /\ Cardinality(starts) \in 0..Slots(busy)
    <2>1. CASE mode' = "closed"
        BY <2>1, <1>3, FS_EmptySet
    <2>2. CASE mode' # "closed"
        <3> HIDE DEF live
        <3> QED
            BY <2>2, <1>3, <1>4, FewAreForemost
    <2> QED
        BY <2>1, <2>2
<1> HIDE DEF live, starts
<1>6. starts \in SUBSET Queued(js) /\ starts \in SUBSET DOMAIN js
    BY <1>1, <1>4, <1>5 DEF Queued
<1>7. DOMAIN jobs' = DOMAIN js
      /\ \A j \in DOMAIN js : jobs'[j] = IF j \in starts THEN [js[j] EXCEPT !.at = "asked"] ELSE js[j]
    BY <1>2
<1>8. \A j \in DOMAIN js :
          /\ jobs'[j] \in Job /\ jobs'[j].query = js[j].query
          /\ jobs'[j].promise = js[j].promise
          /\ jobs'[j].at = IF j \in starts THEN "asked" ELSE js[j].at
    <2>1. ASSUME NEW k \in Job
          PROVE  LET e == [k EXCEPT !.at = "asked"]
                 IN  e \in Job /\ e.query = k.query /\ e.promise = k.promise /\ e.at = "asked"
        BY DEF Job
    <2>2. \A j \in DOMAIN js : js[j] \in Job
        BY <1>1, Finite
    <2> HIDE DEF Job
    <2> QED
        BY <2>1, <2>2, <1>7
<1>9. jobs' \in Seq(Job)
    BY <1>1, <1>7, <1>8, <1>2, Finite, SeqDef
<1>10. Same(js, jobs')
    BY <1>6, <1>7, <1>8 DEF Same, Queued
<1>11. queue' \in SUBSET Queued(jobs')
    BY <1>1, <1>2, <1>4, <1>7, <1>8 DEF Queued
<1>12. Using(jobs') = Using(js) \cup starts /\ Using(js) \cap starts = {}
    BY <1>6, <1>7, <1>8 DEF Using, Queued
<1>13. Cardinality(Using(jobs')) = busy + Cardinality(starts)
    <2>1. IsFiniteSet(Using(js)) /\ Cardinality({}) = 0
        BY <1>1, Finite, FS_EmptySet DEF Using
    <2>2. Cardinality(Using(js) \cup starts)
              = Cardinality(Using(js)) + Cardinality(starts) - Cardinality(Using(js) \cap starts)
        BY <2>1, <1>5, FS_Union
    <2>3. Cardinality(Using(js) \cup starts) = busy + Cardinality(starts) - 0
        BY <2>1, <2>2, <1>1, <1>12
    <2>4. Cardinality(starts) \in Nat
        BY <1>3, <1>5
    <2> QED
        BY <2>3, <2>4, <1>1, <1>12
<1>14. active' \in Nat /\ active' <= MaxActive
    BY <1>1, <1>2, <1>3, <1>5
<1> QED
    BY <1>2, <1>9, <1>10, <1>11, <1>13, <1>14 DEF Line

LEMMA Transferred ==
    ASSUME NEW js, NEW ks, NEW jb, NEW rs, NEW m, Same(js, ks), Sound(js, jb, rs, m)
    PROVE  Sound(ks, jb, rs, m)
<1>1. Open(ks, jb, rs, m)
    BY DEF Open, Same, Sound
<1>2. Kept(ks, jb, rs)
    BY DEF Kept, Same, Sound
<1>3. OneEach(ks)
    BY DEF OneEach, Same, Sound
<1> QED
    BY <1>1, <1>2, <1>3 DEF Sound

\* The loads that are added are those of the queries they were added for.
LEMMA Added ==
    ASSUME jobs \in Seq(Job), NEW new \in SUBSET Query
    PROVE  /\ WithLoads(new) \in Seq(Job)
           /\ DOMAIN jobs \subseteq DOMAIN WithLoads(new)
           /\ \A j \in DOMAIN jobs : WithLoads(new)[j] = jobs[j]
           /\ \A q \in new : Number(new, q) \in DOMAIN WithLoads(new) \ DOMAIN jobs
           /\ \A j \in DOMAIN WithLoads(new) \ DOMAIN jobs :
                  \E q \in new : Number(new, q) = j /\ WithLoads(new)[j] = NewJob(q)
           /\ \A q \in new : WithLoads(new)[Number(new, q)] = NewJob(q)
<1> DEFINE N == Cardinality(new)
           L == Len(jobs)
           next == WithLoads(new)
<1>1. L \in Nat /\ DOMAIN jobs = 1..L /\ \A j \in DOMAIN jobs : jobs[j] \in Job
    BY Finite
<1>2. /\ N \in Nat /\ \A q \in new : Rank(new, q) \in 1..N
      /\ \A p, q \in new : Rank(new, p) = Rank(new, q) => p = q
      /\ \A k \in 1..N : \E q \in new : Rank(new, q) = k
    BY Ranks
<1>3. \A q \in new : Number(new, q) = L + Rank(new, q)
    BY DEF Number, Rank
<1>4. next = [j \in 1..(L + N) |-> IF j \in DOMAIN jobs THEN jobs[j]
                                  ELSE NewJob(CHOOSE q \in new : Number(new, q) = j)]
    BY DEF WithLoads
<1> HIDE DEF N, L, next
<1>5. \A q \in new : Number(new, q) \in (1..(L + N)) \ (1..L)
    <2>1. ASSUME NEW q \in new PROVE Number(new, q) \in (1..(L + N)) \ (1..L)
        <3>1. Number(new, q) = L + Rank(new, q) /\ Rank(new, q) \in 1..N
            BY <1>2, <1>3
        <3> QED
            BY <3>1, <1>1, <1>2
    <2> QED
        BY <2>1
<1>6. ASSUME NEW p \in new, NEW q \in new, Number(new, p) = Number(new, q) PROVE p = q
    <2>1. /\ Rank(new, p) \in 1..N /\ Rank(new, q) \in 1..N
          /\ L + Rank(new, p) = L + Rank(new, q)
        BY <1>2, <1>3, <1>6
    <2>2. Rank(new, p) = Rank(new, q)
        BY <2>1, <1>1, <1>2
    <2> QED
        BY <2>2, <1>2
<1>7. ASSUME NEW j \in (1..(L + N)) \ (1..L) PROVE \E q \in new : Number(new, q) = j
    <2>1. j - L \in 1..N
        BY <1>1, <1>2
    <2>2. PICK q \in new : Rank(new, q) = j - L
        BY <2>1, <1>2
    <2>3. Number(new, q) = j
        BY <2>2, <1>1, <1>2, <1>3
    <2> QED
        BY <2>3
<1>8. \A q \in new : next[Number(new, q)] = NewJob(q)
    <2>1. ASSUME NEW q \in new PROVE next[Number(new, q)] = NewJob(q)
        <3>1. (CHOOSE p \in new : Number(new, p) = Number(new, q)) = q
            BY <1>6
        <3> QED
            BY <3>1, <1>1, <1>4, <1>5
    <2> QED
        BY <2>1
<1>9. DOMAIN next = 1..(L + N) /\ DOMAIN jobs \subseteq DOMAIN next
      /\ \A j \in DOMAIN jobs : next[j] = jobs[j]
    BY <1>1, <1>2, <1>4
<1>10. \A j \in DOMAIN next \ DOMAIN jobs :
          \E q \in new : Number(new, q) = j /\ next[j] = NewJob(q)
    BY <1>1, <1>7, <1>8, <1>9
<1>11. \A q \in new : NewJob(q) \in Job
    BY DEF NewJob, Job
<1>12. next \in Seq(Job)
    <2>1. \A j \in DOMAIN next : next[j] \in Job
        BY <1>1, <1>9, <1>10, <1>11
    <2>2. L + N \in Nat /\ next \in [1..(L + N) -> Job]
        BY <2>1, <1>1, <1>2, <1>4, <1>9
    <2> QED
        BY <2>2, SeqDef
<1> USE DEF next
<1> QED
    BY <1>1, <1>5, <1>8, <1>9, <1>10, <1>12

-----------------------------------------------------------------------------
(* The steps.                                                              *)

LEMMA Begun == Init => Inv
<1> SUFFICES ASSUME Init PROVE Inv
    OBVIOUS
<1>1. jobs \in Seq(Job) /\ DOMAIN jobs = {}
    BY EmptySeq, LenProperties DEF Init
<1>2. Using(jobs) = {} /\ Cardinality({}) = 0
    BY <1>1, FS_EmptySet DEF Using
<1>3. Line(jobs, queue, active)
    <2>1. queue = {} /\ active = 0 /\ MaxActive \in Nat /\ 0 <= MaxActive
        BY LoadingAssumption DEF Init
    <2> QED
        BY <2>1, <1>1, <1>2 DEF Line
<1>4. Sorts
    BY DEF Init, Sorts, Caller, Seed
<1>5. Sound(jobs, job, rows, mode)
    BY <1>1 DEF Init, Sound, Open, Kept, OneEach
<1>6. Asked(jobs, rows, at, awaits)
    BY DEF Init, Asked, Caller
<1> QED
    BY <1>3, <1>4, <1>5, <1>6 DEF Inv, Eager, Init

\* Nothing but the worker and the mode of a page that is not loaded.
LEMMA Elsewhere ==
    ASSUME Inv, UNCHANGED <<store, callers>>, Sorts',
           mode' = mode \/ (mode' # "eager" /\ mode # "deferred")
    PROVE  Inv'
<1>1. UNCHANGED <<rows, job, jobs, queue, active, at, awaits>>
    BY DEF store, callers
<1>2. Line(jobs, queue, active)'
    BY <1>1 DEF Inv, Line, Using, Queued
<1>3. Sound(jobs, job, rows, mode)'
    BY <1>1 DEF Inv, Sound, Open, Kept, OneEach
<1>4. Eager' /\ Asked(jobs, rows, at, awaits)'
    BY <1>1 DEF Inv, Eager, Asked
<1> QED
    BY <1>2, <1>3, <1>4 DEF Inv

\* Nothing but the worker and what the callers do.
LEMMA Called ==
    ASSUME Inv, UNCHANGED <<mode, store>>, Sorts', Asked(jobs, rows, at', awaits')
    PROVE  Inv'
<1>1. UNCHANGED <<rows, job, jobs, queue, active>>
    BY DEF store
<1>2. Line(jobs, queue, active)'
    BY <1>1 DEF Inv, Line, Using, Queued
<1>3. Sound(jobs, job, rows, mode)'
    BY <1>1 DEF Inv, Sound, Open, Kept, OneEach
<1>4. Eager' /\ Asked(jobs, rows, at, awaits)'
    BY <1>1 DEF Inv, Eager, Asked
<1> QED
    BY <1>2, <1>3, <1>4 DEF Inv

LEMMA BumpTyped ==
    ASSUME Sorts, NEW Q
    PROVE  Bumped(Q) \in [revision : [Query -> Nat], moved : BOOLEAN]
BY DEF Sorts, Bumped

LEMMA HostSteps ==
    ASSUME Inv,
           \/ \E q \in Query : OtherEdits(q)
           \/ Redeploy \/ AskHead \/ NoHead \/ BootstrapFails
    PROVE  Inv'
<1>1. Sorts
    BY DEF Inv
<1>2. CASE \E q \in Query : OtherEdits(q)
    <2>1. PICK q \in Query : OtherEdits(q)
        BY <1>2
    <2>2. UNCHANGED <<mode, store, callers>> /\ server' = Bumped({q})
        BY <2>1 DEF OtherEdits
    <2>3. Sorts'
        BY <1>1, <2>2, BumpTyped DEF Sorts, store, callers
    <2> QED
        BY <2>2, <2>3, Elsewhere
<1>3. CASE Redeploy
    <2>1. Sorts' /\ UNCHANGED <<mode, store, callers>>
        BY <1>1, <1>3 DEF Redeploy, Sorts, store, callers
    <2> QED
        BY <2>1, Elsewhere
<1>4. CASE AskHead
    <2>1. Sorts' /\ UNCHANGED <<store, callers>> /\ mode = "loading" /\ mode' # "eager"
        BY <1>1, <1>4 DEF AskHead, Sorts, store, callers
    <2> QED
        BY <2>1, Elsewhere
<1>5. CASE NoHead
    <2>1. Sorts' /\ UNCHANGED <<store, callers>> /\ mode = "loading" /\ mode' # "eager"
        BY <1>1, <1>5 DEF NoHead, Sorts, store, callers
    <2> QED
        BY <2>1, Elsewhere
<1>6. CASE BootstrapFails
    <2>1. Sorts' /\ UNCHANGED <<store, callers>> /\ mode # "deferred" /\ mode' # "eager"
        BY <1>1, <1>6 DEF BootstrapFails, Fault, Sorts, store, callers
    <2> QED
        BY <2>1, Elsewhere
<1> QED
    BY <1>2, <1>3, <1>4, <1>5, <1>6

LEMMA SnapshotStep ==
    ASSUME Inv, AskSnapshot
    PROVE  Inv'
<1>1. /\ mode = "full" /\ mode' = "eager" /\ rows' = server.revision
      /\ UNCHANGED <<server, job, jobs, queue, active, at, awaits, edits>>
    BY DEF AskSnapshot, callers
<1>2. \A q \in Query : rows'[q] \in Nat /\ rows'[q] # None
    BY <1>1, LoadingAssumption DEF Inv, Sorts
<1>3. Sorts'
    BY <1>1 DEF Inv, Sorts
<1>4. Line(jobs, queue, active)'
    BY <1>1 DEF Inv, Line, Using, Queued
<1>5. \A j \in DOMAIN jobs : jobs[j].query \in Query
    BY Finite DEF Inv, Line, Job
<1>6. Sound(jobs, job, rows, mode)'
    BY <1>1, <1>2, <1>5 DEF Inv, Sound, Open, Kept, OneEach
<1>7. Eager' /\ Asked(jobs, rows, at, awaits)'
    BY <1>2 DEF Eager, Asked
<1> QED
    BY <1>3, <1>4, <1>6, <1>7 DEF Inv

LEMMA ReplySteps ==
    ASSUME Inv, NEW j \in DOMAIN jobs, Reply(j) \/ ReplyFails(j)
    PROVE  Inv'
<1>1. /\ UNCHANGED <<server, mode, rows, job, queue, active, at, awaits, edits>>
      /\ jobs[j].at = "asked"
      /\ \E reply \in {"rows", "changed", "failed"} :
            jobs' = [jobs EXCEPT ![j].at = "answered", ![j].reply = reply]
    BY DEF Reply, ReplyFails, callers
<1>2. Line(jobs, queue, active) /\ jobs \in Seq(Job) /\ jobs[j] \in Job
    BY Finite DEF Inv, Line
<1>3. PICK reply \in {"rows", "changed", "failed"} :
            jobs' = [jobs EXCEPT ![j] = [jobs[j] EXCEPT !.at = "answered", !.reply = reply]]
    BY <1>1, <1>2 DEF Job
<1>4. PICK k : k = [jobs[j] EXCEPT !.at = "answered", !.reply = reply]
    OBVIOUS
<1>5. k \in Job /\ k.query = jobs[j].query /\ k.promise = jobs[j].promise /\ k.at = "answered"
    BY <1>2, <1>4 DEF Job
<1>6. /\ jobs' \in Seq(Job) /\ DOMAIN jobs' = DOMAIN jobs
      /\ \A i \in DOMAIN jobs : jobs'[i] = IF i = j THEN k ELSE jobs[i]
    BY <1>2, <1>3, <1>4, <1>5, ExceptSeq, LenProperties
<1>7. Same(jobs, jobs') /\ Using(jobs') = Using(jobs) /\ Queued(jobs') = Queued(jobs)
    BY <1>1, <1>5, <1>6 DEF Same, Using, Queued
<1>8. Line(jobs, queue, active)'
    BY <1>1, <1>2, <1>6, <1>7 DEF Line
<1>9. Sound(jobs', job, rows, mode)
    BY <1>7, Transferred DEF Inv
<1>10. Sound(jobs, job, rows, mode)'
    BY <1>1, <1>9
<1>11. Sorts'
    BY <1>1, <1>6 DEF Inv, Sorts
<1>12. Eager' /\ Asked(jobs, rows, at, awaits)'
    BY <1>1, <1>7 DEF Inv, Eager, Asked, Same, Sorts, Caller
<1> QED
    BY <1>8, <1>10, <1>11, <1>12 DEF Inv

\* A step that ends in draining: what is before it in js keeps the invariant.
LEMMA DrainSteps ==
    ASSUME Inv, NEW js, NEW line, NEW busy, Drain(js, line, busy), Line(js, line, busy),
           Sound(js, job', rows', mode'), Asked(js, rows', at', awaits'),
           mode' = mode, mode = "eager" => \A q \in Query : rows[q] # None => rows'[q] # None,
           server' = server, edits' = edits,
           rows' \in [Query -> Nat \cup {None}], job' \in [Query -> Nat],
           at' \in [Caller -> {"idle", "waiting", "ready", "failed", "answered", "done"}],
           awaits' \in [Caller -> SUBSET DOMAIN js]
    PROVE  Inv'
<1>1. Line(jobs', queue', active') /\ Same(js, jobs')
    BY Drained
<1>2. Sound(jobs', job', rows', mode')
    BY <1>1, Transferred
<1>3. Sorts'
    BY <1>1 DEF Inv, Sorts, Same
<1>4. Eager'
    BY DEF Inv, Eager
<1>5. Asked(jobs', rows', at', awaits')
    <2>1. \A u \in Updater : awaits'[u] \subseteq DOMAIN js
        BY DEF Caller
    <2> QED
        BY <2>1, <1>1 DEF Asked, Same
<1> QED
    BY <1>1, <1>2, <1>3, <1>4, <1>5 DEF Inv

\* The load j has ended.
LEMMA Ended ==
    ASSUME Inv, NEW j \in DOMAIN jobs, jobs[j].at = "answered",
           NEW promise \in {"pending", "resolved", "rejected"}
    PROVE  LET js == Settled(j, promise) IN
           /\ Line(js, queue, active - 1) /\ DOMAIN js = DOMAIN jobs
           /\ \A i \in DOMAIN jobs :
                 /\ js[i].query = jobs[i].query
                 /\ js[i].promise = IF i = j THEN promise ELSE jobs[i].promise
                 /\ js[i].at = IF i = j THEN "done" ELSE jobs[i].at
<1> DEFINE js == Settled(j, promise)
<1>1. Line(jobs, queue, active) /\ jobs \in Seq(Job) /\ jobs[j] \in Job
    BY Finite DEF Inv, Line
<1>2. PICK k : k = [jobs[j] EXCEPT !.at = "done", !.reply = "none", !.promise = promise]
    OBVIOUS
<1>3. /\ k \in Job /\ k.query = jobs[j].query /\ k.promise = promise /\ k.at = "done"
    BY <1>1, <1>2 DEF Job
<1>4. js = [jobs EXCEPT ![j] = k]
    BY <1>1, <1>2 DEF Settled, Job
<1>5. /\ js \in Seq(Job) /\ DOMAIN js = DOMAIN jobs
      /\ \A i \in DOMAIN jobs : js[i] = IF i = j THEN k ELSE jobs[i]
    BY <1>1, <1>3, <1>4, ExceptSeq, LenProperties
<1> HIDE DEF js
<1>6. Using(js) = Using(jobs) \ {j} /\ j \in Using(jobs) /\ queue \in SUBSET Queued(js)
    BY <1>1, <1>3, <1>5 DEF Using, Queued, Line
<1>7. IsFiniteSet(Using(jobs)) /\ Using(js) \in SUBSET DOMAIN jobs
    BY <1>1, <1>6, Finite DEF Using
<1>8. Cardinality(Using(js)) = active - 1 /\ Cardinality(Using(js)) \in Nat
    BY <1>1, <1>6, <1>7, Finite, FS_RemoveElement DEF Line
<1>9. Line(js, queue, active - 1)
    BY <1>1, <1>5, <1>6, <1>8, LoadingAssumption DEF Line
<1> USE DEF js
<1> QED
    BY <1>3, <1>5, <1>9
LEMMA RowSteps ==
    ASSUME Inv, NEW j \in DOMAIN jobs, TakeRows(j) \/ TakeError(j)
    PROVE  Inv'
<1>1. jobs \in Seq(Job) /\ j # 0 /\ jobs[j].query \in Query
    BY Finite DEF Inv, Line, Job
<1>2. PICK q \in Query : q = jobs[j].query
    BY <1>1
<1>3. PICK promise \in {"resolved", "rejected"} :
         /\ promise = "resolved" => TakeRows(j)
         /\ promise = "rejected" => TakeError(j)
         /\ Drain(Settled(j, promise), queue, active - 1)
    BY DEF TakeRows, TakeError
<1>4. /\ jobs[j].at = "answered" /\ mode = "deferred" /\ job[q] = j
      /\ job' = [job EXCEPT ![q] = 0]
      /\ rows' = IF promise = "resolved" THEN [rows EXCEPT ![q] = Seed] ELSE rows
      /\ UNCHANGED <<server, mode, at, awaits, edits>>
    BY <1>2, <1>3 DEF TakeRows, TakeError, Current, callers
<1>5. PICK js : js = Settled(j, promise)
    OBVIOUS
<1>6. /\ Line(js, queue, active - 1) /\ DOMAIN js = DOMAIN jobs
      /\ \A i \in DOMAIN jobs :
            /\ js[i].query = jobs[i].query
            /\ js[i].promise = IF i = j THEN promise ELSE jobs[i].promise
            /\ js[i].at = IF i = j THEN "done" ELSE jobs[i].at
    BY <1>4, <1>5, Ended
<1>7. /\ \A i \in DOMAIN jobs : jobs[i].query \in Query
      /\ job \in [Query -> Nat] /\ rows \in [Query -> Nat \cup {None}]
    BY <1>1, Finite DEF Inv, Sorts, Job
<1>8. /\ job' \in [Query -> Nat] /\ rows' \in [Query -> Nat \cup {None}]
      /\ job'[q] = 0 /\ \A p \in Query : p # q => job'[p] = job[p] /\ rows'[p] = rows[p]
      /\ promise = "resolved" => rows'[q] # None
      /\ promise = "rejected" => rows' = rows
      /\ \A p \in Query : rows[p] # None => rows'[p] # None
    BY <1>4, <1>7, LoadingAssumption DEF Seed
<1>9. jobs[j].promise = "pending" /\ jobs[j].query = q
    BY <1>1, <1>2, <1>4 DEF Inv, Sound, Open
<1>10. Open(js, job', rows', mode')
    BY <1>4, <1>6, <1>8, <1>9 DEF Inv, Sound, Open
<1>11. Kept(js, job', rows')
    <2>1. ASSUME NEW i \in DOMAIN js, js[i].promise = "pending" PROVE job'[js[i].query] = i
        <3>1. i # j /\ jobs[i].promise = "pending" /\ js[i].query = jobs[i].query
            BY <1>6, <2>1
        <3>2. job[jobs[i].query] = i
            BY <3>1, <1>6 DEF Inv, Sound, Kept
        <3> QED
            BY <3>1, <3>2, <1>4, <1>6, <1>7, <1>8
    <2>2. ASSUME NEW i \in DOMAIN js, js[i].promise = "resolved" PROVE rows'[js[i].query] # None
        <3>1. CASE i = j
            BY <3>1, <2>2, <1>6, <1>8, <1>9
        <3>2. CASE i # j
            <4>1. jobs[i].promise = "resolved" /\ js[i].query = jobs[i].query /\ jobs[i].query \in Query
                BY <3>2, <2>2, <1>6, <1>7
            <4>2. rows[jobs[i].query] # None
                BY <4>1, <1>6 DEF Inv, Sound, Kept
            <4> QED
                BY <4>1, <4>2, <1>8
        <3> QED
            BY <3>1, <3>2
    <2> QED
        BY <2>1, <2>2 DEF Kept
<1>12. OneEach(js)
    BY <1>6, <1>9 DEF Inv, Sound, OneEach
<1>13. Asked(js, rows', at', awaits')
    <2>1. \A u \in Updater : awaits[u] \subseteq DOMAIN jobs
        BY DEF Inv, Sorts, Caller
    <2> QED
        BY <2>1, <1>4, <1>6, <1>8 DEF Inv, Asked
<1>14. at' \in [Caller -> {"idle", "waiting", "ready", "failed", "answered", "done"}]
       /\ awaits' \in [Caller -> SUBSET DOMAIN js]
    BY <1>4, <1>6 DEF Inv, Sorts
<1>15. Drain(js, queue, active - 1)
    BY <1>3, <1>5
<1> QED
    BY <1>4, <1>6, <1>8, <1>10, <1>11, <1>12, <1>13, <1>14, <1>15, DrainSteps DEF Sound

LEMMA PassStep ==
    ASSUME Inv, NEW j \in DOMAIN jobs, PassOver(j)
    PROVE  Inv'
<1>1. jobs \in Seq(Job) /\ j # 0 /\ jobs[j] \in Job
    BY Finite DEF Inv, Line
<1>2. PICK promise \in {"pending", "resolved", "rejected"} : promise = jobs[j].promise
    BY <1>1 DEF Job
<1>3. /\ jobs[j].at = "answered" /\ ~Current(j)
      /\ UNCHANGED <<server, mode, rows, job, at, awaits, edits>>
      /\ Drain(Settled(j, promise), queue, active - 1)
    BY <1>2 DEF PassOver, callers
<1>4. PICK js : js = Settled(j, promise)
    OBVIOUS
<1>5. /\ Line(js, queue, active - 1) /\ DOMAIN js = DOMAIN jobs
      /\ \A i \in DOMAIN jobs :
            /\ js[i].query = jobs[i].query
            /\ js[i].promise = jobs[i].promise
            /\ js[i].at = IF i = j THEN "done" ELSE jobs[i].at
    BY <1>2, <1>3, <1>4, Ended
<1>6. \A q \in Query : job[q] # 0 => job[q] # j
    BY <1>3 DEF Inv, Sound, Open, Current
<1>7. Open(js, job', rows', mode')
    BY <1>3, <1>5, <1>6 DEF Inv, Sound, Open
<1>8. Kept(js, job', rows') /\ OneEach(js)
    BY <1>3, <1>5 DEF Inv, Sound, Kept, OneEach
<1>9. Asked(js, rows', at', awaits')
    <2>1. \A u \in Updater : awaits[u] \subseteq DOMAIN jobs
        BY DEF Inv, Sorts, Caller
    <2> QED
        BY <2>1, <1>3, <1>5 DEF Inv, Asked
<1>10. /\ rows' \in [Query -> Nat \cup {None}] /\ job' \in [Query -> Nat]
       /\ at' \in [Caller -> {"idle", "waiting", "ready", "failed", "answered", "done"}]
       /\ awaits' \in [Caller -> SUBSET DOMAIN js]
    BY <1>3, <1>5 DEF Inv, Sorts
<1>11. Drain(js, queue, active - 1)
    BY <1>3, <1>4
<1> QED
    BY <1>3, <1>5, <1>7, <1>8, <1>9, <1>10, <1>11, DrainSteps DEF Sound

LEMMA DisposeStep ==
    ASSUME Inv, Dispose
    PROVE  Inv'
<1>1. /\ mode' = "closed" /\ job' = [q \in Query |-> 0] /\ queue' = {}
      /\ jobs' = [j \in DOMAIN jobs |-> IF job[jobs[j].query] = j
                    THEN [jobs[j] EXCEPT !.promise = "rejected"] ELSE jobs[j]]
      /\ UNCHANGED <<server, rows, active, at, awaits, edits>>
    BY DEF Dispose, callers
<1>2. Line(jobs, queue, active) /\ jobs \in Seq(Job) /\ \A j \in DOMAIN jobs : jobs[j] \in Job
    BY Finite DEF Inv, Line
<1>3. ASSUME NEW k \in Job
      PROVE  LET e == [k EXCEPT !.promise = "rejected"]
             IN  e \in Job /\ e.query = k.query /\ e.promise = "rejected" /\ e.at = k.at
    BY DEF Job
<1>4. /\ DOMAIN jobs' = DOMAIN jobs
      /\ \A j \in DOMAIN jobs :
            /\ jobs'[j] \in Job /\ jobs'[j].query = jobs[j].query /\ jobs'[j].at = jobs[j].at
            /\ jobs'[j].promise = IF job[jobs[j].query] = j THEN "rejected" ELSE jobs[j].promise
    BY <1>1, <1>2, <1>3
<1>5. jobs' \in Seq(Job)
    BY <1>1, <1>2, <1>4, Finite, SeqDef
<1>6. Using(jobs') = Using(jobs)
    BY <1>4 DEF Using
<1>7. Line(jobs, queue, active)'
    BY <1>1, <1>2, <1>5, <1>6 DEF Line
<1>8. Open(jobs', job', rows', mode')
    BY <1>1 DEF Open
<1>9. Kept(jobs', job', rows') /\ OneEach(jobs')
    BY <1>1, <1>4 DEF Inv, Sound, Kept, OneEach
<1>10. Sorts'
    BY <1>1, <1>4 DEF Inv, Sorts
<1>11. Asked(jobs', rows', at', awaits')
    <2>1. \A u \in Updater : awaits[u] \subseteq DOMAIN jobs
        BY DEF Inv, Sorts, Caller
    <2> QED
        BY <2>1, <1>1, <1>4 DEF Inv, Asked
<1>12. Eager'
    BY <1>1 DEF Eager
<1> QED
    BY <1>7, <1>8, <1>9, <1>10, <1>11, <1>12 DEF Inv, Sound
LEMMA EnsureStep ==
    ASSUME Inv, NEW c \in Caller, NEW Q \in SUBSET Query, mode = "deferred", Ensure(c, Q),
           c \in Updater => Q = Query
    PROVE  Inv'
<1>1. PICK new \in SUBSET Query : new = {q \in Q : Begins(q)}
    OBVIOUS
<1>2. PICK js : js = WithLoads(new)
    OBVIOUS
<1>3. PICK line : line = queue \cup (DOMAIN js \ DOMAIN jobs)
    OBVIOUS
<1>4. /\ job' = [q \in Query |-> IF q \in new THEN Number(new, q) ELSE job[q]]
      /\ at' = [at EXCEPT ![c] = "waiting"]
      /\ awaits' = [awaits EXCEPT ![c] = {job'[q] : q \in {p \in Q : ~Loaded(p)}}]
      /\ UNCHANGED <<server, mode, rows, edits>>
      /\ Drain(js, line, active)
    BY <1>1, <1>2, <1>3 DEF Ensure
<1>5. Line(jobs, queue, active) /\ jobs \in Seq(Job) /\ 0 \notin DOMAIN jobs
      /\ \A j \in DOMAIN jobs : jobs[j].query \in Query
    BY Finite DEF Inv, Line, Job
<1>6. /\ js \in Seq(Job) /\ DOMAIN jobs \subseteq DOMAIN js
      /\ \A j \in DOMAIN jobs : js[j] = jobs[j]
      /\ \A q \in new : Number(new, q) \in DOMAIN js \ DOMAIN jobs
      /\ \A j \in DOMAIN js \ DOMAIN jobs :
             \E q \in new : Number(new, q) = j /\ js[j] = NewJob(q)
      /\ \A q \in new : js[Number(new, q)] = NewJob(q)
    BY <1>2, <1>5, Added
<1>7. DOMAIN js \in SUBSET Nat /\ 0 \notin DOMAIN js
    BY <1>6, Finite
<1>8. \A q \in new : rows[q] = None /\ job[q] = 0
    BY <1>1 DEF Begins, Loaded
<1>9. \A q \in Query : NewJob(q).query = q /\ NewJob(q).at = "queued" /\ NewJob(q).promise = "pending"
    BY DEF NewJob
<1>10. job' \in [Query -> Nat]
       /\ \A q \in Query : job'[q] = IF q \in new THEN Number(new, q) ELSE job[q]
    BY <1>4, <1>6, <1>7 DEF Inv, Sorts
<1>11. Using(js) = Using(jobs) /\ line \in SUBSET Queued(js)
    BY <1>3, <1>5, <1>6, <1>9 DEF Using, Queued, Line
<1>12. Line(js, line, active)
    BY <1>5, <1>6, <1>11 DEF Line
<1>13. Open(js, job', rows', mode')
    BY <1>4, <1>6, <1>8, <1>9, <1>10 DEF Inv, Sound, Open
<1>14. ASSUME NEW j \in DOMAIN jobs, js[j].promise # "rejected" PROVE js[j].query \notin new
    <2>1. js[j] = jobs[j] /\ j # 0 /\ jobs[j].promise \in {"pending", "resolved"}
        BY <1>5, <1>6, <1>14, Finite DEF Job
    <2>2. job[jobs[j].query] # 0 \/ rows[jobs[j].query] # None
        BY <2>1 DEF Inv, Sound, Kept
    <2> QED
        BY <2>1, <2>2, <1>8
<1>15. Kept(js, job', rows')
    <2>1. ASSUME NEW j \in DOMAIN jobs
          PROVE  /\ js[j].promise = "pending" => job'[js[j].query] = j
                 /\ js[j].promise = "resolved" => rows'[js[j].query] # None
        BY <1>4, <1>5, <1>6, <1>10, <1>14 DEF Inv, Sound, Kept
    <2>2. ASSUME NEW j \in DOMAIN js \ DOMAIN jobs
          PROVE  js[j].promise = "pending" /\ job'[js[j].query] = j
        BY <1>6, <1>9, <1>10
    <2> QED
        BY <2>1, <2>2 DEF Kept
<1>16. OneEach(js)
    <2> SUFFICES ASSUME NEW i \in DOMAIN js, NEW j \in DOMAIN js, js[i].query = js[j].query,
                        js[i].promise # "rejected", js[j].promise # "rejected"
                 PROVE  i = j
        BY DEF OneEach
    <2>1. CASE i \in DOMAIN jobs /\ j \in DOMAIN jobs
        BY <2>1, <1>6 DEF Inv, Sound, OneEach
    <2>2. CASE i \notin DOMAIN jobs /\ j \notin DOMAIN jobs
        BY <2>2, <1>6, <1>9
    <2>3. \A k \in DOMAIN js \ DOMAIN jobs : js[k].query \in new
        BY <1>6, <1>9
    <2> QED
        BY <2>1, <2>2, <2>3, <1>14
<1>17. \A d \in Caller : awaits[d] \subseteq DOMAIN jobs
    BY DEF Inv, Sorts
<1>18. \A q \in Query : rows[q] # None \/ job[q] # 0 \/ q \notin Q \/ q \in new
    BY <1>1 DEF Begins, Loaded
<1>19. \A q \in Q : rows[q] = None => job'[q] \in DOMAIN js /\ js[job'[q]].query = q
    BY <1>6, <1>9, <1>10, <1>18 DEF Inv, Sound, Open
<1>20. /\ awaits' \in [Caller -> SUBSET DOMAIN js]
       /\ \A d \in Caller : d # c => awaits'[d] = awaits[d] /\ at'[d] = at[d]
       /\ \A q \in Q : rows[q] = None => job'[q] \in awaits'[c]
    <2>1. {job'[q] : q \in {p \in Q : ~Loaded(p)}} \in SUBSET DOMAIN js
        BY <1>19 DEF Loaded
    <2> QED
        BY <2>1, <1>4, <1>6, <1>17 DEF Inv, Sorts, Loaded
<1>21. Asked(js, rows', at', awaits')
    <2> SUFFICES ASSUME NEW u \in Updater, at'[u] = "waiting", NEW q \in Query
                 PROVE  rows'[q] # None \/ \E j \in awaits'[u] : js[j].query = q
        BY DEF Asked
    <2>1. u \in Caller
        BY DEF Caller
    <2>2. CASE u = c
        BY <2>2, <1>4, <1>19, <1>20
    <2>3. CASE u # c
        <3>1. at[u] = "waiting" /\ awaits'[u] = awaits[u] /\ awaits[u] \subseteq DOMAIN jobs
            BY <2>1, <2>3, <1>17, <1>20
        <3>2. rows[q] # None \/ \E j \in awaits[u] : jobs[j].query = q
            BY <3>1 DEF Inv, Asked
        <3> QED
            BY <3>1, <3>2, <1>4, <1>6
    <2> QED
        BY <2>2, <2>3
<1>22. /\ at' \in [Caller -> {"idle", "waiting", "ready", "failed", "answered", "done"}]
       /\ rows' \in [Query -> Nat \cup {None}]
    BY <1>4 DEF Inv, Sorts
<1> QED
    BY <1>4, <1>10, <1>12, <1>13, <1>15, <1>16, <1>20, <1>21, <1>22, DrainSteps DEF Sound

LEMMA ApplyStep ==
    ASSUME Inv, NEW u \in Updater, Apply(u)
    PROVE  Inv'
<1>1. PICK R \in SUBSET Query : R = {q \in Query : edits[u][q] # None}
    OBVIOUS
<1>2. /\ Line(jobs, queue, active) /\ jobs \in Seq(Job)
      /\ \A j \in DOMAIN jobs : jobs[j] \in Job /\ jobs[j].query \in Query
    BY Finite DEF Inv, Line, Job
<1>3. PICK js : js = [j \in DOMAIN jobs |->
                  IF edits[u][jobs[j].query] # None /\ job[jobs[j].query] = j
                  THEN [jobs[j] EXCEPT !.promise = "resolved"] ELSE jobs[j]]
    OBVIOUS
<1>4. /\ rows' = [q \in Query |-> IF edits[u][q] # None THEN edits[u][q] ELSE rows[q]]
      /\ job' = [q \in Query |-> IF edits[u][q] # None THEN 0 ELSE job[q]]
      /\ at' = [at EXCEPT ![u] = "done"]
      /\ UNCHANGED <<server, mode, awaits, edits>>
      /\ Drain(js, queue, active)
    BY <1>3 DEF Apply
<1>5. ASSUME NEW k \in Job
      PROVE  LET e == [k EXCEPT !.promise = "resolved"]
             IN  e \in Job /\ e.query = k.query /\ e.promise = "resolved" /\ e.at = k.at
    BY DEF Job
<1>6. /\ DOMAIN js = DOMAIN jobs
      /\ \A j \in DOMAIN jobs :
            /\ js[j] \in Job /\ js[j].query = jobs[j].query /\ js[j].at = jobs[j].at
            /\ js[j].promise = IF jobs[j].query \in R /\ job[jobs[j].query] = j
                               THEN "resolved" ELSE jobs[j].promise
    BY <1>1, <1>2, <1>3, <1>5
<1>7. js \in Seq(Job)
    BY <1>2, <1>3, <1>6, Finite, SeqDef
<1>8. Using(js) = Using(jobs) /\ Queued(js) = Queued(jobs)
    BY <1>6 DEF Using, Queued
<1>9. Line(js, queue, active)
    BY <1>2, <1>7, <1>8 DEF Line
<1>10. edits[u] \in [Query -> Nat \cup {None}] /\ u \in Caller
    BY DEF Inv, Sorts, Caller
<1>11. /\ rows' \in [Query -> Nat \cup {None}] /\ job' \in [Query -> Nat]
       /\ \A q \in R : rows'[q] # None /\ job'[q] = 0
       /\ \A q \in Query \ R : rows'[q] = rows[q] /\ job'[q] = job[q]
       /\ \A q \in Query : rows[q] # None => rows'[q] # None
    BY <1>1, <1>4, <1>10 DEF Inv, Sorts
<1>12. Open(js, job', rows', mode')
    BY <1>4, <1>6, <1>11 DEF Inv, Sound, Open
<1>13. Kept(js, job', rows')
    BY <1>2, <1>6, <1>11 DEF Inv, Sound, Kept
<1>14. \A j \in DOMAIN js : js[j].promise # "rejected" => jobs[j].promise # "rejected"
    <2>1. ASSUME NEW j \in DOMAIN jobs, job[jobs[j].query] = j PROVE jobs[j].promise = "pending"
        <3>1. j # 0
            BY <1>2, Finite
        <3> QED
            BY <2>1, <3>1, <1>2 DEF Inv, Sound, Open
    <2> QED
        BY <2>1, <1>6
<1>15. OneEach(js)
    BY <1>6, <1>14 DEF Inv, Sound, OneEach
<1>16. Asked(js, rows', at', awaits')
    <2>1. \A v \in Updater : awaits[v] \subseteq DOMAIN jobs /\ (v # u => at'[v] = at[v]) /\ at'[u] = "done"
        BY <1>4, <1>10 DEF Inv, Sorts, Caller
    <2> QED
        BY <2>1, <1>4, <1>6, <1>11 DEF Inv, Asked
<1>17. /\ at' \in [Caller -> {"idle", "waiting", "ready", "failed", "answered", "done"}]
       /\ awaits' \in [Caller -> SUBSET DOMAIN js]
    BY <1>4, <1>6 DEF Inv, Sorts
<1> QED
    BY <1>4, <1>9, <1>11, <1>12, <1>13, <1>15, <1>16, <1>17, DrainSteps DEF Sound

\* c has stopped waiting, or never did.
LEMMA Elsewise ==
    ASSUME Inv, NEW c \in Caller, at'[c] # "waiting",
           \A d \in Caller : d # c => at'[d] = at[d] /\ awaits'[d] = awaits[d]
    PROVE  Asked(jobs, rows, at', awaits')
BY DEF Inv, Asked, Caller

LEMMA WakeStep ==
    ASSUME Inv, NEW c \in Caller, Wake(c)
    PROVE  Inv'
<1>1. /\ at' = [at EXCEPT ![c] = IF GoesOn(c) THEN "ready" ELSE "failed"]
      /\ awaits' = [awaits EXCEPT ![c] = {}]
      /\ UNCHANGED <<server, mode, store, edits>>
    BY DEF Wake
<1>2. Sorts'
    BY <1>1 DEF Inv, Sorts, store
<1>3. at'[c] # "waiting" /\ \A d \in Caller : d # c => at'[d] = at[d] /\ awaits'[d] = awaits[d]
    BY <1>1 DEF Inv, Sorts
<1> QED
    BY <1>1, <1>2, <1>3, Elsewise, Called

LEMMA UpdaterSteps ==
    ASSUME Inv, NEW u \in Updater,
           \/ ApplyTooLate(u)
           \/ \E Q \in Batch : Put(u, Q) \/ PutFails(u, Q)
           \/ mode = "eager" /\ at' = [at EXCEPT ![u] = "ready"]
              /\ UNCHANGED <<server, mode, store, awaits, edits, spent>>
    PROVE  Inv'
<1>1. u \in Caller /\ Sorts
    BY DEF Caller, Inv
<1>2. PICK now \in {"failed", "answered", "ready"} : at' = [at EXCEPT ![u] = now]
    BY DEF ApplyTooLate, Put, PutFails
<1>3. UNCHANGED <<mode, store, awaits>>
    BY DEF ApplyTooLate, Put, PutFails
<1>4. server' \in [revision : [Query -> Nat], moved : BOOLEAN]
    BY <1>1, BumpTyped DEF ApplyTooLate, Put, PutFails, Sorts
<1>5. edits' \in [Updater -> [Query -> Nat \cup {None}]]
    <2>1. ASSUME NEW Q \in Batch
          PROVE  [q \in Query |-> IF q \in Q THEN server.revision[q] + 1 ELSE None]
                    \in [Query -> Nat \cup {None}]
        BY <1>1 DEF Sorts
    <2> QED
        BY <2>1, <1>1 DEF ApplyTooLate, Put, PutFails, Sorts
<1>6. Sorts'
    BY <1>1, <1>2, <1>3, <1>4, <1>5 DEF Sorts, store
<1>7. at'[u] # "waiting" /\ \A d \in Caller : d # u => at'[d] = at[d] /\ awaits'[d] = awaits[d]
    BY <1>1, <1>2, <1>3 DEF Sorts
<1> QED
    BY <1>1, <1>3, <1>6, <1>7, Elsewise, Called

LEMMA Stutters == ASSUME Inv, UNCHANGED vars PROVE Inv'
BY DEF Inv, vars, store, callers, Sorts, Line, Using, Queued, Sound, Open, Kept, OneEach, Eager, Asked

LEMMA EveryStep == ASSUME Inv, [Next]_vars PROVE Inv'
<1>1. CASE \/ \E q \in Query : OtherEdits(q)
           \/ Redeploy \/ AskHead \/ NoHead \/ BootstrapFails
    BY <1>1, HostSteps
<1>2. CASE AskSnapshot
    BY <1>2, SnapshotStep
<1>3. CASE \E j \in DOMAIN jobs : Load(j) \/ ReplyFails(j)
    BY <1>3, ReplySteps, RowSteps, PassStep DEF Load
<1>4. CASE Dispose
    BY <1>4, DisposeStep
<1>5. CASE \E b \in Boundary : Ask(b)
    <2>1. PICK b \in Boundary : Ask(b)
        BY <1>5
    <2>2. b \in Caller /\ b \notin Updater /\ Wants[b] \in SUBSET Query
          /\ mode = "deferred" /\ Ensure(b, Wants[b])
        BY <2>1, LoadingAssumption DEF Ask, Caller
    <2> QED
        BY <2>2, EnsureStep
<1>6. CASE \E c \in Caller : Wake(c)
    BY <1>6, WakeStep
<1>7. ASSUME NEW u \in Updater, Update(u) PROVE Inv'
    <2>1. u \in Caller /\ Query \in SUBSET Query
        BY DEF Caller
    <2> QED
        BY <1>7, <2>1, EnsureStep, UpdaterSteps DEF Update
<1>8. CASE \E u \in Updater : Apply(u)
    BY <1>8, ApplyStep
<1>9. CASE \E u \in Updater : ApplyTooLate(u) \/ \E Q \in Batch : Put(u, Q) \/ PutFails(u, Q)
    BY <1>9, UpdaterSteps
<1>10. CASE UNCHANGED vars
    BY <1>10, Stutters
<1> QED
    BY <1>1, <1>2, <1>3, <1>4, <1>5, <1>6, <1>7, <1>8, <1>9, <1>10 DEF Next, Progress

-----------------------------------------------------------------------------

\* The inductive invariant.
THEOREM Invariance == Spec => []Inv
BY Begun, EveryStep, PTL DEF Spec

\* Every variable keeps its type, and no more slots are used than there are.
THEOREM TypeCorrect == Spec => []TypeOK
<1>1. Inv => TypeOK
    <2> SUFFICES ASSUME Inv PROVE TypeOK
        OBVIOUS
    <2>1. Line(jobs, queue, active) /\ jobs \in Seq(Job) /\ \A j \in DOMAIN jobs : jobs[j] \in Job
        BY Finite DEF Inv, Line
    <2>2. \A j \in DOMAIN jobs : JobShape(jobs[j])
        BY <2>1 DEF Job, JobShape
    <2>3. active \in 0..MaxActive /\ active = Cardinality(InUse)
          /\ queue \subseteq {j \in DOMAIN jobs : jobs[j].at = "queued"}
        BY <2>1, LoadingAssumption DEF Line, Using, Queued, InUse
    <2>4. \A q \in Query : job[q] # 0 =>
              /\ job[q] \in DOMAIN jobs /\ jobs[job[q]].query = q /\ ~Loaded(q)
              /\ jobs[job[q]].promise = "pending" /\ jobs[job[q]].at # "done"
        BY DEF Inv, Sound, Open, Loaded
    <2>5. /\ server.revision \in [Query -> Nat] /\ server.moved \in BOOLEAN
          /\ mode \in {"loading", "full", "deferred", "eager", "failed", "closed"}
          /\ rows \in [Query -> Nat \cup {None}]
        BY DEF Inv, Sorts
    <2> QED
        BY <2>2, <2>3, <2>4, <2>5 DEF TypeOK
<1> QED
    BY <1>1, Invariance, PTL

\* A query is loaded again only after its load has failed, whoever asks for it.
THEOREM LoadedOnce == Spec => []DownloadedOnce
<1>1. Inv => DownloadedOnce
    <2> SUFFICES ASSUME Inv, NEW q \in Query
                 PROVE  Cardinality({j \in DOMAIN jobs : jobs[j].query = q
                                       /\ jobs[j].promise # "rejected"}) <= 1
        BY DEF DownloadedOnce
    <2> DEFINE S == {j \in DOMAIN jobs : jobs[j].query = q /\ jobs[j].promise # "rejected"}
    <2>1. \A i, j \in S : i = j
        BY DEF Inv, Sound, OneEach
    <2>2. CASE S = {}
        BY <2>2, FS_EmptySet
    <2>3. CASE S # {}
        <3>1. PICK i \in S : S = {i}
            BY <2>1, <2>3
        <3>2. Cardinality({i}) = 1
            BY FS_Singleton
        <3> QED
            BY <3>1, <3>2
    <2> QED
        BY <2>2, <2>3
<1> QED
    BY <1>1, Invariance, PTL

\* An update is sent only by a tab that shows the rows of every query.
THEOREM WholeEdits == Spec => EditsWholeData
<1>1. ASSUME Inv, [Next]_vars, NEW u \in Updater, at[u] # "ready", at'[u] = "ready", NEW q \in Query
      PROVE  Loaded(q)
    <2>1. u \in Caller /\ at \in [Caller -> {"idle", "waiting", "ready", "failed", "answered", "done"}]
        BY <1>1 DEF Caller, Inv, Sorts
    <2>2. ASSUME NEW c \in Caller, NEW w, at' = [at EXCEPT ![c] = w] PROVE u = c /\ w = "ready"
        BY <1>1, <2>1, <2>2
    <2>3. ASSUME NEW c \in Caller, at' = [at EXCEPT ![c] = "waiting"] PROVE FALSE
        <3>1. at'[u] \in {at[u], "waiting"}
            BY <2>1, <2>3
        <3> QED
            BY <3>1, <1>1
    <2>4. CASE \E c \in Caller : Wake(c)
        <3>1. PICK c \in Caller : Wake(c)
            BY <2>4
        <3>2. at' = [at EXCEPT ![c] = IF GoesOn(c) THEN "ready" ELSE "failed"]
            BY <3>1 DEF Wake
        <3>3. u = c /\ GoesOn(u) /\ at[u] = "waiting"
            BY <3>1, <3>2, <2>2 DEF Wake
        <3>4. CASE rows[q] # None
            BY <3>4 DEF Loaded
        <3>5. CASE \E j \in awaits[u] : jobs[j].query = q
            <4>1. PICK j \in awaits[u] : jobs[j].query = q
                BY <3>5
            <4>2. jobs[j].promise = "resolved" /\ j \in DOMAIN jobs
                BY <4>1, <3>3, <2>1, <1>1 DEF GoesOn, Promises, Inv, Sorts
            <4> QED
                BY <4>1, <4>2, <1>1 DEF Inv, Sound, Kept, Loaded
        <3> QED
            BY <3>3, <3>4, <3>5, <1>1 DEF Inv, Asked
    <2>5. CASE \E v \in Updater : Update(v)
        <3>1. PICK v \in Updater : Update(v)
            BY <2>5
        <3>2. CASE Ensure(v, Query)
            <4>1. at' = [at EXCEPT ![v] = "waiting"] /\ v \in Caller
                BY <3>2 DEF Ensure, Caller
            <4> QED
                BY <4>1, <2>3
        <3>3. CASE mode = "eager"
            BY <3>3, <1>1 DEF Inv, Eager, Loaded
        <3> QED
            BY <3>1, <3>2, <3>3 DEF Update
    <2>6. CASE \E b \in Boundary : Ask(b)
        <3>1. PICK b \in Boundary : Ask(b)
            BY <2>6
        <3>2. at' = [at EXCEPT ![b] = "waiting"] /\ b \in Caller
            BY <3>1 DEF Ask, Ensure, Caller
        <3> QED
            BY <3>2, <2>3
    <2>7. CASE \E v \in Updater : \/ Apply(v) \/ ApplyTooLate(v)
                                  \/ \E Q \in Batch : Put(v, Q) \/ PutFails(v, Q)
        <3>1. PICK v \in Updater, w \in {"done", "failed", "answered"} : at' = [at EXCEPT ![v] = w]
            BY <2>7 DEF Apply, ApplyTooLate, Put, PutFails
        <3>2. v \in Caller
            BY DEF Caller
        <3> QED
            BY <3>1, <3>2, <2>2
    <2>8. at' # at
        BY <1>1
    <2> QED
        BY <2>4, <2>5, <2>6, <2>7, <2>8, <1>1
        DEF Next, Progress, vars, callers, AskHead, AskSnapshot, Load, Reply, TakeRows, TakeError,
            PassOver, Redeploy, NoHead, BootstrapFails, Dispose, OtherEdits, ReplyFails
<1>2. ASSUME Inv, [Next]_vars
      PROVE  [\A u \in Updater : at[u] # "ready" /\ at'[u] = "ready" => \A q \in Query : Loaded(q)]_vars
    BY <1>1, <1>2
<1> QED
    BY <1>2, Invariance, PTL DEF Spec, EditsWholeData

=============================================================================
