--------------------------- MODULE OverviewProofs ---------------------------
(***************************************************************************)
(* What Pacing and Overview keep for any interval, burst and pauses, any   *)
(* number of items, workers and numberings of the site's assignments.      *)
(***************************************************************************)
EXTENDS Overview, TLAPS

\* What has been charged in any stretch of time, together with what may go out at
\* once, is within the burst and what the stretch has brought in.
Rate == \A a \in 0..Horizon : spent[a] * MinInterval + Available <= Cap + a

\* A pause asked for lasts no longer than the one that is kept.
PauseCovers == \A q \in quiet : q <= pause

LimiterInv == LimiterTypeOK /\ Rate /\ PauseCovers

\* A caller may sleep for t: there is no slot for it any earlier.
MaySleep(t) == t <= pause \/ t <= MinInterval - Available

Reading(p) == at[p] \in {"waiting", "asleep", "granted", "sent"}

\* Where the command is, against where its callers are.
Places ==
    /\ at[Main] # "idle"
    /\ Reading(Main) <=> stage = "listing"
    /\ \A p \in Worker : Reading(p) => stage = "reading" /\ job[p] \in 1..(next - 1)
    /\ \A p \in Worker : at[p] = "over" => next > N
    /\ stage = "done" => next > N /\ \A p \in Worker : at[p] = "over"

\* An item handed out has its result or is being read.
HandedOut ==
    \A i \in Item : i < next =>
        \/ result[i].got # "none"
        \/ \E p \in Worker : job[p] = i /\ Reading(p)

Routed ==
    /\ \A p \in Caller : route[p] \in offers
    /\ stage \in {"reading", "done"} => listed \in offers

CallerTypeOK ==
    /\ offers \in (SUBSET Route) \ {{}}
    /\ listed \in Route \cup {"none"}
    /\ next \in 1..(N + 1)
    /\ stage \in {"listing", "reading", "done", "failed"}
    /\ at \in [Caller -> {"idle", "waiting", "asleep", "granted", "sent", "over"}]
    /\ job \in [Caller -> 0..N]
    /\ route \in [Caller -> Route]
    /\ timer \in [Caller -> 0..(MaxRetryAfter + MinInterval)]
    /\ more \in 0..Requests
    /\ result \in [Item -> [got : {"none", "read"} \cup Failure, of : 0..N]]
    /\ ended \in BOOLEAN

CallerInv == CallerTypeOK /\ Places /\ HandedOut /\ Routed /\ OwnStateOnOneRoute

Inv == LimiterInv /\ NoOversleep /\ CallerInv

-----------------------------------------------------------------------------
(* The limiter.                                                            *)

\* The allowance holds a whole request at least.
LEMMA CapHolds == Cap \in Nat /\ MinInterval \in Nat /\ 1 <= MinInterval /\ MinInterval <= Cap
<1>1. MinInterval \in Nat /\ Burst \in Nat /\ MinInterval >= 1 /\ Burst >= 1
  BY PacingAssumption
<1>2. Burst * MinInterval \in Nat
  BY <1>1
<1>3. Burst * MinInterval >= 1 * MinInterval
  BY <1>1
<1> QED BY <1>1, <1>2, <1>3 DEF Cap

\* One more request is one more interval.
LEMMA OneMore == ASSUME NEW n \in Nat
                 PROVE  (n + 1) * MinInterval = n * MinInterval + MinInterval /\ n * MinInterval \in Nat
<1>1. MinInterval \in Nat
  BY CapHolds
<1> QED BY <1>1

\* A slot, charged or given away.
LEMMA ReserveKeeps ==
    ASSUME LimiterInv, Reserve
    PROVE  /\ LimiterInv'
           /\ \A t \in Nat : MaySleep(t) => MaySleep(t)'
<1> DEFINE sum(a) == spent[a] * MinInterval
<1>0. /\ Cap \in Nat /\ MinInterval \in Nat /\ 1 <= MinInterval /\ MinInterval <= Cap
      /\ Horizon \in Nat /\ MaxRetryAfter \in Nat
  BY CapHolds, PacingAssumption
<1>1. CASE Charge
  <2>1. Available \in 0..Cap /\ Available' = Available - MinInterval
    BY <1>0, <1>1 DEF LimiterInv, LimiterTypeOK, Charge, Refill, Available, AtMost, Cap
  <2>2. LimiterTypeOK'
    BY <1>0, <1>1, <2>1 DEF LimiterInv, LimiterTypeOK, Charge, Refill, Cap
  <2>3. Rate'
    <3> SUFFICES ASSUME NEW a \in 0..Horizon
                 PROVE  spent'[a] * MinInterval + Available' <= Cap + a
      BY DEF Rate, Cap
    <3>1. spent[a] \in Nat /\ spent'[a] = spent[a] + 1 /\ sum(a) + Available <= Cap + a
      BY <1>1 DEF LimiterInv, LimiterTypeOK, Rate, Charge
    <3>2. spent'[a] * MinInterval = sum(a) + MinInterval /\ sum(a) \in Nat
      BY <3>1, OneMore
    <3> HIDE DEF sum
    <3> QED BY <1>0, <2>1, <3>1, <3>2
  <2>4. PauseCovers'
    BY <1>1 DEF LimiterInv, PauseCovers, Charge
  <2>5. \A t \in Nat : MaySleep(t) => MaySleep(t)'
    BY <1>0, <1>1, <2>1 DEF MaySleep, Charge
  <2> QED BY <2>2, <2>3, <2>4, <2>5 DEF LimiterInv
<1>2. CASE Give
  <2>1. Available \in 0..Cap /\ Available' = Available
    BY <1>0, <1>2 DEF LimiterInv, LimiterTypeOK, Give, Refill, Available, AtMost, Cap
  <2>2. LimiterTypeOK'
    BY <1>0, <1>2, <2>1 DEF LimiterInv, LimiterTypeOK, Give, Refill, Cap
  <2>3. Rate' /\ PauseCovers'
    BY <1>2, <2>1 DEF LimiterInv, Rate, PauseCovers, Give, Cap
  <2>4. \A t \in Nat : MaySleep(t) => MaySleep(t)'
    BY <1>2, <2>1 DEF MaySleep, Give
  <2> QED BY <2>2, <2>3, <2>4 DEF LimiterInv
<1> QED BY <1>1, <1>2 DEF Reserve

\* A caller sent to sleep.
LEMMA DelayKeeps ==
    ASSUME LimiterInv, NEW d \in Nat, Delay(d)
    PROVE  /\ LimiterInv'
           /\ MaySleep(d)'
           /\ \A t \in Nat : MaySleep(t) => MaySleep(t)'
<1>0. /\ Cap \in Nat /\ MinInterval \in Nat /\ 1 <= MinInterval /\ MinInterval <= Cap
      /\ Horizon \in Nat /\ MaxRetryAfter \in Nat
  BY CapHolds, PacingAssumption
<1>1. Available \in 0..Cap /\ Available' = Available /\ pause' = pause /\ pause \in Nat
  BY <1>0 DEF LimiterInv, LimiterTypeOK, Delay, Refill, Available, AtMost, Cap
<1>2. LimiterTypeOK'
  BY <1>0, <1>1 DEF LimiterInv, LimiterTypeOK, Delay, Refill, Cap
<1>3. Rate' /\ PauseCovers'
  BY <1>1 DEF LimiterInv, Rate, PauseCovers, Delay, Cap
<1>4. MaySleep(d)'
  BY <1>0, <1>1 DEF MaySleep, Delay, Missing
<1>5. \A t \in Nat : MaySleep(t) => MaySleep(t)'
  BY <1>1 DEF MaySleep
<1> QED BY <1>2, <1>3, <1>4, <1>5 DEF LimiterInv

\* A busy site.
LEMMA BackoffKeeps ==
    ASSUME LimiterInv, NEW d \in Nat, NoteBackoff(d)
    PROVE  /\ LimiterInv'
           /\ \A t \in Nat : MaySleep(t) => MaySleep(t)'
<1> DEFINE asked == AtMost(MaxRetryAfter, d)
<1>0. MaxRetryAfter \in Nat /\ pause \in 0..MaxRetryAfter
  BY PacingAssumption DEF LimiterInv, LimiterTypeOK
<1>1. asked \in 0..MaxRetryAfter
  BY <1>0 DEF AtMost
<1>2. pause' \in 0..MaxRetryAfter /\ pause <= pause' /\ asked <= pause'
  BY <1>0, <1>1 DEF NoteBackoff, Longest
<1>3. quiet' = (quiet \cup {asked}) \ {0}
  BY DEF NoteBackoff
<1>4. UNCHANGED <<allowance, ago, spent>> /\ Available' = Available
  BY DEF NoteBackoff, Available, Cap
<1> HIDE DEF asked
<1>5. quiet' \subseteq 1..MaxRetryAfter
  BY <1>0, <1>1, <1>3 DEF LimiterInv, LimiterTypeOK
<1>6. LimiterTypeOK'
  BY <1>2, <1>4, <1>5 DEF LimiterInv, LimiterTypeOK, Cap
<1>7. PauseCovers'
  BY <1>0, <1>1, <1>2, <1>3 DEF LimiterInv, LimiterTypeOK, PauseCovers
<1>8. Rate'
  BY <1>4 DEF LimiterInv, Rate, Cap
<1>9. \A t \in Nat : MaySleep(t) => MaySleep(t)'
  BY <1>0, <1>2, <1>4 DEF MaySleep
<1> QED BY <1>6, <1>7, <1>8, <1>9 DEF LimiterInv

\* Time: what a stretch of it brings in is what the allowance may gain.
LEMMA ElapseKeeps ==
    ASSUME LimiterInv, Elapse
    PROVE  /\ LimiterInv'
           /\ \A t \in Nat : MaySleep(t) => MaySleep(Down(t))'
<1>0. /\ Cap \in Nat /\ MinInterval \in Nat /\ 1 <= MinInterval /\ MinInterval <= Cap
      /\ Horizon \in Nat /\ MaxRetryAfter \in Nat
  BY CapHolds, PacingAssumption
<1>1. /\ Available \in 0..Cap /\ Available' \in 0..Cap /\ Available' <= Available + 1
      /\ ago' \in 0..Cap /\ pause \in 0..MaxRetryAfter /\ pause' = Down(pause)
  <2>1. allowance \in 0..Cap /\ ago \in 0..Cap /\ allowance' = allowance /\ pause \in 0..MaxRetryAfter
    BY DEF LimiterInv, LimiterTypeOK, Elapse
  <2>2. ago' = AtMost(Cap, ago + 1) /\ pause' = Down(pause)
    BY DEF Elapse
  <2>3. Available' = AtMost(Cap, allowance' + ago')
    BY DEF Available, AtMost, Cap
  <2> QED BY <1>0, <2>1, <2>2, <2>3 DEF Available, AtMost
<1>2. LimiterTypeOK'
  <2>1. spent' \in [0..Horizon -> Nat]
    BY <1>0 DEF LimiterInv, LimiterTypeOK, Elapse
  <2>2. quiet' \subseteq 1..MaxRetryAfter
    BY <1>0 DEF LimiterInv, LimiterTypeOK, Elapse, Down
  <2>3. pause' \in 0..MaxRetryAfter /\ allowance' \in 0..Cap
    BY <1>0, <1>1 DEF LimiterInv, LimiterTypeOK, Elapse, Down
  <2> QED BY <1>1, <2>1, <2>2, <2>3 DEF LimiterTypeOK, Cap
<1>3. Rate'
  <2> SUFFICES ASSUME NEW a \in 0..Horizon
               PROVE  spent'[a] * MinInterval + Available' <= Cap + a
    BY DEF Rate, Cap
  <2>1. CASE a = 0
    <3>1. spent'[a] = 0
      BY <1>0, <2>1 DEF Elapse
    <3>2. spent'[a] * MinInterval = 0
      BY <1>0, <3>1
    <3> QED BY <1>0, <1>1, <3>2
  <2>2. CASE a # 0
    <3>1. a - 1 \in 0..Horizon /\ spent'[a] = spent[a - 1]
      BY <1>0, <2>2 DEF Elapse
    <3>2. spent[a - 1] * MinInterval + Available <= Cap + (a - 1)
      BY <3>1 DEF LimiterInv, Rate
    <3>3. spent[a - 1] * MinInterval \in Nat
      BY <3>1, OneMore DEF LimiterInv, LimiterTypeOK
    <3> DEFINE used == spent[a - 1] * MinInterval
    <3> HIDE DEF used
    <3>4. used + Available <= Cap + (a - 1) /\ used \in Nat
      BY <3>2, <3>3 DEF used
    <3>5. Available \in Nat /\ Available' \in Nat /\ Available' <= Available + 1
      BY <1>0, <1>1
    <3>6. ASSUME NEW u \in Nat, NEW v \in Nat, NEW v1 \in Nat, NEW c \in Nat,
                 u + v <= c + (a - 1), v1 <= v + 1
          PROVE  u + v1 <= c + a
      BY <1>0, <3>6
    <3>7. used + Available' <= Cap + a
      BY <1>0, <3>4, <3>5, <3>6
    <3> QED BY <3>1, <3>7 DEF used
  <2> QED BY <2>1, <2>2
<1>4. PauseCovers'
  BY <1>0, <1>1 DEF LimiterInv, LimiterTypeOK, PauseCovers, Elapse, Down
<1>5. \A t \in Nat : MaySleep(t) => MaySleep(Down(t))'
  <2>1. /\ Available \in Nat /\ Available' \in Nat /\ Available' <= Available + 1
        /\ pause \in Nat /\ pause' = Down(pause)
    BY <1>0, <1>1
  <2>2. ASSUME NEW t \in Nat, NEW i \in Nat, NEW v \in Nat, NEW v1 \in Nat,
               v1 <= v + 1, t <= i - v
        PROVE  Down(t) = 0 \/ Down(t) <= i - v1
    BY <2>2 DEF Down
  <2>3. \A t \in Nat : t <= MinInterval - Available
                      => Down(t) = 0 \/ Down(t) <= MinInterval - Available'
    BY <1>0, <2>1, <2>2
  <2>4. \A t \in Nat : t <= pause => Down(t) <= pause'
    BY <2>1 DEF Down
  <2>5. \A t \in Nat : Down(t) = 0 => Down(t) <= pause'
    BY <2>1 DEF Down
  <2> QED BY <2>3, <2>4, <2>5 DEF MaySleep
<1> QED BY <1>2, <1>3, <1>4, <1>5 DEF LimiterInv

-----------------------------------------------------------------------------
(* The callers.                                                            *)

LEMMA Names ==
    /\ N \in Nat /\ Requests \in Nat /\ Item = 1..N
    /\ Worker \subseteq Nat \ {0} /\ Main \in Caller /\ Main \notin Worker
    /\ Caller = Worker \cup {Main}
    /\ MaxRetryAfter + MinInterval \in Nat
<1>1. AtMost(Pool, N) \in Nat
  BY OverviewAssumption DEF AtMost
<1> QED BY <1>1, OverviewAssumption, PacingAssumption DEF Item, Worker, Main, Caller

\* Whatever else is unchanged, nothing is promised of these.
Idle == /\ timer' \in [Caller -> 0..(MaxRetryAfter + MinInterval)]
        /\ more' \in 0..Requests
        /\ ended' \in BOOLEAN
        /\ offers' = offers

\* A reading goes on, perhaps by another route.
LEMMA GoesOn ==
    ASSUME CallerInv, NEW p \in Caller, Reading(p),
           NEW s \in {"waiting", "asleep", "granted", "sent"},
           at' = [at EXCEPT ![p] = s],
           NEW r \in offers,
           route' = [route EXCEPT ![p] = r] \/ route' = route,
           Idle, UNCHANGED <<listed, next, stage, job, result>>
    PROVE  CallerInv'
<1>1. CallerTypeOK'
  BY DEF CallerInv, CallerTypeOK, Idle
<1>2. \A q \in Caller : Reading(q)' <=> Reading(q)
  BY DEF CallerInv, CallerTypeOK, Reading
<1>3. \A q \in Caller : at'[q] \in {"idle", "over"} <=> at[q] \in {"idle", "over"}
  BY DEF CallerInv, CallerTypeOK, Reading
<1>4. \A q \in Caller : at'[q] = "over" => at[q] = "over"
  BY DEF CallerInv, CallerTypeOK, Reading
<1>5. Places'
  <2>1. \A q \in Worker : at[q] = "over" => at'[q] = "over"
    BY Names DEF CallerInv, CallerTypeOK, Reading
  <2>2. at'[Main] # "idle"
    BY Names DEF CallerInv, CallerTypeOK, Places
  <2> QED BY <1>2, <1>4, <2>1, <2>2, Names DEF CallerInv, Places
<1>6. HandedOut'
  BY <1>2, Names DEF CallerInv, HandedOut
<1>7. Routed'
  BY DEF CallerInv, CallerTypeOK, Routed, Idle
<1>8. OwnStateOnOneRoute'
  BY DEF CallerInv, OwnStateOnOneRoute, Idle
<1> QED BY <1>1, <1>5, <1>6, <1>7, <1>8 DEF CallerInv

\* A worker's reading ends with a result of some kind.
LEMMA EndsWith ==
    ASSUME CallerInv, NEW p \in Worker, Reading(p),
           NEW res \in [got : {"read"} \cup Failure, of : 0..N],
           \A r \in Route : offers = {r} /\ res.got = "read" => res.of = job[p],
           result' = [result EXCEPT ![job[p]] = res],
           at' = [at EXCEPT ![p] = "idle"],
           Idle, UNCHANGED <<listed, next, stage, job, route>>
    PROVE  CallerInv'
<1>1. job[p] \in Item /\ job[p] < next /\ stage = "reading"
  BY Names DEF CallerInv, CallerTypeOK, Places
<1>2. CallerTypeOK'
  BY DEF CallerInv, CallerTypeOK, Idle
<1>3. \A q \in Caller : q # p => at'[q] = at[q]
  BY DEF CallerInv, CallerTypeOK
<1>4. at'[p] = "idle"
  BY Names DEF CallerInv, CallerTypeOK
<1>5. Places'
  <2>1. \A q \in Worker : Reading(q)' => Reading(q)
    BY <1>3, <1>4, Names DEF Reading
  <2>2. Reading(Main)' <=> Reading(Main)
    BY <1>3, Names DEF Reading
  <2>3. \A q \in Worker : at'[q] = "over" => at[q] = "over"
    BY <1>3, <1>4, Names
  <2> QED BY <1>1, <1>3, <2>1, <2>2, <2>3, Names DEF CallerInv, Places
<1>6. HandedOut'
  <2> SUFFICES ASSUME NEW i \in Item, i < next
               PROVE  \/ result'[i].got # "none"
                      \/ \E q \in Worker : job[q] = i /\ Reading(q)'
    BY DEF HandedOut
  <2>1. CASE i = job[p]
    <3>1. result'[i] = res
      BY <2>1, <1>1 DEF CallerInv, CallerTypeOK
    <3> QED BY <3>1 DEF Failure
  <2>2. CASE i # job[p]
    <3>1. result'[i] = result[i]
      BY <2>2, <1>1 DEF CallerInv, CallerTypeOK
    <3>2. \A q \in Worker : job[q] = i /\ Reading(q) => Reading(q)'
      BY <2>2, <1>3, Names DEF Reading
    <3> QED BY <3>1, <3>2 DEF CallerInv, HandedOut
  <2> QED BY <2>1, <2>2
<1>7. Routed'
  BY DEF CallerInv, Routed, Idle
<1>8. OwnStateOnOneRoute'
  <2> SUFFICES ASSUME NEW r \in Route, offers = {r}, NEW i \in Item, result'[i].got = "read"
               PROVE  result'[i].of = i
    BY DEF OwnStateOnOneRoute, Idle
  <2>1. CASE i = job[p]
    BY <2>1, <1>1 DEF CallerInv, CallerTypeOK
  <2>2. CASE i # job[p]
    BY <2>2, <1>1 DEF CallerInv, CallerTypeOK, OwnStateOnOneRoute
  <2> QED BY <2>1, <2>2
<1> QED BY <1>2, <1>5, <1>6, <1>7, <1>8 DEF CallerInv

\* The list is there, and it was one of the account's routes that had it.
LEMMA Lists ==
    ASSUME CallerInv, Reading(Main), Idle,
           stage' = "reading", listed' = route[Main],
           at' = [at EXCEPT ![Main] = "over"],
           UNCHANGED <<next, job, route, result>>
    PROVE  CallerInv'
<1>1. stage = "listing" /\ route[Main] \in offers
  BY Names DEF CallerInv, Places, Routed
<1>2. CallerTypeOK'
  BY <1>1 DEF CallerInv, CallerTypeOK, Idle
<1>3. (\A q \in Worker : at'[q] = at[q]) /\ at'[Main] = "over"
  BY Names DEF CallerInv, CallerTypeOK
<1>4. Places'
  BY <1>1, <1>3, Names DEF CallerInv, Places, Reading
<1>5. HandedOut' /\ Routed' /\ OwnStateOnOneRoute'
  BY <1>1, <1>3, Names DEF CallerInv, HandedOut, Routed, OwnStateOnOneRoute, Reading, Idle
<1> QED BY <1>2, <1>4, <1>5 DEF CallerInv

\* A reading fails: a worker's with its item, the list's with the command.
LEMMA Fails ==
    ASSUME CallerInv, NEW p \in Caller, Reading(p), NEW why \in Failure, Fail(p, why),
           Idle, UNCHANGED <<next, job>>
    PROVE  CallerInv'
<1>1. CASE p = Main
  <2>1. /\ stage = "listing"
        /\ UNCHANGED <<route, result>>
        /\ at' = [at EXCEPT ![Main] = "over"]
        /\ WithoutDates \/ (stage' = "failed" /\ UNCHANGED listed)
    BY <1>1 DEF Fail, Return, CallerInv, Places
  <2>2. CASE WithoutDates
    BY <1>1, <2>1, <2>2, Lists DEF WithoutDates
  <2>3. CASE stage' = "failed" /\ UNCHANGED listed
    <3>1. CallerTypeOK'
      BY <2>1, <2>3 DEF CallerInv, CallerTypeOK, Idle
    <3>2. (\A q \in Worker : at'[q] = at[q]) /\ at'[Main] = "over"
      BY <2>1, Names DEF CallerInv, CallerTypeOK
    <3>3. Places'
      BY <2>1, <2>3, <3>2, Names DEF CallerInv, Places, Reading
    <3>4. HandedOut' /\ Routed' /\ OwnStateOnOneRoute'
      BY <2>1, <2>3, <3>2, Names
         DEF CallerInv, HandedOut, Routed, OwnStateOnOneRoute, Reading, Idle
    <3> QED BY <3>1, <3>3, <3>4 DEF CallerInv
  <2> QED BY <2>1, <2>2, <2>3
<1>2. CASE p # Main
  <2>1. p \in Worker
    BY <1>2, Names
  <2>2. /\ result' = [result EXCEPT ![job[p]] = Failed(why)]
        /\ at' = [at EXCEPT ![p] = "idle"]
        /\ UNCHANGED <<listed, stage, route>>
    BY <1>2 DEF Fail, Return
  <2>3. Failed(why) \in [got : {"read"} \cup Failure, of : 0..N] /\ Failed(why).got # "read"
    BY Names DEF Failed, Failure
  <2> QED BY <2>1, <2>2, <2>3, EndsWith
<1> QED BY <1>1, <1>2

\* The next route is asked, or the reading fails.
LEMMA FallsBack ==
    ASSUME CallerInv, NEW p \in Caller, Reading(p), FallBack(p), Idle, UNCHANGED <<next, job>>
    PROVE  CallerInv'
<1>1. CASE After(route[p]) # {}
  <2>1. First(After(route[p])) \in offers
    BY <1>1 DEF After, First, CallerInv, CallerTypeOK, Route
  <2> QED BY <1>1, <2>1, GoesOn DEF FallBack
<1>2. CASE After(route[p]) = {}
  BY <1>2, Fails DEF FallBack, Failure
<1> QED BY <1>1, <1>2

\* The routes agree on an item's number where there is only one.
LEMMA Answers ==
    ASSUME CallerInv, NEW p \in Caller, Answered(p), Idle
    PROVE  CallerInv'
<1>1. p \in Worker /\ Reading(p)
  BY Names DEF Answered, Reading
<1>2. PICK i \in Meant(route[p], job[p]) : result' = [result EXCEPT ![job[p]] = ReadOf(i)]
  BY DEF Answered, Keep
<1>3. at' = [at EXCEPT ![p] = "idle"]
  BY <1>1, Names DEF Answered, Return
<1>4. job[p] \in Item /\ i \in Item /\ Number[route[p]][i] = Number[listed][job[p]]
  BY <1>1, Names DEF Meant, CallerInv, CallerTypeOK, Places
<1>5. ASSUME NEW r \in Route, offers = {r}
      PROVE  i = job[p]
  <2>1. route[p] = r /\ listed = r
    BY <1>1, <1>5, Names DEF CallerInv, Routed, Places
  <2> QED BY <1>4, <2>1, OverviewAssumption
<1>6. ReadOf(i) \in [got : {"read"} \cup Failure, of : 0..N] /\ ReadOf(i).of = i
  BY <1>4, Names DEF ReadOf
<1> QED BY <1>1, <1>2, <1>3, <1>5, <1>6, EndsWith DEF Answered

\* The next item goes to a worker that is free.
LEMMA Hands ==
    ASSUME CallerInv, NEW p \in Caller, Hand(p), Idle
    PROVE  CallerInv'
<1>1. /\ p \in Worker /\ stage = "reading" /\ at[p] = "idle" /\ next <= N /\ next' = next + 1
      /\ job' = [job EXCEPT ![p] = next]
      /\ route' = [route EXCEPT ![p] = First(offers)]
      /\ at' = [at EXCEPT ![p] = "waiting"]
      /\ UNCHANGED <<listed, stage, result>>
  BY Names DEF Hand
<1>2. next \in Nat /\ next \in Item /\ next' \in 1..(N + 1) /\ First(offers) \in offers
  <2>1. next \in 1..(N + 1) /\ N \in Nat
    BY Names DEF CallerInv, CallerTypeOK
  <2>2. next \in Nat /\ next \in Item /\ next' \in 1..(N + 1)
    BY <1>1, <2>1, Names
  <2>3. offers \subseteq Route /\ offers # {}
    BY DEF CallerInv, CallerTypeOK
  <2>4. First(offers) \in offers
    BY <2>3 DEF First, Route
  <2> QED BY <2>2, <2>4
<1>3. CallerTypeOK'
  <2>1. next \in 0..N /\ offers \subseteq Route
    BY <1>1, <1>2, Names DEF CallerInv, CallerTypeOK
  <2>2. job' \in [Caller -> 0..N] /\ route' \in [Caller -> Route]
    BY <1>1, <1>2, <2>1 DEF CallerInv, CallerTypeOK
  <2>3. at' \in [Caller -> {"idle", "waiting", "asleep", "granted", "sent", "over"}]
    BY <1>1 DEF CallerInv, CallerTypeOK
  <2> QED BY <1>1, <1>2, <2>2, <2>3 DEF CallerInv, CallerTypeOK, Idle
<1>4. /\ \A q \in Caller : q # p => at'[q] = at[q] /\ job'[q] = job[q]
      /\ at'[p] = "waiting" /\ job'[p] = next
  BY <1>1, Names DEF CallerInv, CallerTypeOK
<1>5. Places'
  <2>1. \A q \in Worker : Reading(q)' => job'[q] \in 1..(next' - 1)
    BY <1>1, <1>2, <1>4, Names DEF CallerInv, Places, Reading
  <2>2. \A q \in Worker : at'[q] # "over"
    BY <1>1, <1>2, <1>4, Names DEF CallerInv, Places
  <2> QED BY <1>1, <1>4, <2>1, <2>2, Names DEF CallerInv, Places, Reading
<1>6. HandedOut'
  <2> SUFFICES ASSUME NEW i \in Item, i < next + 1
               PROVE  \/ result[i].got # "none"
                      \/ \E q \in Worker : job'[q] = i /\ Reading(q)'
    BY <1>1 DEF HandedOut
  <2>1. CASE i = next
    BY <1>1, <1>4, <2>1 DEF Reading
  <2>2. CASE i # next
    <3>1. i < next
      BY <1>2, <2>2, Names
    <3>2. \A q \in Worker : Reading(q) => q # p
      BY <1>1 DEF Reading
    <3> QED BY <1>4, <3>1, <3>2, Names DEF CallerInv, HandedOut, Reading
  <2> QED BY <2>1, <2>2
<1>7. Routed'
  BY <1>1, <1>2 DEF CallerInv, CallerTypeOK, Routed, Idle
<1>8. OwnStateOnOneRoute'
  BY <1>1 DEF CallerInv, OwnStateOnOneRoute, Idle
<1> QED BY <1>3, <1>5, <1>6, <1>7, <1>8 DEF CallerInv

\* Nothing is left to hand out.
LEMMA Leaves ==
    ASSUME CallerInv, NEW p \in Caller, Leave(p), Idle
    PROVE  CallerInv'
<1>1. /\ p \in Worker /\ stage = "reading" /\ at[p] = "idle" /\ next > N
      /\ at' = [at EXCEPT ![p] = "over"]
      /\ UNCHANGED <<listed, next, stage, job, route, result>>
  BY Names DEF Leave
<1>2. CallerTypeOK'
  BY <1>1 DEF CallerInv, CallerTypeOK, Idle
<1>3. (\A q \in Caller : q # p => at'[q] = at[q]) /\ at'[p] = "over"
  BY <1>1, Names DEF CallerInv, CallerTypeOK
<1>4. \A q \in Caller : Reading(q)' <=> Reading(q)
  BY <1>1, <1>3 DEF Reading
<1>5. Places'
  BY <1>1, <1>3, <1>4, Names DEF CallerInv, Places
<1>6. HandedOut' /\ Routed' /\ OwnStateOnOneRoute'
  BY <1>1, <1>4, Names DEF CallerInv, HandedOut, Routed, OwnStateOnOneRoute, Idle
<1> QED BY <1>2, <1>5, <1>6 DEF CallerInv

-----------------------------------------------------------------------------
(* Every step.                                                             *)

\* A step of a caller keeps what is said of callers.
LEMMA StepKeeps ==
    ASSUME CallerInv, NEW p \in Caller, Step(p)
    PROVE  CallerInv'
<1>0. /\ timer \in [Caller -> 0..(MaxRetryAfter + MinInterval)]
      /\ more \in 0..Requests /\ ended \in BOOLEAN /\ route[p] \in offers
  BY DEF CallerInv, CallerTypeOK, Routed
<1>1. CASE Go(p)
  <2>1. Reading(p) /\ Idle /\ UNCHANGED <<listed, next, stage, job, route, result>>
    BY <1>0, <1>1 DEF Go, Reading, Idle
  <2> QED BY <1>0, <1>1, <2>1, GoesOn DEF Go
<1>11. CASE Send(p)
  <2>1. Reading(p) /\ Idle /\ UNCHANGED <<next, job>>
    BY <1>0, <1>11 DEF Send, Reading, Idle
  <2>2. CASE ended
    BY <1>11, <2>1, <2>2, Fails DEF Send, Failure
  <2>3. CASE ~ended
    BY <1>0, <1>11, <2>1, <2>3, GoesOn DEF Send
  <2> QED BY <2>2, <2>3
<1>2. CASE Sleep(p)
  <2>1. Reading(p) /\ UNCHANGED <<listed, next, stage, job, route, result>>
    BY <1>2 DEF Sleep, Reading
  <2>2. PICK d \in 1..(MaxRetryAfter + MinInterval) : timer' = [timer EXCEPT ![p] = d]
    BY <1>2 DEF Sleep
  <2>3. d \in 0..(MaxRetryAfter + MinInterval)
    BY Names
  <2>4. Idle
    BY <1>0, <1>2, <2>2, <2>3 DEF Sleep, Idle
  <2> QED BY <1>0, <1>2, <2>1, <2>4, GoesOn DEF Sleep
<1>3. CASE Wake(p)
  <2>1. Reading(p) /\ Idle /\ UNCHANGED <<listed, next, stage, job, route, result>>
    BY <1>0, <1>3 DEF Wake, Reading, Idle
  <2> QED BY <1>0, <1>3, <2>1, GoesOn DEF Wake
<1>4. CASE Cancel(p)
  <2>1. Reading(p) /\ Idle /\ UNCHANGED <<next, job>>
    BY <1>0, <1>4, Names DEF Cancel, Reading, Idle
  <2> QED BY <1>4, <2>1, Fails DEF Cancel, Failure
<1>5. CASE Answered(p)
  BY <1>0, <1>5, Answers DEF Answered, Idle
<1>6. CASE Incapable(p)
  BY <1>0, <1>6, FallsBack DEF Incapable, Idle, Reading
<1>7. CASE Busy(p)
  BY <1>0, <1>7, FallsBack DEF Busy, Idle, Reading
<1>8. CASE Refused(p)
  BY <1>0, <1>8, Fails DEF Refused, Idle, Reading, Failure
<1>9. CASE Hand(p)
  BY <1>0, <1>9, Hands DEF Hand, Idle
<1>10. CASE Leave(p)
  BY <1>0, <1>10, Leaves DEF Leave, Idle
<1> QED BY <1>1, <1>2, <1>3, <1>4, <1>5, <1>6, <1>7, <1>8, <1>9, <1>10, <1>11 DEF Step

\* So does every other step.
LEMMA CallersKeep ==
    ASSUME CallerInv, [Next]_vars
    PROVE  CallerInv'
<1>0. /\ timer \in [Caller -> 0..(MaxRetryAfter + MinInterval)]
      /\ more \in 0..Requests /\ ended \in BOOLEAN /\ \A p \in Caller : route[p] \in offers
  BY DEF CallerInv, CallerTypeOK, Routed
<1>1. ASSUME NEW p \in Caller, Step(p)
      PROVE  CallerInv'
  BY <1>1, StepKeeps
<1>2. CASE AskAgain
  <2>1. Reading(Main) /\ Idle /\ UNCHANGED <<listed, next, stage, job, route, result>>
    BY <1>0, <1>2, Names DEF AskAgain, Reading, Idle
  <2> QED BY <1>0, <1>2, <2>1, Names, GoesOn DEF AskAgain
<1>3. CASE Listed
  BY <1>0, <1>3, Lists DEF Listed, Return, Reading, Idle
<1>4. CASE Collect
  <2>1. /\ UNCHANGED <<offers, listed, next, at, job, route, timer, more, result, ended>>
        /\ stage = "reading" /\ stage' = "done" /\ next > N /\ \A p \in Worker : at[p] = "over"
    BY <1>4 DEF Collect, callers
  <2>2. CallerTypeOK' /\ Routed' /\ OwnStateOnOneRoute' /\ HandedOut'
    BY <2>1 DEF CallerInv, CallerTypeOK, Routed, OwnStateOnOneRoute, HandedOut, Reading
  <2>3. Places'
    BY <2>1, Names DEF CallerInv, Places, Reading
  <2> QED BY <2>2, <2>3 DEF CallerInv
<1>5. CASE Interrupt
  BY <1>5 DEF Interrupt, callers, CallerInv, CallerTypeOK, Places, HandedOut, Routed,
              OwnStateOnOneRoute, Reading
<1>6. CASE Tick
  <2>1. timer' \in [Caller -> 0..(MaxRetryAfter + MinInterval)]
    BY <1>0, <1>6, Names DEF Tick, Down
  <2> QED BY <2>1, <1>6 DEF Tick, CallerInv, CallerTypeOK, Places, HandedOut, Routed,
                            OwnStateOnOneRoute, Reading
<1>7. CASE UNCHANGED vars
  BY <1>7 DEF vars, callers, CallerInv, CallerTypeOK, Places, HandedOut, Routed,
              OwnStateOnOneRoute, Reading
<1> QED BY <1>1, <1>2, <1>3, <1>4, <1>5, <1>6, <1>7, Names DEF Next, MainStep

\* A step that sets no timer: whoever sleeps may go on sleeping.
LEMMA Undisturbed ==
    ASSUME NoOversleep, CallerTypeOK, timer' \in [Caller -> Nat],
           \A q \in Caller : at'[q] = "asleep" => at[q] = "asleep" /\ timer'[q] = timer[q],
           \A t \in Nat : MaySleep(t) => MaySleep(t)'
    PROVE  NoOversleep'
BY DEF NoOversleep, MaySleep

\* What a caller's step does to the limiter, and to those asleep.
LEMMA StepKeepsLimiter ==
    ASSUME Inv, NEW p \in Caller, Step(p), CallerInv'
    PROVE  LimiterInv' /\ NoOversleep'
<1>0. /\ LimiterInv /\ NoOversleep /\ CallerTypeOK /\ CallerTypeOK'
      /\ timer \in [Caller -> Nat] /\ timer' \in [Caller -> Nat]
  <2>1. LimiterInv /\ NoOversleep /\ CallerTypeOK /\ CallerTypeOK'
    BY DEF Inv, CallerInv
  <2>2. 0..(MaxRetryAfter + MinInterval) \subseteq Nat
    BY Names
  <2> QED BY <2>1, <2>2 DEF CallerTypeOK
<1>1. CASE Sleep(p)
  <2>1. PICK d \in 1..(MaxRetryAfter + MinInterval) :
             Delay(d) /\ timer' = [timer EXCEPT ![p] = d]
    BY <1>1 DEF Sleep
  <2>2. d \in Nat
    BY Names
  <2>3. LimiterInv' /\ MaySleep(d)' /\ \A t \in Nat : MaySleep(t) => MaySleep(t)'
    BY <1>0, <2>1, <2>2, DelayKeeps
  <2>4. \A q \in Caller : /\ q # p => at'[q] = at[q] /\ timer'[q] = timer[q]
                          /\ q = p => timer'[q] = d
    BY <1>0, <1>1, <2>1 DEF Sleep, CallerTypeOK
  <2>5. NoOversleep'
    BY <1>0, <2>3, <2>4 DEF NoOversleep, MaySleep
  <2> QED BY <2>3, <2>5
<1>2. CASE ~Sleep(p)
  <2>1. \A q \in Caller : at'[q] = "asleep" => at[q] = "asleep" /\ timer'[q] = timer[q]
    BY <1>0, <1>2 DEF Step, Go, Send, Wake, Cancel, Answered, Incapable, Busy, Refused, Hand, Leave,
                      Fail, FallBack, Return, CallerTypeOK
  <2>2. LimiterInv' /\ \A t \in Nat : MaySleep(t) => MaySleep(t)'
    <3>1. CASE Reserve
      BY <1>0, <3>1, ReserveKeeps
    <3>2. CASE \E d \in Nat : NoteBackoff(d)
      BY <1>0, <3>2, BackoffKeeps
    <3>3. CASE UNCHANGED limiter
      BY <1>0, <3>3 DEF limiter, LimiterInv, LimiterTypeOK, Rate, PauseCovers, MaySleep,
                        Available, Cap
    <3>4. Quiet \in Nat /\ Delays \subseteq Nat
      BY PacingAssumption, OverviewAssumption
    <3> QED BY <1>2, <3>1, <3>2, <3>3, <3>4
            DEF Step, Go, Send, Wake, Cancel, Answered, Incapable, Busy, Refused, Hand, Leave
  <2> QED BY <1>0, <2>1, <2>2, Undisturbed
<1> QED BY <1>1, <1>2

THEOREM Invariance == Spec => []Inv
<1>1. Init => Inv
  <2> SUFFICES ASSUME Init
               PROVE  Inv
    OBVIOUS
  <2>1. LimiterInv
    <3>1. Cap \in Nat /\ MinInterval \in Nat /\ Horizon \in Nat /\ MaxRetryAfter \in Nat
      BY CapHolds, PacingAssumption
    <3>2. allowance = Cap /\ ago = 0 /\ pause = 0 /\ quiet = {} /\ spent = [a \in 0..Horizon |-> 0]
      BY DEF Init, LimiterInit
    <3>3. Available = Cap
      BY <3>1, <3>2 DEF Available, AtMost
    <3>4. Rate
      BY <3>1, <3>2, <3>3 DEF Rate
    <3> QED BY <3>1, <3>2, <3>4 DEF LimiterInv, LimiterTypeOK, PauseCovers
  <2>2. NoOversleep
    BY DEF Init, NoOversleep
  <2>3. First(offers) \in offers /\ offers \subseteq Route
    BY DEF Init, First, Route
  <2>4. CallerTypeOK
    <3>1. at \in [Caller -> {"idle", "waiting", "asleep", "granted", "sent", "over"}]
      BY DEF Init
    <3>2. route \in [Caller -> Route] /\ job \in [Caller -> 0..N]
      BY <2>3, Names DEF Init
    <3>3. timer \in [Caller -> 0..(MaxRetryAfter + MinInterval)] /\ more \in 0..Requests
      BY Names DEF Init
    <3>4. result \in [Item -> [got : {"none", "read"} \cup Failure, of : 0..N]]
      BY Names DEF Init, Unread
    <3>5. next = 1 /\ listed = "none" /\ ended = FALSE
      BY DEF Init
    <3>6. next \in 1..(N + 1)
      BY <3>5, Names
    <3> QED BY <3>1, <3>2, <3>3, <3>4, <3>5, <3>6 DEF Init, CallerTypeOK
  <2>5. Places /\ HandedOut /\ Routed /\ OwnStateOnOneRoute
    BY <2>3, Names DEF Init, Places, HandedOut, Routed, OwnStateOnOneRoute, Reading, Unread
  <2> QED BY <2>1, <2>2, <2>4, <2>5 DEF Inv, CallerInv
<1>2. Inv /\ [Next]_vars => Inv'
  <2> SUFFICES ASSUME Inv, [Next]_vars
               PROVE  Inv'
    OBVIOUS
  <2>1. CallerInv'
    BY CallersKeep DEF Inv
  <2>2. ASSUME NEW p \in Caller, Step(p)
        PROVE  Inv'
    BY <2>1, <2>2, StepKeepsLimiter DEF Inv
  <2>3. CASE UNCHANGED <<limiter, timer>> /\ \A q \in Caller : at'[q] = "asleep" => at[q] = "asleep"
    <3>1. UNCHANGED <<allowance, ago, pause, spent, quiet, timer>> /\ Available' = Available
      BY <2>3 DEF limiter, Available, Cap
    <3>2. LimiterInv'
      BY <3>1 DEF Inv, LimiterInv, LimiterTypeOK, Rate, PauseCovers, Cap
    <3>3. NoOversleep'
      BY <2>3, <3>1 DEF Inv, NoOversleep
    <3> QED BY <2>1, <3>2, <3>3 DEF Inv
  <2>4. CASE Tick
    <3>1. timer \in [Caller -> Nat]
      BY Names DEF Inv, CallerInv, CallerTypeOK
    <3>2. LimiterInv' /\ \A t \in Nat : MaySleep(t) => MaySleep(Down(t))'
      BY <2>4, ElapseKeeps DEF Inv, Tick
    <3>3. at' = at /\ \A q \in Caller : timer'[q] = Down(timer[q])
      BY <2>4 DEF Tick
    <3>4. NoOversleep'
      BY <3>1, <3>2, <3>3 DEF Inv, NoOversleep, MaySleep
    <3> QED BY <2>1, <3>2, <3>4 DEF Inv
  <2>5. CASE AskAgain
    <3>1. \A q \in Caller : at'[q] = "asleep" => at[q] = "asleep" /\ timer'[q] = timer[q]
      BY <2>5 DEF AskAgain, Inv, CallerInv, CallerTypeOK
    <3>2. CASE UNCHANGED limiter
      BY <2>3, <2>5, <3>1, <3>2 DEF AskAgain
    <3>3. CASE \E d \in Delays \cup {Quiet} : NoteBackoff(d)
      <4>1. Quiet \in Nat /\ Delays \subseteq Nat
        BY PacingAssumption, OverviewAssumption
      <4>2. LimiterInv' /\ \A t \in Nat : MaySleep(t) => MaySleep(t)'
        BY <3>3, <4>1, BackoffKeeps DEF Inv
      <4>3. timer' \in [Caller -> Nat]
        BY <2>5, Names DEF AskAgain, Inv, CallerInv, CallerTypeOK
      <4> QED BY <2>1, <3>1, <4>2, <4>3, Undisturbed DEF Inv, CallerInv
    <3> QED BY <2>5, <3>2, <3>3 DEF AskAgain
  <2>6. Listed \/ Collect \/ Interrupt \/ UNCHANGED vars =>
           UNCHANGED <<limiter, timer>> /\ \A q \in Caller : at'[q] = "asleep" => at[q] = "asleep"
    BY DEF Listed, Return, Collect, Interrupt, vars, callers, Inv, CallerInv, CallerTypeOK
  <2>7. \/ \E p \in Caller : Step(p)
        \/ AskAgain \/ Listed \/ Collect \/ Interrupt \/ UNCHANGED vars
        \/ Tick
    BY Names DEF Next, MainStep
  <2> QED BY <2>2, <2>3, <2>4, <2>5, <2>6, <2>7
<1> QED BY <1>1, <1>2, PTL DEF Spec

\* Every variable stays in its range, whatever the constants.
THEOREM TypeCorrect == Spec => []TypeOK
<1>1. Inv => TypeOK
  BY DEF Inv, LimiterInv, CallerInv, CallerTypeOK, TypeOK
<1> QED BY <1>1, Invariance, PTL

\* Pacing holds for any interval and burst, any number of workers, and stretches
\* of time of any length.
THEOREM Paced == Spec => []NeverTooFast
<1>1. Inv => NeverTooFast
  <2> SUFFICES ASSUME Inv, NEW a \in 0..Horizon
               PROVE  spent[a] * MinInterval <= Cap + a
    BY DEF NeverTooFast
  <2>1. spent[a] * MinInterval + Available <= Cap + a
    BY DEF Inv, LimiterInv, Rate
  <2>2. spent[a] * MinInterval \in Nat
    BY OneMore DEF Inv, LimiterInv, LimiterTypeOK
  <2>3. Available \in Nat /\ Cap + a \in Nat
    BY CapHolds, PacingAssumption DEF Inv, LimiterInv, LimiterTypeOK, Available, AtMost
  <2> DEFINE used == spent[a] * MinInterval
  <2> HIDE DEF used
  <2>4. used + Available <= Cap + a /\ used \in Nat
    BY <2>1, <2>2 DEF used
  <2>5. used <= Cap + a
    BY <2>3, <2>4
  <2> QED BY <2>5 DEF used
<1> QED BY <1>1, Invariance, PTL

\* No slot is taken while any pause asked for lasts, so that what leaves during one
\* had its slot before.
THEOREM QuietKept == Spec => QuietIsKept
<1>1. Inv /\ [Next]_vars =>
         [\A p \in Caller : HasSlot(p)' /\ ~HasSlot(p) => quiet = {}]_vars
  <2> SUFFICES ASSUME Inv, Next, NEW p \in Caller, HasSlot(p)', ~HasSlot(p)
               PROVE  quiet = {}
    OBVIOUS
  <2>1. at \in [Caller -> {"idle", "waiting", "asleep", "granted", "sent", "over"}]
    BY DEF Inv, CallerInv, CallerTypeOK
  <2>2. \E q \in Caller : Go(q)
    <3>1. ASSUME NEW q \in Caller, Step(q)
          PROVE  Go(q)
      BY <2>1, <3>1 DEF Step, Send, Sleep, Wake, Cancel, Answered, Incapable, Busy, Refused,
                        Hand, Leave, Fail, FallBack, Return, HasSlot
    <3>2. ~AskAgain /\ ~Listed /\ ~Collect /\ ~Interrupt /\ ~Tick
      BY <2>1 DEF AskAgain, Listed, Return, Collect, Interrupt, Tick, callers, HasSlot
    <3> QED BY <3>1, <3>2, Names DEF Next, MainStep
  <2>3. pause = 0
    BY <2>2 DEF Go, Reserve, Charge, Give
  <2>4. quiet \subseteq 1..MaxRetryAfter /\ \A q \in quiet : q <= 0
    BY <2>3 DEF Inv, LimiterInv, LimiterTypeOK, PauseCovers
  <2> QED BY <2>4, PacingAssumption
<1> QED BY <1>1, Invariance, PTL DEF Spec, QuietIsKept

\* No caller oversleeps, whatever the others do meanwhile.
THEOREM NobodyOversleeps == Spec => []NoOversleep
BY Invariance, PTL DEF Inv

\* Every item is accounted for in a report, with any number of workers.
THEOREM WholeReport == Spec => []ReportIsWhole
<1>1. Inv => ReportIsWhole
  <2> SUFFICES ASSUME Inv, stage = "done"
               PROVE  /\ \A i \in Item : result[i].got # "none"
                      /\ \A p \in Worker : at[p] = "over"
    BY DEF ReportIsWhole
  <2>1. \A p \in Worker : at[p] = "over" /\ ~Reading(p)
    BY DEF Inv, CallerInv, Places, Reading
  <2>2. \A i \in Item : i < next
    BY Names DEF Inv, CallerInv, CallerTypeOK, Places
  <2> QED BY <2>1, <2>2 DEF Inv, CallerInv, HandedOut
<1> QED BY <1>1, Invariance, PTL

\* With one route an assignment's state is its own, however it is numbered.
THEOREM OwnOnOneRoute == Spec => []OwnStateOnOneRoute
<1>1. Inv => OwnStateOnOneRoute
  BY DEF Inv, CallerInv
<1> QED BY <1>1, Invariance, PTL

=============================================================================
