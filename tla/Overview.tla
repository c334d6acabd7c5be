------------------------------ MODULE Overview ------------------------------
(***************************************************************************)
(* `moodle assignment overview` (assignment.Service.Overview): a list of   *)
(* assignments is read, then the state of each of them by a pool of        *)
(* workers, every reading by the first route that can (site.Try), and      *)
(* every request through the client's one limiter.                         *)
(*                                                                         *)
(* The routes name an assignment by different numbers: the web service by  *)
(* the instance, a page by the course module.  Of what is read only this   *)
(* matters: which assignment it is about.                                  *)
(***************************************************************************)
EXTENDS Pacing

CONSTANTS
    N,        \* assignments listed
    Pool,     \* workers at most
    Number,   \* Number[r][i]: by which number route r knows assignment i
    Delays,   \* what a busy site asks for
    Requests  \* requests a list may take beyond the first

Item == 1..N
Worker == 1..AtMost(Pool, N)
Main == 0
Caller == Worker \cup {Main}
Route == {"ws", "html"}

ASSUME OverviewAssumption ==
    /\ N \in Nat
    /\ Pool \in Nat \ {0}
    /\ Number \in [Route -> [Item -> Nat]]
    /\ \A r \in Route, i, j \in Item : Number[r][i] = Number[r][j] => i = j
    /\ Delays \subseteq Nat
    /\ Requests \in Nat

VARIABLES
    offers,  \* the routes whose requirement the account's capabilities meet
    listed,  \* the route that answered with the list
    next,    \* the next item to hand to a worker
    stage,   \* where the command is
    at,      \* at[p]: where a caller is in its reading
    job,     \* job[p]: the item it reads
    route,   \* route[p]: the route it is trying
    timer,   \* timer[p]: how long it still sleeps
    more,    \* requests the list may still take
    result,  \* result[i]: what is known of item i
    ended    \* the command was interrupted

callers == <<at, job, route, timer>>
vars == <<limiter, offers, listed, next, stage, callers, more, result, ended>>

Unread == [got |-> "none", of |-> 0]
Failed(why) == [got |-> why, of |-> 0]
ReadOf(i) == [got |-> "read", of |-> i]
Failure == {"unavailable", "stopped"}

\* The routes are tried in this order.
First(routes) == IF "ws" \in routes THEN "ws" ELSE "html"
After(r) == IF r = "ws" THEN offers \ {"ws"} ELSE {}

\* With no route at all nothing is tried and the command fails.
Init ==
    /\ LimiterInit
    /\ offers \in (SUBSET Route) \ {{}}
    /\ listed = "none"
    /\ next = 1
    /\ stage = "listing"
    /\ at = [p \in Caller |-> IF p = Main THEN "waiting" ELSE "idle"]
    /\ job = [p \in Caller |-> 0]
    /\ route = [p \in Caller |-> First(offers)]
    /\ timer = [p \in Caller |-> 0]
    /\ more = Requests
    /\ result = [i \in Item |-> Unread]
    /\ ended = FALSE

-----------------------------------------------------------------------------
(* How a reading ends.                                                     *)

\* A worker goes on to the next job, whatever became of this one.
Return(p) == at' = [at EXCEPT ![p] = IF p = Main THEN "over" ELSE "idle"]

\* A list read from pages is given without its dates when the calendar, which is
\* asked last, fails.
WithoutDates ==
    /\ route[Main] = "html"
    /\ more < Requests
    /\ listed' = "html"
    /\ stage' = "reading"

\* A failed list ends the command, a failed status is kept with its item.
Fail(p, why) ==
    /\ IF p = Main
       THEN /\ WithoutDates \/ (stage' = "failed" /\ UNCHANGED listed)
            /\ UNCHANGED result
       ELSE /\ result' = [result EXCEPT ![job[p]] = Failed(why)]
            /\ UNCHANGED <<listed, stage>>
    /\ Return(p)
    /\ UNCHANGED route

\* The next route is asked, or there is none.
FallBack(p) ==
    IF After(route[p]) # {}
    THEN /\ route' = [route EXCEPT ![p] = First(After(route[p]))]
         /\ at' = [at EXCEPT ![p] = "waiting"]
         /\ UNCHANGED <<listed, stage, result>>
    ELSE Fail(p, "unavailable")

\* The assignments a route knows by the number the list gave item i.
Meant(r, i) == {j \in Item : Number[r][j] = Number[listed][i]}

\* A result kept with the item that is to be handed out next.
KeepAtNext(p, i) == result' = [result EXCEPT ![AtMost(N, next)] = ReadOf(i)]

Keep(p, i) == result' = [result EXCEPT ![job[p]] = ReadOf(i)]

-----------------------------------------------------------------------------
(* limiter.wait, around the limiter's own steps.                           *)

\* The slot is there, and the limiter is free for the others again.
Go(p) ==
    /\ at[p] = "waiting"
    /\ Reserve
    /\ at' = [at EXCEPT ![p] = "granted"]
    /\ UNCHANGED <<offers, listed, next, stage, job, route, timer, more, result, ended>>

\* The request leaves, some time after; none leaves for an interrupted command.
Send(p) ==
    /\ at[p] = "granted"
    /\ IF ended
       THEN Fail(p, "stopped")
       ELSE at' = [at EXCEPT ![p] = "sent"] /\ UNCHANGED <<listed, stage, route, result>>
    /\ UNCHANGED <<limiter, job, timer, more, next, offers, ended>>

Sleep(p) ==
    /\ at[p] = "waiting"
    /\ \E d \in 1..(MaxRetryAfter + MinInterval) :
          /\ Delay(d)
          /\ timer' = [timer EXCEPT ![p] = d]
    /\ at' = [at EXCEPT ![p] = "asleep"]
    /\ UNCHANGED <<offers, listed, next, stage, job, route, more, result, ended>>

\* The timer ends and everything is looked at again.
Wake(p) ==
    /\ at[p] = "asleep"
    /\ timer[p] = 0
    /\ at' = [at EXCEPT ![p] = "waiting"]
    /\ UNCHANGED <<limiter, offers, listed, next, stage, job, route, timer, more, result, ended>>

Cancel(p) ==
    /\ at[p] = "asleep"
    /\ ended
    /\ Fail(p, "stopped")
    /\ timer' = [timer EXCEPT ![p] = 0]
    /\ UNCHANGED <<limiter, offers, next, job, more, ended>>

-----------------------------------------------------------------------------
(* What the site answers.                                                  *)

\* A list may take several requests.  Pages named by course are read even where
\* the site is too busy to list the courses.
AskAgain ==
    /\ at[Main] = "sent"
    /\ more > 0
    /\ more' = more - 1
    /\ at' = [at EXCEPT ![Main] = "waiting"]
    /\ \/ UNCHANGED limiter
       \/ route[Main] = "html" /\ \E d \in Delays \cup {Quiet} : NoteBackoff(d)
    /\ UNCHANGED <<offers, listed, next, stage, job, route, timer, result, ended>>

Listed ==
    /\ at[Main] = "sent"
    /\ listed' = route[Main]
    /\ stage' = "reading"
    /\ Return(Main)
    /\ UNCHANGED <<limiter, offers, next, job, route, timer, more, result, ended>>

Answered(p) ==
    /\ p # Main
    /\ at[p] = "sent"
    /\ \E i \in Meant(route[p], job[p]) : Keep(p, i)
    /\ Return(p)
    /\ UNCHANGED <<limiter, offers, listed, next, stage, job, route, timer, more, ended>>

\* The route cannot do it, or its answer was not understood.
Incapable(p) ==
    /\ at[p] = "sent"
    /\ FallBack(p)
    /\ UNCHANGED <<limiter, offers, next, job, timer, more, ended>>

\* The site wants to be left alone for a while.  That is `unavailable` as well.
Busy(p) ==
    /\ at[p] = "sent"
    /\ \E d \in Delays \cup {Quiet} : NoteBackoff(d)
    /\ FallBack(p)
    /\ UNCHANGED <<offers, next, job, timer, more, ended>>

\* Any other refusal, a broken connection, an interrupt: no other route is asked.
Refused(p) ==
    /\ at[p] = "sent"
    /\ Fail(p, "stopped")
    /\ UNCHANGED <<limiter, offers, next, job, timer, more, ended>>

-----------------------------------------------------------------------------
(* The pool.                                                               *)

Hand(p) ==
    /\ p # Main
    /\ stage = "reading"
    /\ at[p] = "idle"
    /\ next <= N
    /\ next' = next + 1
    /\ job' = [job EXCEPT ![p] = next]
    /\ route' = [route EXCEPT ![p] = First(offers)]
    /\ at' = [at EXCEPT ![p] = "waiting"]
    /\ UNCHANGED <<limiter, offers, listed, stage, timer, more, result, ended>>

\* The channel is closed.
Leave(p) ==
    /\ p # Main
    /\ stage = "reading"
    /\ at[p] = "idle"
    /\ next > N
    /\ at' = [at EXCEPT ![p] = "over"]
    /\ UNCHANGED <<limiter, offers, listed, next, stage, job, route, timer, more, result, ended>>

\* The command waits for the jobs to be handed out only.
CollectEarly ==
    /\ stage = "reading"
    /\ next > N
    /\ stage' = "done"
    /\ UNCHANGED <<limiter, offers, listed, next, callers, more, result, ended>>

\* The command waits for all the workers.
Collect ==
    /\ stage = "reading"
    /\ next > N
    /\ \A p \in Worker : at[p] = "over"
    /\ stage' = "done"
    /\ UNCHANGED <<limiter, offers, listed, next, callers, more, result, ended>>

Interrupt ==
    /\ ~ended
    /\ ended' = TRUE
    /\ UNCHANGED <<limiter, offers, listed, next, stage, callers, more, result>>

Tick ==
    /\ Elapse
    /\ timer' = [p \in Caller |-> Down(timer[p])]
    /\ UNCHANGED <<offers, listed, next, stage, at, job, route, more, result, ended>>

Step(p) ==
    \/ Go(p) \/ Send(p) \/ Sleep(p) \/ Wake(p) \/ Cancel(p)
    \/ Answered(p) \/ Incapable(p) \/ Busy(p) \/ Refused(p)
    \/ Hand(p) \/ Leave(p)

MainStep == Step(Main) \/ AskAgain \/ Listed \/ Collect

Next ==
    \/ \E p \in Worker : Step(p)
    \/ MainStep
    \/ Interrupt
    \/ Tick

Spec == Init /\ [][Next]_vars

\* A reply or a broken connection follows every request, and time passes.
Fairness ==
    /\ \A p \in Worker : WF_vars(Step(p))
    /\ WF_vars(MainStep)
    /\ WF_vars(Tick)

FairSpec == Spec /\ Fairness

-----------------------------------------------------------------------------

TypeOK ==
    /\ LimiterTypeOK
    /\ offers \in (SUBSET Route) \ {{}}
    /\ listed \in Route \cup {"none"}
    /\ next \in 1..(N + 1)
    /\ stage \in {"listing", "reading", "done", "failed"}
    /\ at \in [Caller -> {"idle", "waiting", "asleep", "granted", "sent", "over"}]
    /\ job \in [Caller -> 0..N]
    /\ route \in [Caller -> Route]
    /\ timer \in [Caller -> 0..(MaxRetryAfter + MinInterval)]
    /\ more \in 0..Requests
    /\ result \in [Item -> [got : {"none", "read"} \cup Failure, of : 0..N]]
    /\ ended \in BOOLEAN

\* A caller that holds a slot for a request, which may have left or not.
HasSlot(p) == at[p] \in {"granted", "sent"}

\* No slot is taken while a pause the site asked for lasts, whoever was told of it,
\* however long the others asked for and whoever was asleep by then.  A request
\* may leave during a pause only with a slot taken before it was asked for.
QuietIsKept ==
    [][\A p \in Caller : HasSlot(p)' /\ ~HasSlot(p) => quiet = {}]_vars

\* A caller's timer is set from what the limiter held then and is not changed
\* when others take slots or a pause comes; still nobody sleeps past the moment
\* at which the limiter, as it is now, could have a slot for it.
NoOversleep ==
    \A p \in Caller :
        at[p] = "asleep" =>
            timer[p] <= pause \/ timer[p] <= MinInterval - Available

\* When the command reports, every item has been read or has its own failure, and
\* no reading is under way that would change the report.
ReportIsWhole ==
    stage = "done" =>
        /\ \A i \in Item : result[i].got # "none"
        /\ \A p \in Worker : at[p] = "over"

\* Where the account has one route only, what is shown beside an assignment is
\* that assignment's own state, whichever worker read it and in whatever order.
OwnStateOnOneRoute ==
    \A r \in Route : offers = {r} =>
        \A i \in Item : result[i].got = "read" => result[i].of = i

\* The command ends, however busy the site is: pauses end, slots come back, and
\* no worker waits for another one.
Termination == <>(stage \in {"done", "failed"})

=============================================================================
