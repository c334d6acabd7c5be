---------------------------- MODULE QueryLoading ----------------------------
(***************************************************************************)
(* How a hosted report gets the rows of its queries: the bootstrap that    *)
(* decides between loading everything and loading on demand                *)
(* (loadHostedSnapshot), the store that loads a query when a part of the   *)
(* page first needs it (createQueryDataStore), the boundaries that ask it  *)
(* (QueryDataBoundary), and the tool by which an owner replaces the rows   *)
(* of queries (update_data_app_query), which loads everything first.       *)
(*                                                                         *)
(* The worker is what the tab sees of it: the revision of each query, 0    *)
(* for the one deployed, and whether another deployment has replaced it.   *)
(* A callback of the browser runs to its end, so that each is one action.  *)
(***************************************************************************)
EXTENDS Naturals, Sequences, FiniteSets

CONSTANTS
    Order,      \* the queries, in the order they are listed
    Boundary,   \* parts of the page
    Wants,      \* Wants[b]: the queries a part needs
    Updater,    \* calls of the update tool
    Batch,      \* sets of queries an update replaces
    MaxActive,  \* loads at a time: 2
    MaxJobs,    \* loads begun in all
    MaxEdits,   \* edits of the server by others
    MaxFaults,  \* requests that fail
    None        \* no rows

Query == {Order[i] : i \in DOMAIN Order}
Caller == Boundary \cup Updater

ASSUME LoadingAssumption ==
    /\ Order \in Seq(Query) /\ \A i, j \in DOMAIN Order : Order[i] = Order[j] => i = j
    /\ Wants \in [Boundary -> SUBSET Query]
    /\ Boundary \cap Updater = {} /\ Batch \subseteq SUBSET Query
    /\ MaxActive \in Nat \ {0} /\ MaxJobs \in Nat /\ MaxEdits \in Nat /\ MaxFaults \in Nat
    /\ None \notin Nat

VARIABLES
    server,    \* [revision, moved]: revisions stored, another deployment
    mode,      \* of the tab: "loading", "full", "deferred", "eager", "failed", "closed"
    rows,      \* the revision of the rows shown, None before they are
    job,       \* entry.job: the load a query is waiting for, 0 for none
    error,     \* entry.error: "none", "changed", "failed"
    jobs,      \* every load begun: its query, how far it is, its promise
    queue,     \* loads that wait for a slot, numbered in the order they came
    active,    \* slots in use
    at,        \* what a caller is doing
    awaits,    \* the loads its call of ensure waits for
    edits,     \* what an updater replaces: the revisions it was answered with
    spent      \* [edits, faults]: bounds

store == <<rows, job, error, jobs, queue, active>>
callers == <<at, awaits, edits>>
vars == <<server, mode, store, callers, spent>>

Seed == 0
Loaded(q) == rows[q] # None

Init ==
    /\ server = [revision |-> [q \in Query |-> Seed], moved |-> FALSE]
    /\ mode = "loading"
    /\ rows = [q \in Query |-> None] /\ job = [q \in Query |-> 0]
    /\ error = [q \in Query |-> "none"]
    /\ jobs = <<>> /\ queue = {} /\ active = 0
    /\ at = [c \in Caller |-> "idle"] /\ awaits = [c \in Caller |-> {}]
    /\ edits = [u \in Updater |-> [q \in Query |-> None]]
    /\ spent = [edits |-> 0, faults |-> 0]

-----------------------------------------------------------------------------
(* The worker *)

Unedited == \A q \in Query : server.revision[q] = Seed
Bumped(Q) == [server EXCEPT !.revision = [q \in Query |-> IF q \in Q THEN @[q] + 1 ELSE @[q]]]

OtherEdits(q) ==
    /\ spent.edits < MaxEdits /\ mode \notin {"failed", "closed"}
    /\ spent' = [spent EXCEPT !.edits = @ + 1]
    /\ server' = Bumped({q})
    /\ UNCHANGED <<mode, store, callers>>
\* Once the page is loaded, another deployment is to it what an edit is.
Redeploy ==
    /\ ~server.moved /\ mode = "loading"
    /\ server' = [server EXCEPT !.moved = TRUE]
    /\ UNCHANGED <<mode, store, callers, spent>>

Fault ==
    /\ spent.faults < MaxFaults
    /\ spent' = [spent EXCEPT !.faults = @ + 1]

-----------------------------------------------------------------------------
(* loadHostedSnapshot *)

\* The head answers for a snapshot without edits, and it must be the deployment
\* this page was built for.
AskHead ==
    /\ mode = "loading"
    /\ mode' = IF ~Unedited THEN "full" ELSE IF server.moved THEN "failed" ELSE "deferred"
    /\ UNCHANGED <<server, store, callers, spent>>
\* An older worker knows no head, and everything is loaded.
NoHead ==
    /\ mode = "loading" /\ server.moved
    /\ mode' = "full"
    /\ UNCHANGED <<server, store, callers, spent>>
AskSnapshot ==
    /\ mode = "full"
    /\ mode' = "eager"
    /\ rows' = server.revision
    /\ UNCHANGED <<server, job, error, jobs, queue, active, callers, spent>>
BootstrapFails ==
    /\ mode \in {"loading", "full"}
    /\ Fault
    /\ mode' = "failed"
    /\ UNCHANGED <<server, store, callers>>

-----------------------------------------------------------------------------
(* createQueryDataStore *)

\* Mutant: every load in line starts.
SlotsWithoutEnd(busy) == MaxJobs
Slots(busy) == MaxActive - busy

\* Those of a line that have less than n before them.
Foremost(line, n) == {j \in line : Cardinality({i \in line : i < j}) < n}

\* drain: with the loads js, of which busy hold a slot, those first in line take the
\* slots left.  A load no query waits for any more is passed over.
Drain(js, line, busy) ==
    LET live == {j \in line : job'[js[j].query] = j}
        starts == IF mode' = "closed" THEN {} ELSE Foremost(live, Slots(busy))
    IN  /\ jobs' = [j \in DOMAIN js |-> IF j \in starts THEN [js[j] EXCEPT !.at = "asked"]
                                                         ELSE js[j]]
        /\ queue' = live \ starts
        /\ active' = busy + Cardinality(starts)

NewJob(q) == [query |-> q, at |-> "queued", reply |-> "none", promise |-> "pending"]

\* Mutant: a load under way is not shared.
BeginsAlone(q) == ~Loaded(q)
\* A load is begun for a query that is neither loaded nor being loaded.
Begins(q) == ~Loaded(q) /\ job[q] = 0

\* The loads of the queries new get the next numbers, in the order of the queries.
Place(q) == CHOOSE i \in DOMAIN Order : Order[i] = q
Number(new, q) == Len(jobs) + Cardinality({p \in new : Place(p) <= Place(q)})
WithLoads(new) == [j \in 1..(Len(jobs) + Cardinality(new)) |->
    IF j \in DOMAIN jobs THEN jobs[j] ELSE NewJob(CHOOSE q \in new : Number(new, q) = j)]

\* ensure: c waits for the loads of Q, those under way and those it begins.
Ensure(c, Q) ==
    LET new == {q \in Q : Begins(q)}
        next == WithLoads(new)
    IN  /\ Len(next) <= MaxJobs
        /\ job' = [q \in Query |-> IF q \in new THEN Number(new, q) ELSE job[q]]
        /\ error' = [q \in Query |-> IF q \in new THEN "none" ELSE error[q]]
        /\ at' = [at EXCEPT ![c] = "waiting"]
        /\ awaits' = [awaits EXCEPT ![c] = {job'[q] : q \in {p \in Q : ~Loaded(p)}}]
        /\ UNCHANGED <<server, mode, rows, edits, spent>>
        /\ Drain(next, queue \cup (DOMAIN next \ DOMAIN jobs), active)

\* /api/query-rows: the rows deployed, as long as nothing has been edited.
Reply(j) ==
    /\ jobs[j].at = "asked"
    /\ jobs' = [jobs EXCEPT ![j].at = "answered",
                            ![j].reply = IF Unedited /\ ~server.moved THEN "rows" ELSE "changed"]
    /\ UNCHANGED <<server, mode, rows, job, error, queue, active, callers, spent>>
\* The request fails, or its body is not the whole of the query's rows.
ReplyFails(j) ==
    /\ jobs[j].at = "asked"
    /\ Fault
    /\ jobs' = [jobs EXCEPT ![j].at = "answered", ![j].reply = "failed"]
    /\ UNCHANGED <<server, mode, rows, job, error, queue, active, callers>>

Current(j) == mode = "deferred" /\ job[jobs[j].query] = j
Settled(j, promise) ==
    [jobs EXCEPT ![j].at = "done", ![j].reply = "none", ![j].promise = promise]

\* The rest of run: an answer still waited for is taken, and the slot is given on.
TakeRows(j) ==
    LET q == jobs[j].query IN
    /\ jobs[j].at = "answered" /\ Current(j) /\ jobs[j].reply = "rows"
    /\ rows' = [rows EXCEPT ![q] = Seed]
    /\ job' = [job EXCEPT ![q] = 0]
    /\ error' = [error EXCEPT ![q] = "none"]
    /\ UNCHANGED <<server, mode, callers, spent>>
    /\ Drain(Settled(j, "resolved"), queue, active - 1)
\* Mutant: the slot of a failed load is freed and not given on.
TakeErrorKeepingSlot(j) ==
    LET q == jobs[j].query IN
    /\ jobs[j].at = "answered" /\ Current(j) /\ jobs[j].reply # "rows"
    /\ job' = [job EXCEPT ![q] = 0]
    /\ error' = [error EXCEPT ![q] = jobs[j].reply]
    /\ jobs' = Settled(j, "rejected") /\ active' = active - 1
    /\ UNCHANGED <<server, mode, rows, callers, spent, queue>>
TakeError(j) ==
    LET q == jobs[j].query IN
    /\ jobs[j].at = "answered" /\ Current(j) /\ jobs[j].reply # "rows"
    /\ job' = [job EXCEPT ![q] = 0]
    /\ error' = [error EXCEPT ![q] = jobs[j].reply]
    /\ UNCHANGED <<server, mode, rows, callers, spent>>
    /\ Drain(Settled(j, "rejected"), queue, active - 1)
PassOver(j) ==
    /\ jobs[j].at = "answered" /\ ~Current(j)
    /\ UNCHANGED <<server, mode, rows, job, error, callers, spent>>
    /\ Drain(Settled(j, jobs[j].promise), queue, active - 1)

\* dispose: the page is left.
Dispose ==
    /\ mode = "deferred"
    /\ mode' = "closed"
    /\ jobs' = [j \in DOMAIN jobs |-> IF job[jobs[j].query] = j
                                      THEN [jobs[j] EXCEPT !.promise = "rejected"] ELSE jobs[j]]
    /\ job' = [q \in Query |-> 0]
    /\ queue' = {}
    /\ UNCHANGED <<server, rows, error, active, callers, spent>>

-----------------------------------------------------------------------------
(* The callers *)

\* A part of the page is shown, or shown again, or asked to retry.
Ask(b) ==
    /\ mode = "deferred" /\ at[b] # "waiting"
    /\ \E q \in Wants[b] : ~Loaded(q)
    /\ Ensure(b, Wants[b])

\* update_data_app_query: with a store, everything is loaded first.
Update(u) ==
    /\ at[u] = "idle"
    /\ \/ mode = "deferred" /\ Ensure(u, Query)
       \/ /\ mode = "eager"
          /\ at' = [at EXCEPT ![u] = "ready"]
          /\ UNCHANGED <<server, mode, store, awaits, edits, spent>>

Promises(c) == {jobs[j].promise : j \in awaits[c]}

\* Mutant: the call goes on when every load has ended, well or not.
GoesOnSettled(c) == "pending" \notin Promises(c)
\* Promise.all: the first load that fails ends the call, and else the last.
GoesOn(c) == Promises(c) \subseteq {"resolved"}
Wake(c) ==
    /\ at[c] = "waiting"
    /\ GoesOn(c) \/ "rejected" \in Promises(c)
    /\ at' = [at EXCEPT ![c] = IF GoesOn(c) THEN "ready" ELSE "failed"]
    /\ awaits' = [awaits EXCEPT ![c] = {}]
    /\ UNCHANGED <<server, mode, store, edits, spent>>

\* PUT /api/queries replaces the rows of the queries Q together.
Put(u, Q) ==
    /\ at[u] = "ready"
    /\ server' = Bumped(Q)
    /\ edits' = [edits EXCEPT ![u] = [q \in Query |->
                    IF q \in Q THEN server.revision[q] + 1 ELSE None]]
    /\ at' = [at EXCEPT ![u] = "answered"]
    /\ UNCHANGED <<mode, store, awaits, spent>>
\* It fails, or it is carried out and its answer is lost.
PutFails(u, Q) ==
    /\ at[u] = "ready"
    /\ Fault
    /\ server' \in {server, Bumped(Q)}
    /\ at' = [at EXCEPT ![u] = "failed"]
    /\ UNCHANGED <<mode, store, awaits, edits>>

\* replace, of every query answered: a load still under way is detached and aborted,
\* and whoever waits for it goes on.
Apply(u) ==
    LET Replaced(q) == edits[u][q] # None IN
    /\ at[u] = "answered" /\ mode \in {"deferred", "eager"}
    /\ rows' = [q \in Query |-> IF Replaced(q) THEN edits[u][q] ELSE rows[q]]
    /\ job' = [q \in Query |-> IF Replaced(q) THEN 0 ELSE job[q]]
    /\ error' = [q \in Query |-> IF Replaced(q) THEN "none" ELSE error[q]]
    /\ at' = [at EXCEPT ![u] = "done"]
    /\ UNCHANGED <<server, mode, awaits, edits, spent>>
    /\ Drain([j \in DOMAIN jobs |-> IF Replaced(jobs[j].query) /\ job[jobs[j].query] = j
                                    THEN [jobs[j] EXCEPT !.promise = "resolved"] ELSE jobs[j]],
             queue, active)
\* The store of a page that was left takes no edits.
ApplyTooLate(u) ==
    /\ at[u] = "answered" /\ mode = "closed"
    /\ at' = [at EXCEPT ![u] = "failed"]
    /\ UNCHANGED <<server, mode, store, awaits, edits, spent>>

-----------------------------------------------------------------------------

Load(j) == Reply(j) \/ TakeRows(j) \/ TakeError(j) \/ PassOver(j)
Progress ==
    \/ AskHead \/ AskSnapshot
    \/ \E j \in DOMAIN jobs : Load(j)
    \/ \E c \in Caller : Wake(c)

Next ==
    \/ Progress
    \/ Redeploy \/ NoHead \/ BootstrapFails \/ Dispose
    \/ \E q \in Query : OtherEdits(q)
    \/ \E j \in DOMAIN jobs : ReplyFails(j)
    \/ \E b \in Boundary : Ask(b)
    \/ \E u \in Updater :
          \/ Update(u) \/ Apply(u) \/ ApplyTooLate(u)
          \/ \E Q \in Batch : Put(u, Q) \/ PutFails(u, Q)

Spec == Init /\ [][Next]_vars

\* A request is answered or fails, and promises run their callbacks.
FairSpec == Spec /\ WF_vars(Progress)

-----------------------------------------------------------------------------

JobShape(k) ==
    /\ k.query \in Query /\ k.at \in {"queued", "asked", "answered", "done"}
    /\ k.reply \in {"none", "rows", "changed", "failed"}
    /\ k.promise \in {"pending", "resolved", "rejected"}
InUse == {j \in DOMAIN jobs : jobs[j].at \in {"asked", "answered"}}

\* The variables keep their types, the slots counted are those in use and no more than
\* there are, and the load of a query is a load of it and still open.
TypeOK ==
    /\ server.revision \in [Query -> Nat] /\ server.moved \in BOOLEAN
    /\ mode \in {"loading", "full", "deferred", "eager", "failed", "closed"}
    /\ rows \in [Query -> Nat \cup {None}]
    /\ \A j \in DOMAIN jobs : JobShape(jobs[j])
    /\ active \in 0..MaxActive /\ active = Cardinality(InUse)
    /\ \A q \in Query : job[q] # 0 =>
          /\ job[q] \in DOMAIN jobs /\ jobs[job[q]].query = q /\ ~Loaded(q)
          /\ jobs[job[q]].promise = "pending" /\ jobs[job[q]].at # "done"
    /\ queue \subseteq {j \in DOMAIN jobs : jobs[j].at = "queued"}

\* "Shared queries are downloaded once and retained for later tabs" (async-data.md):
\* whoever asks, in whatever order and however often, a query is loaded again only
\* after its load has failed.
DownloadedOnce == \A q \in Query :
    Cardinality({j \in DOMAIN jobs : jobs[j].query = q /\ jobs[j].promise # "rejected"}) <= 1

\* "A failed load must not turn an edit into partial data" (use-data-app.js): an owner's
\* update is sent only by a tab that shows the rows of every query, whoever began to
\* load them and however the loads ended.
EditsWholeData == [][\A u \in Updater :
    at[u] # "ready" /\ at'[u] = "ready" => \A q \in Query : Loaded(q)]_vars

\* Every call of ensure ends, once its queries are there or one of them failed: no slot
\* is lost and no load left in line by failures, by answers of a page that was left or
\* by calls that share loads.
EnsureSettles == \A c \in Caller : at[c] = "waiting" ~> at[c] # "waiting"

=============================================================================
