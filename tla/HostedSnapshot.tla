--------------------------- MODULE HostedSnapshot ---------------------------
(***************************************************************************)
(* The data of a hosted report (report-site's worker and its two snapshot  *)
(* stores).  Every deployment of the report carries a reviewed seed and    *)
(* was packaged for one storage:                                           *)
(*   "inline"      rows in D1, replaced in place;                          *)
(*   "generation"  rows in D1, immutable, reached by pointers of a         *)
(*                 generation that a head row makes the live one;          *)
(*   "object"      the seed as an R2 object, and D1 pointers to the R2     *)
(*                 objects of the queries an owner has edited.             *)
(* Requests of several deployments, old and new, run at once against the   *)
(* same D1 and R2.  D1 executes one statement, or one batch, at a time,    *)
(* so an action below is one of those.  A Worker that is stopped between   *)
(* two of them is a request that takes no further step.                    *)
(*                                                                         *)
(* Rows are known by who wrote them: None for the reviewed seed, otherwise *)
(* the request of the edit, which names its revisions by fresh UUIDs.      *)
(* Row batches, byte budgets and JSON splicing are left out, and so are    *)
(* execution times, which are inserted with a revision and never change.   *)
(***************************************************************************)
EXTENDS Naturals, Sequences, FiniteSets

CONSTANTS
    Request,   \* the requests of the behaviour
    Query,     \* the reviewed queries
    Seed,      \* the fingerprints of the reviewed seeds
    Fleets,    \* the sets of deployments that may be serving together
    MaxEpoch,  \* generations created at most
    InFlight,  \* requests that run at once, at most
    None

Storage == {"inline", "generation", "object"}
Deployment == [seed : Seed, storage : Storage]

ASSUME SnapshotAssumption ==
    /\ Fleets \subseteq SUBSET Deployment
    /\ MaxEpoch \in Nat /\ InFlight \in Nat
    /\ None \notin Request \cup Seed

VARIABLES
    fleet,   \* the deployments that serve
    head,    \* head[s]: the seed and generation storage s has made current
    table,   \* table[s]: the snapshots s holds, by Key
    epochs,  \* generations created so far
    log,     \* log[s]: every content s has had, in order (history)
    req      \* req[r]: the state of a request

store == <<head, table, epochs, log>>
vars == <<fleet, store, req>>

NoHead == [seed |-> None, epoch |-> 0]
HeadRow == [seed : Seed, epoch : 1..MaxEpoch]
Key == Seed \cup {None} \cup (0..MaxEpoch)
Unedited == [rows |-> [q \in Query |-> None], stamp |-> None]
Snapshot == [rows : [Query -> Request \cup {None}], stamp : Request \cup {None}]

\* Object edits are kept by seed, the other storages keep theirs by generation.
KeyOf(s, h) == IF s = "object" THEN h.seed ELSE h.epoch
ContentOf(h, snapshot) ==
    [seed |-> h.seed, epoch |-> h.epoch, rows |-> snapshot.rows, stamp |-> snapshot.stamp]
Live(s) == table[s][KeyOf(s, head[s])]
Current(s) == ContentOf(head[s], Live(s))

Idle == [pc |-> "idle", kind |-> "read", dep |-> [seed |-> None, storage |-> "inline"],
         via |-> "inline", qs |-> {}, left |-> {}, base |-> NoHead, act |-> NoHead,
         own |-> 0, prev |-> [q \in Query |-> None], from |-> 0,
         got |-> ContentOf(NoHead, Unedited), res |-> "none"]

Init ==
    /\ fleet \in Fleets
    /\ head = [s \in Storage |-> NoHead]
    /\ table = [s \in Storage |-> [k \in Key |-> Unedited]]
    /\ epochs = 0
    /\ log = [s \in Storage |-> <<>>]
    /\ req = [r \in Request |-> Idle]

Goto(r, pc) == req' = [req EXCEPT ![r].pc = pc]

\* A refusal forgets the request; what was served or published is remembered.
Answer(r, res) == req' = [req EXCEPT ![r] = [Idle EXCEPT !.pc = "done", !.res = res]]
Serve(r, got) == req' = [req EXCEPT ![r] = [Idle EXCEPT
    !.pc = "done", !.res = "ok", !.kind = req[r].kind, !.dep = req[r].dep,
    !.via = req[r].via, !.from = req[r].from, !.got = got]]
Acknowledge(r, res) == req' = [req EXCEPT ![r] = [Idle EXCEPT
    !.pc = "done", !.res = res, !.kind = "edit", !.dep = req[r].dep,
    !.via = req[r].via, !.qs = req[r].qs, !.act = req[r].act, !.prev = req[r].prev]]

\* usesObjectSnapshot: whose tables hold data.
Populated(s) == head[s] # NoHead
LegacyData == Populated("generation") \/ Populated("inline")
ObjectEdits == \E s \in Seed, q \in Query : table["object"][s].rows[q] # None
Migrates == LegacyData /\ ObjectEdits
UsesObject == ~LegacyData

-----------------------------------------------------------------------------
(* Arrival *)

\* A deployment is asked for the snapshot, for rows it may serve lazily, or to
\* replace the rows of some queries.  An indexed one looks which storage holds data.
Begin(r, dep, kind, qs) ==
    LET via == IF dep.storage = "object" /\ ~UsesObject THEN "generation" ELSE dep.storage
    IN  /\ req[r].pc = "idle"
        /\ Cardinality({o \in Request : req[o].pc \notin {"idle", "done"}}) < InFlight
        /\ dep \in fleet
        /\ kind = "lazy" => dep.storage = "object"
        /\ qs # {} <=> kind = "edit"
        /\ IF dep.storage = "object" /\ Migrates THEN Answer(r, "failed")
           ELSE IF kind = "lazy" /\ ~UsesObject THEN Answer(r, "unsupported")
           ELSE req' = [req EXCEPT ![r] = [Idle EXCEPT
                  !.pc = "init", !.kind = kind, !.dep = dep, !.via = via,
                  !.qs = qs, !.left = qs, !.from = Len(log[via])]]
        /\ UNCHANGED <<fleet, store>>

\* The step after a request knows the active generation.
Ready(r) == CASE req[r].kind = "read" -> "capture"
              [] req[r].kind = "lazy" -> "unedited"
              [] OTHER -> IF req[r].via = "object" THEN "put" ELSE "exists"

Enter(r, h) == req' = [req EXCEPT
    ![r].act = h, ![r].base = NoHead, ![r].own = 0, ![r].pc = Ready(r)]

-----------------------------------------------------------------------------
(* initialize: make the deployment's seed the current one *)

ReadHead(r) ==
    LET s == req[r].via  h == head[s] IN
    /\ req[r].pc = "init"
    /\ IF h.seed = req[r].dep.seed
       THEN Enter(r, h)
       ELSE IF s = "generation" /\ h = NoHead /\ Populated("inline")
       THEN Answer(r, "failed")
       ELSE req' = [req EXCEPT ![r].base = h,
                               ![r].pc = IF s = "generation" THEN "stage" ELSE "activate"]
    /\ UNCHANGED <<fleet, store>>

\* The rows of a new generation are written before anything points to it.
StageSeed(r) ==
    /\ req[r].pc = "stage"
    /\ epochs < MaxEpoch
    /\ epochs' = epochs + 1
    /\ table' = [table EXCEPT !["generation"][epochs + 1] = Unedited]
    /\ req' = [req EXCEPT ![r].own = epochs + 1, ![r].pc = "activate"]
    /\ UNCHANGED <<fleet, head, log>>

\* The head moves only from the one this request read.
Unmoved(r, s) == head[s] = req[r].base

Adopt(r, s, h, snapshot) ==
    /\ head' = [head EXCEPT ![s] = h]
    /\ table' = [table EXCEPT ![s][KeyOf(s, h)] = snapshot]
    /\ log' = [log EXCEPT ![s] = Append(@, ContentOf(h, snapshot))]
    /\ Enter(r, h)
    /\ UNCHANGED fleet

Lose(r) == Goto(r, "winner") /\ UNCHANGED <<fleet, head, table, log>>

ActivateGeneration(r) ==
    /\ req[r].pc = "activate" /\ req[r].via = "generation"
    /\ IF Unmoved(r, "generation")
       THEN LET h == [seed |-> req[r].dep.seed, epoch |-> req[r].own]
            IN  Adopt(r, "generation", h, table["generation"][h.epoch])
       ELSE Lose(r)
    /\ UNCHANGED epochs

\* A seed that returns drops the edits it had, with the same transaction that
\* activates it; the very first activation keeps what it finds.
ActivateObject(r) ==
    /\ req[r].pc = "activate" /\ req[r].via = "object"
    /\ IF Unmoved(r, "object")
       THEN /\ epochs < MaxEpoch
            /\ epochs' = epochs + 1
            /\ LET h == [seed |-> req[r].dep.seed, epoch |-> epochs + 1]
               IN  Adopt(r, "object", h,
                         IF req[r].base = NoHead THEN table["object"][h.seed] ELSE Unedited)
       ELSE Lose(r) /\ UNCHANGED epochs

\* The inline storage rewrites its tables, whatever happened since it looked.
ActivateInline(r) ==
    /\ req[r].pc = "activate" /\ req[r].via = "inline"
    /\ epochs < MaxEpoch
    /\ epochs' = epochs + 1
    /\ Adopt(r, "inline", [seed |-> req[r].dep.seed, epoch |-> epochs + 1], Unedited)

\* Whoever lost the race goes on with a winner of its own seed only.
ReadWinner(r) ==
    LET h == head[req[r].via] IN
    /\ req[r].pc = "winner"
    /\ IF h.seed = req[r].dep.seed THEN Enter(r, h) ELSE Answer(r, "conflict")
    /\ UNCHANGED <<fleet, store>>

-----------------------------------------------------------------------------
(* Reading *)

\* One transaction reads the stamp and every pointer.
Capture(r) ==
    LET s == req[r].via  h == head[s] IN
    /\ req[r].pc = "capture"
    /\ IF \/ s = "inline"
          \/ s = "generation" /\ h.seed = req[r].dep.seed
          \/ s = "object" /\ h = req[r].act
       THEN req' = [req EXCEPT ![r].got = Current(s), ![r].pc = "stream"]
       ELSE Answer(r, "conflict")
    /\ UNCHANGED <<fleet, store>>

\* Mutant: the live pointers are followed while the body is streamed.
StreamedLive(r) == [req[r].got EXCEPT !.rows = Current(req[r].via).rows]

\* The body is streamed from the immutable rows the captured pointers name.
Streamed(r) == req[r].got
Stream(r) ==
    /\ req[r].pc = "stream"
    /\ Serve(r, Streamed(r))
    /\ UNCHANGED <<fleet, store>>

\* objectSnapshotIsUnedited: seed rows are served only while there is no edit.
ServeSeed(r) ==
    LET h == head["object"] IN
    /\ req[r].pc = "unedited"
    /\ IF h # req[r].act THEN Answer(r, "conflict")
       ELSE IF table["object"][h.seed] = Unedited
       THEN Serve(r, ContentOf(req[r].act, Unedited))
       ELSE Answer(r, "unsupported")
    /\ UNCHANGED <<fleet, store>>

-----------------------------------------------------------------------------
(* Editing *)

\* Mutant: the rows of every query are staged, not of those named.
ExistsAll(r) ==
    LET s == req[r].via IN
    /\ req[r].pc = "exists"
    /\ IF s = "generation" /\ head[s].seed # req[r].dep.seed
       THEN Answer(r, "missing")
       ELSE \E q \in req[r].left :
              req' = [req EXCEPT
                ![r].left = IF @ = {q} THEN Query ELSE @ \ {q},
                ![r].pc = IF req[r].left # {q} THEN "init"
                          ELSE IF s = "inline" THEN "overwrite" ELSE "head"]
    /\ UNCHANGED <<fleet, store>>

\* storedQueryExists, once per query; each call initializes again.
Exists(r) ==
    LET s == req[r].via IN
    /\ req[r].pc = "exists"
    /\ IF s = "generation" /\ head[s].seed # req[r].dep.seed
       THEN Answer(r, "missing")
       ELSE \E q \in req[r].left :
              req' = [req EXCEPT
                ![r].left = IF @ = {q} THEN req[r].qs ELSE @ \ {q},
                ![r].pc = IF req[r].left # {q} THEN "init"
                          ELSE IF s = "inline" THEN "overwrite" ELSE "head"]
    /\ UNCHANGED <<fleet, store>>

\* updateBoundedQueries looks at the head afresh.
ReadHeadForEdit(r) ==
    LET h == head["generation"] IN
    /\ req[r].pc = "head"
    /\ IF h.seed = req[r].dep.seed
       THEN req' = [req EXCEPT ![r].act = h, ![r].pc = "put"]
       ELSE Answer(r, "conflict")
    /\ UNCHANGED <<fleet, store>>

\* Per query: note the revision being replaced, then store the new rows.
StageRows(r) ==
    LET s == req[r].via IN
    /\ req[r].pc = "put"
    /\ \E q \in req[r].left :
         req' = [req EXCEPT
           ![r].prev[q] = table[s][KeyOf(s, req[r].act)].rows[q],
           ![r].left = @ \ {q},
           ![r].pc = IF req[r].left # {q} THEN "put"
                     ELSE IF s = "object" THEN "recheck" ELSE "publish"]
    /\ UNCHANGED <<fleet, store>>

\* The tables of another storage may have been filled since the request began.
Recheck(r) ==
    /\ req[r].pc = "recheck"
    /\ IF Migrates THEN Answer(r, "failed")
       ELSE IF UsesObject THEN Goto(r, "publish") ELSE Answer(r, "conflict")
    /\ UNCHANGED <<fleet, store>>

\* Mutant: only the generation is compared.
EligibleHead(r, s) == head[s].epoch = req[r].act.epoch

\* Every pointer must still be the one read, in the generation that was read.
Eligible(r, s) ==
    /\ head[s].epoch = req[r].act.epoch
    /\ \A q \in req[r].qs : table[s][KeyOf(s, req[r].act)].rows[q] = req[r].prev[q]

Edited(r, snapshot) ==
    [rows |-> [q \in Query |-> IF q \in req[r].qs THEN r ELSE snapshot.rows[q]], stamp |-> r]

Write(r, s) ==
    LET k == KeyOf(s, head[s])  new == Edited(r, table[s][k]) IN
    /\ table' = [table EXCEPT ![s][k] = new]
    /\ log' = [log EXCEPT ![s] = Append(@, ContentOf(head[s], new))]

\* Mutant: each statement of the batch compares its own pointer only.
PublishSome(r) ==
    LET s == req[r].via
        k == KeyOf(s, req[r].act)
        still == {q \in req[r].qs : table[s][k].rows[q] = req[r].prev[q]}
        new == [rows |-> [q \in Query |-> IF q \in still THEN r ELSE table[s][k].rows[q]],
                stamp |-> r]
    IN
    /\ req[r].pc = "publish"
    /\ IF head[s].epoch = req[r].act.epoch
       THEN /\ table' = [table EXCEPT ![s][k] = new]
            /\ log' = [log EXCEPT ![s] = Append(@, ContentOf(head[s], new))]
            /\ IF s = "object" THEN Goto(r, "verify") ELSE Acknowledge(r, "ok")
       ELSE Answer(r, "conflict") /\ UNCHANGED <<table, log>>
    /\ UNCHANGED <<fleet, head, epochs>>

\* One batch moves all the pointers and the stamp, or none of them.
Publish(r) ==
    LET s == req[r].via IN
    /\ req[r].pc = "publish"
    /\ IF Eligible(r, s)
       THEN /\ Write(r, s)
            /\ IF s = "object" THEN Goto(r, "verify") ELSE Acknowledge(r, "ok")
       ELSE Answer(r, "conflict") /\ UNCHANGED <<table, log>>
    /\ UNCHANGED <<fleet, head, epochs>>

\* An object edit is acknowledged only when no other storage holds data.
Verify(r) ==
    /\ req[r].pc = "verify"
    /\ Acknowledge(r, IF Migrates THEN "failed" ELSE "ok")
    /\ UNCHANGED <<fleet, store>>

\* updateStoredQueries replaces rows in place and compares nothing.
Overwrite(r) ==
    /\ req[r].pc = "overwrite"
    /\ Write(r, "inline")
    /\ Acknowledge(r, "ok")
    /\ UNCHANGED <<fleet, head, epochs>>

-----------------------------------------------------------------------------
Step(r) ==
    \/ ReadHead(r) \/ StageSeed(r) \/ ActivateGeneration(r) \/ ActivateObject(r)
    \/ ActivateInline(r) \/ ReadWinner(r) \/ Capture(r) \/ Stream(r) \/ ServeSeed(r)
    \/ Exists(r) \/ ReadHeadForEdit(r) \/ StageRows(r) \/ Recheck(r) \/ Publish(r)
    \/ Verify(r) \/ Overwrite(r)

Next == \E r \in Request :
    \/ \E dep \in fleet, kind \in {"read", "lazy", "edit"}, qs \in SUBSET Query :
          Begin(r, dep, kind, qs)
    \/ Step(r)

Spec == Init /\ [][Next]_vars

-----------------------------------------------------------------------------
(* Properties *)

Stage == {"idle", "init", "stage", "activate", "winner", "capture", "stream", "unedited",
          "exists", "head", "put", "recheck", "publish", "verify", "overwrite", "done"}
Result == {"none", "ok", "conflict", "failed", "missing", "unsupported"}
Content == [seed : Seed \cup {None}, epoch : 0..MaxEpoch,
            rows : [Query -> Request \cup {None}], stamp : Request \cup {None}]

\* The shape of the state: heads, tables and requests of data_app_*_v1 and _v2.
TypeOK ==
    /\ fleet \in Fleets
    /\ head \in [Storage -> HeadRow \cup {NoHead}]
    /\ table \in [Storage -> [Key -> Snapshot]]
    /\ epochs \in 0..MaxEpoch
    /\ log \in [Storage -> Seq(Content)]
    /\ \A r \in Request :
         /\ req[r].pc \in Stage
         /\ req[r].res \in Result
         /\ req[r].via \in Storage
         /\ req[r].qs \subseteq Query /\ req[r].left \subseteq req[r].qs
         /\ req[r].got \in Content

Replied(r) == req[r].pc = "done" /\ req[r].res = "ok"

\* A snapshot response (snapshotResponse, objectSnapshotResponse, query-rows) is
\* the whole of one content its storage had while the request ran: rows, stamp and
\* seed belong together however many edits were published during the stream, and
\* it is never older than the request.  A storage with revisions gives the data of
\* the deployment that answers, never of another that became current meanwhile.
ReadsOneState ==
    \A r \in Request : Replied(r) /\ req[r].kind # "edit" =>
        /\ \E k \in DOMAIN log[req[r].via] :
              k >= req[r].from /\ log[req[r].via][k] = req[r].got
        /\ req[r].via # "inline" => req[r].got.seed = req[r].dep.seed

Published(r) == \E s \in Storage : \E k \in DOMAIN log[s] : log[s][k].stamp = r

\* Two edits never replace the same rows: the second to publish has seen the first
\* (QUERY_REVISION_CONFLICT), in the storages that keep revisions.
NoLostEdit ==
    \A r1, r2 \in Request :
        /\ r1 # r2 /\ Published(r1) /\ Published(r2)
        /\ req[r1].via = req[r2].via /\ req[r1].via # "inline"
        /\ req[r1].act = req[r2].act
        => \A q \in req[r1].qs \cap req[r2].qs : req[r1].prev[q] # req[r2].prev[q]

\* What the contract knows of the requests whose data is in storage s.
AskedOf(s, n) == IF n.via = s THEN n.qs ELSE {}
Asked(s) == [r \in Request |-> AskedOf(s, req[r])]
ReadBy(s, n) == IF n.via = s THEN n.base.epoch ELSE 0
Looked(s) == [r \in Request |-> ReadBy(s, req[r])]
Applied(s) == {r \in Request : \E k \in DOMAIN log[s] : log[s][k].stamp = r}

\* The pointers of a storage with revisions keep the contract of a hosted snapshot:
\* a seed replaces only the generation its request has read, with a new one, and an
\* edit moves exactly the queries it was asked for, all at once, or none.
Generation == INSTANCE SnapshotContract WITH
    seed <- head["generation"].seed, epoch <- head["generation"].epoch,
    rows <- Live("generation").rows, stamp <- Live("generation").stamp,
    asked <- Asked("generation"), base <- Looked("generation"),
    applied <- Applied("generation")
Object == INSTANCE SnapshotContract WITH
    seed <- head["object"].seed, epoch <- head["object"].epoch,
    rows <- Live("object").rows, stamp <- Live("object").stamp,
    asked <- Asked("object"), base <- Looked("object"),
    applied <- Applied("object")

KeepsContract == Generation!CSpec /\ Object!CSpec
=============================================================================
