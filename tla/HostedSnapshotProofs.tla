------------------------ MODULE HostedSnapshotProofs ------------------------
(***************************************************************************)
(* What HostedSnapshot keeps for any requests, queries, seeds and sets of  *)
(* deployments that serve together.                                        *)
(***************************************************************************)
EXTENDS HostedSnapshot, SequenceTheorems, TLAPS

\* A request, whatever it has come to.
Record == [pc : Stage, kind : {"read", "lazy", "edit"},
           dep : [seed : Seed \cup {None}, storage : Storage], via : Storage,
           qs : SUBSET Query, left : SUBSET Query,
           base : HeadRow \cup {NoHead}, act : HeadRow \cup {NoHead},
           own : 0..MaxEpoch, prev : [Query -> Request \cup {None}], from : Nat,
           got : Content, res : Result]

Types ==
    /\ fleet \in Fleets
    /\ head \in [Storage -> HeadRow \cup {NoHead}]
    /\ table \in [Storage -> [Key -> Snapshot]]
    /\ epochs \in 0..MaxEpoch
    /\ log \in [Storage -> Seq(Content)]
    /\ req \in [Request -> Record]

\* A request is past initialize: it has an active generation of its own seed.
Entered == {"capture", "stream", "unedited", "exists", "head", "put", "recheck", "publish",
            "verify", "overwrite"}

\* Where request n can be, given what it asks for and where its data is.
Placed(n) ==
    /\ n.left \subseteq n.qs
    /\ n.pc \notin {"idle", "done"} =>
          /\ n.dep \in Deployment /\ (n.qs # {} <=> n.kind = "edit")
          /\ n.kind = "lazy" => n.via = "object"
    /\ n.pc \in {"stage", "activate"} => n.base.seed # n.dep.seed
    /\ n.pc \in {"stage", "head"} => n.via = "generation"
    /\ n.pc \in {"unedited", "recheck", "verify"} => n.via = "object"
    /\ n.pc \in {"put", "publish"} => n.via # "inline"
    /\ n.pc = "overwrite" => n.via = "inline"
    /\ n.pc = "exists" => n.via # "object"
    /\ n.pc \in {"exists", "head", "put", "recheck", "publish", "verify", "overwrite"}
          => n.kind = "edit"
    /\ n.pc \in Entered => n.act \in HeadRow /\ n.act.seed = n.dep.seed

\* A generation written and not yet pointed to.
Staged(n) == n.pc = "activate" /\ n.via = "generation"

\* Some content of its storage, not older than the request, is what n was given.
Seen(n) ==
    /\ \E k \in DOMAIN log[n.via] : k >= n.from /\ log[n.via][k] = n.got
    /\ n.via # "inline" => n.got.seed = n.dep.seed

Given(n) == n.pc = "stream" \/ (n.pc = "done" /\ n.res = "ok" /\ n.kind # "edit")

Known(e) == e = None \/ Published(e)

\* How request n stands to the data.
Stands(n) ==
    /\ n.from <= Len(log[n.via])
    /\ n.act.epoch <= epochs
    /\ n.act # NoHead /\ n.act.epoch = head[n.via].epoch => n.act = head[n.via]
    /\ n.pc \in Entered => head[n.via] # NoHead
    /\ Given(n) => Seen(n)
    /\ Staged(n) => /\ n.own \in 1..epochs /\ \A s \in Storage : n.own # head[s].epoch
                    /\ table["generation"][n.own] = Unedited
    /\ \A q \in Query : Known(n.prev[q])

\* Generations are numbered once.
Apart ==
    /\ \A r, o \in Request : Staged(req[r]) /\ Staged(req[o]) /\ req[r].own = req[o].own => r = o
    /\ \A r, o \in Request : Staged(req[r]) => req[r].own # req[o].act.epoch

\* The log ends with what a storage holds, and all that it holds was published.
Told ==
    /\ \A s \in Storage : head[s].epoch <= epochs
    /\ \A s \in Storage : head[s] # NoHead =>
          Len(log[s]) >= 1 /\ log[s][Len(log[s])] = Current(s)
    /\ \A s \in Storage, k \in Key, q \in Query : Known(table[s][k].rows[q])
    /\ head["object"] = NoHead => \A k \in Key : table["object"][k] = Unedited

\* Who published has replaced what it read, for as long as its generation is live.
Replaced(r) ==
    req[r].via # "inline" /\ req[r].act = head[req[r].via] =>
        \A q \in req[r].qs : Live(req[r].via).rows[q] # req[r].prev[q]

Stamped ==
    \A r \in Request : Published(r) => req[r].pc \in {"verify", "done"} /\ Replaced(r)

Inv ==
    /\ Types
    /\ \A r \in Request : Placed(req[r]) /\ Stands(req[r])
    /\ Apart /\ Told /\ Stamped /\ NoLostEdit

-----------------------------------------------------------------------------
(* Data.                                                                   *)

LEMMA Heads ==
    /\ NoHead \notin HeadRow /\ NoHead.seed = None /\ NoHead.epoch = 0
    /\ \A h \in HeadRow : h.seed \in Seed /\ h.seed # None /\ h.epoch \in 1..MaxEpoch
    /\ \A h \in HeadRow \cup {NoHead} : h.epoch \in 0..MaxEpoch /\ h.seed \in Seed \cup {None}
BY SnapshotAssumption DEF NoHead, HeadRow

LEMMA Keys ==
    ASSUME NEW s \in Storage, NEW h \in HeadRow \cup {NoHead}
    PROVE  KeyOf(s, h) \in Key
BY Heads DEF KeyOf, Key

LEMMA UneditedTyped == Unedited \in Snapshot
BY DEF Unedited, Snapshot

LEMMA Contents ==
    ASSUME NEW h \in HeadRow \cup {NoHead}, NEW x \in Snapshot
    PROVE  /\ ContentOf(h, x) \in Content
           /\ ContentOf(h, x).seed = h.seed /\ ContentOf(h, x).epoch = h.epoch
           /\ ContentOf(h, x).rows = x.rows /\ ContentOf(h, x).stamp = x.stamp
BY Heads DEF ContentOf, Content, Snapshot

LEMMA LiveTyped ==
    ASSUME Types, NEW s \in Storage
    PROVE  /\ head[s] \in HeadRow \cup {NoHead} /\ KeyOf(s, head[s]) \in Key
           /\ Live(s) \in Snapshot /\ Current(s) \in Content
           /\ Current(s).seed = head[s].seed
<1>1. head[s] \in HeadRow \cup {NoHead}
    BY DEF Types
<1>2. KeyOf(s, head[s]) \in Key
    BY <1>1, Keys
<1>3. Live(s) \in Snapshot
    BY <1>2 DEF Types, Live
<1> QED
    BY <1>1, <1>2, <1>3, Contents DEF Current

LEMMA IdleTyped ==
    /\ Idle \in Record /\ Idle.qs = {} /\ Idle.left = {} /\ Idle.act = NoHead
    /\ Idle.from = 0 /\ Idle.prev = [q \in Query |-> None]
    /\ Idle.via = "inline" /\ Idle.kind = "read"
<1>1. ContentOf(NoHead, Unedited) \in Content
    BY Contents, UneditedTyped
<1>2. /\ "idle" \in Stage /\ "none" \in Result /\ "inline" \in Storage
      /\ 0 \in 0..MaxEpoch
    BY SnapshotAssumption DEF Stage, Result, Storage
<1> QED
    BY <1>1, <1>2 DEF Idle, Record

-----------------------------------------------------------------------------
(* Steps that leave the data alone.                                        *)

\* Who published stays as it was.
Continues(r, n) ==
    Published(r) => /\ n.pc \in {"verify", "done"} /\ n.via = req[r].via
                    /\ n.act = req[r].act /\ n.qs = req[r].qs /\ n.prev = req[r].prev

NoClash(n) == ~Staged(n) /\ \A o \in Request : Staged(req[o]) => req[o].own # n.act.epoch

LEMMA Local ==
    ASSUME Inv, NEW r \in Request, NEW n \in Record,
           req' = [req EXCEPT ![r] = n], UNCHANGED <<fleet, store>>,
           Placed(n), Stands(n), Continues(r, n), NoClash(n)
    PROVE  Inv'
<1>1. req \in [Request -> Record] /\ req'[r] = n /\ \A o \in Request \ {r} : req'[o] = req[o]
    BY DEF Inv, Types
<1>2. UNCHANGED <<fleet, head, table, epochs, log>>
    BY DEF store
<1>3. Types'
    BY <1>1, <1>2 DEF Inv, Types
<1>4. \A e : Published(e)' = Published(e)
    BY <1>2 DEF Published
<1>5. ASSUME NEW o \in Request PROVE Placed(req[o])' /\ Stands(req[o])'
  <2>1. Placed(req'[o]) /\ Stands(req'[o])
      BY <1>1 DEF Inv
  <2>2. Placed(req[o])'
      BY <2>1 DEF Placed
  <2>3. Stands(req[o])'
      BY <2>1, <1>2, <1>4 DEF Stands, Given, Seen, Known, Staged
  <2> QED
      BY <2>2, <2>3
<1>6. Apart'
  <2>1. ASSUME NEW o \in Request, Staged(req[o])' PROVE o # r /\ Staged(req[o])
      BY <2>1, <1>1 DEF NoClash, Staged
  <2> QED
      BY <2>1, <1>1 DEF Inv, Apart, NoClash
<1>7. Told'
    BY <1>2, <1>4 DEF Inv, Told, Known, Current, Live
<1>8. ASSUME NEW o \in Request, Published(o)'
      PROVE  /\ req'[o].pc \in {"verify", "done"} /\ req'[o].via = req[o].via
             /\ req'[o].act = req[o].act /\ req'[o].qs = req[o].qs /\ req'[o].prev = req[o].prev
  <2>1. Published(o)
      BY <1>8, <1>4
  <2>2. CASE o = r
      BY <2>1, <2>2, <1>1 DEF Continues
  <2>3. CASE o # r
      BY <2>1, <2>3, <1>1 DEF Inv, Stamped
  <2> QED
      BY <2>2, <2>3
<1>9. Stamped'
    BY <1>8, <1>2, <1>4 DEF Inv, Stamped, Replaced, Live
<1>10. NoLostEdit'
    BY <1>8, <1>4 DEF Inv, NoLostEdit
<1> QED
    BY <1>3, <1>5, <1>6, <1>7, <1>9, <1>10 DEF Inv

LEMMA Unpublished ==
    ASSUME Inv, NEW r \in Request, req[r].pc \notin {"verify", "done"}
    PROVE  ~Published(r)
BY DEF Inv, Stamped

LEMMA Numbered ==
    ASSUME Inv, NEW o \in Request, Staged(req[o])
    PROVE  req[o].own # 0 /\ \A s \in Storage : req[o].own # head[s].epoch
BY DEF Inv, Stands, Types

\* A refusal.
LEMMA Refuses ==
    ASSUME Inv, NEW r \in Request, NEW res \in Result \ {"ok"}, Answer(r, res),
           ~Published(r), UNCHANGED <<fleet, store>>
    PROVE  Inv'
<1> DEFINE n == [Idle EXCEPT !.pc = "done", !.res = res]
<1>1. /\ n \in Record /\ n.pc = "done" /\ n.res = res /\ n.qs = {} /\ n.left = {}
      /\ n.act = NoHead /\ n.from = 0 /\ n.via = "inline" /\ n.prev = [q \in Query |-> None]
  <2>1. "done" \in Stage
      BY DEF Stage
  <2> QED
      BY <2>1, IdleTyped DEF Record
<1>2. req' = [req EXCEPT ![r] = n]
    BY DEF Answer
<1> HIDE DEF n
<1>3. Placed(n)
    BY <1>1 DEF Placed, Entered
<1>4. Stands(n)
  <2>1. Len(log["inline"]) \in Nat /\ epochs \in Nat
      BY SnapshotAssumption DEF Inv, Types, Storage
  <2> QED
      BY <1>1, <2>1, Heads DEF Stands, Given, Staged, Known, Entered
<1>5. NoClash(n)
    BY <1>1, Numbered, Heads DEF NoClash, Staged
<1> QED
    BY <1>1, <1>2, <1>3, <1>4, <1>5, Local DEF Continues

\* A step further with the same generation.
LEMMA Moves ==
    ASSUME Inv, NEW r \in Request, NEW n \in Record,
           req' = [req EXCEPT ![r] = n], UNCHANGED <<fleet, store>>,
           ~Published(r), Placed(n), ~Staged(n), Given(n) => Seen(n),
           n.via = req[r].via, n.from = req[r].from,
           n.act \in {req[r].act, head[n.via], NoHead},
           n.pc \in Entered => head[n.via] # NoHead,
           \A q \in Query : Known(n.prev[q])
    PROVE  Inv'
<1>1. n.via \in Storage /\ head[n.via].epoch <= epochs
    BY DEF Record, Inv, Told
<1>2. Stands(req[r]) /\ Apart
    BY DEF Inv
<1>3. Stands(n)
    BY <1>1, <1>2, Heads, SnapshotAssumption DEF Stands, Inv, Types
<1>4. NoClash(n)
    BY <1>1, <1>2, Numbered, Heads DEF NoClash, Apart
<1> QED
    BY <1>3, <1>4, Local DEF Continues

LEMMA ReqTyped ==
    ASSUME Inv, NEW r \in Request
    PROVE  /\ req[r] \in Record /\ Placed(req[r]) /\ Stands(req[r])
           /\ req[r].via \in Storage /\ head[req[r].via] \in HeadRow \cup {NoHead}
           /\ \A q \in Query : Known(req[r].prev[q])
<1>1. req[r] \in Record /\ Placed(req[r]) /\ Stands(req[r])
    BY DEF Inv, Types
<1>2. req[r].via \in Storage
    BY <1>1 DEF Record
<1> QED
    BY <1>1, <1>2 DEF Inv, Types, Stands

\* Arrival at the active generation.
LEMMA Enters ==
    ASSUME Inv, NEW r \in Request, UNCHANGED <<fleet, store>>, Enter(r, head[req[r].via]),
           req[r].pc \in {"init", "winner"}, head[req[r].via].seed = req[r].dep.seed
    PROVE  Inv'
<1> DEFINE h == head[req[r].via]
           n == [req[r] EXCEPT !.act = h, !.base = NoHead, !.own = 0, !.pc = Ready(r)]
<1>1. req[r] \in Record /\ Placed(req[r]) /\ h \in HeadRow \cup {NoHead} /\ ~Published(r)
    BY ReqTyped, Unpublished
<1>2. req[r].dep \in Deployment /\ h \in HeadRow
    BY <1>1, Heads, SnapshotAssumption DEF Placed, Deployment
<1>3. /\ Ready(r) \in {"capture", "unedited", "put", "exists"}
      /\ Ready(r) = "unedited" => req[r].kind = "lazy"
      /\ Ready(r) \in {"put", "exists"} => req[r].kind = "edit"
      /\ Ready(r) = "put" <=> req[r].kind = "edit" /\ req[r].via = "object"
  <2>1. req[r].kind \in {"read", "lazy", "edit"}
      BY <1>1 DEF Record
  <2> QED
      BY <2>1 DEF Ready
<1>4. req' = [req EXCEPT ![r] = n]
    BY <1>1 DEF Enter, Inv, Types
<1>5. /\ n \in Record /\ n.pc = Ready(r) /\ n.act = h /\ n.via = req[r].via
      /\ n.from = req[r].from /\ n.prev = req[r].prev /\ n.kind = req[r].kind
      /\ n.qs = req[r].qs /\ n.left = req[r].left /\ n.dep = req[r].dep
  <2>1. Ready(r) \in Stage /\ 0 \in 0..MaxEpoch
      BY <1>3, SnapshotAssumption DEF Stage
  <2> QED
      BY <1>1, <1>2, <2>1 DEF Record
<1> HIDE DEF n
<1>6. Placed(n)
    BY <1>1, <1>2, <1>5, <1>3 DEF Placed, Entered
<1> QED
    BY <1>1, <1>2, <1>3, <1>4, <1>5, <1>6, ReqTyped, Moves, Heads DEF Staged, Given

LEMMA StepBegin ==
    ASSUME Inv, NEW r \in Request, NEW dep \in fleet, NEW kind \in {"read", "lazy", "edit"},
           NEW qs \in SUBSET Query, Begin(r, dep, kind, qs)
    PROVE  Inv'
<1> DEFINE via == IF dep.storage = "object" /\ ~UsesObject THEN "generation" ELSE dep.storage
           n == [Idle EXCEPT !.pc = "init", !.kind = kind, !.dep = dep, !.via = via,
                             !.qs = qs, !.left = qs, !.from = Len(log[via])]
<1>1. UNCHANGED <<fleet, store>> /\ ~Published(r)
    BY Unpublished DEF Begin
<1>2. ASSUME NEW res \in {"failed", "unsupported"}, Answer(r, res) PROVE Inv'
    BY <1>1, <1>2, Refuses DEF Result
<1>3. ASSUME kind = "lazy" => UsesObject, req' = [req EXCEPT ![r] = n] PROVE Inv'
  <2>1. dep \in Deployment
      BY SnapshotAssumption DEF Inv, Types
  <2>2. via \in Storage
      BY <2>1 DEF Deployment, Storage
  <2>3. Len(log[via]) \in Nat
      BY <2>2 DEF Inv, Types
  <2>4. kind = "lazy" => via = "object"
      BY <1>3 DEF Begin
  <2>5. qs # {} <=> kind = "edit"
      BY DEF Begin
  <2> HIDE DEF via
  <2>6. /\ n \in Record /\ n.pc = "init" /\ n.kind = kind /\ n.dep = dep /\ n.via = via
        /\ n.qs = qs /\ n.left = qs /\ n.from = Len(log[via]) /\ n.act = NoHead
        /\ n.prev = [q \in Query |-> None]
    <3>1. "init" \in Stage /\ dep \in [seed : Seed \cup {None}, storage : Storage]
        BY <2>1 DEF Stage, Deployment
    <3> QED
        BY <3>1, <2>2, <2>3, IdleTyped DEF Record
  <2> HIDE DEF n
  <2>7. Placed(n)
      BY <2>1, <2>4, <2>5, <2>6 DEF Placed, Entered
  <2>8. Stands(n)
      BY <2>2, <2>3, <2>6, Heads, SnapshotAssumption
      DEF Stands, Entered, Given, Staged, Known, Inv, Types
  <2>9. NoClash(n)
      BY <2>6, Numbered, Heads DEF NoClash, Staged
  <2> QED
      BY <1>1, <1>3, <2>6, <2>7, <2>8, <2>9, Local DEF Continues
<1> QED
    BY <1>2, <1>3 DEF Begin

LEMMA StepReadHead ==
    ASSUME Inv, NEW r \in Request, ReadHead(r)
    PROVE  Inv'
<1> DEFINE s == req[r].via  h == head[s]
           n == [req[r] EXCEPT !.base = h, !.pc = IF s = "generation" THEN "stage" ELSE "activate"]
<1>1. UNCHANGED <<fleet, store>> /\ ~Published(r) /\ req[r].pc = "init"
    BY Unpublished DEF ReadHead
<1>2. CASE h.seed = req[r].dep.seed
    BY <1>1, <1>2, Enters DEF ReadHead
<1>3. CASE Answer(r, "failed")
    BY <1>1, <1>3, Refuses DEF Result
<1>4. ASSUME h.seed # req[r].dep.seed, req' = [req EXCEPT ![r] = n] PROVE Inv'
  <2>1. /\ n \in Record /\ n.pc \in {"stage", "activate"} /\ (n.pc = "stage" <=> s = "generation")
        /\ n.base = h /\ n.kind = req[r].kind /\ n.dep = req[r].dep /\ n.via = s
        /\ n.qs = req[r].qs /\ n.left = req[r].left /\ n.from = req[r].from
        /\ n.act = req[r].act /\ n.prev = req[r].prev
    <3>1. "stage" \in Stage /\ "activate" \in Stage
        BY DEF Stage
    <3> QED
        BY <3>1, ReqTyped DEF Record
  <2> HIDE DEF n
  <2>2. Placed(n)
      BY <1>1, <1>4, <2>1, ReqTyped DEF Placed, Entered
  <2> QED
      BY <1>1, <1>4, <2>1, <2>2, ReqTyped, Moves DEF Staged, Given, Entered
<1>5. req[r] \in Record
    BY ReqTyped
<1>6. ASSUME req' = [req EXCEPT ![r].base = h,
                                ![r].pc = IF s = "generation" THEN "stage" ELSE "activate"]
      PROVE  req' = [req EXCEPT ![r] = n]
    BY <1>5, <1>6 DEF Inv, Types
<1> QED
    BY <1>2, <1>3, <1>4, <1>6 DEF ReadHead

LEMMA StepReadWinner ==
    ASSUME Inv, NEW r \in Request, ReadWinner(r)
    PROVE  Inv'
<1>1. UNCHANGED <<fleet, store>> /\ ~Published(r) /\ req[r].pc = "winner"
    BY Unpublished DEF ReadWinner
<1>2. CASE head[req[r].via].seed = req[r].dep.seed
    BY <1>1, <1>2, Enters DEF ReadWinner
<1>3. CASE head[req[r].via].seed # req[r].dep.seed
    BY <1>1, <1>3, Refuses DEF ReadWinner, Result
<1> QED
    BY <1>2, <1>3

\* The last content logged is what the storage holds.
LEMMA NowSeen ==
    ASSUME Inv, NEW s \in Storage, head[s] # NoHead, NEW from \in Nat, from <= Len(log[s])
    PROVE  \E k \in DOMAIN log[s] : k >= from /\ log[s][k] = Current(s)
<1>1. Len(log[s]) >= 1 /\ log[s][Len(log[s])] = Current(s) /\ log[s] \in Seq(Content)
    BY DEF Inv, Told, Types
<1>2. Len(log[s]) \in DOMAIN log[s] /\ Len(log[s]) \in Nat
    BY <1>1
<1> QED
    BY <1>1, <1>2

LEMMA StepCapture ==
    ASSUME Inv, NEW r \in Request, Capture(r)
    PROVE  Inv'
<1> DEFINE s == req[r].via  h == head[s]
           n == [req[r] EXCEPT !.got = Current(s), !.pc = "stream"]
<1>1. UNCHANGED <<fleet, store>> /\ ~Published(r) /\ req[r].pc = "capture"
    BY Unpublished DEF Capture
<1>2. CASE Answer(r, "conflict")
    BY <1>1, <1>2, Refuses DEF Result
<1>3. ASSUME s # "inline" => h.seed = req[r].dep.seed, req' = [req EXCEPT ![r] = n]
      PROVE  Inv'
  <2>1. req[r] \in Record /\ Placed(req[r]) /\ Stands(req[r]) /\ s \in Storage /\ h # NoHead
      BY <1>1, ReqTyped DEF Stands, Entered
  <2>2. Current(s) \in Content /\ Current(s).seed = h.seed
      BY <2>1, LiveTyped DEF Inv
  <2>3. /\ n \in Record /\ n.pc = "stream" /\ n.got = Current(s)
        /\ n.kind = req[r].kind /\ n.dep = req[r].dep /\ n.via = s
        /\ n.qs = req[r].qs /\ n.left = req[r].left /\ n.from = req[r].from
        /\ n.act = req[r].act /\ n.prev = req[r].prev
    <3>1. "stream" \in Stage
        BY DEF Stage
    <3> QED
        BY <3>1, <2>1, <2>2 DEF Record
  <2>4. \E k \in DOMAIN log[s] : k >= req[r].from /\ log[s][k] = Current(s)
      BY <2>1, NowSeen DEF Record, Stands
  <2> HIDE DEF n
  <2>5. Seen(n)
      BY <1>3, <2>2, <2>3, <2>4 DEF Seen
  <2>6. Placed(n)
      BY <1>1, <2>1, <2>3 DEF Placed, Entered
  <2> QED
      BY <1>1, <1>3, <2>1, <2>3, <2>5, <2>6, ReqTyped, Moves DEF Staged
<1>4. req[r].act \in HeadRow /\ req[r].act.seed = req[r].dep.seed /\ req[r] \in Record
    BY <1>1, ReqTyped DEF Placed, Entered
<1>5. ASSUME req' = [req EXCEPT ![r].got = Current(s), ![r].pc = "stream"]
      PROVE  req' = [req EXCEPT ![r] = n]
    BY <1>4, <1>5 DEF Inv, Types
<1>6. CASE ~Answer(r, "conflict")
  <2>1. s # "inline" => h.seed = req[r].dep.seed
      BY <1>4, <1>6 DEF Capture
  <2> QED
      BY <2>1, <1>3, <1>5, <1>6 DEF Capture
<1> QED
    BY <1>2, <1>6

\* What is served is remembered with what was asked.
LEMMA Serves ==
    ASSUME Inv, NEW r \in Request, UNCHANGED <<fleet, store>>, NEW got \in Content,
           req[r].pc \in {"stream", "unedited"}, Serve(r, got), Seen([req[r] EXCEPT !.got = got])
    PROVE  Inv'
<1> DEFINE n == [Idle EXCEPT !.pc = "done", !.res = "ok", !.kind = req[r].kind,
                             !.dep = req[r].dep, !.via = req[r].via, !.from = req[r].from,
                             !.got = got]
           m == [req[r] EXCEPT !.got = got]
<1>1. req[r] \in Record /\ ~Published(r)
    BY ReqTyped, Unpublished
<1>2. /\ n \in Record /\ n.pc = "done" /\ n.got = got
      /\ n.kind = req[r].kind /\ n.dep = req[r].dep /\ n.via = req[r].via
      /\ n.qs = {} /\ n.left = {} /\ n.from = req[r].from
      /\ n.act = NoHead /\ n.prev = [q \in Query |-> None]
  <2>1. "done" \in Stage /\ "ok" \in Result
      BY DEF Stage, Result
  <2> QED
      BY <2>1, <1>1, IdleTyped DEF Record
<1>3. m.got = got /\ m.dep = req[r].dep /\ m.via = req[r].via /\ m.from = req[r].from
    BY <1>1 DEF Record
<1>4. req' = [req EXCEPT ![r] = n]
    BY DEF Serve
<1> HIDE DEF n, m
<1>5. Seen(m)
    BY DEF m
<1>6. Seen(n)
    BY <1>5, <1>2, <1>3 DEF Seen
<1>7. Placed(n)
    BY <1>2 DEF Placed, Entered
<1>8. \A q \in Query : Known(n.prev[q])
    BY <1>2 DEF Known
<1> QED
    BY <1>1, <1>2, <1>4, <1>6, <1>7, <1>8, Moves DEF Staged, Entered

LEMMA StepStream ==
    ASSUME Inv, NEW r \in Request, Stream(r)
    PROVE  Inv'
<1> DEFINE m == [req[r] EXCEPT !.got = req[r].got]
<1>1. /\ UNCHANGED <<fleet, store>> /\ req[r].pc = "stream" /\ Serve(r, req[r].got)
      /\ req[r] \in Record /\ Stands(req[r])
    BY ReqTyped DEF Stream, Streamed
<1>2. m = req[r] /\ req[r].got \in Content
    BY <1>1 DEF Record
<1>3. Seen(req[r])
    BY <1>1 DEF Stands, Given
<1>4. Seen(m)
    BY <1>2, <1>3
<1> QED
    BY <1>1, <1>2, <1>4, Serves

LEMMA StepServeSeed ==
    ASSUME Inv, NEW r \in Request, ServeSeed(r)
    PROVE  Inv'
<1> DEFINE h == head["object"]  got == ContentOf(req[r].act, Unedited)
           m == [req[r] EXCEPT !.got = got]
<1>1. UNCHANGED <<fleet, store>> /\ ~Published(r) /\ req[r].pc = "unedited"
    BY Unpublished DEF ServeSeed
<1>2. CASE Answer(r, "conflict") \/ Answer(r, "unsupported")
    BY <1>1, <1>2, Refuses DEF Result
<1>3. ASSUME h = req[r].act, table["object"][h.seed] = Unedited, Serve(r, got) PROVE Inv'
  <2>1. /\ req[r] \in Record /\ Stands(req[r]) /\ req[r].via = "object"
        /\ req[r].act \in HeadRow /\ req[r].act.seed = req[r].dep.seed
        /\ h # NoHead /\ "object" \in Storage
      BY <1>1, ReqTyped DEF Placed, Stands, Entered, Storage
  <2>2. got \in Content /\ got.seed = req[r].dep.seed
      BY <2>1, Contents, UneditedTyped
  <2>3. got = Current("object")
      BY <1>3 DEF Current, Live, KeyOf
  <2>4. \E k \in DOMAIN log["object"] : k >= req[r].from /\ log["object"][k] = Current("object")
      BY <2>1, NowSeen DEF Record, Stands
  <2> HIDE DEF got
  <2>5. m.got = got /\ m.dep = req[r].dep /\ m.via = "object" /\ m.from = req[r].from
      BY <2>1, <2>2 DEF Record
  <2> HIDE DEF m
  <2>6. Seen(m)
      BY <2>2, <2>3, <2>4, <2>5 DEF Seen
  <2>7. Seen([req[r] EXCEPT !.got = got])
      BY <2>6 DEF m
  <2> QED
      BY <1>1, <1>3, <2>2, <2>7, Serves
<1> QED
    BY <1>2, <1>3 DEF ServeSeed

Worked(r, pc, left, act, prev) ==
    [req[r] EXCEPT !.pc = pc, !.left = left, !.act = act, !.prev = prev]

\* A step of an edit that neither asks for another seed nor writes.
CanWork(r, pc, left, act, prev) ==
    /\ req[r].pc \in {"exists", "head", "put", "recheck"}
    /\ pc \in {"init", "head", "put", "recheck", "publish", "overwrite"}
    /\ left \in SUBSET req[r].qs
    /\ act \in {req[r].act, head[req[r].via]} /\ act.seed = req[r].dep.seed
    /\ prev \in [Query -> Request \cup {None}] /\ \A q \in Query : Known(prev[q])
    /\ pc = "head" => req[r].via = "generation"
    /\ pc = "recheck" => req[r].via = "object"
    /\ pc \in {"put", "publish"} => req[r].via # "inline"
    /\ pc = "overwrite" => req[r].via = "inline"

LEMMA Works ==
    ASSUME Inv, NEW r \in Request, NEW pc, NEW left, NEW act, NEW prev,
           CanWork(r, pc, left, act, prev), UNCHANGED <<fleet, store>>,
           req' = [req EXCEPT ![r] = Worked(r, pc, left, act, prev)]
    PROVE  Inv'
<1> DEFINE n == [req[r] EXCEPT !.pc = pc, !.left = left, !.act = act, !.prev = prev]
<1>1. /\ req[r] \in Record /\ Placed(req[r]) /\ Stands(req[r]) /\ ~Published(r)
      /\ head[req[r].via] \in HeadRow
    BY ReqTyped, Unpublished DEF CanWork, Stands, Entered
<1>2. act \in HeadRow
    BY <1>1 DEF CanWork, Placed, Entered
<1>3. /\ n \in Record /\ n.pc = pc /\ n.left = left /\ n.act = act /\ n.prev = prev
      /\ n.kind = req[r].kind /\ n.dep = req[r].dep /\ n.via = req[r].via
      /\ n.qs = req[r].qs /\ n.from = req[r].from
  <2>1. pc \in Stage
      BY DEF CanWork, Stage
  <2>2. left \in SUBSET Query
      BY <1>1 DEF CanWork, Record
  <2> QED
      BY <2>1, <2>2, <1>1, <1>2 DEF CanWork, Record
<1>4. req' = [req EXCEPT ![r] = n]
    BY DEF Worked
<1> HIDE DEF n
<1>5. Placed(n)
    BY <1>1, <1>2, <1>3 DEF CanWork, Placed, Entered
<1> QED
    BY <1>1, <1>3, <1>4, <1>5, Moves, Heads DEF CanWork, Staged, Given

LEMMA StepExists ==
    ASSUME Inv, NEW r \in Request, Exists(r)
    PROVE  Inv'
<1> DEFINE s == req[r].via
<1>1. UNCHANGED <<fleet, store>> /\ ~Published(r) /\ req[r].pc = "exists"
    BY Unpublished DEF Exists
<1>2. CASE Answer(r, "missing")
    BY <1>1, <1>2, Refuses DEF Result
<1>3. CASE ~Answer(r, "missing")
  <2>1. PICK q \in req[r].left :
            req' = [req EXCEPT
              ![r].left = IF @ = {q} THEN req[r].qs ELSE @ \ {q},
              ![r].pc = IF req[r].left # {q} THEN "init"
                        ELSE IF s = "inline" THEN "overwrite" ELSE "head"]
      BY <1>3 DEF Exists
  <2> DEFINE left == IF req[r].left = {q} THEN req[r].qs ELSE req[r].left \ {q}
             pc == IF req[r].left # {q} THEN "init"
                   ELSE IF s = "inline" THEN "overwrite" ELSE "head"
  <2>2. req[r] \in Record /\ Placed(req[r]) /\ \A p \in Query : Known(req[r].prev[p])
      BY ReqTyped
  <2>3. /\ req[r].prev \in [Query -> Request \cup {None}] /\ left \in SUBSET req[r].qs
        /\ req[r].act.seed = req[r].dep.seed /\ s \in Storage
      BY <1>1, <2>2 DEF Record, Placed, Entered
  <2>4. req' = [req EXCEPT ![r] = Worked(r, pc, left, req[r].act, req[r].prev)]
      BY <2>1, <2>2 DEF Inv, Types, Record, Worked
  <2>5. s # "object"
      BY <1>1, <2>2 DEF Placed
  <2>6. /\ pc \in {"init", "overwrite", "head"}
        /\ pc = "head" => s = "generation"
        /\ pc = "overwrite" => s = "inline"
      BY <2>3, <2>5 DEF Storage
  <2> HIDE DEF left, pc
  <2>7. CanWork(r, pc, left, req[r].act, req[r].prev)
      BY <1>1, <2>2, <2>3, <2>6 DEF CanWork
  <2> QED
      BY <1>1, <2>4, <2>7, Works
<1> QED
    BY <1>2, <1>3

LEMMA StepReadHeadForEdit ==
    ASSUME Inv, NEW r \in Request, ReadHeadForEdit(r)
    PROVE  Inv'
<1> DEFINE h == head["generation"]
<1>1. UNCHANGED <<fleet, store>> /\ ~Published(r) /\ req[r].pc = "head"
    BY Unpublished DEF ReadHeadForEdit
<1>2. CASE Answer(r, "conflict")
    BY <1>1, <1>2, Refuses DEF Result
<1>3. CASE ~Answer(r, "conflict")
  <2>1. h.seed = req[r].dep.seed /\ req' = [req EXCEPT ![r].act = h, ![r].pc = "put"]
      BY <1>3 DEF ReadHeadForEdit
  <2>2. /\ req[r] \in Record /\ Placed(req[r]) /\ \A p \in Query : Known(req[r].prev[p])
        /\ req[r].via = "generation"
      BY <1>1, ReqTyped DEF Placed
  <2>3. /\ req[r].prev \in [Query -> Request \cup {None}] /\ req[r].left \in SUBSET req[r].qs
      BY <1>1, <2>2 DEF Record, Placed
  <2>4. req' = [req EXCEPT ![r] = Worked(r, "put", req[r].left, h, req[r].prev)]
      BY <2>1, <2>2 DEF Inv, Types, Record, Worked
  <2>5. CanWork(r, "put", req[r].left, h, req[r].prev)
      BY <1>1, <2>1, <2>2, <2>3 DEF CanWork
  <2> QED
      BY <1>1, <2>4, <2>5, Works
<1> QED
    BY <1>2, <1>3

LEMMA StepStageRows ==
    ASSUME Inv, NEW r \in Request, StageRows(r)
    PROVE  Inv'
<1> DEFINE s == req[r].via  rows == table[s][KeyOf(s, req[r].act)].rows
<1>1. UNCHANGED <<fleet, store>> /\ ~Published(r) /\ req[r].pc = "put"
    BY Unpublished DEF StageRows
<1>2. PICK q \in req[r].left :
         req' = [req EXCEPT
           ![r].prev[q] = rows[q],
           ![r].left = @ \ {q},
           ![r].pc = IF req[r].left # {q} THEN "put"
                     ELSE IF s = "object" THEN "recheck" ELSE "publish"]
    BY DEF StageRows
<1> DEFINE prev == [req[r].prev EXCEPT ![q] = rows[q]]
           pc == IF req[r].left # {q} THEN "put"
                 ELSE IF s = "object" THEN "recheck" ELSE "publish"
<1>3. /\ req[r] \in Record /\ Placed(req[r]) /\ \A p \in Query : Known(req[r].prev[p])
      /\ s # "inline" /\ s \in Storage
      /\ req[r].act \in HeadRow /\ req[r].act.seed = req[r].dep.seed
    BY <1>1, ReqTyped DEF Placed, Entered
<1>4. /\ req[r].prev \in [Query -> Request \cup {None}] /\ q \in Query
      /\ req[r].left \ {q} \in SUBSET req[r].qs
    BY <1>3 DEF Record, Placed
<1>5. rows \in [Query -> Request \cup {None}] /\ \A p \in Query : Known(rows[p])
    BY <1>3, Keys DEF Inv, Types, Told, Snapshot
<1>6. prev \in [Query -> Request \cup {None}] /\ \A p \in Query : Known(prev[p])
    BY <1>3, <1>4, <1>5
<1>7. req' = [req EXCEPT ![r] = Worked(r, pc, req[r].left \ {q}, req[r].act, prev)]
    BY <1>2, <1>3 DEF Inv, Types, Record, Worked
<1>8. pc \in {"put", "recheck", "publish"} /\ (pc = "recheck" => s = "object")
    OBVIOUS
<1> HIDE DEF prev, pc
<1>9. CanWork(r, pc, req[r].left \ {q}, req[r].act, prev)
    BY <1>1, <1>3, <1>4, <1>6, <1>8 DEF CanWork
<1> QED
    BY <1>1, <1>7, <1>9, Works

LEMMA StepRecheck ==
    ASSUME Inv, NEW r \in Request, Recheck(r)
    PROVE  Inv'
<1>1. UNCHANGED <<fleet, store>> /\ ~Published(r) /\ req[r].pc = "recheck"
    BY Unpublished DEF Recheck
<1>2. CASE Answer(r, "failed") \/ Answer(r, "conflict")
    BY <1>1, <1>2, Refuses DEF Result
<1>3. CASE Goto(r, "publish")
  <2>1. /\ req[r] \in Record /\ Placed(req[r]) /\ \A p \in Query : Known(req[r].prev[p])
        /\ req[r].via = "object" /\ req[r].act.seed = req[r].dep.seed
      BY <1>1, ReqTyped DEF Placed, Entered
  <2>2. /\ req[r].prev \in [Query -> Request \cup {None}] /\ req[r].left \in SUBSET req[r].qs
      BY <1>1, <2>1 DEF Record, Placed
  <2>3. req' = [req EXCEPT ![r] = Worked(r, "publish", req[r].left, req[r].act, req[r].prev)]
      BY <1>3, <2>1 DEF Goto, Inv, Types, Record, Worked
  <2>4. CanWork(r, "publish", req[r].left, req[r].act, req[r].prev)
      BY <1>1, <2>1, <2>2 DEF CanWork
  <2> QED
      BY <1>1, <2>3, <2>4, Works
<1> QED
    BY <1>2, <1>3 DEF Recheck

\* The answer to an edit remembers what was replaced.
Receipt(r, res) == [Idle EXCEPT !.pc = "done", !.res = res, !.kind = "edit", !.dep = req[r].dep,
                  !.via = req[r].via, !.qs = req[r].qs, !.act = req[r].act, !.prev = req[r].prev]

LEMMA Answered ==
    ASSUME Inv, NEW r \in Request, NEW res \in Result
    PROVE  LET n == Receipt(r, res) IN
           /\ n \in Record /\ n.pc = "done" /\ n.kind = "edit" /\ n.via = req[r].via
           /\ n.qs = req[r].qs /\ n.left = {} /\ n.act = req[r].act /\ n.prev = req[r].prev
           /\ n.from = 0
<1>1. req[r] \in Record
    BY ReqTyped
<1>2. "done" \in Stage
    BY DEF Stage
<1> QED
    BY <1>1, <1>2, IdleTyped DEF Receipt, Record

LEMMA StepVerify ==
    ASSUME Inv, NEW r \in Request, Verify(r)
    PROVE  Inv'
<1>1. UNCHANGED <<fleet, store>> /\ req[r].pc = "verify"
    BY DEF Verify
<1>2. PICK res \in Result : Acknowledge(r, res)
    BY DEF Verify, Result
<1> DEFINE n == Receipt(r, res)
<1>3. req' = [req EXCEPT ![r] = n]
    BY <1>2 DEF Acknowledge, Receipt
<1>4. /\ n \in Record /\ n.pc = "done" /\ n.kind = "edit" /\ n.via = req[r].via
      /\ n.qs = req[r].qs /\ n.left = {} /\ n.act = req[r].act /\ n.prev = req[r].prev
      /\ n.from = 0
    BY Answered
<1> HIDE DEF n
<1>5. Placed(n)
    BY <1>4 DEF Placed, Entered
<1>6. Stands(n)
  <2>1. Len(log[req[r].via]) \in Nat
      BY ReqTyped DEF Inv, Types
  <2> QED
      BY <1>4, <2>1, ReqTyped DEF Stands, Entered, Given, Staged
<1>7. NoClash(n) /\ Continues(r, n)
    BY <1>4 DEF NoClash, Staged, Inv, Apart, Continues
<1> QED
    BY <1>1, <1>3, <1>4, <1>5, <1>6, <1>7, Local

-----------------------------------------------------------------------------
(* Steps that change the data.                                             *)

Logged(s, c) == log' = [log EXCEPT ![s] = Append(@, c)]

LEMMA LogGrows ==
    ASSUME Types, NEW s \in Storage, NEW c \in Content, Logged(s, c)
    PROVE  /\ log' \in [Storage -> Seq(Content)]
           /\ \A t \in Storage : Len(log[t]) <= Len(log'[t])
           /\ Len(log'[s]) >= 1 /\ log'[s][Len(log'[s])] = c
           /\ \A t \in Storage \ {s} : log'[t] = log[t]
           /\ \A t \in Storage : \A k \in DOMAIN log[t] :
                 k \in DOMAIN log'[t] /\ log'[t][k] = log[t][k]
           /\ \A e : Published(e)' <=> Published(e) \/ e = c.stamp
<1>1. log \in [Storage -> Seq(Content)]
    BY DEF Types
<1>2. /\ log' \in [Storage -> Seq(Content)] /\ log'[s] = Append(log[s], c)
      /\ \A t \in Storage \ {s} : log'[t] = log[t]
    BY <1>1 DEF Logged
<1>3. /\ Len(log'[s]) = Len(log[s]) + 1 /\ log'[s][Len(log[s]) + 1] = c
      /\ \A k \in 1..Len(log[s]) : log'[s][k] = log[s][k]
      /\ DOMAIN log[s] = 1..Len(log[s]) /\ DOMAIN log'[s] = 1..(Len(log[s]) + 1)
      /\ Len(log[s]) \in Nat
    BY <1>1, <1>2
<1>4. \A t \in Storage : Len(log[t]) \in Nat
    BY <1>1
<1>5. ASSUME NEW e PROVE Published(e)' <=> Published(e) \/ e = c.stamp
  <2>1. ASSUME Published(e) PROVE Published(e)'
    <3>1. PICK t \in Storage : \E k \in DOMAIN log[t] : log[t][k].stamp = e
        BY <2>1 DEF Published
    <3>2. PICK k \in DOMAIN log[t] : log[t][k].stamp = e
        BY <3>1
    <3>3. k \in DOMAIN log'[t] /\ log'[t][k] = log[t][k]
        BY <3>2, <1>2, <1>3
    <3> QED
        BY <3>2, <3>3 DEF Published
  <2>2. CASE e = c.stamp
      BY <2>2, <1>3 DEF Published
  <2>3. ASSUME Published(e)' PROVE Published(e) \/ e = c.stamp
    <3>1. PICK t \in Storage : \E k \in DOMAIN log'[t] : log'[t][k].stamp = e
        BY <2>3 DEF Published
    <3>2. PICK k \in DOMAIN log'[t] : log'[t][k].stamp = e
        BY <3>1
    <3>3. CASE t # s
        BY <3>2, <3>3, <1>2 DEF Published
    <3>4. CASE t = s /\ k \in 1..Len(log[s])
        BY <3>2, <3>4, <1>3 DEF Published
    <3>5. CASE t = s /\ k = Len(log[s]) + 1
        BY <3>2, <3>5, <1>3
    <3> QED
        BY <3>2, <3>3, <3>4, <3>5, <1>3
  <2> QED
      BY <2>1, <2>2, <2>3
<1>6. \A t \in Storage : Len(log[t]) <= Len(log'[t])
    BY <1>2, <1>3, <1>4
<1>7. \A t \in Storage : \A k \in DOMAIN log[t] :
          k \in DOMAIN log'[t] /\ log'[t][k] = log[t][k]
  <2>1. \A k \in DOMAIN log[s] : k \in DOMAIN log'[s] /\ log'[s][k] = log[s][k]
      BY <1>3
  <2> QED
      BY <2>1, <1>2
<1>8. Len(log'[s]) >= 1 /\ log'[s][Len(log'[s])] = c
    BY <1>3
<1> QED
    BY <1>2, <1>5, <1>6, <1>7, <1>8

LEMMA SeenKept ==
    ASSUME Types, NEW s \in Storage, NEW c \in Content, Logged(s, c), NEW n \in Record
    PROVE  /\ Seen(n) => Seen(n)'
           /\ n.from <= Len(log[n.via]) => n.from <= Len(log'[n.via])
           /\ \A e : Known(e) => Known(e)'
<1>1. n.via \in Storage /\ n.from \in Nat
    BY DEF Record
<1>2. /\ log' \in [Storage -> Seq(Content)]
      /\ \A t \in Storage : Len(log[t]) <= Len(log'[t])
      /\ \A t \in Storage : \A k \in DOMAIN log[t] :
            k \in DOMAIN log'[t] /\ log'[t][k] = log[t][k]
      /\ \A e : Published(e) => Published(e)'
    BY LogGrows
<1>5. \A t \in Storage : Len(log[t]) \in Nat /\ Len(log'[t]) \in Nat
    BY <1>2 DEF Types
<1>3. Seen(n) => Seen(n)'
    BY <1>1, <1>2 DEF Seen
<1>4. n.from <= Len(log[n.via]) => n.from <= Len(log'[n.via])
    BY <1>1, <1>2, <1>5
<1> QED
    BY <1>2, <1>3, <1>4 DEF Known

LEMMA StepStageSeed ==
    ASSUME Inv, NEW r \in Request, StageSeed(r)
    PROVE  Inv'
<1> DEFINE e == epochs + 1
<1>1. /\ ~Published(r) /\ req[r].pc = "stage" /\ UNCHANGED <<fleet, head, log>>
      /\ epochs' = e /\ table' = [table EXCEPT !["generation"][e] = Unedited]
      /\ req[r] \in Record /\ Placed(req[r]) /\ Stands(req[r]) /\ req[r].via = "generation"
    BY Unpublished, ReqTyped DEF StageSeed, Placed
<1>2. epochs \in Nat /\ e \in 1..MaxEpoch /\ e \in Key
    BY SnapshotAssumption DEF StageSeed, Inv, Types, Key
<1>3. PICK n : n = [req[r] EXCEPT !.own = e, !.pc = "activate"]
    OBVIOUS
<1>4. /\ n \in Record /\ n.pc = "activate" /\ n.own = e /\ n.via = "generation"
      /\ n.kind = req[r].kind /\ n.dep = req[r].dep /\ n.base = req[r].base
      /\ n.qs = req[r].qs /\ n.left = req[r].left /\ n.from = req[r].from
      /\ n.act = req[r].act /\ n.prev = req[r].prev
  <2>1. "activate" \in Stage /\ e \in 0..MaxEpoch
      BY <1>2 DEF Stage
  <2> HIDE DEF e
  <2> QED
      BY <1>1, <1>3, <2>1 DEF Record
<1>5. /\ req' = [req EXCEPT ![r] = n] /\ req'[r] = n
      /\ \A o \in Request \ {r} : req'[o] = req[o]
    BY <1>1, <1>3 DEF StageSeed, Inv, Types
<1>6. /\ "generation" \in Storage /\ table' \in [Storage -> [Key -> Snapshot]]
      /\ table'["generation"][e] = Unedited
      /\ \A s \in Storage, k \in Key : s # "generation" \/ k # e => table'[s][k] = table[s][k]
    BY <1>1, <1>2, UneditedTyped DEF Inv, Types, Storage
<1>7. Types'
    BY <1>1, <1>2, <1>4, <1>5, <1>6 DEF Inv, Types
<1>8. \A x : Published(x)' = Published(x)
    BY <1>1 DEF Published
<1>9. \A s \in Storage : head[s].epoch <= epochs /\ head[s].epoch \in Nat /\ head[s].epoch # e
    BY <1>2, Heads DEF Inv, Told, Types
<1>10. ASSUME NEW m \in Record, Stands(m) PROVE Stands(m)'
  <2>1. /\ m.act.epoch \in Nat /\ m.act.epoch <= epochs'
        /\ Staged(m) => m.own \in 1..epochs /\ table["generation"][m.own] = Unedited
      BY <1>10, <1>1, <1>2, Heads DEF Stands, Record
  <2>2. Staged(m) => m.own \in 1..epochs' /\ table'["generation"][m.own] = Unedited
      BY <2>1, <1>1, <1>2, <1>6 DEF Key
  <2>3. Given(m) => Seen(m)'
      BY <1>10, <1>1 DEF Stands, Seen
  <2> QED
      BY <1>10, <2>1, <2>2, <2>3, <1>1, <1>8 DEF Stands, Known, Given, Staged
<1>11. Stands(n)'
  <2>1. req[r].act.epoch \in Nat
      BY <1>1, Heads DEF Record
  <2>2. ~Given(n) /\ n.own \in 1..epochs' /\ table'["generation"][n.own] = Unedited
      BY <1>1, <1>2, <1>4, <1>6 DEF Given
  <2> QED
      BY <2>1, <2>2, <1>1, <1>2, <1>4, <1>8, <1>9 DEF Stands, Entered, Known
<1>12. Placed(n)
    BY <1>1, <1>4 DEF Placed, Entered
<1>13. ASSUME NEW o \in Request PROVE Placed(req[o])' /\ Stands(req[o])'
  <2>1. PICK m \in Record : m = req'[o] /\ Placed(m) /\ Stands(m)'
    <3>1. CASE o = r
        BY <3>1, <1>4, <1>5, <1>11, <1>12
    <3>2. CASE o # r
        BY <3>2, <1>5, <1>10, ReqTyped
    <3> QED
        BY <3>1, <3>2
  <2>2. Placed(req[o])'
      BY <2>1 DEF Placed
  <2>3. Stands(req[o])'
      BY <2>1 DEF Stands, Given, Seen, Staged
  <2> QED
      BY <2>2, <2>3
<1>14. Apart'
  <2>1. ASSUME NEW o \in Request PROVE req[o].act.epoch # e /\ (Staged(req[o]) => req[o].own # e)
      BY <1>2, ReqTyped, Heads DEF Stands, Record
  <2>2. ASSUME NEW o \in Request
        PROVE  /\ req'[o].act = req[o].act
               /\ Staged(req[o])' => req'[o].own = IF o = r THEN e ELSE req[o].own
               /\ o # r => Staged(req[o])' = Staged(req[o])
      BY <1>4, <1>5 DEF Staged
  <2> QED
      BY <2>1, <2>2 DEF Inv, Apart
<1>15. Told'
  <2>1. \A s \in Storage : head[s] \in HeadRow \cup {NoHead} /\ KeyOf(s, head[s]) \in Key
      BY LiveTyped DEF Inv
  <2>2. \A s \in Storage : Live(s)' = Live(s)
      BY <2>1, <1>1, <1>6, <1>9 DEF Live, KeyOf
  <2>3. \A s \in Storage : Current(s)' = Current(s)
      BY <2>2, <1>1 DEF Current
  <2>4. \A s \in Storage, k \in Key, q \in Query : Known(table[s][k].rows[q])'
      BY <1>6, <1>8 DEF Inv, Told, Known, Unedited
  <2> QED
      BY <2>3, <2>4, <1>1, <1>2, <1>6, <1>9 DEF Inv, Told, Storage
<1>16. Stamped'
  <2>1. \A s \in Storage : Live(s)' = Live(s)
    <3>1. \A s \in Storage : head[s] \in HeadRow \cup {NoHead} /\ KeyOf(s, head[s]) \in Key
        BY LiveTyped DEF Inv
    <3> QED
        BY <3>1, <1>1, <1>6, <1>9 DEF Live, KeyOf
  <2>2. ASSUME NEW o \in Request, Published(o)'
        PROVE  req'[o] = req[o] /\ Published(o) /\ req[o].via \in Storage
      BY <2>2, <1>1, <1>5, <1>8, ReqTyped
  <2> QED
      BY <2>1, <2>2, <1>1 DEF Inv, Stamped, Replaced
<1>17. NoLostEdit'
    BY <1>1, <1>5, <1>8 DEF Inv, NoLostEdit
<1> QED
    BY <1>7, <1>13, <1>14, <1>15, <1>16, <1>17 DEF Inv

\* A generation number nobody has.
New(r, e) ==
    /\ \A s \in Storage : head[s].epoch # e
    /\ \A o \in Request : req[o].act.epoch # e
    /\ \A o \in Request \ {r} : Staged(req[o]) => req[o].own # e

\* A seed becomes the current one, with nothing on top.
LEMMA Adopts ==
    ASSUME Inv, NEW r \in Request, NEW s \in Storage, s = req[r].via,
           req[r].pc = "activate", NEW h \in HeadRow, h.seed = req[r].dep.seed,
           New(r, h.epoch), Adopt(r, s, h, Unedited),
           epochs' \in 0..MaxEpoch, epochs <= epochs', h.epoch <= epochs'
    PROVE  Inv'
<1> DEFINE k == KeyOf(s, h)
<1>0. PICK c : c = ContentOf(h, Unedited)
    OBVIOUS
<1>1. /\ ~Published(r) /\ req[r] \in Record /\ Placed(req[r]) /\ Stands(req[r])
    BY Unpublished, ReqTyped
<1>2. /\ k \in Key /\ c \in Content /\ c.stamp = None /\ h # NoHead
      /\ h.seed \in Seed /\ h.epoch \in 1..MaxEpoch
    BY <1>0, Keys, Contents, UneditedTyped, Heads DEF Unedited
<1>3. PICK n : n = [req[r] EXCEPT !.act = h, !.base = NoHead, !.own = 0, !.pc = Ready(r)]
    OBVIOUS
<1>4. /\ head' = [head EXCEPT ![s] = h] /\ table' = [table EXCEPT ![s][k] = Unedited]
      /\ Logged(s, c) /\ Enter(r, h) /\ fleet' = fleet
    BY <1>0 DEF Adopt, Logged
<1>5. /\ head' \in [Storage -> HeadRow \cup {NoHead}] /\ head'[s] = h
      /\ \A t \in Storage \ {s} : head'[t] = head[t]
    BY <1>4 DEF Inv, Types
<1>6. /\ table' \in [Storage -> [Key -> Snapshot]] /\ table'[s][k] = Unedited
      /\ \A t \in Storage, j \in Key : t # s \/ j # k => table'[t][j] = table[t][j]
    BY <1>2, <1>4, UneditedTyped DEF Inv, Types
<1>7. /\ log' \in [Storage -> Seq(Content)]
      /\ Len(log'[s]) >= 1 /\ log'[s][Len(log'[s])] = c
      /\ \A t \in Storage \ {s} : log'[t] = log[t]
      /\ \A e : Published(e)' <=> Published(e) \/ e = None
  <2>1. Types
      BY DEF Inv
  <2> QED
      BY <2>1, <1>2, <1>4, LogGrows
<1>8. \A o \in Request : Published(o)' <=> Published(o)
    BY <1>7, SnapshotAssumption
<1>9. \A e : Known(e) => Known(e)'
    BY <1>7 DEF Known
<1>10. /\ Ready(r) \in {"capture", "unedited", "put", "exists"}
       /\ Ready(r) = "unedited" => req[r].kind = "lazy"
       /\ Ready(r) \in {"put", "exists"} => req[r].kind = "edit"
       /\ Ready(r) = "put" <=> req[r].kind = "edit" /\ req[r].via = "object"
  <2>1. req[r].kind \in {"read", "lazy", "edit"}
      BY <1>1 DEF Record
  <2> QED
      BY <2>1 DEF Ready
<1>11. /\ n \in Record /\ n.pc = Ready(r) /\ n.act = h /\ n.via = s
       /\ n.from = req[r].from /\ n.prev = req[r].prev /\ n.kind = req[r].kind
       /\ n.qs = req[r].qs /\ n.left = req[r].left /\ n.dep = req[r].dep
  <2>1. Ready(r) \in Stage /\ 0 \in 0..MaxEpoch
      BY <1>10, SnapshotAssumption DEF Stage
  <2> QED
      BY <1>1, <1>3, <2>1 DEF Record
<1>12. /\ req' = [req EXCEPT ![r] = n] /\ req'[r] = n
       /\ \A o \in Request \ {r} : req'[o] = req[o]
    BY <1>1, <1>3, <1>4 DEF Enter, Inv, Types
<1>13. Types'
    BY <1>4, <1>5, <1>6, <1>7, <1>11, <1>12 DEF Inv, Types
<1>14. Placed(n)
  <2>1. req[r].dep \in Deployment
      BY <1>1 DEF Placed
  <2> QED
      BY <2>1, <1>1, <1>2, <1>10, <1>11 DEF Placed, Entered
<1>15. epochs \in Nat /\ epochs' \in Nat
    BY SnapshotAssumption DEF Inv, Types
<1>16. Stands(n)'
  <2>1. n.from <= Len(log'[n.via])
      BY <1>1, <1>2, <1>4, <1>11, SeenKept DEF Inv, Stands
  <2>2. ~Given(n) /\ ~Staged(n)
      BY <1>10, <1>11 DEF Given, Staged
  <2>3. \A q \in Query : Known(n.prev[q])'
      BY <1>1, <1>9, <1>11 DEF Stands
  <2>4. n.act = head'[n.via] /\ head'[n.via] # NoHead /\ n.act.epoch <= epochs'
      BY <1>2, <1>5, <1>11
  <2> QED
      BY <2>1, <2>2, <2>3, <2>4 DEF Stands, Given, Staged
<1>17. ASSUME NEW o \in Request \ {r}, NEW m \in Record, m = req[o] PROVE Stands(m)'
  <2>1. Stands(m) /\ m.via \in Storage /\ m.act.epoch \in Nat /\ m.act.epoch # h.epoch
      BY <1>17, ReqTyped, Heads DEF New, Record
  <2>2. m.from <= Len(log'[m.via]) /\ (Seen(m) => Seen(m)')
      BY <2>1, <1>2, <1>4, SeenKept DEF Inv, Stands
  <2>3. m.act # NoHead /\ m.act.epoch = head'[m.via].epoch => m.act = head'[m.via]
      BY <2>1, <1>5 DEF Stands
  <2>4. m.pc \in Entered => head'[m.via] # NoHead
      BY <2>1, <1>2, <1>5 DEF Stands
  <2>5. ASSUME Staged(m)
        PROVE  /\ m.own \in 1..epochs' /\ \A t \in Storage : m.own # head'[t].epoch
               /\ table'["generation"][m.own] = Unedited
    <3>1. m.own # h.epoch
        BY <1>17, <2>5 DEF New
    <3>2. /\ m.own \in 1..epochs /\ \A t \in Storage : m.own # head[t].epoch
          /\ table["generation"][m.own] = Unedited
        BY <2>1, <2>5 DEF Stands
    <3>3. m.own \in 1..epochs' /\ m.own \in Key /\ "generation" \in Storage
      <4>1. /\ m.own \in Nat /\ 1 <= m.own /\ m.own <= epochs'
            /\ epochs' <= MaxEpoch /\ MaxEpoch \in Nat
          BY <3>2, <1>15, SnapshotAssumption
      <4> QED
          BY <4>1, <1>15 DEF Key, Storage
    <3>4. \A t \in Storage : m.own # head'[t].epoch
        BY <3>1, <3>2, <1>5
    <3> QED
        BY <3>2, <3>3, <3>4, <1>6
  <2>6. \A q \in Query : Known(m.prev[q])'
      BY <2>1, <1>9 DEF Stands
  <2>7. m.act.epoch <= epochs'
      BY <2>1, <1>15 DEF Stands
  <2> QED
      BY <2>1, <2>2, <2>3, <2>4, <2>5, <2>6, <2>7 DEF Stands, Given, Staged
<1>18. ASSUME NEW o \in Request PROVE Placed(req[o])' /\ Stands(req[o])'
  <2>1. PICK m \in Record : m = req'[o] /\ Placed(m) /\ Stands(m)'
    <3>1. CASE o = r
        BY <3>1, <1>11, <1>12, <1>14, <1>16
    <3>2. CASE o # r
        BY <3>2, <1>12, <1>17, ReqTyped
    <3> QED
        BY <3>1, <3>2
  <2>2. Placed(req[o])'
      BY <2>1 DEF Placed
  <2>3. Stands(req[o])'
      BY <2>1 DEF Stands, Given, Seen, Staged
  <2> QED
      BY <2>2, <2>3
<1>19. Apart'
  <2>1. ASSUME NEW o \in Request, Staged(req[o])'
        PROVE  o # r /\ Staged(req[o]) /\ req'[o] = req[o] /\ req[o].own # h.epoch
      BY <2>1, <1>10, <1>11, <1>12 DEF Staged, New
  <2>2. \A o \in Request : req'[o].act = IF o = r THEN h ELSE req[o].act
      BY <1>11, <1>12
  <2> QED
      BY <2>1, <2>2 DEF Inv, Apart
<1>20. /\ Current(s)' = c /\ \A t \in Storage \ {s} : Live(t)' = Live(t) /\ Current(t)' = Current(t)
  <2>1. Current(s)' = c
      BY <1>0, <1>5, <1>6 DEF Current, Live
  <2>2. ASSUME NEW t \in Storage \ {s} PROVE Live(t)' = Live(t) /\ Current(t)' = Current(t)
    <3>1. KeyOf(t, head[t]) \in Key
        BY LiveTyped DEF Inv
    <3> QED
        BY <3>1, <1>5, <1>6 DEF Current, Live
  <2> QED
      BY <2>1, <2>2
<1>21. Told'
  <2>1. \A t \in Storage : head'[t].epoch <= epochs'
    <3>1. \A t \in Storage : head[t].epoch \in Nat /\ head[t].epoch <= epochs
        BY LiveTyped, Heads DEF Inv, Told
    <3> QED
        BY <3>1, <1>5, <1>15
  <2>2. \A t \in Storage : head'[t] # NoHead =>
          Len(log'[t]) >= 1 /\ log'[t][Len(log'[t])] = Current(t)'
      BY <1>5, <1>7, <1>20 DEF Inv, Told
  <2>3. \A t \in Storage, j \in Key, q \in Query : Known(table[t][j].rows[q])'
    <3>1. \A q \in Query : Unedited.rows[q] = None
        BY DEF Unedited
    <3>2. Known(None)'
        BY DEF Known
    <3>3. ASSUME NEW t \in Storage, NEW j \in Key, NEW q \in Query
          PROVE  Known(table[t][j].rows[q])'
      <4>1. Known(table[t][j].rows[q])
          BY DEF Inv, Told
      <4>2. CASE t # s \/ j # k
          BY <4>1, <4>2, <1>6, <1>9 DEF Known
      <4>3. CASE t = s /\ j = k
          BY <4>3, <3>1, <1>6 DEF Known
      <4> QED
          BY <4>2, <4>3
    <3> QED
        BY <3>3
  <2>4. head'["object"] = NoHead => \A j \in Key : table'["object"][j] = Unedited
      BY <1>2, <1>5, <1>6 DEF Inv, Told, Storage
  <2> QED
      BY <2>1, <2>2, <2>3, <2>4 DEF Told
<1>22. ASSUME NEW o \in Request, Published(o)'
       PROVE  Published(o) /\ o # r /\ req'[o] = req[o] /\ req[o].via \in Storage /\ req[o].act # h
  <2>1. Published(o) /\ o # r
      BY <1>22, <1>1, <1>8
  <2> QED
      BY <2>1, <1>12, ReqTyped DEF New
<1>23. Stamped'
    BY <1>5, <1>20, <1>22 DEF Inv, Stamped, Replaced
<1>24. NoLostEdit'
    BY <1>22 DEF Inv, NoLostEdit
<1> QED
    BY <1>13, <1>18, <1>19, <1>21, <1>23, <1>24 DEF Inv

LEMMA Loses ==
    ASSUME Inv, NEW r \in Request, req[r].pc = "activate", Lose(r), epochs' = epochs
    PROVE  Inv'
<1> DEFINE n == [req[r] EXCEPT !.pc = "winner"]
<1>1. UNCHANGED <<fleet, store>> /\ ~Published(r)
    BY Unpublished DEF Lose, store
<1>2. /\ req[r] \in Record /\ Placed(req[r]) /\ \A q \in Query : Known(req[r].prev[q])
    BY ReqTyped
<1>3. req' = [req EXCEPT ![r] = n]
    BY DEF Lose, Goto
<1>4. /\ n \in Record /\ n.pc = "winner" /\ n.via = req[r].via /\ n.from = req[r].from
      /\ n.act = req[r].act /\ n.prev = req[r].prev /\ n.kind = req[r].kind
      /\ n.qs = req[r].qs /\ n.left = req[r].left /\ n.dep = req[r].dep
  <2>1. "winner" \in Stage
      BY DEF Stage
  <2> QED
      BY <1>2, <2>1 DEF Record
<1> HIDE DEF n
<1>5. Placed(n)
    BY <1>2, <1>4 DEF Placed, Entered
<1> QED
    BY <1>1, <1>2, <1>3, <1>4, <1>5, Moves DEF Staged, Given, Entered

LEMMA StepActivateGeneration ==
    ASSUME Inv, NEW r \in Request, ActivateGeneration(r)
    PROVE  Inv'
<1>1. /\ req[r].pc = "activate" /\ req[r].via = "generation" /\ epochs' = epochs
      /\ "generation" \in Storage
    BY DEF ActivateGeneration, Storage
<1>2. CASE Unmoved(r, "generation")
  <2>1. PICK h : h = [seed |-> req[r].dep.seed, epoch |-> req[r].own]
      OBVIOUS
  <2>2. Adopt(r, "generation", h, table["generation"][h.epoch])
      BY <1>2, <2>1 DEF ActivateGeneration
  <2>3. /\ req[r].dep.seed \in Seed /\ req[r].own \in 1..epochs /\ epochs \in 0..MaxEpoch
        /\ table["generation"][req[r].own] = Unedited
    <3>1. Staged(req[r])
        BY <1>1 DEF Staged
    <3> QED
        BY <3>1, <1>1, ReqTyped DEF Placed, Stands, Deployment, Inv, Types
  <2>4. h \in HeadRow /\ h.seed = req[r].dep.seed /\ h.epoch = req[r].own
      BY <2>1, <2>3, SnapshotAssumption DEF HeadRow
  <2>5. New(r, h.epoch)
      BY <2>4, <1>1, Numbered DEF Inv, Apart, New, Staged
  <2>6. Adopt(r, "generation", h, Unedited)
      BY <2>2, <2>3, <2>4
  <2>7. epochs' \in 0..MaxEpoch /\ epochs <= epochs' /\ h.epoch <= epochs'
      BY <2>3, <2>4, <1>1, SnapshotAssumption
  <2> QED
      BY <2>4, <2>5, <2>6, <2>7, <1>1, Adopts
<1>3. CASE ~Unmoved(r, "generation")
    BY <1>1, <1>3, Loses DEF ActivateGeneration
<1> QED
    BY <1>2, <1>3

\* The number after the last is new.
LEMMA NextIsNew ==
    ASSUME Inv, NEW r \in Request
    PROVE  New(r, epochs + 1)
<1>1. epochs \in Nat
    BY SnapshotAssumption DEF Inv, Types
<1>2. \A s \in Storage : head[s].epoch \in Nat /\ head[s].epoch <= epochs
    BY LiveTyped, Heads DEF Inv, Told
<1>3. ASSUME NEW o \in Request
      PROVE  /\ req[o].act.epoch \in Nat /\ req[o].act.epoch <= epochs
             /\ Staged(req[o]) => req[o].own \in 1..epochs
    BY ReqTyped, Heads DEF Stands, Record
<1> QED
    BY <1>1, <1>2, <1>3 DEF New

LEMMA StepActivateObject ==
    ASSUME Inv, NEW r \in Request, ActivateObject(r)
    PROVE  Inv'
<1>1. req[r].pc = "activate" /\ req[r].via = "object" /\ "object" \in Storage
    BY DEF ActivateObject, Storage
<1>2. CASE Unmoved(r, "object")
  <2>1. PICK h : h = [seed |-> req[r].dep.seed, epoch |-> epochs + 1]
      OBVIOUS
  <2>2. /\ epochs < MaxEpoch /\ epochs' = epochs + 1
        /\ Adopt(r, "object", h, IF req[r].base = NoHead THEN table["object"][h.seed] ELSE Unedited)
      BY <1>2, <2>1 DEF ActivateObject
  <2>3. req[r].dep.seed \in Seed /\ epochs \in 0..MaxEpoch
      BY <1>1, ReqTyped DEF Placed, Deployment, Inv, Types
  <2>4. h \in HeadRow /\ h.seed = req[r].dep.seed /\ h.epoch = epochs + 1
      BY <2>1, <2>2, <2>3, SnapshotAssumption DEF HeadRow
  <2>5. req[r].base = NoHead => table["object"][h.seed] = Unedited
      BY <1>2, <2>3, <2>4 DEF Unmoved, Inv, Told, Key
  <2>6. Adopt(r, "object", h, Unedited)
      BY <2>2, <2>5
  <2>7. epochs' \in 0..MaxEpoch /\ epochs <= epochs' /\ h.epoch <= epochs'
      BY <2>2, <2>3, <2>4, SnapshotAssumption
  <2> QED
      BY <2>4, <2>6, <2>7, <1>1, Adopts, NextIsNew
<1>3. CASE ~Unmoved(r, "object")
    BY <1>1, <1>3, Loses DEF ActivateObject
<1> QED
    BY <1>2, <1>3

LEMMA StepActivateInline ==
    ASSUME Inv, NEW r \in Request, ActivateInline(r)
    PROVE  Inv'
<1>1. req[r].pc = "activate" /\ req[r].via = "inline" /\ "inline" \in Storage
    BY DEF ActivateInline, Storage
<1>2. PICK h : h = [seed |-> req[r].dep.seed, epoch |-> epochs + 1]
    OBVIOUS
<1>3. epochs < MaxEpoch /\ epochs' = epochs + 1 /\ Adopt(r, "inline", h, Unedited)
    BY <1>2 DEF ActivateInline
<1>4. req[r].dep.seed \in Seed /\ epochs \in 0..MaxEpoch
    BY <1>1, ReqTyped DEF Placed, Deployment, Inv, Types
<1>5. h \in HeadRow /\ h.seed = req[r].dep.seed /\ h.epoch = epochs + 1
    BY <1>2, <1>3, <1>4, SnapshotAssumption DEF HeadRow
<1>6. epochs' \in 0..MaxEpoch /\ epochs <= epochs' /\ h.epoch <= epochs'
    BY <1>3, <1>4, <1>5, SnapshotAssumption
<1> QED
    BY <1>1, <1>3, <1>5, <1>6, Adopts, NextIsNew

\* Request r goes on as n, and is where a request that published may be.
Publisher(r, n) ==
    /\ n.pc \in {"verify", "done"} /\ n.kind = "edit" /\ n.via = req[r].via
    /\ n.qs = req[r].qs /\ n.left \subseteq n.qs /\ n.act = req[r].act /\ n.prev = req[r].prev
    /\ n.from <= req[r].from
    /\ n.pc = "verify" => n.via = "object" /\ n.dep = req[r].dep

\* An edit is published: of the storages with revisions, on top of what it read.
LEMMA Writes ==
    ASSUME Inv, NEW r \in Request, NEW s \in Storage, s = req[r].via,
           req[r].pc \in {"publish", "overwrite"}, Write(r, s),
           s # "inline" => Eligible(r, s),
           NEW n \in Record, Publisher(r, n), req' = [req EXCEPT ![r] = n],
           UNCHANGED <<fleet, head, epochs>>
    PROVE  Inv'
<1> DEFINE k == KeyOf(s, head[s])  old == table[s][k]  new == Edited(r, old)
<1>0. PICK c : c = ContentOf(head[s], new)
    OBVIOUS
<1>1. /\ ~Published(r) /\ req[r] \in Record /\ Placed(req[r]) /\ Stands(req[r])
      /\ head[s] \in HeadRow /\ k \in Key
    BY Unpublished, ReqTyped, Keys DEF Stands, Entered
<1>2. old \in Snapshot /\ old = Live(s)
    BY <1>1 DEF Inv, Types, Live
<1>3. /\ new \in Snapshot /\ new.stamp = r
      /\ \A q \in Query : new.rows[q] = IF q \in req[r].qs THEN r ELSE old.rows[q]
    BY <1>2 DEF Edited, Snapshot
<1>4. /\ c \in Content /\ c.stamp = r
    BY <1>0, <1>1, <1>3, Contents
<1>5. table' = [table EXCEPT ![s][k] = new] /\ Logged(s, c)
    BY <1>0 DEF Write, Logged
<1> HIDE DEF old, new, k
<1>6. /\ table' \in [Storage -> [Key -> Snapshot]] /\ table'[s][k] = new
      /\ \A t \in Storage, j \in Key : t # s \/ j # k => table'[t][j] = table[t][j]
    BY <1>1, <1>3, <1>5 DEF Inv, Types
<1>7. /\ log' \in [Storage -> Seq(Content)]
      /\ Len(log'[s]) >= 1 /\ log'[s][Len(log'[s])] = c
      /\ \A t \in Storage \ {s} : log'[t] = log[t]
      /\ \A e : Published(e)' <=> Published(e) \/ e = r
  <2>1. Types
      BY DEF Inv
  <2> QED
      BY <2>1, <1>4, <1>5, LogGrows
<1>8. \A e : Known(e) => Known(e)'
    BY <1>7 DEF Known
<1>9. req'[r] = n /\ \A o \in Request \ {r} : req'[o] = req[o]
    BY DEF Inv, Types
<1>10. Types'
    BY <1>6, <1>7 DEF Inv, Types
<1>11. Placed(n)
    BY <1>1 DEF Publisher, Placed, Entered
<1>12. n.via = s /\ n.act = req[r].act /\ n.prev = req[r].prev /\ n.qs = req[r].qs
    BY DEF Publisher
<1>13. s = "generation" => k = head[s].epoch
    BY DEF k, KeyOf
<1>14. ASSUME NEW o \in Request, NEW m \in Record, m = req[o] PROVE Stands(m)'
  <2>1. Stands(m) /\ m.via \in Storage
      BY <1>14, ReqTyped
  <2>2. m.from <= Len(log'[m.via]) /\ (Seen(m) => Seen(m)')
      BY <2>1, <1>4, <1>5, SeenKept DEF Inv, Stands
  <2>3. ASSUME Staged(m) PROVE table'["generation"][m.own] = Unedited
    <3>1. /\ m.own \in 1..epochs /\ m.own # head["generation"].epoch /\ "generation" \in Storage
          /\ table["generation"][m.own] = Unedited
        BY <2>1, <2>3 DEF Stands, Storage
    <3>2. m.own \in Key
        BY <3>1, SnapshotAssumption DEF Key, Inv, Types
    <3> QED
        BY <3>1, <3>2, <1>6, <1>13
  <2>4. \A q \in Query : Known(m.prev[q])'
      BY <2>1, <1>8 DEF Stands
  <2> QED
      BY <2>1, <2>2, <2>3, <2>4 DEF Stands, Given, Staged
<1>15. Stands(n)'
  <2>1. PICK m \in Record : m = req[r]
      BY <1>1
  <2>2. Stands(m)'
      BY <2>1, <1>14
  <2>3. n.from \in Nat /\ m.from \in Nat /\ n.from <= m.from /\ Len(log'[s]) \in Nat
      BY <2>1, <1>7 DEF Publisher, Record
  <2>4. n.from <= Len(log'[n.via])
      BY <2>1, <2>2, <2>3, <1>12 DEF Stands
  <2>5. ~Given(n) /\ ~Staged(n)
      BY DEF Publisher, Given, Staged
  <2>6. head'[n.via] # NoHead
      BY <1>1, <1>12, Heads
  <2> QED
      BY <2>1, <2>2, <2>4, <2>5, <2>6, <1>12 DEF Stands, Given, Staged
<1>16. ASSUME NEW o \in Request PROVE Placed(req[o])' /\ Stands(req[o])'
  <2>1. PICK m \in Record : m = req'[o] /\ Placed(m) /\ Stands(m)'
    <3>1. CASE o = r
        BY <3>1, <1>9, <1>11, <1>15
    <3>2. CASE o # r
        BY <3>2, <1>9, <1>14, ReqTyped
    <3> QED
        BY <3>1, <3>2
  <2>2. Placed(req[o])'
      BY <2>1 DEF Placed
  <2>3. Stands(req[o])'
      BY <2>1 DEF Stands, Given, Seen, Staged
  <2> QED
      BY <2>2, <2>3
<1>17. Apart'
  <2>1. ASSUME NEW o \in Request
        PROVE req'[o].act = req[o].act /\ (Staged(req[o])' => o # r /\ Staged(req[o]))
      BY <1>9, <1>12 DEF Staged, Publisher
  <2> QED
      BY <2>1, <1>9 DEF Inv, Apart
<1>18. /\ Current(s)' = c /\ Live(s)' = new
       /\ \A t \in Storage \ {s} : Live(t)' = Live(t) /\ Current(t)' = Current(t)
  <2>1. Current(s)' = c /\ Live(s)' = new
      BY <1>0, <1>6 DEF Current, Live, k
  <2>2. ASSUME NEW t \in Storage \ {s} PROVE Live(t)' = Live(t) /\ Current(t)' = Current(t)
    <3>1. KeyOf(t, head[t]) \in Key
        BY LiveTyped DEF Inv
    <3> QED
        BY <3>1, <1>6 DEF Current, Live
  <2> QED
      BY <2>1, <2>2
<1>19. Told'
  <2>1. \A t \in Storage : head'[t] # NoHead =>
          Len(log'[t]) >= 1 /\ log'[t][Len(log'[t])] = Current(t)'
      BY <1>7, <1>18 DEF Inv, Told
  <2>2. ASSUME NEW t \in Storage, NEW j \in Key, NEW q \in Query
        PROVE  Known(table[t][j].rows[q])'
    <3>1. Known(table[t][j].rows[q])
        BY DEF Inv, Told
    <3>2. CASE t # s \/ j # k
        BY <3>1, <3>2, <1>6, <1>8 DEF Known
    <3>3. CASE t = s /\ j = k
        BY <3>1, <3>3, <1>3, <1>6, <1>7, <1>8 DEF Known, old
    <3> QED
        BY <3>2, <3>3
  <2>3. head["object"] # NoHead \/ s # "object"
      BY <1>1, Heads
  <2> QED
      BY <2>1, <2>2, <2>3, <1>6 DEF Inv, Told, Storage
<1>20. s # "inline" => req[r].act = head[s] /\ \A q \in req[r].qs : old.rows[q] = req[r].prev[q]
  <2>1. CASE s # "inline"
    <3>1. req[r].act \in HeadRow /\ head[s].epoch = req[r].act.epoch
        BY <2>1, <1>1 DEF Placed, Entered, Eligible
    <3>2. req[r].act = head[s]
        BY <3>1, <1>1, Heads DEF Stands
    <3> QED
        BY <2>1, <3>2 DEF Eligible, old, k
  <2> QED
      BY <2>1
\* What an earlier edit of this generation replaced is not there any more.
<1>21. ASSUME NEW o \in Request, o # r, Published(o)'
       PROVE  /\ Published(o) /\ req'[o] = req[o] /\ req[o].via \in Storage
              /\ req[o].qs \subseteq Query /\ \A q \in Query : req[o].prev[q] # r
              /\ Replaced(o)
  <2>1. Published(o)
      BY <1>21, <1>7
  <2>2. \A q \in Query : Known(req[o].prev[q])
      BY ReqTyped
  <2> QED
      BY <2>1, <2>2, <1>1, <1>9, <1>21, ReqTyped, SnapshotAssumption DEF Known, Record, Inv, Stamped
<1>22. \A q \in Query : req[r].prev[q] # r
    BY <1>1, SnapshotAssumption DEF Stands, Known
<1>23. Stamped'
  <2>1. ASSUME NEW o \in Request, Published(o)'
        PROVE  req'[o].pc \in {"verify", "done"} /\ Replaced(o)'
    <3>1. CASE o = r
      <4>1. req[r].qs \subseteq Query
          BY <1>1 DEF Record
      <4> QED
          BY <3>1, <4>1, <1>3, <1>9, <1>12, <1>18, <1>22 DEF Replaced, Publisher
    <3>2. CASE o # r
        BY <2>1, <3>2, <1>2, <1>3, <1>18, <1>21 DEF Replaced, Inv, Stamped
    <3> QED
        BY <3>1, <3>2
  <2> QED
      BY <2>1 DEF Stamped
<1>24. ASSUME NEW o \in Request, o # r, Published(o), req[o].via = s, s # "inline",
              req[o].act = req[r].act
       PROVE  \A q \in req[o].qs \cap req[r].qs : req[o].prev[q] # req[r].prev[q]
    BY <1>2, <1>20, <1>24 DEF Inv, Stamped, Replaced
<1>25. NoLostEdit'
  <2>1. ASSUME NEW r1 \in Request, NEW r2 \in Request, r1 # r2, Published(r1)', Published(r2)',
               req'[r1].via = req'[r2].via, req'[r1].via # "inline", req'[r1].act = req'[r2].act,
               NEW q \in req'[r1].qs \cap req'[r2].qs
        PROVE  req'[r1].prev[q] # req'[r2].prev[q]
    <3>1. CASE r1 # r /\ r2 # r
        BY <2>1, <3>1, <1>21 DEF Inv, NoLostEdit
    <3>2. CASE r1 = r
      <4>1. Published(r2) /\ req'[r2] = req[r2]
          BY <2>1, <3>2, <1>21
      <4> QED
          BY <2>1, <3>2, <4>1, <1>9, <1>12, <1>24
    <3>3. CASE r2 = r
      <4>1. Published(r1) /\ req'[r1] = req[r1]
          BY <2>1, <3>3, <1>21
      <4> QED
          BY <2>1, <3>3, <4>1, <1>9, <1>12, <1>24
    <3> QED
        BY <3>1, <3>2, <3>3
  <2> QED
      BY <2>1 DEF NoLostEdit
<1> QED
    BY <1>10, <1>16, <1>17, <1>19, <1>23, <1>25 DEF Inv

LEMMA ReceiptPublishes ==
    ASSUME Inv, NEW r \in Request, NEW res \in Result, req[r].pc \in {"publish", "overwrite"}
    PROVE  Receipt(r, res) \in Record /\ Publisher(r, Receipt(r, res))
<1>1. req[r].from \in Nat
    BY ReqTyped DEF Record
<1> QED
    BY <1>1, Answered DEF Publisher

LEMMA StepPublish ==
    ASSUME Inv, NEW r \in Request, Publish(r)
    PROVE  Inv'
<1> DEFINE s == req[r].via  n == [req[r] EXCEPT !.pc = "verify"]
<1>1. /\ req[r].pc = "publish" /\ ~Published(r) /\ UNCHANGED <<fleet, head, epochs>>
      /\ req[r] \in Record /\ Placed(req[r]) /\ s \in Storage
    BY Unpublished, ReqTyped DEF Publish
<1>2. CASE ~Eligible(r, s)
    BY <1>1, <1>2, Refuses DEF Publish, Result, store
<1>3. CASE Eligible(r, s) /\ s = "object"
  <2>1. Write(r, s) /\ req' = [req EXCEPT ![r] = n]
      BY <1>3 DEF Publish, Goto
  <2>2. n \in Record /\ Publisher(r, n)
    <3>1. "verify" \in Stage /\ req[r].from \in Nat
        BY <1>1 DEF Stage, Record
    <3> QED
        BY <3>1, <1>1, <1>3 DEF Record, Publisher, Placed
  <2> HIDE DEF n
  <2> QED
      BY <2>1, <2>2, <1>1, <1>3, Writes
<1>4. CASE Eligible(r, s) /\ s # "object"
  <2>1. Write(r, s) /\ req' = [req EXCEPT ![r] = Receipt(r, "ok")]
      BY <1>4 DEF Publish, Acknowledge, Receipt
  <2>2. Receipt(r, "ok") \in Record /\ Publisher(r, Receipt(r, "ok"))
      BY <1>1, ReceiptPublishes DEF Result
  <2> QED
      BY <2>1, <2>2, <1>1, <1>4, Writes
<1> QED
    BY <1>2, <1>3, <1>4

LEMMA StepOverwrite ==
    ASSUME Inv, NEW r \in Request, Overwrite(r)
    PROVE  Inv'
<1>1. /\ req[r].pc = "overwrite" /\ UNCHANGED <<fleet, head, epochs>>
      /\ req[r].via = "inline" /\ "inline" \in Storage /\ Write(r, "inline")
    BY ReqTyped DEF Overwrite, Placed
<1>2. req' = [req EXCEPT ![r] = Receipt(r, "ok")]
    BY DEF Overwrite, Acknowledge, Receipt
<1>3. Receipt(r, "ok") \in Record /\ Publisher(r, Receipt(r, "ok"))
    BY <1>1, ReceiptPublishes DEF Result
<1> QED
    BY <1>1, <1>2, <1>3, Writes

-----------------------------------------------------------------------------
(* The invariant and what it says.                                         *)

LEMMA Start ==
    ASSUME Init
    PROVE  Inv
<1>1. \A s \in Storage : head[s] = NoHead /\ log[s] = <<>>
    BY DEF Init
<1>2. ASSUME NEW e PROVE ~Published(e)
    BY <1>1 DEF Published
<1>3. Types
    BY UneditedTyped, IdleTyped, SnapshotAssumption DEF Init, Types
<1>4. \A r \in Request : req[r] = Idle
    BY DEF Init
<1>5. /\ Idle.pc = "idle" /\ Idle.left = {} /\ Idle.qs = {} /\ Idle.act = NoHead
      /\ Idle.from = 0 /\ Idle.via = "inline" /\ Idle.prev = [q \in Query |-> None]
    BY DEF Idle
<1>6. Placed(Idle)
    BY <1>5 DEF Placed, Entered
<1>7. Stands(Idle)
    BY <1>1, <1>5, Heads DEF Stands, Given, Staged, Known, Entered, Storage, Init
<1>8. Apart
    BY <1>4, <1>5 DEF Apart, Staged
<1>9. Told
  <2>1. \A s \in Storage, k \in Key, q \in Query : Known(table[s][k].rows[q])
      BY DEF Init, Unedited, Known
  <2>2. \A k \in Key : table["object"][k] = Unedited
      BY DEF Init, Storage
  <2> QED
      BY <1>1, <2>1, <2>2, Heads DEF Told, Init
<1> QED
    BY <1>2, <1>3, <1>4, <1>6, <1>7, <1>8, <1>9 DEF Inv, Stamped, NoLostEdit

LEMMA Stays ==
    ASSUME Inv, UNCHANGED vars
    PROVE  Inv'
<1> USE DEF vars, store
<1>1. Types'
    BY DEF Inv, Types
<1>2. \A e : Published(e)' = Published(e)
    BY DEF Published
<1>3. Told'
    BY <1>2 DEF Inv, Told, Known, Current, Live
<1>4. ASSUME NEW r \in Request PROVE Placed(req[r])' /\ Stands(req[r])'
  <2>1. Placed(req[r])' /\ Placed(req[r]) /\ Stands(req[r])
      BY DEF Inv, Placed
  <2> QED
      BY <1>2, <2>1 DEF Stands, Given, Seen, Known, Staged
<1>5. Apart'
    BY DEF Inv, Apart, Staged
<1>6. Stamped' /\ NoLostEdit'
    BY <1>2 DEF Inv, Stamped, Replaced, Live, NoLostEdit
<1> QED
    BY <1>1, <1>3, <1>4, <1>5, <1>6 DEF Inv

LEMMA Steps ==
    ASSUME Inv, [Next]_vars
    PROVE  Inv'
<1>1. CASE UNCHANGED vars
    BY <1>1, Stays
<1>2. ASSUME NEW r \in Request, NEW dep \in fleet, NEW kind \in {"read", "lazy", "edit"},
             NEW qs \in SUBSET Query, Begin(r, dep, kind, qs)
      PROVE  Inv'
    BY <1>2, StepBegin
<1>3. ASSUME NEW r \in Request, Step(r) PROVE Inv'
    BY <1>3, StepReadHead, StepStageSeed, StepActivateGeneration, StepActivateObject,
       StepActivateInline, StepReadWinner, StepCapture, StepStream, StepServeSeed, StepExists,
       StepReadHeadForEdit, StepStageRows, StepRecheck, StepPublish, StepVerify, StepOverwrite
    DEF Step
<1> QED
    BY <1>1, <1>2, <1>3 DEF Next

\* The inductive invariant: requests know where they stand to the data, generations
\* are numbered once, and the log ends with what is stored.
THEOREM Invariance == Spec => []Inv
<1>1. Init => Inv
    BY Start
<1>2. Inv /\ [Next]_vars => Inv'
    BY Steps
<1> QED
    BY <1>1, <1>2, PTL DEF Spec

\* The variables keep their types, for any fleet of deployments.
THEOREM TypeCorrect == Spec => []TypeOK
<1>1. Inv => TypeOK
  <2>1. ASSUME Inv, NEW r \in Request
        PROVE  /\ req[r].pc \in Stage /\ req[r].res \in Result /\ req[r].via \in Storage
               /\ req[r].qs \subseteq Query /\ req[r].left \subseteq req[r].qs
               /\ req[r].got \in Content
      BY <2>1, ReqTyped DEF Record, Placed
  <2> QED
      BY <2>1 DEF Inv, Types, TypeOK
<1> QED
    BY <1>1, Invariance, PTL

\* Every snapshot served is one content its storage had while the request ran, and of
\* the seed that was asked for (snapshotResponse, objectSnapshotResponse).
THEOREM Reads == Spec => []ReadsOneState
<1>1. Inv => ReadsOneState
  <2>1. ASSUME Inv, NEW r \in Request, Replied(r), req[r].kind # "edit" PROVE Seen(req[r])
      BY <2>1, ReqTyped DEF Replied, Given, Stands
  <2> QED
      BY <2>1 DEF ReadsOneState, Seen
<1> QED
    BY <1>1, Invariance, PTL

\* Of two edits of the same rows the second has seen the first, in the storages with
\* revisions (QUERY_REVISION_CONFLICT).
THEOREM NoEditLost == Spec => []NoLostEdit
<1>1. Inv => NoLostEdit
    BY DEF Inv
<1> QED
    BY <1>1, Invariance, PTL

-----------------------------------------------------------------------------
(* What requests have read of the generations.                             *)

\* A request that has come, in its step to n, no further than it may: it is done
\* and has published nothing, or it is where it was for the same queries.
Turn(r, n) ==
    /\ req' = [req EXCEPT ![r] = n]
    /\ \/ n.qs = {} /\ n.base.epoch = 0 /\ n.pc = "done" /\ ~Published(r)
       \/ /\ n.via = req[r].via /\ n.qs = req[r].qs /\ n.pc # "idle"
          /\ n.base.epoch \in {req[r].base.epoch, 0, head[n.via].epoch}
          /\ n.pc \in {"stage", "activate", "winner"} \/ n.base.epoch = 0
          /\ Staged(n) => n.base.epoch < n.own

\* A generation that was read is older than one written since.
Bound(n) ==
    /\ n.pc = "idle" => n.qs = {}
    /\ n.pc \notin {"stage", "activate", "winner"} => n.base.epoch = 0
    /\ n.base.epoch <= epochs
    /\ Staged(n) => n.base.epoch < n.own

Bounds == \A r \in Request : Bound(req[r])

LEMMA BoundsStart == Init => Bounds
<1>1. /\ Idle.pc = "idle" /\ Idle.qs = {} /\ Idle.base = NoHead
    BY DEF Idle
<1> QED
    BY <1>1, Heads DEF Init, Bounds, Bound, Staged

LEMMA Read ==
    ASSUME Inv, NEW r \in Request
    PROVE  /\ req[r].base \in HeadRow \cup {NoHead} /\ req[r].base.epoch \in Nat
           /\ head[req[r].via].epoch \in Nat /\ head[req[r].via].epoch <= epochs
           /\ epochs \in Nat
<1>1. req[r].base \in HeadRow \cup {NoHead} /\ head[req[r].via] \in HeadRow \cup {NoHead}
    BY ReqTyped DEF Record
<1>2. req[r].base.epoch \in 0..MaxEpoch /\ head[req[r].via].epoch \in 0..MaxEpoch
    BY <1>1, Heads
<1>3. epochs \in 0..MaxEpoch /\ head[req[r].via].epoch <= epochs
    BY ReqTyped DEF Inv, Types, Told
<1> QED
    BY <1>1, <1>2, <1>3, SnapshotAssumption

LEMMA TurnBounds ==
    ASSUME Inv, Bounds, NEW r \in Request, NEW n, Turn(r, n), epochs <= epochs', epochs' \in Nat
    PROVE  Bounds'
<1>1. req \in [Request -> Record] /\ req'[r] = n /\ \A o \in Request \ {r} : req'[o] = req[o]
    BY DEF Inv, Types, Turn
<1>2. ASSUME NEW o \in Request, o # r PROVE Bound(req[o])'
  <2>1. Bound(req[o]) /\ req'[o] = req[o] /\ req[o].base.epoch \in Nat /\ epochs \in Nat
      BY <1>1, <1>2, Read DEF Bounds
  <2> QED
      BY <2>1 DEF Bound, Staged
<1>3. Bound(req[r])'
  <2>1. Bound(req[r])
      BY DEF Bounds
  <2>2. n.base.epoch <= epochs'
      BY <2>1, Read DEF Turn, Bound
  <2>3. n.pc # "idle" \/ n.qs = {}
      BY DEF Turn
  <2>4. n.pc \notin {"stage", "activate", "winner"} => n.base.epoch = 0
      BY DEF Turn
  <2>5. Staged(n) => n.base.epoch < n.own
      BY DEF Turn, Staged
  <2> QED
      BY <1>1, <2>2, <2>3, <2>4, <2>5 DEF Bound, Staged
<1> QED
    BY <1>2, <1>3 DEF Bounds

\* Every step of a request is a turn.
LEMMA Turns ==
    ASSUME Inv, Bounds, NEW r \in Request, Step(r)
    PROVE  \E n : Turn(r, n)
<1>1. /\ req \in [Request -> Record] /\ req[r] \in Record /\ Bound(req[r])
      /\ req[r].base.epoch \in Nat /\ epochs \in Nat
    BY Read DEF Inv, Types, Bounds
<1>2. ASSUME NEW res, Answer(r, res), ~Published(r) PROVE \E n : Turn(r, n)
  <2>1. PICK n : n = [Idle EXCEPT !.pc = "done", !.res = res]
      OBVIOUS
  <2>2. n.qs = {} /\ n.base.epoch = 0 /\ n.pc = "done"
      BY <2>1, Heads DEF Idle
  <2>3. req' = [req EXCEPT ![r] = n]
      BY <1>2, <2>1 DEF Answer
  <2> QED
      BY <1>2, <2>2, <2>3 DEF Turn
<1>3. ASSUME NEW h, Enter(r, h) PROVE \E n : Turn(r, n)
  <2>1. PICK n : n = [req[r] EXCEPT !.act = h, !.base = NoHead, !.own = 0, !.pc = Ready(r)]
      OBVIOUS
  <2>2. req' = [req EXCEPT ![r] = n]
      BY <1>1, <1>3, <2>1 DEF Enter
  <2>3. Ready(r) \in {"capture", "unedited", "put", "exists"}
      BY DEF Ready
  <2>4. /\ n.via = req[r].via /\ n.qs = req[r].qs /\ n.pc = Ready(r)
        /\ n.base = NoHead
      BY <1>1, <2>1 DEF Record
  <2> QED
      BY <2>2, <2>3, <2>4, Heads DEF Turn, Staged
<1>4. ASSUME NEW got, Serve(r, got), ~Published(r) PROVE \E n : Turn(r, n)
  <2>1. PICK n : n = [Idle EXCEPT
            !.pc = "done", !.res = "ok", !.kind = req[r].kind, !.dep = req[r].dep,
            !.via = req[r].via, !.from = req[r].from, !.got = got]
      OBVIOUS
  <2>2. n.qs = {} /\ n.base.epoch = 0 /\ n.pc = "done"
      BY <2>1, Heads DEF Idle
  <2>3. req' = [req EXCEPT ![r] = n]
      BY <1>4, <2>1 DEF Serve
  <2> QED
      BY <1>4, <2>2, <2>3 DEF Turn
<1>5. ASSUME NEW res, Acknowledge(r, res) PROVE \E n : Turn(r, n)
  <2>1. PICK n : n = Receipt(r, res)
      OBVIOUS
  <2>2. n.qs = req[r].qs /\ n.base.epoch = 0 /\ n.pc = "done" /\ n.via = req[r].via
      BY <2>1, Heads DEF Idle, Receipt
  <2>3. req' = [req EXCEPT ![r] = n]
      BY <1>5, <2>1 DEF Acknowledge, Receipt
  <2> QED
      BY <2>2, <2>3 DEF Turn, Staged
<1>6. ASSUME NEW n, req' = [req EXCEPT ![r] = n], n.via = req[r].via, n.qs = req[r].qs,
             n.pc \notin {"idle", "stage", "activate"}, n.base = req[r].base,
             n.pc = "winner" \/ req[r].pc \notin {"stage", "activate", "winner"}
      PROVE  \E m : Turn(r, m)
    BY <1>1, <1>6 DEF Turn, Bound, Staged
<1>7. CASE ReadHead(r)
  <2>1. PICK h : h = head[req[r].via]
      OBVIOUS
  <2>2. req[r].pc = "init" /\ ~Published(r)
      BY <1>7, Unpublished DEF ReadHead
  <2>3. CASE Enter(r, h) \/ \E res : Answer(r, res)
      BY <1>2, <1>3, <2>2, <2>3
  <2>4. CASE req' = [req EXCEPT ![r].base = h,
                        ![r].pc = IF req[r].via = "generation" THEN "stage" ELSE "activate"]
    <3>1. PICK pc : pc = IF req[r].via = "generation" THEN "stage" ELSE "activate"
        OBVIOUS
    <3>2. PICK n : n = [req[r] EXCEPT !.base = h, !.pc = pc]
        OBVIOUS
    <3>3. req' = [req EXCEPT ![r] = n]
        BY <1>1, <2>4, <3>1, <3>2
    <3>4. n.via = req[r].via /\ n.qs = req[r].qs /\ n.base = h /\ n.pc = pc
        BY <1>1, <3>2 DEF Record
    <3> QED
        BY <2>1, <3>1, <3>3, <3>4 DEF Turn, Staged
  <2> QED
      BY <1>7, <2>1, <2>3, <2>4 DEF ReadHead
<1>8. CASE StageSeed(r)
  <2>1. PICK n : n = [req[r] EXCEPT !.own = epochs + 1, !.pc = "activate"]
      OBVIOUS
  <2>2. req' = [req EXCEPT ![r] = n]
      BY <1>1, <1>8, <2>1 DEF StageSeed
  <2>3. /\ n.via = req[r].via /\ n.qs = req[r].qs /\ n.base = req[r].base
        /\ n.pc = "activate" /\ n.own = epochs + 1
      BY <1>1, <2>1 DEF Record
  <2>4. n.base.epoch < n.own
      BY <1>1, <2>3 DEF Bound
  <2> QED
      BY <2>2, <2>3, <2>4 DEF Turn
<1>9. CASE ActivateGeneration(r) \/ ActivateObject(r) \/ ActivateInline(r)
  <2>1. CASE \E h : Enter(r, h)
      BY <1>3, <2>1
  <2>2. CASE Goto(r, "winner")
    <3>1. PICK n : n = [req[r] EXCEPT !.pc = "winner"]
        OBVIOUS
    <3>2. /\ n.via = req[r].via /\ n.qs = req[r].qs /\ n.base = req[r].base
          /\ n.pc = "winner" /\ req' = [req EXCEPT ![r] = n]
        BY <1>1, <2>2, <3>1 DEF Record, Goto
    <3> QED
        BY <1>6, <3>2
  <2> QED
      BY <1>9, <2>1, <2>2
      DEF ActivateGeneration, ActivateObject, ActivateInline, Adopt, Lose
<1>10. CASE ReadWinner(r)
  <2>1. ~Published(r)
      BY <1>10, Unpublished DEF ReadWinner
  <2> QED
      BY <1>2, <1>3, <1>10, <2>1 DEF ReadWinner
<1>11. CASE Capture(r)
  <2>1. ~Published(r) /\ req[r].pc = "capture"
      BY <1>11, Unpublished DEF Capture
  <2>2. CASE \E res : Answer(r, res)
      BY <1>2, <2>1, <2>2
  <2>3. PICK got : got = Current(req[r].via)
      OBVIOUS
  <2>4. CASE req' = [req EXCEPT ![r].got = got, ![r].pc = "stream"]
    <3>1. PICK n : n = [req[r] EXCEPT !.got = got, !.pc = "stream"]
        OBVIOUS
    <3>2. /\ n.via = req[r].via /\ n.qs = req[r].qs /\ n.base = req[r].base
          /\ n.pc = "stream" /\ req' = [req EXCEPT ![r] = n]
        BY <1>1, <2>4, <3>1 DEF Record
    <3> QED
        BY <1>6, <2>1, <3>2
  <2> QED
      BY <1>11, <2>2, <2>3, <2>4 DEF Capture
<1>12. CASE Stream(r) \/ ServeSeed(r)
  <2>1. ~Published(r)
      BY <1>12, Unpublished DEF Stream, ServeSeed
  <2> QED
      BY <1>2, <1>4, <1>12, <2>1 DEF Stream, ServeSeed
<1>13. CASE Exists(r)
  <2>1. ~Published(r) /\ req[r].pc = "exists"
      BY <1>13, Unpublished DEF Exists
  <2>2. CASE \E res : Answer(r, res)
      BY <1>2, <2>1, <2>2
  <2>3. ASSUME NEW left, NEW pc, pc \in {"init", "overwrite", "head"},
               req' = [req EXCEPT ![r].left = left, ![r].pc = pc]
        PROVE  \E n : Turn(r, n)
    <3>1. PICK n : n = [req[r] EXCEPT !.left = left, !.pc = pc]
        OBVIOUS
    <3>2. /\ n.via = req[r].via /\ n.qs = req[r].qs /\ n.base = req[r].base
          /\ n.pc = pc /\ req' = [req EXCEPT ![r] = n]
        BY <1>1, <2>3, <3>1 DEF Record
    <3> QED
        BY <1>6, <2>1, <2>3, <3>2
  <2>4. CASE \E q \in req[r].left :
              req' = [req EXCEPT
                ![r].left = IF @ = {q} THEN req[r].qs ELSE @ \ {q},
                ![r].pc = IF req[r].left # {q} THEN "init"
                          ELSE IF req[r].via = "inline" THEN "overwrite" ELSE "head"]
    <3>1. PICK q \in req[r].left :
              req' = [req EXCEPT
                ![r].left = IF req[r].left = {q} THEN req[r].qs ELSE req[r].left \ {q},
                ![r].pc = IF req[r].left # {q} THEN "init"
                          ELSE IF req[r].via = "inline" THEN "overwrite" ELSE "head"]
        BY <1>1, <2>4
    <3>2. PICK left : left = IF req[r].left = {q} THEN req[r].qs ELSE req[r].left \ {q}
        OBVIOUS
    <3>3. PICK pc : pc = IF req[r].left # {q} THEN "init"
                         ELSE IF req[r].via = "inline" THEN "overwrite" ELSE "head"
        OBVIOUS
    <3> QED
        BY <2>3, <3>1, <3>2, <3>3
  <2> QED
      BY <1>13, <2>2, <2>4 DEF Exists
<1>14. CASE ReadHeadForEdit(r)
  <2>1. ~Published(r) /\ req[r].pc = "head"
      BY <1>14, Unpublished DEF ReadHeadForEdit
  <2>2. CASE \E res : Answer(r, res)
      BY <1>2, <2>1, <2>2
  <2>3. PICK h : h = head["generation"]
      OBVIOUS
  <2>4. CASE req' = [req EXCEPT ![r].act = h, ![r].pc = "put"]
    <3>1. PICK n : n = [req[r] EXCEPT !.act = h, !.pc = "put"]
        OBVIOUS
    <3>2. /\ n.via = req[r].via /\ n.qs = req[r].qs /\ n.base = req[r].base
          /\ n.pc = "put" /\ req' = [req EXCEPT ![r] = n]
        BY <1>1, <2>4, <3>1 DEF Record
    <3> QED
        BY <1>6, <2>1, <3>2
  <2> QED
      BY <1>14, <2>2, <2>3, <2>4 DEF ReadHeadForEdit
<1>15. CASE StageRows(r)
  <2>1. req[r].pc = "put"
      BY <1>15 DEF StageRows
  <2>2. PICK q \in req[r].left :
             req' = [req EXCEPT
               ![r].prev[q] = table[req[r].via][KeyOf(req[r].via, req[r].act)].rows[q],
               ![r].left = @ \ {q},
               ![r].pc = IF req[r].left # {q} THEN "put"
                         ELSE IF req[r].via = "object" THEN "recheck" ELSE "publish"]
      BY <1>15 DEF StageRows
  <2>3. PICK row : row = table[req[r].via][KeyOf(req[r].via, req[r].act)].rows[q]
      OBVIOUS
  <2>4. PICK pc : pc = IF req[r].left # {q} THEN "put"
                       ELSE IF req[r].via = "object" THEN "recheck" ELSE "publish"
      OBVIOUS
  <2>5. PICK n : n = [req[r] EXCEPT !.prev = [req[r].prev EXCEPT ![q] = row],
                                    !.left = req[r].left \ {q}, !.pc = pc]
      OBVIOUS
  <2>6. /\ n.via = req[r].via /\ n.qs = req[r].qs /\ n.base = req[r].base /\ n.pc = pc
      BY <1>1, <2>5 DEF Record
  <2>7. req' = [req EXCEPT ![r] = n]
      BY <1>1, <2>2, <2>3, <2>4, <2>5
  <2> QED
      BY <1>6, <2>1, <2>4, <2>6, <2>7
<1>16. CASE Recheck(r)
  <2>1. ~Published(r) /\ req[r].pc = "recheck"
      BY <1>16, Unpublished DEF Recheck
  <2>2. CASE \E res : Answer(r, res)
      BY <1>2, <2>1, <2>2
  <2>3. CASE Goto(r, "publish")
    <3>1. PICK n : n = [req[r] EXCEPT !.pc = "publish"]
        OBVIOUS
    <3>2. /\ n.via = req[r].via /\ n.qs = req[r].qs /\ n.base = req[r].base
          /\ n.pc = "publish" /\ req' = [req EXCEPT ![r] = n]
        BY <1>1, <2>3, <3>1 DEF Record, Goto
    <3> QED
        BY <1>6, <2>1, <3>2
  <2> QED
      BY <1>16, <2>2, <2>3 DEF Recheck
<1>17. CASE Publish(r)
  <2>1. ~Published(r) /\ req[r].pc = "publish"
      BY <1>17, Unpublished DEF Publish
  <2>2. CASE \E res : Answer(r, res)
      BY <1>2, <2>1, <2>2
  <2>3. CASE Goto(r, "verify")
    <3>1. PICK n : n = [req[r] EXCEPT !.pc = "verify"]
        OBVIOUS
    <3>2. /\ n.via = req[r].via /\ n.qs = req[r].qs /\ n.base = req[r].base
          /\ n.pc = "verify" /\ req' = [req EXCEPT ![r] = n]
        BY <1>1, <2>3, <3>1 DEF Record, Goto
    <3> QED
        BY <1>6, <2>1, <3>2
  <2> QED
      BY <1>5, <1>17, <2>2, <2>3 DEF Publish
<1>18. CASE Verify(r) \/ Overwrite(r)
    BY <1>5, <1>18 DEF Verify, Overwrite
<1> QED
    BY <1>7, <1>8, <1>9, <1>10, <1>11, <1>12, <1>13, <1>14, <1>15, <1>16, <1>17, <1>18 DEF Step

\* A request arrives having read nothing.
LEMMA Arrival ==
    ASSUME NEW r \in Request, NEW dep, NEW kind, NEW qs, Begin(r, dep, kind, qs)
    PROVE  \E n : /\ req' = [req EXCEPT ![r] = n]
                  /\ n.pc \in {"init", "done"} /\ n.base = NoHead
                  /\ n.qs = {} \/ n.qs = qs
<1>1. ASSUME NEW res, Answer(r, res)
      PROVE  \E n : /\ req' = [req EXCEPT ![r] = n]
                    /\ n.pc \in {"init", "done"} /\ n.base = NoHead
                    /\ n.qs = {} \/ n.qs = qs
  <2>1. PICK n : n = [Idle EXCEPT !.pc = "done", !.res = res]
      OBVIOUS
  <2>2. n.pc = "done" /\ n.base = NoHead /\ n.qs = {}
      BY <2>1 DEF Idle
  <2> QED
      BY <1>1, <2>1, <2>2 DEF Answer
<1>2. ASSUME NEW via, NEW from,
             req' = [req EXCEPT ![r] = [Idle EXCEPT
                  !.pc = "init", !.kind = kind, !.dep = dep, !.via = via,
                  !.qs = qs, !.left = qs, !.from = from]]
      PROVE  \E n : /\ req' = [req EXCEPT ![r] = n]
                    /\ n.pc \in {"init", "done"} /\ n.base = NoHead
                    /\ n.qs = {} \/ n.qs = qs
  <2>1. PICK n : n = [Idle EXCEPT
                  !.pc = "init", !.kind = kind, !.dep = dep, !.via = via,
                  !.qs = qs, !.left = qs, !.from = from]
      OBVIOUS
  <2>2. n.pc = "init" /\ n.base = NoHead /\ n.qs = qs
      BY <2>1 DEF Idle
  <2> QED
      BY <1>2, <2>1, <2>2
<1> QED
    BY <1>1, <1>2 DEF Begin

\* What a generation was read to be stays true of every request.
LEMMA BoundsNext ==
    ASSUME Inv, Inv', Bounds, [Next]_vars
    PROVE  Bounds'
<1>1. epochs \in Nat /\ epochs' \in Nat
    BY SnapshotAssumption DEF Inv, Types
<1>2. CASE UNCHANGED vars
    BY <1>2 DEF vars, store, Bounds, Bound, Staged
<1>3. ASSUME NEW r \in Request, NEW dep \in fleet, NEW kind \in {"read", "lazy", "edit"},
             NEW qs \in SUBSET Query, Begin(r, dep, kind, qs)
      PROVE  Bounds'
  <2>1. epochs' = epochs /\ req \in [Request -> Record]
      BY <1>3 DEF Begin, store, Inv, Types
  <2>2. PICK n : /\ req' = [req EXCEPT ![r] = n]
                 /\ n.pc \in {"init", "done"} /\ n.base = NoHead
      BY <1>3, Arrival
  <2>3. Bound(n)'
      BY <1>1, <2>2, Heads DEF Bound, Staged
  <2>4. ASSUME NEW o \in Request, o # r PROVE Bound(req[o])'
      BY <2>1, <2>2, <2>4 DEF Bounds, Bound, Staged
  <2>5. Bound(req[r])'
      BY <2>1, <2>2, <2>3 DEF Bound, Staged
  <2> QED
      BY <2>4, <2>5 DEF Bounds
<1>4. ASSUME NEW r \in Request, Step(r) PROVE Bounds'
  <2>1. epochs <= epochs'
    <3>1. CASE StageSeed(r) \/ ActivateObject(r) \/ ActivateInline(r)
        BY <1>1, <3>1 DEF StageSeed, ActivateObject, ActivateInline
    <3>2. CASE ~(StageSeed(r) \/ ActivateObject(r) \/ ActivateInline(r))
      <4>1. UNCHANGED epochs
          BY <1>4, <3>2
          DEF Step, ReadHead, ActivateGeneration, ReadWinner, Capture, Stream, ServeSeed, Exists,
              ReadHeadForEdit, StageRows, Recheck, Publish, Verify, Overwrite, store
      <4> QED
          BY <1>1, <4>1
    <3> QED
        BY <3>1, <3>2
  <2>2. \E n : Turn(r, n)
      BY <1>4, Turns
  <2> QED
      BY <1>1, <2>1, <2>2, TurnBounds
<1> QED
    BY <1>2, <1>3, <1>4 DEF Next

-----------------------------------------------------------------------------
(* The contract of a hosted snapshot.                                      *)

\* The snapshot of storage s stays as it is, and as published.
Same(s) == head'[s] = head[s] /\ Live(s)' = Live(s) /\ Applied(s)' = Applied(s)

Came(s, r) ==
    /\ Same(s) /\ r \notin Applied(s) /\ Asked(s)[r] = {} /\ UNCHANGED Looked(s)
    /\ \E qs \in (SUBSET Query) \ {{}} : Asked(s)' = [Asked(s) EXCEPT ![r] = qs]
TurnedDown(s, r) ==
    /\ Same(s) /\ r \notin Applied(s)
    /\ Asked(s)' = [Asked(s) EXCEPT ![r] = {}]
    /\ Looked(s)' = [Looked(s) EXCEPT ![r] = 0]
LookedUp(s, r) ==
    /\ Same(s) /\ UNCHANGED Asked(s)
    /\ \E g \in {0, head[s].epoch} : Looked(s)' = [Looked(s) EXCEPT ![r] = g]
Activated(s, r) ==
    /\ Looked(s)[r] = head[s].epoch
    /\ head'[s].seed \in Seed \ {head[s].seed} /\ head'[s].epoch > head[s].epoch
    /\ Live(s)' = Unedited
    /\ Looked(s)' = [Looked(s) EXCEPT ![r] = 0]
    /\ UNCHANGED <<Asked(s), Applied(s)>>
EditedBy(s, r) ==
    /\ head[s].seed # None /\ head'[s] = head[s]
    /\ r \notin Applied(s) /\ Asked(s)[r] = req[r].qs /\ req[r].qs # {}
    /\ Live(s)' = Edited(r, Live(s))
    /\ Applied(s)' = Applied(s) \cup {r}
    /\ UNCHANGED <<Asked(s), Looked(s)>>
Unmoving(s) == Same(s) /\ UNCHANGED <<Asked(s), Looked(s)>>
Moved(s) ==
    \/ Unmoving(s)
    \/ \E r \in Request : Came(s, r) \/ TurnedDown(s, r) \/ LookedUp(s, r)
                          \/ Activated(s, r) \/ EditedBy(s, r)

Revised == {"generation", "object"}

\* Only what was published was applied.
LEMMA AppliedPublished ==
    ASSUME NEW s \in Storage, NEW r \in Request, ~Published(r)
    PROVE  r \notin Applied(s)
BY DEF Applied, Published

\* A content appended to a log adds its stamp.
LEMMA AppliedGrows ==
    ASSUME Types, NEW s \in Storage, NEW c \in Content, Logged(s, c)
    PROVE  /\ Applied(s)' = Applied(s) \cup ({c.stamp} \cap Request)
           /\ \A t \in Storage \ {s} : Applied(t)' = Applied(t)
<1>1. log \in [Storage -> Seq(Content)]
    BY DEF Types
<1>2. log'[s] = Append(log[s], c) /\ \A t \in Storage \ {s} : log'[t] = log[t]
    BY <1>1 DEF Logged
<1>3. /\ log'[s][Len(log[s]) + 1] = c
      /\ \A k \in 1..Len(log[s]) : log'[s][k] = log[s][k]
      /\ DOMAIN log[s] = 1..Len(log[s]) /\ DOMAIN log'[s] = 1..(Len(log[s]) + 1)
      /\ Len(log[s]) \in Nat
    BY <1>1, <1>2
<1>4. ASSUME NEW r \in Request
      PROVE  r \in Applied(s)' <=> r \in Applied(s) \/ r = c.stamp
  <2>1. ASSUME r \in Applied(s) PROVE r \in Applied(s)'
    <3>1. PICK k \in DOMAIN log[s] : log[s][k].stamp = r
        BY <2>1 DEF Applied
    <3>2. k \in DOMAIN log'[s] /\ log'[s][k].stamp = r
        BY <1>3, <3>1
    <3> QED
        BY <3>2 DEF Applied
  <2>2. ASSUME r = c.stamp PROVE r \in Applied(s)'
      BY <1>3, <2>2 DEF Applied
  <2>3. ASSUME r \in Applied(s)' PROVE r \in Applied(s) \/ r = c.stamp
    <3>1. PICK k \in DOMAIN log'[s] : log'[s][k].stamp = r
        BY <2>3 DEF Applied
    <3>2. k \in 1..Len(log[s]) \/ k = Len(log[s]) + 1
        BY <1>3
    <3> QED
        BY <1>3, <3>1, <3>2 DEF Applied
  <2> QED
      BY <2>1, <2>2, <2>3
<1>5. Applied(s) \subseteq Request /\ Applied(s)' \subseteq Request
    BY DEF Applied
<1>6. ASSUME NEW t \in Storage \ {s} PROVE Applied(t)' = Applied(t)
    BY <1>2 DEF Applied
<1> QED
    BY <1>4, <1>5, <1>6

\* What the contract knows of requests, after one of them has come to n.
Follows(s, r, n) ==
    /\ Asked(s)[r] = AskedOf(s, req[r]) /\ Looked(s)[r] = ReadBy(s, req[r])
    /\ Asked(s)' = [Asked(s) EXCEPT ![r] = AskedOf(s, n)]
    /\ Looked(s)' = [Looked(s) EXCEPT ![r] = ReadBy(s, n)]
    /\ AskedOf(s, n) = AskedOf(s, req[r]) => Asked(s)' = Asked(s)
    /\ ReadBy(s, n) = ReadBy(s, req[r]) => Looked(s)' = Looked(s)

LEMMA OneRequest ==
    ASSUME NEW s, NEW r \in Request, NEW n, req' = [req EXCEPT ![r] = n],
           req \in [Request -> Record]
    PROVE  Follows(s, r, n)
<1>1. \A q \in Request : req'[q] = IF q = r THEN n ELSE req[q]
    OBVIOUS
<1> QED
    BY <1>1 DEF Follows, Asked, Looked

\* A turn that leaves a snapshot alone is a step of the contract, or none.
LEMMA TurnMoves ==
    ASSUME Inv, NEW r \in Request, NEW n, Turn(r, n), NEW t \in Storage, Same(t)
    PROVE  Moved(t)
<1>1. req \in [Request -> Record] /\ req' = [req EXCEPT ![r] = n]
    BY DEF Inv, Types, Turn
<1>7. Follows(t, r, n)
    BY <1>1, OneRequest
<1>2. CASE n.qs = {} /\ n.base.epoch = 0 /\ ~Published(r)
    BY <1>1, <1>2, <1>7, AppliedPublished DEF Follows, AskedOf, ReadBy, Moved, TurnedDown
<1>3. CASE /\ n.via = req[r].via /\ n.qs = req[r].qs
           /\ n.base.epoch \in {req[r].base.epoch, 0, head[n.via].epoch}
  <2>1. Asked(t)' = Asked(t)
      BY <1>1, <1>3, <1>7 DEF Follows, AskedOf, ReadBy
  <2>2. CASE n.via = t
    <3>1. CASE n.base.epoch = req[r].base.epoch
        BY <1>1, <1>3, <2>1, <2>2, <3>1, <1>7 DEF Follows, AskedOf, ReadBy, Moved, Unmoving
    <3>2. CASE n.base.epoch \in {0, head[t].epoch}
        BY <1>1, <1>3, <2>1, <2>2, <3>2, <1>7 DEF Follows, AskedOf, ReadBy, Moved, LookedUp
    <3> QED
        BY <1>3, <2>2, <3>1, <3>2
  <2>3. CASE n.via # t
    <3>1. Looked(t)' = Looked(t)
        BY <1>1, <1>3, <2>3, <1>7 DEF Follows, AskedOf, ReadBy
    <3> QED
        BY <2>1, <3>1 DEF Moved, Unmoving
  <2> QED
      BY <2>2, <2>3
<1> QED
    BY <1>2, <1>3 DEF Turn

\* A request that arrives.
LEMMA BeginMoves ==
    ASSUME Inv, Bounds, NEW r \in Request, NEW dep \in fleet,
           NEW kind \in {"read", "lazy", "edit"}, NEW qs \in SUBSET Query,
           Begin(r, dep, kind, qs), NEW t \in Storage
    PROVE  Moved(t)
<1>1. /\ req \in [Request -> Record] /\ req[r].pc = "idle" /\ req[r].qs = {}
      /\ req[r].base.epoch = 0 /\ ~Published(r)
    BY Unpublished DEF Begin, Inv, Types, Bounds, Bound
<1>2. Same(t)
    BY DEF Begin, store, Same, Live, Applied
<1>3. PICK n : /\ req' = [req EXCEPT ![r] = n] /\ n.base = NoHead
               /\ n.qs = {} \/ n.qs = qs
    BY Arrival
<1>7. Follows(t, r, n)
    BY <1>1, <1>3, OneRequest
<1>4. Asked(t)[r] = {} /\ Looked(t)' = Looked(t)
    BY <1>1, <1>3, <1>7, Heads DEF Follows, AskedOf, ReadBy
<1>5. CASE n.via = t /\ n.qs # {}
  <2>1. Asked(t)' = [Asked(t) EXCEPT ![r] = qs] /\ qs # {}
      BY <1>1, <1>3, <1>5, <1>7 DEF Follows, AskedOf, ReadBy
  <2> QED
      BY <1>1, <1>2, <1>4, <2>1, AppliedPublished DEF Moved, Came
<1>6. CASE ~(n.via = t /\ n.qs # {})
  <2>1. Asked(t)' = Asked(t)
      BY <1>1, <1>3, <1>4, <1>6, <1>7 DEF Follows, AskedOf, ReadBy
  <2> QED
      BY <1>2, <1>4, <2>1 DEF Moved, Unmoving
<1> QED
    BY <1>5, <1>6

\* A seed that becomes the current one replaces the generation its request has read.
LEMMA AdoptMoves ==
    ASSUME Inv, NEW r \in Request, NEW s \in Storage, s = req[r].via, NEW h \in HeadRow,
           Adopt(r, s, h, Unedited), head[s].seed # h.seed, New(r, h.epoch),
           req[r].base = head[s], h.epoch > head[s].epoch
    PROVE  \A t \in Storage : Moved(t)
<1> DEFINE k == KeyOf(s, h)
<1>1. /\ k \in Key /\ h.seed \in Seed
      /\ head' = [head EXCEPT ![s] = h] /\ table' = [table EXCEPT ![s][k] = Unedited]
    BY Keys, Heads DEF Adopt
<1>2. head'[s] = h /\ \A t \in Storage \ {s} : head'[t] = head[t]
    BY <1>1 DEF Inv, Types
<1>3. /\ table'[s][k] = Unedited
      /\ \A t \in Storage \ {s} : table'[t] = table[t]
    BY <1>1 DEF Inv, Types
<1>4. Applied(s)' = Applied(s) /\ \A t \in Storage \ {s} : Applied(t)' = Applied(t)
  <2>1. PICK c : c = ContentOf(h, Unedited)
      OBVIOUS
  <2>2. c \in Content /\ c.stamp = None /\ Logged(s, c)
      BY <2>1, Contents, UneditedTyped DEF Unedited, Adopt, Logged
  <2>3. {c.stamp} \cap Request = {}
      BY <2>2, SnapshotAssumption
  <2> QED
      BY <2>2, <2>3, AppliedGrows DEF Inv
<1>5. PICK n : n = [req[r] EXCEPT !.act = h, !.base = NoHead, !.own = 0, !.pc = Ready(r)]
    OBVIOUS
<1>6. /\ req' = [req EXCEPT ![r] = n] /\ req \in [Request -> Record]
      /\ n.via = req[r].via /\ n.qs = req[r].qs /\ n.base = NoHead
  <2>1. req \in [Request -> Record] /\ req[r] \in Record
      BY DEF Inv, Types
  <2>2. req' = [req EXCEPT ![r] = n]
      BY <1>5, <2>1 DEF Adopt, Enter
  <2> QED
      BY <1>5, <2>1, <2>2 DEF Record
<1>7. Activated(s, r)
  <2>2. Follows(s, r, n)
      BY <1>6, OneRequest
  <2>1. Looked(s)[r] = head[s].epoch /\ UNCHANGED Asked(s)
        /\ Looked(s)' = [Looked(s) EXCEPT ![r] = 0]
      BY <1>6, <2>2, Heads DEF Follows, AskedOf, ReadBy
  <2> QED
      BY <1>1, <1>2, <1>3, <1>4, <2>1 DEF Activated, Live
<1>8. ASSUME NEW t \in Storage \ {s} PROVE Unmoving(t)
  <2>1. Same(t)
      BY <1>2, <1>3, <1>4 DEF Same, Live
  <2>3. Follows(t, r, n)
      BY <1>6, OneRequest
  <2>2. UNCHANGED <<Asked(t), Looked(t)>>
      BY <1>6, <2>3 DEF Follows, AskedOf, ReadBy
  <2> QED
      BY <2>1, <2>2 DEF Unmoving
<1> QED
    BY <1>7, <1>8 DEF Moved

\* An edit that is published replaces all that it was asked for.
LEMMA WriteMoves ==
    ASSUME Inv, Bounds, NEW r \in Request, NEW s \in Storage, s = req[r].via,
           req[r].pc = "publish", Write(r, s), head' = head,
           Goto(r, "verify") \/ Acknowledge(r, "ok")
    PROVE  \A t \in Storage : Moved(t)
<1> DEFINE k == KeyOf(s, head[s])  old == table[s][k]
<1>1. /\ ~Published(r) /\ req[r] \in Record /\ Placed(req[r]) /\ Stands(req[r])
      /\ head[s] \in HeadRow /\ k \in Key /\ req \in [Request -> Record]
    BY Unpublished, ReqTyped, Keys DEF Stands, Entered, Inv, Types
<1>2. table' = [table EXCEPT ![s][k] = Edited(r, old)] /\ old = Live(s)
    BY DEF Write, Live
<1>3. Live(s)' = Edited(r, Live(s))
  <2>1. table'[s][k] = Edited(r, old)
      BY <1>1, <1>2 DEF Inv, Types
  <2> QED
      BY <2>1, <1>2 DEF Live
<1>4. req[r].qs # {} /\ head[s].seed # None
    BY <1>1, Heads DEF Placed
<1>5. Applied(s)' = Applied(s) \cup {r} /\ \A t \in Storage \ {s} : Applied(t)' = Applied(t)
  <2>1. PICK x : x = Edited(r, old)
      OBVIOUS
  <2>2. PICK c : c = ContentOf(head[s], x)
      OBVIOUS
  <2>3. x \in Snapshot /\ x.stamp = r
      BY <1>1, <1>2, <2>1, LiveTyped DEF Edited, Snapshot, Inv
  <2>4. c \in Content /\ c.stamp = r /\ Logged(s, c)
      BY <1>1, <2>1, <2>2, <2>3, Contents DEF Write, Logged
  <2> QED
      BY <2>4, AppliedGrows DEF Inv
<1>6. PICK n : /\ req' = [req EXCEPT ![r] = n] /\ n.via = req[r].via /\ n.qs = req[r].qs
               /\ n.base.epoch = 0
  <2>1. req[r].base.epoch = 0
      BY DEF Bounds, Bound
  <2>2. CASE Goto(r, "verify")
    <3>1. PICK n : n = [req[r] EXCEPT !.pc = "verify"]
        OBVIOUS
    <3>2. /\ n.via = req[r].via /\ n.qs = req[r].qs /\ n.base = req[r].base
          /\ req' = [req EXCEPT ![r] = n]
        BY <1>1, <2>2, <3>1 DEF Record, Goto
    <3> QED
        BY <2>1, <3>2
  <2>3. CASE Acknowledge(r, "ok")
    <3>1. PICK n : n = Receipt(r, "ok")
        OBVIOUS
    <3>2. n.qs = req[r].qs /\ n.base.epoch = 0 /\ n.via = req[r].via
        BY <3>1, Heads DEF Idle, Receipt
    <3>3. req' = [req EXCEPT ![r] = n]
        BY <2>3, <3>1 DEF Acknowledge, Receipt
    <3> QED
        BY <3>2, <3>3
  <2> QED
      BY <2>2, <2>3
<1>7. \A t \in Storage : UNCHANGED <<Asked(t), Looked(t)>>
  <2>1. req[r].base.epoch = 0
      BY DEF Bounds, Bound
  <2>2. ASSUME NEW t \in Storage PROVE UNCHANGED <<Asked(t), Looked(t)>>
    <3>1. Follows(t, r, n)
        BY <1>1, <1>6, OneRequest
    <3> QED
        BY <1>6, <2>1, <3>1 DEF Follows, AskedOf, ReadBy
  <2> QED
      BY <2>2
<1>8. EditedBy(s, r)
  <2>1. r \notin Applied(s) /\ Asked(s)[r] = req[r].qs
      BY <1>1, AppliedPublished DEF Asked, AskedOf
  <2> QED
      BY <1>3, <1>4, <1>5, <1>7, <2>1 DEF EditedBy
<1>9. ASSUME NEW t \in Storage \ {s} PROVE Unmoving(t)
    BY <1>2, <1>5, <1>7 DEF Unmoving, Same, Live, Inv, Types
<1> QED
    BY <1>8, <1>9 DEF Moved

\* Every step of a storage with revisions is a step of the contract, or none.
LEMMA Moving ==
    ASSUME Inv, Bounds, [Next]_vars, NEW t \in Revised
    PROVE  Moved(t)
<1>1. t \in Storage /\ t # "inline"
    BY DEF Revised, Storage
<1>2. CASE UNCHANGED vars
  <2>1. Same(t) /\ UNCHANGED <<Asked(t), Looked(t)>>
      BY <1>2 DEF vars, store, Same, Live, Applied, Asked, Looked
  <2> QED
      BY <2>1 DEF Moved, Unmoving
<1>3. ASSUME NEW r \in Request, NEW dep \in fleet, NEW kind \in {"read", "lazy", "edit"},
             NEW qs \in SUBSET Query, Begin(r, dep, kind, qs)
      PROVE  Moved(t)
    BY <1>1, <1>3, BeginMoves
<1>4. ASSUME NEW r \in Request, Step(r) PROVE Moved(t)
  <2>1. \E n : Turn(r, n)
      BY <1>4, Turns
  <2>2. ASSUME Same(t) PROVE Moved(t)
      BY <1>1, <2>1, <2>2, TurnMoves
  <2>3. ASSUME UNCHANGED <<head, table, log>> PROVE Same(t)
      BY <2>3 DEF Same, Live, Applied
  <2>4. CASE \/ ReadHead(r) \/ ReadWinner(r) \/ Capture(r) \/ Stream(r) \/ ServeSeed(r)
             \/ Exists(r) \/ ReadHeadForEdit(r) \/ StageRows(r) \/ Recheck(r) \/ Verify(r)
    <3>1. UNCHANGED <<head, table, log>>
        BY <2>4
        DEF ReadHead, ReadWinner, Capture, Stream, ServeSeed, Exists, ReadHeadForEdit, StageRows,
            Recheck, Verify, store
    <3> QED
        BY <2>2, <2>3, <3>1
  <2>5. CASE StageSeed(r)
    <3>1. epochs \in Nat /\ epochs + 1 \in Key
        BY <2>5, SnapshotAssumption DEF StageSeed, Inv, Types, Key
    <3>2. head[t].epoch \in Nat /\ head[t].epoch <= epochs /\ KeyOf(t, head[t]) \in Key
        BY <1>1, LiveTyped, Heads DEF Inv, Told
    <3>3. table'[t][KeyOf(t, head[t])] = table[t][KeyOf(t, head[t])]
        BY <1>1, <2>5, <3>1, <3>2 DEF StageSeed, Inv, Types, KeyOf
    <3>4. Same(t)
        BY <2>5, <3>3 DEF StageSeed, Same, Live, Applied
    <3> QED
        BY <2>2, <3>4
  <2>6. CASE ActivateGeneration(r)
    <3>1. /\ req[r].pc = "activate" /\ req[r].via = "generation" /\ epochs' = epochs
          /\ "generation" \in Storage
        BY <2>6 DEF ActivateGeneration, Storage
    <3>2. CASE Unmoved(r, "generation")
      <4>1. PICK h : h = [seed |-> req[r].dep.seed, epoch |-> req[r].own]
          OBVIOUS
      <4>2. Adopt(r, "generation", h, table["generation"][h.epoch])
          BY <2>6, <3>2, <4>1 DEF ActivateGeneration
      <4>3. Staged(req[r]) /\ head["generation"] = req[r].base
          BY <3>1, <3>2 DEF Staged, Unmoved
      <4>4. /\ req[r].dep.seed \in Seed /\ req[r].own \in 1..epochs /\ epochs \in 0..MaxEpoch
            /\ table["generation"][req[r].own] = Unedited
            /\ head["generation"].seed # req[r].dep.seed
          BY <3>1, <4>3, ReqTyped DEF Placed, Stands, Deployment, Inv, Types
      <4>5. h \in HeadRow /\ h.seed = req[r].dep.seed /\ h.epoch = req[r].own
          BY <4>1, <4>4, SnapshotAssumption DEF HeadRow
      <4>6. New(r, h.epoch)
          BY <4>3, <4>5, <3>1, Numbered DEF Inv, Apart, New, Staged
      <4>7. Adopt(r, "generation", h, Unedited)
          BY <4>2, <4>4, <4>5
      <4>8. h.epoch > head["generation"].epoch
        <5>1. req[r].base.epoch < req[r].own
            BY <4>3 DEF Bounds, Bound
        <5>2. req[r].base.epoch \in Nat /\ epochs \in Nat
            BY Read
        <5> QED
            BY <4>3, <4>4, <4>5, <5>1, <5>2
      <4> QED
          BY <1>1, <3>1, <4>3, <4>4, <4>5, <4>6, <4>7, <4>8, AdoptMoves
    <3>3. CASE ~Unmoved(r, "generation")
      <4>1. UNCHANGED <<head, table, log>>
          BY <2>6, <3>3 DEF ActivateGeneration, Lose
      <4> QED
          BY <2>2, <2>3, <4>1
    <3> QED
        BY <3>2, <3>3
  <2>7. CASE ActivateObject(r)
    <3>1. req[r].pc = "activate" /\ req[r].via = "object" /\ "object" \in Storage
        BY <2>7 DEF ActivateObject, Storage
    <3>2. CASE Unmoved(r, "object")
      <4>1. PICK h : h = [seed |-> req[r].dep.seed, epoch |-> epochs + 1]
          OBVIOUS
      <4>2. /\ epochs < MaxEpoch
            /\ Adopt(r, "object", h,
                     IF req[r].base = NoHead THEN table["object"][h.seed] ELSE Unedited)
          BY <2>7, <3>2, <4>1 DEF ActivateObject
      <4>3. /\ req[r].dep.seed \in Seed /\ epochs \in 0..MaxEpoch
            /\ head["object"].seed # req[r].dep.seed /\ head["object"] = req[r].base
          BY <3>1, <3>2, ReqTyped DEF Placed, Deployment, Inv, Types, Unmoved
      <4>4. h \in HeadRow /\ h.seed = req[r].dep.seed /\ h.epoch = epochs + 1
          BY <4>1, <4>2, <4>3, SnapshotAssumption DEF HeadRow
      <4>5. req[r].base = NoHead => table["object"][h.seed] = Unedited
          BY <4>3, <4>4 DEF Inv, Told, Key
      <4>6. Adopt(r, "object", h, Unedited)
          BY <4>2, <4>5
      <4>7. h.epoch > head["object"].epoch
        <5>1. head["object"].epoch \in Nat /\ head["object"].epoch <= epochs /\ epochs \in Nat
            BY <3>1, Read
        <5> QED
            BY <4>4, <5>1
      <4>8. New(r, h.epoch)
          BY <4>4, NextIsNew
      <4> QED
          BY <1>1, <3>1, <4>3, <4>4, <4>6, <4>7, <4>8, AdoptMoves
    <3>3. CASE ~Unmoved(r, "object")
      <4>1. UNCHANGED <<head, table, log>>
          BY <2>7, <3>3 DEF ActivateObject, Lose
      <4> QED
          BY <2>2, <2>3, <4>1
    <3> QED
        BY <3>2, <3>3
  <2>8. CASE ActivateInline(r) \/ Overwrite(r)
    <3>1. head'[t] = head[t] /\ table'[t] = table[t] /\ log'[t] = log[t]
        BY <1>1, <2>8 DEF ActivateInline, Adopt, Overwrite, Write, Inv, Types
    <3>2. Same(t)
        BY <3>1 DEF Same, Live, Applied
    <3> QED
        BY <2>2, <3>2
  <2>9. CASE Publish(r)
    <3>1. CASE Eligible(r, req[r].via)
        BY <1>1, <2>9, <3>1, ReqTyped, WriteMoves DEF Publish
    <3>2. CASE ~Eligible(r, req[r].via)
      <4>1. UNCHANGED <<head, table, log>>
          BY <2>9, <3>2 DEF Publish
      <4> QED
          BY <2>2, <2>3, <4>1
    <3> QED
        BY <3>1, <3>2
  <2> QED
      BY <1>4, <2>4, <2>5, <2>6, <2>7, <2>8, <2>9 DEF Step
<1> QED
    BY <1>2, <1>3, <1>4 DEF Next

\* A storage that nobody has used keeps the contract.
LEMMA Unused ==
    ASSUME Init, NEW s \in Storage
    PROVE  /\ head[s] = NoHead /\ Live(s) = Unedited /\ Applied(s) = {}
           /\ Asked(s) = [e \in Request |-> {}] /\ Looked(s) = [e \in Request |-> 0]
<1>1. head[s] = NoHead /\ KeyOf(s, NoHead) \in Key /\ log[s] = <<>>
    BY Keys DEF Init
<1>2. Live(s) = Unedited
    BY <1>1 DEF Init, Live
<1>3. Applied(s) = {}
    BY <1>1 DEF Applied
<1>4. Idle.qs = {} /\ Idle.base = NoHead
    BY DEF Idle
<1>5. \A r \in Request : AskedOf(s, req[r]) = {} /\ ReadBy(s, req[r]) = 0
    BY <1>4, Heads DEF Init, AskedOf, ReadBy
<1> QED
    BY <1>1, <1>2, <1>3, <1>5 DEF Asked, Looked

\* Each storage with revisions keeps the contract of a hosted snapshot: a request of
\* a deployment replaces only the generation it has read, by a new one without any
\* edits, and an edit replaces exactly the queries it was asked for, or none.
THEOREM Contract == Spec => KeepsContract
<1>1. Init => Generation!CInit /\ Object!CInit
  <2>1. "generation" \in Storage /\ "object" \in Storage
      BY DEF Storage
  <2> QED
      BY <2>1, Unused, Heads DEF Generation!CInit, Object!CInit, Unedited
<1>2. ASSUME Inv, Bounds, [Next]_vars
      PROVE  [Generation!CNext]_(Generation!cvars)
  <2> DEFINE t == "generation"
  <2>1. Moved(t)
      BY <1>2, Moving DEF Revised
  <2>2. CASE Unmoving(t)
      BY <2>2 DEF Unmoving, Same, Generation!cvars, Generation!data
  <2>3. ASSUME NEW r \in Request, Came(t, r) PROVE Generation!CNext
    <3>1. PICK qs \in (SUBSET Query) \ {{}} : Asked(t)' = [Asked(t) EXCEPT ![r] = qs]
        BY <2>3 DEF Came
    <3>2. Generation!CArrive(r, qs)
        BY <2>3, <3>1 DEF Came, Same, Generation!CArrive, Generation!data
    <3> QED
        BY <3>2 DEF Generation!CNext
  <2>4. ASSUME NEW r \in Request, TurnedDown(t, r) PROVE Generation!CNext
      BY <2>4 DEF TurnedDown, Same, Generation!CNext, Generation!CRefuse, Generation!data
  <2>5. ASSUME NEW r \in Request, LookedUp(t, r) PROVE Generation!CNext
      BY <2>5 DEF LookedUp, Same, Generation!CNext, Generation!CLook, Generation!data
  <2>6. ASSUME NEW r \in Request, Activated(t, r) PROVE Generation!CNext
      BY <2>6 DEF Activated, Unedited, Generation!CNext, Generation!CActivate
  <2>7. ASSUME NEW r \in Request, EditedBy(t, r) PROVE Generation!CNext
    <3>1. Generation!CEdit(r)
        BY <2>7 DEF EditedBy, Edited, Generation!CEdit
    <3> QED
        BY <3>1 DEF Generation!CNext
  <2> QED
      BY <2>1, <2>2, <2>3, <2>4, <2>5, <2>6, <2>7 DEF Moved
<1>3. ASSUME Inv, Bounds, [Next]_vars
      PROVE  [Object!CNext]_(Object!cvars)
  <2> DEFINE t == "object"
  <2>1. Moved(t)
      BY <1>3, Moving DEF Revised
  <2>2. CASE Unmoving(t)
      BY <2>2 DEF Unmoving, Same, Object!cvars, Object!data
  <2>3. ASSUME NEW r \in Request, Came(t, r) PROVE Object!CNext
    <3>1. PICK qs \in (SUBSET Query) \ {{}} : Asked(t)' = [Asked(t) EXCEPT ![r] = qs]
        BY <2>3 DEF Came
    <3>2. Object!CArrive(r, qs)
        BY <2>3, <3>1 DEF Came, Same, Object!CArrive, Object!data
    <3> QED
        BY <3>2 DEF Object!CNext
  <2>4. ASSUME NEW r \in Request, TurnedDown(t, r) PROVE Object!CNext
      BY <2>4 DEF TurnedDown, Same, Object!CNext, Object!CRefuse, Object!data
  <2>5. ASSUME NEW r \in Request, LookedUp(t, r) PROVE Object!CNext
      BY <2>5 DEF LookedUp, Same, Object!CNext, Object!CLook, Object!data
  <2>6. ASSUME NEW r \in Request, Activated(t, r) PROVE Object!CNext
      BY <2>6 DEF Activated, Unedited, Object!CNext, Object!CActivate
  <2>7. ASSUME NEW r \in Request, EditedBy(t, r) PROVE Object!CNext
    <3>1. Object!CEdit(r)
        BY <2>7 DEF EditedBy, Edited, Object!CEdit
    <3> QED
        BY <3>1 DEF Object!CNext
  <2> QED
      BY <2>1, <2>2, <2>3, <2>4, <2>5, <2>6, <2>7 DEF Moved
<1>4. Inv /\ Bounds /\ [Next]_vars /\ Inv' => Bounds'
    BY BoundsNext
<1> QED
    BY <1>1, <1>2, <1>3, <1>4, BoundsStart, Invariance, PTL
    DEF Spec, KeepsContract, Generation!CSpec, Object!CSpec
=============================================================================
