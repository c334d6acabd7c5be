----------------------- MODULE PresentationSyncProofs -----------------------
(***************************************************************************)
(* What PresentationSync keeps for any entries and values, any number of   *)
(* steps of the owner, saves of other tabs and lost messages.              *)
(*                                                                         *)
(* The argument follows a single entry that nobody else has touched: the   *)
(* saves of one tab reach the server in the order they were begun, every   *)
(* save knows of the older ones that may still be stored, and the newest   *)
(* one that was stored is what the server holds.                           *)
(***************************************************************************)
EXTENDS PresentationSync, WellFoundedInduction, TLAPS

NoReply == [code : {0, 400, 503, 504}]
Reported == [code : {200, 409}, revision : Nat, value : Whole]
Draft == [generation : Nat \ {0}, base : Whole, value : Whole, pending : SUBSET Whole,
          action : Action]
Save == [generation : Nat \ {0}, base : Whole, value : Whole, pending : SUBSET Whole,
         action : Action, next : Whole, attempt : {0, 1}, from : Nat,
         at : {"server", "tab"}, reply : NoReply \cup Reported]

Sorts ==
    /\ server \in [revision : Nat, value : Whole]
    /\ shown \in Whole /\ baseline \in Whole /\ previous \in Whole /\ latest \in Whole
    /\ session \in {"none", "open", "saving"} /\ badge \in Action
    /\ status \in {"idle", "saving", "saved", "error"}
    /\ revision \in Nat /\ generation \in Nat /\ acknowledged \in Nat
    /\ timer = NoTimer \/ timer \in Draft
    /\ saves \subseteq Save /\ unsure \subseteq Entry

\* Every save has a number of its own.
Numbers ==
    /\ acknowledged <= generation
    /\ timer # NoTimer => timer.generation = generation
    /\ \A s \in saves : s.generation <= generation
    /\ \A r, s \in saves : r.generation = s.generation => r = s

\* A save that no newer one has made uninteresting, and one the server has stored
\* and whose answer is on its way.
Live(s) == s.generation > acknowledged
Stands(s) == s.at = "tab" /\ s.reply.code = 200
Counts(s) == s \in saves /\ Stands(s) /\ Live(s)
Waiting == IF timer = NoTimer THEN {} ELSE {timer}
ActionNow == IF session = "saving" THEN badge ELSE "none"

\* What the tab was told is of the past of the server.
Told ==
    /\ revision <= server.revision
    /\ \A s \in saves :
          /\ s.from <= revision
          /\ Stands(s) => s.reply.revision = s.from + 1 /\ s.reply.revision <= server.revision
          /\ s.at = "tab" /\ s.reply.code = 409 =>
                /\ s.from < s.reply.revision /\ s.reply.revision <= server.revision
                /\ s.reply.revision = server.revision => s.reply.value = server.value

\* Saves are sent from revisions in the order they were begun, so that no older one
\* is stored after a newer one, and the newest one's answer is news.
Ordered ==
    /\ timer # NoTimer => acknowledged < generation /\ \A s \in saves : s.generation # generation
    /\ \A s \in saves :
          /\ s.generation # acknowledged
          /\ s.generation < acknowledged /\ s.at = "server" => s.from < server.revision
          /\ s.generation = generation =>
                /\ revision <= s.from + 1
                /\ Stands(s) => revision <= s.from
    /\ \A r, s \in saves : r.generation < s.generation =>
          /\ r.from <= s.from
          /\ Stands(r) /\ Stands(s) => r.reply.revision < s.reply.revision

\* A save knows of every older one that may still count, and what the tab believes
\* saved is among what a save that counts was made against.
Knows(s) == \A r \in saves :
    Live(r) /\ r.generation < s.generation => r.value \in s.pending \cup {s.value}
Against(s) ==
    Live(s) => \E p \in {s.base, s.value} \cup s.pending : SameEdits(previous, p)
Aware == \A s \in saves \cup Waiting : Knows(s) /\ Against(s)

\* The newest stored save that counts, or what the tab believes saved, is what the
\* server holds.
Newest(s) == Counts(s) /\ \A r \in saves : Counts(r) => r.generation <= s.generation
Holding(f) ==
    /\ previous[f] = latest[f]
    /\ \A s \in saves : Newest(s) => server.value[f] = s.value[f]
    /\ (\A s \in saves : ~Counts(s)) => server.value[f] = previous[f]
    /\ \A s \in saves : Live(s) =>
          /\ Stands(s) => s.reply.value[f] = s.value[f]
          /\ s.at = "server" /\ s.from = server.revision => s.next[f] = s.value[f]
Holds1 == \A f \in Field \ unsure : Holding(f)

\* What a save leaves out is known to be unsure.
Spared == \A s \in saves : LeftOut(s) \subseteq unsure

\* What waits, or is the newest under way, is what the tab means to keep; else there
\* is nothing more to save, unless an error is shown.
Coming == timer # NoTimer \/ \E s \in saves : s.generation = generation
Calm ==
    /\ SameEdits(Current, previous)
    /\ \A s \in saves : Live(s) => SameEdits(s.value, Current)
Rest ==
    /\ timer = NoTimer /\ Current = previous /\ acknowledged = generation
    /\ ActionNow = "none"
    /\ Badge \notin unsure => server.value[Badge] = previous[Badge]
Means ==
    /\ previous[Badge] = latest[Badge]
    /\ timer # NoTimer => timer.value = Current
    /\ \A s \in saves : s.generation = generation =>
          /\ s.value = Current
          /\ Stands(s) /\ Badge \notin unsure => server.value[Badge] = s.reply.value[Badge]
    /\ status = "saving" => Coming \/ Calm
    /\ status \in {"idle", "saved"} => Rest

Inv == Sorts /\ Numbers /\ Told /\ Ordered /\ Aware /\ Holds1 /\ Spared /\ Means

-----------------------------------------------------------------------------
(* The operators.                                                          *)

\* What an entry can hold, whichever it is.
LEMMA HoldsType ==
    ASSUME NEW p, p \in [Entry -> Value \cup {Granted}], \A e \in Entry : p[e] \in Holds(e)
    PROVE  p \in Whole
BY DEF Whole

LEMMA WholeEntry ==
    ASSUME NEW p \in Whole
    PROVE  /\ p \in [Entry -> Value \cup {Granted}]
           /\ \A e \in Entry : p[e] \in Holds(e)
BY DEF Whole

LEMMA ChangeType ==
    ASSUME NEW p \in Whole, NEW e \in Entry, NEW v \in Holds(e)
    PROVE  /\ [p EXCEPT ![e] = v] \in Whole
           /\ [p EXCEPT ![e] = v][e] = v
           /\ \A d \in Entry \ {e} : [p EXCEPT ![e] = v][d] = p[d]
<1>1. v \in Value \cup {Granted}
    BY PresentationAssumption DEF Holds
<1> QED
    BY <1>1 DEF Whole

\* Two presentations that agree on every entry are the same.
LEMMA WholeEqual ==
    ASSUME NEW p \in Whole, NEW q \in Whole, SameEdits(p, q), p[Badge] = q[Badge]
    PROVE  p = q
BY DEF Whole, SameEdits, Entry

\* A merge holds, entry by entry, the tab's value or the stored one.
LEMMA MergeType ==
    ASSUME NEW base \in Whole, NEW value \in Whole, NEW stored \in Whole, NEW pending
    PROVE  /\ Merge(base, value, stored, pending) \in Whole
           /\ \A e \in Entry : Merge(base, value, stored, pending)[e] =
                 IF Intends(base, value, pending, e) THEN value[e] ELSE stored[e]
<1>1. \A e \in Entry : value[e] \in Holds(e) /\ stored[e] \in Holds(e)
                       /\ value[e] \in Value \cup {Granted} /\ stored[e] \in Value \cup {Granted}
    BY WholeEntry
<1> QED
    BY <1>1 DEF Merge, Whole

\* What a save is persisted from is a presentation, with the badge that is shown.
LEMMA PersistedType ==
    ASSUME NEW shows \in Whole, NEW state, NEW start \in Whole
    PROVE  /\ Persisted(shows, state, start) \in Whole
           /\ Persisted(shows, state, start)[Badge] = shows[Badge]
           /\ \A f \in Field : Persisted(shows, state, start)[f] =
                 IF state = "open" THEN start[f] ELSE shows[f]
<1>1. \A e \in Entry : shows[e] \in Holds(e) /\ start[e] \in Holds(e)
                       /\ shows[e] \in Value \cup {Granted} /\ start[e] \in Value \cup {Granted}
    BY WholeEntry
<1> QED
    BY <1>1, PresentationAssumption DEF Persisted, Whole, Entry

-----------------------------------------------------------------------------
(* The effect.                                                             *)

\* React's effect is run or is not: nothing it depends on has changed, there is
\* nothing to save, or a save is planned.
Same(says) ==
    /\ Current' = Current /\ ActionNow' = ActionNow
    /\ status' = says /\ UNCHANGED <<generation, timer>>
Drops(says) ==
    /\ Current' = previous' /\ ActionNow' = "none"
    /\ \A s \in saves' : Live(s)' => s.value = Current'
    /\ status' = says /\ timer' = NoTimer /\ UNCHANGED generation
Unsaved == {s.value : s \in {o \in saves : Live(o)}}
Plans ==
    /\ generation' = generation + 1 /\ status' = "saving"
    /\ timer' = [generation |-> generation + 1, base |-> previous', value |-> Current',
                 pending |-> Unsaved' \ {Current'}, action |-> ActionNow']
Effect(says) == Same(says) \/ Drops(says) \/ Plans

LEMMA RenderEffect ==
    ASSUME NEW shows, NEW state, NEW start, NEW mark, NEW says, NEW forced \in BOOLEAN,
           Render(shows, state, start, mark, says, forced)
    PROVE  /\ Effect(says)
           /\ shown' = shows /\ baseline' = start /\ badge' = mark
           /\ session' = state \/ (state = "saving" /\ session' = "none")
<1> DEFINE closes == state = "saving" /\ SameEdits(shows, start) /\ mark = "none"
           now == IF closes THEN "none" ELSE state
           action == IF now = "saving" THEN mark ELSE "none"
           value == Persisted(shows, now, start)
<1>1. /\ shown' = shows /\ session' = now /\ baseline' = start /\ badge' = mark
      /\ IF \/ forced
            \/ value # Persisted(shown, session, baseline)
            \/ action # IF session = "saving" THEN badge ELSE "none"
         THEN Schedule(value, action, says)
         ELSE status' = says /\ UNCHANGED <<generation, timer>>
    BY DEF Render
<1>2. Current' = value /\ ActionNow' = action
    BY <1>1 DEF Current, ActionNow
<1> HIDE DEF value, action
<1>3. ASSUME Schedule(value, action, says) PROVE Effect(says)
  <2>1. {s.value : s \in {o \in saves' : o.generation > acknowledged'}} = Unsaved'
    BY DEF Unsaved, Live
  <2>2. CASE value = previous' /\ action = "none" /\ Unsaved' \ {value} = {}
    <3>1. timer' = NoTimer /\ status' = says /\ UNCHANGED generation
      BY <1>3, <2>1, <2>2 DEF Schedule
    <3>2. \A s \in saves' : Live(s)' => s.value \in Unsaved'
      BY <2>1 DEF Live
    <3>3. \A s \in saves' : Live(s)' => s.value = value
      <4>1. \A v \in Unsaved' : v = value
        BY <2>2
      <4> HIDE DEF Unsaved, Live
      <4> QED
        BY <3>2, <4>1
    <3>4. Drops(says)
      BY <1>2, <2>2, <3>1, <3>3 DEF Drops
    <3> QED
      BY <3>4 DEF Effect
  <2>3. CASE ~(value = previous' /\ action = "none" /\ Unsaved' \ {value} = {})
    <3>1. /\ generation' = generation + 1 /\ status' = "saving"
          /\ timer' = [generation |-> generation + 1, base |-> previous', value |-> value,
                       pending |-> Unsaved' \ {value}, action |-> action]
      BY <1>3, <2>1, <2>3 DEF Schedule
    <3>2. Plans
      BY <1>2, <3>1 DEF Plans
    <3> QED
      BY <3>2 DEF Effect
  <2> QED
    BY <2>2, <2>3
<1>4. ASSUME ~Schedule(value, action, says) PROVE Effect(says)
    BY <1>1, <1>2, <1>4 DEF Effect, Same, Current, ActionNow
<1> QED
    BY <1>1, <1>3, <1>4

-----------------------------------------------------------------------------
(* The initial state.                                                      *)

LEMMA BlankType == NoTimer \notin Draft /\ 0 \in Nat
<1>1. \A d \in Draft : d.generation # 0
    BY DEF Draft
<1> QED
    BY <1>1 DEF NoTimer

LEMMA InvInit == Init => Inv
<1> SUFFICES ASSUME Init PROVE Inv
    OBVIOUS
<1>1. server.value \in Whole /\ server \in [revision : Nat, value : Whole] /\ server.revision = 0
    BY DEF Init, Opening
<1>2. Sorts
    BY <1>1 DEF Init, Sorts, Action
<1>3. Current = previous
  <2>1. Current \in Whole /\ Current[Badge] = shown[Badge] /\ \A f \in Field : Current[f] = shown[f]
    BY <1>2, PersistedType DEF Sorts, Current, Init
  <2> QED
    BY <1>2, <2>1, WholeEqual DEF Init, SameEdits, Sorts
<1>4. Numbers /\ Told /\ Ordered /\ Aware
    BY <1>1 DEF Init, Numbers, Told, Ordered, Aware, Waiting
<1>5. Holds1 /\ Spared /\ Means
    BY <1>3 DEF Init, Holds1, Spared, Holding, Newest, Counts, Means, Rest, ActionNow
<1> QED
    BY <1>2, <1>4, <1>5 DEF Inv

-----------------------------------------------------------------------------
(* A turn: the owner acts, or an answer that says nothing of the server     *)
(* comes in.                                                               *)

Kinds ==
    /\ shown' \in Whole /\ baseline' \in Whole
    /\ session' \in {"none", "open", "saving"} /\ badge' \in Action

LEMMA CurrentType ==
    ASSUME Kinds
    PROVE  /\ Current' \in Whole /\ ActionNow' \in Action
           /\ Current'[Badge] = shown'[Badge]
           /\ \A f \in Field : Current'[f] = IF session' = "open" THEN baseline'[f] ELSE shown'[f]
BY PersistedType DEF Kinds, Current, ActionNow, Action

Turn(says) ==
    /\ UNCHANGED <<server, heard, unsure>>
    /\ saves' \subseteq saves
    /\ \A s \in saves \ saves' : ~Counts(s) /\ (s.generation = generation => says = "error")
    /\ says \in {status, "error"} /\ Kinds /\ Effect(says)

\* Whatever the effect does, the timer and the numbers fit the saves there are.
LEMMA EffectType ==
    ASSUME Sorts, Numbers, Kinds, NEW says \in {"idle", "saving", "saved", "error"}, Effect(says),
           saves' \subseteq Save, previous' \in Whole, acknowledged' \in Nat,
           acknowledged' <= generation, timer # NoTimer => acknowledged' < generation,
           \A s \in saves' : s.generation <= generation
    PROVE  /\ status' \in {"idle", "saving", "saved", "error"}
           /\ generation' \in {generation, generation + 1}
           /\ timer' = NoTimer \/ timer' \in Draft
           /\ timer' # NoTimer => timer'.generation = generation' /\ acknowledged' < generation'
           /\ acknowledged' <= generation' /\ \A s \in saves' : s.generation <= generation'
<1>0. generation \in Nat /\ \A s \in saves' : s.generation \in Nat
    BY DEF Sorts, Save
<1>1. CASE Same(says)
    BY <1>1, <1>0 DEF Same, Sorts, Numbers
<1>2. CASE Drops(says)
    BY <1>2, <1>0 DEF Drops
<1>3. CASE Plans
  <2>1. Unsaved' \subseteq Whole
    BY DEF Unsaved, Save
  <2>2. timer' \in Draft /\ timer'.generation = generation'
    BY <1>0, <1>3, <2>1, CurrentType DEF Plans, Draft
  <2> QED
    BY <1>0, <1>3, <2>2 DEF Plans
<1> QED
    BY <1>1, <1>2, <1>3 DEF Effect

\* ... and the save that is planned knows of all the others.
LEMMA EffectAware ==
    ASSUME Sorts, NEW says, Effect(says), \A s \in saves' : Knows(s)' /\ Against(s)',
           timer' = timer /\ timer # NoTimer => Knows(timer)' /\ Against(timer)'
    PROVE  Aware'
<1>1. CASE Same(says) \/ Drops(says)
    BY <1>1 DEF Same, Drops, Aware, Waiting, Knows, Against
<1>2. CASE Plans
  <2>1. timer'.base = previous' /\ timer'.value = Current' /\ timer'.pending = Unsaved' \ {Current'}
    BY <1>2 DEF Plans
  <2>2. Against(timer)'
    BY <2>1 DEF Against, SameEdits
  <2>3. Knows(timer)'
    BY <2>1 DEF Knows, Unsaved
  <2> QED
    BY <2>2, <2>3 DEF Aware, Waiting
<1> QED
    BY <1>1, <1>2 DEF Effect

LEMMA TurnNext ==
    ASSUME Inv, NEW says, Turn(says)
    PROVE  Inv'
<1>0. /\ Sorts /\ Numbers /\ Told /\ Ordered /\ Aware /\ Holds1 /\ Means
      /\ Kinds /\ Effect(says) /\ says \in {"idle", "saving", "saved", "error"}
      /\ saves' \subseteq saves /\ saves' \subseteq Save /\ saves \subseteq Save
      /\ server' = server /\ previous' = previous /\ latest' = latest /\ revision' = revision
      /\ acknowledged' = acknowledged /\ unsure' = unsure
    BY DEF Inv, Turn, heard, Sorts
<1>1. \A s : Live(s)' = Live(s) /\ Counts(s)' = Counts(s) /\ Newest(s)' = Newest(s)
  <2>1. \A s : Live(s)' = Live(s) /\ Counts(s)' = Counts(s)
    BY <1>0 DEF Turn, Counts, Live, Stands
  <2> QED
    BY <2>1, <1>0 DEF Newest, Counts
<1>2. /\ status' \in {"idle", "saving", "saved", "error"}
      /\ generation' \in {generation, generation + 1} /\ generation \in Nat
      /\ timer' = NoTimer \/ timer' \in Draft
      /\ timer' # NoTimer => timer'.generation = generation' /\ acknowledged' < generation'
      /\ acknowledged' <= generation' /\ \A s \in saves' : s.generation <= generation'
    BY <1>0, EffectType DEF Sorts, Numbers, Ordered
<1>3. Sorts'
    BY <1>0, <1>2 DEF Sorts, Kinds
<1>4. Numbers'
    BY <1>0, <1>2 DEF Numbers
<1>5. Told'
    BY <1>0 DEF Told, Stands
<1>6. Ordered'
  <2>1. \A s \in saves' : s.generation = generation' => generation' = generation
    BY <1>0, <1>2 DEF Numbers, Sorts, Save
  <2>2. timer' # NoTimer => \A s \in saves' : s.generation # generation'
    <3>1. timer' # NoTimer => timer' = timer \/ generation' = generation + 1
      BY <1>0 DEF Effect, Same, Drops, Plans
    <3>2. timer' = timer /\ timer' # NoTimer => generation' = generation
      BY <1>0, <1>2 DEF Numbers
    <3> QED
      BY <1>0, <1>2, <2>1, <3>1, <3>2 DEF Ordered
  <2> QED
    BY <1>0, <1>2, <2>1, <2>2 DEF Ordered, Stands
<1>7. Aware'
  <2>1. \A s \in saves \cup Waiting : Knows(s)' /\ Against(s)'
    BY <1>0 DEF Aware, Knows, Against, Live
  <2>2. timer' = timer /\ timer # NoTimer => Knows(timer)' /\ Against(timer)'
    BY <2>1 DEF Waiting, Knows, Against, Live
  <2> QED
    BY <1>0, <2>1, <2>2, EffectAware
<1>8. Holds1'
  <2> SUFFICES ASSUME NEW f \in Field \ unsure PROVE Holding(f)'
    BY <1>0 DEF Holds1
  <2>1. Holding(f)
    BY <1>0 DEF Holds1
  <2>2. \A s \in saves' : Newest(s)' => server'.value[f] = s.value[f]
    BY <1>0, <1>1, <2>1 DEF Holding
  <2>3. (\A s \in saves' : ~Counts(s)') => \A s \in saves : ~Counts(s)
    BY <1>1 DEF Counts
  <2>4. \A s \in saves' : Live(s)' =>
           /\ Stands(s)' => s.reply.value[f] = s.value[f]
           /\ s.at = "server" /\ s.from = server'.revision => s.next[f] = s.value[f]
    BY <1>0, <1>1, <2>1 DEF Holding, Stands
  <2> QED
    BY <1>0, <2>1, <2>2, <2>3, <2>4 DEF Holding
<1>9. Means'
  <2>1. CASE Same(says)
    <3>1. \A s \in saves : s.generation = generation /\ says # "error" => s \in saves'
      BY <1>0, <2>1 DEF Turn
    <3>2. status' = "saving" => (Coming \/ Calm)' /\ (says = status)
      BY <1>0, <1>1, <2>1, <3>1 DEF Same, Turn, Means, Coming, Calm
    <3>3. status' \in {"idle", "saved"} => Rest'
      BY <1>0, <2>1 DEF Same, Turn, Means, Rest
    <3> QED
      BY <1>0, <2>1, <3>2, <3>3 DEF Same, Means, Stands
  <2>2. CASE Drops(says)
    <3>1. \A s \in saves' : s.generation = generation' => s.value = Current'
      BY <1>0, <1>2, <1>6, <2>2 DEF Drops, Numbers, Ordered, Live, Sorts, Save
    <3>2. Calm'
      BY <2>2 DEF Drops, Calm, SameEdits
    <3>3. status' \in {"idle", "saved"} => Rest'
      BY <1>0, <2>2 DEF Drops, Turn, Means, Rest
    <3> QED
      BY <1>0, <2>2, <3>1, <3>2, <3>3 DEF Drops, Means, Stands
  <2>3. CASE Plans
    <3>1. timer' # NoTimer /\ timer'.value = Current'
      BY <1>2, <2>3 DEF Plans, NoTimer
    <3>2. \A s \in saves' : s.generation # generation'
      BY <1>6, <3>1 DEF Ordered
    <3> QED
      BY <1>0, <2>3, <3>1, <3>2 DEF Plans, Means, Coming
  <2> QED
    BY <1>0, <2>1, <2>2, <2>3 DEF Effect
<1>10. Spared'
    BY <1>0 DEF Inv, Spared, LeftOut, Reverts
<1> QED
    BY <1>3, <1>4, <1>5, <1>6, <1>7, <1>8, <1>9, <1>10 DEF Inv

-----------------------------------------------------------------------------
(* Steps that are turns.                                                   *)

LEMMA OwnerTurn ==
    ASSUME Inv, Owner
    PROVE  Turn(status)
<1>0. Sorts
    BY DEF Inv
<1>1. ASSUME NEW shows \in Whole, NEW state \in {"none", "open", "saving"},
             NEW start \in Whole, NEW mark \in Action, NEW forced \in BOOLEAN,
             Act, Render(shows, state, start, mark, status, forced)
      PROVE  Turn(status)
  <2>1. Effect(status) /\ Kinds
    BY <1>1, RenderEffect DEF Kinds
  <2> QED
    BY <1>1, <2>1 DEF Turn, Act, heard
<1>2. CASE BeginEditing
    BY <1>0, <1>1, <1>2 DEF BeginEditing, Sorts
<1>3. ASSUME NEW f \in Field, NEW v \in Value, Change(f, v) PROVE Turn(status)
  <2>1. [shown EXCEPT ![f] = v] \in Whole
    BY <1>0, ChangeType, PresentationAssumption DEF Sorts, Holds, Entry
  <2> QED
    BY <1>0, <1>1, <1>3, <2>1 DEF Change, Sorts
<1>4. CASE ToggleVerified
    BY <1>0, <1>1, <1>4 DEF ToggleVerified, Toggled, Sorts, Action
<1>5. CASE CancelEditing
  <2>1. [baseline EXCEPT ![Badge] = shown[Badge]] \in Whole
    BY <1>0, ChangeType, WholeEntry DEF Sorts, Entry
  <2> QED
    BY <1>0, <1>1, <1>5, <2>1 DEF CancelEditing, Sorts, Action
<1>6. CASE SaveEditing
    BY <1>0, <1>1, <1>6 DEF SaveEditing, Sorts
<1>7. CASE SnapshotChanges
    BY <1>0, <1>1, <1>7 DEF SnapshotChanges, Sorts
<1> QED
    BY <1>2, <1>3, <1>4, <1>5, <1>6, <1>7 DEF Owner

\* What an answer does that changes nothing the tab shows.
LEMMA StillTurn ==
    ASSUME Inv, UNCHANGED <<edit, effect>>
    PROVE  Effect(status) /\ Kinds
BY DEF Inv, Sorts, edit, effect, Kinds, Effect, Same, Current, ActionNow

LEMMA FailTurn ==
    ASSUME Inv, NEW s \in saves, Fail(s)
    PROVE  Turn("error") \/ Turn(status)
<1>0. Sorts /\ Numbers /\ s.reply.code # 200
    BY DEF Inv, Fail
<1>1. UNCHANGED <<server, heard, unsure>> /\ saves' = saves \ {s} /\ ~Counts(s)
    BY <1>0 DEF Fail, Here, Counts, Stands
<1>2. CASE Superseded(s)
  <2>1. s.generation # generation /\ UNCHANGED <<edit, effect>>
    BY <1>0, <1>2 DEF Superseded, Sorts, Save, Fail
  <2>2. Effect(status) /\ Kinds
    BY <2>1, StillTurn
  <2> QED
    BY <1>1, <2>1, <2>2 DEF Turn
<1>3. CASE ~Superseded(s)
  <2>0. Render(shown, IF session = "saving" THEN "open" ELSE session, baseline, badge,
               "error", FALSE)
    BY <1>3 DEF Fail
  <2>1. Effect("error") /\ Kinds
    BY <1>0, <2>0, RenderEffect, FALSE \in BOOLEAN DEF Kinds, Sorts
  <2> QED
    BY <1>1, <2>1 DEF Turn
<1> QED
    BY <1>2, <1>3

\* An answer is passed over as old news only if a newer save was begun.
LEMMA IgnoredOld ==
    ASSUME Inv, NEW s \in saves, s.at = "tab", Ignores(s)
    PROVE  s.generation # generation
<1>0. /\ s \in Save /\ acknowledged \in Nat /\ generation \in Nat /\ revision \in Nat
      /\ acknowledged <= generation /\ s.generation \in Nat /\ s.from \in Nat
    BY DEF Inv, Sorts, Numbers, Save
<1>1. SUFFICES ASSUME s.generation = generation PROVE FALSE
    OBVIOUS
<1>2. revision <= s.from + 1 /\ (Stands(s) => revision <= s.from)
    BY <1>1 DEF Inv, Ordered
<1>3. CASE s.reply.code = 200 /\ s.reply.revision < revision
    BY <1>0, <1>2, <1>3 DEF Inv, Told, Stands
<1>4. CASE s.reply.code = 409 /\ s.reply.revision < revision
  <2>1. s.reply.revision \in Nat /\ s.from < s.reply.revision
    BY <1>0, <1>4 DEF Inv, Told, Save, NoReply, Reported
  <2> QED
    BY <1>0, <1>2, <1>4, <2>1
<1> QED
    BY <1>0, <1>1, <1>3, <1>4 DEF Ignores, Superseded

LEMMA IgnoreTurn ==
    ASSUME Inv, NEW s \in saves, Ignore(s), ~Counts(s)
    PROVE  Turn(status)
<1>0. Sorts /\ acknowledged \in Nat /\ s.generation \in Nat
    BY DEF Inv, Sorts, Save
<1>1. s.generation # generation
    BY IgnoredOld DEF Ignore, Here
<1>2. UNCHANGED <<edit, effect, heard, server>> /\ saves' = saves \ {s}
    BY DEF Ignore, Here
<1>3. unsure' = unsure
  <2>1. s.generation # acknowledged
    BY DEF Inv, Ordered
  <2> QED
    BY <1>0, <2>1 DEF Ignore, Here, Counts, Stands, Live
<1>4. Effect(status) /\ Kinds
    BY <1>2, StillTurn
<1> QED
    BY <1>1, <1>2, <1>3, <1>4 DEF Turn

LEMMA StutterTurn ==
    ASSUME Inv, UNCHANGED vars
    PROVE  Turn(status)
<1>1. Effect(status) /\ Kinds
    BY StillTurn DEF vars
<1> QED
    BY <1>1 DEF vars, Turn

-----------------------------------------------------------------------------
(* One save at a time.                                                     *)

\* t is what becomes of save s: another state of the same request.
Follows(t, s) ==
    /\ t \in Save /\ t.generation = s.generation /\ t.value = s.value /\ t.base = s.base
    /\ t.pending = s.pending

Answered(s, reply) == [s EXCEPT !.at = "tab", !.reply = reply]

LEMMA AnswerShape ==
    ASSUME NEW s \in Save, NEW reply \in NoReply \cup Reported
    PROVE  /\ Follows(Answered(s, reply), s) /\ Answered(s, reply).at = "tab"
           /\ Answered(s, reply).reply = reply /\ Answered(s, reply).from = s.from
           /\ Answered(s, reply).next = s.next
BY DEF Save, Follows, Answered

LEMMA SentShape ==
    ASSUME NEW s, s \in Draft \/ s \in Save, NEW next \in Whole, NEW attempt \in {0, 1},
           NEW from \in Nat, NEW t, t = Sent(s, next, attempt, from)
    PROVE  /\ Follows(t, s) /\ t.at = "server" /\ t.reply.code = 0 /\ t.from = from
           /\ t.next = next
<1>1. [code |-> 0] \in NoReply
    BY DEF NoReply
<1>2. s.generation \in Nat \ {0} /\ s.base \in Whole /\ s.value \in Whole
      /\ s.pending \in SUBSET Whole /\ s.action \in Action
    BY DEF Draft, Save
<1>3. t = [generation |-> s.generation, base |-> s.base, value |-> s.value,
           pending |-> s.pending, action |-> s.action,
           next |-> next, attempt |-> attempt, from |-> from, at |-> "server",
           reply |-> [code |-> 0]]
    BY DEF Sent
<1>4. t \in Save
    BY <1>1, <1>2, <1>3 DEF Save
<1> QED
    BY <1>3, <1>4 DEF Follows

\* What a step keeps that only moves one save on.
LEMMA Exchange ==
    ASSUME Inv, NEW s \in saves, NEW t, Follows(t, s), saves' = (saves \ {s}) \cup {t},
           UNCHANGED <<edit, effect, previous, latest, acknowledged>>,
           server' \in [revision : Nat, value : Whole], revision' \in Nat,
           unsure' \subseteq Entry, unsure \subseteq unsure'
    PROVE  /\ Sorts' /\ Numbers' /\ Aware' /\ Spared'
           /\ Current' = Current /\ ActionNow' = ActionNow
           /\ \A r : Live(r)' = Live(r)
           /\ (Coming \/ Calm) => (Coming \/ Calm)'
<1>0. Sorts /\ Numbers /\ Aware /\ t \in Save
    BY DEF Inv, Follows
<1>1. Sorts'
    BY <1>0 DEF Sorts, edit, effect
<1>2. Numbers'
    BY <1>0 DEF Numbers, Follows, edit, effect
<1>3. \A r : Live(r)' = Live(r)
    BY DEF Live
<1>4. Current' = Current /\ ActionNow' = ActionNow
    BY DEF Current, ActionNow, edit, effect
<1>5. Aware'
  <2>1. Waiting' = Waiting /\ previous' = previous
    BY DEF Waiting, effect
  <2>2. \A q \in saves \cup Waiting : Knows(q)' /\ Against(q)'
    <3> SUFFICES ASSUME NEW q \in saves \cup Waiting PROVE Knows(q)' /\ Against(q)'
      OBVIOUS
    <3>1. Knows(q) /\ Against(q)
      BY <1>0 DEF Aware
    <3>2. Knows(q)'
      BY <3>1, <1>3 DEF Knows, Follows, Live
    <3> QED
      BY <3>1, <3>2, <2>1, <1>3 DEF Against
  <2>3. Knows(t)'
    BY <2>2 DEF Follows, Knows
  <2>4. Against(t)'
    BY <2>2 DEF Follows, Against, Live
  <2> QED
    BY <2>1, <2>2, <2>3, <2>4 DEF Aware
<1>6. (Coming \/ Calm) => (Coming \/ Calm)'
    BY <1>3, <1>4 DEF Coming, Calm, Follows, Live, effect
<1>7. Spared'
  <2>1. LeftOut(t) = LeftOut(s)
    BY DEF Follows, LeftOut
  <2>2. \A r \in saves : LeftOut(r) \subseteq unsure'
    BY DEF Inv, Spared
  <2> QED
    BY <2>1, <2>2 DEF Spared, LeftOut, Reverts
<1> QED
    BY <1>1, <1>2, <1>3, <1>4, <1>5, <1>6, <1>7

\* What a save is not about the tab had saved, whatever older save is stored.
LEMMA Untouched ==
    ASSUME Inv, NEW s \in saves \cup Waiting, Live(s), NEW f \in Field,
           ~Intends(s.base, s.value, s.pending, f), f \notin LeftOut(s)
    PROVE  /\ previous[f] = s.value[f]
           /\ \A r \in saves : Live(r) /\ r.generation < s.generation => r.value[f] = s.value[f]
<1>1. Knows(s) /\ Against(s)
    BY DEF Inv, Aware
<1>2. s.base[f] = s.value[f] /\ \A p \in s.pending : p[f] = s.value[f]
    BY DEF Intends, LeftOut, Reverts
<1> QED
    BY <1>1, <1>2 DEF Knows, Against, SameEdits

\* Among saves that count one is the newest.
LEMMA Greatest ==
    ASSUME NEW T, T \subseteq Nat, T # {}, NEW b \in Nat, \A n \in T : n <= b
    PROVE  \E n \in T : \A m \in T : m <= n
<1> DEFINE D == {d \in Nat : \E n \in T : d = b - n}
<1>1. \A n \in T : b - n \in Nat /\ b - n \in D
    OBVIOUS
<1>2. D \subseteq Nat /\ D # {}
    BY <1>1
<1> HIDE DEF D
<1>3. IsWellFoundedOn(OpToRel(<, Nat), Nat)
    BY NatLessThanWellFounded
<1>4. PICK d \in D : \A e \in D : ~(<<e, d>> \in OpToRel(<, Nat))
    BY <1>2, <1>3, WFMin
<1>5. \A e \in D : ~(e < d)
    BY <1>2, <1>4 DEF OpToRel
<1>6. PICK n \in T : d = b - n
    BY DEF D
<1>7. ASSUME NEW m \in T PROVE m <= n
  <2>1. ~(b - m < b - n) /\ m \in Nat /\ n \in Nat
    BY <1>1, <1>5, <1>6
  <2> QED
    BY <2>1
<1> QED
    BY <1>7

LEMMA SomeNewest ==
    ASSUME Inv, NEW s, Counts(s)
    PROVE  \E r \in saves : Newest(r)
<1> DEFINE T == {r.generation : r \in {q \in saves : Counts(q)}}
<1>1. T \subseteq Nat /\ generation \in Nat /\ \A n \in T : n <= generation
    BY DEF Inv, Sorts, Numbers, Save
<1>2. T # {}
    BY DEF Counts
<1>3. PICK n \in T : \A m \in T : m <= n
    BY <1>1, <1>2, Greatest
<1>4. PICK r \in saves : Counts(r) /\ n = r.generation
    OBVIOUS
<1> QED
    BY <1>3, <1>4 DEF Newest

\* Where a live save and every newer one are about nothing, the server holds what the
\* save would store.
LEMMA ServerHolds ==
    ASSUME Inv, NEW s \in saves, Live(s), NEW f \in Field \ unsure,
           ~Intends(s.base, s.value, s.pending, f),
           \A r \in saves : Counts(r) => r.generation < s.generation
    PROVE  server.value[f] = s.value[f]
<1>1. Holding(f) /\ f \notin LeftOut(s)
    BY DEF Inv, Holds1, Spared
<1>2. CASE \E r \in saves : Counts(r)
  <2>1. PICK r \in saves : Newest(r)
    BY <1>2, SomeNewest
  <2>2. server.value[f] = r.value[f] /\ Live(r) /\ r.generation < s.generation
    BY <1>1, <2>1 DEF Holding, Newest, Counts
  <2> QED
    BY <1>1, <2>2, Untouched
<1>3. CASE \A r \in saves : ~Counts(r)
    BY <1>1, <1>3, Untouched DEF Holding
<1> QED
    BY <1>2, <1>3

-----------------------------------------------------------------------------
(* The worker's answers.                                                   *)

\* A refused save, or a request that is lost, moves nothing but the save.
Refused(s, reply) ==
    /\ s.at = "server" /\ reply \in NoReply \cup Reported
    /\ reply.code # 200
    /\ reply.code = 409 => /\ s.from < server.revision
                           /\ reply.revision = server.revision /\ reply.value = server.value
    /\ Answer(s, reply) /\ UNCHANGED <<server, unsure>>

LEMMA RefusedNext ==
    ASSUME Inv, NEW s \in saves, NEW reply, Refused(s, reply)
    PROVE  Inv'
<1>0. Sorts /\ Numbers /\ Told /\ Ordered /\ Holds1 /\ Means /\ s \in Save
    BY DEF Inv, Sorts
<1>1. PICK t : t = Answered(s, reply)
    OBVIOUS
<1>2. /\ Follows(t, s) /\ t.at = "tab" /\ t.reply = reply /\ t.from = s.from /\ t.next = s.next
      /\ t \in Save
  <2>1. reply \in NoReply \cup Reported
    BY DEF Refused
  <2>2. Follows(t, s) /\ t.at = "tab" /\ t.reply = reply /\ t.from = s.from /\ t.next = s.next
    BY <1>0, <1>1, <2>1, AnswerShape
  <2> QED
    BY <2>2 DEF Follows
<1>3. /\ saves' = (saves \ {s}) \cup {t} /\ UNCHANGED <<edit, effect, heard, server, unsure>>
      /\ s.at = "server"
    BY <1>1 DEF Refused, Answer, Answered
<1>4. /\ Sorts' /\ Numbers' /\ Aware' /\ Spared' /\ Current' = Current /\ ActionNow' = ActionNow
      /\ \A r : Live(r)' = Live(r)
      /\ (Coming \/ Calm) => (Coming \/ Calm)'
    BY <1>0, <1>2, <1>3, Exchange DEF heard, Sorts
<1>5. ~Stands(t) /\ ~Stands(s)
    BY <1>2, <1>3 DEF Stands, Refused
<1>6. Told'
  <2>1. t.reply.code = 409 =>
           /\ t.from < t.reply.revision /\ t.reply.revision <= server.revision
           /\ t.reply.revision = server.revision => t.reply.value = server.value
    BY <1>0, <1>2 DEF Refused, Sorts
  <2>2. t.from <= revision
    BY <1>0, <1>2 DEF Told
  <2> QED
    BY <1>0, <1>3, <1>5, <2>1, <2>2 DEF Told, Stands, heard
<1>7. Ordered'
    BY <1>0, <1>2, <1>3, <1>5 DEF Ordered, Follows, Stands, heard, effect
<1>8. \A r : Counts(r)' = Counts(r) /\ Newest(r)' = Newest(r)
  <2>1. \A r : Counts(r)' = Counts(r)
    BY <1>3, <1>4, <1>5 DEF Counts, Stands
  <2> QED
    BY <1>3, <1>5, <2>1 DEF Newest, Counts
<1>9. Holds1'
  <2> SUFFICES ASSUME NEW f \in Field \ unsure PROVE Holding(f)'
    BY <1>3 DEF Holds1
  <2>1. Holding(f)
    BY <1>0 DEF Holds1
  <2>2. \A r \in saves' : Newest(r)' => server'.value[f] = r.value[f]
    BY <1>3, <1>8, <2>1 DEF Holding, Newest, Counts
  <2>3. (\A r \in saves' : ~Counts(r)') => \A r \in saves : ~Counts(r)
    BY <1>8 DEF Counts
  <2>4. \A r \in saves' : Live(r)' =>
           /\ Stands(r)' => r.reply.value[f] = r.value[f]
           /\ r.at = "server" /\ r.from = server'.revision => r.next[f] = r.value[f]
    BY <1>2, <1>3, <1>4, <1>5, <2>1 DEF Holding, Stands
  <2> QED
    BY <1>3, <2>1, <2>2, <2>3, <2>4 DEF Holding, heard
<1>10. Means'
  <2>1. status' \in {"idle", "saved"} => Rest'
    BY <1>0, <1>3, <1>4 DEF Means, Rest, effect, heard
  <2>2. \A r \in saves' : r.generation = generation' =>
           /\ r.value = Current'
           /\ Stands(r)' /\ Badge \notin unsure' => server'.value[Badge] = r.reply.value[Badge]
    BY <1>0, <1>2, <1>3, <1>4, <1>5 DEF Means, Follows, Stands, effect
  <2> QED
    BY <1>0, <1>3, <1>4, <2>1, <2>2 DEF Means, effect, heard
<1> QED
    BY <1>4, <1>6, <1>7, <1>9, <1>10 DEF Inv

\* A save the server stores: its answer comes back, or is lost and so are its entries.
Taken(s, reply) ==
    /\ s.at = "server" /\ Accepts(s) /\ server' = Stored(s)
    /\ \/ reply = Held(200, Stored(s)) /\ UNCHANGED unsure
       \/ reply = [code |-> 504] /\ unsure' = unsure \cup Asks(s)
    /\ Answer(s, reply)

LEMMA StoredType ==
    ASSUME Inv, NEW s \in saves
    PROVE  /\ Stored(s) \in [revision : Nat, value : Whole]
           /\ Stored(s).revision = server.revision + 1
           /\ \A f \in Field : Stored(s).value[f] = s.next[f]
           /\ Held(200, Stored(s)) \in Reported
           /\ Held(200, Stored(s)).revision = Stored(s).revision
           /\ Held(200, Stored(s)).value = Stored(s).value
           /\ Held(200, Stored(s)).code = 200
<1>1. s.next \in Whole /\ server.revision \in Nat
    BY DEF Inv, Sorts, Save
<1>2. BadgeOf(s) \in Holds(Badge)
    BY <1>1, WholeEntry DEF BadgeOf, Holds, Entry
<1>3. /\ [s.next EXCEPT ![Badge] = BadgeOf(s)] \in Whole
      /\ \A f \in Field : [s.next EXCEPT ![Badge] = BadgeOf(s)][f] = s.next[f]
    BY <1>1, <1>2, ChangeType, PresentationAssumption DEF Entry
<1> QED
    BY <1>1, <1>3 DEF Stored, Held, Reported

LEMMA TakenNext ==
    ASSUME Inv, NEW s \in saves, NEW reply, Taken(s, reply)
    PROVE  Inv'
<1>0. Sorts /\ Numbers /\ Told /\ Ordered /\ Holds1 /\ Means /\ s \in Save
    BY DEF Inv, Sorts
<1>1. reply \in NoReply \cup Reported /\ reply.code # 409
    BY StoredType DEF Taken, NoReply
<1>2. PICK t : t = Answered(s, reply)
    OBVIOUS
<1>3. Follows(t, s) /\ t.at = "tab" /\ t.reply = reply /\ t.from = s.from /\ t.next = s.next
    BY <1>0, <1>1, <1>2, AnswerShape
<1>4. /\ saves' = (saves \ {s}) \cup {t} /\ UNCHANGED <<edit, effect, heard>>
      /\ s.at = "server" /\ s.from = server.revision /\ t \in Save
    BY <1>2, <1>3 DEF Taken, Answer, Answered, Accepts, Follows
<1>5. /\ server' \in [revision : Nat, value : Whole] /\ server'.revision = server.revision + 1
      /\ \A f \in Field : server'.value[f] = s.next[f]
      /\ unsure' \subseteq Entry /\ unsure \subseteq unsure'
    BY <1>0, StoredType DEF Taken, Asks, Sorts
<1>6. /\ Sorts' /\ Numbers' /\ Aware' /\ Spared' /\ Current' = Current /\ ActionNow' = ActionNow
      /\ \A r : Live(r)' = Live(r)
      /\ (Coming \/ Calm) => (Coming \/ Calm)'
  <2>1. UNCHANGED <<edit, effect, previous, latest, acknowledged>> /\ revision' \in Nat
    BY <1>0, <1>4 DEF heard, Sorts
  <2> QED
    BY <1>3, <1>4, <1>5, <2>1, Exchange
<1>7. Stands(t) => /\ t.reply.revision = server'.revision /\ t.reply.value = server'.value
                   /\ unsure' = unsure
    BY <1>3, StoredType DEF Taken, Stands
<1>8. /\ server.revision \in Nat /\ revision \in Nat /\ generation \in Nat /\ acknowledged \in Nat
      /\ revision <= server.revision /\ acknowledged <= generation
      /\ \A r \in saves : r.generation \in Nat /\ r.from \in Nat /\ r.from <= revision
                          /\ r.generation <= generation
      /\ \A r \in saves : Stands(r) => r.reply.revision \in Nat
    BY <1>0 DEF Sorts, Save, Told, Numbers
<1>9. Live(s)
    BY <1>0, <1>4, <1>8 DEF Ordered, Live
\* No newer save stands: it would have been sent from a later revision.
<1>10. \A r \in saves : Stands(r) => r # s /\ r.generation < s.generation
  <2> SUFFICES ASSUME NEW r \in saves, Stands(r) PROVE r # s /\ r.generation < s.generation
    OBVIOUS
  <2>1. r # s /\ r.generation # s.generation
    BY <1>0, <1>4 DEF Stands, Numbers
  <2>2. r.from + 1 <= server.revision
    BY <1>0 DEF Told
  <2>3. s.generation < r.generation => s.from <= r.from
    BY <1>0 DEF Ordered
  <2> QED
    BY <1>4, <1>8, <2>1, <2>2, <2>3
<1>11. Told'
  <2>1. revision' <= server'.revision
    BY <1>4, <1>5, <1>8 DEF heard
  <2>2. t.from <= revision' /\ (Stands(t) => t.reply.revision = t.from + 1)
    BY <1>3, <1>4, <1>5, <1>7, <1>8 DEF heard
  <2>3. t.reply.code # 409
    BY <1>1, <1>3
  <2>4. \A r \in saves : r.at = "tab" /\ r.reply.code = 409 =>
           r.reply.revision \in Nat /\ r.reply.revision < server'.revision
                /\ r.from < r.reply.revision
    BY <1>0, <1>5, <1>8 DEF Told, Sorts, Save, NoReply, Reported
  <2>5. \A r \in saves : Stands(r) => r.reply.revision = r.from + 1
                                      /\ r.reply.revision <= server'.revision
    BY <1>0, <1>5, <1>8 DEF Told
  <2>6. server'.revision \in Nat
    BY <1>5
  <2> QED
    BY <1>4, <1>7, <1>8, <2>1, <2>2, <2>3, <2>4, <2>5, <2>6 DEF Told, Stands, heard
<1>12. Ordered'
  <2>1. \A r \in saves' : r.generation = generation' => revision' <= r.from + 1
                                                        /\ (Stands(r)' => revision' <= r.from)
    BY <1>0, <1>3, <1>4, <1>8 DEF Ordered, Follows, Stands, effect, heard
  <2>2. \A q, r \in saves' : q.generation < r.generation =>
           q.from <= r.from /\ (Stands(q)' /\ Stands(r)' => q.reply.revision < r.reply.revision)
    <3> SUFFICES ASSUME NEW q \in saves', NEW r \in saves', q.generation < r.generation
          PROVE  /\ q.from <= r.from
                 /\ Stands(q) /\ Stands(r) => q.reply.revision < r.reply.revision
      BY DEF Stands
    <3>1. CASE q = t
      BY <1>0, <1>3, <1>4, <1>8, <1>10, <3>1 DEF Follows, Ordered
    <3>2. CASE r = t /\ q # t
      <4>1. Stands(q) => q.reply.revision <= server.revision
        BY <1>0, <1>4, <3>2 DEF Told
      <4> QED
        BY <1>0, <1>3, <1>4, <1>5, <1>7, <1>8, <3>2, <4>1 DEF Follows, Ordered
    <3>3. CASE q # t /\ r # t
      BY <1>0, <1>4, <3>3 DEF Ordered
    <3> QED
      BY <3>1, <3>2, <3>3
  <2>3. \A r \in saves' : /\ r.generation # acknowledged'
                          /\ r.generation < acknowledged' /\ r.at = "server"
                                => r.from < server'.revision
    BY <1>0, <1>3, <1>4, <1>5, <1>8 DEF Ordered, Follows, heard
  <2>4. timer' # NoTimer => /\ acknowledged' < generation'
                            /\ \A r \in saves' : r.generation # generation'
    BY <1>0, <1>3, <1>4 DEF Ordered, Follows, effect, heard
  <2> QED
    BY <2>1, <2>2, <2>3, <2>4 DEF Ordered
<1>13. Holds1'
  <2> SUFFICES ASSUME NEW f \in Field, f \notin unsure' PROVE Holding(f)'
    BY DEF Holds1
  <2>1. Holding(f) /\ previous'[f] = latest'[f] /\ previous' = previous
    BY <1>0, <1>4, <1>5 DEF Holds1, Holding, heard
  <2>2. server'.value[f] = s.value[f]
    BY <1>4, <1>5, <1>9, <2>1 DEF Holding
  <2>3. Stands(t) => t.reply.value[f] = t.value[f]
    BY <1>3, <1>7, <2>2 DEF Follows
  <2>4. \A r \in saves' : Live(r)' =>
           /\ Stands(r)' => r.reply.value[f] = r.value[f]
           /\ r.at = "server" /\ r.from = server'.revision => r.next[f] = r.value[f]
    BY <1>3, <1>4, <1>5, <1>6, <1>8, <2>1, <2>3 DEF Holding, Stands
  <2>5. CASE Stands(t)
    <3>1. Counts(t)'
      BY <1>3, <1>4, <1>6, <1>9, <2>5 DEF Counts, Stands, Live, Follows
    <3>2. \A r \in saves' : Newest(r)' => r = t
      BY <1>3, <1>4, <1>6, <1>8, <1>10, <3>1 DEF Newest, Counts, Stands, Follows
    <3>3. \A r \in saves' : Newest(r)' => server'.value[f] = r.value[f]
      BY <1>3, <2>2, <3>2 DEF Follows
    <3>4. ~(\A r \in saves' : ~Counts(r)')
      BY <1>4, <3>1
    <3> QED
      BY <2>1, <2>4, <3>3, <3>4 DEF Holding
  <2>6. CASE ~Stands(t)
    <3>1. unsure' = unsure \cup Asks(s)
      BY <1>3, <2>6, StoredType DEF Taken, Stands
    <3>2. ~Intends(s.base, s.value, s.pending, f) /\ f \notin LeftOut(s)
      BY <1>5, <3>1 DEF Inv, Spared, Asks, Entry
    <3>3. /\ previous[f] = s.value[f]
          /\ \A r \in saves : Live(r) /\ r.generation < s.generation => r.value[f] = s.value[f]
      BY <1>9, <3>2, Untouched
    <3>4. \A r : Counts(r)' => Counts(r)
      BY <1>4, <1>6, <2>6 DEF Counts, Stands
    <3>5. \A r \in saves' : Newest(r)' => server'.value[f] = r.value[f]
      BY <1>10, <2>2, <3>3, <3>4 DEF Newest, Counts
    <3> QED
      BY <2>1, <2>2, <2>4, <3>3, <3>5 DEF Holding
  <2> QED
    BY <2>5, <2>6
<1>14. Means'
  <2>1. ~Rest
    BY <1>0, <1>8, <1>9 DEF Rest, Live, Numbers
  <2>2. \A r \in saves' : r.generation = generation' =>
           /\ r.value = Current'
           /\ Stands(r)' /\ Badge \notin unsure' => server'.value[Badge] = r.reply.value[Badge]
    <3>1. t.generation = generation => t.value = Current
      BY <1>0, <1>3 DEF Means, Follows
    <3>2. \A r \in saves : Stands(r) => r.generation # generation
      BY <1>8, <1>10
    <3>3. \A r \in saves : r.generation = generation => r.value = Current
      BY <1>0 DEF Means
    <3> QED
      BY <1>4, <1>6, <1>7, <3>1, <3>2, <3>3 DEF Stands, effect
  <2> QED
    BY <1>0, <1>4, <1>6, <2>1, <2>2 DEF Means, effect, heard
<1> QED
    BY <1>6, <1>11, <1>12, <1>13, <1>14 DEF Inv

-----------------------------------------------------------------------------
(* The saves the tab sends.                                                *)

LEMMA RetryNext ==
    ASSUME Inv, NEW s \in saves, Retry(s)
    PROVE  Inv'
<1>0. /\ Sorts /\ Numbers /\ Told /\ Ordered /\ Holds1 /\ Means /\ s \in Save
      /\ s.reply \in NoReply \cup Reported /\ s.reply.code = 409 /\ s.at = "tab"
    BY DEF Inv, Sorts, Save, Retry, Here
<1>1. /\ s.reply.revision \in Nat /\ s.reply.value \in Whole
      /\ s.from < s.reply.revision /\ s.reply.revision <= server.revision
      /\ s.reply.revision = server.revision => s.reply.value = server.value
    BY <1>0 DEF Told, NoReply, Reported
<1>2. /\ server.revision \in Nat /\ revision \in Nat /\ generation \in Nat /\ acknowledged \in Nat
      /\ revision <= server.revision /\ acknowledged <= generation
      /\ \A r \in saves : r.generation \in Nat /\ r.from \in Nat /\ r.from <= revision
                          /\ r.generation <= generation
    BY <1>0 DEF Sorts, Save, Told, Numbers
<1>3. Live(s) /\ s.generation = generation /\ revision <= s.reply.revision
    BY <1>0, <1>1, <1>2 DEF Retry, Ignores, Superseded, Ordered, Live
<1> DEFINE next == Merge(s.base, s.value, s.reply.value, s.pending)
<1>4. /\ next \in Whole
      /\ \A f \in Field : next[f] =
            IF Intends(s.base, s.value, s.pending, f) THEN s.value[f] ELSE s.reply.value[f]
  <2>1. s.base \in Whole /\ s.value \in Whole /\ s.reply.value \in Whole
    BY <1>0, <1>1 DEF Save
  <2>2. \A held \in Whole : /\ Merge(s.base, s.value, held, s.pending) \in Whole
                            /\ \A e \in Entry : Merge(s.base, s.value, held, s.pending)[e] =
                                  IF Intends(s.base, s.value, s.pending, e)
                                  THEN s.value[e] ELSE held[e]
    BY <2>1, MergeType
  <2> QED
    BY <2>1, <2>2 DEF Entry
<1> HIDE DEF next
<1>5. PICK t : t = Sent(s, next, 1, s.reply.revision)
    OBVIOUS
<1>6. /\ Follows(t, s) /\ t.at = "server" /\ t.reply.code = 0 /\ t.from = s.reply.revision
      /\ t.next = next
    BY <1>0, <1>1, <1>4, <1>5, SentShape
<1>7. /\ saves' = (saves \ {s}) \cup {t} /\ revision' = s.reply.revision
      /\ UNCHANGED <<server, unsure, edit, effect, previous, latest, acknowledged>>
    BY <1>5 DEF Retry, Here, next
<1>8. /\ Sorts' /\ Numbers' /\ Aware' /\ Spared' /\ Current' = Current /\ ActionNow' = ActionNow
      /\ \A r : Live(r)' = Live(r)
      /\ (Coming \/ Calm) => (Coming \/ Calm)'
    BY <1>0, <1>1, <1>6, <1>7, Exchange DEF Sorts
<1>9. ~Stands(t) /\ ~Stands(s) /\ t.at # "tab"
    BY <1>0, <1>6 DEF Stands
<1>10. Told'
    BY <1>0, <1>1, <1>2, <1>3, <1>6, <1>7, <1>9 DEF Told, Stands
<1>11. Ordered'
  <2>1. timer = NoTimer
    BY <1>0, <1>3 DEF Ordered
  <2>2. \A r \in saves' : r.generation = generation => r = t
    BY <1>0, <1>3, <1>7 DEF Numbers
  <2>3. \A r \in saves' : r.from <= t.from
    BY <1>1, <1>2, <1>3, <1>6, <1>7
  <2>4. t.generation = generation /\ t.generation # acknowledged /\ ~(t.generation < acknowledged)
    BY <1>2, <1>3, <1>6 DEF Follows, Live
  <2>5. \A r \in saves' : r.generation <= generation /\ r.generation \in Nat
    BY <1>2, <1>6, <1>7 DEF Follows
  <2>6. \A q, r \in saves' : q.generation < r.generation =>
           q.from <= r.from /\ (Stands(q)' /\ Stands(r)' => q.reply.revision < r.reply.revision)
    BY <1>0, <1>2, <1>7, <1>9, <2>3, <2>4, <2>5 DEF Ordered, Stands
  <2>7. \A r \in saves' : r.generation = generation' =>
           revision' <= r.from + 1 /\ ~Stands(r)'
    BY <1>1, <1>6, <1>7, <1>9, <2>2 DEF effect, Stands
  <2>8. \A r \in saves' : /\ r.generation # acknowledged'
                          /\ r.generation < acknowledged' /\ r.at = "server"
                                => r.from < server'.revision
    BY <1>0, <1>7, <2>4 DEF Ordered
  <2>9. timer' = NoTimer
    BY <1>7, <2>1 DEF effect
  <2> QED
    BY <2>6, <2>7, <2>8, <2>9 DEF Ordered
<1>12. \A r : Counts(r)' = Counts(r) /\ Newest(r)' = Newest(r)
  <2>1. \A r : Counts(r)' = Counts(r)
    BY <1>7, <1>8, <1>9 DEF Counts, Stands
  <2> QED
    BY <1>7, <1>9, <2>1 DEF Newest, Counts
<1>13. Holds1'
  <2> SUFFICES ASSUME NEW f \in Field \ unsure PROVE Holding(f)'
    BY <1>7 DEF Holds1
  <2>1. Holding(f)
    BY <1>0 DEF Holds1
  <2>2. \A r \in saves' : Newest(r)' => server'.value[f] = r.value[f]
    BY <1>7, <1>12, <2>1 DEF Holding, Newest, Counts
  <2>3. (\A r \in saves' : ~Counts(r)') => \A r \in saves : ~Counts(r)
    BY <1>12 DEF Counts
  <2>4. t.from = server.revision => t.next[f] = t.value[f]
    <3> SUFFICES ASSUME t.from = server.revision PROVE next[f] = s.value[f]
      BY <1>6 DEF Follows
    <3>1. CASE Intends(s.base, s.value, s.pending, f)
      BY <1>4, <3>1
    <3>2. CASE ~Intends(s.base, s.value, s.pending, f)
      <4>1. \A r \in saves : Counts(r) => r.generation < s.generation
        BY <1>0, <1>2, <1>3, <1>9 DEF Counts, Numbers
      <4>2. server.value[f] = s.value[f]
        BY <1>3, <3>2, <4>1, ServerHolds
      <4> QED
        BY <1>1, <1>4, <1>6, <3>2, <4>2
    <3> QED
      BY <3>1, <3>2
  <2>5. \A r \in saves' : Live(r)' =>
           /\ Stands(r)' => r.reply.value[f] = r.value[f]
           /\ r.at = "server" /\ r.from = server'.revision => r.next[f] = r.value[f]
    BY <1>7, <1>8, <1>9, <2>1, <2>4 DEF Holding, Stands
  <2> QED
    BY <1>7, <2>1, <2>2, <2>3, <2>5 DEF Holding
<1>14. Means'
  <2>1. ~Rest
    BY <1>2, <1>3 DEF Rest, Live
  <2>2. \A r \in saves' : r.generation = generation' =>
           /\ r.value = Current'
           /\ Stands(r)' /\ Badge \notin unsure' => server'.value[Badge] = r.reply.value[Badge]
    BY <1>0, <1>6, <1>7, <1>8, <1>9 DEF Means, Follows, Stands, effect
  <2> QED
    BY <1>0, <1>7, <1>8, <2>1, <2>2 DEF Means, effect
<1> QED
    BY <1>8, <1>10, <1>11, <1>13, <1>14 DEF Inv

LEMMA FireNext ==
    ASSUME Inv, Fire
    PROVE  Inv'
<1>0. Sorts /\ Numbers /\ Told /\ Ordered /\ Aware /\ Holds1 /\ Means /\ timer \in Draft
    BY DEF Inv, Sorts, Fire
<1>1. timer.base \in Whole /\ timer.value \in Whole /\ latest \in Whole /\ revision \in Nat
    BY <1>0 DEF Draft, Sorts
<1>2. /\ server.revision \in Nat /\ generation \in Nat /\ acknowledged \in Nat
      /\ revision <= server.revision /\ acknowledged < generation
      /\ \A r \in saves : r.generation \in Nat /\ r.from \in Nat /\ r.from <= revision
                          /\ r.generation < generation
    BY <1>0 DEF Sorts, Save, Told, Numbers, Ordered, Fire
<1> DEFINE next == Merge(timer.base, timer.value, latest, timer.pending)
<1>3. /\ next \in Whole
      /\ \A f \in Field : next[f] =
            IF Intends(timer.base, timer.value, timer.pending, f)
            THEN timer.value[f] ELSE latest[f]
    BY <1>1, MergeType DEF Entry
<1> HIDE DEF next
<1>4. PICK t : t = Sent(timer, next, 0, revision)
    OBVIOUS
<1>5. /\ Follows(t, timer) /\ t.at = "server" /\ t.reply.code = 0 /\ t.from = revision
      /\ t.next = next
    BY <1>0, <1>1, <1>3, <1>4, SentShape
<1>6. /\ saves' = saves \cup {t} /\ timer' = NoTimer /\ timer # NoTimer
      /\ unsure' = unsure \cup LeftOut(timer) /\ unsure' \subseteq Entry
      /\ UNCHANGED <<server, edit, generation, status, heard>>
    BY <1>0, <1>4, PresentationAssumption DEF Fire, next, LeftOut, Entry, Sorts
<1>7. t \in Save /\ t.generation = generation /\ timer.generation = generation
      /\ t.value = timer.value /\ t.base = timer.base
      /\ t.pending = timer.pending /\ ~Stands(t)
    BY <1>0, <1>5, <1>6 DEF Follows, Numbers, Stands
<1>8. \A r : Live(r)' = Live(r) /\ Counts(r)' = Counts(r) /\ Newest(r)' = Newest(r)
  <2>1. \A r : Live(r)' = Live(r) /\ Counts(r)' = Counts(r)
    BY <1>6, <1>7 DEF Live, Counts, Stands, heard
  <2> QED
    BY <1>6, <1>7, <2>1 DEF Newest, Counts
<1>9. Current' = Current /\ ActionNow' = ActionNow
    BY <1>6 DEF Current, ActionNow, edit
<1>10. Sorts'
    BY <1>0, <1>6, <1>7 DEF Sorts, edit, heard
<1>11. Numbers'
    BY <1>0, <1>2, <1>6, <1>7 DEF Numbers, heard
<1>12. Told'
    BY <1>0, <1>1, <1>5, <1>6, <1>7 DEF Told, Stands, heard
<1>13. Ordered'
  <2>1. \A r \in saves' : /\ r.generation # acknowledged'
                          /\ r.generation < acknowledged' /\ r.at = "server"
                                => r.from < server'.revision
    BY <1>0, <1>2, <1>6, <1>7 DEF Ordered, heard
  <2>2. \A r \in saves' : r.generation = generation' =>
           revision' <= r.from + 1 /\ (Stands(r)' => revision' <= r.from)
    BY <1>1, <1>2, <1>5, <1>6, <1>7 DEF Stands, heard
  <2>3. \A q, r \in saves' : q.generation < r.generation =>
           q.from <= r.from /\ (Stands(q)' /\ Stands(r)' => q.reply.revision < r.reply.revision)
    BY <1>0, <1>2, <1>5, <1>6, <1>7 DEF Ordered, Stands
  <2> QED
    BY <1>6, <2>1, <2>2, <2>3 DEF Ordered
<1>14. Aware'
  <2>1. \A q \in saves : Knows(q) /\ Against(q)
    BY <1>0 DEF Aware
  <2>2. Knows(timer) /\ Against(timer)
    BY <1>0, <1>6 DEF Aware, Waiting
  <2>3. \A q \in saves : Knows(q)'
    BY <1>2, <1>6, <1>7, <1>8, <2>1 DEF Knows
  <2>4. Knows(t)'
    BY <1>2, <1>6, <1>7, <1>8, <2>2 DEF Knows
  <2>5. (\A q \in saves : Against(q)') /\ Against(t)'
    BY <1>6, <1>7, <2>1, <2>2 DEF Against, Live, heard
  <2> QED
    BY <1>6, <2>3, <2>4, <2>5 DEF Aware, Waiting
<1>15. Holds1'
  <2> SUFFICES ASSUME NEW f \in Field, f \notin unsure' PROVE Holding(f)'
    BY DEF Holds1
  <2>1. Holding(f)
    BY <1>0, <1>6 DEF Holds1
  <2>2. \A r \in saves' : Newest(r)' => server'.value[f] = r.value[f]
    BY <1>6, <1>8, <2>1 DEF Holding, Newest, Counts
  <2>3. (\A r \in saves' : ~Counts(r)') => \A r \in saves : ~Counts(r)
    BY <1>6, <1>8
  <2>4. t.next[f] = t.value[f]
    <3>1. CASE Intends(timer.base, timer.value, timer.pending, f)
      BY <1>3, <1>5, <1>7, <3>1
    <3>2. CASE ~Intends(timer.base, timer.value, timer.pending, f)
      <4>1. timer \in Waiting /\ Live(timer)
        BY <1>2, <1>6, <1>7, <1>0 DEF Waiting, Live, Numbers
      <4>2. previous[f] = timer.value[f]
        BY <1>6, <3>2, <4>1, Untouched
      <4> QED
        BY <1>3, <1>5, <1>7, <2>1, <3>2, <4>2 DEF Holding
    <3> QED
      BY <3>1, <3>2
  <2>5. \A r \in saves' : Live(r)' =>
           /\ Stands(r)' => r.reply.value[f] = r.value[f]
           /\ r.at = "server" /\ r.from = server'.revision => r.next[f] = r.value[f]
    BY <1>6, <1>7, <1>8, <2>1, <2>4 DEF Holding, Stands
  <2> QED
    BY <1>6, <2>1, <2>2, <2>3, <2>5 DEF Holding, heard
<1>16. Means'
  <2>1. ~Rest /\ timer.value = Current /\ unsure \subseteq unsure'
    BY <1>0, <1>6 DEF Rest, Means
  <2>2. Coming'
    BY <1>6, <1>7 DEF Coming
  <2>3. \A r \in saves' : r.generation = generation' => r = t
    BY <1>2, <1>6
  <2> QED
    BY <1>0, <1>6, <1>7, <1>9, <2>1, <2>2, <2>3 DEF Means, Stands, heard
<1>17. Spared'
  <2>1. LeftOut(t) = LeftOut(timer)
    BY <1>7 DEF LeftOut
  <2>2. \A r \in saves : LeftOut(r) \subseteq unsure'
    BY <1>6 DEF Inv, Spared
  <2> QED
    BY <1>6, <2>1, <2>2 DEF Spared, LeftOut, Reverts
<1> QED
    BY <1>10, <1>11, <1>12, <1>13, <1>14, <1>15, <1>16, <1>17 DEF Inv

-----------------------------------------------------------------------------
(* The answers the tab takes in, or does not.                              *)

\* A success that comes too late is not taken in: the entries it is about are unsure,
\* and in every other one an older save, or what the tab believes saved, says the same.
LEMMA LateNext ==
    ASSUME Inv, NEW s \in saves, Ignore(s), Counts(s)
    PROVE  Inv'
<1>0. Sorts /\ Numbers /\ Told /\ Ordered /\ Aware /\ Holds1 /\ Means /\ s \in Save
    BY DEF Inv, Sorts
<1>1. /\ saves' = saves \ {s} /\ s.generation # generation
      /\ UNCHANGED <<server, edit, effect, heard>>
    BY IgnoredOld DEF Ignore, Here
<1>2. unsure' = unsure \cup Asks(s) /\ Live(s)
    BY <1>0 DEF Ignore, Here, Counts, Stands, Live, Sorts, Save
<1>3. \A r \in saves : r.generation \in Nat
    BY <1>0 DEF Sorts, Save
<1>4. \A r : Live(r)' = Live(r) /\ (Counts(r)' <=> Counts(r) /\ r # s)
    BY <1>1 DEF Live, Counts, Stands, heard
<1>5. Current' = Current /\ ActionNow' = ActionNow
    BY <1>1 DEF Current, ActionNow, edit
<1>6. Sorts' /\ Numbers'
    BY <1>0, <1>1, <1>2 DEF Sorts, Numbers, Asks, edit, effect, heard
<1>7. Told' /\ Ordered'
    BY <1>0, <1>1 DEF Told, Ordered, Stands, effect, heard
<1>8. Aware'
    BY <1>0, <1>1, <1>4 DEF Aware, Waiting, Knows, Against, effect, heard
<1>9. Holds1'
  <2> SUFFICES ASSUME NEW f \in Field, f \notin unsure' PROVE Holding(f)'
    BY DEF Holds1
  <2>1. Holding(f) /\ f \notin unsure
    BY <1>0, <1>2 DEF Holds1
  <2>2. ~Intends(s.base, s.value, s.pending, f) /\ f \notin LeftOut(s)
    BY <1>2 DEF Inv, Spared, Asks, Entry
  <2>3. /\ previous[f] = s.value[f]
        /\ \A r \in saves : Live(r) /\ r.generation < s.generation => r.value[f] = s.value[f]
    BY <1>2, <2>2, Untouched
  <2>4. \A r \in saves' : Newest(r)' => server'.value[f] = r.value[f]
    <3> SUFFICES ASSUME NEW r \in saves', Newest(r)' PROVE server'.value[f] = r.value[f]
      OBVIOUS
    <3>1. Counts(r) /\ r # s /\ \A q \in saves : Counts(q) /\ q # s => q.generation <= r.generation
      BY <1>1, <1>4 DEF Newest
    <3>2. CASE s.generation <= r.generation
      <4>1. Newest(r)
        BY <3>1, <3>2 DEF Newest
      <4> QED
        BY <1>1, <2>1, <4>1 DEF Holding
    <3>3. CASE r.generation < s.generation
      <4>1. Newest(s)
        BY <1>1, <1>3, <3>1, <3>3 DEF Newest
      <4>2. server.value[f] = s.value[f] /\ r.value[f] = s.value[f]
        BY <1>1, <2>1, <2>3, <3>1, <3>3, <4>1 DEF Holding, Counts
      <4> QED
        BY <1>1, <4>2
    <3> QED
      BY <1>1, <1>3, <3>2, <3>3
  <2>5. (\A r \in saves' : ~Counts(r)') => server'.value[f] = previous'[f]
    <3> SUFFICES ASSUME \A r \in saves' : ~Counts(r)' PROVE server.value[f] = previous[f]
      BY <1>1 DEF heard
    <3>1. Newest(s)
      BY <1>1, <1>3, <1>4 DEF Newest
    <3> QED
      BY <2>1, <2>3, <3>1 DEF Holding
  <2> QED
    BY <1>1, <1>4, <2>1, <2>4, <2>5 DEF Holding, Stands, heard
<1>10. Means'
  <2>1. (Coming \/ Calm) => (Coming \/ Calm)'
    BY <1>1, <1>4, <1>5 DEF Coming, Calm, effect, heard
  <2>2. Rest => Rest'
    BY <1>1, <1>2, <1>5 DEF Rest, effect, heard
  <2>3. \A r \in saves' : r.generation = generation' =>
           /\ r.value = Current'
           /\ Stands(r)' /\ Badge \notin unsure' => server'.value[Badge] = r.reply.value[Badge]
    BY <1>0, <1>1, <1>2, <1>5 DEF Means, Stands, effect
  <2> QED
    BY <1>0, <1>1, <1>5, <2>1, <2>2, <2>3 DEF Means, effect, heard
<1>11. Spared'
    BY <1>1, <1>2 DEF Inv, Spared, LeftOut, Reverts
<1> QED
    BY <1>6, <1>7, <1>8, <1>9, <1>10, <1>11 DEF Inv

\* What the effect does with an answer that is taken in: nothing if a newer save was
\* begun, and otherwise the tab means to keep exactly what was saved.
Taking(s, says) ==
    /\ Effect(says) /\ Kinds
    /\ \/ /\ s.generation # generation /\ says = status
          /\ Same(says)
       \/ /\ s.generation = generation /\ says = "saved"
          /\ Current' = previous' /\ ActionNow' = "none"

LEMMA SucceedTakes ==
    ASSUME Inv, NEW s \in saves, Succeed(s)
    PROVE  Taking(s, status) \/ Taking(s, "saved")
<1>0. /\ Sorts /\ Numbers /\ Means /\ s \in Save /\ s.reply \in Reported
      /\ s.generation \in Nat /\ generation \in Nat /\ s.generation <= generation
    BY DEF Inv, Sorts, Numbers, Save, Succeed, NoReply
<1>1. CASE Superseded(s)
  <2>1. UNCHANGED <<edit, effect>> /\ s.generation # generation
    BY <1>0, <1>1 DEF Superseded, Succeed
  <2>2. Effect(status) /\ Kinds /\ Same(status)
    BY <2>1, StillTurn DEF Same, Current, ActionNow, edit, effect
  <2> QED
    BY <2>1, <2>2 DEF Taking
<1>2. CASE ~Superseded(s)
  <2>1. s.generation = generation
    BY <1>0, <1>2 DEF Superseded
  <2>2. /\ s.value \in Whole /\ s.reply.value \in Whole /\ s.reply.value[Badge] \in Holds(Badge)
        /\ s.action \in Action /\ shown \in Whole /\ baseline \in Whole
    BY <1>0, WholeEntry DEF Save, Reported, Sorts, Entry
  <2> DEFINE shows == [shown EXCEPT ![Badge] = s.reply.value[Badge]]
             state == IF session = "saving" THEN "none" ELSE session
             mark == IF badge = s.action THEN "none" ELSE badge
  <2>3. Render(shows, state, baseline, mark, "saved", FALSE)
    BY <1>2 DEF Succeed
  <2>4. /\ shows \in Whole /\ shows[Badge] = s.reply.value[Badge]
        /\ \A f \in Field : shows[f] = shown[f]
    BY <2>2, ChangeType, PresentationAssumption DEF Entry
  <2>5. state \in {"none", "open"} /\ mark \in Action
    BY <1>0 DEF Sorts, Action
  <2> HIDE DEF shows, state, mark
  <2>6. /\ Effect("saved") /\ shown' = shows /\ baseline' = baseline /\ badge' = mark
        /\ session' = state
    BY <2>3, <2>5, RenderEffect, FALSE \in BOOLEAN
  <2>7. Kinds
    BY <2>2, <2>4, <2>5, <2>6 DEF Kinds
  <2>8. /\ previous' \in Whole /\ previous'[Badge] = s.reply.value[Badge]
        /\ \A f \in Field : previous'[f] = s.value[f]
    BY <2>2, ChangeType, PresentationAssumption DEF Succeed, Entry
  <2>9. Current' \in Whole /\ Current'[Badge] = s.reply.value[Badge]
    BY <2>4, <2>6, <2>7, CurrentType
  <2>10. s.value = Current
    BY <1>0, <2>1 DEF Means
  <2>11. \A f \in Field : Current'[f] = previous'[f]
    <3> SUFFICES ASSUME NEW f \in Field PROVE Current'[f] = s.value[f]
      BY <2>8
    <3>1. Current[f] = IF session = "open" THEN baseline[f] ELSE shown[f]
      BY <2>2, PersistedType DEF Current
    <3>2. Current'[f] = IF state = "open" THEN baseline[f] ELSE shown[f]
      BY <2>4, <2>6, <2>7, CurrentType
    <3>3. state = "open" <=> session = "open"
      BY DEF state
    <3> QED
      BY <2>10, <3>1, <3>2, <3>3
  <2>12. Current' = previous'
    BY <2>8, <2>9, <2>11, WholeEqual DEF SameEdits
  <2>13. ActionNow' = "none"
    BY <2>5, <2>6 DEF ActionNow
  <2> QED
    BY <2>1, <2>6, <2>7, <2>12, <2>13 DEF Taking
<1> QED
    BY <1>1, <1>2

LEMMA SucceedNext ==
    ASSUME Inv, NEW s \in saves, Succeed(s), NEW says, Taking(s, says)
    PROVE  Inv'
<1>0. /\ Sorts /\ Numbers /\ Told /\ Ordered /\ Aware /\ Holds1 /\ Means /\ s \in Save
      /\ Effect(says) /\ Kinds /\ says \in {"idle", "saving", "saved", "error"}
      /\ s.reply \in Reported /\ Stands(s)
    BY DEF Inv, Sorts, Save, Taking, Succeed, Here, Stands, NoReply
<1>1. /\ server.revision \in Nat /\ revision \in Nat /\ generation \in Nat /\ acknowledged \in Nat
      /\ revision <= server.revision /\ acknowledged <= generation
      /\ \A r \in saves : r.generation \in Nat /\ r.from \in Nat /\ r.from <= revision
                          /\ r.generation <= generation /\ r \in Save
      /\ s.reply.revision \in Nat /\ s.reply.value \in Whole
      /\ s.reply.revision = s.from + 1 /\ s.reply.revision <= server.revision
    BY <1>0 DEF Sorts, Save, Told, Numbers, Reported
<1>2. /\ saves' = saves \ {s} /\ acknowledged' = s.generation /\ latest' = s.reply.value
      /\ revision' = s.reply.revision /\ server' = server /\ unsure' = unsure
      /\ previous' = [s.value EXCEPT ![Badge] = s.reply.value[Badge]]
    BY DEF Succeed, Here
<1>3. Counts(s) /\ Live(s) /\ revision <= s.reply.revision
    BY <1>0, <1>1 DEF Succeed, Ignores, Counts, Live, Stands, Ordered
<1>4. /\ previous' \in Whole /\ previous'[Badge] = s.reply.value[Badge]
      /\ \A f \in Field : previous'[f] = s.value[f]
  <2>1. s.value \in Whole /\ s.reply.value[Badge] \in Holds(Badge)
    BY <1>0, <1>1, WholeEntry DEF Save, Entry
  <2> QED
    BY <1>2, <2>1, ChangeType, PresentationAssumption DEF Entry
<1>5. timer # NoTimer => s.generation < generation
    BY <1>0, <1>1 DEF Ordered
<1>6. /\ status' \in {"idle", "saving", "saved", "error"}
      /\ generation' \in {generation, generation + 1}
      /\ timer' = NoTimer \/ timer' \in Draft
      /\ timer' # NoTimer => timer'.generation = generation' /\ acknowledged' < generation'
      /\ acknowledged' <= generation' /\ \A r \in saves' : r.generation <= generation'
  <2>1. saves' \subseteq Save /\ acknowledged' \in Nat /\ acknowledged' <= generation
    BY <1>1, <1>2
  <2> QED
    BY <1>0, <1>1, <1>2, <1>4, <1>5, <2>1, EffectType
<1>7. Sorts' /\ Numbers'
    BY <1>0, <1>1, <1>2, <1>4, <1>6 DEF Sorts, Numbers, Kinds
<1>8. Told'
    BY <1>0, <1>1, <1>2, <1>3 DEF Told, Stands
<1>9. \A r \in saves' : r.generation = generation' =>
         generation' = generation /\ s.generation < r.generation
    BY <1>0, <1>1, <1>2, <1>6 DEF Numbers
<1>10. timer' # NoTimer => \A r \in saves' : r.generation # generation'
  <2>1. timer' # NoTimer => timer' = timer \/ generation' = generation + 1
    BY <1>0 DEF Effect, Same, Drops, Plans
  <2>2. timer' = timer /\ timer' # NoTimer => generation' = generation
    BY <1>0, <1>6 DEF Numbers
  <2> QED
    BY <1>0, <1>1, <1>2, <1>9, <2>1, <2>2 DEF Ordered
<1>11. Ordered'
  <2>1. \A r \in saves' : /\ r.generation # acknowledged'
                          /\ r.generation < acknowledged' /\ r.at = "server"
                                => r.from < server'.revision
    BY <1>0, <1>1, <1>2 DEF Ordered, Numbers
  <2>2. \A r \in saves' : r.generation = generation' =>
           revision' <= r.from + 1 /\ (Stands(r)' => revision' <= r.from)
    <3> SUFFICES ASSUME NEW r \in saves', r.generation = generation'
          PROVE  revision' <= r.from + 1 /\ (Stands(r) => revision' <= r.from)
      BY DEF Stands
    <3>1. s.from <= r.from /\ (Stands(r) => s.reply.revision < r.reply.revision)
      BY <1>0, <1>2, <1>9 DEF Ordered
    <3>2. Stands(r) => r.reply.revision = r.from + 1
      BY <1>0, <1>2 DEF Told
    <3> QED
      BY <1>1, <1>2, <3>1, <3>2
  <2>3. \A q, r \in saves' : q.generation < r.generation =>
           q.from <= r.from /\ (Stands(q)' /\ Stands(r)' => q.reply.revision < r.reply.revision)
    BY <1>0, <1>2 DEF Ordered, Stands
  <2> QED
    BY <1>6, <1>10, <2>1, <2>2, <2>3 DEF Ordered
<1>12. \A r \in saves \cup Waiting : r.generation \in Nat /\ (Live(r)' => Live(r))
    BY <1>0, <1>1, <1>2, <1>3 DEF Live, Waiting, Draft, Sorts
<1>13. Aware'
  <2>1. \A q \in saves \cup Waiting : Knows(q)'
    BY <1>0, <1>2, <1>12 DEF Aware, Knows
  <2>2. ASSUME NEW q \in saves \cup Waiting, Live(q)'
        PROVE  \E p \in {q.base, q.value} \cup q.pending : SameEdits(previous', p)
    <3>1. s.value \in q.pending \cup {q.value}
      BY <1>0, <1>2, <1>3, <2>2 DEF Aware, Knows, Live
    <3>2. SameEdits(previous', s.value)
      BY <1>4 DEF SameEdits
    <3> QED
      BY <3>1, <3>2
  <2>3. \A q \in saves \cup Waiting : Against(q)'
    BY <2>2 DEF Against
  <2>4. timer' = timer /\ timer # NoTimer => Knows(timer)' /\ Against(timer)'
    <3>1. timer # NoTimer => timer \in Waiting
      BY DEF Waiting
    <3> QED
      BY <2>1, <2>3, <3>1 DEF Knows, Against, Live
  <2> QED
    BY <1>0, <1>2, <2>1, <2>3, <2>4, EffectAware
<1>14. \A r : Counts(r)' <=> Counts(r) /\ r.generation > s.generation
  <2>1. \A r \in saves : r.generation > s.generation => r # s /\ r.generation > acknowledged
    BY <1>1, <1>3 DEF Live
  <2> QED
    BY <1>1, <1>2, <2>1 DEF Counts, Stands, Live
<1>15. Holds1'
  <2> SUFFICES ASSUME NEW f \in Field \ unsure PROVE Holding(f)'
    BY <1>2 DEF Holds1
  <2>1. Holding(f)
    BY <1>0 DEF Holds1
  <2>2. previous'[f] = s.value[f] /\ latest'[f] = s.value[f]
    BY <1>0, <1>2, <1>3, <1>4, <2>1 DEF Holding
  <2>3. \A r \in saves' : Newest(r)' => server'.value[f] = r.value[f]
    <3> SUFFICES ASSUME NEW r \in saves', Newest(r)' PROVE server.value[f] = r.value[f]
      BY <1>2
    <3>1. Counts(r) /\ r.generation > s.generation /\ r \in saves
      BY <1>2, <1>14 DEF Newest
    <3>2. \A q \in saves : Counts(q) => q.generation <= r.generation
      <4> SUFFICES ASSUME NEW q \in saves, Counts(q) PROVE q.generation <= r.generation
        OBVIOUS
      <4>1. q.generation > s.generation => Counts(q)' /\ q \in saves'
        BY <1>1, <1>2, <1>14
      <4> QED
        BY <1>1, <3>1, <4>1 DEF Newest
    <3> QED
      BY <2>1, <3>1, <3>2 DEF Newest, Holding
  <2>4. (\A r \in saves' : ~Counts(r)') => server'.value[f] = previous'[f]
    <3> SUFFICES ASSUME \A r \in saves' : ~Counts(r)' PROVE server.value[f] = s.value[f]
      BY <1>2, <2>2
    <3>1. Newest(s)
      BY <1>1, <1>2, <1>3, <1>14 DEF Newest
    <3> QED
      BY <2>1, <3>1 DEF Holding
  <2>5. \A r \in saves' : Live(r)' =>
           /\ Stands(r)' => r.reply.value[f] = r.value[f]
           /\ r.at = "server" /\ r.from = server'.revision => r.next[f] = r.value[f]
    BY <1>2, <1>12, <2>1 DEF Holding, Stands
  <2> QED
    BY <2>2, <2>3, <2>4, <2>5 DEF Holding
<1>16. Spared'
    BY <1>2 DEF Inv, Spared, LeftOut, Reverts
<1>17. previous'[Badge] = latest'[Badge]
    BY <1>2, <1>4
<1>18. CASE s.generation # generation
  <2>1. Same(says) /\ says = status
    BY <1>18 DEF Taking
  <2>2. ~Rest
    BY <1>1, <1>3 DEF Rest, Live
  <2>3. Coming => Coming'
    BY <1>2, <1>18, <2>1 DEF Coming, Same
  <2>4. Calm => Calm'
    BY <1>2, <1>3, <1>4, <1>12, <2>1 DEF Calm, Same, SameEdits
  <2>5. Means'
    BY <1>0, <1>2, <1>17, <2>1, <2>2, <2>3, <2>4 DEF Means, Same, Stands
  <2> QED
    BY <1>7, <1>8, <1>11, <1>13, <1>15, <1>16, <2>5 DEF Inv
<1>19. CASE s.generation = generation
  <2>1. Current' = previous' /\ ActionNow' = "none" /\ says = "saved" /\ timer = NoTimer
    BY <1>0, <1>5, <1>1, <1>19 DEF Taking
  <2>2. \A r \in saves' : r.generation # generation'
    BY <1>1, <1>9, <1>19, <1>6, <1>2
  <2>3. Badge \notin unsure' => server'.value[Badge] = previous'[Badge]
    BY <1>0, <1>2, <1>4, <1>19 DEF Means
  <2>4. ASSUME Same(says) \/ Drops(says) PROVE Means'
    <3>1. Rest' /\ status' = "saved"
      BY <1>2, <1>19, <2>1, <2>3, <2>4 DEF Same, Drops, Rest
    <3> QED
      BY <1>17, <2>2, <3>1 DEF Means, Rest
  <2>5. ASSUME Plans PROVE Means'
    <3>1. timer' # NoTimer /\ timer'.value = Current' /\ status' = "saving"
      BY <1>1, <2>5 DEF Plans, NoTimer
    <3> QED
      BY <1>17, <2>2, <3>1 DEF Means, Coming
  <2>6. Means'
    BY <1>0, <2>4, <2>5 DEF Effect
  <2> QED
    BY <1>7, <1>8, <1>11, <1>13, <1>15, <1>16, <2>6 DEF Inv
<1> QED
    BY <1>18, <1>19

-----------------------------------------------------------------------------
(* Another tab.                                                            *)

LEMMA OtherNext ==
    ASSUME Inv, NEW e \in Entry, NEW v \in Holds(e), OtherSaves(e, v)
    PROVE  Inv'
<1>0. Sorts /\ Numbers /\ Told /\ Ordered /\ Aware /\ Holds1 /\ Means
    BY DEF Inv
<1>1. /\ server'.revision = server.revision + 1 /\ server' \in [revision : Nat, value : Whole]
      /\ \A d \in Entry \ {e} : server'.value[d] = server.value[d]
  <2>1. server.value \in Whole /\ server.revision \in Nat
    BY <1>0 DEF Sorts
  <2>2. /\ [server.value EXCEPT ![e] = v] \in Whole
        /\ \A d \in Entry \ {e} : [server.value EXCEPT ![e] = v][d] = server.value[d]
    BY <2>1, ChangeType
  <2> QED
    BY <2>1, <2>2 DEF OtherSaves
<1>2. unsure' = unsure \cup {e} /\ UNCHANGED <<edit, effect, heard, saves>>
    BY DEF OtherSaves
<1>3. /\ server.revision \in Nat /\ revision \in Nat /\ revision <= server.revision
      /\ \A r \in saves : r.from \in Nat /\ r.from <= revision
    BY <1>0 DEF Sorts, Save, Told
<1>4. Current' = Current /\ ActionNow' = ActionNow
    BY <1>2 DEF Current, ActionNow, edit
<1>5. \A r : Live(r)' = Live(r) /\ Counts(r)' = Counts(r) /\ Newest(r)' = Newest(r)
  <2>1. \A r : Live(r)' = Live(r) /\ Counts(r)' = Counts(r)
    BY <1>2 DEF Live, Counts, Stands, heard
  <2> QED
    BY <1>2, <2>1 DEF Newest
<1>6. Sorts' /\ Numbers'
    BY <1>0, <1>1, <1>2 DEF Sorts, Numbers, edit, effect, heard
<1>7. Told'
  <2>1. \A r \in saves : r.at = "tab" /\ r.reply.code = 409 =>
           r.reply.revision \in Nat /\ r.reply.revision < server'.revision
                /\ r.from < r.reply.revision
    BY <1>0, <1>1, <1>3 DEF Told, Sorts, Save, NoReply, Reported
  <2>2. \A r \in saves : Stands(r) => r.reply.revision = r.from + 1
                                      /\ r.reply.revision <= server'.revision
    BY <1>0, <1>1, <1>3 DEF Told
  <2>3. server'.revision \in Nat /\ revision' = revision
    BY <1>1, <1>2 DEF heard
  <2> QED
    BY <1>1, <1>2, <1>3, <2>1, <2>2, <2>3 DEF Told, Stands
<1>8. Ordered'
    BY <1>0, <1>1, <1>2, <1>3 DEF Ordered, Stands, effect, heard
<1>9. Aware'
    BY <1>0, <1>2 DEF Aware, Waiting, Knows, Against, Live, effect, heard
<1>10. Holds1'
  <2> SUFFICES ASSUME NEW f \in Field, f \notin unsure' PROVE Holding(f)'
    BY DEF Holds1
  <2>1. Holding(f) /\ server'.value[f] = server.value[f]
    BY <1>0, <1>1, <1>2 DEF Holds1, Entry
  <2>2. \A r \in saves : r.from # server'.revision
    BY <1>1, <1>3
  <2> QED
    BY <1>2, <1>5, <2>1, <2>2 DEF Holding, Stands, heard
<1>11. Means'
  <2>1. Badge \notin unsure' => Badge \notin unsure /\ server'.value[Badge] = server.value[Badge]
    BY <1>1, <1>2 DEF Entry
  <2>2. Rest => Rest'
    BY <1>2, <1>4, <2>1 DEF Rest, effect, heard
  <2>3. (Coming \/ Calm) => (Coming \/ Calm)'
    BY <1>2, <1>4, <1>5 DEF Coming, Calm, effect, heard
  <2> QED
    BY <1>0, <1>2, <1>4, <2>1, <2>2, <2>3 DEF Means, Stands, effect, heard
<1>12. Spared'
    BY <1>2 DEF Inv, Spared, LeftOut, Reverts
<1> QED
    BY <1>6, <1>7, <1>8, <1>9, <1>10, <1>11, <1>12 DEF Inv

-----------------------------------------------------------------------------
(* The steps together.                                                     *)

LEMMA ServeNext ==
    ASSUME Inv, NEW s \in saves, Serve(s) \/ LoseRequest(s) \/ LoseReply(s)
    PROVE  Inv'
<1>0. /\ server.revision \in Nat /\ server.value \in Whole /\ s.from \in Nat
      /\ s.from <= server.revision
    BY DEF Inv, Sorts, Save, Told
<1>1. CASE Refuse(s)
  <2>1. Held(409, server) \in Reported
    BY <1>0 DEF Held, Reported
  <2>2. Refused(s, Held(409, server))
    BY <1>0, <1>1, <2>1 DEF Refuse, Refused, Accepts, Answer, Held
  <2> QED
    BY <2>2, RefusedNext
<1>2. CASE Reject(s)
  <2>1. Refused(s, [code |-> 400])
    BY <1>2 DEF Reject, Refused, Answer, NoReply
  <2> QED
    BY <2>1, RefusedNext
<1>3. CASE LoseRequest(s)
  <2>1. Refused(s, [code |-> 503])
    BY <1>3 DEF LoseRequest, Refused, Answer, NoReply
  <2> QED
    BY <2>1, RefusedNext
<1>4. CASE Store(s)
  <2>1. Taken(s, Held(200, Stored(s)))
    BY <1>4 DEF Store, Taken, Answer
  <2> QED
    BY <2>1, TakenNext
<1>5. CASE LoseReply(s)
  <2>1. Taken(s, [code |-> 504])
    BY <1>5 DEF LoseReply, Taken, Answer
  <2> QED
    BY <2>1, TakenNext
<1> QED
    BY <1>1, <1>2, <1>3, <1>4, <1>5 DEF Serve

LEMMA ReturnNext ==
    ASSUME Inv, NEW s \in saves, Return(s)
    PROVE  Inv'
<1>1. CASE Ignore(s) /\ Counts(s)
    BY <1>1, LateNext
<1>2. CASE Ignore(s) /\ ~Counts(s)
    BY <1>2, IgnoreTurn, TurnNext
<1>3. CASE Retry(s)
    BY <1>3, RetryNext
<1>4. CASE Succeed(s)
    BY <1>4, SucceedTakes, SucceedNext
<1>5. CASE Fail(s)
    BY <1>5, FailTurn, TurnNext
<1> QED
    BY <1>1, <1>2, <1>3, <1>4, <1>5 DEF Return

\* Every step keeps the invariant.
LEMMA InvNext == Inv /\ [Next]_vars => Inv'
<1> SUFFICES ASSUME Inv, [Next]_vars PROVE Inv'
    OBVIOUS
<1>1. CASE Owner
    BY <1>1, OwnerTurn, TurnNext
<1>2. CASE Fire
    BY <1>2, FireNext
<1>3. ASSUME NEW s \in saves, Serve(s) \/ Return(s) \/ LoseRequest(s) \/ LoseReply(s)
      PROVE  Inv'
    BY <1>3, ServeNext, ReturnNext
<1>4. ASSUME NEW e \in Entry, NEW v \in Holds(e), OtherSaves(e, v) PROVE Inv'
    BY <1>4, OtherNext
<1>5. CASE UNCHANGED vars
    BY <1>5, StutterTurn, TurnNext
<1> QED
    BY <1>1, <1>2, <1>3, <1>4, <1>5 DEF Next, Progress

-----------------------------------------------------------------------------
(* The theorems.                                                           *)

\* The saves that usePresentationPersistence has begun, what it remembers of the older
\* ones and the revisions it was told always fit the presentation the worker stores.
THEOREM Invariance == Spec => []Inv
<1>1. Init => Inv
    BY InvInit
<1>2. Inv /\ [Next]_vars => Inv'
    BY InvNext
<1> QED
    BY <1>1, <1>2, PTL DEF Spec

\* The state of the page, of usePresentationPersistence and of the worker keeps its type,
\* no two saves are of one generation, and the page never believes in a revision the
\* worker has not given out.
THEOREM TypeCorrect == Spec => []TypeOK
<1>1. Inv => TypeOK
  <2> SUFFICES ASSUME Inv PROVE TypeOK
    OBVIOUS
  <2>1. Sorts /\ Numbers /\ Told
    BY DEF Inv
  <2>2. /\ server.revision \in Nat /\ revision \in 0..server.revision
        /\ generation \in Nat /\ acknowledged \in 0..generation
    BY <2>1 DEF Sorts, Numbers, Told
  <2>3. ASSUME NEW s \in saves
        PROVE  SaveShape(s) /\ s.next \in Whole /\ s.attempt \in {0, 1} /\ s.from \in 0..server.revision
    BY <2>1, <2>2 DEF Sorts, Numbers, Told, Save, SaveShape
  <2>4. timer # NoTimer => SaveShape(timer) /\ timer.generation = generation
    BY <2>1, <2>2 DEF Sorts, Numbers, Draft, SaveShape
  <2> QED
    BY <2>1, <2>2, <2>3, <2>4 DEF TypeOK, Sorts, Numbers
<1> QED
    BY <1>1, Invariance, PTL

\* Once usePresentationPersistence has no save waiting or under way and shows no error,
\* the worker stores what the page means to keep: however the owner's steps, superseded
\* saves, conflicts, lost requests and other tabs' saves were interleaved, only entries
\* another tab touched, or of a save whose success never reached the tab, or of a layout
\* that was put back while a save of it was under way, may differ.
THEOREM WhatIsQuietIsStored == Spec => []QuietMeansStored
<1>1. Inv => QuietMeansStored
  <2> SUFFICES ASSUME Inv, timer = NoTimer, saves = {}, status # "error",
                      NEW e \in Entry \ unsure, e # Badge \/ status # "saving"
               PROVE  server.value[e] = Current[e]
    BY DEF QuietMeansStored
  <2>1. Sorts /\ Holds1 /\ Means
    BY DEF Inv
  <2>2. status = "saving" => SameEdits(Current, previous)
    BY <2>1 DEF Means, Coming, Calm
  <2>3. status # "saving" => Rest
    BY <2>1 DEF Means, Sorts
  <2>4. CASE e \in Field
    <3>1. server.value[e] = previous[e]
      BY <2>1, <2>4 DEF Holds1, Holding
    <3> QED
      BY <2>2, <2>3, <2>4, <3>1 DEF Rest, SameEdits
  <2>5. CASE e = Badge
    BY <2>3, <2>5 DEF Rest
  <2> QED
    BY <2>4, <2>5 DEF Entry
<1> QED
    BY <1>1, Invariance, PTL

=============================================================================
