-------------------------- MODULE PresentationSync --------------------------
(***************************************************************************)
(* How an owner's changes to the presentation of a hosted report (theme,   *)
(* titles, texts, layout, the verification badge) reach the server: the    *)
(* edit session of DataAppShell, the debounced saves of                    *)
(* usePresentationPersistence, and the worker's PUT /api/presentation,     *)
(* which accepts a save only from the revision it stores.                  *)
(*                                                                         *)
(* One tab is modelled in full; another owner tab is what it does to the   *)
(* server.  A React event handler with the effects it triggers is one      *)
(* action, as the browser runs it to the end before the next event.  Of a  *)
(* presentation there are a few independent entries, the smallest pieces   *)
(* the merge tells apart.  A piece of a layout differs from the others in  *)
(* one way: the merge never puts it back.  The order of the blocks of one  *)
(* layout, which is merged as a whole, is left to LayoutEditing.           *)
(***************************************************************************)
EXTENDS Naturals, FiniteSets

CONSTANTS
    Field,      \* entries an edit session can change
    Layout,     \* those of them that are pieces of a layout
    Badge,      \* the verification, which only the server grants
    Value,      \* what an entry can hold
    Blank,      \* what every entry holds at first; no badge
    Granted,    \* the badge
    MaxActs,    \* steps the owner takes
    MaxOthers,  \* saves another tab gets through
    MaxFaults   \* requests or replies that get lost

Entry == Field \cup {Badge}
Action == {"none", "verify", "remove"}

ASSUME PresentationAssumption ==
    /\ Badge \notin Field /\ Layout \subseteq Field
    /\ Blank \in Value /\ Granted # Blank
    /\ MaxActs \in Nat /\ MaxOthers \in Nat /\ MaxFaults \in Nat

Holds(e) == IF e = Badge THEN {Blank, Granted} ELSE Value
Whole == {p \in [Entry -> Value \cup {Granted}] : \A e \in Entry : p[e] \in Holds(e)}

VARIABLES
    server,    \* [revision, value]: the stored presentation
    shown,     \* what the tab displays
    session,   \* the edit session: "none", "open", "saving"
    baseline,  \* what the session started from
    badge,     \* pendingVerification
    previous,  \* what the tab believes it has saved
    latest,    \* the last whole presentation a save of the tab was answered with
    revision,  \* the last revision it has heard of
    generation,    \* the newest save begun
    acknowledged,  \* the newest save that succeeded
    status,    \* what the tab says: "idle", "saving", "saved", "error"
    timer,     \* the save waiting for its 300 ms, if any
    saves,     \* saves under way
    bounds,    \* steps taken of each bounded kind
    unsure     \* entries another tab has changed, or a save of this one whose
               \* success was lost or came too late to be taken in, and pieces of
               \* a layout a save does not put back (history)

edit == <<shown, session, baseline, badge>>
effect == <<generation, status, timer>>
heard == <<previous, latest, revision, acknowledged>>
vars == <<server, edit, effect, heard, saves, bounds, unsure>>

\* What is stored when the tab opens: nothing but perhaps the badge.
Opening == {p \in Whole : \A f \in Field : p[f] = Blank}
NoTimer == [generation |-> 0]

Init ==
    /\ server \in {[revision |-> 0, value |-> p] : p \in Opening}
    /\ shown = server.value /\ session = "none" /\ baseline = server.value /\ badge = "none"
    /\ previous = server.value /\ latest = server.value /\ revision = 0
    /\ generation = 0 /\ acknowledged = 0 /\ status = "idle"
    /\ timer = NoTimer /\ saves = {}
    /\ bounds = [acts |-> 0, others |-> 0, faults |-> 0]
    /\ unsure = {}

\* A save under way would leave something else than value in entry e.
Reverts(value, pending, e) == \E p \in pending : p[e] # value[e]

\* Whether a change from base to value, some saves of which are still under way,
\* is about entry e: layouts are saved once and not put back.
Intends(base, value, pending, e) ==
    base[e] # value[e] \/ (e \notin Layout /\ Reverts(value, pending, e))

\* The pieces of a layout that a save leaves as the saves under way make them,
\* although the owner has put them back.
LeftOut(s) == {e \in Layout : s.base[e] = s.value[e] /\ Reverts(s.value, s.pending, e)}

\* mergePresentationChanges: this tab's changes, and its reversions of saves
\* still under way, on top of what the server holds.
Merge(base, value, stored, pending) == [e \in Entry |->
    IF Intends(base, value, pending, e) THEN value[e] ELSE stored[e]]

\* presentationBeforeEdits: an open session is provisional, its badge is not.
Persisted(shows, state, start) == [e \in Entry |->
    IF state = "open" /\ e # Badge THEN start[e] ELSE shows[e]]
SameEdits(p1, p2) == \A f \in Field : p1[f] = p2[f]

-----------------------------------------------------------------------------
(* The effect of usePresentationPersistence *)

\* Mutant: saves still under way are not looked at.
ScheduleAlone(value, action, says) ==
    IF value = previous' /\ action = "none"
    THEN timer' = NoTimer /\ status' = says /\ UNCHANGED generation
    ELSE /\ generation' = generation + 1
         /\ status' = "saving"
         /\ timer' = [generation |-> generation + 1, base |-> previous', value |-> value,
                      pending |-> {}, action |-> action]

\* Mutant: saves are numbered from the last one that succeeded.
ScheduleReused(value, action, says) ==
    LET pending == {s.value : s \in {o \in saves' : o.generation > acknowledged'}} \ {value} IN
    IF value = previous' /\ action = "none" /\ pending = {}
    THEN timer' = NoTimer /\ status' = says /\ UNCHANGED generation
    ELSE /\ generation' = acknowledged' + 1
         /\ status' = "saving"
         /\ timer' = [generation |-> acknowledged' + 1, base |-> previous', value |-> value,
                      pending |-> pending, action |-> action]

\* What is to be saved is value: the save that was waiting is dropped, and unless
\* there is nothing to save another one waits instead.
Schedule(value, action, says) ==
    LET pending == {s.value : s \in {o \in saves' : o.generation > acknowledged'}} \ {value} IN
    IF value = previous' /\ action = "none" /\ pending = {}
    THEN timer' = NoTimer /\ status' = says /\ UNCHANGED generation
    ELSE /\ generation' = generation + 1
         /\ status' = "saving"
         /\ timer' = [generation |-> generation + 1, base |-> previous', value |-> value,
                      pending |-> pending, action |-> action]

\* The tab comes to show shows, in session state, saying says.  React runs the
\* effect only when something it depends on has changed; a session that is saving
\* and has nothing to save is closed.
Render(shows, state, start, mark, says, forced) ==
    LET closes == state = "saving" /\ SameEdits(shows, start) /\ mark = "none"
        now == IF closes THEN "none" ELSE state
        action == IF now = "saving" THEN mark ELSE "none"
        value == Persisted(shows, now, start)
    IN  /\ shown' = shows /\ session' = now /\ baseline' = start /\ badge' = mark
        /\ IF \/ forced
              \/ value # Persisted(shown, session, baseline)
              \/ action # IF session = "saving" THEN badge ELSE "none"
           THEN Schedule(value, action, says)
           ELSE status' = says /\ UNCHANGED <<generation, timer>>

-----------------------------------------------------------------------------
(* The owner *)

Act ==
    /\ bounds.acts < MaxActs
    /\ bounds' = [bounds EXCEPT !.acts = @ + 1]
    /\ UNCHANGED <<server, heard, saves, unsure>>

BeginEditing ==
    /\ session = "none" /\ status # "saving"
    /\ Act
    /\ Render(shown, "open", shown, badge, status, FALSE)

\* Themes and charts can be changed outside a session as well, and the theme
\* drawer stays at hand while a session is being saved.
Change(f, v) ==
    /\ shown[f] # v
    /\ Act
    /\ Render([shown EXCEPT ![f] = v], session, baseline, badge, status, FALSE)

Toggled == IF badge # "none" THEN "none"
           ELSE IF shown[Badge] = Blank THEN "verify" ELSE "remove"
ToggleVerified ==
    /\ session = "open"
    /\ Act
    /\ Render(shown, session, baseline, Toggled, status, FALSE)

CancelEditing ==
    /\ session = "open"
    /\ Act
    /\ Render([baseline EXCEPT ![Badge] = shown[Badge]], "none", baseline, "none", status, FALSE)

SaveEditing ==
    /\ session = "open"
    /\ Act
    /\ Render(shown, "saving", baseline, badge, status, FALSE)

\* A new snapshot runs the effect again.
SnapshotChanges ==
    /\ Act
    /\ Render(shown, session, baseline, badge, status, TRUE)

-----------------------------------------------------------------------------
(* A save, from its timer to the worker *)

Sent(save, next, attempt, from) ==
    [generation |-> save.generation, base |-> save.base, value |-> save.value,
     pending |-> save.pending, action |-> save.action,
     next |-> next, attempt |-> attempt, from |-> from, at |-> "server",
     reply |-> [code |-> 0]]

\* After 300 ms: merge into what the server last returned, and PUT.
Fire ==
    /\ timer # NoTimer
    /\ saves' = saves \cup
          {Sent(timer, Merge(timer.base, timer.value, latest, timer.pending), 0, revision)}
    /\ timer' = NoTimer
    /\ unsure' = unsure \cup LeftOut(timer)
    /\ UNCHANGED <<server, edit, generation, status, heard, bounds>>

\* What a save is about.
Asks(s) == {e \in Entry : \/ Intends(s.base, s.value, s.pending, e)
                          \/ e = Badge /\ s.action # "none"}

Answer(s, reply) ==
    /\ s.at = "server"
    /\ saves' = (saves \ {s}) \cup {[s EXCEPT !.at = "tab", !.reply = reply]}
    /\ UNCHANGED <<edit, effect, heard>>
Held(code, state) == [code |-> code, revision |-> state.revision, value |-> state.value]

\* The badge of a save is what its action asks for, otherwise the stored one.
BadgeOf(s) ==
    CASE s.action = "remove" -> Blank
      [] s.action = "verify" -> Granted
      [] OTHER -> s.next[Badge]
Unverified(s) == s.action = "none" /\ s.next[Badge] = Granted /\ server.value[Badge] = Blank
Accepts(s) == s.from = server.revision
Stored(s) == [revision |-> server.revision + 1, value |-> [s.next EXCEPT ![Badge] = BadgeOf(s)]]

\* The worker reads the stored presentation and updates it only where it still has
\* the revision it was asked for, so that the two are one step.
Refuse(s) ==
    /\ ~Accepts(s)
    /\ Answer(s, Held(409, server))
    /\ UNCHANGED <<server, bounds, unsure>>
Reject(s) ==
    /\ Accepts(s) /\ Unverified(s)
    /\ Answer(s, [code |-> 400])
    /\ UNCHANGED <<server, bounds, unsure>>
Store(s) ==
    /\ Accepts(s) /\ ~Unverified(s)
    /\ server' = Stored(s)
    /\ Answer(s, Held(200, Stored(s)))
    /\ UNCHANGED <<bounds, unsure>>

\* The request does not arrive, or is carried out and the answer does not arrive.
Fault ==
    /\ bounds.faults < MaxFaults
    /\ bounds' = [bounds EXCEPT !.faults = @ + 1]
LoseRequest(s) ==
    /\ Fault /\ UNCHANGED <<server, unsure>>
    /\ Answer(s, [code |-> 503])
LoseReply(s) ==
    /\ Accepts(s) /\ ~Unverified(s)
    /\ Fault /\ server' = Stored(s)
    /\ unsure' = unsure \cup Asks(s)
    /\ Answer(s, [code |-> 504])

-----------------------------------------------------------------------------
(* An answer reaches the tab *)

Superseded(s) == s.generation < generation

\* It is of no more interest: a newer save succeeded, or its news are old.
Ignores(s) ==
    \/ s.generation < acknowledged
    \/ s.reply.code = 409 /\ s.attempt = 0 /\ (s.reply.revision < revision \/ Superseded(s))
    \/ s.reply.code = 200 /\ s.reply.revision < revision
Here(s) ==
    /\ s.at = "tab"
    /\ UNCHANGED <<server, bounds>>

Ignore(s) ==
    /\ Here(s) /\ Ignores(s)
    /\ unsure' = IF s.reply.code = 200 /\ s.generation >= acknowledged
                 THEN unsure \cup Asks(s) ELSE unsure
    /\ saves' = saves \ {s}
    /\ UNCHANGED <<edit, effect, heard>>

\* The first conflict is merged again, into what the server holds.
Retry(s) ==
    /\ Here(s) /\ ~Ignores(s) /\ UNCHANGED unsure
    /\ s.reply.code = 409 /\ s.attempt = 0
    /\ revision' = s.reply.revision
    /\ saves' = (saves \ {s}) \cup
          {Sent(s, Merge(s.base, s.value, s.reply.value, s.pending), 1, s.reply.revision)}
    /\ UNCHANGED <<edit, effect, previous, latest, acknowledged>>

\* An older success moves the baselines on, and is not reported.
Succeed(s) ==
    /\ Here(s) /\ ~Ignores(s) /\ UNCHANGED unsure
    /\ s.reply.code = 200
    /\ saves' = saves \ {s}
    /\ acknowledged' = s.generation
    /\ latest' = s.reply.value
    /\ revision' = s.reply.revision
    /\ previous' = [s.value EXCEPT ![Badge] = s.reply.value[Badge]]
    /\ IF Superseded(s)
       THEN UNCHANGED <<edit, effect>>
       ELSE Render([shown EXCEPT ![Badge] = s.reply.value[Badge]],
                   IF session = "saving" THEN "none" ELSE session, baseline,
                   IF badge = s.action THEN "none" ELSE badge, "saved", FALSE)

\* Mutant: the error is shown and the session stays as it is.
FailShown(s) ==
    /\ Here(s) /\ ~Ignores(s) /\ UNCHANGED unsure
    /\ s.reply.code \in {400, 503, 504} \/ (s.reply.code = 409 /\ s.attempt = 1)
    /\ saves' = saves \ {s}
    /\ status' = IF Superseded(s) THEN status ELSE "error"
    /\ UNCHANGED <<heard, edit, generation, timer>>

\* Anything else is an error, and a session that was saving is open again.
Fail(s) ==
    /\ Here(s) /\ ~Ignores(s) /\ UNCHANGED unsure
    /\ s.reply.code \in {400, 503, 504} \/ (s.reply.code = 409 /\ s.attempt = 1)
    /\ saves' = saves \ {s}
    /\ UNCHANGED heard
    /\ IF Superseded(s)
       THEN UNCHANGED <<edit, effect>>
       ELSE Render(shown, IF session = "saving" THEN "open" ELSE session, baseline, badge,
                   "error", FALSE)

-----------------------------------------------------------------------------

\* Another tab of an owner, whose saves the worker accepts.
OtherSaves(e, v) ==
    /\ bounds.others < MaxOthers
    /\ server.value[e] # v
    /\ server' = [revision |-> server.revision + 1, value |-> [server.value EXCEPT ![e] = v]]
    /\ bounds' = [bounds EXCEPT !.others = @ + 1]
    /\ unsure' = unsure \cup {e}
    /\ UNCHANGED <<edit, effect, heard, saves>>

Serve(s) == Refuse(s) \/ Reject(s) \/ Store(s)
Return(s) == Ignore(s) \/ Retry(s) \/ Succeed(s) \/ Fail(s)
Owner ==
    \/ BeginEditing \/ ToggleVerified \/ CancelEditing \/ SaveEditing \/ SnapshotChanges
    \/ \E f \in Field, v \in Value : Change(f, v)
Progress == Fire \/ \E s \in saves : Serve(s) \/ Return(s)

Next ==
    \/ Owner \/ Progress
    \/ \E s \in saves : LoseRequest(s) \/ LoseReply(s)
    \/ \E e \in Entry : \E v \in Holds(e) : OtherSaves(e, v)

Spec == Init /\ [][Next]_vars

\* The browser runs the timers that are due and the worker answers.
FairSpec == Spec /\ WF_vars(Progress)

-----------------------------------------------------------------------------

SaveShape(s) ==
    /\ s.generation \in 1..generation /\ s.base \in Whole /\ s.value \in Whole
    /\ s.pending \subseteq Whole /\ s.action \in Action
Current == Persisted(shown, session, baseline)

\* The variables keep their types, no two saves have one generation, and nothing
\* the tab has heard of is ahead of the server.
TypeOK ==
    /\ server.revision \in Nat /\ server.value \in Whole
    /\ {shown, baseline, previous, latest} \subseteq Whole
    /\ session \in {"none", "open", "saving"} /\ badge \in Action
    /\ status \in {"idle", "saving", "saved", "error"}
    /\ revision \in 0..server.revision /\ acknowledged \in 0..generation
    /\ timer # NoTimer => SaveShape(timer) /\ timer.generation = generation
    /\ \A s \in saves :
          /\ SaveShape(s) /\ s.next \in Whole /\ s.attempt \in {0, 1}
          /\ s.from \in 0..server.revision
    /\ \A s, t \in saves : s.generation = t.generation => s = t
    /\ unsure \subseteq Entry

\* Once no save waits or is under way and the tab reports no error, the server holds
\* what the tab means to keep, in every entry but those another tab has changed, those
\* of a save whose success the tab never took in, and what the owner put back of a
\* layout while a save of it was under way (mergePresentationChanges leaves layouts out
\* of its reversions: that save may be stored last).  Saves that overlap and are
\* superseded, conflicts, failures nobody reports, reversions within a save's flight and
\* a session that is opened again must none of them leave the two apart
\* (usePresentationPersistence, mergePresentationChanges).  Of the badge this holds only
\* while the tab does not say that it is saving: a superseded save may have changed the
\* badge, which the tab takes in with the save that supersedes it, if that succeeds.
QuietMeansStored ==
    timer = NoTimer /\ saves = {} /\ status # "error"
        => \A e \in Entry \ unsure :
              e # Badge \/ status # "saving" => server.value[e] = Current[e]

\* An edit session that is being saved and has something to send does not stay so for
\* ever: it closes, it is open again after an error, or all it had to send is saved
\* (acknowledgePresentation, handlePresentationError and the effect that closes an
\* unchanged session).  A session that has nothing left to send may stay: put back to
\* what was saved before, or saved by a save that was superseded and whose successor is
\* dropped, it still differs from its baseline and no answer is awaited that would end it.
Unsent == ~SameEdits(Current, previous) \/ badge # "none"
SaveEnds == session = "saving" /\ Unsent ~> ~(session = "saving" /\ Unsent)
=============================================================================
