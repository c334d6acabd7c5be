----------------------------- MODULE Submission -----------------------------
(***************************************************************************)
(* Handing work in: `moodle assignment submit` against a Moodle site, over *)
(* a network that can lose or delay, with the student's browser and the    *)
(* teacher acting on the same submission at the same time.                 *)
(*                                                                         *)
(* The program's side is internal/assignment/submit.go (the Submitter),    *)
(* the guard of internal/safety/policy.go around each write, the writer of *)
(* internal/moodle/assignment.go and what internal/moodle/client.go makes  *)
(* of each way an exchange can end.  The site's side (Execute and the      *)
(* actions of the browser and the teacher) is Moodle itself, modelled from *)
(* what the client relies on.                                              *)
(*                                                                         *)
(* Reads are one step: the site's answer and the decision taken on it.     *)
(* The two writes are not: a request is sent, executed or not by the site, *)
(* and answered or not, and the client may stop waiting at any point while *)
(* the request is still on its way.                                        *)
(***************************************************************************)
EXTENDS Naturals

CONSTANTS
    Run,       \* invocations of the command, by one student for one assignment
    Text,      \* contents the online text of the submission can have
    NoText,    \* ... of which this one is empty
    Token,     \* web service tokens the account may hold
    NoToken,   \* what the credential store holds after a logout
    Settings,  \* the assignment settings considered
    Requests,  \* the command lines and tool calls considered
    Actors     \* who else acts: some of "browser", "teacher", "account"

(* How an assignment is set up, as far as submitting depends on it.        *)
Setting == [drafts     : BOOLEAN,  \* handing in is a step of its own
            statement  : BOOLEAN,  \* a submission statement must be accepted
            onlinetext : BOOLEAN,  \* the online text plugin is on as well
            takesFiles : BOOLEAN]  \* online file submissions are accepted

(* --read-only, --dry-run, --draft and --accept-statement, or what stands  *)
(* for them in a call of the MCP tool assignment_submit.  A server differs *)
(* in what token it uses: the one it was started with, and once that is    *)
(* not recognised the one then stored.                                     *)
Request == [mode      : {"normal", "dryRun", "readOnly"},
            draftOnly : BOOLEAN,
            accept    : BOOLEAN,
            served    : BOOLEAN]

ASSUME ConstantsAssumption ==
    /\ NoText \in Text
    /\ NoToken \notin Token
    /\ Settings \subseteq Setting
    /\ Requests \subseteq Request
    /\ Actors \subseteq {"browser", "teacher", "account"}

VARIABLES
    assign,     \* the assignment's settings
    asked,      \* asked[r]: the command line of r
    \* the site
    status,     \* status of the student's submission
    text,       \* its online text
    editable,   \* the site lets the student edit (window open, not locked)
    revoked,    \* tokens the site no longer recognises
    \* the student's machine
    stored,     \* the token in the credential store
    pc,         \* pc[r]: the call r makes next or waits for
    tok,        \* tok[r]: the token r opened its session with
    cancelled,  \* cancelled[r]: r was interrupted, its context is done
    readText,   \* readText[r]: the online text r read in its preflight
    op,         \* op[r]: the last write r sent
    used,       \* used[r]: the token it carried
    answer,     \* answer[r]: where that exchange stands
    result,     \* result[r]: what r told its caller
    \* history
    saves,      \* saves[r]: how often the site saved for r
    hands,      \* hands[r]: how often the site handed in for r
    edited,     \* edited[r]: someone else changed the text since r read it
    interfered, \* interfered[r]: someone else changed the submission since
                \*   the site last executed a write of r
    cut,        \* cut[r]: a write of r was interrupted or its reply broke off
    early       \* early[r]: r read the status back before the site had run its
                \*   last write

site    == <<status, text, editable, revoked>>
wire    == <<op, used, answer>>
client  == <<pc, tok, cancelled, readText, result>>
history == <<saves, hands, edited, interfered, cut, early>>
fixed   == <<assign, asked>>
vars == <<fixed, site, stored, client, wire, history>>

Status   == {"new", "draft", "reopened", "submitted"}
Calls    == {"start", "preflight", "upload", "area", "save", "handin",
             "reconcile", "verify"}
Ended    == {"declined", "done"}
Answer   == {"idle", "pending", "ok", "refused", "expired"}
Exit     == {"none", "ok", "failed", "retryable", "ambiguous", "interrupted"}
Outcome  == {"none", "planned", "applied"}
Hint     == {"none", "unsaved", "check"}
Result   == [exit : Exit, outcome : Outcome, handedIn : BOOLEAN, hint : Hint]

NoResult == [exit |-> "none", outcome |-> "none", handedIn |-> FALSE,
             hint |-> "none"]
Failure(e, h) == [NoResult EXCEPT !.exit = e, !.hint = h]
Success(o, s) == [NoResult EXCEPT !.exit = "ok", !.outcome = o,
                                  !.handedIn = (s = "submitted")]

Init ==
    /\ assign \in Settings
    /\ asked \in [Run -> Requests]
    /\ status \in {"new", "draft", "reopened", "submitted"}
    /\ text \in Text
    /\ editable = TRUE
    /\ revoked = {}
    /\ stored \in Token
    /\ pc = [r \in Run |-> "start"]
    /\ tok = [r \in Run |-> stored]
    /\ cancelled = [r \in Run |-> FALSE]
    /\ readText = [r \in Run |-> NoText]
    /\ op = [r \in Run |-> "none"]
    /\ used = [r \in Run |-> stored]
    /\ answer = [r \in Run |-> "idle"]
    /\ result = [r \in Run |-> NoResult]
    /\ saves = [r \in Run |-> 0]
    /\ hands = [r \in Run |-> 0]
    /\ edited = [r \in Run |-> FALSE]
    /\ interfered = [r \in Run |-> FALSE]
    /\ cut = [r \in Run |-> FALSE]
    /\ early = [r \in Run |-> FALSE]

-----------------------------------------------------------------------------
(* Decisions.                                                              *)

\* Whether this run has to hand in after saving.
NeedsHandIn(r) == assign.drafts /\ ~asked[r].draftOnly

\* A preflight that forgets the submission statement.
RefusesNoStatement(r) ==
    \/ status = "submitted"
    \/ ~assign.takesFiles
    \/ ~editable

\* What preflight refuses, from one reading of the assignment and its status.
Refuses(r) ==
    \/ status = "submitted"
    \/ ~assign.takesFiles
    \/ ~editable
    \/ /\ assign.statement
       /\ ~asked[r].accept
       /\ ~asked[r].draftOnly
       /\ asked[r].mode # "dryRun"

\* Whether the guard lets a writing function through at all.
Allows(r) == asked[r].mode \notin {"dryRun", "readOnly"}

\* How the transport describes a call that brought no usable answer: a refusal
\* or a page (failed), no answer at all (retryable), a body that broke off
\* (ambiguous, for a read as for a write, and for an interrupt that breaks it
\* off), or the caller's own interrupt before the body.
CallFailures(r) ==
    IF cancelled[r] THEN {"interrupted", "ambiguous"}
                    ELSE {"failed", "retryable", "ambiguous"}

\* A guard that passes an interrupt on as it came.
GuardedPlain(exit) == exit

\* The guard's last word on a failed write: an interrupted one is ambiguous.
Guarded(exit) == IF exit = "interrupted" THEN "ambiguous" ELSE exit

\* Three ways to get the repetition wrong: not looking whether the store still
\* holds a token; repeating whatever brought no acknowledgement; and repeating
\* for as long as the token is not recognised.
CanRetryEmpty(r) ==
    /\ asked[r].served
    /\ answer[r] = "expired"
    /\ used[r] = tok[r]
    /\ stored # used[r]
CanRetryAny(r) ==
    /\ asked[r].served
    /\ answer[r] # "pending"
    /\ used[r] = tok[r]
    /\ stored # NoToken
CanRetryAlways(r) ==
    /\ asked[r].served
    /\ answer[r] = "expired"
    /\ stored # NoToken

\* A call is worth repeating only for a token the site does not recognise, only
\* once, and only when the store holds another one; a command never looks.
CanRetry(r) ==
    /\ asked[r].served
    /\ answer[r] = "expired"
    /\ used[r] = tok[r]
    /\ stored \notin {NoToken, used[r]}

\* A save that leaves the online text out, which Moodle stores as empty.
SavedTextOmitted(r) == NoText

\* The online text a save carries: one call writes every plugin, so what was
\* typed in the browser is sent back as preflight read it.
SavedText(r) == readText[r]

\* Which call follows a write that the site acknowledged.
AfterWrite(r) == IF op[r] = "save" /\ NeedsHandIn(r) THEN "handin" ELSE "verify"

Finish(r, at, res) ==
    /\ pc' = [pc EXCEPT ![r] = at]
    /\ result' = [result EXCEPT ![r] = res]

Goto(r, at) ==
    /\ pc' = [pc EXCEPT ![r] = at]
    /\ UNCHANGED result

-----------------------------------------------------------------------------
(* The command.                                                            *)

\* A command opens its session with the stored token, a server has opened one
\* already; read-only mode, a route that cannot submit, or an answer other than
\* yes ends it here.
Begin(r) ==
    /\ pc[r] = "start"
    /\ \/ Finish(r, "declined", Failure("failed", "none"))
          /\ UNCHANGED tok
       \/ /\ asked[r].mode # "readOnly"
          /\ IF asked[r].served
             THEN UNCHANGED tok
             ELSE stored # NoToken /\ tok' = [tok EXCEPT ![r] = stored]
          /\ Goto(r, "preflight")
    /\ UNCHANGED <<fixed, site, stored, cancelled, readText, wire, history>>

Preflight(r) ==
    /\ pc[r] = "preflight"
    /\ ~cancelled[r]
    /\ readText' = [readText EXCEPT ![r] = text]
    /\ edited' = [edited EXCEPT ![r] = FALSE]
    /\ IF Refuses(r)
       THEN Finish(r, "declined", Failure("failed", "none"))
       ELSE IF asked[r].mode = "dryRun"
            THEN Finish(r, "declined", Success("planned", "none"))
            ELSE Goto(r, "upload")
    /\ UNCHANGED <<fixed, site, stored, tok, cancelled, wire,
                   saves, hands, interfered, cut, early>>

PreflightFails(r) ==
    /\ pc[r] = "preflight"
    /\ \E e \in CallFailures(r) : Finish(r, "declined", Failure(e, "none"))
    /\ UNCHANGED <<fixed, site, stored, tok, cancelled, readText, wire, history>>

\* upload.php fills a draft area of the user's own, which nothing else reads;
\* with online text a second, empty area is allocated for it.
Prepare(r) ==
    /\ \/ /\ pc[r] = "upload"
          /\ Goto(r, IF assign.onlinetext THEN "area" ELSE "save")
       \/ /\ pc[r] = "area"
          /\ Goto(r, "save")
    /\ ~cancelled[r]
    /\ Allows(r)
    /\ UNCHANGED <<fixed, site, stored, tok, cancelled, readText, wire, history>>

PrepareFails(r) ==
    /\ pc[r] \in {"upload", "area"}
    /\ \E e \in CallFailures(r) : Finish(r, "done", Failure(Guarded(e), "none"))
    /\ UNCHANGED <<fixed, site, stored, tok, cancelled, readText, wire, history>>

\* mod_assign_save_submission, then mod_assign_submit_for_grading.
Send(r) ==
    /\ pc[r] \in {"save", "handin"}
    /\ op[r] # pc[r]
    /\ ~cancelled[r]
    /\ Allows(r)
    /\ op' = [op EXCEPT ![r] = pc[r]]
    /\ answer' = [answer EXCEPT ![r] = "pending"]
    /\ used' = [used EXCEPT ![r] = tok[r]]
    /\ UNCHANGED <<fixed, site, stored, client, history>>

Waiting(r) == pc[r] \in {"save", "handin"} /\ op[r] = pc[r]

\* A reply that arrived whole.  Some refusals, as of a site in maintenance, say
\* that they will pass.
Receive(r) ==
    /\ Waiting(r)
    /\ ~cancelled[r]
    /\ \/ /\ answer[r] = "ok"
          /\ Goto(r, AfterWrite(r))
       \/ /\ \/ answer[r] = "refused"
             \/ answer[r] = "expired" /\ ~CanRetry(r)
          /\ \E e \in {"failed", "retryable"} : Finish(r, "done", Failure(e, "none"))
    /\ answer' = [answer EXCEPT ![r] = "idle"]
    /\ UNCHANGED <<fixed, site, stored, tok, cancelled, readText, op, used, history>>

\* The same call again, with the token another process has stored meanwhile.
RetryCall(r) ==
    /\ Waiting(r)
    /\ ~cancelled[r]
    /\ CanRetry(r)
    /\ used' = [used EXCEPT ![r] = stored]
    /\ answer' = [answer EXCEPT ![r] = "pending"]
    /\ UNCHANGED <<fixed, site, stored, client, op, history>>

\* Headers came and the body broke off.  They need not be the site's: the body is
\* read before the status line is looked at, so a gateway's page that breaks off
\* while the site still runs the call counts as a reply cut short, too.
LoseBody(r) ==
    /\ Waiting(r)
    /\ Goto(r, "reconcile")
    /\ cut' = [cut EXCEPT ![r] = TRUE]
    /\ UNCHANGED <<fixed, site, stored, tok, cancelled, readText, wire,
                   saves, hands, edited, interfered, early>>

\* No header within the transport's limit, a connection closed before one, or
\* a gateway's answer in the site's place.  The request may still be on its way.
GiveUp(r) ==
    /\ Waiting(r)
    /\ \E e \in {"failed", "retryable"} : Finish(r, "done", Failure(e, "none"))
    /\ UNCHANGED <<fixed, site, stored, tok, cancelled, readText, wire, history>>

\* Ctrl-C or SIGTERM ends the context, whatever the command is waiting for.
Interrupt(r) ==
    /\ pc[r] \notin {"start"} \cup Ended
    /\ ~cancelled[r]
    /\ cancelled' = [cancelled EXCEPT ![r] = TRUE]
    /\ UNCHANGED <<fixed, site, stored, pc, tok, readText, result, wire, history>>

\* A write, sent or about to be, returns as soon as its context is done.
Abandon(r) ==
    /\ pc[r] \in {"save", "handin"}
    /\ cancelled[r]
    /\ IF Guarded("interrupted") = "ambiguous"
       THEN Goto(r, "reconcile")
       ELSE Finish(r, "done", Failure("interrupted", "none"))
    /\ cut' = [cut EXCEPT ![r] = TRUE]
    /\ UNCHANGED <<fixed, site, stored, tok, cancelled, readText, wire,
                   saves, hands, edited, interfered, early>>

\* A reconciliation that takes only what was handed in for an effect.
ReconcileForgetsDrafts(r) ==
    /\ pc[r] = "reconcile"
    /\ ~cancelled[r]
    /\ Finish(r, "done", IF status = "submitted"
                         THEN Success("applied", status)
                         ELSE Failure("ambiguous", "unsaved"))
    /\ UNCHANGED <<fixed, site, stored, tok, cancelled, readText, wire, history>>

\* After a write whose outcome is ambiguous, the status decides.
Reconcile(r) ==
    /\ pc[r] = "reconcile"
    /\ ~cancelled[r]
    /\ Finish(r, "done", IF status \in {"submitted", "draft"}
                         THEN Success("applied", status)
                         ELSE Failure("ambiguous", "unsaved"))
    /\ early' = [early EXCEPT ![r] = answer[r] = "pending"]
    /\ UNCHANGED <<fixed, site, stored, tok, cancelled, readText, wire,
                   saves, hands, edited, interfered, cut>>

ReconcileFails(r) ==
    /\ pc[r] = "reconcile"
    /\ Finish(r, "done", Failure("ambiguous", "check"))
    /\ UNCHANGED <<fixed, site, stored, tok, cancelled, readText, wire, history>>

\* Reporting what the acknowledged calls should have led to.
VerifyTrusts(r) ==
    /\ pc[r] = "verify"
    /\ ~cancelled[r]
    /\ Finish(r, "done",
              Success("applied", IF asked[r].draftOnly THEN status ELSE "submitted"))
    /\ UNCHANGED <<fixed, site, stored, tok, cancelled, readText, wire, history>>

\* The read-back after writes that were acknowledged.
Verify(r) ==
    /\ pc[r] = "verify"
    /\ ~cancelled[r]
    /\ Finish(r, "done", Success("applied", status))
    /\ UNCHANGED <<fixed, site, stored, tok, cancelled, readText, wire, history>>

VerifyFails(r) ==
    /\ pc[r] = "verify"
    /\ \E e \in CallFailures(r) : Finish(r, "done", Failure(e, "check"))
    /\ UNCHANGED <<fixed, site, stored, tok, cancelled, readText, wire, history>>

-----------------------------------------------------------------------------
(* The site.                                                               *)

\* What Moodle itself refuses, whatever the client believes by now.
SiteAccepts(r) ==
    /\ editable
    /\ IF op[r] = "save"
       THEN ~(assign.drafts /\ status = "submitted")
       ELSE status = "draft" /\ (assign.statement => asked[r].accept)

\* The token is not recognised, or something in front of the site answers with a
\* page of its own; or the site refuses what it was sent, for whatever reason.
TurnDown(r) ==
    /\ \/ answer' = [answer EXCEPT ![r] = "expired"]
       \/ used[r] \notin revoked /\ answer' = [answer EXCEPT ![r] = "refused"]
    /\ UNCHANGED <<status, text, saves, hands, edited, interfered>>

\* The save writes every enabled plugin; with no drafts kept it hands in too.
ExecuteSave(r) ==
    /\ op[r] = "save"
    /\ status' = IF assign.drafts THEN "draft" ELSE "submitted"
    /\ text' = IF assign.onlinetext THEN SavedText(r) ELSE text
    /\ edited' = [q \in Run |-> edited[q] \/ (text' # text /\ q # r)]
    /\ saves' = [saves EXCEPT ![r] = @ + 1]
    /\ UNCHANGED hands

ExecuteHandIn(r) ==
    /\ op[r] = "handin"
    /\ status' = "submitted"
    /\ hands' = [hands EXCEPT ![r] = @ + 1]
    /\ UNCHANGED <<text, edited, saves>>

Accept(r) ==
    /\ used[r] \notin revoked
    /\ SiteAccepts(r)
    /\ ExecuteSave(r) \/ ExecuteHandIn(r)
    /\ answer' = [answer EXCEPT ![r] = "ok"]
    /\ interfered' = [q \in Run |-> q # r]

\* Moodle runs the request of r, which may have stopped waiting for it.
Execute(r) ==
    /\ answer[r] = "pending"
    /\ TurnDown(r) \/ Accept(r)
    /\ UNCHANGED <<fixed, editable, revoked, stored, client, op, used, cut, early>>

\* The student, in the browser.
BrowserEdit(t) ==
    /\ assign.onlinetext /\ editable
    /\ ~(assign.drafts /\ status = "submitted")
    /\ t # text
    /\ text' = t
    /\ status' = IF assign.drafts THEN "draft" ELSE "submitted"
    /\ edited' = [r \in Run |-> TRUE]
    /\ interfered' = [r \in Run |-> TRUE]
    /\ UNCHANGED <<fixed, editable, revoked, stored, client, wire, saves, hands, cut,
                   early>>

BrowserHandIn ==
    /\ assign.drafts /\ editable
    /\ status = "draft"
    /\ status' = "submitted"
    /\ interfered' = [r \in Run |-> TRUE]
    /\ UNCHANGED <<fixed, text, editable, revoked, stored, client, wire, saves, hands,
                   edited, cut, early>>

\* The teacher reverts a submission to draft, or allows another attempt.
TeacherReopens ==
    /\ status = "submitted"
    /\ status' \in {"draft", "reopened"}
    /\ interfered' = [r \in Run |-> TRUE]
    /\ UNCHANGED <<fixed, text, editable, revoked, stored, client, wire, saves, hands,
                   edited, cut, early>>

\* The window closes or opens; the teacher locks or unlocks.
TeacherLocks ==
    /\ editable' = ~editable
    /\ UNCHANGED <<fixed, status, text, revoked, stored, client, wire, history>>

RevokeToken(t) ==
    /\ t \notin revoked
    /\ revoked' = revoked \cup {t}
    /\ UNCHANGED <<fixed, status, text, editable, stored, client, wire, history>>

\* Another `moodle auth login` stores a token the site recognises.
SignInAgain(t) ==
    /\ t \notin revoked
    /\ t # stored
    /\ stored' = t
    /\ UNCHANGED <<fixed, site, client, wire, history>>

Logout ==
    /\ stored # NoToken
    /\ stored' = NoToken
    /\ UNCHANGED <<fixed, site, client, wire, history>>

-----------------------------------------------------------------------------

\* What the command does by itself, once it has been started.
Step(r) ==
    \/ Preflight(r) \/ PreflightFails(r)
    \/ Prepare(r) \/ PrepareFails(r)
    \/ Send(r) \/ Receive(r) \/ RetryCall(r) \/ LoseBody(r) \/ GiveUp(r)
    \/ Abandon(r)
    \/ Reconcile(r) \/ ReconcileFails(r)
    \/ Verify(r) \/ VerifyFails(r)

Browser == (\E t \in Text : BrowserEdit(t)) \/ BrowserHandIn
Teacher == TeacherReopens \/ TeacherLocks
Account == (\E t \in Token : RevokeToken(t) \/ SignInAgain(t)) \/ Logout

Environment ==
    \/ "browser" \in Actors /\ Browser
    \/ "teacher" \in Actors /\ Teacher
    \/ "account" \in Actors /\ Account

Next ==
    \/ \E r \in Run : Begin(r) \/ Step(r) \/ Interrupt(r) \/ Execute(r)
    \/ Environment

Spec == Init /\ [][Next]_vars

\* The command keeps running once started, and the transport ends every wait
\* for a header; nothing is assumed of the site, the user or the network.
FairSpec == Spec /\ \A r \in Run : WF_vars(Step(r))

-----------------------------------------------------------------------------
(* Properties.                                                             *)

TypeOK ==
    /\ assign \in Settings
    /\ asked \in [Run -> Requests]
    /\ status \in Status
    /\ text \in Text
    /\ editable \in BOOLEAN
    /\ revoked \subseteq Token
    /\ stored \in Token \cup {NoToken}
    /\ pc \in [Run -> Calls \cup Ended]
    /\ tok \in [Run -> Token]
    /\ cancelled \in [Run -> BOOLEAN]
    /\ readText \in [Run -> Text]
    /\ op \in [Run -> {"none", "save", "handin"}]
    /\ used \in [Run -> Token]
    /\ answer \in [Run -> Answer]
    /\ result \in [Run -> Result]
    /\ saves \in [Run -> Nat]
    /\ hands \in [Run -> Nat]
    /\ edited \in [Run -> BOOLEAN]
    /\ interfered \in [Run -> BOOLEAN]
    /\ cut \in [Run -> BOOLEAN]
    /\ early \in [Run -> BOOLEAN]

\* The promise of SubmitContract.  Each run saves at most once and hands in at
\* most once and only what it saved, although it repeats calls itself and
\* although its requests may be executed after it has ended; a run that refused
\* or only planned leaves nothing behind.
Effect(r) ==
    IF saves[r] > 1 \/ hands[r] > 1 THEN "repeated"
    ELSE IF hands[r] = 1 THEN (IF saves[r] = 1 THEN "handedIn" ELSE "unsaved")
    ELSE IF saves[r] = 1 THEN "saved" ELSE "none"
Told(r) == CASE pc[r] = "declined" -> "declined"
             [] pc[r] = "done" -> "ended"
             [] OTHER -> "nothing"
Contract == INSTANCE SubmitContract WITH
                effect <- [r \in Run |-> Effect(r)],
                told   <- [r \in Run |-> Told(r)]
KeepsContract == Contract!Spec

\* Nothing reaches the site that the command line did not ask for: no write in a
\* dry run or in read-only mode, no hand-in for --draft, and nothing at all when
\* a statement is required that the student has not accepted.
OnlyWhatWasAsked ==
    \A r \in Run :
        /\ asked[r].mode # "normal" => saves[r] = 0 /\ hands[r] = 0
        /\ asked[r].draftOnly => hands[r] = 0
        /\ assign.statement /\ ~asked[r].accept
              => hands[r] = 0 /\ (saves[r] > 0 => asked[r].draftOnly)

\* A write that was interrupted or whose reply broke off is never reported as a
\* failure with a known outcome: it is read back, or it stays ambiguous.
LostIsNeverKnown ==
    \A r \in Run : pc[r] = "done" /\ cut[r]
                      => result[r].exit \in {"ok", "ambiguous"}

\* "Nothing was saved; it is safe to try again" is true of a run whose last write
\* the site had run by the time the status was read: the save has not been
\* executed and will not be, unless somebody else changed the submission between
\* that write and the reading.
UnsavedIsUnsaved ==
    \A r \in Run : result[r].hint = "unsaved"
                      => saves[r] = 0 \/ interfered[r] \/ early[r]

\* "Confirmed not applied: safe to say so, and safe for the caller to try again":
\* when that is said, the save has not been executed and will not be.  It fails
\* for a run that was early: the read-back finds nothing while the site has yet to
\* run the request.
ConfirmedNotApplied ==
    \A r \in Run : result[r].hint = "unsaved" => saves[r] = 0 \/ interfered[r]

\* Work is reported as handed in only in a step that finds it handed in.
HandedInIsRead ==
    [][\A r \in Run : result'[r].handedIn /\ ~result[r].handedIn
                         => status = "submitted"]_vars

\* A save changes the online text only when somebody else has changed it since
\* the run read it: handing in files does not by itself erase what was typed.
TextLostOnlyToEdit ==
    [][\A r \in Run : saves'[r] > saves[r] /\ text' # text => edited[r]]_vars

\* A command that has been started ends, however the site and the network
\* behave, and however often somebody signs in again meanwhile.
Termination == \A r \in Run : pc[r] # "start" ~> pc[r] \in Ended

=============================================================================
