# Moodle CLI: specifications, checks and proofs

`moodle` is a command line client and an MCP server for Moodle sites. It acts for a
student, over a network that loses replies, beside a browser, a teacher and other
copies of itself, and it keeps the student's credentials on disk. Beside it the
repository has `report-site`: an interactive report, served by a worker over the
storages of its host and edited in the browser by several owners at once. This directory
holds TLA+ specifications of the parts where that is hard, TLC configurations that
check them on small instances, and TLAPS proofs of what matters most for instances
of any size. Paths below are relative to the repository's root under `src/`.

    tlasany Submission.tla                              parse
    tlc -workers 2 -config Submission.cfg MCSubmission  check
    tlapm SubmissionProofs.tla                          prove

## 1. The system

| component | state it keeps | operations | talks to |
| --- | --- | --- | --- |
| submission (`internal/assignment`) | none between runs; one run's steps | preflight, upload, save, hand in, verify, reconcile | guard, writer, status reader |
| write guard (`internal/safety`) | `--dry-run`, `--read-only` | refuse a write, call an interrupted write ambiguous | around every write |
| web service client (`internal/moodle/client.go`, `exception.go`) | credential source, limiter | one call, at most one repetition with a newer token, classification of failures | the site, the credential store |
| pacing (`internal/moodle/pace.go`) | allowance, last refill, pause | reserve, wait, pause | every call of a client |
| assignment overview (`internal/assignment/overview.go`) | one run's list and results, four workers | list, read each status, report | backend selection, client |
| credential file (`internal/secret/file.go`) | `credentials.json` and its temporary file | Get, Set, Delete | shared by all processes |
| keyring (`internal/secret/secret.go`) | the operating system's | Get, Set, Delete | |
| authentication manager (`internal/auth`) | a session's token, cookie, cached capabilities | StoreCredential, StoreSession, Forget, Capabilities | credential store, client |
| configuration (`internal/config`) | sites and accounts, by id | Load, Resolve, UpsertAccount, RemoveAccount, Save | names what the store holds |
| login methods (`internal/authmethod`) | none | obtain a credential | client, callback channel |
| browser callback (`internal/callback`) | a socket, pending transactions | listen, deliver, claim | the operating system's URL handler |
| MCP server (`internal/mcp`) | one call at a time | tools | every feature |
| MCP host authority (`internal/mcphost`) | codes, token families, failed attempts | register, authorize, token, refresh, shut down | remote MCP clients |
| tunnel (`internal/tunnel`) | a child process and its guard | start, wait, stop | the host |
| backend selection (`internal/site`) | capabilities | try routes in order | web service, page reader |
| download, update check (`internal/file`, `internal/update`) | a file each | download; record and check | file system |
| read features, page reader, cookie import, doctor, raw calls | none | translate one reply | client |

Of the report site (`report-site/src`):

| component | state it keeps | operations | talks to |
| --- | --- | --- | --- |
| snapshot storage (`snapshot-storage.js`, `object-snapshot-storage.js`) | D1 tables and R2 objects: head, generations, query pointers, rows | initialize, capture, stream, update queries | other deployments' workers, by the tables only |
| presentation worker (`data-app-worker.js`) | the stored presentation and its revision | snapshot, query, presentation and head routes | storage; every tab |
| presentation sync (`use-presentation.js`, `presentation-state.js`) | baseline, latest, revision, generations, a timer | schedule, save, merge, retry | worker; the shell's editing session |
| query loading (`hosted-query-bootstrap.js`, `query-data-store.js`, `QueryDataBoundary.jsx`, `use-data-app.js`) | rows, loads, a queue for two slots | bootstrap, ensure, drain, replace, update | worker |
| block layout (`block-layout.js`, `use-sortable-blocks.js`, `SortableRegion.jsx`) | rows, widths, hidden blocks | move, resize, hide, commit, merge | presentation sync |
| dashboard view (`dashboard-url-state.js`, `dashboard-view-state.js`, `DataAppShell.jsx`) | tab, filters, focus, remembered views | select, explore, return, navigate, reload, seek a component | address, history, local storage |
| questions (`DashboardAsk.jsx`, `data-app-handoff.js`) | composers, a chip, timers | select, open, submit | the host's chat |
| chart editor (`ChartEditor.jsx`, `chart-editor-state.js`) | a draft with undo | edit, undo, apply | presentation sync |
| inline editing (`use-inline-editing.js`) | a selection of the document | begin, format, commit | presentation sync |
| charts, tables, exports, chrome, inspector, streaming JSON | none to speak of | draw, parse | |

The commands and servers interact by calls within one process, and between processes only through
files (`credentials.json`, the configuration, the callback socket and transaction
store) and through the site. Nothing locks those files. The tabs of a report interact
through its worker, whose requests interleave statement by statement in D1; within a
tab everything is one thread that is left at every `await`, timer and render.

**What is hard.** A write to Moodle cannot be undone and has no request id, so what
a lost reply means must be read back. Saving and handing in are two calls, and which
of them an assignment needs is the teacher's setting. A save writes the whole
submission, so what was typed in the browser passes through the client. Credentials
and configuration are two files changed one after the other, each replaced whole, by
processes that may be killed at any moment and may overlap. A host hands out tokens
whose reuse it must notice while replies get lost. Workers and calls share one
limiter, sleep outside its lock and wake into another state; and two routes to the
same data give it different numbers. In the report, deployments with different data
serve one storage together and a snapshot is streamed while it is edited; saves overlap,
lose their answers and meet conflicts while the owner goes on changing and taking back;
layouts of two owners are merged structure by structure; and what a reader chose is kept
in four places that are written at different moments.

**What makes each part correct.**

- Submission: a run saves and hands in at most once, only what was asked for, and
  nothing it says of the work turns out false later.
- Client: a call is repeated only if the site has not run it; every way an exchange
  ends is described by what is known of it.
- Credential store: a whole file whatever happens, one secret changed at a time, no
  secret of an account that is signed out or that no command can reach.
- Callback: one delivery, to the process that asked, and a dead listener's socket in
  nobody's way.
- Authority: a code is used once, a reused refresh token ends its family, a lost
  reply does not; a wrong passphrase is counted.
- Pacing: never faster than the interval, no slot before the end of a pause, nobody
  asleep for longer than that takes.
- Overview: every item with its own state or its own failure, once all workers are done.
- Snapshot storage: a reader gets one state that was published; an acknowledged edit is
  not lost or half done; no seed is put over a newer head its request has not read.
- Presentation sync: when the tab says that all is saved, it is; a save ends.
- Query loading: each query is loaded once for all who ask, everybody is answered, and
  an edit is applied to whole data.
- Block layout: what is committed is what was shown, every block is in one place, and a
  merge keeps what either owner did.
- Dashboard view: a link shows what it was copied from, back shows what was left, and
  what a tab shows is changed by what is done to it, not by what is done elsewhere.
- Routes: what one route may not decide passes to the next one, nothing else does, and
  both speak of the same thing.

## 2. Modules

| module | what it is |
| --- | --- |
| `SubmitContract` | what submitting promises: per run, at most a save and then a hand-in, and one report |
| `Submission` | the submitter, the guard, the client, the site, browser, teacher and account |
| `MCSubmission` | settings and command lines for TLC |
| `SubmissionProofs` | the theorems about `Submission` |
| `CredentialMap` | what the store promises: a map that changes one secret at a time |
| `CredentialFile` | login, import and logout over the file, system call by system call |
| `MCCredentialFile` | instances for TLC |
| `CredentialFileProofs` | the theorems about `CredentialFile` |
| `Pacing` | the limiter, and the pause a busy site asks for |
| `Overview` | an overview's list, workers and fallback, over `Pacing` |
| `MCOverview` | a numbering and pauses for TLC |
| `OverviewProofs` | the theorems about both |
| `SnapshotContract` | what a hosted snapshot promises: a seed, then whole edits of it |
| `HostedSnapshot`, `MCHostedSnapshot` | the three storages, transaction by transaction; instances |
| `HostedSnapshotProofs` | the theorems about `HostedSnapshot` |
| `PresentationSync`, `MCPresentationSync` | a tab's editing session and save queue, the host, another tab; instances |
| `QueryLoading`, `MCQueryLoading` | bootstrap, store, boundaries and updates; instances |
| `QueryLoadingProofs` | the theorems about `QueryLoading` |
| `LayoutEditing`, `MCLayoutEditing` | block layouts of several owners, and their merge; instances |
| `LayoutEditingProofs` | the theorems about `LayoutEditing` |
| `DashboardView`, `MCDashboardView` | a reader's view, across address, history and storage; instances |
| `DashboardViewProofs` | the theorems about `DashboardView` |

### Submission

`pc[r]` is where a run stands in `Submitter.Submit`; `op`, `used` and `answer` are
the write it last sent, the token in it, and what has become of it. `Preflight`,
`Prepare`, `Reconcile` and `Verify` are each one step: the site's answer and the
decision on it happen at the moment the site answers, since nothing the client does
in between is seen by anybody. The writes are not: `Send`, the site's `Execute`, and
`Receive`, `LoseBody`, `GiveUp` or `Abandon` are steps of their own, so a request may
be executed after the run has ended. The client reads a body before it looks at the status
line, so `LoseBody` may come while the site still runs the call: the page cut short need
not be the site's but that of a gateway that has stopped waiting. `Interrupt` ends the context in any state;
after it every call may only fail, and a write becomes ambiguous by the guard
(`Guarded`). `RetryCall` is the one repetition of `Client.Call`, for a server whose
credential source holds another token by now; a command has no such source.

| code | definition |
| --- | --- |
| `newAssignmentSubmitCommand`, `confirmSubmit` | `Begin` |
| `Submitter.preflight`, `find`, `checkFiles` | `Refuses`, `Preflight`, `PreflightFails` |
| `Submitter.prepare`, `UploadDraft`, `NewDraftArea` | `Prepare`, `PrepareFails`, `SavedText` |
| `SaveSubmission`, `SubmitForGrading` | `Send`, `AfterWrite` |
| `Client.Call`, `reauthenticate` | `RetryCall`, `CanRetry` |
| `send`, `decode`, `networkError`, `httpStatusError`, `exception.asError` | `LoseBody`, `Receive`, `GiveUp`, `CallFailures`, `Answer` |
| `Guard.Do`, `AmbiguousIfInterrupted`, `Mode.Allow` | `Abandon`, `Guarded`, `Allows` |
| `Submitter.reconcile` | `Reconcile`, `ReconcileFails` |
| `errs.Error`, `ExitCode` | `Failure`, `Success`, `Result`, `Exit` |

The site and the other actors are modelled from what the client relies on, and
marked external: Moodle checks the token before anything else, may refuse what it is
sent for reasons of its own, stores every plugin's content in one save, and submits
by saving where no drafts are kept. History variables (`saves`, `hands`, `edited`,
`interfered`, `cut`, and `early`: the status was read back before the site had run the
request) record what happened and are read by no action.

Left out: several students or assignments (a run concerns one), which files are
sent, a status Moodle words in a way the client does not know, settings changed
during a run, a server falling back to the browser session. Reads succeed whatever
the token, which only adds behaviours. `return result, s.reconcile(..., &result)`
is taken as the compiler builds it: the result is read after the call.

### CredentialFile

`stage[p]` is the call of the store a command is in, `call[p]` the system call in
it: `ReadFile`, `Create`, `Clear` (the removal of a leftover), `Write`, `Rename`,
`Chmod`, `Remove`. `file` and `tmp` are what the two names stand for; `holds` is
the name of the file a process has open, which follows a rename and outlives a
removal. `Fault` refuses any call, with the clean-up `File.write` does; `Crash`
kills the process. What a command does in which order is `First`, `AfterDone`,
`AfterFailure` and `Put`, from `storeLogin`, `storeImportedSession`,
`newAuthLogoutCommand`, `StoreCredential` and `Forget`. The configuration is loaded
in `Begin`, changed in memory, and saved whole in `Save`.

A process's name serves as the account id it makes up and as the secret it brings.
A write's bytes reach the file in one step, so a torn file is an empty one; a
machine that loses power, several sites and the keyring are left out.

### Pacing and Overview

`Pacing` has the limiter's three fields. Time is kept relative to now: `ago` since the
last refill, `pause` until the site's pause ends; `Elapse` moves both by one unit. The
allowance is a fraction of a request in the code and counts units of time here,
`MinInterval` to a request. The code refills it in floating point and cuts the wait for
the missing fraction to whole units, so a wait may come out a unit short (`Delay`), and
where less than a unit is missing it comes out as none and the request goes without
being charged (`Give`). Two histories: `spent[a]`, what was charged in the last `a`
units, and `quiet`, every pause anybody was asked for.

`Overview` is `assignment.Service.Overview` over it: a caller's `at` is where it stands
in `send` (waiting for a slot, asleep, granted one, sent), `timer` how long it still sleeps, `route`
the attempt of `site.Try` it makes. The limiter is free again as soon as a slot is granted
(`Go`); the request leaves some time after (`Send`), and what others are told in between
does not keep it. A reply is one of five: the answer, a request for
quiet, a failure that lets the next route try, one that does not, and for a list one
more request.

| code | definition |
| --- | --- |
| `limiter.reserve` | `Available`, `Charge`, `Give`, `Delay` |
| `limiter.wait` | `Go`, `Sleep`, `Wake`, `Cancel` |
| `Client.send` | `Send` |
| `limiter.pause`, `Client.noteBackoff` | `Longest`, `NoteBackoff`, `Busy` |
| `site.Try`, `MayFallBack`, `Unavailable` | `First`, `After`, `FallBack`, `Incapable`, `Refused` |
| `Backend.List`, `Service.Overview` | `AskAgain`, `Listed`, `WithoutDates`, `Hand`, `Leave`, `Collect`, `Fail` |
| `Backend.Status` of either route | `Meant`, `Answered`, `Keep` |

The site's numbering of assignments is the constant `Number`, one injection per route.
The command starts with a full allowance, its readings of the site and the courses
long past. Left out: the marks of a partial answer, the hops of a redirect (the
transport makes them without asking the limiter), a list that changes between two
requests, `wait` without pacing.

### HostedSnapshot

`head[s]` is the row that makes a snapshot current in storage `s`, `table[s]` what it
holds, by seed for objects and by generation (`epochs` counts them) for the others. A
request is a record: `pc`, its deployment `dep`, the storage `via` which it is served,
the head it found (`base`, `act`), what it staged (`own`) and what it means to replace
(`prev`). An action is one statement or one batch, for D1 executes one at a time; a
worker stopped in between is a request that goes no further. `fleet` is the set of
deployments that serve together. `log[s]`, what was stored over time, is history.

| code | definition |
| --- | --- |
| `usesObjectSnapshot` | `Populated`, `LegacyData`, `ObjectEdits`, `Migrates`, `UsesObject`, `Begin` |
| `initializeSnapshot`, `stageSnapshot` | `ReadHead`, `StageSeed`, `ActivateGeneration`, `Adopt`, `Lose`, `ReadWinner` |
| `initializeObjectSnapshot`, `initializeInlineSnapshot` | `ActivateObject`, `ActivateInline` |
| `capturedSnapshot`, `streamSnapshot`, `spliceSnapshot` | `Capture`, `Stream`, `Streamed` |
| `serveSeed` | `ServeSeed` |
| `updateBoundedQueries` | `Exists`, `ReadHeadForEdit`, `Eligible`, `Write`, `Publish` |
| `updateObjectQueries`, `stagePatch` | `StageRows`, `Recheck`, `Edited`, `Publish`, `Verify` |
| `updateInlineQueries` | `Overwrite` |

`SnapshotContract` is what these storages keep. An edit arrives with the queries whose rows
it is to replace (`CArrive`), and replaces those of all of them in one step and once, or is
turned down and replaces none. A seed takes the place of the generation its request has read
(`CLook`), and of no other, and starts a generation that was never there. The contract does
not forbid an older deployment to bring its seed back when it has read the newer head: the
code does not either, and then comes back without any old edit.

Left out: batches of rows and their byte limits, splicing of JSON, times, a storage that
refuses (a request that stops is one that gets no further). The statements by which
`usesObjectSnapshot` looks for tables and rows (`object-snapshot-storage.js:48-56`) are
one step (`Begin`), and a stream is one step over the revisions it has captured (`Stream`).

### PresentationSync

A presentation is a function from a few entries, the smallest pieces the merge tells
apart, and the verification badge, which only the server grants. `timer` is the save that
waits for its 300 ms, `saves` are those under way, each at the server or, answered, at
the tab. `previous`, `latest`, `revision`, `generation` and `acknowledged` are the refs of
`usePresentationPersistence`. An event handler with the effects it triggers is one action
(`Render` is React's decision to run the effect again). The network loses requests
(`LoseRequest`) and answers (`LoseReply`), and reorders both, as `saves` is a set.
Entries in `Layout` are pieces of block layouts: a save that finds an older one under way
takes back, in other entries, what that one would leave and the owner no longer wants
(`Reverts`), but not in layouts (`presentation-state.js:340, 364-365`).

| code | definition |
| --- | --- |
| `usePresentationPersistence`: effect | `Render`, `Schedule`, `Fire` |
| its answers | `Ignore`, `Retry`, `Succeed`, `Fail` |
| `mergePresentationChanges`, `presentationBeforeEdits` | `Reverts`, `Intends`, `Merge`, `Persisted`, `SameEdits` |
| `beginEditing`, `cancelEditing`, `saveEditing`, `onToggleVerification` | `BeginEditing`, `CancelEditing`, `SaveEditing`, `ToggleVerified` |
| worker's `PUT /api/presentation` | `Accepts`, `Unverified`, `BadgeOf`, `Refuse`, `Reject`, `Store` |

Left out: what an entry is, reading the presentation after a reload, sizes. That rows of
one layout are merged structurally is `LayoutEditing`.

### QueryLoading

`mode` is how the tab gets its data, `job[q]` the load a query waits for, `jobs` every
load with its state and promise, numbered in the order they were asked for; `queue` holds
those in line, `active` counts the slots. A boundary or an updater
is a caller that stands at `at[c]` and `awaits` promises. The server is what a tab sees of
it: a revision per query, and whether a deployment has replaced it.

| code | definition |
| --- | --- |
| `loadHostedQuerySnapshot` | `AskHead`, `NoHead`, `AskSnapshot`, `BootstrapFails` |
| `ensure`, `loadAll` | `Begins`, `Number`, `WithLoads`, `Ensure`, `Promises` |
| `drain`, `run` | `Slots`, `Foremost`, `Drain`, `TakeRows`, `TakeError`, `PassOver`, `Settled` |
| `replace`, `dispose` | `Apply`, `ApplyTooLate`, `Dispose` |
| `update_data_app_query` | `Update`, `GoesOn`, `Wake`, `Put`, `PutFails` |
| `QueryDataBoundary` | `Ask`, `Wake` |

### LayoutEditing

A layout has rows of blocks, spans, preferred spans and spans chosen for a block alone;
hidden blocks keep their places in what is stored, and what is shown is balanced to the
canvas every time. `base[o]`, `draft[o]` and `drag[o]` are an owner's, `stored` the
server's. Every action uses the code's algorithms as operators: reconciling authored
with stored rows, moving to a row or between rows, resizing with neighbours, balancing,
retaining hidden blocks, and the merge of rows, orders and widths. A loop of the code is
a fold (`Completed`, `Balanced`, `Borrowed`, `Walked`, `Moved`, ...) over what it runs
through, its body an operator or a local definition where the loop is.

Left out: the redesign of authored blocks under an older layout (`authoredRevision`),
freeform regions, stacks, transfers between regions, undo, and the geometry that proposes a
target (any target and side is proposed). A block has one minimum width here. The code
balances what is shown with built-in minimums (`SortableRegion.jsx:254-274`) and moves and
resizes with those of the style sheet (`use-sortable-blocks.js:71-78`); they are the same
only as long as a theme keeps the widths that ship (`foundation.css:75-86`), which is
assumed.

### DashboardView

`page` is the shell's state (tab, filters, focus, return, charts, remembered views of the
tabs), `entries` and `position` the browser's history with each entry's address and state,
`remembered` the presentation in local storage, `seek` a linked component with the tabs
tried for it. A handler runs with its effects as one action; the search is a chain of
renders that waits for data, so the reader acts between its steps. `says` in an entry (what
its address was written for) and `browsed` (what the reader last chose on each tab) are
histories.

Two sizes of selection matter. One in `Huge` (65,536 bytes) is refused when it is read back,
and by every address; of those in `Large` an address has room for one. The presentation in
the browser's storage has a limit for the whole of it (`presentation-state.js:9, 93`), and
nothing is written beyond it: with any such selection about, `remembered` is written or
left as it was (`Light`, `Saved`). Defaults are assumed not to be `Huge`.

| code | definition |
| --- | --- |
| `serializeDashboardUrlState`, `dashboardUrlWithState` | `Serialize`, `Fits`, `Write` |
| `dashboardView`, `validFilterValue`, `replaceFilters` | `View`, `Resolve`, `Valid`, `Replace` |
| the two effects after every change | `Remember`, `StateOf`, `Commit` |
| `writeLocalPresentation` | `Light`, `Saved` |
| `registerDashboardTabs`, the shell's first state | `Window`, `Open`, `Reload` |
| `restoreDashboardUrlState` | `Restored`, `Back` |
| `setFilter`, `setDashboardFocus`, `updateChartState` | `SetFilter`, `SetDashboardFocus`, `SetCuts` |
| `navigateDashboardTab`, `exploreDashboard` | `NavigateDashboardTab`, `ExploreDashboard`, `Push` |
| the search for a linked component | `Seek`, `TryNextTab`, `FindComponent`, `GiveUpComponent` |

Left out: unscoped dashboards of older reports, assumptions, filters of a section alone,
components that register late or are hidden, scrolling, entries for a `#hash`, and two
windows on one storage.

## 3. What TLC checks

| run | instance | distinct states | shows |
| --- | --- | --- | --- |
| `Submission` | 1 run of 5 kinds, 2 settings, 2 texts, 2 tokens, every other actor | 692 000 | all properties of one run, and that it ends |
| `SubmissionPair` | 2 served runs, 2 settings, browser | 544 000 | what two runs do to each other's text |
| `CredentialFile` | 3 commands, 2 accounts, no overlap | 940 000 | the store and what is left behind |
| `Overview` | 2 items, 2 workers, every set of routes, overlapping numbers, interrupt | 790 000 | pacing, pauses, the report, and that it ends |
| `HostedSnapshot` | 3 requests, 2 at once, 2 queries, 2 seeds, 5 fleets | 480 000 | reading, editing and initializing over all storages |
| `PresentationSync` | an entry, a piece of a layout and the badge, 3 steps of the owner, 1 save of another tab, 1 fault | 381 000 | what "saved" means, and that a save ends |
| `QueryLoading` | 3 queries, 2 slots, 2 boundaries, 1 updater, 4 loads, 1 edit and 1 fault | 379 000 | loads, replies and updates, and that everybody is answered |
| `LayoutEditing` | 2 owners, 3 blocks, 4 columns, 3 edits | 165 000 | commits and merges of layouts |
| `DashboardView` | 2 tabs, 2 filters, 2 choices of the reader, 3 entries | 159 000 | links, history and remembered views |
| `TornStore` | 2 commands that overlap | small | a sentence of the repository that is not kept |
| `Adrift` | 1 run, nobody else | small | likewise |
| `Explored` | as `DashboardView` | small | likewise |

The properties, each stated and explained where it is defined:

- `KeepsContract`: at most one save and one hand-in of it, however calls are
  repeated or delayed, and nothing after a refusal or a plan.
- `OnlyWhatWasAsked`: no write in a dry run or in read-only mode, no hand-in with
  `--draft`, none under a statement that was not accepted.
- `LostIsNeverKnown`, `UnsavedIsUnsaved`, `HandedInIsRead`: what is said of a lost
  write, of a save that did not happen, and of a hand-in. "Nothing was saved" is said after
  a read-back; it is true if the site had run the request by then, and may not be if that
  came too `early` (run `Adrift`).
- `TextLostOnlyToEdit`: files handed in erase no text, unless somebody edited it
  after it was read. (Then they do: the save has no way to ask.)
- `Termination`: a started command ends, although tokens expire and change.
- `KeepsStore`: to a reader the file is a map in which one secret of
  the account being worked on changes at a time.
- `PairMatches`, `LoggedOutIsGone`, `StrandedOnlyByFailure`: token and private token
  belong together, a logout leaves nothing, and a secret nobody can reach is left only
  by a command that was stopped half way (`hurt` says where that is).
- `FailsOnlyByFault`: leftovers of dead commands make no later one fail.
- `NeverTooFast`: in any stretch of time, a burst and one request per interval at most,
  whoever asks.
- `QuietIsKept`: no slot is taken during any pause anybody was asked for, also not by a
  caller that was asleep before. A request that has its slot may still leave inside a pause
  noted since: the lock is released between the two (`pace.go:92`, `client.go:334`).
- `NoOversleep`: a timer set from an older state still ends no later than a slot can be
  there.
- `ReportIsWhole`, `OwnStateOnOneRoute`: every item has a result, and its own.
- `ReadsOneState`: what a reader was streamed is, rows and stamp together, one state the
  storage had, and not one from before its request, whatever is published meanwhile.
- `NoLostEdit`: of two edits one has seen the rows of the other.
- `KeepsContract` (of `HostedSnapshot`): each storage with revisions implements
  `SnapshotContract`: an edit replaces the rows of all the queries it was asked to, in one
  step and once, or of none; a request that has read an older head replaces no newer one,
  and a seed that returns brings no old edits.
- `QuietMeansStored`: when no save waits or is under way and the tab shows no error, the
  server holds what the tab means to keep. `unsure` names the entries this is not said
  of: those another tab changed, those of a save whose success the tab never took in, and
  the pieces of layouts the owner has put back while a save of them was under way.
  Of the badge it is not said while the tab says that it is saving.
- `SaveEnds`: a session that is being saved and has something to send does not stay so: it
  closes, opens again, or has nothing left to send.
- `DownloadedOnce`, `EnsureSettles`: a query is under way at most once, whoever asks,
  and whoever asks is answered, although replies fail and slots are few.
- `EditsWholeData`: an update is sent when every query is there, none of which failed.
- `CommitsWhatWasShown`: a drop leaves exactly the rows the drag has shown, and hidden
  blocks where they were.
- `MergeKeepsBoth`: what one owner changed and the other did not is in the merge.
- `SharedLinkShowsTheView`: an address, opened by anybody, shows what it was copied from,
  also what was left at its default.
- `BackShowsWhatWasLeft`: back, forward and reload show what was left.
- `BrowsingIsKept`: a step changes what a tab shows when it is browsed only if it is one
  that may (`MayChange`): a selection on that tab while it is not explored, a link, going to
  another entry (which brings back what the tabs showed when its address was written), a
  reload of a tab that is explored, the search for a component, for the tab it moves to, and,
  with selections that do not fit an address, a reload, or exploring or searching from the tab
  they are on. Exploring a tab, choosing on another and moving along the bar change nothing.

**Bounds.** One run meets every branch of the code; the second is there because the
only state runs share is the submission, and a third would do to the second what it
does to the first. Two texts tell a text from another and from the empty one; two
tokens are the old and the new one. A run sends at most two writes, each repeated at
most once, so nothing needs a counter's bound. Three commands are a login, a death or
failure of another over what it left, and one that finds both; two accounts are the
one worked on and the one that must not be touched. Commands and names are
interchangeable in `CredentialFile`, so both are reduced by symmetry; no liveness is
checked there. In `Overview` two workers share a limiter with the list before them; an
interval of two units is the least in which a fraction of a request can be left, a burst
of two the least that differs from none; the pauses are none, the longest a site is
given, and one beyond it. `MinInterval`, `Burst`, `MaxRetryAfter` and `Quiet` stand for
100 ms, 8, 5 minutes and 5 seconds, `Pool` for 4; `Requests` bounds a list's requests,
`Horizon` the history. All of it is bounded without any further guard, and the
theorems of section 4 hold without these values.

In `HostedSnapshot` three requests are a reader or initializer between two edits, or two
deployments and an edit; a third seed or query would only be a second one, two run at
once and the third finds what they left; three generations allow a seed, another, and
the first again. Requests, queries and seeds are interchangeable. In `PresentationSync`
three steps of the owner are a change, its reversion and the end of a session; two
entries tell "changed here" from "changed there", and one of them is a piece of a layout. In `QueryLoading` three
queries are one more than the slots; two boundaries want different ones, so that one may
wait for a load alone, and share them with the updater, which needs all. (With a query
shared by the boundaries the properties held too: 561,000 states.) In `LayoutEditing` two owners and the base are the three
layouts of a merge; three blocks over four columns overfill a row with a minimum of two;
the first edits are made before a second owner looks (`FirstEdit`). In `DashboardView`
three entries are one with others on either side; an offered choice that is stale, one that
is too large to be read back, and one of which an address holds one but not two, are among
the filters' values.

**Deadlock** is checked in `Submission`, `SubmissionPair` and `Overview` (where the clock
goes on after the report, so that `Termination` is what says the command ends). In the
other runs every command or request may have ended, or the user may have no more steps,
and the system really stops.

**Fairness.** `FairSpec` assumes weak fairness of a run's own steps and of nothing
else. The code is a sequence of calls; each returns, by the transport's limit for
headers, by a reply, by a body that ends or breaks off, or by the context. Nothing is
assumed of the site executing a request, the user or the account. One thing is taken
on trust there: a body that neither ends nor breaks off has no limit in the code
(`client.go`, `NewHTTPClient`), and against such a site a command waits until it is
interrupted. `Overview` assumes weak fairness of each worker, of the command and of the
clock: goroutines are scheduled, timers fire, every request is answered or breaks off.
Nothing is assumed of what is answered, so a site may be busy every time.
`PresentationSync` and `QueryLoading` assume `WF_vars(Progress)`: the browser runs timers
that are due and delivers what arrives, and a request is answered or fails, in which case
the browser rejects its promise. Neither the user nor another tab has to do anything.

**What the repository says and the code does not do**, as three runs show:

1. `TornStore`: `internal/secret/file.go:61` "an interrupted write cannot leave a truncated
   store", and of two overlapping commands one may publish the other's empty file.
2. `Adrift`: `internal/assignment/submit.go:377` "Confirmed not applied: safe to say so, and
   safe for the caller to try again", and the read-back that confirms it may come before
   the site has run the request. A body that breaks off is called ambiguous before the
   status line is looked at (`internal/moodle/client.go:349-357`), so the page of a gateway
   whose patience has ended, cut short, is enough; the site then saves.
3. `Explored`: `docs/components/filtering.md:21` "normal tab navigation restores browsing
   state", and the address of an explored tab (`DataAppShell.jsx:411`) passes the explored
   view off as that tab's own, so a reload replaces the one chosen while browsing. Going
   back breaks it as well: the views of all tabs are taken from the entry returned to
   (line 595), so that what was chosen on other tabs since is forgotten.

The same in smaller things, met while modelling, which the properties exempt by name or are not stated of:

- *Submission.* `submit.go:63` "DraftOnly saves the work without handing it in", and
  where an assignment keeps no drafts the save hands in. `submit.go:46` "confirmed by
  reading it back", and a draft that was there before confirms a save the site refused
  (line 369). `client.go:639` "The request never reached the site" also serves a request
  that was sent. `Security-Model.md:72` "the outcome is `ambiguous`", and a failing
  read-back after both writes ends in that read's code (line 189).
- *Credentials.* `auth.go:157` "a failed login does not silently change the account", and
  one that fails in saving the configuration (`cli/auth.go:227`) does. A secret under an
  id the configuration has dropped is called recoverable (`internal/cli/site.go:260`), and
  no command can name it. Of two commands that overlap each writes back the whole store it
  has read, so that the one's credential is lost; `KeepsStore` is about commands that do
  not. The mutex of `secret.File` belongs to a `File` that `Selected`
  makes anew for every call (line 240).
- *Overview.* A list's number from one route is used for the status on another
  (`overview.go:48`), where it means something else, though `service.go:82` says that "the
  two are both small integers and are not interchangeable". 429 and 503 let the next route
  try, where `site/fallback.go:7` wants only "this route cannot do it" to.
- *Snapshots.* The inline storage of local previews resets without comparing: two
  requests that both saw an old seed reset twice, and an edit acknowledged in between is gone.
- *Presentation.* A conflict (`use-presentation.js:131`) adopts the revision without the
  baseline it belongs to. If that attempt fails too, the next save passes the revision check
  and is merged against the old baseline: it takes back what another tab saved. No line
  says that it does not, so no property is stated of it. A layout is saved, and put back
  while that save is under way; the next save meets a conflict, because the first arrived,
  and its retry leaves the layout out, being the same as in the baseline: the server has
  the layout that was put back, and the tab says "saved" (`presentation-state.js:364`,
  "Layout edit sessions save once"). An owner changes a title and takes it back while the first save's
  success is on its way; another tab saves, the second save meets the conflict and adopts
  the newer revision, the first success is passed over as old (line 142) and the retry
  fails. The next save is merged against the old base, finds nothing changed, and the
  title taken back stays on the server while the tab says "saved";
  `presentation-state.js:363` wants such reversions applied. A change taken back within
  300 ms, with nothing to send, leaves what the tab says at "saving", which blocks a new
  session. A session that is opened after a failed save, put back and saved, stays
  "saving" for ever; so does one whose save is superseded (a new snapshot runs the effect
  again), succeeds, and whose successor is then dropped as having nothing to send. A
  superseded save that changed the badge succeeds silently: if the save that supersedes it
  fails, and what it was to send is then put back, the badge shown is not the stored one.
- *Updates.* Two calls of the update tool at once, whose answers are reordered, leave the
  older rows on the screen until a reload.
- *Layouts.* Rows may be overfull though `sortable-layout.md:27` excludes "accepting
  overcrowded rows": hide a block, fill its row, restore it; or merge two additions. With no
  layout stored when both began, the second owner's save replaces the first's. The resize
  handle's alignment (`SortableRegion.jsx:484`) keeps an overfull row once a width passes
  the canvas.
- *Views.* The search for a linked component brings the filters of the tab it comes from
  to every tab it tries, and those are remembered (line 717). A first opening without a
  remembered view of the first tab gives it the last tab's filters (line 332). A view too
  large for an address leaves the old address, keeps the reader on that tab, and a reload
  shows the older view.

## 4. What TLAPS proves

All theorems hold for every value of the constants that meets the module's assumptions.

**SubmissionProofs**, for any number of runs, settings, texts, tokens and actors:
`TypeCorrect`, `AskedOnly` (`OnlyWhatWasAsked`), `LostStaysOpen`
(`LostIsNeverKnown`), `NothingWasSaved` (`UnsavedIsUnsaved`), `HandedInWasRead`
(`HandedInIsRead`), `TextKept` (`TextLostOnlyToEdit`) and `Refinement`
(`KeepsContract`). None of these is inductive: what the site may still do depends on
what was sent, and what is said depends on what was done. `Inv` ties them run by
run: `Progress` (how far the conversation is against what has been executed; a
request that waits or was turned down has not been), `Licence` (who gets past
preflight), `Cut`, `Landed`, `Kept`, `Unsaved` (which leaves out a run that was `early`) and `Copy`. `Invariance` shows that
every action keeps `Inv`: a lemma per group of actions, in each of which a run's
own conjuncts are re-established and those of the others are untouched, or, for a
save seen by another run, covered by `interfered` and `edited`.

**CredentialFileProofs**, for any number of commands, accounts, deaths and refused
calls: `TypeCorrect` without further assumption, and for commands that do not overlap
(`~Overlap`) `StoreWhole` (`NeverTorn`), `OnlyFaultsFail` (`FailsOnlyByFault`),
`PairStaysTogether` (`PairMatches`), `LogoutLasts` (`LoggedOutIsGone`),
`NothingStranded` (`StrandedOnlyByFailure`) and `Refinement` (`KeepsStore`). The invariant says what each system call may rely on:
the caller is alone (`Alone`), the store it is about to write is the present one with
one change and lies where `Draft` says, its copy of the configuration is the present
one (`Plan`), an id it made up is nobody's (`Fresh`), no two names share an id
(`Distinct`), and only a refused call leads to failure (`Blame`). What the store holds
between two system calls of one command is a second invariant over the first, `Secrets`:
a table, stage by stage, of which of an account's two secrets are the old login's, the new
one's or gone, and what a refused call still has to put back. Without `~Overlap`
the theorems are false, as the run `TornStore` shows.

**OverviewProofs**, for any interval, burst, pauses, number of items and workers, and
any numbering, from `PacingAssumption` and `OverviewAssumption`: `TypeCorrect`, `Paced`
(`NeverTooFast`), `QuietKept` (`QuietIsKept`), `NobodyOversleeps` (`NoOversleep`),
`WholeReport` (`ReportIsWhole`) and `OwnOnOneRoute` (`OwnStateOnOneRoute`). `Rate`
strengthens pacing by what may go out at once: what a stretch was charged and what is
available together stay within the burst and the stretch. `PauseCovers` says the pause
kept is the longest asked for, which is what a caller taking a slot looks at. `HandedOut` ties an item that was handed out to its
result or to the worker reading it, `Places` the command to its callers, `Routed` routes
to the account's. The limiter has a lemma per operation, which also says that nobody
asleep loses by it.

**HostedSnapshotProofs**, for any number of requests, queries, seeds and deployments that
serve together, and any bounds, from `SnapshotAssumption`: `TypeCorrect`, `Reads`
(`ReadsOneState`), `NoEditLost` (`NoLostEdit`) and `Contract` (`KeepsContract`, two
refinements of `SnapshotContract`, whose `asked` and `base` are read off the requests). The inductive `Inv` says of every request where it
can be (`Placed`) and how it stands to the data (`Stands`): if the head is still the one
it acts on, the content it streams was in the log since its request, the generation it
has staged is pointed at by nobody and empty, what it means to replace is the seed's or a
published edit's. Beside these: a generation number is given once (`Apart`), the log ends with
what is stored and every row in a table was published (`Told`), and who published has
replaced what it read (`Stamped`, `Replaced`). Every action has a lemma per part it
touches; the steps that publish are the only ones where the log grows.

**DashboardViewProofs**, for any tabs, filters, defaults, readers and links, from the four
assumptions of the module: `TypeCorrect`, `LinkShows`, `BackShows` and `BrowsingKept`.
`Inv` is `PageInv` (what is on the page are reviewed choices), `HistoryInv` (every
entry's address, state and `says` agree), `MemoryInv` (what is remembered is what the page
holds, unless something on the page is too large to be stored) and `SeekInv` (the search
is for the component of the present entry). Each action ends in `Commit`, so most of the work is in
a few lemmas: writing and reading an address is the identity on what is shown, and a view
resolved twice is resolved once. `BrowsingKept` is an action property: for every action,
what each tab shows when browsed afterwards (`BrowsedOn`) is computed from what is committed.

**QueryLoadingProofs**, for any queries, boundaries, updaters, slots and bounds, from
`LoadingAssumption`: `TypeCorrect`, `LoadedOnce` (`DownloadedOnce`) and `WholeEdits`
(`EditsWholeData`). `Inv` counts the slots against the loads under way (`Line`), and ties
loads to queries: a load that is pending is the one its query waits for (`Open`), one that
was resolved has left its rows (`Kept`), and of the loads of a query all but one were given
up (`OneEach`); a page loaded as a whole shows every query (`Eager`), and an updater waits
for every query it has not got (`Asked`). `ensure` adds several loads at once: that their
numbers are fresh and each is a load of its query is a lemma of its own, and so is what
`drain` leaves alone.

**PresentationSyncProofs**, for any entries, values, steps of the owner, saves of other
tabs and lost messages, from `PresentationAssumption`: `TypeCorrect` and
`WhatIsQuietIsStored` (`QuietMeansStored`). The property speaks of a state in which nothing
is under way, so that everything it rests on is about the states before. `Inv` says that
saves reach the worker in the order they were begun (`Told`, `Ordered`: none is stored
after a newer one, and the newest one's answer is never old news); that every save knows
of the older ones that may still be stored, and was made against what the tab believes
saved or something it knows of (`Aware`); that in an entry nobody else touched the newest
save that was stored, or else what the tab believes saved, is what the worker holds, and
that a save which may yet be stored carries its own value there (`Holds1`, in which the
merge does its work: `Untouched` and `ServerHolds` say that an entry a save is not about
has the value it would store anyway); and that what waits, or is newest under way, is what
the tab means to keep (`Means`). The owner's steps and the answers that say nothing of the
worker are one lemma (`TurnNext`), the answers that do are one each. Looking for `Inv` at
more steps than the run's showed the two cases of a session and of a badge that section 3
describes, which three steps do not reach; `QuietMeansStored` and `SaveEnds` leave them out.

**LayoutEditingProofs**, for any owners, blocks, locks, widths, minimum widths and authored
rows, from `LayoutAssumption`: `TypeCorrect` and `MergeKeeps` (`MergeKeepsBoth`). The
inductive invariant, `Invariant`, says that what is stored, based on or drafted is a
layout of every block or none (`Values`, `Stored`: rows with different ids, each block in
one of them once, widths within the canvas), that a drag previews the blocks its owner's
draft shows in rows the hidden ones still have a place in (`Seen`), and that a draft of a
stored layout has one. `TypeOK` says of the merge with what somebody else stored that it
is accepted, so it needs the whole algorithm to be followed: rows are treated as sets
(`AsSet`, `Whole`) which change by putting a few in the place of others (`Swapped`), and of
every loop a lemma (`...Steps`) gives the intermediate results, each got from the one
before it, so that what the body keeps, the loop keeps. These lemmas are the induction
over data that the library's theorems cannot give: `FoldExists` and `FoldClimbs` derive it
from the least number at which something goes wrong (`Least`, from `WFMin`) for a
body given as a function, and each `...Steps` lemma applies them to one fold. That a block
given columns stays on the canvas rests on the handle being there only where its
neighbour is on the same line (`HandleShown`, by way of `Flow`). `MergeKeeps` follows
one block through the moves of all the others (`Followed`).

**Only model-checked**: the `Termination`s, `SaveEnds` and `EnsureSettles` (liveness is
beyond the prover); and `CommitsWhatWasShown`, which needs that a row balanced once comes
out of balancing again as it was: a fact about where the loops of `RebalanceBlockRow`
stop, not about what each step of them keeps.

## 5. Plan

In this order; each with its abstract specification where there is one.

1. Done: `Submission` with `SubmitContract`, `CredentialFile` with `CredentialMap`,
   `Overview` with `Pacing`, `HostedSnapshot` with `SnapshotContract`, `DashboardView`,
   `QueryLoading`, `PresentationSync`, `LayoutEditing`, and their proofs.
2. `SignInChannel` (`internal/callback`, `authmethod/mobilelaunch`): two sign-ins, a
   dead one's socket, deliveries out of order, claims across processes; abstractly, a
   callback goes to at most one sign-in, the one that asked. Run: two sign-ins, three
   deliveries.
3. `Authority` (`internal/mcphost`): codes, families of refresh tokens, the lock
   released between consuming and issuing, the grace for a lost reply, the
   passphrase's lock, shutdown; abstractly, a grant that is used once and can be
   revoked for good. Run: two clients, one family, replies lost. Proofs: no token of a
   revoked family is accepted; a code is exchanged once.
4. `Capabilities` (`Session.Capabilities`): what a stale capability does to the choice
   of a route, in a server whose session lives on while tokens change.
5. Configuration, download and update check as file replacements beside
   `CredentialFile`; the tunnel and its guard.
6. `AskPanel` (`DashboardAsk.jsx`, `data-app-handoff.js`): a composer that is closing while
   another opens (`openSelection` does not clear the timer of a closing one), a chip whose
   selection is gone, a question sent twice.
7. Proofs: the half of `CommitsWhatWasShown` that is about rows and hidden blocks, then
   that a balanced row stays as it is; then the invariants of the new modules.

Open in the code and in no module yet: two overlapping commands each save the
configuration they loaded (`config.go:197`), two sign-ins take one socket from each other
(`callback/listener_unix.go:176`), and the host's lock is released between consuming a
token and issuing the next (`mcphost/token.go:34`).

## 6. Not modelled, and why

The keyring (one call of the operating system per operation), rendering and the JSON
contract's shapes, the translations of replies into courses, grades, forums and
calendars, the page reader and the cookie databases (functions of one input, for
tests), the doctor, the composition root, and the site under `docs/`. Of the report
site, most of its lines are charts, widgets, exports, images and the inspector:
translation of rows into marks, pointer and focus handling, wording. They keep no state that
outlives a render, so that there is nothing for an action to change; the filtering of rows
and the streaming parser are functions of one input. Inline editing works on the
browser's own selection, whose behaviour the source does not define.
What is planned and not yet there is listed above and, hazard by hazard, in
`PROJECT.json`.
