--------------------------- MODULE CredentialFile ---------------------------
(***************************************************************************)
(* Credentials in a file: `moodle auth login`, `auth import-session` and   *)
(* `auth logout` over the store of internal/secret/file.go, one JSON       *)
(* object in credentials.json, beside the configuration that names the     *)
(* accounts.                                                               *)
(*                                                                         *)
(* Every Set and Delete reads the whole file, and replaces it through one  *)
(* temporary file whose name all processes share.  Each step is a system   *)
(* call: a process may be killed before any of them, the system may refuse *)
(* any of them, and without a lock another process may come in between.    *)
(*                                                                         *)
(* A secret is named by the process whose login brought it, and so is the  *)
(* account id that process made up.                                        *)
(***************************************************************************)
EXTENDS Naturals

CONSTANTS
    Process,  \* commands, each a process of its own
    Name,     \* account names
    Old,      \* the account there already is, and the login it stems from
    Held,     \* the secrets it may hold: a token, a pair of tokens, a session
    None,     \* no account, no secret
    Absent,   \* what a file name stands for when there is no file
    Torn,     \* ... and when nothing has been written to the file yet
    Overlap   \* commands may run at the same time

Id == Process \cup {Old}
Value == Id \cup {None}
Kind == {"token", "private", "session"}
Store == [Id -> [Kind -> Value]]

ASSUME ConstantsAssumption ==
    /\ Old \notin Process
    /\ None \notin Id
    /\ Absent # Torn /\ Absent \notin Store /\ Torn \notin Store
    /\ \A held \in Held : /\ held \subseteq Kind /\ held # {}
                          /\ "private" \in held => "token" \in held
    /\ Overlap \in BOOLEAN

\* What a name in the directory stands for.  Reading no file, or an empty one,
\* finds no secret.
Content == Store \cup {Absent, Torn}

\* A login may or may not bring a private token besides the token.
Command == {"login", "loginPair", "import", "logout"}
Ended == {"done", "refused", "failed", "dead"}
Stage == {"start", "peek", "token", "private", "session", "restore", "save",
          "unsave"} \cup Ended
Call == {"read", "create", "clear", "again", "write", "rename", "chmod", "remove"}

VARIABLES
    file,     \* credentials.json
    tmp,      \* credentials.json.tmp
    config,   \* config[n]: the id of the account n in the configuration
    cmd,      \* cmd[p]: what p was asked for
    name,     \* name[p]: ... and for which account
    id,       \* id[p]: the id it has in p's copy of the configuration
    view,     \* view[p]: the configuration p loaded
    stage,    \* stage[p]: which call of the store p makes
    call,     \* call[p]: ... and which system call of that
    seen,     \* seen[p]: the store p read
    holds,    \* holds[p]: the name of the file p has open for writing
    previous, \* previous[p]: the token before p's login
    faulty,   \* faulty[p]: the system refused p a call
    hurt      \* ids a command stopped on with part of its work done

disk    == <<file, tmp>>
process == <<cmd, name, id, view>>
vars == <<disk, config, process, stage, call, seen, holds, previous, faulty, hurt>>

Empty == [i \in Id |-> [k \in Kind |-> None]]
Read(content) == IF content \in {Absent, Torn} THEN Empty ELSE content
Visible == Read(file)

Running(p) == stage[p] \notin {"start"} \cup Ended
Writes == {"token", "private", "session", "restore"}
Writing(p) == stage[p] \in Writes

Init ==
    /\ \E held \in Held :
          file = [Empty EXCEPT ![Old] = [k \in Kind |-> IF k \in held THEN Old ELSE None]]
    /\ tmp = Absent
    /\ \E n \in Name : config = [m \in Name |-> IF m = n THEN Old ELSE None]
    /\ cmd = [p \in Process |-> "none"]
    /\ name = [p \in Process |-> None]
    /\ id = [p \in Process |-> Old]
    /\ view = [p \in Process |-> config]
    /\ stage = [p \in Process |-> "start"]
    /\ call = [p \in Process |-> "read"]
    /\ seen = [p \in Process |-> Empty]
    /\ holds = [p \in Process |-> "none"]
    /\ previous = [p \in Process |-> None]
    /\ faulty = [p \in Process |-> FALSE]
    /\ hurt = {}

-----------------------------------------------------------------------------
(* What a command does, and in which order.                                *)

First(c) == CASE c = "import" -> "session"
              [] c = "logout" -> "unsave"
              [] OTHER -> "peek"

\* The kind of secret a stage is about.
KeyKind(p) == IF stage[p] = "restore" THEN "token" ELSE stage[p]

\* A rollback that only knows how to put a former token back.
PutKeeps(p) == CASE stage[p] = "restore" /\ previous[p] # None -> previous[p]
                 [] cmd[p] = "logout" -> None
                 [] cmd[p] = "login" /\ stage[p] = "private" -> None
                 [] OTHER -> p

\* The secret a stage puts there; None deletes.
Put(p) == CASE stage[p] = "restore" -> previous[p]
            [] cmd[p] = "logout" -> None
            [] cmd[p] = "login" /\ stage[p] = "private" -> None
            [] OTHER -> p

\* A write that forgets what else the file holds.
UpdatedAlone(p) == [Empty EXCEPT ![id[p]][KeyKind(p)] = Put(p)]

\* The store with that one change.
Updated(p) == [Visible EXCEPT ![id[p]][KeyKind(p)] = Put(p)]

\* A logout that knows nothing of imported sessions.
AfterDoneNoSession(p) ==
    CASE stage[p] = "token" -> "private"
      [] stage[p] = "private" -> IF cmd[p] = "logout" THEN "done" ELSE "save"
      [] stage[p] = "session" -> "save"
      [] OTHER -> "failed"

\* Signing in stores the secrets, then the configuration; signing out saves the
\* configuration without the account, then forgets the secrets one by one.
AfterDone(p) ==
    CASE stage[p] = "token" -> "private"
      [] stage[p] = "private" -> IF cmd[p] = "logout" THEN "session" ELSE "save"
      [] stage[p] = "session" -> IF cmd[p] = "logout" THEN "done" ELSE "save"
      [] OTHER -> "failed"

\* A failure that is reported and nothing more.
AfterFailureGivesUp(p) == "failed"

\* Only the private token's failure is made good: the old token is put back.
AfterFailure(p) ==
    IF stage[p] = "private" /\ cmd[p] # "logout" THEN "restore" ELSE "failed"

Goto(p, s) ==
    /\ stage' = [stage EXCEPT ![p] = s]
    /\ call' = [call EXCEPT ![p] = "read"]

Proceed(p, c) ==
    /\ call' = [call EXCEPT ![p] = c]
    /\ UNCHANGED stage

Begin(p, c, n) ==
    /\ stage[p] = "start"
    /\ Overlap \/ \A q \in Process : ~Running(q)
    /\ cmd' = [cmd EXCEPT ![p] = c]
    /\ name' = [name EXCEPT ![p] = n]
    /\ view' = [view EXCEPT ![p] = config]
    /\ id' = [id EXCEPT ![p] = IF config[n] # None THEN config[n] ELSE p]
    /\ Goto(p, IF c = "logout" /\ config[n] = None THEN "refused" ELSE First(c))
    /\ UNCHANGED <<disk, config, seen, holds, previous, faulty, hurt>>

Peek(p) ==
    /\ stage[p] = "peek"
    /\ previous' = [previous EXCEPT ![p] = Visible[id[p]]["token"]]
    /\ Goto(p, "token")
    /\ UNCHANGED <<disk, config, process, seen, holds, faulty, hurt>>

\* The whole configuration is replaced by p's copy, in one rename.
Save(p) ==
    /\ \/ /\ stage[p] = "save"
          /\ config' = [view[p] EXCEPT ![name[p]] = id[p]]
          /\ Goto(p, "done")
       \/ /\ stage[p] = "unsave"
          /\ config' = [view[p] EXCEPT ![name[p]] = None]
          /\ Goto(p, "token")
    /\ UNCHANGED <<disk, process, seen, holds, previous, faulty, hurt>>

-----------------------------------------------------------------------------
(* The store.                                                              *)

\* A deletion of what is not there is done, one of the last secret removes the
\* file, everything else writes a new one.
ReadFile(p) ==
    /\ Writing(p) /\ call[p] = "read"
    /\ IF Put(p) = None /\ Updated(p) = Visible
       THEN Goto(p, AfterDone(p)) /\ UNCHANGED seen
       ELSE IF Put(p) = None /\ Updated(p) = Empty
       THEN Proceed(p, "remove") /\ UNCHANGED seen
       ELSE Proceed(p, "create") /\ seen' = [seen EXCEPT ![p] = Updated(p)]
    /\ UNCHANGED <<disk, config, process, holds, previous, faulty, hurt>>

\* Who has the file open that a name stood for, once the name is gone or taken.
Unlinked(n) == [q \in Process |-> IF holds[q] = n THEN "gone" ELSE holds[q]]

\* The file is created with O_EXCL, which refuses a name that is taken.
Open(p) ==
    /\ tmp' = Torn
    /\ holds' = [holds EXCEPT ![p] = "tmp"]
    /\ Proceed(p, "write")
    /\ UNCHANGED file

\* Mutant: a store that takes a leftover for the file of a running command.
OpenOrFail(p) ==
    IF tmp = Absent THEN Open(p)
    ELSE Goto(p, AfterFailure(p)) /\ UNCHANGED <<disk, holds>>

\* A file that is there already is a leftover, the first time.
OpenOrClear(p) ==
    IF tmp = Absent THEN Open(p)
    ELSE /\ IF call[p] = "create" THEN Proceed(p, "clear")
                                  ELSE Goto(p, AfterFailure(p))
         /\ UNCHANGED <<disk, holds>>

Create(p) ==
    /\ Writing(p) /\ call[p] \in {"create", "again"}
    /\ OpenOrClear(p)
    /\ UNCHANGED <<config, process, seen, previous, faulty, hurt>>

Clear(p) ==
    /\ Writing(p) /\ call[p] = "clear"
    /\ IF tmp # Absent THEN Proceed(p, "again") ELSE Goto(p, AfterFailure(p))
    /\ tmp' = Absent
    /\ holds' = Unlinked("tmp")
    /\ UNCHANGED <<file, config, process, seen, previous, faulty, hurt>>

\* A write that leaves the file open.
WriteLeaks(p) ==
    /\ Writing(p) /\ call[p] = "write"
    /\ tmp' = IF holds[p] = "tmp" THEN seen[p] ELSE tmp
    /\ file' = IF holds[p] = "file" THEN seen[p] ELSE file
    /\ Proceed(p, "rename")
    /\ UNCHANGED <<config, process, seen, holds, previous, faulty, hurt>>

\* The bytes go to the file p opened, whatever name it has by now.
Write(p) ==
    /\ Writing(p) /\ call[p] = "write"
    /\ tmp' = IF holds[p] = "tmp" THEN seen[p] ELSE tmp
    /\ file' = IF holds[p] = "file" THEN seen[p] ELSE file
    /\ holds' = [holds EXCEPT ![p] = "none"]
    /\ seen' = [seen EXCEPT ![p] = Empty]
    /\ Proceed(p, "rename")
    /\ UNCHANGED <<config, process, previous, faulty, hurt>>

\* The rename goes by name, whoever made the file that has it by now.
Rename(p) ==
    /\ Writing(p) /\ call[p] = "rename"
    /\ IF tmp # Absent
       THEN /\ file' = tmp /\ tmp' = Absent
            /\ holds' = [q \in Process |->
                            IF holds[q] = "tmp" THEN "file" ELSE Unlinked("file")[q]]
            /\ Proceed(p, "chmod")
       ELSE /\ Goto(p, AfterFailure(p))
            /\ UNCHANGED <<disk, holds>>
    /\ UNCHANGED <<config, process, seen, previous, faulty, hurt>>

Chmod(p) ==
    /\ Writing(p) /\ call[p] = "chmod"
    /\ Goto(p, IF file # Absent THEN AfterDone(p) ELSE AfterFailure(p))
    /\ UNCHANGED <<disk, config, process, seen, holds, previous, faulty, hurt>>

Remove(p) ==
    /\ Writing(p) /\ call[p] = "remove"
    /\ file' = Absent
    /\ holds' = Unlinked("file")
    /\ Goto(p, AfterDone(p))
    /\ UNCHANGED <<tmp, config, process, seen, previous, faulty, hurt>>

-----------------------------------------------------------------------------
(* What goes wrong.                                                        *)

\* A failed write or rename takes the temporary file away, by its name.
Tidy(p) ==
    IF Writing(p) /\ call[p] \in {"write", "rename"}
    THEN tmp' = Absent /\ holds' = [Unlinked("tmp") EXCEPT ![p] = "none"]
    ELSE UNCHANGED <<tmp, holds>>

\* What a failure leaves undone: a login whose token was replaced and stays so,
\* a logout begun.
Leaves(p) ==
    \/ stage[p] \in {"restore", "save"}
    \/ Writing(p) /\ (call[p] = "chmod" \/ cmd[p] = "logout")

\* The system refuses a call: a full disk, a directory that cannot be written.
Fault(p) ==
    /\ Running(p)
    /\ Goto(p, AfterFailure(p))
    /\ Tidy(p)
    /\ faulty' = [faulty EXCEPT ![p] = TRUE]
    /\ hurt' = IF Leaves(p) THEN hurt \cup {id[p]} ELSE hurt
    /\ seen' = [seen EXCEPT ![p] = Empty]
    /\ UNCHANGED <<file, config, process, previous>>

Crash(p) ==
    /\ Running(p)
    /\ stage' = [stage EXCEPT ![p] = "dead"]
    /\ holds' = [holds EXCEPT ![p] = "none"]
    /\ hurt' = hurt \cup {id[p]}
    /\ seen' = [seen EXCEPT ![p] = Empty]
    /\ call' = [call EXCEPT ![p] = "read"]
    /\ UNCHANGED <<disk, config, process, previous, faulty>>

Step(p) ==
    \/ Peek(p) \/ Save(p)
    \/ ReadFile(p) \/ Create(p) \/ Clear(p) \/ Write(p) \/ Rename(p) \/ Chmod(p)
    \/ Remove(p)

Next == \E p \in Process :
            \/ \E c \in Command, n \in Name : Begin(p, c, n)
            \/ Step(p) \/ Fault(p) \/ Crash(p)

Spec == Init /\ [][Next]_vars

-----------------------------------------------------------------------------
(* Properties.                                                             *)

TypeOK ==
    /\ file \in Content
    /\ tmp \in Content
    /\ config \in [Name -> Value]
    /\ cmd \in [Process -> Command \cup {"none"}]
    /\ name \in [Process -> Name \cup {None}]
    /\ id \in [Process -> Id]
    /\ view \in [Process -> [Name -> Value]]
    /\ stage \in [Process -> Stage]
    /\ call \in [Process -> Call]
    /\ seen \in [Process -> Store]
    /\ holds \in [Process -> {"none", "tmp", "file", "gone"}]
    /\ \A p \in Process : holds[p] # "none" => Writing(p) /\ call[p] = "write"
    /\ previous \in [Process -> Value]
    /\ faulty \in [Process -> BOOLEAN]
    /\ hurt \subseteq Id

Busy == {id[p] : p \in {q \in Process : Running(q)}}
Known == {config[n] : n \in Name} \ {None}

\* The promise of CredentialMap: whatever is refused and wherever a command
\* dies, a reader of the file finds a whole store, which differs from the one
\* before in one secret, of the account a command was working on.  Nobody
\* else's credential is ever lost.
Promise == INSTANCE CredentialMap WITH store <- Visible, known <- Known, busy <- Busy
KeepsStore == Promise!Spec

\* An interrupted write leaves no truncated store under credentials.json.
NeverTorn == file # Torn

\* The two secrets of a login stay together: an account's private token is of
\* the login its token is of, although they are stored one after the other and
\* the second may fail, unless a command was stopped at a point from which it
\* does not come back.
PairMatches ==
    \A i \in Id \ (hurt \cup Busy) :
        Visible[i]["private"] \in {None, Visible[i]["token"]}

\* Once a logout has said so, none of the account's secrets is on this machine,
\* and no later command brings one back.
LoggedOutIsGone ==
    \A p \in Process : cmd[p] = "logout" /\ stage[p] = "done"
                          => \A k \in Kind : Visible[id[p]][k] = None

\* A secret under an id the configuration no longer names, which no command can
\* reach or delete any more, is left only by a command that was stopped.
StrandedOnlyByFailure ==
    \A i \in Id \ (hurt \cup Busy \cup Known) :
        \A k \in Kind : Visible[i][k] = None

\* What an earlier command left behind when it died, a temporary file or half a
\* login, makes no later one fail.
FailsOnlyByFault ==
    \A p \in Process : stage[p] = "failed" => faulty[p]

-----------------------------------------------------------------------------
(* What the repository says and the code does not keep.                    *)

\* internal/secret/file.go:61: "The file is written whole through a temporary file
\* and a rename, so an interrupted write cannot leave a truncated store that
\* loses every other account's credential."
InterruptedWriteLeavesWhole ==
    (\A p \in Process : ~Running(p)) => file # Torn

=============================================================================
