------------------------ MODULE CredentialFileProofs ------------------------
(***************************************************************************)
(* What CredentialFile keeps when commands do not overlap, for any number  *)
(* of commands, accounts, crashes and refused system calls.                *)
(*                                                                         *)
(* The invariant says what a system call may rely on: the command that     *)
(* makes it is the only one running, the store it is about to publish is   *)
(* the present one with one change, and the temporary file holds nothing   *)
(* until it is written and that store afterwards.                          *)
(***************************************************************************)
EXTENDS CredentialFile, TLAPS

Alone == \A p, q \in Process : Running(p) /\ Running(q) => p = q

\* What the file system holds before each call of a write.
Draft(p) ==
    Writing(p) =>
        /\ call[p] \in {"create", "clear", "again", "write"} => seen[p] = Updated(p)
        /\ call[p] = "clear" => tmp # Absent
        /\ call[p] = "again" => tmp = Absent
        /\ call[p] = "write" => holds[p] = "tmp"
        /\ call[p] = "rename" => tmp = Updated(p)
        /\ call[p] = "chmod" => file # Absent
        /\ call[p] = "remove" => Updated(p) = Empty

\* Only a refused call leads to the rollback, and to failure.
Blame(p) == stage[p] \in {"restore", "failed"} => faulty[p]

\* Until a command saves the configuration, its copy is the present one, and its
\* id is the account's, or the one it made up for an account not there yet.
Plan(p) ==
    /\ stage[p] = "save" => cmd[p] # "logout"
    /\ stage[p] = "unsave" => cmd[p] = "logout"
    /\ Running(p) /\ (cmd[p] = "logout" => stage[p] = "unsave") =>
          /\ view[p] = config
          /\ name[p] \in Name
          /\ id[p] = IF config[name[p]] # None THEN config[name[p]] ELSE p
          /\ cmd[p] = "logout" => config[name[p]] # None

\* An id a command may still make up is nobody's.
Fresh(p) ==
    \/ stage[p] = "start"
    \/ Running(p) /\ cmd[p] # "logout" /\ config[name[p]] = None
    => p \notin Known

Distinct ==
    \A m, n \in Name : config[m] = config[n] /\ config[m] # None => m = n

Good(p) == Draft(p) /\ Blame(p) /\ Plan(p) /\ Fresh(p)

Inv ==
    /\ TypeOK
    /\ Alone
    /\ NeverTorn
    /\ Distinct
    /\ \A p \in Process : Good(p)

-----------------------------------------------------------------------------
(* The operators.                                                          *)

\* Reading yields a store whatever the name stands for.
LEMMA ReadType ==
    ASSUME NEW content \in Content
    PROVE  Read(content) \in Store
BY ConstantsAssumption DEF Read, Content, Empty, Store, Value, Id

\* A change of one secret of a store yields a store.
LEMMA UpdatedType ==
    ASSUME TypeOK, NEW p \in Process, Writing(p)
    PROVE  /\ Updated(p) \in Store
           /\ KeyKind(p) \in Kind
           /\ Put(p) \in Value
<1>1. Visible \in Store
    BY ReadType DEF TypeOK, Visible
<1>2. KeyKind(p) \in Kind
    BY DEF KeyKind, Kind, Writing, Writes
<1>3. Put(p) \in Value
    BY DEF Put, TypeOK, Value, Id
<1> QED
    BY <1>1, <1>2, <1>3 DEF Updated, Store, TypeOK

\* The stages that follow one another are stages.
LEMMA StageType ==
    ASSUME NEW p \in Process
    PROVE  AfterDone(p) \in Stage /\ AfterFailure(p) \in Stage
BY DEF AfterDone, AfterFailure, Stage, Ended

\* Moving on, to another stage or another call, keeps both in their sets.
LEMMA GotoType ==
    ASSUME TypeOK, NEW p \in Process, NEW s \in Stage, Goto(p, s)
    PROVE  stage' \in [Process -> Stage] /\ call' \in [Process -> Call]
BY DEF Goto, TypeOK, Call

LEMMA ProceedType ==
    ASSUME TypeOK, NEW p \in Process, NEW c \in Call, Proceed(p, c)
    PROVE  stage' \in [Process -> Stage] /\ call' \in [Process -> Call]
BY DEF Proceed, TypeOK

\* A process makes a system call of the store only while it runs.
LEMMA WritingRuns ==
    ASSUME NEW p \in Process, Writing(p)
    PROVE  Running(p)
BY DEF Writing, Writes, Running, Ended

-----------------------------------------------------------------------------
(* Types.                                                                  *)

LEMMA TypeInit == Init => TypeOK
BY ConstantsAssumption
DEF Init, TypeOK, Content, Store, Empty, Value, Id, Kind, Stage, Ended, Call

\* What the type invariant says of the variables a step of p changes: where p
\* stands, what the two names stand for, and who has a file open.
Control == stage' \in [Process -> Stage] /\ call' \in [Process -> Call]
Disk == file' \in Content /\ tmp' \in Content
Handles == /\ holds' \in [Process -> {"none", "tmp", "file", "gone"}]
         /\ \A q \in Process : holds'[q] # "none" => Writing(q)' /\ call'[q] = "write"

LEMMA TypeNext == TypeOK /\ [Next]_vars => TypeOK'
<1> SUFFICES ASSUME TypeOK, [Next]_vars PROVE TypeOK'
    OBVIOUS
<1>1. ASSUME NEW p \in Process, NEW c \in Command, NEW n \in Name, Begin(p, c, n)
      PROVE TypeOK'
  <2>1. First(c) \in Stage /\ "refused" \in Stage
    BY DEF First, Stage, Ended
  <2>2. Control
    BY <1>1, <2>1, GotoType, ProceedType DEF Begin, Control
  <2>3. Handles
    BY <1>1 DEF TypeOK, Begin, Goto, Handles, Writing, Writes
  <2> QED
    BY <1>1, <2>2, <2>3 DEF TypeOK, Begin, Control, Handles, Value, Id, disk
<1>2. ASSUME NEW p \in Process, Peek(p) PROVE TypeOK'
  <2>1. Visible[id[p]]["token"] \in Value
    BY ReadType DEF TypeOK, Visible, Store, Kind
  <2>2. Control
    BY <1>2, GotoType, ProceedType DEF Peek, Control, Stage
  <2>3. Handles
    BY <1>2 DEF TypeOK, Peek, Goto, Handles, Writing, Writes
  <2> QED
    BY <1>2, <2>1, <2>2, <2>3 DEF TypeOK, Peek, Control, Handles, process, disk
<1>3. ASSUME NEW p \in Process, Save(p) PROVE TypeOK'
  <2>1. Control
    BY <1>3, GotoType, ProceedType DEF Save, Control, Stage, Ended
  <2>2. Handles
    BY <1>3 DEF TypeOK, Save, Goto, Handles, Writing, Writes
  <2>3. config' \in [Name -> Value]
    <3>1. view[p] \in [Name -> Value] /\ id[p] \in Value /\ None \in Value
      BY DEF TypeOK, Value
    <3> QED
      BY <1>3, <3>1 DEF Save
  <2> QED
    BY <1>3, <2>1, <2>2, <2>3 DEF TypeOK, Save, Control, Handles, process, disk
<1>4. ASSUME NEW p \in Process, ReadFile(p) PROVE TypeOK'
  <2>1. Control
    BY <1>4, GotoType, ProceedType, StageType DEF ReadFile, Control, Call
  <2>2. Handles
    BY <1>4 DEF TypeOK, ReadFile, Goto, Proceed, Handles, Writing
  <2>3. seen' \in [Process -> Store]
    BY <1>4, UpdatedType DEF TypeOK, ReadFile
  <2> QED
    BY <1>4, <2>1, <2>2, <2>3 DEF TypeOK, ReadFile, Control, Handles, process, disk
<1>5. ASSUME NEW p \in Process, Create(p) PROVE TypeOK'
  <2>1. Control
    BY <1>5, GotoType, ProceedType, StageType
    DEF Create, OpenOrClear, Open, Control, Call
  <2>2. Disk
    BY <1>5 DEF TypeOK, Create, OpenOrClear, Open, disk, Disk, Content
  <2>3. Handles
    BY <1>5 DEF TypeOK, Create, OpenOrClear, Open, Goto, Proceed, Handles, Writing
  <2> QED
    BY <1>5, <2>1, <2>2, <2>3 DEF TypeOK, Create, Control, Disk, Handles, process
<1>6. ASSUME NEW p \in Process, Clear(p) PROVE TypeOK'
  <2>1. Control
    BY <1>6, GotoType, ProceedType, StageType DEF Clear, Control, Call
  <2>2. Disk
    BY <1>6 DEF TypeOK, Clear, Disk, Content
  <2>3. Handles
    BY <1>6 DEF TypeOK, Clear, Unlinked, Goto, Proceed, Handles, Writing
  <2> QED
    BY <1>6, <2>1, <2>2, <2>3 DEF TypeOK, Clear, Control, Disk, Handles, process
<1>7. ASSUME NEW p \in Process, Write(p) PROVE TypeOK'
  <2>1. Control
    BY <1>7, GotoType, ProceedType DEF Write, Control, Call, Stage
  <2>2. Disk
    BY <1>7 DEF TypeOK, Write, Disk, Content
  <2>3. Handles
    BY <1>7 DEF TypeOK, Write, Proceed, Handles, Writing
  <2>4. seen' \in [Process -> Store]
    BY <1>7 DEF TypeOK, Write, Empty, Store, Value
  <2> QED
    BY <1>7, <2>1, <2>2, <2>3, <2>4 DEF TypeOK, Write, Control, Disk, Handles, process
<1>8. ASSUME NEW p \in Process, Rename(p) PROVE TypeOK'
  <2>1. Control
    BY <1>8, GotoType, ProceedType, StageType DEF Rename, Control, Call
  <2>2. Disk
    BY <1>8 DEF TypeOK, Rename, disk, Disk, Content
  <2>3. Handles
    BY <1>8 DEF TypeOK, Rename, Unlinked, Goto, Proceed, Handles, Writing
  <2> QED
    BY <1>8, <2>1, <2>2, <2>3 DEF TypeOK, Rename, Control, Disk, Handles, process
<1>9. ASSUME NEW p \in Process, Chmod(p) \/ Remove(p) PROVE TypeOK'
  <2>1. Control
    BY <1>9, GotoType, ProceedType, StageType DEF Chmod, Remove, Control
  <2>2. Disk
    BY <1>9 DEF TypeOK, Chmod, Remove, disk, Disk, Content
  <2>3. Handles
    BY <1>9 DEF TypeOK, Chmod, Remove, Unlinked, Goto, Handles, Writing
  <2> QED
    BY <1>9, <2>1, <2>2, <2>3 DEF TypeOK, Chmod, Remove, Control, Disk, Handles, process
<1>10. ASSUME NEW p \in Process, Fault(p) PROVE TypeOK'
  <2>1. Control
    BY <1>10, GotoType, ProceedType, StageType DEF Fault, Control
  <2>2. Disk
    BY <1>10 DEF TypeOK, Fault, Tidy, Disk, Content
  <2>3. Handles
    BY <1>10 DEF TypeOK, Fault, Tidy, Unlinked, Goto, Handles, Writing
  <2>4. seen' \in [Process -> Store] /\ hurt' \subseteq Id
    BY <1>10 DEF TypeOK, Fault, Empty, Store, Value
  <2> QED
    BY <1>10, <2>1, <2>2, <2>3, <2>4 DEF TypeOK, Fault, Control, Disk, Handles, process
<1>11. ASSUME NEW p \in Process, Crash(p) PROVE TypeOK'
  <2>1. Control
    BY <1>11 DEF TypeOK, Crash, Control, Stage, Ended, Call
  <2>2. Handles
    BY <1>11 DEF TypeOK, Crash, Handles, Writing
  <2>3. seen' \in [Process -> Store] /\ hurt' \subseteq Id
    BY <1>11 DEF TypeOK, Crash, Empty, Store, Value
  <2> QED
    BY <1>11, <2>1, <2>2, <2>3 DEF TypeOK, Crash, Control, Handles, process, disk
<1>12. CASE UNCHANGED vars
    BY <1>12 DEF TypeOK, vars, Writing, disk, process
<1> QED
    BY <1>1, <1>2, <1>3, <1>4, <1>5, <1>6, <1>7, <1>8, <1>9, <1>10, <1>11, <1>12
    DEF Next, Step

\* Every variable keeps its type, and only a command about to write has a file
\* open, overlapping or not: TypeOK, checked in the run CredentialFile.
THEOREM TypeCorrect == Spec => []TypeOK
BY TypeInit, TypeNext, PTL DEF Spec

-----------------------------------------------------------------------------
(* The invariant.                                                          *)

LEMMA InvInit == Init => Inv
<1> SUFFICES ASSUME Init PROVE Inv
    OBVIOUS
<1>1. TypeOK
    BY TypeInit
<1>2. file \in Store
    BY ConstantsAssumption DEF Init, Empty, Store, Value, Id, Kind
<1>3. NeverTorn
    BY <1>2, ConstantsAssumption DEF NeverTorn
<1>4. Alone /\ \A p \in Process : Draft(p) /\ Blame(p) /\ Plan(p)
    BY DEF Init, Alone, Draft, Blame, Plan, Running, Writing, Writes
<1>5. Distinct /\ \A p \in Process : Fresh(p)
    BY ConstantsAssumption DEF Init, Distinct, Fresh, Known
<1> QED
    BY <1>1, <1>3, <1>4, <1>5 DEF Inv, Good

\* A step of p leaves the control of every other command alone.
Local(p) ==
    \A q \in Process \ {p} :
        /\ stage'[q] = stage[q] /\ faulty'[q] = faulty[q]
        /\ cmd'[q] = cmd[q]

\* ... so that nothing the invariant says of another changes, as long as the
\* configuration takes in no id but one p made up.
LEMMA Others ==
    ASSUME Inv, NEW p \in Process, Local(p), Known' \subseteq Known \cup {p},
           Running(p) \/ \A q \in Process : ~Running(q)
    PROVE  Alone' /\ \A q \in Process \ {p} : Good(q)'
<1>1. \A q \in Process \ {p} : ~Running(q) /\ ~Running(q)'
    BY DEF Inv, Alone, Local, Running
<1>2. Alone'
    BY <1>1 DEF Alone
<1>3. ASSUME NEW q \in Process \ {p} PROVE Good(q)'
  <2>1. ~Running(q) /\ ~Running(q)' /\ stage'[q] = stage[q] /\ faulty'[q] = faulty[q]
    BY <1>1 DEF Local
  <2>2. Draft(q)'
    BY <2>1 DEF Draft, Writing, Writes, Running, Ended
  <2>3. Blame(q)'
    BY <2>1 DEF Inv, Good, Blame
  <2>4. Plan(q)'
    BY <2>1 DEF Plan, Running, Ended
  <2>5. Fresh(q)'
    BY <2>1 DEF Inv, Good, Fresh
  <2> QED
    BY <2>2, <2>3, <2>4, <2>5 DEF Good
<1> QED
    BY <1>2, <1>3

\* The change a write is about is the same before and after a step that changes
\* neither the file nor the stage.
LEMMA UpdatedSame ==
    ASSUME NEW p \in Process, stage' = stage, UNCHANGED <<file, process, previous>>
    PROVE  Updated(p)' = Updated(p) /\ Writing(p)' = Writing(p)
BY DEF process, Updated, KeyKind, Put, Visible, Read, Empty, Writing

\* Going to another stage leaves nothing to say of the draft.
LEMMA GotoDraft ==
    ASSUME TypeOK, NEW p \in Process, NEW s, Goto(p, s)
    PROVE  Draft(p)' /\ stage'[p] = s /\ \A q \in Process \ {p} : stage'[q] = stage[q]
BY DEF TypeOK, Goto, Draft

\* Where a step leads that was not refused.
LEMMA Following ==
    ASSUME NEW p \in Process, Writing(p), Blame(p), Plan(p)
    PROVE  /\ AfterDone(p) \in {"restore", "failed"} => faulty[p]
           /\ AfterDone(p) \notin {"start", "unsave"}
           /\ AfterDone(p) = "save" => cmd[p] # "logout"
BY DEF AfterDone, Writing, Writes, Blame

\* A command that does not touch the configuration keeps to its plan.
LEMMA PlanKept ==
    ASSUME Inv, NEW p \in Process, Running(p), UNCHANGED <<config, process>>,
           stage'[p] \notin {"start", "unsave"}, stage'[p] = "save" => cmd[p] # "logout"
    PROVE  Plan(p)' /\ Fresh(p)'
BY DEF Inv, Good, Plan, Fresh, Known, Running, process

LEMMA InvNext ==
    ASSUME ~Overlap
    PROVE  Inv /\ [Next]_vars => Inv'
<1> SUFFICES ASSUME Inv, [Next]_vars PROVE Inv'
    OBVIOUS
<1> USE DEF disk, process
<1>0. TypeOK /\ TypeOK'
    BY TypeNext DEF Inv
\* The configuration changes only in Save.
<1>same. ASSUME NEW p \in Process, UNCHANGED config, Local(p), NeverTorn', Draft(p)', Blame(p)',
                stage'[p] \in Ended \/ (Plan(p)' /\ Fresh(p)'),
                Running(p) \/ \A q \in Process : ~Running(q)
         PROVE  Inv'
  <2>1. Known' = Known /\ Distinct'
    BY <1>same DEF Known, Distinct, Inv
  <2>2. Alone' /\ \A q \in Process \ {p} : Good(q)'
    BY <1>same, <2>1, Others
  <2>3. Plan(p)' /\ Fresh(p)'
    BY <1>same DEF Plan, Fresh, Running, Ended
  <2> QED
    BY <1>same, <1>0, <2>1, <2>2, <2>3 DEF Inv, Good
<1>1. ASSUME NEW p \in Process, NEW c \in Command, NEW n \in Name, Begin(p, c, n)
      PROVE Inv'
  <2>1. \A q \in Process : ~Running(q)
    BY <1>1 DEF Begin
  <2>2. Local(p) /\ Draft(p)' /\ stage'[p] \in {First(c), "refused"}
    BY <1>0, <1>1, GotoDraft DEF Begin, Local, TypeOK
  <2>3. NeverTorn' /\ Blame(p)'
    BY <1>1, <2>2 DEF Inv, NeverTorn, Begin, Blame, First
  <2>4. Plan(p)' /\ Fresh(p)'
    <3>1. /\ cmd'[p] = c /\ name'[p] = n /\ view'[p] = config /\ config' = config
          /\ id'[p] = IF config[n] # None THEN config[n] ELSE p
      BY <1>0, <1>1 DEF Begin, TypeOK
    <3>2. stage'[p] = IF c = "logout" /\ config[n] = None THEN "refused" ELSE First(c)
      BY <1>0, <1>1, GotoDraft DEF Begin
    <3>3. Plan(p)'
      BY <3>1, <3>2 DEF Plan, First, Running, Ended
    <3>4. p \notin Known
      BY <1>1 DEF Inv, Good, Fresh, Begin
    <3> QED
      BY <3>1, <3>3, <3>4 DEF Fresh, Known
  <2> QED
    BY <1>same, <1>1, <2>1, <2>2, <2>3, <2>4 DEF Begin
<1>2. ASSUME NEW p \in Process, Peek(p) PROVE Inv'
  <2>1. Running(p)
    BY <1>2 DEF Peek, Running, Ended
  <2>2. Local(p) /\ Draft(p)' /\ stage'[p] = "token"
    BY <1>0, <1>2, GotoDraft DEF Peek, Local
  <2>3. NeverTorn' /\ Blame(p)'
    BY <1>2, <2>2 DEF Inv, NeverTorn, Peek, Blame
  <2> QED
    BY <1>same, <1>2, <2>1, <2>2, <2>3, PlanKept DEF Peek
<1>3. ASSUME NEW p \in Process, Save(p) PROVE Inv'
  <2>1. Running(p) /\ Good(p) /\ Distinct
    BY <1>3 DEF Save, Running, Ended, Inv
  <2>2. /\ Local(p) /\ Draft(p)'
        /\ stage'[p] = IF stage[p] = "save" THEN "done" ELSE "token"
    BY <1>0, <1>3, GotoDraft DEF Save, Local
  <2>3. NeverTorn' /\ Blame(p)'
    BY <1>3, <2>2 DEF Inv, NeverTorn, Save, Blame
  <2>4. /\ name[p] \in Name /\ view[p] = config /\ config \in [Name -> Value]
        /\ id[p] = IF config[name[p]] # None THEN config[name[p]] ELSE p
        /\ stage[p] = "save" => cmd[p] # "logout"
        /\ stage[p] = "unsave" => cmd[p] = "logout"
    BY <1>0, <1>3, <2>1 DEF Good, Plan, Save, TypeOK
  <2>5. CASE stage[p] = "save"
    <3>1. config' = [config EXCEPT ![name[p]] = id[p]]
      BY <1>3, <2>4, <2>5 DEF Save
    <3>2. config[name[p]] = None => p \notin Known
      BY <2>1, <2>4, <2>5 DEF Good, Fresh
    <3>3. Known' \subseteq Known \cup {p} /\ Distinct'
      BY <2>1, <2>4, <3>1, <3>2 DEF Known, Distinct
    <3>4. Alone' /\ \A q \in Process \ {p} : Good(q)'
      BY <2>1, <2>2, <3>3, Others
    <3>5. Plan(p)' /\ Fresh(p)'
      BY <2>2, <2>5 DEF Plan, Fresh, Running, Ended
    <3> QED
      BY <1>0, <2>2, <2>3, <3>3, <3>4, <3>5 DEF Inv, Good
  <2>6. CASE stage[p] = "unsave"
    <3>1. config' = [config EXCEPT ![name[p]] = None]
      BY <1>3, <2>4, <2>6 DEF Save
    <3>2. Known' \subseteq Known /\ Distinct'
      BY <2>1, <2>4, <3>1 DEF Known, Distinct
    <3>3. Alone' /\ \A q \in Process \ {p} : Good(q)'
      BY <2>1, <2>2, <3>2, Others
    <3>4. Plan(p)' /\ Fresh(p)'
      BY <1>3, <2>2, <2>4, <2>6 DEF Plan, Fresh, Running, Ended, Save
    <3> QED
      BY <1>0, <2>2, <2>3, <3>2, <3>3, <3>4 DEF Inv, Good
  <2> QED
    BY <1>3, <2>5, <2>6 DEF Save
\* The calls of the store.
<1>write. ASSUME NEW p \in Process, Writing(p)
          PROVE  Running(p) /\ Good(p) /\ Draft(p) /\ Plan(p) /\ Blame(p) /\ NeverTorn
  <2>1. Running(p)
    BY <1>write, WritingRuns
  <2>2. Good(p) /\ NeverTorn
    BY DEF Inv
  <2> QED
    BY <2>1, <2>2 DEF Good
\* One that goes to the next call of the same write.
<1>on. ASSUME NEW p \in Process, NEW c \in Call, Writing(p), Proceed(p, c), Draft(p)', NeverTorn',
              UNCHANGED <<config, process, faulty>>
       PROVE  Inv'
  <2>1. Running(p) /\ Good(p) /\ stage' = stage /\ Local(p)
    BY <1>on, <1>write DEF Proceed, Local
  <2>2. Blame(p)' /\ stage'[p] \notin {"start", "unsave", "save"}
    BY <1>on, <2>1 DEF Good, Blame, Writing, Writes
  <2>3. Plan(p)' /\ Fresh(p)'
    BY <1>on, <2>1, <2>2, PlanKept
  <2> QED
    BY <1>same, <1>on, <2>1, <2>2, <2>3
\* One that was the last of its write.
<1>done. ASSUME NEW p \in Process, Writing(p), Goto(p, AfterDone(p)), NeverTorn',
                UNCHANGED <<config, process, faulty>>
         PROVE  Inv'
  <2>1. Running(p) /\ Blame(p) /\ Plan(p)
    BY <1>done, <1>write
  <2>2. Local(p) /\ Draft(p)' /\ stage'[p] = AfterDone(p)
    BY <1>0, <1>done, GotoDraft DEF Local
  <2>3. Blame(p)' /\ stage'[p] \notin {"start", "unsave"}
        /\ (stage'[p] = "save" => cmd[p] # "logout")
    BY <1>done, <2>1, <2>2, Following DEF Blame
  <2>4. Plan(p)' /\ Fresh(p)'
    BY <1>done, <2>1, <2>3, PlanKept
  <2> QED
    BY <1>same, <1>done, <2>1, <2>2, <2>3, <2>4
<1>4. ASSUME NEW p \in Process, ReadFile(p) PROVE Inv'
  <2>1. NeverTorn' /\ Writing(p) /\ NeverTorn
    BY <1>4, <1>write DEF ReadFile, NeverTorn
  <2>2. CASE Goto(p, AfterDone(p))
    BY <1>done, <1>4, <2>1, <2>2 DEF ReadFile
  <2>3. CASE Proceed(p, "remove") /\ Updated(p) = Empty
    <3>1. Draft(p)'
      BY <1>0, <1>4, <2>3, UpdatedSame DEF ReadFile, Proceed, Draft, TypeOK, Empty
    <3> QED
      BY <1>on, <1>4, <2>1, <2>3, <3>1 DEF ReadFile, Call
  <2>4. CASE Proceed(p, "create") /\ seen' = [seen EXCEPT ![p] = Updated(p)]
    <3>1. Draft(p)'
      BY <1>0, <1>4, <2>4, UpdatedSame DEF ReadFile, Proceed, Draft, TypeOK
    <3> QED
      BY <1>on, <1>4, <2>1, <2>4, <3>1 DEF ReadFile, Call
  <2> QED
    BY <1>4, <2>2, <2>3, <2>4 DEF ReadFile
<1>5. ASSUME NEW p \in Process, Create(p) PROVE Inv'
  <2>1. /\ NeverTorn' /\ Writing(p) /\ Draft(p) /\ UNCHANGED file
        /\ tmp = Absent \/ call[p] = "create"
    BY <1>5, <1>write DEF Create, NeverTorn, OpenOrClear, Open, Draft
  <2>2. CASE tmp = Absent
    <3>1. Proceed(p, "write") /\ Draft(p)'
      BY <1>0, <1>5, <2>1, <2>2, UpdatedSame
      DEF Create, OpenOrClear, Open, Proceed, Draft, TypeOK
    <3> QED
      BY <1>on, <1>5, <2>1, <3>1 DEF Create, Call
  <2>3. CASE tmp # Absent
    <3>1. Proceed(p, "clear") /\ Draft(p)'
      BY <1>0, <1>5, <2>1, <2>3, UpdatedSame
      DEF Create, OpenOrClear, Proceed, Draft, TypeOK
    <3> QED
      BY <1>on, <1>5, <2>1, <3>1 DEF Create, Call
  <2> QED
    BY <2>2, <2>3
<1>6. ASSUME NEW p \in Process, Clear(p) PROVE Inv'
  <2>1. NeverTorn' /\ Writing(p) /\ Draft(p)
    BY <1>6, <1>write DEF Clear, NeverTorn
  <2>2. Proceed(p, "again") /\ Draft(p)'
    BY <1>0, <1>6, <2>1, UpdatedSame DEF Clear, Proceed, Draft, TypeOK
  <2> QED
    BY <1>on, <1>6, <2>1, <2>2 DEF Clear, Call
<1>7. ASSUME NEW p \in Process, Write(p) PROVE Inv'
  <2>1. Writing(p) /\ Draft(p) /\ NeverTorn
    BY <1>7, <1>write DEF Write
  <2>2. UNCHANGED file /\ tmp' = Updated(p) /\ Proceed(p, "rename")
    BY <1>7, <2>1 DEF Write, Draft
  <2>3. NeverTorn' /\ Draft(p)'
    BY <1>0, <1>7, <2>1, <2>2, UpdatedSame
    DEF Write, Proceed, Draft, NeverTorn, TypeOK
  <2> QED
    BY <1>on, <1>7, <2>1, <2>2, <2>3 DEF Write, Call
<1>8. ASSUME NEW p \in Process, Rename(p) PROVE Inv'
  <2>1. Writing(p) /\ tmp = Updated(p) /\ tmp \notin {Absent, Torn}
    <3>1. Writing(p) /\ tmp = Updated(p)
      BY <1>8, <1>write DEF Rename, Draft
    <3> QED
      BY <1>0, <3>1, UpdatedType, ConstantsAssumption
  <2>2. file' = tmp /\ Proceed(p, "chmod")
    BY <1>8, <2>1 DEF Rename
  <2>3. NeverTorn' /\ Draft(p)'
    BY <1>0, <2>1, <2>2 DEF Proceed, Draft, NeverTorn, TypeOK
  <2> QED
    BY <1>on, <1>8, <2>1, <2>2, <2>3 DEF Rename, Call
<1>9. ASSUME NEW p \in Process, Chmod(p) \/ Remove(p) PROVE Inv'
  <2>1. Writing(p) /\ Draft(p) /\ NeverTorn
    BY <1>9, <1>write DEF Chmod, Remove
  <2>2. Goto(p, AfterDone(p)) /\ NeverTorn'
    BY <1>9, <2>1, ConstantsAssumption DEF Chmod, Remove, Draft, NeverTorn
  <2> QED
    BY <1>done, <1>9, <2>1, <2>2 DEF Chmod, Remove
<1>10. ASSUME NEW p \in Process, Fault(p) PROVE Inv'
  <2>1. Running(p) /\ NeverTorn'
    BY <1>10 DEF Fault, Inv, NeverTorn
  <2>2. Draft(p)' /\ stage'[p] = AfterFailure(p) /\ Local(p) /\ Blame(p)'
    BY <1>0, <1>10, GotoDraft DEF Fault, Local, Blame, TypeOK
  <2>3. Plan(p)' /\ Fresh(p)'
    BY <1>10, <2>1, <2>2, PlanKept DEF AfterFailure, Fault
  <2> QED
    BY <1>same, <1>10, <2>1, <2>2, <2>3 DEF Fault
<1>11. ASSUME NEW p \in Process, Crash(p) PROVE Inv'
  <2>1. Running(p) /\ NeverTorn' /\ stage'[p] = "dead" /\ Local(p)
    BY <1>0, <1>11 DEF Crash, Inv, NeverTorn, TypeOK, Local
  <2>2. Draft(p)' /\ Blame(p)'
    BY <2>1 DEF Draft, Blame, Writing, Writes
  <2> QED
    BY <1>same, <1>11, <2>1, <2>2 DEF Crash, Ended
<1>12. CASE UNCHANGED vars
  <2>1. Alone' /\ NeverTorn' /\ Distinct'
    BY <1>12 DEF Inv, vars, Alone, NeverTorn, Distinct, Running
  <2>2. ASSUME NEW p \in Process PROVE Good(p)'
    BY <1>12, UpdatedSame DEF Inv, Good, Draft, Blame, Plan, Fresh, vars, Running, Known
  <2> QED
    BY <1>0, <2>1, <2>2 DEF Inv
<1> QED
    BY <1>1, <1>2, <1>3, <1>4, <1>5, <1>6, <1>7, <1>8, <1>9, <1>10, <1>11, <1>12
    DEF Next, Step

-----------------------------------------------------------------------------
(* What follows.                                                           *)

\* The invariant holds throughout, when commands do not overlap.
THEOREM Invariance ==
    ASSUME ~Overlap
    PROVE  Spec => []Inv
<1>1. Inv /\ [Next]_vars => Inv'
    BY InvNext
<1> QED
    BY <1>1, InvInit, PTL DEF Spec

\* Whatever call is refused and wherever a command is killed, credentials.json
\* is never the empty file a write starts from (internal/secret/file.go, Set and
\* Delete): NeverTorn.  What would follow, that every account's secrets
\* are gone, the run CredentialFile checks as part of KeepsStore.
THEOREM StoreWhole ==
    ASSUME ~Overlap
    PROVE  Spec => []NeverTorn
<1>1. Inv => NeverTorn
    BY DEF Inv
<1> QED
    BY <1>1, Invariance, PTL

\* A command fails only if the system refused one of its own calls: what a dead
\* one left behind, a temporary file above all, stops nobody.  FailsOnlyByFault,
\* checked in the run CredentialFile.
THEOREM OnlyFaultsFail ==
    ASSUME ~Overlap
    PROVE  Spec => []FailsOnlyByFault
<1>1. Inv => FailsOnlyByFault
    BY DEF Inv, Good, Blame, FailsOnlyByFault
<1> QED
    BY <1>1, Invariance, PTL

-----------------------------------------------------------------------------
(* The store as a map.                                                     *)

\* The account commands work on, as CredentialMap sees it, is that of the one
\* command that runs.
LEMMA BusyOne ==
    ASSUME Alone, NEW p \in Process, Running(p)
    PROVE  Busy = {id[p]}
BY DEF Alone, Busy

\* A step of a running command leaves it busy, or nobody.
LEMMA BusyNext ==
    ASSUME Inv, NEW p \in Process, Running(p), Local(p), id' = id
    PROVE  /\ Busy = {id[p]} /\ id[p] \in Id
           /\ Busy' \in {{id[p]}, {}}
<1>1. Busy = {id[p]} /\ id[p] \in Id
    BY BusyOne DEF Inv, TypeOK
<1>2. \A q \in Process \ {p} : ~Running(q)'
    BY DEF Inv, Alone, Local, Running
<1>3. Busy' = IF Running(p)' THEN {id[p]} ELSE {}
    BY <1>2 DEF Busy
<1> QED
    BY <1>1, <1>3

\* A step that leaves the secrets and the configuration alone is a stop, or
\* nothing at all.
LEMMA SilentStep ==
    ASSUME Inv, NEW p \in Process, Running(p), Local(p), id' = id,
           UNCHANGED <<file, config>>
    PROVE  [Promise!Next]_Promise!vars
<1>1. Visible' = Visible /\ Known' = Known
    BY DEF Visible, Read, Empty, Known
<1>2. CASE Busy' = Busy
    BY <1>1, <1>2 DEF Promise!vars
<1>3. CASE Busy' = {}
  <2>1. Promise!Stop(id[p])
    BY <1>1, <1>3, BusyNext DEF Promise!Stop
  <2> QED
    BY <2>1, BusyNext DEF Promise!Next
<1> QED
    BY <1>2, <1>3, BusyNext

\* A step that publishes the changed store puts one secret.
LEMMA PutStep ==
    ASSUME Inv, NEW p \in Process, Writing(p), Local(p), id' = id, UNCHANGED config,
           Visible' = Updated(p)
    PROVE  [Promise!Next]_Promise!vars
<1>1. Running(p) /\ KeyKind(p) \in Kind /\ Put(p) \in Value
    BY WritingRuns, UpdatedType DEF Inv
<1>2. Known' = Known
    BY DEF Known
<1>3. Visible' = [Visible EXCEPT ![id[p]][KeyKind(p)] = Put(p)]
    BY DEF Updated
<1>4. Promise!Put(id[p], KeyKind(p), Put(p))
    BY <1>1, <1>2, <1>3, BusyNext DEF Promise!Put
<1> QED
    BY <1>1, <1>4, BusyNext DEF Promise!Next

LEMMA RefinementInit == Init => Promise!Init
<1> SUFFICES ASSUME Init PROVE Promise!Init
    OBVIOUS
<1>1. Visible \in Store
    BY TypeInit, ReadType DEF TypeOK, Visible
<1>2. Known \in SUBSET Id
    BY TypeInit DEF TypeOK, Known, Value
<1>3. Busy = {}
    BY DEF Init, Busy, Running
<1> QED
    BY <1>1, <1>2, <1>3 DEF Promise!Init, Store

LEMMA RefinementNext ==
    ASSUME ~Overlap
    PROVE  Inv /\ [Next]_vars => [Promise!Next]_Promise!vars
<1> SUFFICES ASSUME Inv, [Next]_vars PROVE [Promise!Next]_Promise!vars
    OBVIOUS
<1> USE DEF disk, process
<1>0. TypeOK
    BY DEF Inv
<1>1. ASSUME NEW p \in Process, NEW c \in Command, NEW n \in Name, Begin(p, c, n)
      PROVE [Promise!Next]_Promise!vars
  <2>1. Visible' = Visible /\ Known' = Known
    BY <1>1 DEF Begin, Visible, Read, Empty, Known
  <2>2. Busy = {} /\ \A q \in Process \ {p} : ~Running(q)'
    BY <1>1 DEF Begin, Busy, Goto, Running, Inv, TypeOK
  <2>3. id'[p] \in Id
    BY <1>0, TypeNext DEF TypeOK
  <2>4. CASE Running(p)'
    <3>1. Busy' = {id'[p]}
      BY <2>2, <2>4 DEF Busy
    <3>2. Promise!Start(id'[p])
      BY <2>1, <2>2, <3>1 DEF Promise!Start
    <3> QED
      BY <2>3, <3>2 DEF Promise!Next
  <2>5. CASE ~Running(p)'
    <3>1. Busy' = {}
      BY <2>2, <2>5 DEF Busy
    <3> QED
      BY <2>1, <2>2, <3>1 DEF Promise!vars
  <2> QED
    BY <2>4, <2>5
<1>2. ASSUME NEW p \in Process, Save(p) PROVE [Promise!Next]_Promise!vars
  <2>1. Running(p) /\ Plan(p) /\ Distinct /\ Local(p)
    BY <1>0, <1>2 DEF Save, Running, Ended, Inv, Good, Local, Goto, TypeOK
  <2>2. /\ name[p] \in Name /\ view[p] = config /\ config \in [Name -> Value]
        /\ id[p] = IF config[name[p]] # None THEN config[name[p]] ELSE p
        /\ stage[p] = "unsave" => config[name[p]] # None
    BY <1>0, <1>2, <2>1 DEF Plan, Save, TypeOK
  <2>3. id[p] # None
    BY <1>0, ConstantsAssumption DEF TypeOK
  <2>4. Known' \in {Known \cup {id[p]}, Known \ {id[p]}}
    <3>1. CASE stage[p] = "save"
      <4>1. config' = [config EXCEPT ![name[p]] = id[p]]
        BY <1>2, <2>2, <3>1 DEF Save
      <4> QED
        BY <2>2, <2>3, <4>1 DEF Known
    <3>2. CASE stage[p] = "unsave"
      <4>1. config' = [config EXCEPT ![name[p]] = None]
        BY <1>2, <2>2, <3>2 DEF Save
      <4>2. \A m \in Name : config[m] = id[p] <=> m = name[p]
        BY <2>1, <2>2, <3>2 DEF Distinct
      <4> QED
        BY <2>2, <4>1, <4>2 DEF Known
    <3> QED
      BY <1>2, <3>1, <3>2 DEF Save
  <2>5. Visible' = Visible
    BY <1>2 DEF Save, Visible, Read, Empty
  <2>6. Promise!Enter(id[p])
    BY <1>2, <2>1, <2>4, <2>5, BusyNext DEF Promise!Enter, Save
  <2> QED
    BY <1>2, <2>1, <2>6, BusyNext DEF Promise!Next, Save
<1>3. ASSUME NEW p \in Process, Peek(p) PROVE [Promise!Next]_Promise!vars
  <2>1. Running(p) /\ Local(p)
    BY <1>0, <1>3 DEF Peek, Running, Ended, Local, Goto, TypeOK
  <2> QED
    BY <1>3, <2>1, SilentStep DEF Peek
\* A call of the store that does not touch credentials.json.
<1>call. ASSUME NEW p \in Process, Writing(p),
                Goto(p, AfterDone(p)) \/ Goto(p, AfterFailure(p)) \/ stage' = stage,
                UNCHANGED <<file, config, process, faulty>>
         PROVE  [Promise!Next]_Promise!vars
  <2>1. Running(p) /\ Local(p)
    BY <1>0, <1>call, WritingRuns DEF Local, Goto, TypeOK
  <2> QED
    BY <1>call, <2>1, SilentStep
<1>4. ASSUME NEW p \in Process, ReadFile(p) \/ Create(p) \/ Clear(p) \/ Write(p) \/ Chmod(p)
      PROVE  [Promise!Next]_Promise!vars
  <2>1. Writing(p) /\ Draft(p)
    BY <1>4 DEF ReadFile, Create, Clear, Write, Chmod, Inv, Good
  <2>2. UNCHANGED <<file, config, process, faulty>>
    BY <1>4, <2>1 DEF ReadFile, Create, OpenOrClear, Open, Clear, Write, Chmod, Draft
  <2>3. Goto(p, AfterDone(p)) \/ Goto(p, AfterFailure(p)) \/ stage' = stage
    BY <1>4 DEF ReadFile, Create, OpenOrClear, Open, Clear, Write, Chmod, Proceed
  <2> QED
    BY <1>call, <2>1, <2>2, <2>3
<1>5. ASSUME NEW p \in Process, Rename(p) PROVE [Promise!Next]_Promise!vars
  <2>1. Writing(p) /\ Updated(p) \in Store /\ tmp = Updated(p)
    BY <1>0, <1>5, UpdatedType DEF Rename, Inv, Good, Draft
  <2>2. Visible' = Updated(p) /\ Local(p)
    BY <1>0, <1>5, <2>1, ConstantsAssumption
    DEF Rename, Visible, Read, Local, Proceed
  <2> QED
    BY <1>5, <2>1, <2>2, PutStep DEF Rename
<1>6. ASSUME NEW p \in Process, Remove(p) PROVE [Promise!Next]_Promise!vars
  <2>1. Writing(p) /\ Updated(p) = Empty
    BY <1>6 DEF Remove, Inv, Good, Draft
  <2>2. Visible' = Updated(p) /\ Local(p)
    BY <1>0, <1>6, <2>1 DEF Remove, Visible, Read, Empty, Local, Goto, TypeOK
  <2> QED
    BY <1>6, <2>1, <2>2, PutStep DEF Remove
<1>7. ASSUME NEW p \in Process, Fault(p) PROVE [Promise!Next]_Promise!vars
  <2>1. Running(p) /\ Local(p)
    BY <1>0, <1>7 DEF Fault, Local, Goto, TypeOK
  <2> QED
    BY <1>7, <2>1, SilentStep DEF Fault
<1>8. ASSUME NEW p \in Process, Crash(p) PROVE [Promise!Next]_Promise!vars
  <2>1. Running(p) /\ Local(p)
    BY <1>0, <1>8 DEF Crash, Local, TypeOK
  <2> QED
    BY <1>8, <2>1, SilentStep DEF Crash
<1>9. CASE UNCHANGED vars
    BY <1>9 DEF vars, Promise!vars, Visible, Read, Empty, Known, Busy, Running
<1> QED
    BY <1>1, <1>2, <1>3, <1>4, <1>5, <1>6, <1>7, <1>8, <1>9 DEF Next, Step

\* The store of internal/secret/file.go is a map to whoever reads it: every
\* system call, refused call and death of a command changes one secret of the
\* account it works on, or none, so that nobody else's credential is ever lost.
\* KeepsStore, checked in the run CredentialFile.
THEOREM Refinement ==
    ASSUME ~Overlap
    PROVE  Spec => KeepsStore
<1>1. Inv /\ [Next]_vars => [Promise!Next]_Promise!vars
    BY RefinementNext
<1> QED
    BY <1>1, RefinementInit, Invariance, PTL DEF Spec, KeepsStore, Promise!Spec

-----------------------------------------------------------------------------
(* The secrets.                                                            *)

Matches(i) == Visible[i]["private"] \in {None, Visible[i]["token"]}
Blank(i) == \A k \in Kind : Visible[i][k] = None

\* How an account is left: its private token belongs to its token, and it has
\* no secret unless the configuration names it.
Rests(i) == Matches(i) /\ (i \notin Known => Blank(i))

\* A login has put its token there, and the private token is still the former.
Swapped(p) ==
    /\ Visible[id[p]]["token"] = p
    /\ Visible[id[p]]["private"] \in {None, previous[p]}
    /\ id[p] \notin Known => previous[p] = None /\ Visible[id[p]]["session"] = None

\* What a command that signs in finds when it comes to stage s, and what it has
\* brought about once the file is replaced.
Finds(p, s) ==
    CASE s \in {"peek", "session"} -> Rests(id[p])
      [] s = "token" -> Rests(id[p]) /\ previous[p] = Visible[id[p]]["token"]
      [] s \in {"private", "restore"} -> Swapped(p)
      [] s = "save" -> Matches(id[p])
      [] OTHER -> TRUE

Makes(p, s) ==
    CASE s = "token" -> Swapped(p)
      [] s \in {"private", "session"} -> Matches(id[p])
      [] OTHER -> Rests(id[p])

Replaced(p) == Writing(p) /\ call[p] = "chmod"
SignsIn(p) == IF Replaced(p) THEN Makes(p, stage[p]) ELSE Finds(p, stage[p])

\* What a command that signs out has deleted when it comes to stage s.
Deleted(s) ==
    CASE s = "token" -> {}
      [] s = "private" -> {"token"}
      [] s = "session" -> {"token", "private"}
      [] OTHER -> Kind

\* Once it has saved the configuration, it deletes one kind after the other, and
\* nobody gets the account's id again.
SignsOut(p) ==
    /\ stage[p] \notin {"peek", "restore"}
    /\ stage[p] = "unsave" => id[p] \in hurt \/ Rests(id[p])
    /\ stage[p] \in {"token", "private", "session", "done"} =>
          /\ id[p] \notin Known
          /\ \A k \in Deleted(stage[p]) : Visible[id[p]][k] = None
          /\ Replaced(p) => Visible[id[p]][stage[p]] = None
          /\ \A q \in Process \ {p} : Running(q) => id[q] # id[p]

\* An id a command may still make up stands in no other command.
Unused(q) ==
    stage[q] = "start" \/ (Running(q) /\ cmd[q] # "logout" /\ config[name[q]] = None)
        => \A p \in Process \ {q} : id[p] # q

Keeps(p) ==
    /\ Running(p) /\ cmd[p] # "logout" /\ id[p] \notin hurt => SignsIn(p)
    /\ cmd[p] = "logout" => SignsOut(p)
    /\ Unused(p)

Secrets ==
    /\ \A i \in Id \ (hurt \cup Busy) : Rests(i)
    /\ \A p \in Process : Keeps(p)

LEMMA SecretsInit == Init => Secrets
<1> SUFFICES ASSUME Init PROVE Secrets
    OBVIOUS
<1>1. PICK held \in Held :
          file = [Empty EXCEPT ![Old] = [k \in Kind |-> IF k \in held THEN Old ELSE None]]
    BY DEF Init
<1>2. PICK n \in Name : config = [m \in Name |-> IF m = n THEN Old ELSE None]
    BY DEF Init
<1>3. file \in Store /\ Visible = file
    BY <1>1, ConstantsAssumption
    DEF Empty, Store, Value, Id, Kind, Visible, Read
<1>4. Known = {Old} /\ Busy = {} /\ hurt = {}
    BY <1>2, ConstantsAssumption DEF Init, Known, Busy, Running, Id
<1>5. ASSUME NEW i \in Id PROVE Rests(i)
  <2>1. CASE i = Old
    BY <1>1, <1>3, <1>4, <2>1, ConstantsAssumption DEF Rests, Matches, Kind, Empty, Id
  <2>2. CASE i # Old
    BY <1>1, <1>3, <2>2 DEF Rests, Matches, Blank, Kind, Empty, Id
  <2> QED
    BY <2>1, <2>2
<1>6. ASSUME NEW p \in Process PROVE Keeps(p)
    BY ConstantsAssumption DEF Init, Keeps, Running, Unused, Ended
<1> QED
    BY <1>4, <1>5, <1>6 DEF Secrets

\* A step of p changes no other account, neither its secrets nor whether the
\* configuration names it.
Apart(p) ==
    \A i \in Id \ {id[p]} : Visible'[i] = Visible[i] /\ (i \in Known' <=> i \in Known)

\* What is left to show of the command that takes a step.
Owes(p) ==
    /\ Running(p)' /\ cmd[p] # "logout" /\ id[p] \notin hurt' => SignsIn(p)'
    /\ ~Running(p)' /\ id[p] \notin hurt' => Rests(id[p])'
    /\ cmd[p] = "logout" => SignsOut(p)'
    /\ stage'[p] # "start"
    /\ Running(p)' /\ cmd[p] # "logout" /\ config'[name[p]] = None
          => config[name[p]] = None

\* Nothing the invariant says of other accounts and other commands is disturbed.
LEMMA Elsewhere ==
    ASSUME Inv, Secrets, NEW p \in Process, Running(p), Local(p), Apart(p),
           UNCHANGED process, hurt' \in {hurt, hurt \cup {id[p]}}, Owes(p)
    PROVE  Secrets'
<1> USE DEF process
<1>0. TypeOK /\ Busy = {id[p]} /\ id[p] \in Id
    BY BusyNext DEF Inv
<1>1. \A q \in Process \ {p} : ~Running(q) /\ ~Running(q)'
    BY DEF Inv, Alone, Local, Running
<1>2. Busy' = IF Running(p)' THEN {id[p]} ELSE {}
    BY <1>1 DEF Busy
<1>3. ASSUME NEW i \in Id \ (hurt' \cup Busy') PROVE Rests(i)'
  <2>1. CASE i = id[p]
    <3>1. ~Running(p)' /\ id[p] \notin hurt'
      BY <1>2, <1>3, <2>1
    <3>2. Rests(id[p])'
      BY <3>1 DEF Owes
    <3> QED
      BY <2>1, <3>2 DEF Rests, Matches, Blank
  <2>2. CASE i # id[p]
    <3>1. Rests(i)
      BY <1>0, <1>3, <2>2 DEF Secrets
    <3>2. Visible'[i] = Visible[i] /\ (i \in Known' <=> i \in Known)
      BY <2>2 DEF Apart
    <3> QED
      BY <3>1, <3>2 DEF Rests, Matches, Blank
  <2> QED
    BY <2>1, <2>2
<1>4. ASSUME NEW q \in Process \ {p} PROVE Keeps(q)'
  <2>1. Keeps(q) /\ ~Running(q) /\ ~Running(q)' /\ stage'[q] = stage[q] /\ cmd'[q] = cmd[q]
    BY <1>1 DEF Secrets, Local
  <2>2. ASSUME cmd[q] = "logout" PROVE SignsOut(q)'
    <3>1. SignsOut(q) /\ id[q] \in Id /\ stage[q] \in Ended \cup {"start"}
      BY <1>0, <2>1, <2>2 DEF Keeps, TypeOK, Running
    <3>2. CASE stage[q] # "done"
      BY <2>1, <3>1, <3>2 DEF SignsOut, Ended
    <3>3. CASE stage[q] = "done"
      <4>1. id[q] # id[p] /\ id[q] \notin Known
        BY <3>1, <3>3 DEF SignsOut
      <4>2. Visible'[id[q]] = Visible[id[q]] /\ id[q] \notin Known'
        BY <3>1, <4>1 DEF Apart
      <4>3. \A k \in Deleted("done") : Visible'[id[q]][k] = None
        BY <3>1, <3>3, <4>2 DEF SignsOut
      <4>4. \A r \in Process \ {q} : Running(r)' => id[r] # id[q]
        BY <1>1, <4>1
      <4> QED
        BY <2>1, <3>3, <4>2, <4>3, <4>4 DEF SignsOut, Replaced, Writing, Writes
    <3> QED
      BY <3>2, <3>3
  <2>3. Unused(q)'
    BY <2>1 DEF Keeps, Unused
  <2> QED
    BY <2>1, <2>2, <2>3 DEF Keeps
<1>5. Keeps(p)'
  <2>1. Unused(p)'
    BY DEF Secrets, Keeps, Owes, Unused
  <2> QED
    BY <2>1 DEF Keeps, Owes
<1> QED
    BY <1>3, <1>4, <1>5 DEF Secrets

\* The change of one secret concerns no other account.
LEMMA PutApart ==
    ASSUME TypeOK, NEW p \in Process, Writing(p), Visible' = Updated(p), UNCHANGED config
    PROVE  /\ Apart(p)
           /\ Visible'[id[p]][KeyKind(p)] = Put(p)
           /\ \A k \in Kind \ {KeyKind(p)} : Visible'[id[p]][k] = Visible[id[p]][k]
<1>1. Visible \in Store /\ KeyKind(p) \in Kind /\ id[p] \in Id
    BY ReadType, UpdatedType DEF TypeOK, Visible
<1>2. Known' = Known
    BY DEF Known
<1> QED
    BY <1>1, <1>2 DEF Apart, Updated, Store

\* What a sign-in found, and its write on top of it, make what the stage is for.
LEMMA PutMakes ==
    ASSUME TypeOK, NEW p \in Process, NEW s, stage[p] = s, Writing(p), cmd[p] # "logout",
           Finds(p, s), Visible' = Updated(p), UNCHANGED <<config, process, previous>>
    PROVE  Makes(p, s)'
<1> USE DEF process
<1>1. /\ Visible'[id[p]][KeyKind(p)] = Put(p)
      /\ \A k \in Kind \ {KeyKind(p)} : Visible'[id[p]][k] = Visible[id[p]][k]
    BY PutApart
<1>2. Known' = Known
    BY DEF Known
<1>3. CASE s = "token"
    BY <1>1, <1>2, <1>3
    DEF Finds, Makes, KeyKind, Put, Kind, Rests, Matches, Blank, Swapped
<1>4. CASE s = "private"
    BY <1>1, <1>2, <1>4 DEF Finds, Makes, KeyKind, Put, Kind, Swapped, Matches
<1>5. CASE s = "session"
    BY <1>1, <1>2, <1>5 DEF Finds, Makes, KeyKind, Kind, Rests, Matches
<1>6. CASE s = "restore"
    BY <1>1, <1>2, <1>6
    DEF Finds, Makes, KeyKind, Put, Kind, Swapped, Rests, Matches, Blank
<1> QED
    BY <1>3, <1>4, <1>5, <1>6 DEF Writing, Writes

\* What a stage was for is what the next one relies on.
LEMMA MakesNext ==
    ASSUME TypeOK, NEW p \in Process, NEW s, stage[p] = s, Writing(p), cmd[p] # "logout",
           Makes(p, s)', Goto(p, AfterDone(p)), UNCHANGED process
    PROVE  /\ Running(p)' => SignsIn(p)'
           /\ ~Running(p)' => Rests(id[p])'
<1>1. stage'[p] = AfterDone(p) /\ ~Replaced(p)' /\ s \in Writes
    BY DEF TypeOK, Goto, Replaced, Writing
<1>2. CASE s = "token"
    BY <1>1, <1>2 DEF AfterDone, Makes, SignsIn, Finds, Running, Ended
<1>3. CASE s \in {"private", "session"}
    BY <1>1, <1>3 DEF AfterDone, Makes, SignsIn, Finds, Running, Ended
<1>4. CASE s = "restore"
    BY <1>1, <1>4 DEF AfterDone, Makes, Running, Ended
<1> QED
    BY <1>1, <1>2, <1>3, <1>4 DEF Writes

\* The same of a command that signs out: it deletes the kind the stage is about.
Gone(p, s) == \A k \in Deleted(s) \cup {s} : Visible[id[p]][k] = None

LEMMA PutDeletes ==
    ASSUME TypeOK, NEW p \in Process, NEW s, stage[p] = s, Writing(p), cmd[p] = "logout",
           SignsOut(p), Visible' = Updated(p), UNCHANGED <<config, process>>
    PROVE  Gone(p, s)'
<1> USE DEF process
<1>1. /\ Visible'[id[p]][KeyKind(p)] = Put(p)
      /\ \A k \in Kind \ {KeyKind(p)} : Visible'[id[p]][k] = Visible[id[p]][k]
    BY PutApart
<1>2. s \in {"token", "private", "session"} /\ KeyKind(p) = s /\ Put(p) = None
    BY DEF Writing, Writes, KeyKind, Put, SignsOut
<1>3. \A k \in Deleted(s) : k \in Kind /\ k # s /\ Visible[id[p]][k] = None
    BY <1>2 DEF SignsOut, Deleted, Kind
<1> QED
    BY <1>1, <1>2, <1>3 DEF Gone

\* Coming to the next stage of a sign-out.
LEMMA GoneNext ==
    ASSUME Inv, NEW p \in Process, NEW s, stage[p] = s, Writing(p), cmd[p] = "logout",
           SignsOut(p), Gone(p, s)', Goto(p, AfterDone(p)), Local(p),
           UNCHANGED <<config, process>>
    PROVE  SignsOut(p)' /\ (~Running(p)' => Rests(id[p])')
<1> USE DEF process
<1>1. stage'[p] = AfterDone(p) /\ ~Replaced(p)' /\ Known' = Known
    BY DEF Inv, TypeOK, Goto, Replaced, Known
<1>2. \A q \in Process \ {p} : ~Running(q)'
    BY WritingRuns DEF Inv, Alone, Local, Running
<1>3. s \in {"token", "private", "session"}
    BY DEF Writing, Writes, SignsOut
<1>4. id[p] \notin Known'
    BY <1>1, <1>3 DEF SignsOut
<1>5. /\ stage'[p] \in {"private", "session", "done"}
      /\ Deleted(stage'[p]) \subseteq Deleted(s) \cup {s}
    BY <1>1, <1>3 DEF AfterDone, Deleted, Kind
<1>6. \A k \in Deleted(stage'[p]) : Visible'[id[p]][k] = None
    BY <1>5 DEF Gone
<1>7. ~Running(p)' => Rests(id[p])'
  <2>1. ~Running(p)' => Deleted(stage'[p]) = Kind
    BY <1>5 DEF Running, Ended, Deleted
  <2> QED
    BY <1>6, <2>1 DEF Rests, Matches, Blank, Kind
<1> QED
    BY <1>1, <1>2, <1>4, <1>5, <1>6, <1>7 DEF SignsOut

LEMMA SecretsNext ==
    ASSUME ~Overlap
    PROVE  Inv /\ Secrets /\ [Next]_vars => Secrets'
<1> SUFFICES ASSUME Inv, Secrets, [Next]_vars PROVE Secrets'
    OBVIOUS
<1> USE DEF disk, process
<1>0. TypeOK
    BY DEF Inv
\* A step that leaves the secrets and the configuration as they are.
<1>silent. ASSUME NEW p \in Process, UNCHANGED <<config, file>> PROVE Apart(p)
    BY <1>silent DEF Apart, Visible, Read, Empty, Known
<1>1. ASSUME NEW p \in Process, NEW c \in Command, NEW n \in Name, Begin(p, c, n)
      PROVE Secrets'
  <2>1. /\ stage[p] = "start" /\ \A q \in Process : ~Running(q)
        /\ cmd' = [cmd EXCEPT ![p] = c] /\ name' = [name EXCEPT ![p] = n]
        /\ id' = [id EXCEPT ![p] = IF config[n] # None THEN config[n] ELSE p]
        /\ config' = config /\ hurt' = hurt /\ Visible' = Visible /\ Known' = Known
    BY <1>1 DEF Begin, Visible, Read, Empty, Known
  <2>2. /\ stage'[p] = IF c = "logout" /\ config[n] = None THEN "refused" ELSE First(c)
        /\ \A q \in Process \ {p} : stage'[q] = stage[q]
        /\ ~Replaced(p)'
    BY <1>0, <1>1 DEF Begin, Goto, TypeOK, Replaced
  <2>3. /\ cmd'[p] = c /\ name'[p] = n /\ id'[p] \in Id
        /\ id'[p] = IF config[n] # None THEN config[n] ELSE p
        /\ \A q \in Process \ {p} : cmd'[q] = cmd[q] /\ id'[q] = id[q]
    BY <1>0, <2>1 DEF TypeOK, Value, Id
  <2>4. \A i \in Id \ hurt : Rests(i) /\ Rests(i)'
    <3>1. Busy = {}
      BY <2>1 DEF Busy
    <3> QED
      BY <2>1, <3>1 DEF Secrets, Rests, Matches, Blank
  <2>5. \A q \in Process \ {p} : ~Running(q)'
    BY <2>1, <2>2 DEF Running
  <2>6. \A q \in Process : Keeps(q)
    BY DEF Secrets
  <2>7. p \notin Known /\ \A q \in Process \ {p} : stage[q] = "start" => q \notin Known
    BY <2>1 DEF Inv, Good, Fresh
  <2>8. Keeps(p)'
    <3>1. Running(p)' /\ c # "logout" /\ id'[p] \notin hurt => SignsIn(p)'
      <4>1. stage'[p] \in {"peek", "session"} \/ c = "logout"
        BY <2>2 DEF First
      <4> QED
        BY <2>2, <2>3, <2>4, <4>1 DEF SignsIn, Finds
    <3>2. c = "logout" => SignsOut(p)'
      BY <2>1, <2>2, <2>3, <2>4 DEF SignsOut, First
    <3>3. Unused(p)'
      <4>1. stage'[p] # "start"
        BY <2>2 DEF First
      <4>2. config[n] = None => \A q \in Process \ {p} : id'[q] # p
        BY <2>1, <2>3, <2>6 DEF Keeps, Unused
      <4> QED
        BY <2>1, <2>3, <4>1, <4>2 DEF Unused
    <3> QED
      BY <2>1, <2>3, <3>1, <3>2, <3>3 DEF Keeps
  <2>9. ASSUME NEW q \in Process \ {p} PROVE Keeps(q)'
    <3>1. ~Running(q) /\ ~Running(q)' /\ stage'[q] = stage[q]
      BY <2>1, <2>2, <2>5
    <3>2. ASSUME cmd[q] = "logout" PROVE SignsOut(q)'
      <4>1. CASE stage[q] # "done"
        BY <1>0, <2>6, <3>1, <3>2, <4>1 DEF Keeps, SignsOut, Running, Ended, TypeOK
      <4>2. CASE stage[q] = "done"
        <5>1. id[q] \notin Known /\ \A k \in Deleted("done") : Visible[id[q]][k] = None
          BY <2>6, <3>2, <4>2 DEF Keeps, SignsOut
        <5>2. id'[p] # id[q]
          <6>1. CASE config[n] # None
            BY <2>3, <5>1, <6>1 DEF Known
          <6>2. CASE config[n] = None
            BY <2>1, <2>3, <2>6, <6>2 DEF Keeps, Unused
          <6> QED
            BY <6>1, <6>2
        <5>3. \A r \in Process \ {q} : Running(r)' => id'[r] # id[q]
          BY <2>5, <5>2
        <5> QED
          BY <2>1, <2>3, <3>1, <4>2, <5>1, <5>3 DEF SignsOut, Replaced, Writing, Writes
      <4> QED
        BY <4>1, <4>2
    <3>3. Unused(q)'
      <4>1. ASSUME stage[q] = "start" PROVE \A r \in Process \ {q} : id'[r] # q
        <5>1. id'[p] # q
          BY <2>3, <2>7, <4>1 DEF Known
        <5>2. \A r \in Process \ {q} : id[r] # q
          BY <2>6, <4>1 DEF Keeps, Unused
        <5> QED
          BY <2>3, <5>1, <5>2
      <4> QED
        BY <3>1, <4>1 DEF Unused
    <3> QED
      BY <2>3, <3>1, <3>2, <3>3 DEF Keeps
  <2> QED
    BY <2>1, <2>4, <2>8, <2>9 DEF Secrets
\* What the invariant says of the command that runs.
<1>run. ASSUME NEW p \in Process, Running(p)
        PROVE  /\ Keeps(p) /\ Draft(p) /\ Plan(p)
               /\ cmd[p] # "logout" /\ id[p] \notin hurt => SignsIn(p)
               /\ cmd[p] = "logout" => SignsOut(p)
               /\ \A q \in Process \ {p} : ~Running(q)
    BY <1>run DEF Secrets, Keeps, Inv, Good, Alone
<1>2. ASSUME NEW p \in Process, Peek(p) PROVE Secrets'
  <2>1. Running(p) /\ Local(p) /\ Apart(p) /\ ~Replaced(p)
    BY <1>0, <1>2, <1>silent
    DEF Peek, Running, Ended, Local, Goto, TypeOK, Replaced, Writing, Writes
  <2>2. cmd[p] # "logout" /\ (id[p] \notin hurt => Rests(id[p]))
    BY <1>2, <1>run, <2>1 DEF Peek, SignsOut, SignsIn, Finds
  <2>3. /\ stage'[p] = "token" /\ ~Replaced(p)' /\ Known' = Known /\ Visible' = Visible
        /\ previous'[p] = Visible[id[p]]["token"]
    BY <1>0, <1>2 DEF Peek, Goto, TypeOK, Replaced, Known, Visible, Read, Empty
  <2>4. Owes(p)
    BY <1>2, <2>2, <2>3
    DEF Owes, Peek, SignsIn, Finds, Rests, Matches, Blank, Running, Ended
  <2> QED
    BY <1>2, <2>1, <2>4, Elsewhere DEF Peek
<1>3. ASSUME NEW p \in Process, Save(p) PROVE Secrets'
  <2>1. Running(p) /\ Local(p) /\ ~Replaced(p) /\ ~Replaced(p)'
    BY <1>0, <1>3
    DEF Save, Running, Ended, Local, Goto, TypeOK, Replaced, Writing, Writes
  <2>2. /\ name[p] \in Name /\ view[p] = config /\ config \in [Name -> Value]
        /\ id[p] = IF config[name[p]] # None THEN config[name[p]] ELSE p
        /\ stage[p] = "save" => cmd[p] # "logout"
        /\ stage[p] = "unsave" => cmd[p] = "logout" /\ config[name[p]] # None
    BY <1>0, <1>3, <1>run, <2>1 DEF Plan, Save, TypeOK
  <2>3. id[p] # None /\ Visible' = Visible
    BY <1>0, <1>3, ConstantsAssumption DEF TypeOK, Save, Visible, Read, Empty
  <2>4. CASE stage[p] = "save"
    <3>1. config' = [config EXCEPT ![name[p]] = id[p]] /\ Goto(p, "done")
      BY <1>3, <2>2, <2>4 DEF Save
    <3>2. Known' = Known \cup {id[p]}
      BY <2>2, <2>3, <3>1 DEF Known
    <3>3. stage'[p] = "done" /\ ~Running(p)'
      BY <1>0, <3>1 DEF Goto, TypeOK, Running, Ended
    <3>4. id[p] \notin hurt => Matches(id[p])
      BY <1>run, <2>1, <2>2, <2>4 DEF SignsIn, Finds
    <3>5. Apart(p) /\ Owes(p)
      BY <1>3, <2>2, <2>3, <2>4, <3>2, <3>3, <3>4
      DEF Apart, Owes, Rests, Matches, Save
    <3> QED
      BY <1>3, <2>1, <3>5, Elsewhere DEF Save
  <2>5. CASE stage[p] = "unsave"
    <3>1. config' = [config EXCEPT ![name[p]] = None] /\ Goto(p, "token")
      BY <1>3, <2>2, <2>5 DEF Save
    <3>2. \A m \in Name : config[m] = id[p] <=> m = name[p]
      BY <2>2, <2>5 DEF Inv, Distinct
    <3>3. Known' = Known \ {id[p]}
      BY <2>2, <2>3, <3>1, <3>2 DEF Known
    <3>4. stage'[p] = "token" /\ Running(p)'
      BY <1>0, <3>1 DEF Goto, TypeOK, Running, Ended
    <3>5. SignsOut(p)'
      <4>1. Deleted(stage'[p]) = {}
        BY <3>4 DEF Deleted
      <4>2. \A q \in Process \ {p} : ~Running(q)'
        BY <1>run, <2>1 DEF Local, Running
      <4> QED
        BY <1>3, <2>1, <2>3, <3>3, <3>4, <4>1, <4>2 DEF SignsOut, Save
    <3>6. Apart(p) /\ Owes(p)
      BY <2>2, <2>3, <2>5, <3>3, <3>4, <3>5 DEF Apart, Owes
    <3> QED
      BY <1>3, <2>1, <3>6, Elsewhere DEF Save
  <2> QED
    BY <1>3, <2>4, <2>5 DEF Save
\* One that goes to the next call of the same write.
<1>on. ASSUME NEW p \in Process, NEW c \in Call \ {"chmod"}, Writing(p), call[p] # "chmod",
              Proceed(p, c), UNCHANGED <<file, config, process, previous, hurt, faulty>>
       PROVE  Secrets'
  <2>1. Running(p) /\ Local(p) /\ Apart(p) /\ stage' = stage
    BY <1>on, <1>silent, WritingRuns DEF Proceed, Local
  <2>2. ~Replaced(p) /\ ~Replaced(p)' /\ Known' = Known /\ Visible' = Visible
    BY <1>0, <1>on DEF Proceed, TypeOK, Replaced, Known, Visible, Read, Empty
  <2>3. SignsIn(p) => SignsIn(p)'
    BY <1>on, <2>1, <2>2 DEF SignsIn, Finds, Rests, Matches, Blank, Swapped
  <2>4. SignsOut(p) => SignsOut(p)'
    BY <1>on, <2>1, <2>2 DEF SignsOut, Rests, Matches, Blank, Running
  <2>5. Owes(p)
    BY <1>on, <1>run, <2>1, <2>3, <2>4 DEF Owes, Running
  <2> QED
    BY <1>on, <2>1, <2>5, Elsewhere
\* One that publishes the changed store.
<1>put. ASSUME NEW p \in Process, NEW s, stage[p] = s, Writing(p), ~Replaced(p),
               Visible' = Updated(p), UNCHANGED <<config, process, previous, hurt>>
        PROVE  /\ Apart(p)
               /\ cmd[p] # "logout" /\ id[p] \notin hurt => Makes(p, s)'
               /\ cmd[p] = "logout" => Gone(p, s)'
  <2>1. Apart(p)
    BY <1>0, <1>put, PutApart
  <2>2. CASE cmd[p] # "logout"
    BY <1>0, <1>put, <1>run, <2>1, <2>2, WritingRuns, PutMakes DEF SignsIn
  <2>3. CASE cmd[p] = "logout"
    BY <1>0, <1>put, <1>run, <2>1, <2>3, WritingRuns, PutDeletes
  <2> QED
    BY <2>2, <2>3
\* One that was the last of its write.
<1>done. ASSUME NEW p \in Process, NEW s, stage[p] = s, Writing(p), Goto(p, AfterDone(p)),
                Apart(p), UNCHANGED <<config, process, hurt, faulty>>,
                cmd[p] # "logout" /\ id[p] \notin hurt => Makes(p, s)',
                cmd[p] = "logout" => Gone(p, s)'
         PROVE  Secrets'
  <2>1. Running(p) /\ Local(p) /\ stage'[p] = AfterDone(p)
    BY <1>0, <1>done, WritingRuns DEF Local, Goto, TypeOK
  <2>2. CASE cmd[p] # "logout"
    <3>1. id[p] \notin hurt =>
            (Running(p)' => SignsIn(p)') /\ (~Running(p)' => Rests(id[p])')
      BY <1>0, <1>done, <2>2, MakesNext
    <3>2. Owes(p)
      BY <1>done, <2>1, <2>2, <3>1, Following, <1>run DEF Owes, AfterDone
    <3> QED
      BY <1>done, <2>1, <3>2, Elsewhere
  <2>3. CASE cmd[p] = "logout"
    <3>1. SignsOut(p)' /\ (~Running(p)' => Rests(id[p])')
      BY <1>0, <1>done, <1>run, <2>1, <2>3, GoneNext
    <3>2. Owes(p)
      BY <1>done, <2>1, <2>3, <3>1, Following, <1>run DEF Owes, AfterDone
    <3> QED
      BY <1>done, <2>1, <3>2, Elsewhere
  <2> QED
    BY <2>2, <2>3
<1>4. ASSUME NEW p \in Process, ReadFile(p) PROVE Secrets'
  <2>1. Writing(p) /\ call[p] = "read" /\ ~Replaced(p)
    BY <1>4 DEF ReadFile, Replaced
  <2>2. CASE Goto(p, AfterDone(p)) /\ Updated(p) = Visible
    <3>1. Visible' = Updated(p)
      BY <1>4, <2>2 DEF ReadFile, Visible, Read, Empty
    <3>2. PICK s : s = stage[p]
      OBVIOUS
    <3> QED
      BY <1>4, <1>put, <1>done, <2>1, <2>2, <3>1, <3>2 DEF ReadFile
  <2>3. CASE Proceed(p, "remove") \/ Proceed(p, "create")
    BY <1>4, <1>on, <2>1, <2>3 DEF ReadFile, Call
  <2> QED
    BY <1>4, <2>2, <2>3 DEF ReadFile
<1>5. ASSUME NEW p \in Process, Create(p) PROVE Secrets'
  <2>1. Writing(p) /\ call[p] # "chmod" /\ (tmp = Absent \/ call[p] = "create")
    BY <1>5, <1>run, WritingRuns DEF Create, Draft
  <2>2. UNCHANGED file /\ (Proceed(p, "write") \/ Proceed(p, "clear"))
    BY <1>5, <2>1 DEF Create, OpenOrClear, Open
  <2> QED
    BY <1>5, <1>on, <2>1, <2>2 DEF Create, Call
<1>6. ASSUME NEW p \in Process, Clear(p) PROVE Secrets'
  <2>1. Writing(p) /\ call[p] # "chmod" /\ Proceed(p, "again")
    BY <1>6, <1>run, WritingRuns DEF Clear, Draft
  <2> QED
    BY <1>6, <1>on, <2>1 DEF Clear, Call
<1>7. ASSUME NEW p \in Process, Write(p) PROVE Secrets'
  <2>1. Writing(p) /\ call[p] # "chmod" /\ Proceed(p, "rename") /\ UNCHANGED file
    BY <1>7, <1>run, WritingRuns DEF Write, Draft
  <2> QED
    BY <1>7, <1>on, <2>1 DEF Write, Call
<1>8. ASSUME NEW p \in Process, Rename(p) PROVE Secrets'
  <2>1. Writing(p) /\ tmp = Updated(p) /\ Updated(p) \in Store /\ Running(p) /\ ~Replaced(p)
    BY <1>0, <1>8, <1>run, WritingRuns, UpdatedType DEF Rename, Draft, Replaced
  <2>2. file' = tmp /\ Proceed(p, "chmod") /\ Visible' = Updated(p)
    BY <1>8, <2>1, ConstantsAssumption DEF Rename, Visible, Read
  <2>3. PICK s : s = stage[p]
    OBVIOUS
  <2>4. /\ Apart(p)
        /\ cmd[p] # "logout" /\ id[p] \notin hurt => Makes(p, s)'
        /\ cmd[p] = "logout" => Gone(p, s)'
    BY <1>8, <1>put, <2>1, <2>2, <2>3 DEF Rename
  <2>5. stage' = stage /\ Replaced(p)' /\ Local(p)
    BY <1>0, <1>8, <2>1, <2>2
    DEF Rename, Proceed, TypeOK, Replaced, Writing, Local
  <2>6. cmd[p] # "logout" /\ id[p] \notin hurt => SignsIn(p)'
    BY <2>3, <2>4, <2>5 DEF SignsIn, Makes
  <2>7. ASSUME cmd[p] = "logout" PROVE SignsOut(p)'
    <3>1. SignsOut(p) /\ s \in {"token", "private", "session"}
      BY <1>run, <2>1, <2>3, <2>7 DEF SignsOut, Writing, Writes
    <3>2. id[p] \notin Known'
      BY <1>8, <2>3, <3>1 DEF SignsOut, Rename, Known
    <3>3. \A q \in Process \ {p} : ~Running(q)'
      BY <1>run, <2>1, <2>5 DEF Running
    <3> QED
      BY <1>8, <2>3, <2>4, <2>5, <2>7, <3>1, <3>2, <3>3 DEF SignsOut, Gone, Rename
  <2>8. Owes(p)
    BY <1>8, <2>1, <2>5, <2>6, <2>7 DEF Owes, Rename, Running
  <2> QED
    BY <1>8, <2>1, <2>4, <2>5, <2>8, Elsewhere DEF Rename
<1>9. ASSUME NEW p \in Process, Chmod(p) PROVE Secrets'
  <2>1. Writing(p) /\ Replaced(p) /\ Running(p) /\ file # Absent
    BY <1>9, <1>run, WritingRuns DEF Chmod, Draft, Replaced
  <2>2. Goto(p, AfterDone(p)) /\ Apart(p) /\ Visible' = Visible /\ Known' = Known
    BY <1>9, <1>silent, <2>1 DEF Chmod, Visible, Read, Empty, Known
  <2>3. PICK s : s = stage[p]
    OBVIOUS
  <2>4. cmd[p] # "logout" /\ id[p] \notin hurt => Makes(p, s)'
    BY <1>9, <1>run, <2>1, <2>2, <2>3
    DEF Chmod, SignsIn, Makes, Swapped, Rests, Matches, Blank
  <2>5. cmd[p] = "logout" => Gone(p, s)'
    BY <1>9, <1>run, <2>1, <2>2, <2>3
    DEF Chmod, SignsOut, Gone, Writing, Writes
  <2> QED
    BY <1>9, <1>done, <2>1, <2>2, <2>3, <2>4, <2>5 DEF Chmod
<1>10. ASSUME NEW p \in Process, Remove(p) PROVE Secrets'
  <2>1. Writing(p) /\ ~Replaced(p) /\ Updated(p) = Empty
    BY <1>10, <1>run, WritingRuns DEF Remove, Draft, Replaced
  <2>2. Goto(p, AfterDone(p)) /\ Visible' = Updated(p)
    BY <1>10, <2>1 DEF Remove, Visible, Read, Empty
  <2>3. PICK s : s = stage[p]
    OBVIOUS
  <2> QED
    BY <1>10, <1>put, <1>done, <2>1, <2>2, <2>3 DEF Remove
<1>11. ASSUME NEW p \in Process, Fault(p) PROVE Secrets'
  <2>1. Running(p) /\ Local(p) /\ Apart(p)
    BY <1>0, <1>11, <1>silent DEF Fault, Local, Goto, TypeOK
  <2>2. /\ stage'[p] = AfterFailure(p) /\ ~Replaced(p)' /\ Visible' = Visible
        /\ Known' = Known /\ previous' = previous
    BY <1>0, <1>11 DEF Fault, Goto, TypeOK, Replaced, Visible, Read, Empty, Known
  <2>3. hurt' = IF Leaves(p) THEN hurt \cup {id[p]} ELSE hurt
    BY <1>11 DEF Fault
  <2>4. ASSUME id[p] \notin hurt'
        PROVE  IF stage'[p] = "restore" THEN Swapped(p)' ELSE Rests(id[p])'
    <3>1. ~Leaves(p) /\ id[p] \notin hurt
      BY <2>3, <2>4
    <3>2. CASE cmd[p] = "logout"
      <4>1. SignsOut(p) /\ ~Writing(p) /\ stage[p] \notin {"restore", "save"}
        BY <1>run, <2>1, <3>1, <3>2 DEF Leaves
      <4>2. stage[p] = "unsave"
        BY <1>0, <2>1, <4>1 DEF SignsOut, Writing, Writes, Running, TypeOK, Stage
      <4> QED
        BY <1>11, <2>2, <3>1, <3>2, <4>1, <4>2
        DEF SignsOut, AfterFailure, Fault, Rests, Matches, Blank
    <3>3. CASE cmd[p] # "logout"
      <4>1. SignsIn(p) /\ ~Replaced(p) /\ stage[p] \in {"peek", "token", "private", "session"}
        BY <1>0, <1>run, <2>1, <3>1, <3>3
        DEF Leaves, Replaced, Plan, Running, TypeOK, Stage
      <4> QED
        BY <1>11, <2>2, <3>3, <4>1
        DEF SignsIn, Finds, AfterFailure, Fault, Rests, Matches, Blank, Swapped
    <3> QED
      BY <3>2, <3>3
  <2>5. stage'[p] = "failed" \/ (stage'[p] = "restore" /\ cmd[p] # "logout")
    BY <2>2 DEF AfterFailure
  <2>6. Owes(p)
    BY <1>11, <2>2, <2>4, <2>5
    DEF Owes, SignsIn, SignsOut, Finds, Running, Ended, Fault
  <2> QED
    BY <1>11, <2>1, <2>3, <2>6, Elsewhere DEF Fault
<1>12. ASSUME NEW p \in Process, Crash(p) PROVE Secrets'
  <2>1. Running(p) /\ Local(p) /\ Apart(p)
    BY <1>0, <1>12, <1>silent DEF Crash, Local, TypeOK
  <2>2. stage'[p] = "dead" /\ hurt' = hurt \cup {id[p]}
    BY <1>0, <1>12 DEF Crash, TypeOK
  <2>3. Owes(p)
    BY <1>12, <2>2 DEF Owes, Running, Ended, SignsOut, Crash
  <2> QED
    BY <1>12, <2>1, <2>2, <2>3, Elsewhere DEF Crash
<1>13. CASE UNCHANGED vars
  <2>1. /\ Visible' = Visible /\ Known' = Known /\ Busy' = Busy
        /\ UNCHANGED <<config, hurt, stage, call, cmd, name, id, previous>>
        /\ \A p \in Process : Running(p)' = Running(p) /\ Replaced(p)' = Replaced(p)
    BY <1>13 DEF vars, Visible, Read, Empty, Known, Busy, Running, Replaced, Writing
  <2>2. ASSUME NEW i PROVE Rests(i)' = Rests(i) /\ Matches(i)' = Matches(i)
    BY <2>1 DEF Rests, Matches, Blank
  <2>3. ASSUME NEW p \in Process PROVE Keeps(p)'
    <3>1. SignsIn(p) => SignsIn(p)'
      BY <2>1, <2>2 DEF SignsIn, Finds, Makes, Swapped
    <3>2. SignsOut(p) => SignsOut(p)'
      BY <2>1, <2>2 DEF SignsOut
    <3>3. Unused(p) => Unused(p)'
      BY <2>1 DEF Unused
    <3> QED
      BY <2>1, <3>1, <3>2, <3>3 DEF Secrets, Keeps
  <2> QED
    BY <2>1, <2>2, <2>3 DEF Secrets
<1> QED
    BY <1>1, <1>2, <1>3, <1>4, <1>5, <1>6, <1>7, <1>8, <1>9, <1>10, <1>11, <1>12, <1>13
    DEF Next, Step

LEMMA Secrecy ==
    ASSUME ~Overlap
    PROVE  Spec => []Secrets
<1>1. Inv /\ Secrets /\ [Next]_vars => Secrets'
    BY SecretsNext
<1> QED
    BY <1>1, SecretsInit, Invariance, PTL DEF Spec

\* The two secrets of a login stay together although they are stored one after
\* the other and the second may be refused (internal/auth/auth.go, StoreCredential rolls a
\* refused one back): PairMatches, checked in the run CredentialFile.
THEOREM PairStaysTogether ==
    ASSUME ~Overlap
    PROVE  Spec => []PairMatches
<1>1. Secrets => PairMatches
    BY DEF Secrets, Rests, Matches, PairMatches
<1> QED
    BY <1>1, Secrecy, PTL

\* Once a logout has said it is done, no secret of the account is left, and no
\* command that comes later, whatever account it works on, brings one back:
\* LoggedOutIsGone, checked in the run CredentialFile.
THEOREM LogoutLasts ==
    ASSUME ~Overlap
    PROVE  Spec => []LoggedOutIsGone
<1>1. Secrets => LoggedOutIsGone
    BY DEF Secrets, Keeps, SignsOut, Deleted, LoggedOutIsGone
<1> QED
    BY <1>1, Secrecy, PTL

\* A secret no account of the configuration leads to any more comes only from a
\* command that was stopped half-way: StrandedOnlyByFailure, checked in the run
\* CredentialFile.
THEOREM NothingStranded ==
    ASSUME ~Overlap
    PROVE  Spec => []StrandedOnlyByFailure
<1>1. Secrets => StrandedOnlyByFailure
    BY DEF Secrets, Rests, Blank, StrandedOnlyByFailure
<1> QED
    BY <1>1, Secrecy, PTL

=============================================================================
