-------------------------- MODULE SubmissionProofs --------------------------
(***************************************************************************)
(* Theorems about Submission, for any number of invocations and whatever   *)
(* settings, command lines, texts, tokens and other actors there are.      *)
(*                                                                         *)
(* No property of Submission is inductive: a step of the site depends on   *)
(* what the client has sent, and what the client reports depends on which  *)
(* of its writes the site has executed.  Inv ties the two together, run by *)
(* run: how far the conversation has come (pc, op, answer) against what    *)
(* has been done to the submission (saves, hands, text, status).           *)
(***************************************************************************)
EXTENDS Submission, TLAPS

\* Before the first write is sent nothing has been done; a save is executed
\* before a hand-in is sent; and a request that still waits to be executed, or
\* was turned down, has not been executed.
Progress(r) ==
    /\ pc[r] \in {"start", "preflight", "upload", "area", "declined"} => op[r] = "none"
    /\ pc[r] = "save" => op[r] \in {"none", "save"}
    /\ pc[r] \in {"handin", "verify"} => op[r] # "none"
    /\ pc[r] = "handin" /\ op[r] = "save" => answer[r] = "idle" /\ saves[r] = 1
    /\ op[r] = "none" => answer[r] = "idle" /\ saves[r] = 0 /\ hands[r] = 0
    /\ op[r] = "save" =>
          /\ hands[r] = 0
          /\ saves[r] \in {0, 1}
          /\ answer[r] \in {"pending", "refused", "expired"} => saves[r] = 0
          /\ answer[r] = "ok" => saves[r] = 1
    /\ op[r] = "handin" =>
          /\ saves[r] = 1
          /\ hands[r] \in {0, 1}
          /\ answer[r] \in {"pending", "refused", "expired"} => hands[r] = 0

\* Only a run that was asked to write gets past its preflight, and only one
\* that was asked to hand in gets to the hand-in.
Licence(r) ==
    /\ pc[r] \notin {"start", "declined"} => asked[r].mode # "readOnly"
    /\ pc[r] \notin {"start", "preflight", "declined"} =>
          /\ asked[r].mode = "normal"
          /\ assign.statement /\ ~asked[r].accept => asked[r].draftOnly
    /\ pc[r] = "handin" \/ op[r] = "handin" => ~asked[r].draftOnly

\* A write cut short leads to the reconciling read and to nothing else.
Cut(r) ==
    cut[r] => \/ pc[r] = "reconcile"
              \/ pc[r] = "done" /\ result[r].exit \in {"ok", "ambiguous"}

\* An undisturbed save leaves a draft or a submission.
Kept(r) == saves[r] > 0 /\ ~interfered[r] => status \in {"draft", "submitted"}

\* Once "nothing was saved" is said it is true and stays so, if the write had
\* been run when the status was read.
Unsaved(r) ==
    result[r].hint = "unsaved" =>
        /\ pc[r] = "done"
        /\ \/ early[r]
           \/ answer[r] # "pending" /\ (saves[r] = 0 \/ interfered[r])

\* Past preflight, the text the run has read is the text, unless edited.
Copy(r) ==
    pc[r] \notin {"start", "preflight", "declined"} /\ ~edited[r] => text = readText[r]

RunInv(r) ==
    /\ Progress(r) /\ Licence(r) /\ Cut(r)
    /\ Kept(r) /\ Unsaved(r) /\ Copy(r)

Inv == TypeOK /\ \A r \in Run : RunInv(r)

-----------------------------------------------------------------------------
(* Types.                                                                  *)

USE DEF site, wire, client, history, fixed

LEMMA ResultTypes ==
    /\ NoResult \in Result
    /\ \A e \in Exit, h \in Hint : Failure(e, h) \in Result
    /\ \A o \in Outcome, s \in Status \cup {"none"} : Success(o, s) \in Result
BY DEF NoResult, Failure, Success, Result, Exit, Outcome, Hint, Status

LEMMA ResultFields ==
    /\ NoResult.exit = "none" /\ NoResult.hint = "none"
    /\ \A e \in Exit, h \in Hint :
          /\ Failure(e, h).exit = e
          /\ Failure(e, h).hint = h
          /\ ~Failure(e, h).handedIn
    /\ \A o \in Outcome, s \in Status \cup {"none"} :
          /\ Success(o, s).exit = "ok"
          /\ Success(o, s).hint = "none"
          /\ Success(o, s).handedIn = (s = "submitted")
BY DEF NoResult, Failure, Success, Exit, Outcome, Hint, Status

LEMMA TypeInit == Init => TypeOK
BY ConstantsAssumption, ResultTypes DEF Init, TypeOK, Status, Calls, Ended, Answer

\* Every action keeps every variable in its type.
LEMMA TypeNext == TypeOK /\ [Next]_vars => TypeOK'
<1> SUFFICES ASSUME TypeOK, [Next]_vars PROVE TypeOK'
    OBVIOUS
<1> USE DEF TypeOK
<1>1. ASSUME NEW r \in Run, Begin(r) PROVE TypeOK'
    BY <1>1, ResultTypes DEF Begin, Finish, Goto, Calls, Ended, Exit, Hint
<1>2. ASSUME NEW r \in Run, Preflight(r) PROVE TypeOK'
    BY <1>2, ResultTypes DEF Preflight, Finish, Goto, Calls, Ended, Exit, Hint, Outcome
<1>3. ASSUME NEW r \in Run, PreflightFails(r) PROVE TypeOK'
    BY <1>3, ResultTypes DEF PreflightFails, CallFailures, Finish, Calls, Ended, Exit, Hint
<1>4. ASSUME NEW r \in Run, Prepare(r) PROVE TypeOK'
    BY <1>4 DEF Prepare, Goto, Calls
<1>5. ASSUME NEW r \in Run, PrepareFails(r) PROVE TypeOK'
    BY <1>5, ResultTypes
    DEF PrepareFails, CallFailures, Guarded, Finish, Calls, Ended, Exit, Hint
<1>6. ASSUME NEW r \in Run, Send(r) PROVE TypeOK'
    BY <1>6 DEF Send, Answer
<1>7. ASSUME NEW r \in Run, Receive(r) PROVE TypeOK'
    BY <1>7, ResultTypes
    DEF Receive, AfterWrite, Finish, Goto, Calls, Ended, Answer, Exit, Hint
<1>8. ASSUME NEW r \in Run, RetryCall(r) PROVE TypeOK'
    BY <1>8 DEF RetryCall, CanRetry, Answer
<1>9. ASSUME NEW r \in Run, LoseBody(r) PROVE TypeOK'
    BY <1>9 DEF LoseBody, Goto, Calls
<1>10. ASSUME NEW r \in Run, GiveUp(r) PROVE TypeOK'
    BY <1>10, ResultTypes DEF GiveUp, Finish, Calls, Ended, Exit, Hint
<1>11. ASSUME NEW r \in Run, Abandon(r) PROVE TypeOK'
    BY <1>11, ResultTypes DEF Abandon, Finish, Goto, Calls, Ended, Exit, Hint
<1>12. ASSUME NEW r \in Run, Reconcile(r) PROVE TypeOK'
    BY <1>12, ResultTypes DEF Reconcile, Finish, Calls, Ended, Exit, Hint, Outcome
<1>13. ASSUME NEW r \in Run, ReconcileFails(r) PROVE TypeOK'
    BY <1>13, ResultTypes DEF ReconcileFails, Finish, Calls, Ended, Exit, Hint
<1>14. ASSUME NEW r \in Run, Verify(r) PROVE TypeOK'
    BY <1>14, ResultTypes DEF Verify, Finish, Calls, Ended, Outcome
<1>15. ASSUME NEW r \in Run, VerifyFails(r) PROVE TypeOK'
    BY <1>15, ResultTypes DEF VerifyFails, CallFailures, Finish, Calls, Ended, Exit, Hint
<1>16. ASSUME NEW r \in Run, Interrupt(r) PROVE TypeOK'
    BY <1>16 DEF Interrupt
<1>17. ASSUME NEW r \in Run, Execute(r) PROVE TypeOK'
  <2>1. CASE TurnDown(r)
    BY <1>17, <2>1 DEF Execute, TurnDown, Answer
  <2>2. CASE Accept(r) /\ ExecuteSave(r)
    <3>1. edited' \in [Run -> BOOLEAN]
      BY <2>2 DEF ExecuteSave
    <3>2. interfered' \in [Run -> BOOLEAN]
      BY <2>2 DEF Accept
    <3>3. saves' \in [Run -> Nat] /\ status' \in Status /\ text' \in Text
      BY <2>2 DEF ExecuteSave, SavedText, Status
    <3> QED
      BY <1>17, <2>2, <3>1, <3>2, <3>3 DEF Execute, Accept, ExecuteSave, Answer
  <2>3. CASE Accept(r) /\ ExecuteHandIn(r)
    BY <1>17, <2>3 DEF Execute, Accept, ExecuteHandIn, Status, Answer
  <2> QED
    BY <1>17, <2>1, <2>2, <2>3 DEF Execute, Accept
<1>18. ASSUME Environment PROVE TypeOK'
    BY <1>18 DEF Environment, Browser, Teacher, Account, BrowserEdit, BrowserHandIn,
       TeacherReopens, TeacherLocks, RevokeToken, SignInAgain, Logout, Status
<1>19. CASE UNCHANGED vars
    BY <1>19 DEF vars
<1> QED
    BY <1>1, <1>2, <1>3, <1>4, <1>5, <1>6, <1>7, <1>8, <1>9, <1>10, <1>11, <1>12,
       <1>13, <1>14, <1>15, <1>16, <1>17, <1>18, <1>19 DEF Next, Step

\* Every variable keeps its type, however many runs there are.
THEOREM TypeCorrect == Spec => []TypeOK
<1> QED
    BY TypeInit, TypeNext, PTL DEF Spec


-----------------------------------------------------------------------------
(* One lemma for each part of the invariant: every action preserves it.    *)

\* How far the conversation has come agrees with what was done.
LEMMA ProgressNext ==
    ASSUME TypeOK, TypeOK', [Next]_vars, NEW q \in Run, RunInv(q)
    PROVE  Progress(q)'
<1> USE DEF TypeOK, RunInv, Progress
<1>1. ASSUME NEW r \in Run, Begin(r) PROVE Progress(q)'
    BY <1>1 DEF Begin, Finish, Goto
<1>2. ASSUME NEW r \in Run, Preflight(r) PROVE Progress(q)'
    BY <1>2 DEF Preflight, Finish, Goto
<1>3. ASSUME NEW r \in Run, PreflightFails(r) PROVE Progress(q)'
    BY <1>3 DEF PreflightFails, Finish
<1>4. ASSUME NEW r \in Run, Prepare(r) PROVE Progress(q)'
    BY <1>4 DEF Prepare, Goto
<1>5. ASSUME NEW r \in Run, PrepareFails(r) PROVE Progress(q)'
    BY <1>5 DEF PrepareFails, Finish
<1>6. ASSUME NEW r \in Run, Send(r) PROVE Progress(q)'
    BY <1>6 DEF Send
<1>7. ASSUME NEW r \in Run, Receive(r) PROVE Progress(q)'
    BY <1>7 DEF Receive, Waiting, Finish, Goto, AfterWrite, NeedsHandIn
<1>8. ASSUME NEW r \in Run, RetryCall(r) PROVE Progress(q)'
    BY <1>8 DEF RetryCall, Waiting, CanRetry
<1>9. ASSUME NEW r \in Run, LoseBody(r) PROVE Progress(q)'
    BY <1>9 DEF LoseBody, Waiting, Goto
<1>10. ASSUME NEW r \in Run, GiveUp(r) PROVE Progress(q)'
    BY <1>10 DEF GiveUp, Waiting, Finish
<1>11. ASSUME NEW r \in Run, Abandon(r) PROVE Progress(q)'
    BY <1>11 DEF Abandon, Finish, Goto
<1>12. ASSUME NEW r \in Run, Reconcile(r) PROVE Progress(q)'
    BY <1>12 DEF Reconcile, Finish
<1>13. ASSUME NEW r \in Run, ReconcileFails(r) PROVE Progress(q)'
    BY <1>13 DEF ReconcileFails, Finish
<1>14. ASSUME NEW r \in Run, Verify(r) PROVE Progress(q)'
    BY <1>14 DEF Verify, Finish
<1>15. ASSUME NEW r \in Run, VerifyFails(r) PROVE Progress(q)'
    BY <1>15 DEF VerifyFails, Finish
<1>16. ASSUME NEW r \in Run, Interrupt(r) PROVE Progress(q)'
    BY <1>16 DEF Interrupt
<1>17. ASSUME NEW r \in Run, Execute(r) PROVE Progress(q)'
  <2>1. CASE TurnDown(r)
    BY <1>17, <2>1 DEF Execute, TurnDown
  <2>2. CASE Accept(r) /\ ExecuteSave(r)
    BY <1>17, <2>2 DEF Execute, Accept, ExecuteSave
  <2>3. CASE Accept(r) /\ ExecuteHandIn(r)
    BY <1>17, <2>3 DEF Execute, Accept, ExecuteHandIn, SiteAccepts
  <2> QED
    BY <1>17, <2>1, <2>2, <2>3 DEF Execute, Accept
<1>18. ASSUME Environment PROVE Progress(q)'
    BY <1>18 DEF Environment, Browser, Teacher, Account, BrowserEdit,
       BrowserHandIn, TeacherReopens, TeacherLocks, RevokeToken, SignInAgain,
       Logout
<1>19. CASE UNCHANGED vars
    BY <1>19 DEF vars
<1> QED
    BY <1>1, <1>2, <1>3, <1>4, <1>5, <1>6, <1>7, <1>8, <1>9, <1>10, <1>11,
       <1>12, <1>13, <1>14, <1>15, <1>16, <1>17, <1>18, <1>19 DEF Next, Step

\* Nobody gets past a decision that went against them.
LEMMA LicenceNext ==
    ASSUME TypeOK, TypeOK', [Next]_vars, NEW q \in Run, RunInv(q)
    PROVE  Licence(q)'
<1> USE DEF TypeOK, RunInv, Licence
<1>1. ASSUME NEW r \in Run, Begin(r) PROVE Licence(q)'
    BY <1>1 DEF Begin, Finish, Goto
<1>2. ASSUME NEW r \in Run, Preflight(r) PROVE Licence(q)'
    BY <1>2, ConstantsAssumption DEF Preflight, Finish, Goto, Refuses, Request
<1>3. ASSUME NEW r \in Run, PreflightFails(r) PROVE Licence(q)'
    BY <1>3 DEF PreflightFails, Finish
<1>4. ASSUME NEW r \in Run, Prepare(r) PROVE Licence(q)'
    BY <1>4 DEF Prepare, Goto
<1>5. ASSUME NEW r \in Run, PrepareFails(r) PROVE Licence(q)'
    BY <1>5 DEF PrepareFails, Finish
<1>6. ASSUME NEW r \in Run, Send(r) PROVE Licence(q)'
    BY <1>6 DEF Send
<1>7. ASSUME NEW r \in Run, Receive(r) PROVE Licence(q)'
    BY <1>7 DEF Receive, Waiting, Finish, Goto, AfterWrite, NeedsHandIn,
       Progress
<1>8. ASSUME NEW r \in Run, RetryCall(r) PROVE Licence(q)'
    BY <1>8 DEF RetryCall, Waiting
<1>9. ASSUME NEW r \in Run, LoseBody(r) PROVE Licence(q)'
    BY <1>9 DEF LoseBody, Waiting, Goto
<1>10. ASSUME NEW r \in Run, GiveUp(r) PROVE Licence(q)'
    BY <1>10 DEF GiveUp, Waiting, Finish
<1>11. ASSUME NEW r \in Run, Abandon(r) PROVE Licence(q)'
    BY <1>11 DEF Abandon, Finish, Goto
<1>12. ASSUME NEW r \in Run, Reconcile(r) PROVE Licence(q)'
    BY <1>12 DEF Reconcile, Finish
<1>13. ASSUME NEW r \in Run, ReconcileFails(r) PROVE Licence(q)'
    BY <1>13 DEF ReconcileFails, Finish
<1>14. ASSUME NEW r \in Run, Verify(r) PROVE Licence(q)'
    BY <1>14 DEF Verify, Finish
<1>15. ASSUME NEW r \in Run, VerifyFails(r) PROVE Licence(q)'
    BY <1>15 DEF VerifyFails, Finish
<1>16. ASSUME NEW r \in Run, Interrupt(r) PROVE Licence(q)'
    BY <1>16 DEF Interrupt
<1>17. ASSUME NEW r \in Run, Execute(r) PROVE Licence(q)'
  <2>1. CASE TurnDown(r)
    BY <1>17, <2>1 DEF Execute, TurnDown
  <2>2. CASE Accept(r) /\ ExecuteSave(r)
    BY <1>17, <2>2 DEF Execute, Accept, ExecuteSave
  <2>3. CASE Accept(r) /\ ExecuteHandIn(r)
    BY <1>17, <2>3 DEF Execute, Accept, ExecuteHandIn
  <2> QED
    BY <1>17, <2>1, <2>2, <2>3 DEF Execute, Accept
<1>18. ASSUME Environment PROVE Licence(q)'
    BY <1>18 DEF Environment, Browser, Teacher, Account, BrowserEdit,
       BrowserHandIn, TeacherReopens, TeacherLocks, RevokeToken, SignInAgain,
       Logout
<1>19. CASE UNCHANGED vars
    BY <1>19 DEF vars
<1> QED
    BY <1>1, <1>2, <1>3, <1>4, <1>5, <1>6, <1>7, <1>8, <1>9, <1>10, <1>11,
       <1>12, <1>13, <1>14, <1>15, <1>16, <1>17, <1>18, <1>19 DEF Next, Step

\* A write cut short is read back.
LEMMA CutNext ==
    ASSUME TypeOK, TypeOK', [Next]_vars, NEW q \in Run, RunInv(q)
    PROVE  Cut(q)'
<1> USE DEF TypeOK, RunInv, Cut
<1>1. ASSUME NEW r \in Run, Begin(r) PROVE Cut(q)'
    BY <1>1 DEF Begin, Finish, Goto
<1>2. ASSUME NEW r \in Run, Preflight(r) PROVE Cut(q)'
    BY <1>2 DEF Preflight, Finish, Goto
<1>3. ASSUME NEW r \in Run, PreflightFails(r) PROVE Cut(q)'
    BY <1>3 DEF PreflightFails, Finish
<1>4. ASSUME NEW r \in Run, Prepare(r) PROVE Cut(q)'
    BY <1>4 DEF Prepare, Goto
<1>5. ASSUME NEW r \in Run, PrepareFails(r) PROVE Cut(q)'
    BY <1>5 DEF PrepareFails, Finish
<1>6. ASSUME NEW r \in Run, Send(r) PROVE Cut(q)'
    BY <1>6 DEF Send
<1>7. ASSUME NEW r \in Run, Receive(r) PROVE Cut(q)'
    BY <1>7 DEF Receive, Waiting, Finish, Goto, AfterWrite
<1>8. ASSUME NEW r \in Run, RetryCall(r) PROVE Cut(q)'
    BY <1>8 DEF RetryCall, Waiting
<1>9. ASSUME NEW r \in Run, LoseBody(r) PROVE Cut(q)'
    BY <1>9 DEF LoseBody, Waiting, Goto
<1>10. ASSUME NEW r \in Run, GiveUp(r) PROVE Cut(q)'
    BY <1>10 DEF GiveUp, Waiting, Finish
<1>11. ASSUME NEW r \in Run, Abandon(r) PROVE Cut(q)'
    BY <1>11, ResultFields DEF Abandon, Finish, Goto, Guarded, Exit, Hint
<1>12. ASSUME NEW r \in Run, Reconcile(r) PROVE Cut(q)'
    BY <1>12, ResultFields DEF Reconcile, Finish, Exit, Hint, Outcome
<1>13. ASSUME NEW r \in Run, ReconcileFails(r) PROVE Cut(q)'
    BY <1>13, ResultFields DEF ReconcileFails, Finish, Exit, Hint
<1>14. ASSUME NEW r \in Run, Verify(r) PROVE Cut(q)'
    BY <1>14 DEF Verify, Finish
<1>15. ASSUME NEW r \in Run, VerifyFails(r) PROVE Cut(q)'
    BY <1>15 DEF VerifyFails, Finish
<1>16. ASSUME NEW r \in Run, Interrupt(r) PROVE Cut(q)'
    BY <1>16 DEF Interrupt
<1>17. ASSUME NEW r \in Run, Execute(r) PROVE Cut(q)'
  <2>1. CASE TurnDown(r)
    BY <1>17, <2>1 DEF Execute, TurnDown
  <2>2. CASE Accept(r) /\ ExecuteSave(r)
    BY <1>17, <2>2 DEF Execute, Accept, ExecuteSave
  <2>3. CASE Accept(r) /\ ExecuteHandIn(r)
    BY <1>17, <2>3 DEF Execute, Accept, ExecuteHandIn
  <2> QED
    BY <1>17, <2>1, <2>2, <2>3 DEF Execute, Accept
<1>18. ASSUME Environment PROVE Cut(q)'
    BY <1>18 DEF Environment, Browser, Teacher, Account, BrowserEdit,
       BrowserHandIn, TeacherReopens, TeacherLocks, RevokeToken, SignInAgain,
       Logout
<1>19. CASE UNCHANGED vars
    BY <1>19 DEF vars
<1> QED
    BY <1>1, <1>2, <1>3, <1>4, <1>5, <1>6, <1>7, <1>8, <1>9, <1>10, <1>11,
       <1>12, <1>13, <1>14, <1>15, <1>16, <1>17, <1>18, <1>19 DEF Next, Step

\* A save leaves a trace until somebody else acts.
LEMMA KeptNext ==
    ASSUME TypeOK, TypeOK', [Next]_vars, NEW q \in Run, RunInv(q)
    PROVE  Kept(q)'
<1> USE DEF TypeOK, RunInv, Kept
<1>1. ASSUME NEW r \in Run, Execute(r) PROVE Kept(q)'
  <2>1. CASE TurnDown(r)
    BY <1>1, <2>1 DEF Execute, TurnDown
  <2>2. CASE Accept(r) /\ ExecuteSave(r)
    BY <1>1, <2>2 DEF Execute, Accept, ExecuteSave
  <2>3. CASE Accept(r) /\ ExecuteHandIn(r)
    BY <1>1, <2>3 DEF Execute, Accept, ExecuteHandIn
  <2> QED
    BY <1>1, <2>1, <2>2, <2>3 DEF Execute, Accept
<1>2. ASSUME Environment PROVE Kept(q)'
    BY <1>2 DEF Environment, Browser, Teacher, Account, BrowserEdit, BrowserHandIn,
       TeacherReopens, TeacherLocks, RevokeToken, SignInAgain, Logout
<1>3. CASE UNCHANGED <<status, saves, interfered>>
    BY <1>3
<1>4. ASSUME NEW r \in Run, Begin(r) \/ Step(r) \/ Interrupt(r)
      PROVE  UNCHANGED <<status, saves, interfered>>
    BY <1>4 DEF Begin, Step, Interrupt, Preflight, PreflightFails, Prepare,
       PrepareFails, Send, Receive, RetryCall, LoseBody, GiveUp, Abandon, Reconcile,
       ReconcileFails, Verify, VerifyFails
<1> QED
    BY <1>1, <1>2, <1>3, <1>4 DEF Next, vars

\* "Nothing was saved" is said in one place, of a status that is neither.
LEMMA UnsavedNext ==
    ASSUME TypeOK, TypeOK', [Next]_vars, NEW q \in Run, RunInv(q)
    PROVE  Unsaved(q)'
<1> USE DEF TypeOK, RunInv, Unsaved
<1>1. ASSUME NEW r \in Run, Begin(r) PROVE Unsaved(q)'
    BY <1>1, ResultFields DEF Begin, Finish, Goto, Exit, Hint
<1>2. ASSUME NEW r \in Run, Preflight(r) PROVE Unsaved(q)'
    BY <1>2, ResultFields DEF Preflight, Finish, Goto, Exit, Hint, Outcome
<1>3. ASSUME NEW r \in Run, PreflightFails(r) PROVE Unsaved(q)'
    BY <1>3, ResultFields DEF PreflightFails, Finish, CallFailures, Exit, Hint
<1>4. ASSUME NEW r \in Run, Prepare(r) PROVE Unsaved(q)'
    BY <1>4 DEF Prepare, Goto
<1>5. ASSUME NEW r \in Run, PrepareFails(r) PROVE Unsaved(q)'
    BY <1>5, ResultFields DEF PrepareFails, Finish, CallFailures, Guarded, Exit,
       Hint
<1>6. ASSUME NEW r \in Run, Send(r) PROVE Unsaved(q)'
    BY <1>6 DEF Send
<1>7. ASSUME NEW r \in Run, Receive(r) PROVE Unsaved(q)'
    BY <1>7, ResultFields DEF Receive, Waiting, Finish, Goto, Exit, Hint,
       AfterWrite
<1>8. ASSUME NEW r \in Run, RetryCall(r) PROVE Unsaved(q)'
    BY <1>8 DEF RetryCall, Waiting, CanRetry
<1>9. ASSUME NEW r \in Run, LoseBody(r) PROVE Unsaved(q)'
    BY <1>9 DEF LoseBody, Waiting, Goto
<1>10. ASSUME NEW r \in Run, GiveUp(r) PROVE Unsaved(q)'
    BY <1>10, ResultFields DEF GiveUp, Waiting, Finish, Exit, Hint
<1>11. ASSUME NEW r \in Run, Abandon(r) PROVE Unsaved(q)'
    BY <1>11, ResultFields DEF Abandon, Finish, Goto, Guarded, Exit, Hint
<1>12. ASSUME NEW r \in Run, Reconcile(r) PROVE Unsaved(q)'
  <2>1. CASE q # r
    BY <1>12, <2>1 DEF Reconcile, Finish
  <2>2. CASE q = r /\ status \in {"submitted", "draft"}
    BY <1>12, <2>2, ResultFields DEF Reconcile, Finish, Outcome, Status
  <2>3. CASE q = r /\ status \notin {"submitted", "draft"}
    <3>1. pc'[q] = "done" /\ early'[q] = (answer[q] = "pending")
      BY <1>12, <2>3 DEF Reconcile, Finish
    <3>2. saves[q] = 0 \/ interfered[q]
      BY <2>3 DEF Kept
    <3>3. UNCHANGED <<answer, saves, interfered>>
      BY <1>12 DEF Reconcile
    <3> QED
      BY <3>1, <3>2, <3>3
  <2> QED
    BY <2>1, <2>2, <2>3
<1>13. ASSUME NEW r \in Run, ReconcileFails(r) PROVE Unsaved(q)'
    BY <1>13, ResultFields DEF ReconcileFails, Finish, Exit, Hint
<1>14. ASSUME NEW r \in Run, Verify(r) PROVE Unsaved(q)'
    BY <1>14, ResultFields DEF Verify, Finish, Outcome
<1>15. ASSUME NEW r \in Run, VerifyFails(r) PROVE Unsaved(q)'
    BY <1>15, ResultFields DEF VerifyFails, Finish, CallFailures, Exit, Hint
<1>16. ASSUME NEW r \in Run, Interrupt(r) PROVE Unsaved(q)'
    BY <1>16 DEF Interrupt
<1>17. ASSUME NEW r \in Run, Execute(r) PROVE Unsaved(q)'
  <2>1. CASE TurnDown(r)
    BY <1>17, <2>1 DEF Execute, TurnDown
  <2>2. CASE Accept(r) /\ ExecuteSave(r)
    BY <1>17, <2>2 DEF Execute, Accept, ExecuteSave
  <2>3. CASE Accept(r) /\ ExecuteHandIn(r)
    BY <1>17, <2>3 DEF Execute, Accept, ExecuteHandIn
  <2> QED
    BY <1>17, <2>1, <2>2, <2>3 DEF Execute, Accept
<1>18. ASSUME Environment PROVE Unsaved(q)'
    BY <1>18 DEF Environment, Browser, Teacher, Account, BrowserEdit,
       BrowserHandIn, TeacherReopens, TeacherLocks, RevokeToken, SignInAgain,
       Logout
<1>19. CASE UNCHANGED vars
    BY <1>19 DEF vars
<1> QED
    BY <1>1, <1>2, <1>3, <1>4, <1>5, <1>6, <1>7, <1>8, <1>9, <1>10, <1>11,
       <1>12, <1>13, <1>14, <1>15, <1>16, <1>17, <1>18, <1>19 DEF Next, Step

\* What was read is what is there.
LEMMA CopyNext ==
    ASSUME TypeOK, TypeOK', [Next]_vars, NEW q \in Run, RunInv(q)
    PROVE  Copy(q)'
<1> USE DEF TypeOK, RunInv, Copy
<1>1. ASSUME NEW r \in Run, Begin(r) PROVE Copy(q)'
    BY <1>1 DEF Begin, Finish, Goto
<1>2. ASSUME NEW r \in Run, Preflight(r) PROVE Copy(q)'
    BY <1>2 DEF Preflight, Finish, Goto
<1>3. ASSUME NEW r \in Run, PreflightFails(r) PROVE Copy(q)'
    BY <1>3 DEF PreflightFails, Finish
<1>4. ASSUME NEW r \in Run, Prepare(r) PROVE Copy(q)'
    BY <1>4 DEF Prepare, Goto
<1>5. ASSUME NEW r \in Run, PrepareFails(r) PROVE Copy(q)'
    BY <1>5 DEF PrepareFails, Finish
<1>6. ASSUME NEW r \in Run, Send(r) PROVE Copy(q)'
    BY <1>6 DEF Send
<1>7. ASSUME NEW r \in Run, Receive(r) PROVE Copy(q)'
    BY <1>7 DEF Receive, Waiting, Finish, Goto, AfterWrite
<1>8. ASSUME NEW r \in Run, RetryCall(r) PROVE Copy(q)'
    BY <1>8 DEF RetryCall, Waiting
<1>9. ASSUME NEW r \in Run, LoseBody(r) PROVE Copy(q)'
    BY <1>9 DEF LoseBody, Waiting, Goto
<1>10. ASSUME NEW r \in Run, GiveUp(r) PROVE Copy(q)'
    BY <1>10 DEF GiveUp, Waiting, Finish
<1>11. ASSUME NEW r \in Run, Abandon(r) PROVE Copy(q)'
    BY <1>11 DEF Abandon, Finish, Goto
<1>12. ASSUME NEW r \in Run, Reconcile(r) PROVE Copy(q)'
    BY <1>12 DEF Reconcile, Finish
<1>13. ASSUME NEW r \in Run, ReconcileFails(r) PROVE Copy(q)'
    BY <1>13 DEF ReconcileFails, Finish
<1>14. ASSUME NEW r \in Run, Verify(r) PROVE Copy(q)'
    BY <1>14 DEF Verify, Finish
<1>15. ASSUME NEW r \in Run, VerifyFails(r) PROVE Copy(q)'
    BY <1>15 DEF VerifyFails, Finish
<1>16. ASSUME NEW r \in Run, Interrupt(r) PROVE Copy(q)'
    BY <1>16 DEF Interrupt
<1>17. ASSUME NEW r \in Run, Execute(r) PROVE Copy(q)'
  <2>1. CASE TurnDown(r)
    BY <1>17, <2>1 DEF Execute, TurnDown
  <2>2. CASE Accept(r) /\ ExecuteSave(r)
    BY <1>17, <2>2 DEF Execute, Accept, ExecuteSave, SavedText
  <2>3. CASE Accept(r) /\ ExecuteHandIn(r)
    BY <1>17, <2>3 DEF Execute, Accept, ExecuteHandIn
  <2> QED
    BY <1>17, <2>1, <2>2, <2>3 DEF Execute, Accept
<1>18. ASSUME Environment PROVE Copy(q)'
    BY <1>18 DEF Environment, Browser, Teacher, Account, BrowserEdit,
       BrowserHandIn, TeacherReopens, TeacherLocks, RevokeToken, SignInAgain,
       Logout
<1>19. CASE UNCHANGED vars
    BY <1>19 DEF vars
<1> QED
    BY <1>1, <1>2, <1>3, <1>4, <1>5, <1>6, <1>7, <1>8, <1>9, <1>10, <1>11,
       <1>12, <1>13, <1>14, <1>15, <1>16, <1>17, <1>18, <1>19 DEF Next, Step

-----------------------------------------------------------------------------

LEMMA InvInit == Init => Inv
<1> SUFFICES ASSUME Init, NEW r \in Run PROVE RunInv(r)
    BY TypeInit DEF Inv
<1> USE DEF Init
<1>1. Progress(r)
    BY DEF Progress
<1>2. Licence(r)
    BY DEF Licence
<1>3. Cut(r) /\ Kept(r)
    BY DEF Cut, Kept
<1>4. Unsaved(r)
    BY ResultFields DEF Unsaved
<1>5. Copy(r)
    BY DEF Copy
<1> QED
    BY <1>1, <1>2, <1>3, <1>4, <1>5 DEF RunInv

LEMMA InvNext == Inv /\ [Next]_vars => Inv'
<1> SUFFICES ASSUME Inv, [Next]_vars PROVE Inv'
    OBVIOUS
<1>1. TypeOK /\ TypeOK'
    BY TypeNext DEF Inv
<1>2. ASSUME NEW q \in Run PROVE RunInv(q)'
    BY <1>1, ProgressNext, LicenceNext, CutNext, KeptNext, UnsavedNext,
       CopyNext DEF Inv, RunInv
<1> QED
    BY <1>1, <1>2 DEF Inv

\* The conversation with the site and the submission always agree as Inv says.
THEOREM Invariance == Spec => []Inv
<1> QED
    BY InvInit, InvNext, PTL DEF Spec

\* A dry run, read-only mode, --draft and a statement that was not accepted are
\* respected by every write, however calls are repeated, delayed or abandoned.
THEOREM AskedOnly == Spec => []OnlyWhatWasAsked
<1>1. Inv => OnlyWhatWasAsked
  <2> SUFFICES ASSUME Inv, NEW r \in Run
               PROVE  /\ asked[r].mode # "normal" => saves[r] = 0 /\ hands[r] = 0
                      /\ asked[r].draftOnly => hands[r] = 0
                      /\ assign.statement /\ ~asked[r].accept
                            => hands[r] = 0 /\ (saves[r] > 0 => asked[r].draftOnly)
      BY DEF OnlyWhatWasAsked
  <2>1. Progress(r) /\ Licence(r) /\ op[r] \in {"none", "save", "handin"}
      BY DEF Inv, RunInv, TypeOK
  <2>2. CASE op[r] = "none"
      BY <2>1, <2>2 DEF Progress
  <2>3. CASE op[r] # "none"
    <3>1. pc[r] \notin {"start", "preflight", "declined"}
        BY <2>1, <2>3 DEF Progress
    <3>2. asked[r].mode = "normal"
        BY <2>1, <3>1 DEF Licence
    <3>3. assign.statement /\ ~asked[r].accept => asked[r].draftOnly
        BY <2>1, <3>1 DEF Licence
    <3>4. asked[r].draftOnly => hands[r] = 0
        BY <2>1, <2>3 DEF Progress, Licence
    <3> QED
        BY <3>2, <3>3, <3>4
  <2> QED
      BY <2>2, <2>3
<1> QED
    BY <1>1, Invariance, PTL

\* A write that was interrupted or whose reply broke off is reported as done, on
\* the word of the status, or as ambiguous: never as a failure.
THEOREM LostStaysOpen == Spec => []LostIsNeverKnown
<1>1. Inv => LostIsNeverKnown
    BY DEF Inv, RunInv, Cut, LostIsNeverKnown
<1> QED
    BY <1>1, Invariance, PTL

\* "Nothing was saved" is true, and stays true, unless somebody else changed the
\* submission before the status was read.
THEOREM NothingWasSaved == Spec => []UnsavedIsUnsaved
<1>1. Inv => UnsavedIsUnsaved
    BY DEF Inv, RunInv, Unsaved, UnsavedIsUnsaved
<1> QED
    BY <1>1, Invariance, PTL

\* What is reported as handed in has been found handed in.
THEOREM HandedInWasRead == Spec => HandedInIsRead
<1>1. ASSUME Inv, [Next]_vars, NEW q \in Run, result'[q].handedIn, ~result[q].handedIn
      PROVE  status = "submitted"
  <2> USE DEF Inv, TypeOK
  <2>1. ASSUME NEW r \in Run, Begin(r) \/ Step(r) \/ Interrupt(r) PROVE status = "submitted"
    <3>1. ASSUME NEW o \in Outcome, NEW s \in Status \cup {"none"},
                 result' = [result EXCEPT ![r] = Success(o, s)]
          PROVE  s = "submitted"
        BY <1>1, <3>1, ResultFields
    <3>2. ASSUME NEW e \in Exit, NEW h \in Hint,
                 result' = [result EXCEPT ![r] = Failure(e, h)]
          PROVE  FALSE
        BY <1>1, <3>2, ResultFields
    <3>3. CASE Preflight(r)
        BY <1>1, <3>1, <3>2, <3>3 DEF Preflight, Finish, Goto, Status, Outcome, Exit, Hint
    <3>4. CASE Reconcile(r) \/ Verify(r)
        BY <1>1, <3>1, <3>2, <3>4 DEF Reconcile, Verify, Finish, Outcome, Exit, Hint
    <3>5. CASE Begin(r) \/ Prepare(r) \/ Send(r) \/ Receive(r) \/ RetryCall(r)
        BY <1>1, <3>2, <3>5
        DEF Begin, Prepare, Send, Receive, RetryCall, Finish, Goto, Exit, Hint
    <3>6. CASE LoseBody(r) \/ GiveUp(r) \/ Abandon(r) \/ Interrupt(r)
        BY <1>1, <3>2, <3>6
        DEF LoseBody, GiveUp, Abandon, Interrupt, Finish, Goto, Exit, Hint
    <3>7. CASE PreflightFails(r) \/ PrepareFails(r) \/ ReconcileFails(r) \/ VerifyFails(r)
        BY <1>1, <3>2, <3>7
        DEF PreflightFails, PrepareFails, ReconcileFails, VerifyFails, CallFailures,
            Guarded, Finish, Exit, Hint
    <3> QED
        BY <2>1, <3>3, <3>4, <3>5, <3>6, <3>7 DEF Step
  <2>2. CASE UNCHANGED result
      BY <1>1, <2>2
  <2>3. ASSUME NEW r \in Run, Execute(r) PROVE UNCHANGED result
      BY <2>3 DEF Execute
  <2>4. ASSUME Environment PROVE UNCHANGED result
      BY <2>4 DEF Environment, Browser, Teacher, Account, BrowserEdit, BrowserHandIn,
         TeacherReopens, TeacherLocks, RevokeToken, SignInAgain, Logout
  <2> QED
      BY <1>1, <2>1, <2>2, <2>3, <2>4 DEF Next, vars
<1>2. Inv /\ [Next]_vars => [\A r \in Run : result'[r].handedIn /\ ~result[r].handedIn
                                    => status = "submitted"]_vars
    BY <1>1
<1> QED
    BY <1>2, Invariance, PTL DEF Spec, HandedInIsRead

\* A save sends back the online text it has read, so it erases nothing but what
\* somebody has written since.
THEOREM TextKept == Spec => TextLostOnlyToEdit
<1>1. ASSUME Inv, [Next]_vars, NEW q \in Run, saves'[q] > saves[q], text' # text
      PROVE  edited[q]
  <2> USE DEF Inv, TypeOK
  <2>1. ASSUME NEW r \in Run, Execute(r) PROVE edited[q]
    <3>1. q = r /\ op[r] = "save" /\ text' = SavedText(r)
        BY <1>1, <2>1 DEF Execute, TurnDown, Accept, ExecuteSave, ExecuteHandIn
    <3>2. pc[r] \notin {"start", "preflight", "declined"}
        BY <1>1, <3>1 DEF RunInv, Progress
    <3> QED
        BY <1>1, <3>1, <3>2 DEF RunInv, Copy, SavedText
  <2>2. CASE UNCHANGED saves
      BY <1>1, <2>2
  <2>3. ASSUME NEW r \in Run, Begin(r) \/ Step(r) \/ Interrupt(r) PROVE UNCHANGED saves
      BY <2>3 DEF Begin, Step, Interrupt, Preflight, PreflightFails, Prepare,
         PrepareFails, Send, Receive, RetryCall, LoseBody, GiveUp, Abandon, Reconcile,
         ReconcileFails, Verify, VerifyFails
  <2>4. ASSUME Environment PROVE UNCHANGED saves
      BY <2>4 DEF Environment, Browser, Teacher, Account, BrowserEdit, BrowserHandIn,
         TeacherReopens, TeacherLocks, RevokeToken, SignInAgain, Logout
  <2> QED
      BY <1>1, <2>1, <2>2, <2>3, <2>4 DEF Next, vars
<1>2. Inv /\ [Next]_vars => [\A r \in Run : saves'[r] > saves[r] /\ text' # text
                                    => edited[r]]_vars
    BY <1>1
<1> QED
    BY <1>2, Invariance, PTL DEF Spec, TextLostOnlyToEdit

-----------------------------------------------------------------------------
(* The command keeps the contract.                                         *)

\* A run whose last answer is known has saved at most once, and handed in at most
\* once and only after that.
LEMMA Effects ==
    ASSUME TypeOK, NEW r \in Run, Progress(r)
    PROVE  /\ saves[r] = 0 => hands[r] = 0 /\ Effect(r) = "none"
           /\ saves[r] = 1 /\ hands[r] = 0 => Effect(r) = "saved"
           /\ saves[r] = 1 /\ hands[r] = 1 => Effect(r) = "handedIn"
BY DEF TypeOK, Progress, Effect

\* What the site does for a run is a step of the contract for that run.
LEMMA ExecuteKeeps ==
    ASSUME Inv, Inv', NEW r \in Run, Execute(r)
    PROVE  [Contract!Next]_(Contract!vars)
<1> USE DEF Inv, RunInv
<1>1. [q \in Run |-> Told(q)]' = [q \in Run |-> Told(q)]
    BY DEF Execute, Told
<1>2. \A q \in Run : q # r => saves'[q] = saves[q] /\ hands'[q] = hands[q]
    BY DEF Execute, TurnDown, Accept, ExecuteSave, ExecuteHandIn, TypeOK
<1>3. \A q \in Run : q # r => Effect(q)' = Effect(q)
    BY <1>2 DEF Effect
<1>4. CASE TurnDown(r)
    BY <1>1, <1>4 DEF TurnDown, Effect, Contract!vars
<1>5. CASE Accept(r) /\ ExecuteSave(r)
  <2>1. saves[r] = 0 /\ saves'[r] = 1 /\ hands'[r] = 0
      BY <1>5 DEF Execute, Accept, ExecuteSave, Progress, TypeOK
  <2>2. Effect(r) = "none" /\ Effect(r)' = "saved"
      BY <2>1, Effects DEF Effect
  <2>3. Told(r) # "declined"
      BY <1>5 DEF Accept, ExecuteSave, Progress, Told
  <2> QED
      BY <1>1, <1>3, <2>2, <2>3 DEF Contract!Next, Contract!Save
<1>6. CASE Accept(r) /\ ExecuteHandIn(r)
  <2>1. saves[r] = 1 /\ hands[r] = 0 /\ saves'[r] = 1 /\ hands'[r] = 1
      BY <1>6 DEF Execute, Accept, ExecuteHandIn, Progress, TypeOK
  <2>2. Effect(r) = "saved" /\ Effect(r)' = "handedIn"
      BY <2>1 DEF Effect
  <2> QED
      BY <1>1, <1>3, <2>2 DEF Contract!Next, Contract!HandIn
<1> QED
    BY <1>4, <1>5, <1>6 DEF Execute, Accept

\* A step of the command itself reports once, and declines only when it has done
\* nothing.
LEMMA CommandKeeps ==
    ASSUME Inv, NEW r \in Run, Begin(r) \/ Step(r) \/ Interrupt(r)
    PROVE  [Contract!Next]_(Contract!vars)
<1> USE DEF Inv, TypeOK
<1>1. [q \in Run |-> Effect(q)]' = [q \in Run |-> Effect(q)]
    BY DEF Effect, Begin, Step, Interrupt, Preflight, PreflightFails, Prepare,
       PrepareFails, Send, Receive, RetryCall, LoseBody, GiveUp, Abandon, Reconcile,
       ReconcileFails, Verify, VerifyFails
<1>2. CASE UNCHANGED pc
    BY <1>1, <1>2 DEF Told, Contract!vars
<1>3. ASSUME NEW at \in Calls \cup Ended, pc[r] \notin Ended, pc' = [pc EXCEPT ![r] = at],
             at = "declined" => pc[r] \in {"start", "preflight"}
      PROVE  [Contract!Next]_(Contract!vars)
  <2>1. \A q \in Run : q # r => Told(q)' = Told(q)
      BY <1>3 DEF Told
  <2>2. Told(r) = "nothing"
      BY <1>3 DEF Told, Ended
  <2>3. CASE at = "declined"
    <3>1. Told(r)' = "declined"
        BY <1>3, <2>3 DEF Told
    <3>2. Effect(r) = "none"
        BY <1>3, <2>3 DEF RunInv, Progress, Effect
    <3> QED
        BY <1>1, <2>1, <2>2, <3>1, <3>2 DEF Contract!Next, Contract!Decline
  <2>4. CASE at = "done"
    <3>1. Told(r)' = "ended"
        BY <1>3, <2>4 DEF Told
    <3> QED
        BY <1>1, <2>1, <2>2, <3>1 DEF Contract!Next, Contract!End
  <2>5. CASE at \notin Ended
    <3>1. Told(r)' = "nothing"
        BY <1>3, <2>5 DEF Told, Ended
    <3> QED
        BY <1>1, <2>1, <2>2, <3>1 DEF Contract!vars
  <2> QED
      BY <2>3, <2>4, <2>5 DEF Ended
<1>4. CASE Begin(r) \/ Preflight(r) \/ PreflightFails(r)
    BY <1>3, <1>4 DEF Begin, Preflight, PreflightFails, Finish, Goto, Calls, Ended
<1>5. CASE Prepare(r) \/ PrepareFails(r)
    BY <1>3, <1>5 DEF Prepare, PrepareFails, Finish, Goto, Calls, Ended
<1>6. CASE Send(r) \/ RetryCall(r) \/ Interrupt(r)
    BY <1>2, <1>6 DEF Send, RetryCall, Interrupt
<1>7. CASE Receive(r) \/ LoseBody(r) \/ GiveUp(r) \/ Abandon(r)
    BY <1>3, <1>7 DEF Receive, LoseBody, GiveUp, Abandon, Waiting, AfterWrite, Finish,
       Goto, Calls, Ended
<1>8. CASE Reconcile(r) \/ ReconcileFails(r) \/ Verify(r) \/ VerifyFails(r)
    BY <1>3, <1>8 DEF Reconcile, ReconcileFails, Verify, VerifyFails, Finish, Calls,
       Ended
<1> QED
    BY <1>4, <1>5, <1>6, <1>7, <1>8 DEF Step

\* Submission implements SubmitContract: for any number of runs, each saves at
\* most once and hands in at most once what it saved, and what it said of a
\* refusal or a plan stays true.
THEOREM Refinement == Spec => KeepsContract
<1>1. Init => Contract!Init
    BY DEF Init, Contract!Init, Effect, Told
<1>2. Inv /\ Inv' /\ [Next]_vars => [Contract!Next]_(Contract!vars)
  <2> SUFFICES ASSUME Inv, Inv', [Next]_vars PROVE [Contract!Next]_(Contract!vars)
      OBVIOUS
  <2>1. CASE UNCHANGED <<pc, saves, hands>>
      BY <2>1 DEF Contract!vars, Effect, Told
  <2>2. ASSUME Environment PROVE UNCHANGED <<pc, saves, hands>>
      BY <2>2 DEF Environment, Browser, Teacher, Account, BrowserEdit, BrowserHandIn,
         TeacherReopens, TeacherLocks, RevokeToken, SignInAgain, Logout
  <2> QED
      BY <2>1, <2>2, ExecuteKeeps, CommandKeeps DEF Next, vars
<1> QED
    BY <1>1, <1>2, Invariance, PTL DEF Spec, KeepsContract, Contract!Spec

=============================================================================
