---------------------------- MODULE MCSubmission ----------------------------
(***************************************************************************)
(* Submission on small instances.                                          *)
(***************************************************************************)
EXTENDS Submission

KeepsDrafts(statement, onlinetext) ==
    [drafts |-> TRUE, statement |-> statement, onlinetext |-> onlinetext,
     takesFiles |-> TRUE]
SavingSubmits(onlinetext) ==
    [drafts |-> FALSE, statement |-> FALSE, onlinetext |-> onlinetext,
     takesFiles |-> TRUE]

Command(mode, draftOnly, accept) ==
    [mode |-> mode, draftOnly |-> draftOnly, accept |-> accept, served |-> FALSE]
Served(mode, draftOnly, accept) ==
    [mode |-> mode, draftOnly |-> draftOnly, accept |-> accept, served |-> TRUE]

\* One command: with and without a hand-in of its own, a statement, online text.
SoloSettings == {KeepsDrafts(TRUE, TRUE), SavingSubmits(FALSE)}
SoloRequests == {Served("normal", FALSE, TRUE), Served("normal", TRUE, FALSE),
                 Command("normal", FALSE, FALSE), Command("dryRun", FALSE, FALSE),
                 Command("readOnly", FALSE, TRUE)}

\* Two runs for the same assignment, of two MCP servers: one server takes its
\* calls one at a time.
PairSettings == {KeepsDrafts(FALSE, TRUE), SavingSubmits(TRUE)}
PairRequests == {Served("normal", FALSE, FALSE)}
=============================================================================
