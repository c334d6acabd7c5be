--------------------------- MODULE SubmitContract ---------------------------
(***************************************************************************)
(* What `moodle assignment submit` promises of one student's work, with    *)
(* the transport, the token, the draft areas and the read-backs left out.  *)
(*                                                                         *)
(* Each invocation may change the submission at most twice, once by saving *)
(* and once by handing in what it saved, and it tells its caller exactly   *)
(* once how it ended.  An invocation that said it refused, or that it only *)
(* planned, has changed nothing and never will.  One that ended otherwise  *)
(* may still have a request on its way to the site: the contract allows an *)
(* effect after the report, which is what the ambiguous outcome is for.    *)
(***************************************************************************)

CONSTANT Run

VARIABLES
    effect, \* effect[r]: how far r has taken the submission
    told    \* told[r]: what r has said of its end

vars == <<effect, told>>

Effect == {"none", "saved", "handedIn"}
Report == {"nothing", "declined", "ended"}

Init ==
    /\ effect = [r \in Run |-> "none"]
    /\ told = [r \in Run |-> "nothing"]

Save(r) ==
    /\ effect[r] = "none"
    /\ told[r] # "declined"
    /\ effect' = [effect EXCEPT ![r] = "saved"]
    /\ UNCHANGED told

HandIn(r) ==
    /\ effect[r] = "saved"
    /\ effect' = [effect EXCEPT ![r] = "handedIn"]
    /\ UNCHANGED told

\* A refusal or a dry run: only of a run that has changed nothing.
Decline(r) ==
    /\ told[r] = "nothing"
    /\ effect[r] = "none"
    /\ told' = [told EXCEPT ![r] = "declined"]
    /\ UNCHANGED effect

End(r) ==
    /\ told[r] = "nothing"
    /\ told' = [told EXCEPT ![r] = "ended"]
    /\ UNCHANGED effect

Next == \E r \in Run : Save(r) \/ HandIn(r) \/ Decline(r) \/ End(r)

Spec == Init /\ [][Next]_vars

=============================================================================
