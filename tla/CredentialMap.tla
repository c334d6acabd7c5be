---------------------------- MODULE CredentialMap ----------------------------
(***************************************************************************)
(* What the credential store promises: a map from an account and a kind of *)
(* secret to that secret, of which one entry changes at a time, and only   *)
(* for the account a command is working on.  Files, temporary files, their *)
(* names and the processes that die over them are left out: no crash shows *)
(* in this specification at all, except that a command may stop anywhere.  *)
(***************************************************************************)

CONSTANTS Id, Kind, Value

VARIABLES
    store, \* store[i][k]: the secret of kind k of account i, if any
    known, \* the accounts the configuration names
    busy   \* the accounts commands are working on

vars == <<store, known, busy>>

Init ==
    /\ store \in [Id -> [Kind -> Value]]
    /\ known \in SUBSET Id
    /\ busy = {}

Start(i) ==
    /\ busy = {}
    /\ busy' = {i}
    /\ UNCHANGED <<store, known>>

Stop(i) ==
    /\ busy' = busy \ {i}
    /\ UNCHANGED <<store, known>>

Put(i, k, v) ==
    /\ i \in busy
    /\ store' = [store EXCEPT ![i][k] = v]
    /\ busy' \in {busy, busy \ {i}}
    /\ UNCHANGED known

\* The configuration takes the account in, or drops it.
Enter(i) ==
    /\ i \in busy
    /\ known' \in {known \cup {i}, known \ {i}}
    /\ busy' \in {busy, busy \ {i}}
    /\ UNCHANGED store

Next == \E i \in Id : \/ Start(i) \/ Stop(i) \/ Enter(i)
                      \/ \E k \in Kind, v \in Value : Put(i, k, v)

Spec == Init /\ [][Next]_vars

=============================================================================
