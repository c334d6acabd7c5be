-------------------------- MODULE SnapshotContract --------------------------
(***************************************************************************)
(* What a hosted report promises of its data, whatever tables hold it: one *)
(* storage holds one snapshot, the reviewed seed with the owner's edits on *)
(* top.                                                                    *)
(*                                                                         *)
(* A request whose deployment carries another seed replaces the whole      *)
(* snapshot, but only the generation it has read, and with a generation    *)
(* that was never there before: a seed that is deployed again comes back   *)
(* without what was once on top of it.  Nothing keeps the request of an    *)
(* older deployment, which reads the newer one's generation, from putting  *)
(* its own seed in its place.                                              *)
(*                                                                         *)
(* An edit that was asked to replace the rows of some queries replaces     *)
(* those of all of them and of no others, in one step and once, and stamps *)
(* the snapshot; or it is turned down and replaces none.                   *)
(***************************************************************************)
EXTENDS Naturals

CONSTANTS Query,      \* the reviewed queries of the report
          Request,    \* what reads the snapshot, edits it or brings a seed
          Seed,       \* the reviewed seeds that were ever deployed
          None

VARIABLES seed,       \* the seed the storage serves, None before the first
          epoch,      \* the generation of the snapshot, new with every seed
          rows,       \* the edit each query's rows come from, None: the seed
          stamp,      \* the edit that wrote generatedAt, None: the seed
          asked,      \* asked[e]: the queries whose rows e is to replace
          base,       \* base[e]: the generation e has read and may replace
          applied     \* the edits published so far

data == <<seed, epoch, rows, stamp, applied>>
cvars == <<data, asked, base>>

CInit ==
  /\ seed = None
  /\ epoch = 0
  /\ rows = [q \in Query |-> None]
  /\ stamp = None
  /\ asked = [e \in Request |-> {}]
  /\ base = [e \in Request |-> 0]
  /\ applied = {}

(* An edit of the queries in qs arrives.                                   *)
CArrive(e, qs) ==
  /\ e \notin applied
  /\ asked[e] = {}
  /\ asked' = [asked EXCEPT ![e] = qs]
  /\ UNCHANGED <<data, base>>

(* It is turned down.                                                      *)
CRefuse(e) ==
  /\ e \notin applied
  /\ asked' = [asked EXCEPT ![e] = {}]
  /\ base' = [base EXCEPT ![e] = 0]
  /\ UNCHANGED data

(* A request reads the generation it may replace, or goes on without.      *)
CLook(e) ==
  /\ \E g \in {0, epoch} : base' = [base EXCEPT ![e] = g]
  /\ UNCHANGED <<data, asked>>

(* Publish another seed: everything on top of the old one goes.            *)
CActivate(e) ==
  /\ base[e] = epoch
  /\ seed' \in Seed \ {seed}
  /\ epoch' > epoch
  /\ rows' = [q \in Query |-> None]
  /\ stamp' = None
  /\ base' = [base EXCEPT ![e] = 0]
  /\ UNCHANGED <<asked, applied>>

(* Publish an edit: all that it was asked for.                             *)
CEdit(e) ==
  /\ seed # None
  /\ e \notin applied
  /\ asked[e] # {}
  /\ rows' = [q \in Query |-> IF q \in asked[e] THEN e ELSE rows[q]]
  /\ stamp' = e
  /\ applied' = applied \cup {e}
  /\ UNCHANGED <<seed, epoch, asked, base>>

CNext == \E e \in Request :
  \/ \E qs \in (SUBSET Query) \ {{}} : CArrive(e, qs)
  \/ CRefuse(e) \/ CLook(e) \/ CActivate(e) \/ CEdit(e)

CSpec == CInit /\ [][CNext]_cvars
=============================================================================
