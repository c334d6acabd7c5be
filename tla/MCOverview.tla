----------------------------- MODULE MCOverview -----------------------------
(***************************************************************************)
(* Overview on a site where the numbers of the two routes overlap.         *)
(***************************************************************************)
EXTENDS Overview

\* Each assignment's course module has the instance number of the next one.
Overlapping == [r \in Route |-> [i \in Item |-> IF r = "ws" THEN i ELSE i + 1]]

\* At once, as long as a site is given, and longer than a site is given.
Asked == {0, 2, 9}
=============================================================================
