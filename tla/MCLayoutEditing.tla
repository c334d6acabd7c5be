-------------------------- MODULE MCLayoutEditing --------------------------
(* Two owners and three blocks on a canvas of four columns.                *)
EXTENDS LayoutEditing, TLC

CONSTANTS ann, bob, chart, table, note

MCOwners == {ann, bob}
MCBlocks == {chart, table, note}
MCMinimum == chart :> 2 @@ table :> 1 @@ note :> 2
MCAuthoredSpan == chart :> 3 @@ table :> 1 @@ note :> 4
MCAuthoredRows == << [id |-> <<"top", 0>>, items |-> <<chart, table>>],
                     [id |-> <<"end", 0>>, items |-> <<note>>] >>

Symmetry == Permutations(MCOwners)
=============================================================================
