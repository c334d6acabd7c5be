--------------------------- MODULE MCQueryLoading ---------------------------
(* Three queries and two slots; two parts of the page.        *)
EXTENDS QueryLoading, TLC

CONSTANTS sales, costs, staff, upper, lower, tool

OrderDef == <<sales, costs, staff>>
BoundaryDef == {upper, lower}
UpdaterDef == {tool}
BatchDef == {{sales, costs}}
WantsDef == upper :> {sales, costs} @@ lower :> {staff}
=============================================================================
