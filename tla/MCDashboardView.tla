-------------------------- MODULE MCDashboardView --------------------------
(* Two tabs with a filter in common that one of them starts elsewhere, one *)
(* filter of the first alone; a component of the first and one of neither. *)
EXTENDS DashboardView, TLC

CONSTANTS
    dashboard, detail, region, product, all, eu, wide, stale, many,
    row, zoomed, plain, chart, gone

TabOrderDef == <<dashboard, detail>>
OfferedDef == region :> {all, eu, wide} @@ product :> {all, many}
StandardDef == region :> all @@ product :> all
TabDefaultDef == dashboard :> NoMap @@ detail :> (region :> eu)
ScopeDef == dashboard :> {region, product} @@ detail :> {region}
FocusOfDef == dashboard :> {} @@ detail :> {row}
HomeDef == chart :> dashboard @@ gone :> None

LinksDef ==
    {[url |-> Bare, component |-> None], [url |-> Bare, component |-> gone],
     [url |-> [Bare EXCEPT !.tab = detail], component |-> chart],
     [url |-> [Bare EXCEPT !.complete = TRUE, !.tab = detail,
                           !.tabViews = detail :> [filters |-> region :> all, focus |-> {row}],
                           !.filters = region :> all], component |-> None]}

BareDef == {[url |-> Bare, component |-> None]}

Fresh == [filters |-> NoMap, tabViews |-> NoMap]
Returning ==
    [filters |-> region :> eu @@ product :> stale,
     tabViews |-> dashboard :> [filters |-> region :> eu @@ product :> stale, focus |-> {}]
               @@ detail :> [filters |-> region :> all, focus |-> {row}]]
ReadersDef == {Fresh, Returning}
FreshDef == {Fresh}

PayloadsDef == {[filters |-> region :> all @@ product :> all, focus |-> {row}]}
=============================================================================
