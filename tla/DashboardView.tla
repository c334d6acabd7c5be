---------------------------- MODULE DashboardView ----------------------------
(***************************************************************************)
(* What a reader of a dashboard with tabs has chosen to see, and the four  *)
(* places that hold it: the state of the page, the address, the entries of *)
(* the browser's history and the presentation remembered for this reader.  *)
(* DataAppShell keeps them together by two effects that run after every    *)
(* change; dashboard-url-state.js and dashboard-view-state.js say what an  *)
(* address contains and what is read back from it.                         *)
(*                                                                         *)
(* A handler runs with the effects its changes cause, and is one action.   *)
(* The search for a linked component is a chain of renders that waits for  *)
(* data, so that the reader acts between its steps. A value of a filter is *)
(* an atom; sections and charts, which belong to the page and not to a tab,*)
(* are one choice.                                                         *)
(***************************************************************************)
EXTENDS Naturals, Sequences, Functions

CONSTANTS
    TabOrder,    \* the tabs, as they stand
    Dashboard,   \* the tab id a search tries first
    Filter, Offered,     \* filters, and the choices reviewed for each
    Standard,    \* Standard[f]: the default of a filter
    TabDefault,  \* TabDefault[t]: the defaults tab t declares for some filters
    Scope,       \* filterIds: the filters of a tab
    Private,     \* filters declared shareInUrl: false
    Focus, FocusOf,      \* what a view may focus on, and what a tab declares
    Cuts, NoCuts,  \* sections and charts
    Huge,        \* selections too large to be read back, or to be in an address
    Large,       \* selections of which an address has room for one
    Component, Home,     \* linked components, and the tab each is on, if any
    Links,       \* addresses a reader is given
    Readers,     \* presentations remembered by readers
    Payloads,    \* what a page asks to explore with
    None,
    MaxActs, MaxEntries  \* bounds

Tab == Range(TabOrder)
NoMap == <<>>

Value == UNION {Offered[f] : f \in Filter}

ASSUME ViewAssumption ==
    /\ TabOrder \in Seq(Tab) /\ IsInjective(TabOrder) /\ TabOrder # <<>>
    /\ Scope \in [Tab -> SUBSET Filter] /\ FocusOf \in [Tab -> SUBSET Focus]
    /\ \A f \in Filter : Standard[f] \in Offered[f] \ Huge
    /\ \A t \in Tab : \A f \in DOMAIN TabDefault[t] : TabDefault[t][f] \in Offered[f] \ Huge
    /\ NoCuts \in Cuts

\* What an address and a presentation may name once they are parsed.
ASSUME InputAssumption ==
    /\ \A link \in Links :
          /\ link.component \in Component \cup {None}
          /\ link.url.tab \in Tab \cup {None} /\ link.url.complete \in BOOLEAN
          /\ DOMAIN link.url.tabViews \subseteq Tab /\ link.url.cuts \in Cuts
    /\ \A r \in Readers : DOMAIN r.tabViews \subseteq Tab

ASSUME BoundAssumption == MaxActs \in Nat /\ MaxEntries \in Nat \ {0}

\* None is nothing else.
ASSUME NoneAssumption ==
    /\ None \notin Tab \cup Component
    /\ None \notin [tab : Tab, view : [filters : [Filter -> Value], focus : SUBSET Focus],
                    returnTo : BOOLEAN]

VARIABLES
    page,        \* activeTabId, filters, viewFocus, drillReturn, tabViews, chart states
    entries,     \* window.history: address, state, linked component
    position,    \* the present entry
    remembered,  \* the personal presentation in the browser's storage
    seek,        \* the linked component and the search for it
    browsed,     \* what the reader last chose on each tab, without exploring
    acts

vars == <<page, entries, position, remembered, seek, browsed, acts>>

At(map, key, other) == IF key \in DOMAIN map THEN map[key] ELSE other
With(map, key, value) ==
    [k \in DOMAIN map \cup {key} |-> IF k = key THEN value ELSE map[k]]

-----------------------------------------------------------------------------
(* Views and addresses.                                                    *)

Default(t, f) == At(TabDefault[t], f, Standard[f])
Blank == [filters |-> NoMap, focus |-> {}]
Bare == [complete |-> FALSE, tab |-> None, filters |-> NoMap, focus |-> {},
         tabViews |-> NoMap, cuts |-> NoCuts]

HasViewState(url) == url.complete \/ url.tab # None \/ DOMAIN url.filters # {}

\* validFilterValue: choices the reviewed rows offer, and not too many.
Valid(f, value) == value \in Offered[f] /\ value \notin Huge

\* A complete address settles every filter of the tab, also those it does not name.
Resolve(t, saved, url, f) ==
    At(IF HasViewState(url) /\ (url.complete \/ f \notin Private)
         THEN url.filters ELSE saved.filters,
       f, Default(t, f))

\* Mutation: choices that are not reviewed any more are taken.
ViewUnchecked(t, saved, url) ==
    [filters |-> [f \in Scope[t] |-> Resolve(t, saved, url, f)],
     focus |-> (IF url.complete THEN url.focus ELSE saved.focus) \cap FocusOf[t]]

View(t, saved, url) ==
    [filters |-> [f \in Scope[t] |->
        LET value == Resolve(t, saved, url, f)
        IN  IF Valid(f, value) THEN value ELSE Default(t, f)],
     focus |-> (IF url.complete THEN url.focus ELSE saved.focus) \cap FocusOf[t]]

Drill(t, saved, payload) ==
    LET base == View(t, saved, Bare).filters
    IN  View(t, [filters |-> [f \in Scope[t] |-> At(payload.filters, f, base[f])],
                 focus |-> payload.focus], Bare)

\* replaceFilters: what a view does not say falls back to the default.
Replace(view) == [f \in Filter |-> At(view.filters, f, Standard[f])]

ViewOf(p) == [filters |-> p.filters, focus |-> p.focus]

\* Mutation: a view that is all defaults is left out of the address.
SerializeUnlessDefault(p) ==
    LET named == {f \in Scope[p.tab] : p.filters[f] # Default(p.tab, f)}
    IN  [complete |-> named # {} \/ p.focus # {}, tab |-> p.tab,
         filters |-> Restrict(p.filters, named),
         focus |-> p.focus, tabViews |-> With(p.tabViews, p.tab, ViewOf(p)),
         cuts |-> p.cuts]

Serialize(p) ==
    [complete |-> TRUE, tab |-> p.tab,
     filters |-> Restrict(p.filters,
         {f \in Scope[p.tab] : p.filters[f] # Default(p.tab, f) /\ Valid(f, p.filters[f])}),
     focus |-> p.focus, tabViews |-> With(p.tabViews, p.tab, ViewOf(p)),
     cuts |-> p.cuts]

\* Otherwise dashboardUrlWithState throws: every filter has a parameter of its own,
\* the views of the tabs share one.
Fits(url) ==
    LET Slots(values) == UNION {{<<t, f>> : f \in {g \in DOMAIN url.tabViews[t].filters :
                                        url.tabViews[t].filters[g] \in values}}
                                : t \in DOMAIN url.tabViews}
    IN  /\ \A f \in DOMAIN url.filters : url.filters[f] \notin Huge
        /\ Slots(Huge) = {}
        /\ \A s1, s2 \in Slots(Large) : s1 = s2

-----------------------------------------------------------------------------
(* A page, its entry and what is remembered, once the effects have run.    *)

Shown(p) ==
    [tab |-> p.tab, filters |-> Restrict(p.filters, Scope[p.tab]),
     focus |-> p.focus \cap FocusOf[p.tab], cuts |-> p.cuts]

\* What a tab shows that is chosen from the bar.
Found(p, t) == View(t, At(p.tabViews, t, Blank), Bare)

\* What a tab shows when it is browsed: the present one as it is, unless it is explored.
Now(p) == [filters |-> Shown(p).filters, focus |-> Shown(p).focus]
BrowsedOn(p, t) == IF t = p.tab /\ ~p.drill THEN Now(p) ELSE Found(p, t)

\* Mutation: an explored view is remembered like any other.
RememberExplored(p) == [p EXCEPT !.tabViews = With(@, p.tab, ViewOf(p))]

\* A view that was explored is not remembered.
Remember(p) ==
    IF p.drill THEN p ELSE [p EXCEPT !.tabViews = With(@, p.tab, ViewOf(p))]

\* dataAppView, which both effects and navigateDashboardTab leave in the entry.
StateOf(p) == [tab |-> p.tab, view |-> ViewOf(p), returnTo |-> p.drill]

\* The address is replaced unless it does not fit; what it says is kept with it.
Write(entry, p) ==
    LET url == Serialize(p)
        says == [shown |-> Shown(p), browsed |-> [t \in Tab |-> BrowsedOn(p, t)]]
    IN  IF Fits(url)
          THEN [entry EXCEPT !.url = url, !.state = StateOf(p), !.says = says]
          ELSE [entry EXCEPT !.state = StateOf(p)]

Entry(url, link) == [url |-> url, state |-> None, link |-> link, says |-> None]

\* writeLocalPresentation writes nothing beyond 128,000 characters, a limit that the
\* rest of the presentation shares, and that large selections may or may not exceed.
Light(p) ==
    \A map \in {p.filters} \cup {p.tabViews[t].filters : t \in DOMAIN p.tabViews} :
        \A f \in DOMAIN map : map[f] \notin Huge \cup Large
Saved(p, before) ==
    {[filters |-> p.filters, tabViews |-> p.tabViews]} \cup (IF Light(p) THEN {} ELSE {before})

Commit(p, past, i, chosen) ==
    \E q \in {Remember(p)} :
        /\ page' = q
        /\ position' = i
        /\ entries' = [past EXCEPT ![i] = Write(@, q)]
        /\ remembered' \in Saved(q, remembered)
        /\ browsed' = chosen

Seek(link) == [link |-> link, handled |-> FALSE, tried |-> {}, origin |-> None]

-----------------------------------------------------------------------------
(* Opening, returning to an entry, reloading.                              *)

\* registerDashboardTabs, with the state the entry holds and the presentation saved.
Window(url, state, saved) ==
    LET t == IF url.tab = None THEN TabOrder[1] ELSE url.tab
        restored == state # None /\ state.tab = t
        view == View(t,
            IF url.complete THEN At(url.tabViews, t, Blank)
            ELSE IF restored THEN state.view
            ELSE At(saved.tabViews, t, [filters |-> saved.filters, focus |-> {}]), url)
    IN  [tab |-> t, filters |-> Replace(view), focus |-> view.focus,
         drill |-> restored /\ state.returnTo,
         tabViews |-> IF url.complete THEN url.tabViews ELSE saved.tabViews,
         cuts |-> url.cuts]

\* Mutation: the choices that belong to no tab are left as they are.
RestoredWithCuts(entry) ==
    [Window(entry.url, entry.state, [filters |-> page.filters, tabViews |-> page.tabViews])
        EXCEPT !.cuts = page.cuts]

\* restoreDashboardUrlState
Restored(entry) ==
    LET t == IF entry.url.tab = None THEN TabOrder[1] ELSE entry.url.tab
        stored == entry.state # None /\ entry.state.tab = t
        view == View(t,
            IF entry.url.complete THEN At(entry.url.tabViews, t, Blank)
            ELSE IF stored THEN entry.state.view
            ELSE At(page.tabViews, t, [filters |-> page.filters, focus |-> {}]), entry.url)
    IN  [tab |-> t, filters |-> Replace(view), focus |-> view.focus,
         drill |-> stored /\ entry.state.returnTo,
         tabViews |-> IF entry.url.complete THEN entry.url.tabViews ELSE page.tabViews,
         cuts |-> IF entry.url.complete THEN entry.url.cuts ELSE page.cuts]

Back(i) ==
    /\ i \in {position - 1, position + 1} \cap DOMAIN entries
    /\ Commit(Restored(entries[i]), entries, i, browsed)
    /\ seek' = Seek(entries[i].link)

Reload ==
    LET entry == entries[position]
    IN  /\ Commit(Window(entry.url, entry.state, remembered), entries, position, browsed)
        /\ seek' = Seek(entry.link)

\* A complete link chooses for every tab, another at most for the one it names.
Given(link, p, before) ==
    IF link.url.complete THEN [t \in Tab |-> BrowsedOn(p, t)]
    ELSE IF HasViewState(link.url) THEN [before EXCEPT ![p.tab] = Now(p)]
    ELSE before

Open(link) ==
    /\ \E p \in {Window(link.url, None, remembered)} :
         Commit(p, <<Entry(link.url, link.component)>>, 1, Given(link, p, browsed))
    /\ seek' = Seek(link.component)

Init ==
    \E link \in Links, r \in Readers :
      \E q \in {Remember(Window(link.url, None, r))} :
        /\ page = q
        /\ entries = <<Write(Entry(link.url, link.component), q)>>
        /\ position = 1
        /\ remembered \in Saved(q, r)
        /\ seek = Seek(link.component)
        /\ browsed = Given(link, q, [t \in Tab |-> Found(r, t)])
        /\ acts = 0

-----------------------------------------------------------------------------
(* What the reader does.                                                   *)

\* A selection on the page as it is; on a tab explored it is not remembered.
Choose(p) ==
    /\ p # page
    /\ Commit(p, entries, position,
              IF p.drill THEN browsed ELSE [browsed EXCEPT ![p.tab] = Now(p)])
    /\ UNCHANGED seek

SetFilter(f, value) ==
    /\ f \in Scope[page.tab]
    /\ Choose([page EXCEPT !.filters[f] = value])

SetDashboardFocus(focus) ==
    Choose([page EXCEPT !.focus = focus \cap FocusOf[page.tab]])

SetCuts(cut) == Choose([page EXCEPT !.cuts = cut])

\* A new entry without the component of the old, whatever came after it gone. Its
\* address has the view that is left, also one explored, until the effects replace it.
Push(p) ==
    LET sent == [p EXCEPT !.tabViews = With(page.tabViews, page.tab, ViewOf(page))]
    IN  /\ Len(entries) < MaxEntries \/ position < Len(entries)
        /\ Fits(Serialize(sent))
        /\ Commit(p, Append(SubSeq(entries, 1, position), Write(Entry(Bare, None), sent)),
                  position + 1, browsed)
        /\ seek' = Seek(None)

GoTo(t, view, returnTo) ==
    [page EXCEPT !.tab = t, !.filters = Replace(view), !.focus = view.focus, !.drill = returnTo]

NavigateDashboardTab(t) ==
    /\ t # page.tab
    /\ Push(GoTo(t, Found(page, t), FALSE))

ExploreDashboard(t, payload) ==
    Push(GoTo(t, Drill(t, At(page.tabViews, t, Blank), payload), TRUE))

Select ==
    \/ \E f \in Filter : \E value \in Offered[f] : SetFilter(f, value)
    \/ \E focus \in SUBSET Focus : SetDashboardFocus(focus)
    \/ \E cut \in Cuts : SetCuts(cut)

Explore == \E t \in Tab, payload \in Payloads : ExploreDashboard(t, payload)

Reopen ==
    \E link \in Links \cup {[url |-> entries[position].url, component |-> None]} : Open(link)

Act ==
    /\ acts < MaxActs
    /\ acts' = acts + 1
    /\ \/ Select
       \/ Explore
       \/ Reopen

Move ==
    /\ \/ \E t \in Tab : NavigateDashboardTab(t)
       \/ \E i \in DOMAIN entries : Back(i)
       \/ Reload
    /\ UNCHANGED acts

-----------------------------------------------------------------------------
(* The search for the linked component, a tab at a time; it brings the     *)
(* filters of the tab it comes from.                                       *)

NextTab(tried) ==
    IF Dashboard \in Tab \ tried THEN Dashboard
    ELSE TabOrder[CHOOSE i \in DOMAIN TabOrder :
             TabOrder[i] \notin tried /\ \A j \in 1..(i - 1) : TabOrder[j] \in tried]

MoveTo(t) == Commit([page EXCEPT !.tab = t], entries, position, browsed)

Searching == seek.link # None /\ ~seek.handled
Tried == seek.tried \cup {page.tab}
Ended == [seek EXCEPT !.handled = TRUE, !.tried = {}, !.origin = None]

FindComponent ==
    /\ Searching /\ Home[seek.link] = page.tab
    /\ seek' = Ended
    /\ UNCHANGED <<page, entries, position, remembered, browsed, acts>>

TryNextTab ==
    /\ Searching /\ Home[seek.link] # page.tab
    /\ Tab \ Tried # {}
    /\ seek' = [seek EXCEPT !.tried = Tried, !.origin = IF @ = None THEN page.tab ELSE @]
    /\ MoveTo(NextTab(Tried))
    /\ UNCHANGED acts

GiveUpComponent ==
    /\ Searching /\ Home[seek.link] # page.tab
    /\ Tab \subseteq Tried
    /\ seek' = Ended
    /\ MoveTo(IF seek.origin = None THEN page.tab ELSE seek.origin)
    /\ UNCHANGED acts

Search == TryNextTab \/ GiveUpComponent

Next == Act \/ Move \/ FindComponent \/ Search

Spec == Init /\ [][Next]_vars

-----------------------------------------------------------------------------
(* Properties.                                                             *)

Map(keys, values) == UNION {[S -> values] : S \in SUBSET keys}
ViewType == [filters : Map(Filter, Value), focus : SUBSET Focus]

\* Whatever was remembered, linked or passed on, a filter has one of the
\* choices reviewed for it, and Back is offered only where there is an entry to
\* return to.
TypeOK ==
    /\ page.tab \in Tab /\ page.focus \in SUBSET Focus /\ page.cuts \in Cuts
    /\ DOMAIN page.filters = Filter
    /\ \A f \in Filter : page.filters[f] \in Offered[f]
    /\ DOMAIN page.tabViews \subseteq Tab
    /\ page.drill \in BOOLEAN /\ (page.drill => position > 1)
    /\ position \in DOMAIN entries /\ Len(entries) <= MaxEntries
    /\ seek.link \in Component \cup {None} /\ seek.tried \subseteq Tab
    /\ browsed \in [Tab -> ViewType] /\ acts \in 0..MaxActs

\* An address shows whoever opens it what its sender sees, on every tab, whatever
\* the reader has chosen before (serializeDashboardUrlState: "Even an entirely
\* default view must override a recipient's remembered choices").
SharedLinkShowsTheView ==
    Fits(Serialize(page)) =>
        \A r \in Readers :
            LET opened == Window(entries[position].url, None, r)
            IN  /\ Shown(opened) = Shown(page)
                /\ \A t \in Tab \ {page.tab} : Found(opened, t) = Found(page, t)

\* Going to another entry, or loading the present one again, shows what its
\* address was written for, and offers to return where it did.
BackShowsWhatWasLeft ==
    \A i \in DOMAIN entries :
        LET entry == entries[i]
            p == IF i = position THEN Window(entry.url, entry.state, remembered)
                 ELSE Restored(entry)
        IN  entry.says # None =>
                /\ Shown(p) = entry.says.shown
                /\ p.drill <=> entry.state.returnTo

Browsed(t) == BrowsedOn(page, t)

\* What may change what tab t shows when it is browsed: a selection on it, unless it
\* is explored; a link; another entry, which brings back what t showed when its
\* address was written; a reload of the tab explored; the search, which takes the
\* filters of a tab to the next. Selections that do not fit an address are lost by
\* exploring the tab they are on and by a reload, and the search leaves them behind.
MayChange(t) ==
    \/ Select /\ t = page.tab /\ ~page.drill
    \/ Reopen
    \/ \E i \in DOMAIN entries :
          /\ Back(i)
          /\ entries[i].says # None /\ ~(page'.drill /\ t = page'.tab) =>
                Browsed(t)' = entries[i].says.browsed[t]
    \/ Reload /\ page.drill /\ t = page.tab
    \/ Search /\ t = page'.tab
    \/ ~Fits(Serialize(page)) /\ Reload
    \/ ~Fits(Serialize(page)) /\ t = page.tab /\ (Explore \/ Search)

\* A tab goes on showing what it showed when it was browsed: whatever is chosen or
\* explored on others, and however the reader moves along the bar, away and back
\* (navigateDashboardTab, exploreDashboard, restoreDashboardUrlState).
BrowsingIsKept == [][\A t \in Tab : Browsed(t)' = Browsed(t) \/ MayChange(t)]_vars

\* docs/components/filtering.md: "Explicit exploration offers Back; normal tab
\* navigation restores browsing state." It does not after a reload of a tab explored,
\* nor of a tab on which something was chosen since the entry gone back to was left.
BrowsingIsRestored == \A t \in Tab : Browsed(t) = browsed[t]
=============================================================================
