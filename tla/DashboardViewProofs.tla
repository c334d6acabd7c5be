------------------------- MODULE DashboardViewProofs -------------------------
(***************************************************************************)
(* What DashboardView keeps for any tabs, filters, links and readers.      *)
(***************************************************************************)
EXTENDS DashboardView, WellFoundedInduction, TLAPS

IsUrl(u) ==
    /\ u.tab \in Tab \cup {None} /\ u.complete \in BOOLEAN
    /\ DOMAIN u.tabViews \subseteq Tab /\ u.cuts \in Cuts

IsPage(p) ==
    /\ DOMAIN p = {"tab", "filters", "focus", "drill", "tabViews", "cuts"}
    /\ p.tab \in Tab /\ p.focus \in SUBSET Focus /\ p.cuts \in Cuts /\ p.drill \in BOOLEAN
    /\ p.filters \in [Filter -> Value] /\ \A f \in Filter : p.filters[f] \in Offered[f]
    /\ DOMAIN p.tabViews \subseteq Tab

\* A view of tab t that has a reviewed choice for each of its filters.
IsView(t, v) == Scope[t] \subseteq DOMAIN v.filters /\ \A f \in Scope[t] : Valid(f, v.filters[f])

\* None of the selections is too large to be read back.
Moderate(p) == \A f \in Filter : p.filters[f] \notin Huge

\* What is browsed is remembered.
Kept(p) == ~p.drill => p.tab \in DOMAIN p.tabViews /\ p.tabViews[p.tab] = ViewOf(p)

-----------------------------------------------------------------------------
(* Views.                                                                  *)

LEMMA Scopes == \A t \in Tab : Scope[t] \subseteq Filter /\ FocusOf[t] \subseteq Focus
BY ViewAssumption

LEMMA FirstTab == TabOrder[1] \in Tab
BY ViewAssumption DEF Tab, Range

LEMMA DefaultValid ==
    ASSUME NEW t \in Tab, NEW f \in Scope[t]
    PROVE  Valid(f, Default(t, f))
BY Scopes, ViewAssumption DEF Default, At, Valid

LEMMA ViewTyped ==
    ASSUME NEW t \in Tab, NEW saved, NEW url
    PROVE  /\ DOMAIN View(t, saved, url).filters = Scope[t]
           /\ IsView(t, View(t, saved, url))
           /\ View(t, saved, url).focus \subseteq FocusOf[t]
           /\ View(t, saved, url) \in ViewType
<1> DEFINE v == View(t, saved, url)
<1>1. DOMAIN v.filters = Scope[t] /\ v.focus \subseteq FocusOf[t]
    BY DEF View
<1>2. \A f \in Scope[t] : Valid(f, v.filters[f])
    BY DefaultValid DEF View
<1>3. v.filters \in [Scope[t] -> Value]
  <2>1. \A f \in Scope[t] : v.filters[f] \in Value
      BY <1>2, Scopes DEF Value, Valid
  <2> QED
      BY <2>1, <1>1 DEF View
<1>4. v.filters \in Map(Filter, Value)
    BY <1>3, Scopes DEF Map
<1>5. v \in ViewType
  <2>1. v = [filters |-> v.filters, focus |-> v.focus]
      BY DEF View
  <2>2. v.focus \in SUBSET Focus
      BY <1>1, Scopes
  <2> HIDE DEF v
  <2> QED
      BY <2>1, <2>2, <1>4 DEF ViewType
<1> QED
    BY <1>1, <1>2, <1>5 DEF IsView

\* A view that holds reviewed choices is shown as it is.
LEMMA ShownAsIs ==
    ASSUME NEW t \in Tab, NEW v, IsView(t, v)
    PROVE  View(t, v, Bare) = [filters |-> [f \in Scope[t] |-> v.filters[f]],
                               focus |-> v.focus \cap FocusOf[t]]
<1>1. ~HasViewState(Bare) /\ ~Bare.complete
    BY DEF HasViewState, Bare, NoMap
<1>2. \A f \in Scope[t] : Resolve(t, v, Bare, f) = v.filters[f]
    BY <1>1 DEF Resolve, At, IsView
<1>3. \A f \in Scope[t] : (IF Valid(f, Resolve(t, v, Bare, f)) THEN Resolve(t, v, Bare, f)
                                                               ELSE Default(t, f)) = v.filters[f]
    BY <1>2 DEF IsView
<1> QED
    BY <1>1, <1>3 DEF View

LEMMA ReplaceTyped ==
    ASSUME NEW t \in Tab, NEW v, DOMAIN v.filters = Scope[t], IsView(t, v)
    PROVE  /\ Replace(v) \in [Filter -> Value]
           /\ \A f \in Filter : Replace(v)[f] \in Offered[f]
           /\ \A f \in Scope[t] : Replace(v)[f] = v.filters[f]
<1>1. \A f \in Filter : At(v.filters, f, Standard[f]) \in Offered[f]
    BY ViewAssumption DEF At, IsView, Valid
<1>2. \A f \in Filter : At(v.filters, f, Standard[f]) \in Value
    BY <1>1 DEF Value
<1> QED
    BY <1>1, <1>2, Scopes DEF Replace, At

\* A page that takes a view over shows it.
LEMMA TakenOver ==
    ASSUME NEW t \in Tab, NEW saved, NEW url, NEW p, p.tab = t,
           p.filters = Replace(View(t, saved, url)), p.focus = View(t, saved, url).focus
    PROVE  Now(p) = View(t, saved, url)
<1> DEFINE v == View(t, saved, url)
<1>1. DOMAIN v.filters = Scope[t] /\ IsView(t, v) /\ v.focus \subseteq FocusOf[t]
    BY ViewTyped
<1>2. \A f \in Scope[t] : p.filters[f] = v.filters[f]
    BY <1>1, ReplaceTyped
<1>3. Now(p) = [filters |-> [f \in Scope[t] |-> p.filters[f]], focus |-> p.focus \cap FocusOf[t]]
    BY DEF Now, Shown, Restrict
<1>4. v = [filters |-> [f \in Scope[t] |-> v.filters[f]], focus |-> v.focus]
    BY DEF View
<1>5. [f \in Scope[t] |-> p.filters[f]] = [f \in Scope[t] |-> v.filters[f]]
    BY <1>2
<1>6. p.focus \cap FocusOf[t] = v.focus
    BY <1>1
<1> HIDE DEF v
<1> QED
    BY <1>3, <1>4, <1>5, <1>6 DEF v

-----------------------------------------------------------------------------
(* Pages.                                                                  *)

LEMMA WindowTyped ==
    ASSUME NEW url, NEW state, NEW saved, IsUrl(url), DOMAIN saved.tabViews \subseteq Tab,
           state # None => state.returnTo \in BOOLEAN
    PROVE  IsPage(Window(url, state, saved))
<1> DEFINE t == IF url.tab = None THEN TabOrder[1] ELSE url.tab
           restored == state # None /\ state.tab = t
           from == IF url.complete THEN At(url.tabViews, t, Blank)
                   ELSE IF restored THEN state.view
                   ELSE At(saved.tabViews, t, [filters |-> saved.filters, focus |-> {}])
           view == View(t, from, url)
<1>1. t \in Tab
    BY FirstTab, NoneAssumption DEF IsUrl
<1>2. Window(url, state, saved) =
        [tab |-> t, filters |-> Replace(view), focus |-> view.focus,
         drill |-> restored /\ state.returnTo,
         tabViews |-> IF url.complete THEN url.tabViews ELSE saved.tabViews,
         cuts |-> url.cuts]
    BY DEF Window
<1>3. Replace(view) \in [Filter -> Value] /\ \A f \in Filter : Replace(view)[f] \in Offered[f]
    BY <1>1, ViewTyped, ReplaceTyped
<1>4. view.focus \subseteq Focus
    BY <1>1, ViewTyped, Scopes
<1>5. (restored /\ state.returnTo) \in BOOLEAN
    OBVIOUS
<1> HIDE DEF t, restored, view
<1> QED
    BY <1>1, <1>2, <1>3, <1>4, <1>5 DEF IsPage, IsUrl

LEMMA RestoredTyped ==
    ASSUME NEW entry, IsUrl(entry.url), IsPage(page),
           entry.state # None => entry.state.returnTo \in BOOLEAN
    PROVE  IsPage(Restored(entry))
<1> DEFINE t == IF entry.url.tab = None THEN TabOrder[1] ELSE entry.url.tab
           stored == entry.state # None /\ entry.state.tab = t
           from == IF entry.url.complete THEN At(entry.url.tabViews, t, Blank)
                   ELSE IF stored THEN entry.state.view
                   ELSE At(page.tabViews, t, [filters |-> page.filters, focus |-> {}])
           view == View(t, from, entry.url)
<1>1. t \in Tab
    BY FirstTab, NoneAssumption DEF IsUrl
<1>2. Restored(entry) =
        [tab |-> t, filters |-> Replace(view), focus |-> view.focus,
         drill |-> stored /\ entry.state.returnTo,
         tabViews |-> IF entry.url.complete THEN entry.url.tabViews ELSE page.tabViews,
         cuts |-> IF entry.url.complete THEN entry.url.cuts ELSE page.cuts]
    BY DEF Restored
<1>3. Replace(view) \in [Filter -> Value] /\ \A f \in Filter : Replace(view)[f] \in Offered[f]
    BY <1>1, ViewTyped, ReplaceTyped
<1>4. view.focus \subseteq Focus
    BY <1>1, ViewTyped, Scopes
<1>5. (stored /\ entry.state.returnTo) \in BOOLEAN
    OBVIOUS
<1> HIDE DEF t, stored, view
<1> QED
    BY <1>1, <1>2, <1>3, <1>4, <1>5 DEF IsPage, IsUrl

\* Nobody's choices, and a page opened from an address without any.
Nobody == [filters |-> NoMap, tabViews |-> NoMap]
Opened(url) == Window(url, None, Nobody)

Alike(p, q) ==
    /\ p.tab = q.tab /\ p.filters = q.filters /\ p.focus = q.focus
    /\ p.tabViews = q.tabViews /\ p.cuts = q.cuts

LEMMA RememberTyped ==
    ASSUME NEW p, IsPage(p)
    PROVE  /\ IsPage(Remember(p)) /\ Kept(Remember(p))
           /\ Remember(p).tab = p.tab /\ Remember(p).filters = p.filters
           /\ Remember(p).focus = p.focus /\ Remember(p).drill = p.drill
           /\ Remember(p).cuts = p.cuts
           /\ p.drill => Remember(p) = p
           /\ ~p.drill => Remember(p).tabViews = With(p.tabViews, p.tab, ViewOf(p))
<1>1. CASE p.drill
    BY <1>1 DEF Remember, Kept
<1>2. CASE ~p.drill
  <2> DEFINE w == With(p.tabViews, p.tab, ViewOf(p))
  <2>1. Remember(p) = [p EXCEPT !.tabViews = w]
      BY <1>2 DEF Remember
  <2>2. DOMAIN w = DOMAIN p.tabViews \cup {p.tab} /\ w[p.tab] = ViewOf(p)
      BY DEF With
  <2> HIDE DEF w
  <2>3. /\ DOMAIN Remember(p) = DOMAIN p /\ Remember(p).tabViews = w
        /\ Remember(p).tab = p.tab /\ Remember(p).filters = p.filters
        /\ Remember(p).focus = p.focus /\ Remember(p).drill = p.drill
        /\ Remember(p).cuts = p.cuts
      BY <2>1 DEF IsPage
  <2>4. IsPage(Remember(p))
      BY <2>2, <2>3 DEF IsPage
  <2>5. Kept(Remember(p))
      BY <2>2, <2>3 DEF Kept, ViewOf
  <2> QED
      BY <1>2, <2>3, <2>4, <2>5 DEF w
<1> QED
    BY <1>1, <1>2

\* What the tabs of a page show once it is remembered.
LEMMA RememberFound ==
    ASSUME NEW p, IsPage(p), NEW t \in Tab
    PROVE  Found(Remember(p), t) =
               IF t = p.tab /\ ~p.drill THEN View(t, ViewOf(p), Bare) ELSE Found(p, t)
<1>1. CASE p.drill
    BY <1>1, RememberTyped DEF Found
<1>2. CASE ~p.drill
  <2>1. Remember(p).tabViews = With(p.tabViews, p.tab, ViewOf(p))
      BY <1>2, RememberTyped
  <2>2. CASE t = p.tab
    <3>1. At(Remember(p).tabViews, t, Blank) = ViewOf(p)
        BY <2>1, <2>2 DEF At, With
    <3> QED
        BY <3>1, <1>2, <2>2 DEF Found
  <2>3. CASE t # p.tab
    <3>1. At(Remember(p).tabViews, t, Blank) = At(p.tabViews, t, Blank)
        BY <2>1, <2>3 DEF At, With
    <3> QED
        BY <3>1, <2>3 DEF Found
  <2> QED
      BY <2>2, <2>3
<1> QED
    BY <1>1, <1>2

LEMMA NowTyped ==
    ASSUME NEW p, IsPage(p)
    PROVE  Now(p) \in ViewType
<1>1. Restrict(p.filters, Scope[p.tab]) \in [Scope[p.tab] -> Value]
    BY Scopes DEF IsPage, Restrict
<1>2. Restrict(p.filters, Scope[p.tab]) \in Map(Filter, Value)
    BY <1>1, Scopes DEF Map, IsPage
<1>3. p.focus \cap FocusOf[p.tab] \in SUBSET Focus
    BY DEF IsPage
<1>4. Now(p) = [filters |-> Restrict(p.filters, Scope[p.tab]), focus |-> p.focus \cap FocusOf[p.tab]]
    BY DEF Now, Shown
<1> QED
    BY <1>2, <1>3, <1>4 DEF ViewType

\* A page without selections too large shows what the bar would show of its view.
LEMMA ViewOfPage ==
    ASSUME NEW p, IsPage(p), Moderate(p)
    PROVE  View(p.tab, ViewOf(p), Bare) = Now(p)
<1>1. IsView(p.tab, ViewOf(p))
    BY Scopes DEF IsPage, IsView, ViewOf, Moderate, Valid
<1>2. View(p.tab, ViewOf(p), Bare) = [filters |-> [f \in Scope[p.tab] |-> ViewOf(p).filters[f]],
                                      focus |-> ViewOf(p).focus \cap FocusOf[p.tab]]
    BY <1>1, ShownAsIs DEF IsPage
<1>3. ViewOf(p).filters = p.filters /\ ViewOf(p).focus = p.focus
    BY DEF ViewOf
<1> QED
    BY <1>2, <1>3 DEF Now, Shown, Restrict

\* What is browsed stays what it is when the page is remembered.
LEMMA RememberBrowsed ==
    ASSUME NEW p, IsPage(p), NEW t \in Tab
    PROVE  BrowsedOn(Remember(p), t) = BrowsedOn(p, t)
<1>1. /\ Remember(p).tab = p.tab /\ Remember(p).filters = p.filters
      /\ Remember(p).focus = p.focus /\ Remember(p).drill = p.drill
    BY RememberTyped
<1>2. Now(Remember(p)) = Now(p)
    BY <1>1 DEF Now, Shown
<1>3. ~(t = p.tab /\ ~p.drill) => Found(Remember(p), t) = Found(p, t)
    BY RememberFound
<1> QED
    BY <1>1, <1>2, <1>3 DEF BrowsedOn

\* An address that fits has no selection too large.
LEMMA FitsViews ==
    ASSUME NEW url, Fits(url), NEW t \in DOMAIN url.tabViews,
           NEW f \in DOMAIN url.tabViews[t].filters
    PROVE  url.tabViews[t].filters[f] \notin Huge
<1> DEFINE large(x) == {<<x, g>> : g \in {h \in DOMAIN url.tabViews[x].filters :
                                          url.tabViews[x].filters[h] \in Huge}}
<1>1. UNION {large(x) : x \in DOMAIN url.tabViews} = {}
    BY DEF Fits
<1>2. url.tabViews[t].filters[f] \in Huge => <<t, f>> \in large(t)
    OBVIOUS
<1>3. large(t) \subseteq UNION {large(x) : x \in DOMAIN url.tabViews}
    OBVIOUS
<1> HIDE DEF large
<1> QED
    BY <1>1, <1>2, <1>3

LEMMA SerializeTyped ==
    ASSUME NEW p, IsPage(p)
    PROVE  /\ IsUrl(Serialize(p)) /\ Serialize(p).complete /\ Serialize(p).tab = p.tab
           /\ Serialize(p).tabViews = With(p.tabViews, p.tab, ViewOf(p))
           /\ Serialize(p).cuts = p.cuts /\ Serialize(p).focus = p.focus
           /\ Serialize(p).filters = Restrict(p.filters,
                 {f \in Scope[p.tab] : p.filters[f] # Default(p.tab, f) /\ Valid(f, p.filters[f])})
BY DEF IsPage, IsUrl, Serialize, With

\* So has no page whose address fits, nor what it remembers of its tabs.
LEMMA FitsModerate ==
    ASSUME NEW p, IsPage(p), Fits(Serialize(p))
    PROVE  /\ Moderate(p)
           /\ \A t \in DOMAIN p.tabViews \ {p.tab} :
                 \A f \in DOMAIN p.tabViews[t].filters : p.tabViews[t].filters[f] \notin Huge
<1> DEFINE u == Serialize(p)
<1>1. u.tabViews = With(p.tabViews, p.tab, ViewOf(p))
    BY SerializeTyped
<1>2. Fits(u)
    OBVIOUS
<1> HIDE DEF u
<1>3. /\ DOMAIN u.tabViews = DOMAIN p.tabViews \cup {p.tab} /\ u.tabViews[p.tab] = ViewOf(p)
      /\ \A t \in DOMAIN p.tabViews \ {p.tab} : u.tabViews[t] = p.tabViews[t]
    BY <1>1 DEF With
<1>4. ViewOf(p).filters = p.filters /\ DOMAIN p.filters = Filter
    BY DEF ViewOf, IsPage
<1>5. ASSUME NEW f \in Filter PROVE p.filters[f] \notin Huge
  <2>1. p.tab \in DOMAIN u.tabViews /\ f \in DOMAIN u.tabViews[p.tab].filters
      BY <1>3, <1>4
  <2>2. u.tabViews[p.tab].filters[f] \notin Huge
      BY <1>2, <2>1, FitsViews
  <2> QED
      BY <2>2, <1>3, <1>4
<1>6. ASSUME NEW t \in DOMAIN p.tabViews \ {p.tab}, NEW f \in DOMAIN p.tabViews[t].filters
      PROVE  p.tabViews[t].filters[f] \notin Huge
  <2>1. t \in DOMAIN u.tabViews /\ f \in DOMAIN u.tabViews[t].filters
      BY <1>3
  <2>2. u.tabViews[t].filters[f] \notin Huge
      BY <1>2, <2>1, FitsViews
  <2> QED
      BY <2>2, <1>3
<1> QED
    BY <1>5, <1>6 DEF Moderate

\* The address of a page shows anybody what the page shows, on every tab.
LEMMA Sent ==
    ASSUME NEW p, IsPage(p), Moderate(p), NEW r
    PROVE  LET w == Window(Serialize(p), None, r)
           IN  /\ Shown(w) = Shown(p)
               /\ \A t \in Tab \ {p.tab} : Found(w, t) = Found(p, t)
<1> DEFINE u == Serialize(p)
           w == Window(u, None, r)
           t == p.tab
           saved == At(u.tabViews, t, Blank)
           v == View(t, saved, u)
<1>1. t \in Tab /\ u.tab = t /\ u.complete /\ t # None
    BY SerializeTyped, NoneAssumption DEF IsPage
<1>0. /\ u.tabViews = With(p.tabViews, t, ViewOf(p)) /\ u.cuts = p.cuts /\ u.focus = p.focus
      /\ u.filters = Restrict(p.filters,
             {f \in Scope[t] : p.filters[f] # Default(t, f) /\ Valid(f, p.filters[f])})
    BY SerializeTyped
<1> HIDE DEF u
<1>2. /\ w.tab = t /\ w.filters = Replace(v) /\ w.focus = v.focus
      /\ w.tabViews = u.tabViews /\ w.cuts = u.cuts
    BY <1>1 DEF Window
<1> HIDE DEF w, saved
<1>3. \A f \in Scope[t] : Resolve(t, saved, u, f) = p.filters[f]
  <2> SUFFICES ASSUME NEW f \in Scope[t]
               PROVE  Resolve(t, saved, u, f) = p.filters[f]
      OBVIOUS
  <2>1. Resolve(t, saved, u, f) = At(u.filters, f, Default(t, f))
      BY <1>1 DEF Resolve, HasViewState
  <2>2. Valid(f, p.filters[f])
      BY <1>1, Scopes DEF Valid, IsPage, Moderate
  <2> QED
      BY <2>1, <2>2, <1>0 DEF At, Restrict
<1>4. \A f \in Scope[t] : v.filters[f] = p.filters[f]
    BY <1>1, <1>3, Scopes DEF View, Valid, IsPage, Moderate
<1>5. v.focus = p.focus \cap FocusOf[t]
    BY <1>0, <1>1 DEF View
<1>6. \A f \in Scope[t] : w.filters[f] = p.filters[f]
    BY <1>1, <1>2, <1>4, ViewTyped, ReplaceTyped
<1>7. Shown(w) = Shown(p)
  <2>1. Restrict(w.filters, Scope[t]) = Restrict(p.filters, Scope[t])
      BY <1>6 DEF Restrict
  <2> QED
      BY <1>0, <1>2, <1>5, <2>1 DEF Shown
<1>9. \A x \in Tab \ {t} : Found(w, x) = Found(p, x)
  <2> SUFFICES ASSUME NEW x \in Tab \ {t} PROVE Found(w, x) = Found(p, x)
      OBVIOUS
  <2>1. At(w.tabViews, x, Blank) = At(p.tabViews, x, Blank)
      BY <1>0, <1>2 DEF At, With
  <2> QED
      BY <2>1 DEF Found
<1> QED
    BY <1>7, <1>9 DEF u, w

-----------------------------------------------------------------------------
(* Entries.                                                                *)

\* Whoever opens the address of an entry sees what it was written for, on every tab
\* but one that was explored.
Means(e) ==
    /\ e.url.complete /\ e.url.tab \in Tab
    /\ Shown(Opened(e.url)) = e.says.shown
    /\ e.state # None /\ (e.state.returnTo => e.state.tab = e.url.tab)
    /\ \A t \in Tab : t # e.url.tab \/ ~e.state.returnTo =>
          BrowsedOn(Opened(e.url), t) = e.says.browsed[t]

\* The j-th entry: one from which a reader may return is not the first and is
\* not linked to a component.
IsEntry(e, j) ==
    /\ DOMAIN e = {"url", "state", "link", "says"}
    /\ IsUrl(e.url) /\ e.link \in Component \cup {None}
    /\ e.state # None => e.state.returnTo \in BOOLEAN /\ (e.state.returnTo => j > 1 /\ e.link = None)
    /\ e.says # None => Means(e)

\* Returning to an entry, or loading it again, opens its address.
LEMMA Returned ==
    ASSUME NEW j, NEW e, IsEntry(e, j), e.says # None, NEW p, NEW saved,
           p = Window(e.url, e.state, saved) \/ p = Restored(e)
    PROVE  /\ Alike(p, Opened(e.url))
           /\ p.drill <=> e.state.returnTo
           /\ p.tab = e.url.tab
<1>1. e.url.complete /\ e.url.tab \in Tab /\ e.url.tab # None
    BY NoneAssumption DEF IsEntry, Means
<1>2. e.state # None /\ e.state.returnTo \in BOOLEAN /\ (e.state.returnTo => e.state.tab = e.url.tab)
    BY DEF IsEntry, Means
<1>3. CASE p = Window(e.url, e.state, saved)
    BY <1>1, <1>2, <1>3 DEF Window, Alike, Opened
<1>4. CASE p = Restored(e)
    BY <1>1, <1>2, <1>4 DEF Window, Restored, Alike, Opened
<1> QED
    BY <1>3, <1>4

\* What a page may be written to an entry under: it offers to return as what the
\* entry's address was written for did, and on the same tab.
Fitting(e, p, j) ==
    /\ p.drill => j > 1 /\ e.link = None
    /\ e.says # None => (e.state.returnTo <=> p.drill) /\ (p.drill => p.tab = e.url.tab)

LEMMA StateTyped ==
    ASSUME NEW p, IsPage(p)
    PROVE  /\ StateOf(p) # None /\ StateOf(p).returnTo = p.drill /\ StateOf(p).tab = p.tab
           /\ StateOf(p).view = ViewOf(p)
<1>1. ViewOf(p) \in [filters : [Filter -> Value], focus : SUBSET Focus]
    BY DEF IsPage, ViewOf
<1>2. StateOf(p) \in [tab : Tab, view : [filters : [Filter -> Value], focus : SUBSET Focus],
                      returnTo : BOOLEAN]
    BY <1>1 DEF StateOf, IsPage
<1> QED
    BY <1>2, NoneAssumption DEF StateOf

LEMMA OpenedSerialized ==
    ASSUME NEW p, IsPage(p), Moderate(p)
    PROVE  /\ Shown(Opened(Serialize(p))) = Shown(p)
           /\ \A t \in Tab : t # p.tab \/ ~p.drill =>
                 BrowsedOn(Opened(Serialize(p)), t) = BrowsedOn(p, t)
<1> DEFINE w == Window(Serialize(p), None, Nobody)
<1>1. Serialize(p).tab = p.tab /\ p.tab # None
    BY SerializeTyped, NoneAssumption DEF IsPage
<1>2. w.tab = p.tab /\ ~w.drill
    BY <1>1 DEF Window
<1>3. Shown(w) = Shown(p) /\ \A t \in Tab \ {p.tab} : Found(w, t) = Found(p, t)
    BY Sent
<1> HIDE DEF w
<1>4. Now(w) = Now(p)
    BY <1>3 DEF Now
<1> QED
    BY <1>2, <1>3, <1>4 DEF Opened, w, BrowsedOn

LEMMA Written ==
    ASSUME NEW p, IsPage(p), NEW j, NEW e, IsEntry(e, j), Fitting(e, p, j)
    PROVE  LET w == Write(e, p)
           IN  /\ IsEntry(w, j) /\ w.link = e.link /\ w.state = StateOf(p)
               /\ Fits(Serialize(p)) => w.url = Serialize(p)
<1> DEFINE w == Write(e, p)
<1>1. /\ StateOf(p) # None /\ StateOf(p).returnTo = p.drill /\ StateOf(p).tab = p.tab
      /\ p.drill \in BOOLEAN
    BY StateTyped DEF IsPage
<1>2. CASE Fits(Serialize(p))
  <2> DEFINE says == [shown |-> Shown(p), browsed |-> [t \in Tab |-> BrowsedOn(p, t)]]
  <2>1. w = [e EXCEPT !.url = Serialize(p), !.state = StateOf(p), !.says = says]
      BY <1>2 DEF Write
  <2>2. /\ DOMAIN w = {"url", "state", "link", "says"} /\ w.link = e.link
        /\ w.url = Serialize(p) /\ w.state = StateOf(p) /\ w.says = says
      BY <2>1 DEF IsEntry
  <2> HIDE DEF w
  <2>3. Means(w)
    <3>0. Serialize(p).complete /\ Serialize(p).tab = p.tab /\ p.tab \in Tab
        BY SerializeTyped DEF IsPage
    <3>1. w.url.complete /\ w.url.tab \in Tab /\ w.url.tab = p.tab
        BY <2>2, <3>0
    <3>2. w.says.shown = Shown(p) /\ \A t \in Tab : w.says.browsed[t] = BrowsedOn(p, t)
        BY <2>2
    <3> HIDE DEF says
    <3>5. Moderate(p)
        BY <1>2, FitsModerate
    <3>3. Shown(Opened(w.url)) = w.says.shown
        BY <2>2, <3>2, <3>5, OpenedSerialized
    <3>4. ASSUME NEW t \in Tab, t # w.url.tab \/ ~w.state.returnTo
          PROVE  BrowsedOn(Opened(w.url), t) = w.says.browsed[t]
      <4>1. t # p.tab \/ ~p.drill
          BY <3>4, <3>1, <2>2, <1>1
      <4> QED
          BY <4>1, <2>2, <3>2, <3>5, OpenedSerialized
    <3> QED
        BY <1>1, <2>2, <3>1, <3>2, <3>3, <3>4 DEF Means
  <2> QED
      BY <1>1, <1>2, <2>2, <2>3, SerializeTyped DEF IsEntry, Fitting, w
<1>3. CASE ~Fits(Serialize(p))
  <2>1. w = [e EXCEPT !.state = StateOf(p)]
      BY <1>3 DEF Write
  <2>2. /\ DOMAIN w = {"url", "state", "link", "says"} /\ w.link = e.link
        /\ w.url = e.url /\ w.state = StateOf(p) /\ w.says = e.says
      BY <2>1 DEF IsEntry
  <2> HIDE DEF w
  <2>3. w.says # None => Means(w)
    <3> SUFFICES ASSUME w.says # None PROVE Means(w)
        OBVIOUS
    <3>1. Means(e) /\ (e.state.returnTo <=> p.drill) /\ (p.drill => p.tab = e.url.tab)
        BY <2>2 DEF IsEntry, Fitting
    <3> QED
        BY <1>1, <2>2, <3>1 DEF Means
  <2> QED
      BY <1>1, <1>3, <2>2, <2>3 DEF IsEntry, Fitting, w
<1> QED
    BY <1>2, <1>3

-----------------------------------------------------------------------------
(* The inductive invariant.                                                *)

PageInv == IsPage(page) /\ Kept(page)

IsHistory(history) ==
    /\ history \in Seq(Range(history)) /\ Len(history) <= MaxEntries
    /\ \A j \in DOMAIN history : IsEntry(history[j], j)

\* The present entry tells the page, by its address where that fits.
HistoryInv ==
    /\ IsHistory(entries) /\ position \in DOMAIN entries
    /\ entries[position].state = StateOf(page)
    /\ Fits(Serialize(page)) => entries[position].url = Serialize(page)

\* What is remembered is what the page has, unless that may be too large to be stored.
MemoryInv ==
    /\ DOMAIN remembered.tabViews \subseteq Tab
    /\ Light(page) => remembered = [filters |-> page.filters, tabViews |-> page.tabViews]
    /\ browsed \in [Tab -> ViewType]

SeekInv ==
    /\ seek \in [link : Component \cup {None}, handled : BOOLEAN, tried : SUBSET Tab,
                 origin : Tab \cup {None}]
    /\ seek.link = entries[position].link

Inv == PageInv /\ HistoryInv /\ MemoryInv /\ SeekInv /\ acts \in 0..MaxActs

LEMMA Replaced ==
    ASSUME NEW s, s \in Seq(Range(s)), NEW i \in DOMAIN s, NEW x
    PROVE  LET n == [s EXCEPT ![i] = x]
           IN  /\ n \in Seq(Range(n)) /\ Len(n) = Len(s) /\ DOMAIN n = DOMAIN s
               /\ n[i] = x /\ \A j \in DOMAIN s \ {i} : n[j] = s[j]
<1> DEFINE n == [s EXCEPT ![i] = x]  S == Range(s) \cup {x}
<1>1. s \in Seq(S)
    OBVIOUS
<1>2. n \in Seq(S) /\ Len(n) = Len(s) /\ DOMAIN n = DOMAIN s
    BY <1>1
<1>3. n \in [1..Len(n) -> Range(n)]
    BY <1>2 DEF Range
<1>4. n[i] = x /\ \A j \in DOMAIN s \ {i} : n[j] = s[j]
    OBVIOUS
<1>5. Len(n) \in Nat
    BY <1>2
<1> HIDE DEF n, S
<1>6. n \in Seq(Range(n))
    BY <1>3, <1>5
<1> QED
    BY <1>2, <1>4, <1>6 DEF n

LEMMA SavedTyped ==
    ASSUME NEW p, IsPage(p), NEW before, DOMAIN before.tabViews \subseteq Tab, NEW s \in Saved(p, before)
    PROVE  /\ DOMAIN s.tabViews \subseteq Tab
           /\ Light(p) => s = [filters |-> p.filters, tabViews |-> p.tabViews]
BY DEF Saved, IsPage

\* What a page leaves behind when it is written, remembered and shown.
LEMMA Committed ==
    ASSUME NEW p, IsPage(p), NEW past, IsHistory(past), NEW i \in DOMAIN past,
           Fitting(past[i], p, i), DOMAIN remembered.tabViews \subseteq Tab,
           NEW chosen, chosen \in [Tab -> ViewType], Commit(p, past, i, chosen)
    PROVE  /\ PageInv' /\ HistoryInv' /\ MemoryInv'
           /\ position' = i /\ entries'[i].link = past[i].link
           /\ page'.tab = p.tab /\ page'.drill = p.drill
           /\ \A t \in Tab : Browsed(t)' = BrowsedOn(p, t)
<1> DEFINE q == Remember(p)
           w == Write(past[i], q)
<1>1. /\ page' = q /\ position' = i /\ entries' = [past EXCEPT ![i] = w]
      /\ remembered' \in Saved(q, remembered) /\ browsed' = chosen
    BY DEF Commit
<1>2. IsPage(q) /\ Kept(q) /\ q.drill = p.drill /\ q.tab = p.tab
    BY RememberTyped
<1>3. Fitting(past[i], q, i)
    BY <1>2 DEF Fitting
<1>10. \A t \in Tab : BrowsedOn(q, t) = BrowsedOn(p, t)
    BY RememberBrowsed
<1> HIDE DEF q
<1>4. /\ IsEntry(w, i) /\ w.link = past[i].link /\ w.state = StateOf(q)
      /\ Fits(Serialize(q)) => w.url = Serialize(q)
    BY <1>2, <1>3, Written DEF IsHistory
<1> HIDE DEF w
<1>5. /\ entries' \in Seq(Range(entries')) /\ Len(entries') = Len(past)
      /\ DOMAIN entries' = DOMAIN past
      /\ entries'[i] = w /\ \A j \in DOMAIN past \ {i} : entries'[j] = past[j]
  <2>1. past \in Seq(Range(past))
      BY DEF IsHistory
  <2> QED
      BY <1>1, <2>1, Replaced
<1>6. PageInv'
    BY <1>1, <1>2 DEF PageInv, IsPage, Kept
<1>7. HistoryInv'
  <2>1. IsHistory(entries')
      BY <1>4, <1>5 DEF IsHistory
  <2> QED
      BY <1>1, <1>4, <1>5, <2>1 DEF HistoryInv
<1>8. MemoryInv'
  <2>1. /\ DOMAIN remembered'.tabViews \subseteq Tab
        /\ Light(q) => remembered' = [filters |-> q.filters, tabViews |-> q.tabViews]
      BY <1>1, <1>2, SavedTyped
  <2> QED
      BY <1>1, <2>1 DEF MemoryInv
<1>9. \A t \in Tab : Browsed(t)' = BrowsedOn(p, t)
    BY <1>1, <1>10 DEF Browsed
<1> QED
    BY <1>1, <1>2, <1>4, <1>5, <1>6, <1>7, <1>8, <1>9

-----------------------------------------------------------------------------
(* Opening a link.                                                         *)

LEMMA LinkTyped ==
    ASSUME NEW link \in Links
    PROVE  IsUrl(link.url) /\ link.component \in Component \cup {None}
BY InputAssumption DEF IsUrl

LEMMA FreshEntry ==
    ASSUME NEW url, NEW link \in Component \cup {None}, NEW j, IsUrl(url)
    PROVE  IsEntry(Entry(url, link), j) /\ Entry(url, link).says = None /\ Entry(url, link).link = link
BY DEF Entry, IsEntry

LEMMA FoundTyped ==
    ASSUME NEW p, NEW t \in Tab
    PROVE  Found(p, t) \in ViewType
BY ViewTyped DEF Found

LEMMA GivenTyped ==
    ASSUME NEW link, NEW p, IsPage(p), NEW before, before \in [Tab -> ViewType]
    PROVE  Given(link, p, before) \in [Tab -> ViewType]
<1>1. Now(p) \in ViewType /\ p.tab \in Tab
    BY NowTyped DEF IsPage
<1>2. \A t \in Tab : BrowsedOn(p, t) \in ViewType
    BY <1>1, FoundTyped DEF BrowsedOn
<1> QED
    BY <1>1, <1>2 DEF Given

LEMMA InvInit == Init => Inv
<1> SUFFICES ASSUME Init PROVE Inv
    OBVIOUS
<1>1. PICK link \in Links, r \in Readers :
        LET q == Remember(Window(link.url, None, r))
        IN  /\ page = q
            /\ entries = <<Write(Entry(link.url, link.component), q)>>
            /\ position = 1
            /\ remembered \in Saved(q, r)
            /\ seek = Seek(link.component)
            /\ browsed = Given(link, q, [t \in Tab |-> Found(r, t)]) /\ acts = 0
    BY DEF Init
<1> DEFINE p == Window(link.url, None, r)
           q == Remember(p)
           e == Entry(link.url, link.component)
           w == Write(e, q)
           before == [t \in Tab |-> Found(r, t)]
<1>2. /\ IsUrl(link.url) /\ link.component \in Component \cup {None}
      /\ DOMAIN r.tabViews \subseteq Tab
    BY LinkTyped, InputAssumption
<1>3. IsPage(p) /\ ~p.drill
    BY <1>2, WindowTyped DEF Window
<1>5. IsPage(q) /\ Kept(q) /\ ~q.drill
    BY <1>3, RememberTyped
<1>6. IsEntry(e, 1) /\ e.says = None /\ e.link = link.component
    BY <1>2, FreshEntry
<1>7. page = q /\ position = 1 /\ seek = Seek(link.component) /\ acts = 0
      /\ entries = <<w>> /\ browsed = Given(link, q, before) /\ remembered \in Saved(q, r)
    BY <1>1
<1>14. before \in [Tab -> ViewType]
    BY FoundTyped
<1> HIDE DEF p, q, before, e
<1>8. Fitting(e, q, 1)
    BY <1>5, <1>6 DEF Fitting
<1>9. /\ IsEntry(w, 1) /\ w.link = e.link /\ w.state = StateOf(q)
      /\ Fits(Serialize(q)) => w.url = Serialize(q)
    BY <1>5, <1>6, <1>8, Written
<1> HIDE DEF w
<1>10. entries \in Seq(Range(entries)) /\ Len(entries) = 1 /\ DOMAIN entries = {1} /\ entries[1] = w
    BY <1>7 DEF Range
<1>11. HistoryInv
    BY <1>7, <1>9, <1>10, BoundAssumption DEF HistoryInv, IsHistory
<1>12. MemoryInv
  <2>1. browsed \in [Tab -> ViewType]
      BY <1>5, <1>7, <1>14, GivenTyped
  <2>2. /\ DOMAIN remembered.tabViews \subseteq Tab
        /\ Light(q) => remembered = [filters |-> q.filters, tabViews |-> q.tabViews]
      BY <1>2, <1>5, <1>7, SavedTyped
  <2> QED
      BY <1>7, <2>1, <2>2 DEF MemoryInv
<1>13. SeekInv
    BY <1>2, <1>6, <1>7, <1>9, <1>10 DEF SeekInv, Seek
<1> QED
    BY <1>5, <1>7, <1>11, <1>12, <1>13, BoundAssumption DEF Inv, PageInv

-----------------------------------------------------------------------------
(* Steps: each keeps the invariant, and what the tabs show when browsed.   *)

Rest == PageInv /\ HistoryInv /\ MemoryInv /\ SeekInv

KeepsBrowsing == \A t \in Tab : Browsed(t)' = Browsed(t) \/ MayChange(t)

LEMMA Here ==
    ASSUME Inv
    PROVE  /\ IsPage(page) /\ Kept(page) /\ page.tab \in Tab /\ page.drill \in BOOLEAN
           /\ IsEntry(entries[position], position) /\ position \in DOMAIN entries
           /\ IsHistory(entries) /\ browsed \in [Tab -> ViewType]
           /\ entries[position].state # None
           /\ entries[position].state.returnTo = page.drill
           /\ entries[position].state.tab = page.tab
           /\ DOMAIN remembered.tabViews \subseteq Tab
           /\ seek.link = entries[position].link
BY StateTyped DEF Inv, PageInv, HistoryInv, MemoryInv, SeekInv, IsHistory, IsPage

\* The page stays at its entry.
LEMMA FittingHere ==
    ASSUME Inv, NEW p, p.drill = page.drill, p.drill => p.tab = page.tab
    PROVE  Fitting(entries[position], p, position)
BY Here DEF Fitting, IsEntry, Means

\* What is browsed is what the bar gives back, unless it is too large.
LEMMA BrowsedIsFound ==
    ASSUME Inv, NEW t \in Tab, t # page.tab \/ page.drill \/ Moderate(page)
    PROVE  Browsed(t) = Found(page, t)
<1>1. CASE t = page.tab /\ ~page.drill
  <2>1. At(page.tabViews, t, Blank) = ViewOf(page)
      BY <1>1, Here DEF Kept, At
  <2>2. View(t, ViewOf(page), Bare) = Now(page)
      BY <1>1, Here, ViewOfPage
  <2> QED
      BY <1>1, <2>1, <2>2 DEF Browsed, BrowsedOn, Found
<1>2. CASE ~(t = page.tab /\ ~page.drill)
    BY <1>2 DEF Browsed, BrowsedOn
<1> QED
    BY <1>1, <1>2

LEMMA ChooseStep ==
    ASSUME Inv, NEW p, IsPage(p), p.tab = page.tab, p.drill = page.drill,
           p.tabViews = page.tabViews, Choose(p)
    PROVE  Rest' /\ \A t \in Tab : Browsed(t)' = Browsed(t) \/ (t = page.tab /\ ~page.drill)
<1> DEFINE chosen == IF p.drill THEN browsed ELSE [browsed EXCEPT ![p.tab] = Now(p)]
<1>1. Fitting(entries[position], p, position)
    BY FittingHere
<1>2. Commit(p, entries, position, chosen) /\ UNCHANGED seek
    BY DEF Choose
<1>3. chosen \in [Tab -> ViewType]
  <2>1. Now(p) \in ViewType
      BY NowTyped
  <2> QED
      BY <2>1, Here
<1> HIDE DEF chosen
<1>4. /\ PageInv' /\ HistoryInv' /\ MemoryInv'
      /\ position' = position /\ entries'[position].link = entries[position].link
      /\ \A t \in Tab : Browsed(t)' = BrowsedOn(p, t)
    BY <1>1, <1>2, <1>3, Here, Committed
<1>5. Rest'
    BY <1>2, <1>4 DEF Rest, SeekInv, Inv
<1>6. ASSUME NEW t \in Tab, ~(t = page.tab /\ ~page.drill) PROVE Browsed(t)' = Browsed(t)
    BY <1>4, <1>6 DEF Browsed, BrowsedOn, Found
<1> QED
    BY <1>5, <1>6

LEMMA SetFilterStep ==
    ASSUME Inv, NEW f \in Filter, NEW value \in Offered[f], SetFilter(f, value)
    PROVE  Rest' /\ KeepsBrowsing
<1> DEFINE p == [page EXCEPT !.filters[f] = value]
<1>1. IsPage(page) /\ value \in Value
    BY Here DEF Value
<1>2. /\ DOMAIN p = DOMAIN page /\ p.filters = [page.filters EXCEPT ![f] = value]
      /\ p.tab = page.tab /\ p.focus = page.focus /\ p.drill = page.drill
      /\ p.tabViews = page.tabViews /\ p.cuts = page.cuts
    BY <1>1 DEF IsPage
<1>3. Choose(p)
    BY DEF SetFilter
<1> HIDE DEF p
<1>4. p.filters \in [Filter -> Value] /\ \A g \in Filter : p.filters[g] \in Offered[g]
    BY <1>1, <1>2 DEF IsPage
<1>5. IsPage(p)
    BY <1>1, <1>2, <1>4 DEF IsPage
<1>6. Rest' /\ \A t \in Tab : Browsed(t)' = Browsed(t) \/ (t = page.tab /\ ~page.drill)
    BY <1>2, <1>3, <1>5, ChooseStep
<1>7. Select
    BY DEF Select
<1> QED
    BY <1>6, <1>7 DEF KeepsBrowsing, MayChange

LEMMA SetFocusStep ==
    ASSUME Inv, NEW focus \in SUBSET Focus, SetDashboardFocus(focus)
    PROVE  Rest' /\ KeepsBrowsing
<1> DEFINE p == [page EXCEPT !.focus = focus \cap FocusOf[page.tab]]
<1>1. IsPage(page)
    BY Here
<1>2. /\ DOMAIN p = DOMAIN page /\ p.focus \in SUBSET Focus
      /\ p.tab = page.tab /\ p.filters = page.filters /\ p.drill = page.drill
      /\ p.tabViews = page.tabViews /\ p.cuts = page.cuts
    BY <1>1 DEF IsPage
<1>3. Choose(p)
    BY DEF SetDashboardFocus
<1> HIDE DEF p
<1>4. IsPage(p)
    BY <1>1, <1>2 DEF IsPage
<1>6. Rest' /\ \A t \in Tab : Browsed(t)' = Browsed(t) \/ (t = page.tab /\ ~page.drill)
    BY <1>2, <1>3, <1>4, ChooseStep
<1>7. Select
    BY DEF Select
<1> QED
    BY <1>6, <1>7 DEF KeepsBrowsing, MayChange

LEMMA SetCutsStep ==
    ASSUME Inv, NEW cut \in Cuts, SetCuts(cut)
    PROVE  Rest' /\ KeepsBrowsing
<1> DEFINE p == [page EXCEPT !.cuts = cut]
<1>1. IsPage(page)
    BY Here
<1>2. /\ DOMAIN p = DOMAIN page /\ p.cuts = cut
      /\ p.tab = page.tab /\ p.filters = page.filters /\ p.drill = page.drill
      /\ p.tabViews = page.tabViews /\ p.focus = page.focus
    BY <1>1 DEF IsPage
<1>3. Choose(p)
    BY DEF SetCuts
<1> HIDE DEF p
<1>4. IsPage(p)
    BY <1>1, <1>2 DEF IsPage
<1>6. Rest' /\ \A t \in Tab : Browsed(t)' = Browsed(t) \/ (t = page.tab /\ ~page.drill)
    BY <1>2, <1>3, <1>4, ChooseStep
<1>7. Select
    BY DEF Select
<1> QED
    BY <1>6, <1>7 DEF KeepsBrowsing, MayChange

LEMMA SeekTyped ==
    ASSUME NEW link \in Component \cup {None}
    PROVE  /\ Seek(link).link = link
           /\ Seek(link) \in [link : Component \cup {None}, handled : BOOLEAN,
                              tried : SUBSET Tab, origin : Tab \cup {None}]
BY DEF Seek

LEMMA OneEntry ==
    ASSUME NEW e, IsEntry(e, 1)
    PROVE  IsHistory(<<e>>) /\ 1 \in DOMAIN <<e>> /\ <<e>>[1] = e
<1>1. <<e>> \in Seq(Range(<<e>>)) /\ Len(<<e>>) = 1 /\ DOMAIN <<e>> = {1} /\ <<e>>[1] = e
    BY DEF Range
<1> QED
    BY <1>1, BoundAssumption DEF IsHistory

LEMMA OpenStep ==
    ASSUME Inv, NEW link, IsUrl(link.url), link.component \in Component \cup {None}, Open(link)
    PROVE  Rest'
<1> DEFINE p == Window(link.url, None, remembered)
           given == Given(link, p, browsed)
           e == Entry(link.url, link.component)
<1>1. Commit(p, <<e>>, 1, given) /\ seek' = Seek(link.component)
    BY DEF Open
<1>2. IsPage(p) /\ ~p.drill
    BY Here, WindowTyped DEF Window
<1>3. given \in [Tab -> ViewType]
    BY <1>2, Here, GivenTyped
<1>4. IsEntry(e, 1) /\ e.says = None /\ e.link = link.component
    BY FreshEntry
<1> HIDE DEF p, given, e
<1>5. IsHistory(<<e>>) /\ 1 \in DOMAIN <<e>> /\ <<e>>[1] = e
    BY <1>4, OneEntry
<1>6. Fitting(<<e>>[1], p, 1)
    BY <1>2, <1>4, <1>5 DEF Fitting
<1>7. /\ PageInv' /\ HistoryInv' /\ MemoryInv'
      /\ position' = 1 /\ entries'[1].link = <<e>>[1].link
    BY <1>1, <1>2, <1>3, <1>5, <1>6, Here, Committed
<1> QED
    BY <1>1, <1>4, <1>5, <1>7, SeekTyped DEF Rest, SeekInv

\* The entries up to the present one and one more.
LEMMA Pushed ==
    ASSUME IsHistory(entries), position \in DOMAIN entries,
           Len(entries) < MaxEntries \/ position < Len(entries),
           NEW e, IsEntry(e, position + 1)
    PROVE  LET past == Append(SubSeq(entries, 1, position), e)
           IN  /\ IsHistory(past) /\ position + 1 \in DOMAIN past /\ position + 1 > 1
               /\ past[position + 1] = e
<1> DEFINE kept == SubSeq(entries, 1, position)
           past == Append(kept, e)
           S == Range(entries) \cup {e}
<1>1. entries \in Seq(S) /\ position \in 1..Len(entries) /\ Len(entries) \in Nat
    BY DEF IsHistory
<1>2. /\ kept \in Seq(S) /\ Len(kept) = position
      /\ \A j \in 1..position : kept[j] = entries[j]
    BY <1>1
<1> HIDE DEF kept, S
<1>3. /\ past \in Seq(S \cup {e}) /\ Len(past) = position + 1 /\ past[position + 1] = e
      /\ \A j \in 1..position : past[j] = entries[j]
    BY <1>1, <1>2
<1> HIDE DEF past
<1>4. DOMAIN past = 1..(position + 1) /\ past \in [1..Len(past) -> Range(past)]
    BY <1>1, <1>3 DEF Range
<1>5. past \in Seq(Range(past))
    BY <1>1, <1>3, <1>4
<1>6. Len(past) <= MaxEntries
    BY <1>1, <1>3, BoundAssumption DEF IsHistory
<1>8. \A j \in DOMAIN past : IsEntry(past[j], j)
  <2>1. \A j \in 1..position : j \in DOMAIN entries
      BY <1>1
  <2> QED
      BY <1>1, <1>3, <1>4, <2>1 DEF IsHistory
<1> QED
    BY <1>1, <1>3, <1>4, <1>5, <1>6, <1>8 DEF IsHistory, past, kept

LEMMA PushStep ==
    ASSUME Inv, NEW p, IsPage(p), p.tabViews = page.tabViews, Push(p)
    PROVE  /\ Rest' /\ \A t \in Tab : Browsed(t)' = BrowsedOn(p, t)
           /\ p.tab # page.tab => Moderate(page)
<1> DEFINE views == With(page.tabViews, page.tab, ViewOf(page))
           sent == [p EXCEPT !.tabViews = views]
           new == Entry(Bare, None)
           e == Write(new, sent)
           past == Append(SubSeq(entries, 1, position), e)
           i == position + 1
<1>1. /\ Commit(p, past, i, browsed) /\ seek' = Seek(None) /\ Fits(Serialize(sent))
      /\ Len(entries) < MaxEntries \/ position < Len(entries)
    BY DEF Push
<1>2. /\ DOMAIN views = DOMAIN page.tabViews \cup {page.tab} /\ views[page.tab] = ViewOf(page)
      /\ DOMAIN views \subseteq Tab
    BY Here DEF With, IsPage
<1> HIDE DEF views
<1>3. /\ DOMAIN sent = DOMAIN p /\ sent.tabViews = views /\ sent.tab = p.tab
      /\ sent.filters = p.filters /\ sent.focus = p.focus /\ sent.drill = p.drill
      /\ sent.cuts = p.cuts
    BY DEF IsPage
<1> HIDE DEF sent
<1>4. IsPage(sent)
    BY <1>2, <1>3 DEF IsPage
<1>5. position \in Nat \ {0}
    BY Here DEF IsHistory
<1>6. IsEntry(new, i) /\ new.says = None /\ new.link = None
  <2>1. IsUrl(Bare)
      BY ViewAssumption DEF IsUrl, Bare, NoMap
  <2> QED
      BY <2>1, FreshEntry
<1>7. Fitting(new, sent, i)
    BY <1>5, <1>6 DEF Fitting
<1> HIDE DEF new, i
<1>8. /\ IsEntry(e, i) /\ e.link = None /\ e.state = StateOf(sent) /\ e.url = Serialize(sent)
    BY <1>1, <1>4, <1>6, <1>7, Written
<1>9. e.state.returnTo = p.drill /\ e.url.tab = p.tab
  <2>1. StateOf(sent).returnTo = sent.drill /\ Serialize(sent).tab = sent.tab
      BY <1>4, StateTyped, SerializeTyped
  <2> QED
      BY <1>3, <1>8, <2>1
<1> HIDE DEF e
<1>10. IsHistory(past) /\ i \in DOMAIN past /\ i > 1 /\ past[i] = e
    BY <1>1, <1>8, Here, Pushed DEF i
<1> HIDE DEF past
<1>11. Fitting(past[i], p, i)
    BY <1>8, <1>9, <1>10 DEF Fitting
<1>12. /\ PageInv' /\ HistoryInv' /\ MemoryInv'
      /\ position' = i /\ entries'[i].link = past[i].link
      /\ \A t \in Tab : Browsed(t)' = BrowsedOn(p, t)
    BY <1>1, <1>10, <1>11, Here, Committed
<1>13. Rest'
    BY <1>1, <1>8, <1>10, <1>12, SeekTyped DEF Rest, SeekInv
<1>14. ASSUME p.tab # page.tab PROVE Moderate(page)
  <2>1. \A f \in DOMAIN views[page.tab].filters : views[page.tab].filters[f] \notin Huge
      BY <1>1, <1>2, <1>3, <1>4, <1>14, FitsModerate
  <2>2. DOMAIN page.filters = Filter /\ ViewOf(page).filters = page.filters
      BY Here DEF IsPage, ViewOf
  <2> QED
      BY <1>2, <2>1, <2>2 DEF Moderate
<1> QED
    BY <1>12, <1>13, <1>14

\* The page has gone to tab t.
Gone(p, t, view) ==
    /\ DOMAIN p = DOMAIN page /\ p.tab = t /\ p.filters = Replace(view)
    /\ p.focus = view.focus /\ p.drill \in BOOLEAN /\ p.tabViews = page.tabViews
    /\ p.cuts = page.cuts

LEMMA GoneTyped ==
    ASSUME Inv, NEW t \in Tab, NEW saved, NEW url, NEW p, Gone(p, t, View(t, saved, url))
    PROVE  IsPage(p)
<1> DEFINE view == View(t, saved, url)
<1>1. /\ Replace(view) \in [Filter -> Value] /\ \A f \in Filter : Replace(view)[f] \in Offered[f]
      /\ view.focus \in SUBSET Focus
    BY ViewTyped, ReplaceTyped, Scopes
<1> HIDE DEF view
<1> QED
    BY <1>1, Here DEF IsPage, Gone, view

LEMMA NavigateStep ==
    ASSUME Inv, NEW t \in Tab, NavigateDashboardTab(t)
    PROVE  Rest' /\ \A x \in Tab : Browsed(x)' = Browsed(x)
<1> DEFINE saved == At(page.tabViews, t, Blank)
           p == GoTo(t, View(t, saved, Bare), FALSE)
<1>1. Push(p) /\ t # page.tab
    BY DEF NavigateDashboardTab, Found
<1>2. Gone(p, t, View(t, saved, Bare)) /\ ~p.drill
    BY Here DEF GoTo, IsPage, Gone
<1> HIDE DEF p
<1>3. IsPage(p)
    BY <1>2, GoneTyped
<1>4. Now(p) = Found(page, t)
    BY <1>2, TakenOver DEF Found, Gone
<1>5. p.tab = t /\ p.tabViews = page.tabViews
    BY <1>2 DEF Gone
<1>6. /\ Rest' /\ \A x \in Tab : Browsed(x)' = BrowsedOn(p, x)
      /\ Moderate(page)
    BY <1>1, <1>3, <1>5, PushStep
<1>7. ASSUME NEW x \in Tab PROVE BrowsedOn(p, x) = Browsed(x)
  <2>1. BrowsedOn(p, x) = Found(page, x)
      BY <1>2, <1>4, <1>5 DEF BrowsedOn, Found
  <2> QED
      BY <2>1, <1>6, BrowsedIsFound
<1> QED
    BY <1>6, <1>7

LEMMA ExploreStep ==
    ASSUME Inv, NEW t \in Tab, NEW payload \in Payloads, ExploreDashboard(t, payload)
    PROVE  Rest' /\ KeepsBrowsing
<1>1. PICK saved : Drill(t, At(page.tabViews, t, Blank), payload) = View(t, saved, Bare)
    BY DEF Drill
<1> DEFINE p == GoTo(t, View(t, saved, Bare), TRUE)
<1>2. Push(p)
    BY <1>1 DEF ExploreDashboard
<1>3. Gone(p, t, View(t, saved, Bare)) /\ p.drill
    BY Here DEF GoTo, IsPage, Gone
<1> HIDE DEF p
<1>4. IsPage(p)
    BY <1>3, GoneTyped
<1>5. p.tabViews = page.tabViews
    BY <1>3 DEF Gone
<1>6. Rest' /\ \A x \in Tab : Browsed(x)' = BrowsedOn(p, x)
    BY <1>2, <1>4, <1>5, PushStep
<1>7. Explore
    BY DEF Explore
<1>8. ASSUME NEW x \in Tab PROVE Browsed(x)' = Browsed(x) \/ MayChange(x)
  <2>1. Browsed(x)' = Found(page, x)
      BY <1>3, <1>5, <1>6 DEF BrowsedOn, Found
  <2>2. CASE x # page.tab \/ page.drill \/ Moderate(page)
      BY <2>1, <2>2, BrowsedIsFound
  <2>3. CASE x = page.tab /\ ~Moderate(page)
    <3>1. ~Fits(Serialize(page))
        BY <2>3, Here, FitsModerate
    <3> QED
        BY <1>7, <2>3, <3>1 DEF MayChange
  <2> QED
      BY <2>2, <2>3
<1> QED
    BY <1>6, <1>8 DEF KeepsBrowsing

\* Back, forward and reload: the page an entry makes is written back to it.
LEMMA ReturnStep ==
    ASSUME Inv, NEW i \in DOMAIN entries, NEW p, NEW saved, IsPage(p),
           p = Window(entries[i].url, entries[i].state, saved) \/ p = Restored(entries[i]),
           Commit(p, entries, i, browsed), seek' = Seek(entries[i].link)
    PROVE  /\ Rest' /\ \A t \in Tab : Browsed(t)' = BrowsedOn(p, t)
           /\ page'.tab = p.tab /\ page'.drill = p.drill
           /\ entries[i].says # None =>
                 \A t \in Tab : t # p.tab \/ ~p.drill =>
                    BrowsedOn(p, t) = entries[i].says.browsed[t]
<1> DEFINE e == entries[i]
           w == Opened(e.url)
<1>1. IsEntry(e, i) /\ e.link \in Component \cup {None}
    BY Here DEF IsHistory, IsEntry
<1>2. CASE e.says = None
  <2>1. p.drill => e.state # None /\ e.state.returnTo
    <3>1. CASE p = Window(e.url, e.state, saved)
        BY <3>1 DEF Window
    <3>2. CASE p = Restored(e)
        BY <3>2 DEF Restored
    <3> QED
        BY <3>1, <3>2
  <2>2. Fitting(e, p, i)
      BY <1>1, <1>2, <2>1 DEF Fitting, IsEntry
  <2>3. /\ PageInv' /\ HistoryInv' /\ MemoryInv'
        /\ position' = i /\ entries'[i].link = entries[i].link
        /\ page'.tab = p.tab /\ page'.drill = p.drill
        /\ \A t \in Tab : Browsed(t)' = BrowsedOn(p, t)
      BY <2>2, Here, Committed
  <2> QED
      BY <1>1, <1>2, <2>3, SeekTyped DEF Rest, SeekInv
<1>3. CASE e.says # None
  <2>1. Alike(p, w) /\ (p.drill <=> e.state.returnTo) /\ p.tab = e.url.tab
    <3>1. p = Window(e.url, e.state, saved) \/ p = Restored(e)
        OBVIOUS
    <3> HIDE DEF e
    <3> QED
        BY <1>1, <1>3, <3>1, Returned
  <2>2. Means(e)
      BY <1>1, <1>3 DEF IsEntry
  <2>3. Fitting(e, p, i)
      BY <1>1, <1>3, <2>1, <2>2 DEF Fitting, IsEntry, Means
  <2>4. ~w.drill
      BY DEF Opened, Window
  <2>5. /\ PageInv' /\ HistoryInv' /\ MemoryInv'
        /\ position' = i /\ entries'[i].link = entries[i].link
        /\ page'.tab = p.tab /\ page'.drill = p.drill
        /\ \A t \in Tab : Browsed(t)' = BrowsedOn(p, t)
      BY <2>3, Here, Committed
  <2> HIDE DEF w
  <2>6. ASSUME NEW t \in Tab, t # p.tab \/ ~p.drill PROVE BrowsedOn(p, t) = e.says.browsed[t]
    <3>1. BrowsedOn(w, t) = e.says.browsed[t]
        BY <2>1, <2>2, <2>6 DEF Means, w
    <3>2. Now(p) = Now(w) /\ Found(p, t) = Found(w, t) /\ p.tab = w.tab
        BY <2>1 DEF Alike, Now, Shown, Found
    <3> QED
        BY <2>4, <2>6, <3>1, <3>2 DEF BrowsedOn
  <2> QED
      BY <1>1, <2>5, <2>6, SeekTyped DEF Rest, SeekInv
<1> QED
    BY <1>2, <1>3

LEMMA BackStep ==
    ASSUME Inv, NEW i \in DOMAIN entries, Back(i)
    PROVE  Rest' /\ KeepsBrowsing
<1> DEFINE p == Restored(entries[i])
<1>1. Commit(p, entries, i, browsed) /\ seek' = Seek(entries[i].link)
    BY DEF Back
<1>2. IsPage(p)
  <2>1. IsEntry(entries[i], i)
      BY Here DEF IsHistory
  <2> QED
      BY <2>1, Here, RestoredTyped DEF IsEntry
<1>3. p = Restored(entries[i])
    OBVIOUS
<1> HIDE DEF p
<1>4. /\ Rest' /\ \A t \in Tab : Browsed(t)' = BrowsedOn(p, t)
      /\ page'.tab = p.tab /\ page'.drill = p.drill
      /\ entries[i].says # None =>
            \A t \in Tab : t # p.tab \/ ~p.drill => BrowsedOn(p, t) = entries[i].says.browsed[t]
    BY <1>1, <1>2, <1>3, ReturnStep
<1>5. ASSUME NEW t \in Tab PROVE MayChange(t)
  <2>1. entries[i].says # None /\ ~(page'.drill /\ t = page'.tab) =>
            Browsed(t)' = entries[i].says.browsed[t]
      BY <1>4
  <2> QED
      BY <2>1 DEF MayChange
<1> QED
    BY <1>4, <1>5 DEF KeepsBrowsing

LEMMA ReloadStep ==
    ASSUME Inv, Reload
    PROVE  Rest' /\ KeepsBrowsing
<1> DEFINE e == entries[position]
           p == Window(e.url, e.state, remembered)
           w == Window(Serialize(page), None, remembered)
<1>1. Commit(p, entries, position, browsed) /\ seek' = Seek(e.link)
    BY DEF Reload
<1>2. IsPage(p)
  <2>1. IsEntry(e, position) /\ DOMAIN remembered.tabViews \subseteq Tab
      BY Here
  <2> QED
      BY <2>1, WindowTyped DEF IsEntry
<1>3. p = Window(e.url, e.state, remembered) /\ position \in DOMAIN entries
    BY Here
<1>4. ASSUME Fits(Serialize(page)), NEW t \in Tab, ~(page.drill /\ t = page.tab)
      PROVE  BrowsedOn(p, t) = Browsed(t)
  <2>1. e.url = Serialize(page)
      BY <1>4 DEF Inv, HistoryInv
  <2>2. Serialize(page).complete /\ Serialize(page).tab = page.tab /\ page.tab # None
      BY Here, SerializeTyped, NoneAssumption
  <2>3. Alike(p, w) /\ p.tab = page.tab /\ (p.drill <=> page.drill)
      BY <2>1, <2>2, Here DEF Window, Alike
  <2>4. Moderate(page)
      BY <1>4, Here, FitsModerate
  <2>5. Shown(w) = Shown(page) /\ \A x \in Tab \ {page.tab} : Found(w, x) = Found(page, x)
      BY <2>4, Here, Sent
  <2> HIDE DEF p, w, e
  <2>6. Now(p) = Now(page)
    <3>1. Now(p) = Now(w)
        BY <2>3 DEF Alike, Now, Shown
    <3>2. Now(w) = Now(page)
        BY <2>5 DEF Now
    <3> QED
        BY <3>1, <3>2
  <2>7. t # page.tab => Found(p, t) = Found(page, t)
      BY <2>3, <2>5 DEF Alike, Found
  <2> QED
      BY <1>4, <2>3, <2>6, <2>7 DEF Browsed, BrowsedOn
<1> HIDE DEF p
<1>5. Rest' /\ \A t \in Tab : Browsed(t)' = BrowsedOn(p, t)
    BY <1>1, <1>2, <1>3, ReturnStep
<1>6. ASSUME NEW t \in Tab PROVE Browsed(t)' = Browsed(t) \/ MayChange(t)
    BY <1>4, <1>5 DEF MayChange
<1> QED
    BY <1>5, <1>6 DEF KeepsBrowsing

\* A page that is being searched was not explored, so that it can be moved.
LEMMA MoveToStep ==
    ASSUME Inv, NEW t \in Tab, Searching, MoveTo(t), Search
    PROVE  /\ PageInv' /\ HistoryInv' /\ MemoryInv' /\ entries'[position'].link = entries[position].link
           /\ KeepsBrowsing
<1> DEFINE p == [page EXCEPT !.tab = t]
<1>1. IsPage(page)
    BY Here
<1>2. /\ DOMAIN p = DOMAIN page /\ p.tab = t /\ p.filters = page.filters
      /\ p.focus = page.focus /\ p.drill = page.drill /\ p.tabViews = page.tabViews
      /\ p.cuts = page.cuts
    BY <1>1 DEF IsPage
<1>3. Commit(p, entries, position, browsed)
    BY DEF MoveTo
<1> HIDE DEF p
<1>4. IsPage(p)
    BY <1>1, <1>2 DEF IsPage
<1>5. ~p.drill
    BY <1>2, Here DEF Searching, IsEntry
<1>6. Fitting(entries[position], p, position)
    BY <1>2, <1>5, FittingHere
<1>7. /\ PageInv' /\ HistoryInv' /\ MemoryInv' /\ position' = position
      /\ entries'[position].link = entries[position].link /\ page'.tab = t
      /\ \A x \in Tab : Browsed(x)' = BrowsedOn(p, x)
    BY <1>2, <1>3, <1>4, <1>6, Here, Committed
<1>8. ASSUME NEW x \in Tab PROVE Browsed(x)' = Browsed(x) \/ MayChange(x)
  <2>1. CASE x = t
      BY <1>7, <2>1 DEF MayChange
  <2>2. CASE x # t
    <3>1. Browsed(x)' = Found(page, x)
        BY <1>2, <1>7, <2>2 DEF BrowsedOn, Found
    <3>2. CASE x # page.tab \/ Moderate(page)
        BY <3>1, <3>2, BrowsedIsFound
    <3>3. CASE x = page.tab /\ ~Moderate(page)
      <4>1. ~Fits(Serialize(page))
          BY <3>3, Here, FitsModerate
      <4> QED
          BY <3>3, <4>1 DEF MayChange
    <3> QED
        BY <3>2, <3>3
  <2> QED
      BY <2>1, <2>2
<1> QED
    BY <1>7, <1>8 DEF KeepsBrowsing

LEMMA NextTabTyped ==
    ASSUME NEW tried, Tab \ tried # {}
    PROVE  NextTab(tried) \in Tab
<1> DEFINE left == {i \in DOMAIN TabOrder : TabOrder[i] \notin tried}
<1>1. TabOrder \in Seq(Tab) /\ DOMAIN TabOrder \subseteq Nat \ {0}
    BY ViewAssumption
<1>2. left \subseteq Nat /\ left # {}
    BY <1>1 DEF Tab, Range
<1>3. IsWellFoundedOn(OpToRel(<, Nat), Nat)
    BY NatLessThanWellFounded
<1>4. PICK i \in left : \A j \in left : ~(<<j, i>> \in OpToRel(<, Nat))
    BY <1>2, <1>3, WFMin
<1>5. \A j \in left : ~(j < i)
    BY <1>2, <1>4 DEF OpToRel
<1>6. \A j \in 1..(i - 1) : TabOrder[j] \in tried
  <2> SUFFICES ASSUME NEW j \in 1..(i - 1) PROVE TabOrder[j] \in tried
      OBVIOUS
  <2>1. i \in 1..Len(TabOrder) /\ Len(TabOrder) \in Nat /\ DOMAIN TabOrder = 1..Len(TabOrder)
      BY <1>1
  <2>2. j \in DOMAIN TabOrder /\ j < i
      BY <2>1
  <2> QED
      BY <1>5, <2>2
<1>7. Dashboard \notin Tab \ tried => \E k \in DOMAIN TabOrder : NextTab(tried) = TabOrder[k]
  <2>1. \E k \in DOMAIN TabOrder : TabOrder[k] \notin tried
                                   /\ \A j \in 1..(k - 1) : TabOrder[j] \in tried
      BY <1>6
  <2> QED
      BY <2>1 DEF NextTab
<1> QED
    BY <1>7 DEF NextTab, Tab, Range

LEMMA SearchStep ==
    ASSUME Inv, FindComponent \/ Search
    PROVE  Rest' /\ acts' = acts /\ KeepsBrowsing
<1>1. seek \in [link : Component \cup {None}, handled : BOOLEAN, tried : SUBSET Tab,
                origin : Tab \cup {None}]
    BY DEF Inv, SeekInv
<1>2. page.tab \in Tab /\ Tried \in SUBSET Tab
    BY <1>1, Here DEF Tried
<1>3. CASE FindComponent
  <2>1. seek' = Ended /\ UNCHANGED <<page, entries, position, remembered, browsed, acts>>
      BY <1>3 DEF FindComponent
  <2>2. PageInv' /\ HistoryInv' /\ MemoryInv'
      BY <2>1 DEF Inv, PageInv, HistoryInv, MemoryInv
  <2>3. SeekInv'
      BY <1>1, <2>1, Here DEF SeekInv, Ended
  <2>4. KeepsBrowsing
      BY <2>1 DEF KeepsBrowsing, Browsed
  <2> QED
      BY <2>1, <2>2, <2>3, <2>4 DEF Rest
<1>4. CASE TryNextTab
  <2>1. MoveTo(NextTab(Tried)) /\ Searching /\ acts' = acts
      BY <1>4 DEF TryNextTab
  <2>2. NextTab(Tried) \in Tab
      BY <1>4, NextTabTyped DEF TryNextTab
  <2>6. Search
      BY <1>4 DEF Search
  <2>3. /\ PageInv' /\ HistoryInv' /\ MemoryInv' /\ entries'[position'].link = entries[position].link
        /\ KeepsBrowsing
      BY <2>1, <2>2, <2>6, MoveToStep
  <2>4. seek' = [seek EXCEPT !.tried = Tried, !.origin = IF @ = None THEN page.tab ELSE @]
      BY <1>4 DEF TryNextTab
  <2>5. SeekInv'
      BY <1>1, <1>2, <2>3, <2>4, Here DEF SeekInv
  <2> QED
      BY <2>1, <2>3, <2>5 DEF Rest
<1>5. CASE GiveUpComponent
  <2> DEFINE t == IF seek.origin = None THEN page.tab ELSE seek.origin
  <2>1. MoveTo(t) /\ Searching /\ acts' = acts /\ seek' = Ended
      BY <1>5 DEF GiveUpComponent
  <2>2. t \in Tab
      BY <1>1, <1>2
  <2> HIDE DEF t
  <2>6. Search
      BY <1>5 DEF Search
  <2>3. /\ PageInv' /\ HistoryInv' /\ MemoryInv' /\ entries'[position'].link = entries[position].link
        /\ KeepsBrowsing
      BY <2>1, <2>2, <2>6, MoveToStep
  <2>4. SeekInv'
      BY <1>1, <2>1, <2>3, Here DEF SeekInv, Ended
  <2> QED
      BY <2>1, <2>3, <2>4 DEF Rest
<1> QED
    BY <1>3, <1>4, <1>5 DEF Search

LEMMA InvNext ==
    ASSUME Inv, Next
    PROVE  Inv' /\ KeepsBrowsing
<1>1. acts \in 0..MaxActs
    BY DEF Inv
<1>2. CASE Act
  <2>1. acts < MaxActs /\ acts' = acts + 1
      BY <1>2 DEF Act
  <2>2. acts' \in 0..MaxActs
      BY <1>1, <2>1, BoundAssumption
  <2>3. ASSUME Select PROVE Rest' /\ KeepsBrowsing
    <3>1. ASSUME NEW f \in Filter, NEW value \in Offered[f], SetFilter(f, value)
          PROVE  Rest' /\ KeepsBrowsing
        BY <3>1, SetFilterStep
    <3>2. ASSUME NEW focus \in SUBSET Focus, SetDashboardFocus(focus) PROVE Rest' /\ KeepsBrowsing
        BY <3>2, SetFocusStep
    <3>3. ASSUME NEW cut \in Cuts, SetCuts(cut) PROVE Rest' /\ KeepsBrowsing
        BY <3>3, SetCutsStep
    <3> QED
        BY <2>3, <3>1, <3>2, <3>3 DEF Select
  <2>4. ASSUME Explore PROVE Rest' /\ KeepsBrowsing
    <3>1. PICK t \in Tab, payload \in Payloads : ExploreDashboard(t, payload)
        BY <2>4 DEF Explore
    <3> QED
        BY <3>1, ExploreStep
  <2>5. ASSUME Reopen PROVE Rest' /\ KeepsBrowsing
    <3>1. PICK link \in Links \cup {[url |-> entries[position].url, component |-> None]} : Open(link)
        BY <2>5 DEF Reopen
    <3>2. IsUrl(link.url) /\ link.component \in Component \cup {None}
      <4>1. CASE link \in Links
          BY <4>1, LinkTyped
      <4>2. CASE link = [url |-> entries[position].url, component |-> None]
          BY <4>2, Here DEF IsEntry
      <4> QED
          BY <3>1, <4>1, <4>2
    <3>3. Rest'
        BY <3>1, <3>2, OpenStep
    <3> QED
        BY <2>5, <3>3 DEF KeepsBrowsing, MayChange
  <2>6. Rest' /\ KeepsBrowsing
      BY <1>2, <2>3, <2>4, <2>5 DEF Act
  <2> QED
      BY <2>2, <2>6 DEF Inv, Rest
<1>3. CASE Move
  <2>1. ASSUME NEW t \in Tab, NavigateDashboardTab(t) PROVE Rest' /\ KeepsBrowsing
      BY <2>1, NavigateStep DEF KeepsBrowsing
  <2>2. ASSUME NEW i \in DOMAIN entries, Back(i) PROVE Rest' /\ KeepsBrowsing
      BY <2>2, BackStep
  <2>3. ASSUME Reload PROVE Rest' /\ KeepsBrowsing
      BY <2>3, ReloadStep
  <2>4. Rest' /\ KeepsBrowsing /\ acts' = acts
      BY <1>3, <2>1, <2>2, <2>3 DEF Move
  <2> QED
      BY <1>1, <2>4 DEF Inv, Rest
<1>4. CASE FindComponent \/ Search
    BY <1>1, <1>4, SearchStep DEF Inv, Rest
<1> QED
    BY <1>2, <1>3, <1>4 DEF Next

-----------------------------------------------------------------------------
(* What follows.                                                           *)

\* The page, the entries of the history and what is remembered agree with each
\* other in every reachable state: the effects of DataAppShell.jsx and of
\* use-presentation.js run after every handler, and what they could not write, for its
\* size, is behind.
THEOREM Invariance == Spec => []Inv
<1>1. Inv /\ UNCHANGED vars => Inv'
    BY DEF vars, Inv, PageInv, HistoryInv, MemoryInv, SeekInv
<1>2. Inv /\ [Next]_vars => Inv'
    BY <1>1, InvNext
<1> QED
    BY <1>2, InvInit, PTL DEF Spec

\* Whatever was remembered, linked or passed on, a filter has one of the choices
\* reviewed for it (resolveDashboardView), and Back is offered only where there is
\* an entry to return to: TypeOK.
THEOREM TypeCorrect == Spec => []TypeOK
<1>1. Inv => TypeOK
  <2> SUFFICES ASSUME Inv PROVE TypeOK
      OBVIOUS
  <2>1. IsPage(page) /\ (page.drill => position > 1)
      BY Here DEF IsEntry
  <2>2. position \in DOMAIN entries /\ Len(entries) <= MaxEntries
      BY Here DEF IsHistory
  <2>3. seek.link \in Component \cup {None} /\ seek.tried \subseteq Tab
      BY DEF Inv, SeekInv
  <2>4. browsed \in [Tab -> ViewType] /\ acts \in 0..MaxActs
      BY Here DEF Inv
  <2> QED
      BY <2>1, <2>2, <2>3, <2>4 DEF TypeOK, IsPage
<1> QED
    BY <1>1, Invariance, PTL

\* A link copied from the address bar shows whoever opens it what its sender sees,
\* on every tab, whatever that reader has chosen before
\* (serializeDashboardUrlState, parseDashboardUrlState): SharedLinkShowsTheView.
THEOREM LinkShows == Spec => []SharedLinkShowsTheView
<1>1. Inv => SharedLinkShowsTheView
  <2> SUFFICES ASSUME Inv, Fits(Serialize(page)), NEW r \in Readers
               PROVE  LET opened == Window(entries[position].url, None, r)
                      IN  /\ Shown(opened) = Shown(page)
                          /\ \A t \in Tab \ {page.tab} : Found(opened, t) = Found(page, t)
      BY DEF SharedLinkShowsTheView
  <2>1. entries[position].url = Serialize(page)
      BY DEF Inv, HistoryInv
  <2>2. Moderate(page)
      BY Here, FitsModerate
  <2> QED
      BY <2>1, <2>2, Here, Sent
<1> QED
    BY <1>1, Invariance, PTL

\* Back, forward and reload show what the address of the entry was written for
\* (restoreDashboardUrlState), and offer to return where it did:
\* BackShowsWhatWasLeft.
THEOREM BackShows == Spec => []BackShowsWhatWasLeft
<1>1. Inv => BackShowsWhatWasLeft
  <2> SUFFICES ASSUME Inv, NEW i \in DOMAIN entries, entries[i].says # None,
                      NEW p, p = Window(entries[i].url, entries[i].state, remembered)
                             \/ p = Restored(entries[i])
               PROVE  Shown(p) = entries[i].says.shown /\ (p.drill <=> entries[i].state.returnTo)
      BY DEF BackShowsWhatWasLeft
  <2>1. IsEntry(entries[i], i)
      BY Here DEF IsHistory
  <2>2. Alike(p, Opened(entries[i].url)) /\ (p.drill <=> entries[i].state.returnTo)
      BY <2>1, Returned
  <2>3. Shown(Opened(entries[i].url)) = entries[i].says.shown
      BY <2>1 DEF IsEntry, Means
  <2> QED
      BY <2>2, <2>3 DEF Shown, Alike
<1> QED
    BY <1>1, Invariance, PTL

\* A tab goes on showing what it showed when it was browsed, whatever is chosen or
\* explored on others and however the reader moves; what changes it is a selection on
\* it, a link, an entry gone back to, the reload of an exploration, the search, and
\* what does not fit an address (navigateDashboardTab, exploreDashboard,
\* restoreDashboardUrlState): BrowsingIsKept.
THEOREM BrowsingKept == Spec => BrowsingIsKept
<1>1. Inv /\ [Next]_vars => [\A t \in Tab : Browsed(t)' = Browsed(t) \/ MayChange(t)]_vars
    BY InvNext DEF KeepsBrowsing
<1> QED
    BY <1>1, Invariance, PTL DEF Spec, BrowsingIsKept
=============================================================================
