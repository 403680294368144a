------------------------------ MODULE AppShell ------------------------------
(***************************************************************************)
(* The single-page shell: Swup visits and history (core/navigation.js),    *)
(* route modules and their libraries (core/route-loader.js,                *)
(* core/library-loader.js), the life of a page (utils/dom.js onPageLoad)   *)
(* and the filters shared through the URL (core/store.js). JavaScript runs *)
(* to the next await, so one step is one callback.                         *)
(***************************************************************************)
EXTENDS Naturals, Sequences, FiniteSets

CONSTANTS
    Pages,       \* routes with a module of their own
    Home,        \* the page the browser opens
    MapPages,    \* pages whose module needs the map library
    Filters,     \* values of the shared filter
    NoFilter,    \* the parameter is absent
    MaxEntries,  \* bound on the session history
    MaxSteps,    \* bound on what the user does
    Faults       \* subset of {"cdn", "module"}: what may fail to load

VARIABLE ui      \* the shell's state, one of States

NoVisit == [to |-> Home, q |-> NoFilter, phase |-> "none"]

States ==
    [ hist     : Seq([path : Pages, q : Filters \cup {NoFilter}, src : {"swup", "es-store"}]),
      at       : 1..MaxEntries,
      rendered : Pages,                       \* document.body.dataset.route
      location : Pages,                       \* where Swup believes to be
      crumb    : Pages,                       \* the breadcrumb trail
      visit    : [to : Pages, q : Filters \cup {NoFilter},
                  phase : {"none", "fetching", "replaced"}],
      filters  : Filters \cup {NoFilter},     \* store.state.filters
      told     : Filters \cup {NoFilter},     \* last es:filters-change
      script   : {"none", "loading", "failed", "ready"},
      pending  : BOOLEAN,                     \* a loadScript promise is open
      mods     : [Pages -> {"absent", "library", "importing", "bound"}],
      due      : SUBSET Pages,                \* setTimeout(run, 0)
      waiting  : SUBSET Pages,                \* run once appReady
      active   : SUBSET Pages,                \* initialised, not cleaned up
      late     : SUBSET Pages,                \* initialised while being left
      drift    : BOOLEAN,                     \* a skipped popstate crossed a visit
      ready    : BOOLEAN,                     \* swupReady and appReady
      steps    : 0..MaxSteps ]

TypeOK == ui \in States

Url == ui.hist[ui.at]

-----------------------------------------------------------------------------
(* Route modules.                                                          *)

(* importOnce: a key already in loadedRoutes is never imported again.      *)
Ensured(u, p) ==
    IF u.mods[p] # "absent" THEN u
    ELSE IF p \in MapPages /\ u.script # "ready"
         THEN [u EXCEPT !.mods[p] = "library", !.pending = TRUE,
                        !.script = IF @ = "none" THEN "loading" ELSE @]
         ELSE [u EXCEPT !.mods[p] = "importing"]

(* loadScript finds the old element again and only waits for its events.   *)
Rejected(u) == [u EXCEPT !.pending = FALSE,
                         !.mods = [p \in Pages |-> IF @[p] = "library" THEN "absent" ELSE @[p]]]

LibraryLoads ==
    /\ ui.script = "loading"
    /\ ui' = [ui EXCEPT !.script = "ready", !.pending = FALSE,
                        !.mods = [p \in Pages |-> IF @[p] = "library" THEN "importing" ELSE @[p]]]

LibraryFails ==
    /\ "cdn" \in Faults
    /\ ui.script = "loading"
    /\ ui' = Rejected([ui EXCEPT !.script = "failed"])

LibraryTimesOut ==
    /\ "cdn" \in Faults
    /\ ui.pending
    /\ ui' = Rejected(ui)

(* The module registers its page: run once soon, and on every page:view.   *)
ModuleArrives(p) ==
    /\ ui.mods[p] = "importing"
    /\ ui' = [ui EXCEPT !.mods[p] = "bound", !.due = @ \cup {p}]

ModuleFails(p) ==
    /\ "module" \in Faults
    /\ ui.mods[p] = "importing"
    /\ ui' = [ui EXCEPT !.mods[p] = "absent"]

-----------------------------------------------------------------------------
(* The life of a page.                                                     *)

(* run: clean the previous incarnation, then initialise.                   *)
Run(u, ps) ==
    LET here == {p \in ps : p = u.rendered} IN
    IF ~u.ready THEN [u EXCEPT !.waiting = @ \cup here]
    ELSE [u EXCEPT !.active = @ \cup here,
                   !.late = IF u.visit.phase = "fetching" THEN @ \cup here ELSE @ \ here]

RunDue(p) ==
    /\ p \in ui.due
    /\ ui' = Run([ui EXCEPT !.due = @ \ {p}], {p})

(* handleUnload: the page that is left is cleaned and its signal aborted.  *)
Unloaded(u, from) ==
    [u EXCEPT !.active = IF u.mods[from] = "bound" THEN @ \ {from} ELSE @,
              !.late = @ \ {from}]

-----------------------------------------------------------------------------
(* The store and its URL.                                                  *)

(* applyUrlParams: only a parameter that is present counts.                *)
Applied(u, q) ==
    IF q \in {NoFilter, u.filters} THEN u
    ELSE [u EXCEPT !.filters = q, !.told = q]

(* syncUrl: push a history entry of the store's own, or replace.           *)
Synced(u, q, push) ==
    LET here == u.hist[u.at] IN
    IF push
    THEN [u EXCEPT !.hist = Append(SubSeq(@, 1, u.at), [here EXCEPT !.q = q, !.src = "es-store"]),
                   !.at = @ + 1]
    ELSE [u EXCEPT !.hist[u.at].q = q]

User == ui.steps < MaxSteps

UpdateFilters(q, push) ==
    /\ User
    /\ push => ui.at < MaxEntries
    /\ ui' = Synced([ui EXCEPT !.filters = q, !.told = q, !.steps = @ + 1], q, push)

(* The map starts on the current day unless the URL says otherwise; only   *)
(* then the store is changed without its URL.                              *)
ApplyDefaultDateRange(q) ==
    /\ User
    /\ ui.ready /\ ui.active \cap MapPages # {} /\ Url.q = NoFilter /\ q # ui.filters
    /\ ui' = [ui EXCEPT !.filters = q, !.told = q, !.steps = @ + 1]

-----------------------------------------------------------------------------
(* Visits. Swup calls visit:start, changes the URL, fetches, replaces the  *)
(* content and announces page:view; a visit not yet replaced is superseded.*)
Started(u, to, q) ==
    [Unloaded(Ensured(u, to), u.location) EXCEPT
        !.location = to, !.visit = [to |-> to, q |-> q, phase |-> "fetching"], !.steps = @ + 1]

Navigate(p) ==
    /\ User
    /\ ui.visit.phase # "replaced"
    /\ p # ui.location
    /\ ui.at < MaxEntries
    /\ LET u == Started(ui, p, NoFilter) IN
       ui' = [u EXCEPT !.hist = Append(SubSeq(@, 1, u.at),
                                       [path |-> p, q |-> NoFilter, src |-> "swup"]),
                       !.at = @ + 1]

(* Mutant: every entry of the store is left to the store.                  *)
SkipAllStoreEntries(e) == e.src # "swup"

(* skipPopStateHandling: the store's entries stay on the rendered route.   *)
SkipPopState(e) == e.src # "swup" /\ e.path = ui.rendered

(* The shell's own popstate listener.                                      *)
StorePopState(u, e) == IF e.path = ui.rendered THEN Applied(u, e.q) ELSE u

(* Back and forward.                                                       *)
PopState(i) ==
    /\ User
    /\ ui.visit.phase # "replaced"
    /\ i \in 1..Len(ui.hist) \ {ui.at}
    /\ LET e == ui.hist[i]
           u == [ui EXCEPT !.at = i] IN
       ui' = IF SkipPopState(e)
             THEN [StorePopState(u, e) EXCEPT !.steps = @ + 1,
                                              !.drift = @ \/ ui.visit.phase = "fetching"]
             ELSE Started(u, e.path, e.q)

(* content:replace sets the route, the navigation bar and the map shell.   *)
ContentReplace ==
    /\ ui.visit.phase = "fetching"
    /\ ui' = [ui EXCEPT !.rendered = ui.visit.to, !.visit.phase = "replaced"]

PageView ==
    /\ ui.visit.phase = "replaced"
    /\ LET u == Applied([ui EXCEPT !.visit = NoVisit, !.crumb = Url.path], ui.visit.q) IN
       ui' = IF ui.ready THEN Run(u, {p \in Pages : u.mods[p] = "bound"}) ELSE u

(* initNavigation goes on when its route module is there, or is given up.  *)
AppReady ==
    /\ ~ui.ready
    /\ ui.mods[Home] \notin {"library", "importing"}
    /\ ui' = Run([ui EXCEPT !.ready = TRUE, !.waiting = {}, !.rendered = Url.path,
                            !.crumb = Url.path], ui.waiting)

Booted(path, q) ==
    Ensured([ hist |-> <<[path |-> path, q |-> q, src |-> "swup"]>>, at |-> 1,
              rendered |-> path, location |-> path, crumb |-> path, visit |-> NoVisit,
              filters |-> q, told |-> q, script |-> "none", pending |-> FALSE,
              mods |-> [p \in Pages |-> "absent"], due |-> {}, waiting |-> {},
              active |-> {}, late |-> {}, drift |-> FALSE, ready |-> FALSE, steps |-> 0 ], path)

Init == \E q \in Filters \cup {NoFilter} : ui = Booted(Home, q)

Next ==
    \/ LibraryLoads \/ LibraryFails \/ LibraryTimesOut
    \/ \E p \in Pages : ModuleArrives(p) \/ ModuleFails(p) \/ RunDue(p) \/ Navigate(p)
    \/ \E q \in Filters \cup {NoFilter}, push \in BOOLEAN : UpdateFilters(q, push)
    \/ \E q \in Filters : ApplyDefaultDateRange(q)
    \/ \E i \in 1..MaxEntries : PopState(i)
    \/ ContentReplace \/ PageView \/ AppReady

Spec == Init /\ [][Next]_ui

-----------------------------------------------------------------------------
(* At rest the content, the breadcrumb and the address bar agree, whatever *)
(* mix of Swup's and the store's own history entries was walked through,   *)
(* unless one of the store's was reached while a visit was under way: then *)
(* skipPopStateHandling hides it from Swup and the visit goes on.          *)
RouteMatchesUrl ==
    ui.visit.phase = "none" /\ ui.ready /\ ~ui.drift => ui.rendered = Url.path /\ ui.crumb = Url.path

(* No page but the rendered one is alive, unless its module arrived while  *)
(* it was being left (then nothing cleans it up before its next visit).    *)
OnePageAlive ==
    ui.visit.phase = "none" /\ ~ui.drift => ui.active \ ui.late \subseteq {ui.rendered}

(* The pages work on the filter the store has.                             *)
PagesKnowFilter == ui.told = ui.filters
=============================================================================
