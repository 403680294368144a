---------------------------- MODULE CoverageView ----------------------------
(***************************************************************************)
(* The dashboard of one coverage area (features/coverage-management):      *)
(* switching between the list and an area, the area's details and history, *)
(* its streets on the map and the panel in which a street is marked.       *)
(***************************************************************************)
EXTENDS Naturals, FiniteSets

CONSTANTS
    Areas, NoArea,
    MaxSync,     \* how often the server recalculates an area (its sync token)
    MaxSteps     \* bound on what the user does

VARIABLE ui

Views == {"list", "area"}
Maybe == Areas \cup {NoArea}
Key == [a : Areas, v : 0..MaxSync]           \* buildStreetsCacheKey
NoKey == [a |-> NoArea, v |-> 0]
Counts == 0..(2 * MaxSteps)

TypeOK ==
    ui \in [ view   : Views, shown : SUBSET Views,
             moves  : SUBSET [from : Views, to : Views, stage : 1..2, n : Counts, area : Maybe],
             tangled : BOOLEAN, mixed : BOOLEAN,       \* a transition, a visit began during another
             area   : Maybe, req : Counts, data : Maybe, token : 0..MaxSync,
             activity : Maybe, jobs : Maybe,           \* the two halves of the history tab
             map    : {"none", "starting", "ready"},
             loads  : Counts, cache : Key \cup {NoKey}, rendered : Key \cup {NoKey},
             drawn  : Maybe, fresh : BOOLEAN,          \* whose streets the map shows; layers as filtered
             filter : SUBSET {"driven", "undriven"}, layers : SUBSET {"driven", "undriven", "undriveable"},
             segment : Maybe, lit : Maybe,             \* the area whose segment is selected, highlighted
             sync   : [Areas -> 0..MaxSync], misfiled : BOOLEAN,
             net    : SUBSET [op : {"view", "refresh", "activity", "jobs", "streets", "mark"},
                              of : Areas, n : Counts, v : 0..MaxSync],
             steps  : 0..MaxSteps ]

User == ui.steps < MaxSteps
Acted(u) == [u EXCEPT !.steps = @ + 1]
Sent(u, op, of, n, v) == [u EXCEPT !.net = @ \cup {[op |-> op, of |-> of, n |-> n, v |-> v]}]
Got(u, r) == [u EXCEPT !.net = @ \ {r}]

-----------------------------------------------------------------------------
(* switchView takes 200 ms to hide the view it found current and 280 ms to *)
(* bring in the next; only then does the page count as switched.           *)
CloseStreetDetailPanel(u) == [u EXCEPT !.segment = NoArea, !.lit = NoArea]

SwitchView(u, to, n, a) ==
    [u EXCEPT !.moves = @ \cup {[from |-> u.view, to |-> to, stage |-> 1, n |-> n, area |-> a]},
              !.tangled = @ \/ u.moves # {}]

ViewArea(a) ==
    /\ User /\ "list" \in ui.shown
    /\ ui' = Acted(SwitchView(CloseStreetDetailPanel([ui EXCEPT !.req = @ + 1, !.area = a,
                                                                      !.mixed = @ \/ ui.data # NoArea]),
                              "area", ui.req + 1, a))

(* The area's state goes at once, the view 480 ms later.                   *)
BackToList ==
    /\ User /\ "area" \in ui.shown
    /\ ui' = Acted(SwitchView([CloseStreetDetailPanel(ui) EXCEPT
                                 !.req = @ + 1, !.area = NoArea, !.data = NoArea, !.token = 0],
                              "list", ui.req + 1, NoArea))

Exited(m) ==
    /\ m.stage = 1
    /\ ui' = [ui EXCEPT !.shown = (@ \ {m.from}) \cup {m.to},
                        !.moves = (@ \ {m}) \cup {[m EXCEPT !.stage = 2]}]

(* viewArea goes on to ask for the details, backToList for the list.       *)
Entered(m) ==
    /\ m.stage = 2
    /\ LET u == [ui EXCEPT !.view = m.to, !.moves = @ \ {m}] IN
       ui' = IF m.area = NoArea THEN u ELSE Sent(u, "view", m.area, m.n, ui.sync[m.area])

-----------------------------------------------------------------------------
(* The streets: one cache entry, keyed by the area and its sync token. The *)
(* entry is replaced before the answer is checked to be the wanted one.    *)
LayersShown(u) == u.filter \cup (IF u.filter = {} THEN {"driven", "undriven", "undriveable"} ELSE {})

Drawn(u, k) ==
    [u EXCEPT !.drawn = k.a, !.rendered = k,
              !.layers = IF u.drawn = NoArea THEN {"driven", "undriven", "undriveable"} ELSE @,
              !.fresh = IF u.drawn = NoArea THEN u.filter = {} ELSE @]

LoadStreets(u, a, v) ==
    LET k == [a |-> a, v |-> v]
        w == [u EXCEPT !.loads = @ + 1] IN
    CASE k = u.rendered -> w
      [] k # u.rendered /\ u.cache = k -> Drawn(w, k)
      [] OTHER -> Sent(w, "streets", a, u.loads + 1, v)

StreetsArrive(r) ==
    /\ r.op = "streets"
    /\ LET k == [a |-> r.of, v |-> r.v]
           u == [Got(ui, r) EXCEPT !.cache = k] IN
       ui' = IF r.n = ui.loads /\ r.of = ui.area THEN Drawn(u, k) ELSE u

-----------------------------------------------------------------------------

(* An answer counts if its visit is still the page's.                      *)
ThisVisit(r) == r.n = ui.req /\ r.of = ui.area

(* The first area makes the map, which loads the streets of whatever area  *)
(* is open when it is ready.                                               *)
AreaArrives(r) ==
    /\ r.op = "view"
    /\ LET u == [Got(ui, r) EXCEPT !.data = r.of, !.token = r.v] IN
       ui' = CASE ~ThisVisit(r) -> Got(ui, r)
               [] ThisVisit(r) /\ ui.map = "none" -> [u EXCEPT !.map = "starting"]
               [] OTHER -> LoadStreets(u, r.of, r.v)

MapReady ==
    /\ ui.map = "starting"
    /\ LET u == [ui EXCEPT !.map = "ready"] IN
       ui' = IF ui.area = NoArea THEN u ELSE LoadStreets(u, ui.area, ui.token)

RefreshDashboardStats(u, a) == Sent(u, "refresh", a, u.req, u.sync[a])

RefreshArrives(r) ==
    /\ r.op = "refresh"
    /\ ui' = Got(ui, r)

(* The history tab asks for the driving activity and the jobs of the area. *)
OpenHistory ==
    /\ User /\ "area" \in ui.shown /\ ui.area # NoArea
    /\ ui' = Acted(Sent(Sent([ui EXCEPT !.activity = NoArea, !.jobs = NoArea],
                             "activity", ui.area, 0, 0), "jobs", ui.area, 0, 0))

ActivityArrives(r) ==
    /\ r.op = "activity"
    /\ ui' = IF r.of = ui.area THEN [Got(ui, r) EXCEPT !.activity = r.of] ELSE Got(ui, r)

JobsArrive(r) ==
    /\ r.op = "jobs"
    /\ ui' = IF r.of = ui.area THEN [Got(ui, r) EXCEPT !.jobs = r.of] ELSE Got(ui, r)

RequestFails(r) == ui' = Got(ui, r)

-----------------------------------------------------------------------------
(* A street of the layers on the map is clicked; what is on the map may be *)
(* the streets of the area open before.                                    *)
OpenStreetDetailPanel ==
    /\ User /\ "area" \in ui.shown /\ ui.drawn # NoArea
    /\ ui' = Acted([ui EXCEPT !.segment = ui.drawn, !.lit = ui.drawn])

ClosePanel ==
    /\ User /\ ui.segment # NoArea
    /\ ui' = Acted(CloseStreetDetailPanel(ui))

(* Marked under the area open now, whatever area the segment is of.        *)
MarkSegment ==
    /\ User /\ ui.segment # NoArea /\ ui.area # NoArea
    /\ ui' = Acted(Sent([ui EXCEPT !.misfiled = @ \/ ui.segment # ui.area], "mark", ui.area, ui.steps + 1, 0))

(* updateStreetStatus puts the cached streets on the map again, which need *)
(* not be the ones drawn, and forgets which they are.                      *)
UpdateStreetStatus(u) ==
    IF u.drawn = NoArea \/ u.cache = NoKey THEN u
    ELSE [u EXCEPT !.drawn = u.cache.a, !.rendered = NoKey]

MarkArrives(r) ==
    /\ r.op = "mark"
    /\ ui' = RefreshDashboardStats(CloseStreetDetailPanel(UpdateStreetStatus(Got(ui, r))), r.of)

(* A status chip toggles, "all" and an empty choice show every layer; a    *)
(* choice made before the layers exist reaches none of them.               *)
ApplyMapFilter(f) ==
    /\ User /\ "area" \in ui.shown
    /\ LET fs == (ui.filter \ f) \cup (f \ ui.filter)
           u == [ui EXCEPT !.filter = IF f = {} THEN {} ELSE fs, !.lit = ui.segment] IN
       ui' = Acted(IF ui.drawn = NoArea THEN u ELSE [u EXCEPT !.layers = LayersShown(u), !.fresh = TRUE])

(* Back by key only when no panel is open; Escape closes that first.       *)
Escape ==
    /\ ui.view = "area"
    /\ IF ui.segment # NoArea THEN ClosePanel ELSE BackToList

(* A recalculation of the area on the server.                              *)
ServerSyncs(a) ==
    /\ ui.sync[a] < MaxSync
    /\ ui' = [ui EXCEPT !.sync[a] = @ + 1]

Start ==
    [ view |-> "list", shown |-> {"list"}, moves |-> {}, tangled |-> FALSE, mixed |-> FALSE, area |-> NoArea,
      req |-> 0, data |-> NoArea, token |-> 0, activity |-> NoArea, jobs |-> NoArea, map |-> "none",
      loads |-> 0, cache |-> NoKey, rendered |-> NoKey, drawn |-> NoArea, fresh |-> TRUE,
      filter |-> {}, layers |-> {}, segment |-> NoArea, lit |-> NoArea, sync |-> [a \in Areas |-> 0],
      misfiled |-> FALSE, net |-> {}, steps |-> 0 ]

Init == ui = Start

Next ==
    \/ BackToList \/ MapReady \/ OpenHistory \/ OpenStreetDetailPanel \/ ClosePanel \/ MarkSegment \/ Escape
    \/ \E a \in Areas : ViewArea(a) \/ ServerSyncs(a)
    \/ \E m \in ui.moves : Exited(m) \/ Entered(m)
    \/ \E f \in {{}, {"driven"}, {"undriven"}} : ApplyMapFilter(f)
    \/ \E r \in ui.net :
        \/ AreaArrives(r) \/ RefreshArrives(r) \/ ActivityArrives(r) \/ JobsArrive(r)
        \/ StreetsArrive(r) \/ MarkArrives(r) \/ RequestFails(r)

Spec == Init /\ [][Next]_ui

-----------------------------------------------------------------------------
(* The dashboard never mixes areas: its details are those of the area open *)
(* now, whatever order the answers to earlier visits come in, unless two   *)
(* transitions left the list clickable beside an open area.                *)
DashboardOfOneArea ==
    ~ui.mixed => /\ ui.data \in {ui.area, NoArea}
                 /\ ui.data # NoArea => ui.token <= ui.sync[ui.area]

(* What loadStreets relies on to skip drawing: the key it remembers is of  *)
(* the streets the map really shows.                                       *)
RenderedIsOnMap == ui.rendered # NoKey => ui.drawn = ui.rendered.a

(* Outside of a transition exactly one view is on the screen and is the    *)
(* current one, unless a transition was started while another ran.         *)
OneViewShown == ui.moves = {} /\ ~ui.tangled => ui.shown = {ui.view}

(* The highlighted street is the one in the panel, and the layers on the   *)
(* map are the chosen ones unless they were chosen before they existed.    *)
PanelMatchesMap ==
    /\ ui.lit = ui.segment
    /\ ui.fresh /\ ui.drawn # NoArea => ui.layers = LayersShown(ui)
=============================================================================
