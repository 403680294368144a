---------------------------- MODULE DrivePlanner ----------------------------
(***************************************************************************)
(* The driving half of the route planner: the undriven streets of an area, *)
(* the way to the nearest or to a chosen one, the clusters worth driving   *)
(* (modules/driving-navigation), and the drive simulation, which shows the *)
(* coverage the selected segments would add (optimal-route/simulation.js). *)
(***************************************************************************)
EXTENDS Naturals, FiniteSets

CONSTANTS Areas, NoArea, Streets, MaxSteps

VARIABLE ui

Segments == Areas \X Streets
NoSegment == <<>>
NoStats == {}
NoRequest == 0
Kinds == {"streets", "nearest", "to", "position", "clusters", "simulate"}
Details == {"none", "route", "clusters"}

TypeOK ==
    ui \in [ on : BOOLEAN, area : Areas \cup {NoArea}, streets : Areas \cup {NoArea}, route : Segments \cup {NoSegment},
             details : Details, suggested : Segments \cup {NoSegment}, shown : Areas \cup {NoArea}, prompts : SUBSET Segments,
             fetching : BOOLEAN, findOn : BOOLEAN, effOn : BOOLEAN, progress : BOOLEAN, hides : Nat, known : BOOLEAN,
             sent : (Areas \X Segments) \cup {NoSegment},
             active : BOOLEAN, sel : SUBSET Segments, deb : BOOLEAN, ctl : Nat, latest : Nat, stats : SUBSET Segments,
             net : SUBSET [id : Nat, kind : Kinds, a : Areas \cup {NoArea}, sel : SUBSET Segments, dead : BOOLEAN],
             crossed : BOOLEAN, failed : BOOLEAN, steps : 0..MaxSteps ]

User == ui.on /\ ui.steps < MaxSteps
Acted(u) == [u EXCEPT !.steps = @ + 1]
Fresh(net) == CHOOSE n \in 1..(Cardinality(net) + 1) : \A q \in net : q.id # n
Asked(u, kind, a, s) == [u EXCEPT !.net = @ \cup {[id |-> Fresh(@), kind |-> kind, a |-> a, sel |-> s, dead |-> FALSE]}]
Done(u, q) == [u EXCEPT !.net = @ \ {q}]

(* An answer for an area that is not the selected one, or that another     *)
(* question on its way would still change.                                 *)
Crossed(u, q) == u.crossed \/ q.a # u.area

-----------------------------------------------------------------------------
(* The simulation.                                                         *)
Aborted(u) == [u EXCEPT !.net = {IF q.kind = "simulate" /\ q.id = u.ctl THEN [q EXCEPT !.dead = TRUE] ELSE q : q \in @}, !.ctl = NoRequest]

Deactivate(u) == [Aborted(u) EXCEPT !.active = FALSE, !.deb = FALSE, !.sel = {}, !.stats = NoStats]

ToggleSimulation ==
    /\ User /\ ui.area # NoArea
    /\ ui' = Acted(IF ui.active THEN Deactivate(ui) ELSE [ui EXCEPT !.active = TRUE, !.sel = {}])

ClearSelection == User /\ ui.active /\ ui' = Acted([Aborted(ui) EXCEPT !.deb = FALSE, !.sel = {}, !.stats = NoStats])

(* A click on a street of the area; the last one is simulated.             *)
ToggleSegment(s) ==
    /\ User /\ ui.active /\ s[1] = ui.area
    /\ ui' = Acted([ui EXCEPT !.sel = IF s \in @ THEN @ \ {s} ELSE @ \cup {s}, !.deb = TRUE])

Simulate(v) ==
    IF v.sel = {} THEN [v EXCEPT !.stats = NoStats]
    ELSE LET w == Aborted(v)
             u == Asked(w, "simulate", v.area, v.sel)
         IN  [u EXCEPT !.ctl = Fresh(w.net), !.latest = Fresh(w.net)]

DebounceFires == ui.deb /\ ui' = Simulate([ui EXCEPT !.deb = FALSE])

(* Only the last question's answer, about what is still selected, is shown *)
(* - an aborted one may already be on its way. A failure leaves the        *)
(* numbers that were shown.                                                *)
SimulateArrives(q) ==
    /\ q.kind = "simulate"
    /\ LET u == [Done(ui, q) EXCEPT !.ctl = IF @ = q.id THEN NoRequest ELSE @]
       IN  \/ ui' = IF q.id = ui.latest /\ q.sel = ui.sel THEN [u EXCEPT !.stats = q.sel, !.failed = FALSE] ELSE u
           \/ ui' = [u EXCEPT !.failed = @ \/ ~q.dead]

(* The streets drafted on another page are selected once theirs are there. *)
HydrateSelection(s) ==
    /\ User /\ ui.area # NoArea /\ s # {} /\ \A x \in s : x[1] = ui.area
    /\ ui' = Acted(Simulate([ui EXCEPT !.active = TRUE, !.sel = s]))

-----------------------------------------------------------------------------
(* Driving.                                                                *)
Hidden(u) == [u EXCEPT !.progress = FALSE]
HideLater(u) == [u EXCEPT !.hides = @ + 1]
HideFires == ui.hides > 0 /\ ui' = [Hidden(ui) EXCEPT !.hides = @ - 1]

ClearRouteUI(u) == [u EXCEPT !.route = NoSegment, !.details = "none"]

(* Everything of the last area goes; what is on its way does not.          *)
HandleAreaChange(v, a) ==
    LET u == [ClearRouteUI(Deactivate(v)) EXCEPT !.area = a, !.streets = NoArea, !.shown = NoArea,
                !.findOn = (a # NoArea), !.effOn = (a # NoArea)]
    IN  IF a = NoArea THEN u ELSE Asked([u EXCEPT !.progress = TRUE], "streets", a, {})

SelectArea(a) ==
    /\ User /\ a # ui.area
    /\ ui' = Acted([HandleAreaChange(ui, a) EXCEPT !.crossed = @ \/ ui.prompts # {}])

(* Undriven streets, none, or a failure.                                   *)
StreetsArrive(q) ==
    /\ q.kind = "streets"
    /\ LET u == [Done(ui, q) EXCEPT !.crossed = Crossed(ui, q)]
       IN  \/ ui' = HideLater([u EXCEPT !.streets = q.a])
           \/ ui' = Hidden(u)

FindAndDisplayRoute ==
    /\ User /\ ui.findOn /\ ui.area # NoArea /\ ~ui.fetching
    /\ ui' = Acted(Asked([ClearRouteUI(ui) EXCEPT !.fetching = TRUE, !.findOn = FALSE, !.progress = TRUE], "nearest", ui.area, {}))

DisplayRoute(u, s) == HideLater([u EXCEPT !.route = s, !.details = "route"])

NearestArrives(q) ==
    /\ q.kind = "nearest"
    /\ LET u == [Done(ui, q) EXCEPT !.crossed = Crossed(ui, q), !.findOn = TRUE, !.fetching = FALSE]
       IN  \/ \E n \in Streets : ui' = DisplayRoute(u, <<q.a, n>>)
           \/ ui' = Hidden(u)

(* The way to a segment is asked for in the area selected by now.          *)
FindRouteToSegment(u, s) ==
    IF u.area = NoArea THEN u
    ELSE Asked([u EXCEPT !.findOn = FALSE, !.effOn = FALSE, !.progress = TRUE, !.crossed = @ \/ s[1] # u.area], "to", u.area, {s})

NavigateToSegment(s) == User /\ ui.streets = s[1] /\ ui' = Acted(FindRouteToSegment(ui, s))

ToArrives(q) ==
    /\ q.kind = "to"
    /\ LET u == [Done(ui, q) EXCEPT !.crossed = Crossed(ui, q), !.findOn = TRUE, !.effOn = TRUE]
       IN  \/ \E s \in q.sel : ui' = DisplayRoute(u, s)
           \/ ui' = Hidden(u)

AskClusters(u, a) == Asked([u EXCEPT !.effOn = FALSE, !.shown = NoArea], "clusters", a, {})

FindEfficientStreetClusters ==
    /\ User /\ ui.effOn /\ ui.area # NoArea
    /\ ui' = Acted(IF ui.known THEN AskClusters(ui, ui.area) ELSE Asked(ui, "position", ui.area, {}))

PositionArrives(q) ==
    /\ q.kind = "position"
    /\ \/ ui' = AskClusters([Done(ui, q) EXCEPT !.known = TRUE, !.crossed = Crossed(ui, q)], q.a)
       \/ ui' = Done(ui, q)

(* The clusters are shown and the way to the first is proposed.            *)
ClustersArrive(q) ==
    /\ q.kind = "clusters"
    /\ LET u == [Done(ui, q) EXCEPT !.effOn = TRUE]
       IN  \/ \E n \in Streets :
                ui' = [u EXCEPT !.suggested = <<q.a, n>>, !.shown = q.a, !.details = "clusters", !.crossed = Crossed(ui, q),
                                !.prompts = @ \cup {<<q.a, n>>}]
           \/ ui' = u

PromptAnswered(s) ==
    /\ s \in ui.prompts
    /\ LET u == [ui EXCEPT !.prompts = @ \ {s}]
       IN  \/ ui.on /\ ui' = FindRouteToSegment(u, s)
           \/ ui' = u

(* A route through a cluster is asked of the other half of the page.       *)
RequestClusterRoute ==
    /\ User /\ ui.details = "clusters" /\ ui.area # NoArea
    /\ ui' = Acted([ui EXCEPT !.sent = <<ui.area, ui.suggested>>])

HandleLiveTrackingUpdate == ui.on /\ ~ui.known /\ ui' = [ui EXCEPT !.known = TRUE]

Destroy == ui.on /\ ui' = [Deactivate(ui) EXCEPT !.on = FALSE, !.shown = NoArea]

Init ==
    \E k \in BOOLEAN :
        ui = [ on |-> TRUE, area |-> NoArea, streets |-> NoArea, route |-> NoSegment, details |-> "none", suggested |-> NoSegment,
               shown |-> NoArea, prompts |-> {}, fetching |-> FALSE, findOn |-> FALSE, effOn |-> FALSE, progress |-> FALSE, hides |-> 0,
               known |-> k, sent |-> NoSegment, active |-> FALSE, sel |-> {}, deb |-> FALSE, ctl |-> NoRequest, latest |-> NoRequest,
               stats |-> NoStats, net |-> {}, crossed |-> FALSE, failed |-> FALSE, steps |-> 0 ]

Next ==
    \/ \E q \in ui.net : \/ SimulateArrives(q) \/ StreetsArrive(q) \/ NearestArrives(q) \/ ToArrives(q) \/ PositionArrives(q)
                         \/ ClustersArrive(q)
    \/ \E s \in Segments : ToggleSegment(s) \/ NavigateToSegment(s) \/ PromptAnswered(s)
    \/ \E s \in SUBSET Segments : HydrateSelection(s)
    \/ \E a \in Areas \cup {NoArea} : SelectArea(a)
    \/ ToggleSimulation \/ ClearSelection \/ DebounceFires \/ HideFires \/ FindAndDisplayRoute \/ FindEfficientStreetClusters
    \/ RequestClusterRoute \/ HandleLiveTrackingUpdate \/ Destroy

Spec == Init /\ [][Next]_ui

-----------------------------------------------------------------------------
(* What is planned is of the selected area: the streets, the way, the      *)
(* clusters on the map and in the list, and the segments a route is asked  *)
(* for - unless an answer or a proposal of an earlier area came through    *)
(* (manager.js:301,373,525 do not look at what is selected by then).       *)
PlanOfArea ==
    ui.on /\ ~ui.crossed =>
      /\ ui.streets \in {NoArea, ui.area} /\ ui.shown \in {NoArea, ui.area}
      /\ ui.route # NoSegment => ui.route[1] = ui.area
      /\ ui.details = "clusters" => ui.suggested[1] = ui.area
      /\ ui.sent # NoSegment => ui.sent[1] = ui.sent[2][1]

(* Whatever shows progress ends it: progress is on show only while an      *)
(* answer is due or its removal is, whatever failed.                       *)
ProgressEnds ==
    ui.progress => ui.hides > 0 \/ \E q \in ui.net : q.kind \in {"streets", "nearest", "to"}

(* The coverage on show is what the selected segments would give, unless   *)
(* the simulation of a changed selection is due or has failed; without the *)
(* simulation nothing is selected and nothing shown.                       *)
StatsOfSelection ==
    /\ ui.stats \notin {NoStats, ui.sel} => ui.deb \/ ui.failed \/ ui.ctl # NoRequest
    /\ ~ui.active => ui.sel = {} /\ ui.stats = NoStats /\ ~ui.deb
    /\ \A s \in ui.sel : s[1] = ui.area

=============================================================================
