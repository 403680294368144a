---------------------------- MODULE InsightsPage ----------------------------
(***************************************************************************)
(* The insights page (features/insights, modules/insights): the data of a  *)
(* date range, loaded by one request that a newer one aborts, and shown as *)
(* a chart of days, weeks or months whose points open their trips, as a    *)
(* story that compares periods, and as a map and two rankings of streets   *)
(* and segments that share a selection. A day is a number.                 *)
(***************************************************************************)
EXTENDS Integers, Sequences, FiniteSetsExt, Functions

CONSTANTS Ranges, NoRange, From, To,           \* date ranges: their first and last days
          Driven,                              \* the trips of every day
          Week, Month,                         \* days of a week, of a month
          MaxPoints,                           \* view -> the most points of its chart
          DrilldownLimit, ServerLimit,         \* trips a point asks for, and an answer has
          Ranked,                              \* range -> mode -> the keys ranked there
          Initially, More,                     \* rows shown, and shown more
          MaxSteps

VARIABLE ui

Modes == {"streets", "segments"}
Views == {"daily", "weekly", "monthly"}
NoEntity == [type |-> "none", key |-> "none"]
Entities == UNION {[type : {m}, key : Ranked[r][m]] : m \in Modes, r \in Ranges}
MaybeRange == Ranges \cup {NoRange}
Span == [from : Int, to : Int]
NoSpan == [from |-> 1, to |-> 0]
NoModal == [of |-> NoSpan, trips |-> 0]

-----------------------------------------------------------------------------
(* Days into periods. The server lists the days of the range with trips.   *)
Daily(r) == {d \in DOMAIN Driven : From[r] <= d /\ d <= To[r] /\ Driven[d] > 0}

PeriodOf(view, d) ==
    LET n == CASE view = "daily" -> 1 [] view = "weekly" -> Week [] OTHER -> Month
    IN  [from |-> d - (d % n), to |-> d - (d % n) + n - 1]

Trips(days) == SumFunctionOnSet(Driven, days)

Within(p, days) == {d \in days : p.from <= d /\ d <= p.to}

Point(p, days) == [from |-> p.from, to |-> p.to, count |-> Trips(Within(p, days)), active |-> Cardinality(Within(p, days))]

(* The periods with trips, in the order of their first days.               *)
AggregateByView(r, view) ==
    LET points == {Point(PeriodOf(view, d), Daily(r)) : d \in Daily(r)}
    IN  [i \in 1..Cardinality(points) |-> CHOOSE p \in points : Cardinality({q \in points : q.from <= p.from}) = i]

CeilDiv(a, b) == (a + b - 1) \div b

Counted(s, positions) == SumFunctionOnSet([i \in positions |-> s[i].count], positions)

(* Mutant: a merged point loses the last of its periods.                   *)
CompressShort(s, view) ==
    IF Len(s) <= MaxPoints[view] THEN s
    ELSE LET size == CeilDiv(Len(s), MaxPoints[view])
             first(i) == (i - 1) * size + 1
             last(i) == Min({i * size, Len(s)})
         IN  [i \in 1..CeilDiv(Len(s), size) |->
                [from |-> s[first(i)].from, to |-> s[last(i)].to, count |-> Counted(s, first(i)..last(i) - 1), active |-> 0]]

(* Too many points are merged in runs of equal length.                     *)
CompressSeriesIfNeeded(s, view) ==
    IF Len(s) <= MaxPoints[view] THEN s
    ELSE LET size == CeilDiv(Len(s), MaxPoints[view])
             first(i) == (i - 1) * size + 1
             last(i) == Min({i * size, Len(s)})
         IN  [i \in 1..CeilDiv(Len(s), size) |->
                [from |-> s[first(i)].from, to |-> s[last(i)].to, count |-> Counted(s, first(i)..last(i)), active |-> 0]]

Chart(r, view) == IF r = NoRange THEN <<>> ELSE CompressSeriesIfNeeded(AggregateByView(r, view), view)

ComputeConsistencyStats(r) ==
    LET span == To[r] - From[r] + 1
        active == Cardinality({d \in Daily(r) : d - From[r] < span})
    IN  [active |-> active, span |-> span, quiet |-> Max({0, span - active})]

-----------------------------------------------------------------------------
TypeOK ==
    ui \in [ range : Ranges, current : MaybeRange, data : MaybeRange, n : Nat, controller : Nat,
             loads : SUBSET [id : Nat, of : Ranges, aborted : BOOLEAN], loading : BOOLEAN, failed : BOOLEAN,
             view : Views, rhythm : {"weekly", "monthly"},
             chart : [of : MaybeRange, view : Views], story : [of : MaybeRange, mode : {"weekly", "monthly"}],
             panel : Modes, sel : Entities \cup {NoEntity}, hov : Entities \cup {NoEntity}, payload : MaybeRange,
             visible : [Modes -> Nat], deck : BOOLEAN,
             drawn : [of : MaybeRange, panel : Modes, sel : Entities \cup {NoEntity}, hov : Entities \cup {NoEntity}],
             detail : Entities \cup {NoEntity},
             asks : SUBSET [id : Nat, of : Span, limit : Nat], modal : [of : Span, trips : Nat],
             wanted : Span, crossed : BOOLEAN,
             begun : BOOLEAN, timer : BOOLEAN, left : BOOLEAN, steps : 0..MaxSteps ]

User == ~ui.left /\ ui.steps < MaxSteps
Acted(u) == [u EXCEPT !.steps = @ + 1]

(* One load at a time: a newer one aborts the one under way.               *)
LoadAllData(u) ==
    [u EXCEPT !.n = @ + 1, !.controller = u.n + 1, !.loading = TRUE, !.current = u.range,
              !.loads = {[l EXCEPT !.aborted = @ \/ l.id = u.controller] : l \in @}
                            \cup {[id |-> u.n + 1, of |-> u.range, aborted |-> FALSE]}]

-----------------------------------------------------------------------------
(* The street map and its rankings.                                        *)
KeysOf(r, mode) == IF r = NoRange THEN {} ELSE Ranked[r][mode]
SelectionExists(r, e) == e # NoEntity /\ e.key \in KeysOf(r, e.type)

(* Mutant: a selection survives the data it was made in.                   *)
SelectionKept(u) == u

ClearSelectionIfMissing(u) ==
    [u EXCEPT !.sel = IF SelectionExists(u.payload, @) THEN @ ELSE NoEntity,
              !.hov = IF SelectionExists(u.payload, @) THEN @ ELSE NoEntity]

RenderDetailPanel(u) == [u EXCEPT !.detail = IF SelectionExists(u.payload, u.sel) THEN u.sel ELSE NoEntity]

ApplyDeckLayers(u) ==
    LET shown(e) == IF e.type = u.panel THEN e ELSE NoEntity
    IN  [u EXCEPT !.deck = TRUE,
                  !.drawn = [of |-> u.payload, panel |-> u.panel, sel |-> shown(u.sel), hov |-> shown(u.hov)]]

Redrawn(u) == IF u.payload = NoRange THEN RenderDetailPanel(u) ELSE ApplyDeckLayers(RenderDetailPanel(u))

RenderMovementInsights(v, r) ==
    LET u == RenderDetailPanel(ClearSelectionIfMissing([v EXCEPT !.payload = r, !.visible = [m \in Modes |-> Initially]]))
        none == \A m \in Modes : KeysOf(r, m) = {}
    IN  IF none THEN [u EXCEPT !.sel = NoEntity, !.hov = NoEntity,
                               !.drawn = [of |-> r, panel |-> u.panel, sel |-> NoEntity, hov |-> NoEntity]]
        ELSE ApplyDeckLayers(u)

(* A row of a ranking: chosen, or let go when it was chosen.               *)
HandleRankClick(m, k) ==
    /\ User /\ k \in KeysOf(ui.payload, m)
    /\ LET e == [type |-> m, key |-> k]
       IN  ui' = Acted(Redrawn([ui EXCEPT !.sel = IF @ = e THEN NoEntity ELSE e, !.hov = NoEntity]))

(* A line of the map is chosen; a click beside every line lets go.         *)
DeckClick(k) ==
    /\ User /\ ui.deck
    /\ \/ k \in KeysOf(ui.drawn.of, ui.drawn.panel)
          /\ ui' = Acted(Redrawn([ui EXCEPT !.sel = [type |-> ui.drawn.panel, key |-> k], !.hov = NoEntity]))
       \/ ui.sel # NoEntity /\ ui' = Acted(Redrawn([ui EXCEPT !.sel = NoEntity, !.hov = NoEntity]))

HandleRankHover(m, k) ==
    /\ User /\ ui.payload # NoRange
    /\ \/ k \in KeysOf(ui.payload, m) /\ ui' = Acted(ApplyDeckLayers([ui EXCEPT !.hov = [type |-> m, key |-> k]]))
       \/ ui.hov # NoEntity /\ ui' = Acted(ApplyDeckLayers([ui EXCEPT !.hov = NoEntity]))

(* The other map: what was selected in this one is let go.                 *)
ChangePanel(m) ==
    /\ User /\ m # ui.panel
    /\ ui' = Acted(Redrawn([ui EXCEPT !.panel = m, !.hov = NoEntity, !.sel = IF @.type = m THEN @ ELSE NoEntity]))

ViewMore(m) ==
    /\ User /\ ui.visible[m] < Cardinality(KeysOf(ui.payload, m))
    /\ ui' = Acted([ui EXCEPT !.visible[m] = @ + More])

-----------------------------------------------------------------------------
(* Everything the page shows is drawn from the answer.                     *)
RenderAll(u, r) ==
    [RenderMovementInsights([u EXCEPT !.data = r], r) EXCEPT
        !.chart = [of |-> r, view |-> u.view], !.story = [of |-> r, mode |-> u.rhythm]]

Ended(u, l) ==
    [u EXCEPT !.loads = @ \ {l}, !.loading = IF l.aborted THEN @ ELSE FALSE,
              !.controller = IF @ = l.id /\ ~l.aborted THEN 0 ELSE @]

(* The automatic refresh begins when the first load has ended.             *)
Begun(u, l) == IF u.begun \/ l.id # 1 THEN u ELSE [u EXCEPT !.begun = TRUE, !.timer = ~u.left]

DataArrives(l) ==
    ui' = Begun(Ended(IF l.aborted THEN ui ELSE [RenderAll(ui, l.of) EXCEPT !.failed = FALSE], l), l)

DataFails(l) == ui' = Begun(Ended(IF l.aborted THEN ui ELSE [ui EXCEPT !.failed = TRUE], l), l)

FiltersApplied(r) == User /\ ui' = Acted(LoadAllData([ui EXCEPT !.range = r]))

AutoRefresh == ui.timer /\ User /\ ui' = Acted(LoadAllData(ui))

(* The story follows the chart but for the days, which it does not have.   *)
HandleToggleChange(v) ==
    /\ User /\ v # ui.view
    /\ LET mode == IF v = "daily" THEN ui.rhythm ELSE v
       IN  ui' = Acted([ui EXCEPT !.view = v, !.rhythm = mode,
                                  !.chart = IF ui.data = NoRange THEN @ ELSE [of |-> ui.data, view |-> v],
                                  !.story = IF @.of = NoRange THEN @ ELSE [@ EXCEPT !.mode = mode]])

(* Mutant: the answer ends one trip before the limit.                      *)
OpenedShort(s, limit) == Min({Trips(Within(s, DOMAIN Driven)), Min({limit, ServerLimit}) - 1})

-----------------------------------------------------------------------------
(* A point of the chart opens the trips of its days, the latest of them if *)
(* they are more than the answer may have.                                 *)
Opened(s, limit) == Min({Trips(Within(s, DOMAIN Driven)), Max({1, Min({limit, ServerLimit})})})

HandleTrendsChartClick(i) ==
    /\ User /\ i \in DOMAIN Chart(ui.chart.of, ui.chart.view)
    /\ LET p == Chart(ui.chart.of, ui.chart.view)[i]
           s == [from |-> p.from, to |-> p.to]
       IN  ui' = Acted([ui EXCEPT !.asks = @ \cup {[id |-> ui.steps, of |-> s, limit |-> DrilldownLimit]}, !.wanted = s,
                                  !.crossed = @ \/ ui.asks # {}])

DrilldownArrives(a) ==
    \/ ui' = [ui EXCEPT !.asks = @ \ {a}, !.modal = IF ui.left THEN @ ELSE [of |-> a.of, trips |-> Opened(a.of, a.limit)]]
    \/ ui' = [ui EXCEPT !.asks = @ \ {a}]

Teardown ==
    /\ ~ui.left
    /\ ui' = [ui EXCEPT !.left = TRUE, !.timer = FALSE, !.payload = NoRange, !.sel = NoEntity, !.hov = NoEntity,
                        !.deck = FALSE, !.story = [of |-> NoRange, mode |-> "weekly"],
                        !.loads = {[l EXCEPT !.aborted = TRUE] : l \in @}]

(* What an earlier visit left in the modules: its view and its panel.      *)
Init ==
    \E r \in Ranges, v \in {"daily", "weekly"}, m \in Modes :
        ui = LoadAllData(
             [ range |-> r, current |-> NoRange, data |-> NoRange, n |-> 0, controller |-> 0, loads |-> {},
               loading |-> FALSE, failed |-> FALSE, view |-> v, rhythm |-> "weekly",
               chart |-> [of |-> NoRange, view |-> v], story |-> [of |-> NoRange, mode |-> "weekly"],
               panel |-> m, sel |-> NoEntity, hov |-> NoEntity, payload |-> NoRange,
               visible |-> [x \in Modes |-> Initially], deck |-> FALSE,
               drawn |-> [of |-> NoRange, panel |-> m, sel |-> NoEntity, hov |-> NoEntity],
               detail |-> NoEntity, asks |-> {}, modal |-> NoModal, wanted |-> NoSpan, crossed |-> FALSE,
               begun |-> FALSE, timer |-> FALSE, left |-> FALSE, steps |-> 0 ])

Next ==
    \/ \E l \in ui.loads : DataArrives(l) \/ DataFails(l)
    \/ \E r \in Ranges : FiltersApplied(r)
    \/ \E v \in Views : HandleToggleChange(v)
    \/ \E m \in Modes : ChangePanel(m) \/ ViewMore(m)
    \/ \E e \in Entities : HandleRankClick(e.type, e.key) \/ HandleRankHover(e.type, e.key) \/ DeckClick(e.key)
    \/ \E i \in 1..MaxPoints[ui.chart.view] : HandleTrendsChartClick(i)
    \/ \E a \in ui.asks : DrilldownArrives(a)
    \/ AutoRefresh \/ Teardown

Spec == Init /\ [][Next]_ui

-----------------------------------------------------------------------------
(* Once nothing is being loaded, and unless the last load failed, the      *)
(* chart, the story and the map show the range that was asked for last, in *)
(* the view that is chosen.                                                *)
ShowsLastRange ==
    /\ Cardinality({l \in ui.loads : ~l.aborted}) <= 1
    /\ ~ui.left /\ ~ui.loading /\ ~ui.failed =>
         /\ ui.data = ui.range /\ ui.payload = ui.range
         /\ ui.chart = [of |-> ui.range, view |-> ui.view]
         /\ ui.story = [of |-> ui.range, mode |-> ui.rhythm]

(* What is selected is in the data shown, the detail tells of it, and what *)
(* the map draws is the selection of its own panel.                        *)
SelectionShown ==
    ~ui.left =>
        /\ ui.sel # NoEntity => SelectionExists(ui.payload, ui.sel)
        /\ ui.detail = ui.sel
        /\ ui.deck /\ ui.drawn.of # NoRange =>
               /\ ui.drawn.of = ui.payload /\ ui.drawn.panel = ui.panel
               /\ ui.drawn.sel = (IF ui.sel.type = ui.panel THEN ui.sel ELSE NoEntity)

(* The points of the chart count every trip of the range once, and the     *)
(* dialog of a point shows the trips it counts, or as many as one answer   *)
(* may have, unless its first or last period reaches out of the range:     *)
(* then it opens trips the chart leaves out (charts.js:888).               *)
PointOpensItsTrips ==
    LET c == Chart(ui.chart.of, ui.chart.view)
        r == ui.chart.of
    IN  r # NoRange =>
          /\ Trips(Daily(r)) = Counted(c, DOMAIN c)
          /\ Len(c) <= MaxPoints[ui.chart.view]
          /\ \A i \in DOMAIN c : c[i].from >= From[r] /\ c[i].to <= To[r] =>
                 /\ c[i].count = Trips(Within(c[i], DOMAIN Driven))
                 /\ ui.modal.of = [from |-> c[i].from, to |-> c[i].to] =>
                        ui.modal.trips = Min({c[i].count, DrilldownLimit, ServerLimit})

(* Weeks, months and the consistency of the range shown agree on its       *)
(* active days, and every day of it is active or quiet.                    *)
PeriodsAgree ==
    \A r \in {ui.data} \ {NoRange} :
        LET s == ComputeConsistencyStats(r)
            active(view) == LET a == AggregateByView(r, view) IN SumFunctionOnSet([i \in DOMAIN a |-> a[i].active], DOMAIN a)
        IN  /\ active("weekly") = s.active /\ active("monthly") = s.active
            /\ s.active + s.quiet = s.span

(* No refresh outlives the page, and every load is aborted with it.        *)
RefreshOwned == ui.left => ~ui.timer /\ \A l \in ui.loads : l.aborted
=============================================================================
