--------------------------- MODULE LiveNavigation ---------------------------
(***************************************************************************)
(* Turn-by-turn driving of a coverage route (modules/live-navigation): an  *)
(* area is selected and its route loaded, or generated by a task followed  *)
(* over server-sent events and then by polling; positions of the device or *)
(* of the live trip move a state machine, mark segments driven and save    *)
(* them in batches with retries. A position is what matters about it: on   *)
(* the route, off it, far from it, at its end.                             *)
(***************************************************************************)
EXTENDS Naturals, FiniteSets

CONSTANTS Areas, NoArea, Streets, MaxTasks, MaxPersistRetries, MaxSteps

VARIABLE ui

Segments == Areas \X Streets                   \* the segments of every area
SegmentsOf(a) == {s \in Segments : s[1] = a}
MaybeArea == Areas \cup {NoArea}
Tasks == 1..MaxTasks
Fixes == {"on", "off", "far", "end"}
States == {"setup", "generating", "preview", "to_start", "at_start", "active", "off_route", "ahead", "arrived"}
Load == [id : Nat, at : {"area", "route", "segments", "eta"}, of : MaybeArea, base : MaybeArea]
Persist == [id : Nat, segs : SUBSET Segments, area : MaybeArea]

TypeOK ==
    ui \in [ area : MaybeArea, st : States, panel : States, silent : BOOLEAN,   \* the state, the panel shown
             loads : SUBSET Load, loaded : BOOLEAN, route : MaybeArea, base : MaybeArea,
             line : MaybeArea, crossed : BOOLEAN,
             task : Tasks \cup {0}, source : Tasks \cup {0}, open : SUBSET Tasks, polled : SUBSET Tasks,
             made : [Tasks -> MaybeArea], starts : SUBSET [id : Nat, of : Areas],
             cancels : SUBSET [id : Nat, task : Tasks, change : BOOLEAN, to : MaybeArea],
             cov : [area : MaybeArea, und : SUBSET Segments, pend : SUBSET Segments,
                    debounce : BOOLEAN, retry : BOOLEAN, fails : 0..MaxPersistRetries],
             puts : SUBSET Persist, marked : SUBSET Segments, kept : SUBSET Segments,
             dropped : SUBSET Segments, stranded : BOOLEAN, moved : BOOLEAN,
             nav : BOOLEAN, watch : BOOLEAN, prev : Fixes \cup {"none"},
             offers : Nat, resume : BOOLEAN, timer : BOOLEAN,
             checks : SUBSET [id : Nat, at : {"position", "way"}], smart : MaybeArea, way : MaybeArea,
             leads : Nat, ends : SUBSET [id : Nat, at : {"save", "area"}, of : MaybeArea],
             late : BOOLEAN, stuck : BOOLEAN, left : BOOLEAN, steps : 0..MaxSteps ]

User == ~ui.left /\ ui.steps < MaxSteps
Acted(u) == [u EXCEPT !.steps = @ + 1]

-----------------------------------------------------------------------------
(* The state machine. A change of state shows its panel; the preview asks  *)
(* for the position.                                                       *)
TransitionTo(u, s) ==
    IF u.st = s THEN u
    ELSE [u EXCEPT !.st = s, !.panel = s, !.silent = FALSE,
                   !.checks = IF s = "preview" /\ u.loaded THEN @ \cup {[id |-> u.steps, at |-> "position"]} ELSE @]

(* The state is set back before the transition to it, which then is none:  *)
(* the panel stays (`silent'). Segments waiting to be saved are dropped.   *)
ResetCoverage(u) ==
    [u EXCEPT !.dropped = @ \cup u.cov.pend,
              !.cov = [@ EXCEPT !.und = {}, !.pend = {}, !.debounce = FALSE, !.retry = FALSE, !.fails = 0]]

ResetRouteState(u) ==
    [ResetCoverage(u) EXCEPT
        !.st = "setup", !.silent = @ \/ u.panel # "setup", !.loaded = FALSE, !.route = NoArea, !.line = NoArea,
        !.watch = FALSE, !.prev = "none", !.smart = NoArea, !.resume = FALSE, !.way = NoArea,
        !.nav = FALSE]

-----------------------------------------------------------------------------
(* Saving driven segments: 2 s after the last of them, then retried.       *)
PersistDrivenSegments(u) ==
    IF u.cov.pend = {} THEN u
    ELSE [u EXCEPT !.cov.pend = {}, !.puts = @ \cup {[id |-> u.steps, segs |-> u.cov.pend, area |-> u.cov.area]},
                   !.moved = @ \/ \E s \in u.cov.pend : s[1] # u.cov.area]

QueueSegmentPersistence(u, new) ==
    [u EXCEPT !.cov.pend = @ \cup new, !.cov.retry = FALSE, !.cov.debounce = TRUE]

DebounceEnds == ui.cov.debounce /\ ui' = PersistDrivenSegments([ui EXCEPT !.cov.debounce = FALSE])

RetryTimer == ui.cov.retry /\ ui' = PersistDrivenSegments([ui EXCEPT !.cov.retry = FALSE])

(* A save that succeeds stops the retry of another that failed.            *)
PersistDone(p) ==
    ui' = [ui EXCEPT !.puts = @ \ {p}, !.kept = @ \cup p.segs, !.cov.fails = 0, !.cov.retry = FALSE,
                     !.stranded = @ \/ (ui.cov.pend # {} /\ ~ui.cov.debounce)]

(* Mutant: what could not be saved is forgotten.                           *)
PersistForgotten(p) ==
    LET n == ui.cov.fails + 1
        u == [ui EXCEPT !.puts = @ \ {p}, !.cov.fails = IF n > MaxPersistRetries THEN @ ELSE n]
    IN  ui' = IF n >= MaxPersistRetries THEN [u EXCEPT !.cov.retry = FALSE] ELSE [u EXCEPT !.cov.retry = TRUE]

PersistFails(p) ==
    LET n == ui.cov.fails + 1
        u == [ui EXCEPT !.puts = @ \ {p}, !.cov.pend = @ \cup p.segs, !.dropped = @ \ p.segs,
                        !.cov.fails = IF n > MaxPersistRetries THEN @ ELSE n]
    IN  ui' = IF n >= MaxPersistRetries THEN [u EXCEPT !.cov.retry = FALSE] ELSE [u EXCEPT !.cov.retry = TRUE]

MarkSegmentsDriven(u, segs) ==
    IF segs = {} THEN u
    ELSE QueueSegmentPersistence([u EXCEPT !.cov.und = @ \ segs, !.marked = @ \cup segs], segs)

-----------------------------------------------------------------------------
(* Generation of a route by a task.                                        *)
AutoGenerateRoute(u) ==
    IF u.area = NoArea THEN u ELSE [u EXCEPT !.starts = @ \cup {[id |-> u.steps, of |-> u.area]}]

Listen(u, t) == [u EXCEPT !.task = t, !.source = t, !.open = @ \cup {t}]

GenerationStarted(r, t) ==
    /\ ui.made[t] = NoArea /\ \A x \in 1..(t - 1) : ui.made[x] # NoArea
    /\ LET u == [ui EXCEPT !.starts = @ \ {r}, !.made[t] = r.of,
                           !.crossed = @ \/ ui.source # 0 \/ ui.area # r.of, !.late = @ \/ ui.left]
       IN  ui' = TransitionTo(Listen(u, t), "generating")

GenerationRefused(r) == ui' = TransitionTo([ui EXCEPT !.starts = @ \ {r}], "setup")

ConnectionLost(t) ==
    /\ t \in ui.open /\ t \notin ui.polled
    /\ ui' = [ui EXCEPT !.polled = @ \cup {t}]

Closed(u, t) == [u EXCEPT !.open = @ \ {t}, !.polled = @ \ {t}]

-----------------------------------------------------------------------------
(* loadRoute, one request after another; each reads the area selected at   *)
(* the time it is sent (`crossed' when that is no longer the first one).   *)
LoadRoute(u) ==
    IF u.area = NoArea THEN u
    ELSE [u EXCEPT !.loaded = FALSE, !.crossed = @ \/ u.loads # {},
                   !.loads = @ \cup {[id |-> u.steps, at |-> "area", of |-> u.area, base |-> NoArea]}]

ClickLoad == User /\ ui.area # NoArea /\ ui.loads = {} /\ ui' = Acted(LoadRoute(ui))

On(l, at, u) == [u EXCEPT !.loads = (@ \ {l}) \cup {[l EXCEPT !.at = at, !.of = u.area]},
                          !.crossed = @ \/ u.area # l.of]

AreaArrives(l) ==
    /\ l.at = "area"
    /\ \/ ui' = On([l EXCEPT !.base = l.of], "route", [ui EXCEPT !.loads = @ \ {l}])
       \/ ui' = AutoGenerateRoute([ui EXCEPT !.loads = @ \ {l}])

RouteArrives(l) ==
    /\ l.at = "route" /\ l.of # NoArea
    /\ LET u == [ui EXCEPT !.route = l.of, !.base = l.base, !.loaded = TRUE, !.line = l.of]
       IN  ui' = On(l, "segments", ResetCoverage([u EXCEPT !.cov.area = u.area]))

(* The streets of the area, or none when they could not be loaded.         *)
SegmentsSettled(l) ==
    /\ l.at = "segments"
    /\ \E segs \in {{}, SegmentsOf(l.of) \ ui.kept} :
        ui' = On(l, "eta", [ui EXCEPT !.cov.und = @ \cup segs])

EtaArrives(l) ==
    /\ l.at = "eta"
    /\ ui' = TransitionTo([ui EXCEPT !.loads = @ \ {l}, !.late = @ \/ ui.left], "preview")

InvalidateSelectedArea(u) == ResetRouteState([u EXCEPT !.area = NoArea])

LoadFails(l) ==
    /\ l.at \in {"area", "route"}
    /\ LET u == [ui EXCEPT !.loads = @ \ {l}, !.loaded = FALSE, !.line = NoArea]
       IN  ui' \in {[u EXCEPT !.stuck = @ \/ u.st = "generating"], InvalidateSelectedArea(u), AutoGenerateRoute(u)}

GenerationComplete(t) ==
    /\ t \in ui.open
    /\ ui' = LoadRoute([Closed(ui, t) EXCEPT !.task = 0, !.source = 0])

GenerationError(t) ==
    /\ t \in ui.open
    /\ ui' = TransitionTo([Closed(ui, t) EXCEPT !.task = 0, !.source = 0], "setup")

(* cancelGeneration: the source is closed at once; what follows waits for  *)
(* the server when there is a task.                                        *)
AfterCancel(u, change, to) ==
    LET v == IF u.st = "generating" THEN TransitionTo(u, "setup") ELSE u
    IN  IF change THEN LoadRoute([ResetRouteState(v) EXCEPT !.area = to]) ELSE v

CancelGeneration(u, change, to) ==
    LET v == [Closed(u, u.source) EXCEPT !.source = 0]
    IN  IF v.task = 0 THEN AfterCancel(v, change, to)
        ELSE [v EXCEPT !.cancels = @ \cup {[id |-> u.steps, task |-> v.task, change |-> change, to |-> to]}]

Cancelled(c) ==
    ui' = AfterCancel([ui EXCEPT !.cancels = @ \ {c}, !.task = 0, !.crossed = @ \/ ui.task # c.task \/ ui.source # 0],
                      c.change, c.to)

HandleAreaChange(a) ==
    /\ User /\ a # ui.area
    /\ ui' = Acted(CancelGeneration([ui EXCEPT !.crossed = @ \/ ui.cancels # {}], TRUE, a))

ClickCancel == User /\ ui.panel = "generating" /\ ui' = Acted(CancelGeneration(ui, FALSE, NoArea))

RegenerateRoute ==
    /\ User /\ ui.loaded /\ ui.panel = "preview"
    /\ ui' = Acted(AutoGenerateRoute(ResetRouteState(ui)))

-----------------------------------------------------------------------------
(* Where the driver is: the start, the way to it, the route.               *)
PositionKnown(c, atStart) ==
    /\ c.at = "position"
    /\ LET u == [ui EXCEPT !.checks = @ \ {c}, !.prev = IF atStart THEN "on" ELSE "far", !.smart = ui.route]
       IN  ui' = IF atStart THEN u ELSE [u EXCEPT !.checks = @ \cup {[c EXCEPT !.at = "way"]}]

PositionUnknown(c) == c.at = "position" /\ ui' = [ui EXCEPT !.checks = @ \ {c}]

WayArrives(c) == /\ c.at = "way"
                 /\ \E w \in {ui.way, ui.smart} : ui' = [ui EXCEPT !.checks = @ \ {c}, !.way = w]

StartGeolocation(u) == [u EXCEPT !.watch = TRUE]

StartNavigation(u) ==
    IF ~u.loaded THEN u
    ELSE \* the device may have no GPS: then the live trip is waited for
         [u EXCEPT !.nav = TRUE]

BeginNavigation(gps) ==
    /\ User /\ ui.panel \in {"preview", "setup"}
    /\ LET u == StartNavigation(TransitionTo(ui, "active"))
       IN  ui' = Acted(IF u.loaded /\ gps THEN StartGeolocation(u) ELSE u)

LeadToStart(u) == StartGeolocation([TransitionTo(u, "to_start") EXCEPT !.nav = TRUE])

StartNavigatingToStart ==
    /\ User /\ ui.panel = "preview" /\ ui.prev # "none" /\ ui.smart # NoArea
    /\ ui' = Acted(IF ui.way # NoArea THEN LeadToStart(ui) ELSE [ui EXCEPT !.leads = @ + 1])

WayToStartArrives ==
    /\ ui.leads > 0
    /\ ui' = LeadToStart([ui EXCEPT !.leads = @ - 1, !.late = @ \/ ui.left \/ ~ui.loaded])

(* A point ahead is looked for from the position before this one.          *)
OfferResumeFromAhead(u) ==
    IF u.prev \in {"none", "far"} THEN TransitionTo(u, "off_route") ELSE [u EXCEPT !.offers = @ + 1]

OfferAnswered ==
    /\ ui.offers > 0
    /\ LET u == [ui EXCEPT !.offers = @ - 1, !.late = @ \/ ~ui.nav] IN
       \/ ui' = TransitionTo([u EXCEPT !.resume = TRUE], "ahead")
       \/ ui' = TransitionTo(u, "off_route")

HandleNavigationStateTransitions(u, f) ==
    IF f = "end" /\ u.st # "arrived" THEN TransitionTo(u, "arrived")
    ELSE IF f \in {"off", "far"} /\ u.st = "active"
         THEN IF f = "far" THEN OfferResumeFromAhead(u) ELSE TransitionTo(u, "off_route")
    ELSE IF f = "on" /\ u.st = "off_route" THEN TransitionTo(u, "active") ELSE u

(* A fix of the device, or a point of the live trip when there is none.    *)
UpdateNavigation(f, segs) ==
    /\ User /\ ui.loaded /\ (ui.watch \/ ui.nav) /\ segs \subseteq ui.cov.und
    /\ LET u == MarkSegmentsDriven(Acted(ui), segs) IN
       ui' = IF ui.st = "to_start"
             THEN IF f = "on" THEN [TransitionTo(u, "at_start") EXCEPT !.timer = TRUE] ELSE u
             ELSE [HandleNavigationStateTransitions(u, f) EXCEPT !.prev = f]

StartTimer ==
    /\ ui.timer
    /\ LET u == [ui EXCEPT !.timer = FALSE] IN ui' = IF u.st = "at_start" THEN TransitionTo(u, "active") ELSE u

(* Any error of the position service counts as a refusal: the service      *)
(* passes no code on.                                                      *)
HandleGeolocationError == ui.watch /\ ui' = [ui EXCEPT !.nav = FALSE, !.watch = FALSE]

ResumeFromAhead ==
    /\ User /\ ui.panel = "ahead" /\ ui.resume
    /\ ui' = Acted(TransitionTo([ui EXCEPT !.resume = FALSE], "active"))

DismissResumePrompt ==
    /\ User /\ ui.panel = "ahead"
    /\ ui' = Acted(TransitionTo([ui EXCEPT !.resume = FALSE], "off_route"))

(* The button that leads back from the preview.                            *)
ShowSetup == User /\ ui.panel = "preview" /\ ui' = Acted(TransitionTo(ui, "setup"))

EndNavigation ==
    /\ User /\ ui.nav
    /\ LET u == PersistDrivenSegments(TransitionTo([ui EXCEPT !.nav = FALSE, !.watch = FALSE], "setup"))
       IN  ui' = Acted([u EXCEPT !.ends = @ \cup {[id |-> u.steps, at |-> "save", of |-> NoArea]}])

EndSaved(e) ==
    /\ e.at = "save" /\ \A p \in ui.puts : p.id # e.id
    /\ LET u == [ui EXCEPT !.ends = @ \ {e}]
       IN  ui' = IF u.area = NoArea THEN u ELSE [u EXCEPT !.ends = @ \cup {[e EXCEPT !.at = "area", !.of = u.area]}]

EndRefreshed(e) ==
    /\ e.at = "area"
    /\ \/ ui' = [ui EXCEPT !.ends = @ \ {e}]
       \/ ui' = [ui EXCEPT !.ends = @ \ {e}, !.base = e.of, !.crossed = @ \/ e.of # ui.area]

(* The theme changes the style: the streets are drawn again, the route not.*)
ThemeChanges == User /\ ui' = Acted([ui EXCEPT !.line = NoArea])

Leave ==
    /\ User
    /\ ui' = ResetRouteState(PersistDrivenSegments([CancelGeneration(ui, FALSE, NoArea) EXCEPT !.left = TRUE]))

Fresh ==
    [ area |-> NoArea, st |-> "setup", panel |-> "setup", silent |-> FALSE, loads |-> {}, loaded |-> FALSE,
      route |-> NoArea, base |-> NoArea, line |-> NoArea, crossed |-> FALSE,
      task |-> 0, source |-> 0, open |-> {}, polled |-> {}, made |-> [t \in Tasks |-> NoArea], starts |-> {}, cancels |-> {},
      cov |-> [area |-> NoArea, und |-> {}, pend |-> {}, debounce |-> FALSE, retry |-> FALSE, fails |-> 0],
      puts |-> {}, marked |-> {}, kept |-> {}, dropped |-> {}, stranded |-> FALSE, moved |-> FALSE,
      nav |-> FALSE, watch |-> FALSE, prev |-> "none", offers |-> 0, resume |-> FALSE, timer |-> FALSE,
      checks |-> {}, smart |-> NoArea, way |-> NoArea, leads |-> 0, ends |-> {}, late |-> FALSE, stuck |-> FALSE, left |-> FALSE, steps |-> 0 ]

(* A route that was loaded and is driven on, or to.                        *)
Driving(a, s) ==
    [Fresh EXCEPT !.area = a, !.st = s, !.panel = s, !.smart = a, !.loaded = TRUE, !.route = a, !.base = a, !.line = a,
                  !.cov.area = a, !.cov.und = SegmentsOf(a), !.nav = TRUE, !.watch = TRUE, !.prev = "on"]

(* An area of an earlier visit is loaded at once; a task that is already   *)
(* making its route is listened to. Later points of a visit start here too.*)
Init ==
    \/ ui = Fresh
    \/ LET a == CHOOSE x \in Areas : TRUE          \* which one is the same
           u == [Fresh EXCEPT !.area = a] IN
        Areas # {} /\ ui \in {LoadRoute(u), TransitionTo(Listen([u EXCEPT !.made[1] = a], 1), "generating"), Driving(a, "active"), Driving(a, "to_start")}

Saving == DebounceEnds \/ RetryTimer \/ \E p \in ui.puts : PersistDone(p) \/ PersistFails(p)

Generating ==
    \/ \E r \in ui.starts : GenerationRefused(r) \/ \E t \in Tasks : GenerationStarted(r, t)
    \/ \E t \in Tasks : ConnectionLost(t) \/ GenerationComplete(t) \/ GenerationError(t)
    \/ \E c \in ui.cancels : Cancelled(c)

Loading ==
    \/ \E l \in ui.loads : AreaArrives(l) \/ RouteArrives(l) \/ SegmentsSettled(l) \/ EtaArrives(l) \/ LoadFails(l)
    \/ \E c \in ui.checks : PositionUnknown(c) \/ WayArrives(c) \/ \E b \in BOOLEAN : PositionKnown(c, b)
    \/ \E e \in ui.ends : EndSaved(e) \/ EndRefreshed(e)
    \/ WayToStartArrives \/ OfferAnswered \/ StartTimer \/ HandleGeolocationError

Acts ==
    \/ ClickLoad \/ ClickCancel \/ RegenerateRoute \/ StartNavigatingToStart
    \/ \E a \in MaybeArea : HandleAreaChange(a)
    \/ \E b \in BOOLEAN : BeginNavigation(b)
    \/ \E f \in Fixes, segs \in {{}} \cup {{s} : s \in Segments} : UpdateNavigation(f, segs)
    \/ ResumeFromAhead \/ DismissResumePrompt \/ ShowSetup \/ EndNavigation \/ ThemeChanges \/ Leave

Next == Saving \/ Generating \/ Loading \/ Acts

Spec == Init /\ [][Next]_ui

-----------------------------------------------------------------------------
(* A segment driven is never lost: it is saved, on its way, or waiting -   *)
(* except what a reset of the route dropped while it waited.               *)
DrivenNotLost ==
    ui.marked \subseteq ui.kept \cup ui.cov.pend \cup ui.dropped \cup UNION {p.segs : p \in ui.puts}

(* What waits to be saved is tried again: a timer runs, unless the retries *)
(* are exhausted or a save that succeeded has stopped the timer of one     *)
(* that failed.                                                            *)
RetryScheduled ==
    ui.cov.pend # {} /\ ~ui.stranded => ui.cov.debounce \/ ui.cov.retry \/ ui.cov.fails = MaxPersistRetries

(* The route, the figures and the streets are those of the selected area,  *)
(* unless two loads crossed.                                               *)
RouteOfArea ==
    ui.loaded /\ ~ui.crossed => ui.route = ui.area /\ ui.base = ui.area /\ ui.cov.und \subseteq SegmentsOf(ui.area)

(* While the page says a route is generated, the task's events are heard,  *)
(* or something is on its way that ends it - except that a load that fails *)
(* after the generation leaves the page there.                             *)
GenerationHeard ==
    ui.st = "generating" /\ ~ui.crossed /\ ~ui.stuck =>
        ui.source \in ui.open \/ ui.cancels # {} \/ ui.loads # {} \/ ui.starts # {}

(* No event source is left open that nothing would close.                  *)
SourcesOwned == ~ui.crossed => ui.open \subseteq {ui.source}

(* The position is watched only while driving, never after the page was    *)
(* left, unless an answer came for a route that had gone.                  *)
WatchOwned == ui.watch /\ ~ui.late => ui.nav /\ ~ui.left
=============================================================================
