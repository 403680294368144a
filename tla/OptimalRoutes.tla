---------------------------- MODULE OptimalRoutes ----------------------------
(***************************************************************************)
(* The optimal routes of the route planner (modules/optimal-route): an     *)
(* area is selected and its streets, saved route and running generation    *)
(* are fetched in turn; a generation is started, followed by an event      *)
(* stream or by polling, cancelled, and its route shown.                   *)
(***************************************************************************)
EXTENDS Naturals, FiniteSets, FiniteSetsExt

CONSTANTS Areas, NoArea, MaxTasks, MaxFailures, MaxSteps

VARIABLE ui

Tasks == 1..MaxTasks
NoTask == 0
(* What is drawn: the saved route of an area, or the route of some         *)
(* segments, told by the task that made it.                                *)
NoRoute == <<"none">>
Routes == ({"saved"} \X Areas) \cup ({"cluster"} \X Tasks) \cup {NoRoute}
Kinds == {"areas", "streets", "saved", "active", "worker", "start", "poll", "cancel", "clear", "finished", "result"}

TypeOK ==
    ui \in [ on : BOOLEAN, listed : BOOLEAN, area : Areas \cup {NoArea}, task : Tasks \cup {NoTask}, cluster : BOOLEAN,
             streets : Areas \cup {NoArea}, data : Routes, line : Routes, anim : Routes,
             view : {"none", "progress", "results", "error"}, timer : BOOLEAN, button : BOOLEAN, nav : BOOLEAN, has : [Areas -> BOOLEAN],
             following : Tasks \cup {NoTask}, stream : Tasks \cup {NoTask}, poll : Tasks \cup {NoTask}, polling : BOOLEAN,
             failures : 0..MaxFailures,
             net : SUBSET [id : Nat, kind : Kinds, a : Areas \cup {NoArea}, t : Tasks \cup {NoTask}, cl : BOOLEAN],
             tasks : [Tasks -> [a : Areas \cup {NoArea}, cl : BOOLEAN, s : {"none", "running", "completed", "failed", "cancelled"}]],
             srv : [Areas -> BOOLEAN], crossed : BOOLEAN, unfollowed : BOOLEAN, steps : 0..MaxSteps ]

User == ui.on /\ ui.steps < MaxSteps
Acted(u) == [u EXCEPT !.steps = @ + 1]
Fresh(net) == Min((0..Cardinality(net)) \ {q.id : q \in net})
Asked(u, kind, a, t, cl) == [u EXCEPT !.net = @ \cup {[id |-> Fresh(@), kind |-> kind, a |-> a, t |-> t, cl |-> cl]}]
Done(u, q) == [u EXCEPT !.net = @ \ {q}]
Starting(u) == \E q \in u.net : q.kind \in {"worker", "start"}
Busy(u) == u.task # NoTask \/ Starting(u)

-----------------------------------------------------------------------------
HideProgress(u) == [u EXCEPT !.view = IF @ = "progress" THEN "none" ELSE @, !.timer = FALSE]
ShowProgressSection(u) == [u EXCEPT !.view = "progress", !.timer = TRUE, !.button = FALSE]
ShowResults(u) == [u EXCEPT !.view = "results", !.timer = FALSE, !.button = TRUE, !.nav = TRUE]
ShowError(u) == [u EXCEPT !.view = "error", !.timer = FALSE, !.button = TRUE, !.nav = FALSE]

(* A drawing that goes on is stopped first.                                *)
DisplayRoute(u, r, animate) ==
    IF animate THEN [u EXCEPT !.line = NoRoute, !.anim = r] ELSE [u EXCEPT !.line = r, !.anim = NoRoute]

ClearRoute(u) == [u EXCEPT !.line = NoRoute, !.anim = NoRoute]

ClearRouteDisplay(u) == [ClearRoute(u) EXCEPT !.view = "none", !.timer = FALSE, !.nav = FALSE, !.data = NoRoute]

-----------------------------------------------------------------------------
DisconnectSSE(u) == [u EXCEPT !.stream = NoTask, !.poll = NoTask, !.polling = FALSE, !.failures = 0, !.following = NoTask]
ConnectSSE(u, t) == [DisconnectSSE(u) EXCEPT !.following = t, !.stream = t]

(* The timer asks at once; a tick asks only with no answer due.            *)
PollProgress(u, t) == IF u.polling \/ u.following # t THEN u ELSE Asked([u EXCEPT !.polling = TRUE], "poll", NoArea, t, FALSE)
StartProgressPolling(u, t) == IF u.poll # NoTask THEN u ELSE [PollProgress(u, t) EXCEPT !.poll = t]

OnError(u) == ShowError([u EXCEPT !.task = NoTask, !.cluster = FALSE])
OnCancelled(u) == [HideProgress(u) EXCEPT !.task = NoTask, !.cluster = FALSE, !.button = TRUE]

(* The finished route is the task's result, or that of the selected area.  *)
OnGenerationComplete(u) ==
    LET v == [u EXCEPT !.task = NoTask, !.cluster = FALSE]
    IN  IF u.cluster /\ u.task # NoTask THEN Asked(v, "result", u.area, u.task, TRUE)
        ELSE Asked([v EXCEPT !.crossed = @ \/ u.area = NoArea], "finished", u.area, NoTask, FALSE)

(* A task's end is taken for the end of the task on show.                  *)
HandleTerminalState(u, t) ==
    LET v == DisconnectSSE([u EXCEPT !.crossed = @ \/ t # u.task \/ u.tasks[t].a # u.area])
    IN  CASE u.tasks[t].s = "completed" -> OnGenerationComplete(v)
          [] u.tasks[t].s = "failed" -> OnError(v)
          [] u.tasks[t].s = "cancelled" -> OnCancelled(v)
          [] OTHER -> u

-----------------------------------------------------------------------------
LoadCoverageAreas == ui.on /\ ~ui.listed /\ (\A q \in ui.net : q.kind # "areas") /\ ui' = Asked(ui, "areas", NoArea, NoTask, FALSE)

(* A new area: everything of the last one is cleared, then the streets are *)
(* asked for. The generation of the last area is still followed.           *)
OnAreaSelect(u, a) ==
    LET v == [ClearRouteDisplay(u) EXCEPT !.area = a, !.button = (a # NoArea), !.crossed = @ \/ Busy(u)]
    IN  IF a = NoArea THEN [v EXCEPT !.streets = NoArea] ELSE Asked(v, "streets", a, NoTask, FALSE)

AreasArrive(q) ==
    /\ q.kind = "areas"
    /\ LET u == [Done(ui, q) EXCEPT !.listed = TRUE, !.has = ui.srv]
       IN  \/ ui' = u
           \/ \E a \in Areas : ui.area = NoArea /\ ui' = OnAreaSelect(u, a)
           \/ ui' = Done(ui, q)

SelectArea(a) == User /\ ui.listed /\ a # ui.area /\ ui' = Acted(OnAreaSelect(ui, a))

(* The chain of a selection goes on whatever is selected by now.           *)
Stale(u, q) == u.crossed \/ q.a # u.area

StreetsArrive(q) ==
    /\ q.kind = "streets"
    /\ \E ok \in BOOLEAN :
         LET u == [Done(ui, q) EXCEPT !.streets = IF ok THEN q.a ELSE @,
                                      !.crossed = Stale(ui, q) \/ (~ok /\ ui.streets \notin {NoArea, q.a})]
         IN  ui' = Asked(u, IF ui.has[q.a] THEN "saved" ELSE "active", q.a, NoTask, FALSE)

SavedArrives(q) ==
    /\ q.kind = "saved"
    /\ LET u == Asked([Done(ui, q) EXCEPT !.crossed = Stale(ui, q) \/ Busy(ui)], "active", q.a, NoTask, FALSE)
       IN  \/ ui.srv[q.a] /\ ui' = ShowResults(DisplayRoute([u EXCEPT !.data = <<"saved", q.a>>], <<"saved", q.a>>, FALSE))
           \/ ui' = u

(* A running generation of the area is joined. (The map then moves there.) *)
ActiveArrives(q) ==
    /\ q.kind = "active"
    /\ LET u == [Done(ui, q) EXCEPT !.crossed = Stale(ui, q)]
       IN  \/ \E t \in Tasks : /\ ui.tasks[t].a = q.a /\ ui.tasks[t].s = "running"
                               /\ ui' = ConnectSSE(ShowProgressSection([u EXCEPT !.task = t, !.crossed = @ \/ ui.tasks[t].cl \/ Starting(ui)
                                                                                  \/ ui.task \notin {t, NoTask}]), t)
           \/ ui' = u

-----------------------------------------------------------------------------
GenerateRoute ==
    /\ User /\ ui.button /\ ui.area # NoArea
    /\ ui' = Acted(Asked(ShowProgressSection([ui EXCEPT !.crossed = @ \/ ui.task # NoTask]), "worker", ui.area, NoTask, FALSE))

(* The driving page asks for a route through some segments.                *)
GenerateClusterRoute ==
    /\ User /\ ui.area # NoArea
    /\ ui' = Acted(Asked(ShowProgressSection([ui EXCEPT !.cluster = TRUE, !.crossed = @ \/ Busy(ui)]),
                         "worker", ui.area, NoTask, TRUE))

(* The area is read anew once the worker's state is known.                 *)
WorkerChecked(q) == q.kind = "worker" /\ ui' = Asked(Done(ui, q), "start", IF q.cl THEN q.a ELSE ui.area, NoTask, q.cl)

Started(q) ==
    /\ q.kind = "start"
    /\ \/ \E t \in Tasks :
            /\ ui.tasks[t].s = "none" /\ q.a # NoArea /\ \A n \in 1..(t - 1) : ui.tasks[n].s # "none"
            /\ ui' = ConnectSSE([Done(ui, q) EXCEPT !.tasks[t] = [a |-> q.a, cl |-> q.cl, s |-> "running"], !.task = t,
                                                    !.crossed = Stale(ui, q)], t)
       \/ ui' = OnError([Done(ui, q) EXCEPT !.unfollowed = @ \/ ui.task # NoTask])

-----------------------------------------------------------------------------
StreamMessage == ui.stream # NoTask /\ ui.tasks[ui.stream].s # "running" /\ ui' = HandleTerminalState(ui, ui.stream)

(* Mutant: a stream that fails is not replaced by polling.                 *)
StreamLost == ui.stream # NoTask /\ ui' = [ui EXCEPT !.stream = NoTask]

StreamEnds ==
    /\ ui.stream # NoTask
    /\ ui' = IF ui.following = ui.stream THEN StartProgressPolling([ui EXCEPT !.stream = NoTask], ui.stream)
             ELSE [ui EXCEPT !.stream = NoTask]

PollTick == ui.poll # NoTask /\ ~ui.polling /\ ui.following = ui.poll /\ ui' = PollProgress(ui, ui.poll)

PollArrives(q) ==
    /\ q.kind = "poll"
    /\ ui' = [HandleTerminalState([Done(ui, q) EXCEPT !.failures = 0], q.t) EXCEPT !.polling = FALSE]

PollFails(q) ==
    /\ q.kind = "poll"
    /\ LET u == [Done(ui, q) EXCEPT !.polling = FALSE, !.crossed = @ \/ q.t # ui.task]
       IN  \/ ui' = u
           \/ /\ ui.failures + 1 < MaxFailures /\ ui' = [u EXCEPT !.failures = @ + 1]
           \/ /\ ui.failures + 1 >= MaxFailures /\ ui' = OnError(DisconnectSSE(u))

(* The task is no longer followed from the moment its end is asked for.    *)
CancelTask ==
    /\ User /\ ui.task # NoTask /\ ui.view = "progress"
    /\ ui' = Acted(Asked(DisconnectSSE(ui), "cancel", ui.area, ui.task, FALSE))

CancelAnswered(q) ==
    /\ q.kind = "cancel"
    /\ LET u == Done(ui, q)
       IN  \/ ui' = OnCancelled([u EXCEPT !.tasks[q.t].s = IF @ = "running" THEN "cancelled" ELSE @,
                                          !.unfollowed = @ \/ ui.task \notin {q.t, NoTask} \/ Starting(ui)])
           \/ ui' = [u EXCEPT !.unfollowed = TRUE]

(* A route that could not be read leaves the progress on show for ever.    *)
FinishedArrives(q) ==
    /\ q.kind \in {"finished", "result"}
    /\ LET u == [Done(ui, q) EXCEPT !.crossed = Stale(ui, q) \/ Busy(ui)]
           r == IF q.kind = "result" THEN <<"cluster", q.t>> ELSE <<"saved", q.a>>
           v == IF q.kind = "result" \/ ui.area = NoArea THEN u ELSE [u EXCEPT !.has[ui.area] = TRUE]
       IN  \/ /\ q.kind = "result" \/ (q.a # NoArea /\ ui.srv[q.a])
              /\ ui' = ShowResults(DisplayRoute([v EXCEPT !.data = r], r, TRUE))
           \/ ui' = ShowError(u)
           \/ q.kind = "finished" /\ ui' = [u EXCEPT !.unfollowed = TRUE]

DrawFrame == ui.anim # NoRoute /\ ui' = [ui EXCEPT !.line = ui.anim, !.anim = NoRoute]
ReplayAnimation == User /\ ui.data # NoRoute /\ ui' = Acted(DisplayRoute(ui, ui.data, TRUE))

DeleteRoute == User /\ ui.area # NoArea /\ ui.view = "results" /\ ui' = Acted(Asked(ui, "clear", ui.area, NoTask, FALSE))

(* The page says the route is gone whether or not it is.                   *)
RouteCleared(q) ==
    /\ q.kind = "clear"
    /\ \E ok \in BOOLEAN :
         ui' = ClearRouteDisplay([Done(ui, q) EXCEPT !.has[q.a] = FALSE, !.srv[q.a] = @ /\ ~ok,
                                   !.crossed = @ \/ Busy(ui)])

(* Leaving removes the map and its drawing, not what follows the task.     *)
Destroy == ui.on /\ ui' = [ui EXCEPT !.on = FALSE, !.anim = NoRoute]

TaskEnds(t) ==
    /\ ui.tasks[t].s = "running"
    /\ \E s \in {"completed", "failed", "cancelled"} :
         ui' = [ui EXCEPT !.tasks[t].s = s,
                          !.srv = IF s = "completed" /\ ~ui.tasks[t].cl THEN [@ EXCEPT ![ui.tasks[t].a] = TRUE] ELSE @]

(* A generation of an earlier visit may still be running: of which area is *)
(* the same.                                                               *)
Idle == [a |-> NoArea, cl |-> FALSE, s |-> "none"]
Earlier == [a : {CHOOSE a \in Areas : TRUE} \cap Areas, cl : {FALSE}, s : {"running"}]

Init ==
    \E s \in [Areas -> BOOLEAN], first \in {Idle} \cup Earlier :
        ui = [ on |-> TRUE, listed |-> FALSE, area |-> NoArea, task |-> NoTask, cluster |-> FALSE, streets |-> NoArea,
               data |-> NoRoute, line |-> NoRoute, anim |-> NoRoute, view |-> "none", timer |-> FALSE, button |-> FALSE,
               nav |-> FALSE, has |-> [a \in Areas |-> FALSE], following |-> NoTask, stream |-> NoTask, poll |-> NoTask,
               polling |-> FALSE, failures |-> 0, net |-> {}, tasks |-> [t \in Tasks |-> IF t = 1 THEN first ELSE Idle],
               srv |-> s, crossed |-> FALSE, unfollowed |-> FALSE, steps |-> 0 ]

Answers(q) ==
    \/ AreasArrive(q) \/ StreetsArrive(q) \/ SavedArrives(q) \/ ActiveArrives(q) \/ WorkerChecked(q)
    \/ Started(q) \/ PollArrives(q) \/ PollFails(q) \/ CancelAnswered(q) \/ FinishedArrives(q) \/ RouteCleared(q)

Next ==
    \/ \E q \in ui.net : Answers(q)
    \/ \E a \in Areas \cup {NoArea} : SelectArea(a)
    \/ \E t \in Tasks : TaskEnds(t)
    \/ LoadCoverageAreas \/ GenerateRoute \/ GenerateClusterRoute \/ StreamMessage \/ StreamEnds \/ PollTick \/ CancelTask
    \/ DrawFrame \/ ReplayAnimation \/ DeleteRoute \/ Destroy

Spec == Init /\ [][Next]_ui

-----------------------------------------------------------------------------
(* A generation on show is followed: by its stream or by polling, never by *)
(* both, until it is asked to be cancelled; and the clock runs exactly     *)
(* while the progress is on show. Not after a cancellation that failed or  *)
(* that was answered once another generation had begun, nor after a start  *)
(* that failed beside another: the task goes on and nobody listens, or     *)
(* nothing shows (api.js:192, manager.js:519).                             *)
TaskIsFollowed ==
    /\ ui.timer = (ui.view = "progress")
    /\ ui.task # NoTask /\ ~ui.crossed /\ ~ui.unfollowed /\ (\A q \in ui.net : q.kind # "cancel") =>
         /\ ui.following = ui.task /\ {ui.stream, ui.poll} = {NoTask, ui.task}
         /\ ui.view = "progress"

(* What is on show is of the selected area: the streets, the line, the     *)
(* results and the generation, unless a selection or a start overtook      *)
(* another, or the area was changed during a generation (manager.js:358    *)
(* goes on with the area it was called for, :567 reads the one selected),  *)
(* or the streets could not be read: the last area's stay.                 *)
RouteOfSelection ==
    ui.on /\ ~ui.crossed =>
      /\ ui.streets \in {NoArea, ui.area} \/ \E q \in ui.net : q.kind \in {"streets", "saved", "active"} /\ q.a = ui.area
      /\ \A r \in {ui.data, ui.line, ui.anim} : r # NoRoute => r[1] = "cluster" \/ r[2] = ui.area
      /\ ui.view = "results" => ui.data # NoRoute /\ (ui.line = ui.data \/ ui.anim = ui.data)
      /\ ui.task # NoTask => ui.tasks[ui.task].a = ui.area
      /\ ui.area = NoArea => ui.view = "none" /\ ui.line = NoRoute /\ ui.streets = NoArea

=============================================================================
