------------------------------ MODULE RoutesPage ------------------------------
(***************************************************************************)
(* The recurring-routes page (features/routes/index.js): the list, the     *)
(* build job it starts and polls, the route dialog with its analytics,     *)
(* trips and overlay, and the explorer of the trips between two places.    *)
(***************************************************************************)
EXTENDS Naturals, FiniteSets

CONSTANTS
    Routes, NoRoute,
    Looks,       \* what the list's search box and filters can ask for
    Pairs,       \* pairs of places the explorer can be asked about
    MaxJobs,     \* builds the server may be asked for
    MaxSteps     \* bound on what the user does

VARIABLE ui

Maybe == Routes \cup {NoRoute}
Tokens == 0..MaxSteps

TypeOK ==
    ui \in [ form    : Looks, shownFor : Looks \cup {NoRoute}, typed : BOOLEAN,
             sort    : {"trips", "recent"}, chunks : 1..(MaxSteps + 1), listing : BOOLEAN,
             job     : 0..MaxJobs, timer : 0..MaxJobs, ended : SUBSET (1..MaxJobs), jobs : 0..MaxJobs,
             build   : {"idle", "running", "success", "error"},
             id      : Maybe, token : Tokens, open : BOOLEAN,      \* routeModalRouteId and open token
             route   : Maybe, facts : Maybe, trips : Maybe, overlay : Maybe, all : BOOLEAN,
             drawDue : Tokens, tab : {"overview", "analytics"}, charts : Maybe,
             text    : Maybe, saving : BOOLEAN,                    \* whose name the box holds; debounce
             pinned  : SUBSET Routes, filed : SUBSET (Routes \X Routes),
             pair    : Pairs, answered : Pairs \cup {NoRoute}, run : Tokens, analyzing : BOOLEAN,
             net     : SUBSET [op : {"list", "start", "poll", "cancel", "detail", "trips", "overlay",
                                     "patch", "pair"},
                               of : Routes \cup Looks \cup Pairs \cup {NoRoute},
                               n : 0..(MaxSteps + MaxJobs)],
             switched : BOOLEAN, steps : 0..MaxSteps ]

User == ui.steps < MaxSteps
Acted(u) == [u EXCEPT !.steps = @ + 1]
Sent(u, op, of, n) == [u EXCEPT !.net = @ \cup {[op |-> op, of |-> of, n |-> n]}]
Got(u, r) == [u EXCEPT !.net = @ \ {r}]

-----------------------------------------------------------------------------
(* The list. Nothing orders two answers: each is drawn as it comes.        *)
LoadRoutes(u) == Sent([u EXCEPT !.chunks = 1, !.listing = TRUE], "list", u.form, u.steps)

RoutesArrive(r) ==
    /\ r.op = "list"
    /\ ui' = [Got(ui, r) EXCEPT !.shownFor = r.of, !.listing = FALSE]

RoutesFail(r) ==
    /\ r.op = "list"
    /\ ui' = [Got(ui, r) EXCEPT !.shownFor = NoRoute, !.listing = FALSE]

(* The search box waits 250 ms; the other filters load at once.            *)
TypeSearch(q) ==
    /\ User /\ q # ui.form
    /\ ui' = Acted([ui EXCEPT !.form = q, !.typed = TRUE])

SearchTimer ==
    /\ ui.typed
    /\ ui' = LoadRoutes([ui EXCEPT !.typed = FALSE])

ChangeFilter(q) ==
    /\ User /\ q # ui.form
    /\ ui' = Acted(LoadRoutes([ui EXCEPT !.form = q]))

(* Sorting and showing more work on the rows at hand, pinned ones first.   *)
ShowMore ==
    /\ User /\ ui.shownFor # NoRoute
    /\ ui' = Acted([ui EXCEPT !.chunks = @ + 1])

SortRoutes(s) ==
    /\ User /\ s # ui.sort
    /\ ui' = Acted([ui EXCEPT !.sort = s])

-----------------------------------------------------------------------------
(* The build job.                                                          *)
StopBuildPolling(u) == [u EXCEPT !.job = 0, !.timer = 0]

StartBuild ==
    /\ User /\ ui.jobs < MaxJobs
    /\ ui' = Acted(Sent([ui EXCEPT !.build = "running", !.jobs = @ + 1], "start", NoRoute, ui.jobs + 1))

StartFails(r) ==
    /\ r.op = "start"
    /\ ui' = [Got(ui, r) EXCEPT !.build = "error"]

(* pollBuildJob: the job becomes the active one and is asked for at once.  *)
PollBuildJob(r) ==
    /\ r.op = "start"
    /\ ui' = Sent([Got(ui, r) EXCEPT !.job = r.n, !.timer = 0], "poll", NoRoute, r.n)

Tick ==
    /\ ui.timer # 0
    /\ LET u == [ui EXCEPT !.timer = 0] IN
       ui' = IF ui.timer # ui.job THEN StopBuildPolling(u) ELSE Sent(u, "poll", NoRoute, ui.timer)

Rearmed(u, j) == IF u.job = j THEN [u EXCEPT !.timer = j] ELSE u

PollArrives(r) ==
    /\ r.op = "poll"
    /\ r.n \notin ui.ended
    /\ ui' = Rearmed([Got(ui, r) EXCEPT !.build = "running"], r.n)

(* An ended job stops all polling, also that of a job started since.       *)
PollEnds(r, completed) ==
    /\ r.op = "poll"
    /\ r.n \in ui.ended
    /\ LET u == [StopBuildPolling(Got(ui, r)) EXCEPT !.switched = @ \/ ui.job # r.n] IN
       ui' = IF completed THEN LoadRoutes([u EXCEPT !.build = "success"]) ELSE [u EXCEPT !.build = "error"]

PollFails(r) ==
    /\ r.op = "poll"
    /\ ui' = Rearmed(Got(ui, r), r.n)

CancelBuild ==
    /\ User /\ ui.job # 0
    /\ ui' = Acted(Sent(ui, "cancel", NoRoute, ui.job))

CancelArrives(r) ==
    /\ r.op = "cancel"
    /\ ui' = [Got(ui, r) EXCEPT !.ended = @ \cup {r.n}]

JobEnds(j) ==
    /\ j \in 1..ui.jobs \ ui.ended
    /\ ~ \E r \in ui.net : r.op = "start" /\ r.n = j
    /\ ui' = [ui EXCEPT !.ended = @ \cup {j}]

-----------------------------------------------------------------------------
(* The route dialog.                                                       *)

(* Mutant: any opening will do while a route is open.                      *)
AnyOpening(r) == ui.id # NoRoute

(* Every part after an await belongs to the opening that asked for it.     *)
Current(r) == r.n = ui.token /\ r.of = ui.id

OpenRouteModal(r) ==
    /\ User /\ ~ui.open
    /\ ui' = Acted(Sent([ui EXCEPT !.token = @ + 1, !.id = r, !.facts = NoRoute, !.overlay = NoRoute,
                                   !.all = FALSE, !.charts = NoRoute, !.tab = "overview"], "detail", r, ui.token + 1))

(* hidden.bs.modal.                                                        *)
CloseModal ==
    /\ User /\ ui.open
    /\ ui' = Acted([ui EXCEPT !.open = FALSE, !.id = NoRoute, !.route = NoRoute, !.facts = NoRoute,
                              !.overlay = NoRoute, !.all = FALSE, !.charts = NoRoute])

(* The header, the numbers and the controls; map and overlay 80 ms later.  *)
DetailArrives(r) ==
    /\ r.op = "detail"
    /\ ui' = IF ~Current(r) THEN Got(ui, r)
             ELSE Sent([Got(ui, r) EXCEPT !.route = r.of, !.facts = r.of, !.text = r.of, !.open = TRUE,
                                          !.drawDue = r.n], "trips", r.of, r.n)

DrawTimer ==
    /\ ui.drawDue # 0
    /\ LET u == [ui EXCEPT !.drawDue = 0] IN
       ui' = IF ui.drawDue # ui.token \/ ui.id = NoRoute THEN u ELSE Sent(u, "overlay", ui.id, ui.token)

TripsArrive(r) ==
    /\ r.op = "trips"
    /\ ui' = IF Current(r) THEN [Got(ui, r) EXCEPT !.trips = r.of] ELSE Got(ui, r)

OverlayArrives(r) ==
    /\ r.op = "overlay"
    /\ ui' = IF Current(r) THEN [Got(ui, r) EXCEPT !.overlay = r.of, !.all = TRUE] ELSE Got(ui, r)

ToggleAllTrips ==
    /\ User /\ ui.open
    /\ ui' = Acted([ui EXCEPT !.all = ~@])

(* The analytics tab draws its four charts, leaving it destroys them.      *)
ModalTab(t) ==
    /\ User /\ ui.open /\ t # ui.tab
    /\ ui' = Acted([ui EXCEPT !.tab = t, !.charts = IF t = "analytics" THEN ui.facts ELSE NoRoute])

(* saveNameNow files what the box holds under the route now open.          *)
SaveName(u) ==
    IF u.id = NoRoute THEN u
    ELSE Sent([u EXCEPT !.filed = @ \cup {<<u.text, u.id>>}], "patch", u.id, u.token)

TypeName ==
    /\ User /\ ui.open /\ ui.route # NoRoute
    /\ ui' = Acted([ui EXCEPT !.saving = TRUE])

NameTimer ==
    /\ ui.saving
    /\ ui' = SaveName([ui EXCEPT !.saving = FALSE])

TogglePin ==
    /\ User /\ ui.open /\ ui.route # NoRoute
    /\ ui' = Acted(Sent(ui, "patch", ui.id, ui.token))

(* The answer replaces the dialog's route, whichever is open by now.       *)
PatchArrives(r) ==
    /\ r.op = "patch"
    /\ ui' = LoadRoutes([Got(ui, r) EXCEPT !.route = r.of, !.text = r.of, !.switched = @ \/ ~Current(r),
                                           !.pinned = IF r.of \in @ THEN @ \ {r.of} ELSE @ \cup {r.of}])

RequestFails(r) ==
    /\ r.op \in {"detail", "trips", "overlay", "patch", "cancel"}
    /\ ui' = Got(ui, r)

-----------------------------------------------------------------------------
(* The explorer: the newest question wins.                                 *)
RunExplorerAnalysis(p) ==
    /\ User
    /\ ui' = Acted(Sent([ui EXCEPT !.pair = p, !.run = @ + 1, !.analyzing = TRUE], "pair", p, ui.run + 1))

PairArrives(r) ==
    /\ r.op = "pair"
    /\ ui' = IF r.n = ui.run THEN [Got(ui, r) EXCEPT !.answered = r.of, !.analyzing = FALSE]
             ELSE Got(ui, r)

PairFails(r) ==
    /\ r.op = "pair"
    /\ ui' = [Got(ui, r) EXCEPT !.answered = NoRoute, !.analyzing = @ /\ r.n # ui.run]

Start ==
    [ form |-> CHOOSE q \in Looks : TRUE, shownFor |-> NoRoute, typed |-> FALSE, sort |-> "trips",
      chunks |-> 1, listing |-> FALSE, job |-> 0, timer |-> 0, ended |-> {}, jobs |-> 0,
      build |-> "idle", id |-> NoRoute, token |-> 0, open |-> FALSE, route |-> NoRoute,
      facts |-> NoRoute, trips |-> NoRoute, overlay |-> NoRoute, all |-> FALSE, drawDue |-> 0, tab |-> "overview",
      charts |-> NoRoute, text |-> NoRoute, saving |-> FALSE, pinned |-> {}, filed |-> {},
      pair |-> CHOOSE p \in Pairs : TRUE, answered |-> NoRoute, run |-> 0, analyzing |-> FALSE,
      net |-> {}, switched |-> FALSE, steps |-> 0 ]

Init == ui = LoadRoutes(Start)

Next ==
    \/ SearchTimer \/ ShowMore \/ StartBuild \/ Tick \/ CancelBuild \/ CloseModal \/ DrawTimer
    \/ ToggleAllTrips \/ TypeName \/ NameTimer \/ TogglePin
    \/ \E q \in Looks : TypeSearch(q) \/ ChangeFilter(q)
    \/ \E s \in {"trips", "recent"} : SortRoutes(s)
    \/ \E j \in 1..MaxJobs : JobEnds(j)
    \/ \E x \in Routes : OpenRouteModal(x)
    \/ \E t \in {"overview", "analytics"} : ModalTab(t)
    \/ \E p \in Pairs : RunExplorerAnalysis(p)
    \/ \E r \in ui.net :
        \/ RoutesArrive(r) \/ RoutesFail(r) \/ StartFails(r) \/ PollBuildJob(r) \/ PollArrives(r)
        \/ (\E c \in BOOLEAN : PollEnds(r, c))
        \/ PollFails(r) \/ CancelArrives(r) \/ DetailArrives(r) \/ TripsArrive(r) \/ OverlayArrives(r)
        \/ PatchArrives(r) \/ RequestFails(r) \/ PairArrives(r) \/ PairFails(r)

Spec == Init /\ [][Next]_ui

-----------------------------------------------------------------------------
(* What is in the dialog, loaded by four requests and a timer, is all of   *)
(* the route that is open: analytics, charts, overlay and, unless a saved  *)
(* edit of another route answered late, the header and the controls.       *)
DialogOfOneRoute ==
    ui.open => /\ {ui.facts, ui.overlay, ui.charts} \subseteq {ui.id, NoRoute}
               /\ ui.switched \/ ui.route \in {ui.id, NoRoute}

(* The timer that polls is the active job's, whatever job was polled last. *)
PollsActiveJob == ui.timer \in {0, ui.job}

(* The explorer shows the answer to its last question, or none; while one  *)
(* is open its button stays disabled.                                      *)
ExplorerAnswersLast ==
    /\ ~ui.analyzing => ui.answered \in {ui.pair, NoRoute}
    /\ ui.analyzing = \E r \in ui.net : r.op = "pair" /\ r.n = ui.run
=============================================================================
