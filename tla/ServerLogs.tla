----------------------------- MODULE ServerLogs -----------------------------
(***************************************************************************)
(* The server-log page (features/server-logs): the application's log with  *)
(* its filters, and the logs of the containers, fetched by a small pool of *)
(* requests that a newer selection aborts. Both refresh on a timer.        *)
(***************************************************************************)
EXTENDS Naturals, FiniteSets

CONSTANTS
    Filters,       \* what a filter form can hold
    Containers,
    Pool,          \* DOCKER_LOG_REQUEST_CONCURRENCY
    MaxSteps

VARIABLE ui

None == "none"

TypeOK ==
    ui \in [ form   : Filters,                                   \* level, limit, search of the server log
             logs   : Filters \cup {None}, shown : {"loading", "logs", "failed"}, stats : Nat,
             auto   : BOOLEAN, timer : BOOLEAN,                  \* autoRefreshEnabled, autoRefreshInterval
             clear  : {"idle", "asking", "deleting", "reloading"}, kept : Nat,
             dform  : Filters, known : SUBSET Containers, sel : SUBSET Containers,
             raw    : SUBSET Containers, cur : [of : SUBSET Containers, by : Filters \cup {None}],
             dshown : {"empty", "loading", "logs", "failed"}, card : Containers \cup {None},
             ctl    : Nat,                                       \* dockerLogRequestController
             pools  : SUBSET [id : Nat, want : SUBSET Containers, todo : SUBSET Containers,
                              open : SUBSET Containers, ok : SUBSET Containers],
             dauto  : BOOLEAN, dtimer : BOOLEAN,
             dclear : [step : {"idle", "asking", "deleting"}, of : SUBSET Containers],
             net    : SUBSET [op : {"logs", "stats", "delete", "containers"}, id : Nat, form : Filters],
             seq    : Nat, crossed : BOOLEAN, alive : BOOLEAN, steps : 0..MaxSteps ]

User == ui.alive /\ ui.steps < MaxSteps
Acted(u) == [u EXCEPT !.steps = @ + 1]
Got(u, r) == [u EXCEPT !.net = @ \ {r}]
Sent(u, op) ==
    [u EXCEPT !.net = @ \cup {[op |-> op, id |-> u.seq + 1, form |-> u.form]}, !.seq = @ + 1]

-----------------------------------------------------------------------------
(* The server's own log. Answers are not ordered: `crossed' tells when two *)
(* loads were under way together.                                          *)
LoadStats(u) == Sent(u, "stats")

LoadLogs(u) ==
    [Sent(u, "logs") EXCEPT !.shown = "loading",
                            !.crossed = @ \/ \E r \in u.net : r.op = "logs"]

LogsArrive(r) ==
    /\ r.op = "logs"
    /\ ui' = [Got(ui, r) EXCEPT !.logs = r.form, !.shown = "logs",
                                !.clear = IF @ = "reloading" THEN "idle" ELSE @]

LogsFail(r) ==
    /\ r.op = "logs"
    /\ ui' = [Got(ui, r) EXCEPT !.shown = "failed",
                                !.clear = IF @ = "reloading" THEN "idle" ELSE @]

StatsArrive(r) ==
    /\ r.op = "stats"
    /\ ui' = [Got(ui, r) EXCEPT !.stats = r.id]

StatsFail(r) ==
    /\ r.op = "stats"
    /\ ui' = Got(ui, r)

EditFilters(f) ==
    /\ User /\ f # ui.form
    /\ ui' = Acted([ui EXCEPT !.form = f])

(* Refresh, Apply, Enter in the search field, Retry: all load the log.     *)
Refresh ==
    /\ User
    /\ ui' = Acted(LoadLogs(ui))

RefreshStats ==
    /\ User
    /\ ui' = Acted(LoadStats(ui))

(* Clearing asks first, holds its button, and loads log and figures again. *)
AskClear ==
    /\ User /\ ui.clear = "idle"
    /\ ui' = Acted([ui EXCEPT !.clear = "asking"])

DeclineClear ==
    /\ ui.alive /\ ui.clear = "asking"
    /\ ui' = [ui EXCEPT !.clear = "idle"]

ConfirmClear ==
    /\ ui.alive /\ ui.clear = "asking"
    /\ ui' = Sent([ui EXCEPT !.clear = "deleting"], "delete")

Cleared(r) ==
    /\ r.op = "delete"
    /\ ui' = LoadStats(LoadLogs([Got(ui, r) EXCEPT !.clear = "reloading", !.kept = r.id]))

ClearFails(r) ==
    /\ r.op = "delete"
    /\ ui' = [Got(ui, r) EXCEPT !.clear = "idle"]

ToggleAutoRefresh ==
    /\ User
    /\ ui' = Acted([ui EXCEPT !.auto = ~@, !.timer = ~ui.auto])

RefreshTick ==
    /\ User /\ ui.timer
    /\ ui' = Acted(LoadStats(LoadLogs(ui)))

-----------------------------------------------------------------------------
(* Logs of the containers.                                                 *)
ApplyDockerFilters(u) ==
    [u EXCEPT !.cur = [of |-> u.raw, by |-> u.dform],
              !.dshown = IF u.raw = {} THEN "empty" ELSE "logs"]

NoLogs(u, how) ==
    [u EXCEPT !.raw = {}, !.cur = [of |-> {}, by |-> None], !.dshown = how, !.card = None]

(* At most Pool containers are asked at a time.                            *)
Started(p) ==
    LET room == Pool - Cardinality(p.open)
        next == CHOOSE s \in SUBSET p.todo :
                    Cardinality(s) = IF Cardinality(p.todo) < room THEN Cardinality(p.todo) ELSE room
    IN  [p EXCEPT !.todo = @ \ next, !.open = @ \cup next]

(* A load aborts the one under way; with nothing selected it only clears.  *)
LoadDockerLogs(u) ==
    IF u.sel = {} THEN NoLogs([u EXCEPT !.ctl = 0], "empty")
    ELSE [u EXCEPT !.seq = @ + 1, !.ctl = u.seq + 1, !.dshown = "loading",
                   !.pools = @ \cup {Started([id |-> u.seq + 1, want |-> u.sel, todo |-> u.sel,
                                              open |-> {}, ok |-> {}])}]

Aborted(p) == ui.ctl # p.id

(* One container answers or fails; the pool asks the next. When all have,  *)
(* the load ends: aborted ones are dropped, the others shown.              *)
ContainerSettles(p, c, ok) ==
    /\ c \in p.open
    /\ LET q == Started([p EXCEPT !.open = @ \ {c}, !.ok = IF ok THEN @ \cup {c} ELSE @]) IN
       ui' = [ui EXCEPT !.pools = (@ \ {p}) \cup {q}]

DockerLogsSettled(p) ==
    /\ p.open = {} /\ p.todo = {}
    /\ LET u == [ui EXCEPT !.pools = @ \ {p}] IN
       ui' = IF Aborted(p) THEN u
             ELSE IF p.ok = {} THEN NoLogs([u EXCEPT !.ctl = 0], "failed")
             ELSE [ApplyDockerFilters([u EXCEPT !.raw = p.ok, !.ctl = 0]) EXCEPT
                      !.card = IF Cardinality(p.want) = 1 THEN CHOOSE c \in p.want : TRUE ELSE None]

(* The tab lists the containers the first time it is opened: all selected. *)
OpenDockerTab ==
    /\ User /\ ui.known = {}
    /\ ui' = Acted(Sent(ui, "containers"))

ContainersArrive(r) ==
    /\ r.op = "containers"
    /\ ui' = LoadDockerLogs([Got(ui, r) EXCEPT !.known = Containers, !.sel = Containers])

ContainersFail(r) ==
    /\ r.op = "containers"
    /\ ui' = Got(ui, r)

ToggleContainer(c) ==
    /\ User /\ c \in ui.known
    /\ ui' = Acted(LoadDockerLogs([ui EXCEPT !.sel = IF c \in @ THEN @ \ {c} ELSE @ \cup {c}]))

SelectAllContainers ==
    /\ User /\ ui.known # {}
    /\ ui' = Acted(LoadDockerLogs([ui EXCEPT !.sel = ui.known]))

ClearContainerSelection ==
    /\ User /\ ui.known # {}
    /\ ui' = Acted(LoadDockerLogs([ui EXCEPT !.sel = {}]))

RefreshDocker ==
    /\ User
    /\ ui' = Acted(LoadDockerLogs(ui))

(* The filters work on what is loaded, also while a load is under way.     *)
FilterDocker(f) ==
    /\ User /\ f # ui.dform
    /\ ui' = Acted(ApplyDockerFilters([ui EXCEPT !.dform = f]))

ToggleDockerAutoRefresh ==
    /\ User
    /\ ui' = Acted([ui EXCEPT !.dauto = ~@, !.dtimer = ~ui.dauto])

DockerTick ==
    /\ User /\ ui.dtimer
    /\ ui' = Acted(LoadDockerLogs(ui))

(* The containers to clear are the ones selected before the question.      *)
AskClearDocker ==
    /\ User /\ ui.dclear.step = "idle" /\ ui.sel # {}
    /\ ui' = Acted([ui EXCEPT !.dclear = [step |-> "asking", of |-> ui.sel]])

AnswerClearDocker(yes) ==
    /\ ui.alive /\ ui.dclear.step = "asking"
    /\ ui' = [ui EXCEPT !.dclear.step = IF yes THEN "deleting" ELSE "idle"]

DockerCleared ==
    /\ ui.alive /\ ui.dclear.step = "deleting"
    /\ ui' = LoadDockerLogs([ui EXCEPT !.dclear = [step |-> "idle", of |-> {}]])

(* Leaving the page: timers cleared, requests aborted by the page's signal.*)
Teardown ==
    /\ User
    /\ ui' = Acted([ui EXCEPT !.alive = FALSE, !.auto = FALSE, !.timer = FALSE, !.dauto = FALSE,
                              !.dtimer = FALSE, !.ctl = 0, !.net = {}, !.pools = {}])

Start ==
    [ form |-> CHOOSE f \in Filters : TRUE, logs |-> None, shown |-> "loading", stats |-> 0, auto |-> FALSE,
      timer |-> FALSE, clear |-> "idle", kept |-> 0, dform |-> CHOOSE f \in Filters : TRUE, known |-> {},
      sel |-> {}, raw |-> {}, cur |-> [of |-> {}, by |-> None], dshown |-> "empty", card |-> None, ctl |-> 0,
      pools |-> {}, dauto |-> FALSE, dtimer |-> FALSE, dclear |-> [step |-> "idle", of |-> {}],
      net |-> {}, seq |-> 0, crossed |-> FALSE, alive |-> TRUE, steps |-> 0 ]

Init == ui = LoadLogs(LoadStats(Start))

Next ==
    \/ Refresh \/ RefreshStats \/ AskClear \/ DeclineClear \/ ConfirmClear \/ ToggleAutoRefresh \/ RefreshTick
    \/ OpenDockerTab \/ SelectAllContainers \/ ClearContainerSelection \/ RefreshDocker
    \/ ToggleDockerAutoRefresh \/ DockerTick \/ AskClearDocker \/ DockerCleared \/ Teardown
    \/ \E f \in Filters : EditFilters(f) \/ FilterDocker(f)
    \/ \E c \in Containers : ToggleContainer(c)
    \/ \E b \in BOOLEAN : AnswerClearDocker(b)
    \/ \E p \in ui.pools : DockerLogsSettled(p) \/ \E c \in Containers, ok \in BOOLEAN : ContainerSettles(p, c, ok)
    \/ \E r \in ui.net :
        \/ LogsArrive(r) \/ LogsFail(r) \/ StatsArrive(r) \/ StatsFail(r) \/ Cleared(r) \/ ClearFails(r)
        \/ ContainersArrive(r) \/ ContainersFail(r)

Spec == Init /\ [][Next]_ui

-----------------------------------------------------------------------------
(* With no container load under way, the logs shown are of selected        *)
(* containers only, filtered by a filter, and the status card names the    *)
(* one container selected: whatever loads were aborted on the way.         *)
DockerLogsOfSelection ==
    ui.ctl = 0 /\ ui.alive =>
        /\ ui.raw \subseteq ui.sel
        /\ ui.dshown = "logs" => ui.cur.of \subseteq ui.sel
        /\ ui.card # None => ui.sel = {ui.card}

(* The page never waits for nothing: a spinner has a load behind it.       *)
SpinnerHasLoad ==
    /\ ui.alive /\ ui.shown = "loading" => \E r \in ui.net : r.op = "logs"
    /\ ui.alive /\ ui.dshown = "loading" => \E p \in ui.pools : p.id = ui.ctl

(* A timer runs only while its switch is on, and none after the page.      *)
TimersOwned ==
    /\ ui.timer = ui.auto /\ ui.dtimer = ui.dauto
    /\ ~ui.alive => ~ui.timer /\ ~ui.dtimer

(* No more than Pool containers are asked at the same time by one load.    *)
PoolBounded == \A p \in ui.pools : Cardinality(p.open) <= Pool
=============================================================================
