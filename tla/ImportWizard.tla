---------------------------- MODULE ImportWizard ----------------------------
(***************************************************************************)
(* The history import wizard (settings/trip-history-import-wizard.js): a   *)
(* dialog that plans an import, starts it or joins the one under way,      *)
(* watches it by an event stream and, when that fails, by polling, and     *)
(* sums it up. The dialog may be closed and opened again while answers are *)
(* under way; the server runs one import or one other sync at a time.      *)
(***************************************************************************)
EXTENDS Naturals, FiniteSets, FiniteSetsExt

CONSTANTS Dates, NoDate,                       \* start dates, and none chosen yet
          Devices,                             \* the vehicles of a plan
          ErrTypes, NoType,                    \* kinds of errors of a summary
          MaxJobs, MaxSteps

VARIABLE ui

Jobs == 1..MaxJobs
MaybeJob == 0..MaxJobs
NoStream == [kind |-> "none", of |-> 0]
Kinds == {"status", "first", "plan", "start", "conflict", "attach", "poll", "cancel", "read", "stop", "errors"}

(* "by" is the opening of the dialog that asked, "then" what resumes.      *)
Request == [id : Nat, kind : Kinds, of : MaybeJob, date : Dates \cup {NoDate}, by : Nat,
            then : {"none", "start"}, type : ErrTypes \cup {NoType}, token : Nat]

TypeOK ==
    ui \in [ open : BOOLEAN, step : {"config", "import", "summary"}, job : MaybeJob, finished : BOOLEAN,
             stream : [kind : {"none", "sse", "poll"}, of : MaybeJob], shown : MaybeJob, summary : MaybeJob,
             date : Dates \cup {NoDate}, typed : BOOLEAN, planned : Dates \cup {NoDate},
             devices : SUBSET Devices, sel : SUBSET Devices, hasPlan : BOOLEAN, planLoading : BOOLEAN,
             submitting : BOOLEAN, blocked : BOOLEAN, startOff : BOOLEAN, stoppable : BOOLEAN, cancelOff : BOOLEAN,
             errType : ErrTypes \cup {NoType}, token : Nat, details : [of : MaybeJob, type : ErrTypes \cup {NoType}],
             net : SUBSET Request, opening : Nat, late : BOOLEAN, rejoined : BOOLEAN, crossed : BOOLEAN,
             jobs : [Jobs -> {"unborn", "running", "ended"}], syncing : BOOLEAN,
             left : BOOLEAN, steps : 0..MaxSteps ]

User == ~ui.left /\ ui.steps < MaxSteps
Acted(u) == [u EXCEPT !.steps = @ + 1]

Fresh(net) == Min((0..Cardinality(net)) \ {q.id : q \in net})

Asked(u, kind, j, then) ==
    [u EXCEPT !.net = @ \cup {[id |-> Fresh(@), kind |-> kind, of |-> j, date |-> u.date, by |-> u.opening,
                               then |-> then, type |-> u.errType, token |-> u.token]}]

Answered(q, kind) == q.kind = kind /\ ~ui.left

(* The answer comes to a dialog that was closed since it was asked for, or *)
(* that has turned to another import.                                      *)
Done(u, q) == [u EXCEPT !.net = @ \ {q}, !.late = @ \/ q.by # u.opening \/ ~u.open \/ (q.kind \notin {"plan", "first", "stop"} /\ q.of # u.job)]

Running(u) == {j \in Jobs : u.jobs[j] = "running"}

-----------------------------------------------------------------------------
UpdateStartButtonState(u) ==
    [u EXCEPT !.startOff = u.planLoading \/ u.submitting \/ u.blocked \/ u.devices \cap u.sel = {}]

CleanupStreaming(u) == [u EXCEPT !.stream = NoStream]

CloseErrorDetails(u) == [u EXCEPT !.token = @ + 1, !.errType = NoType, !.details = [of |-> 0, type |-> NoType]]

ShowSyncInProgress(u) == UpdateStartButtonState([u EXCEPT !.stoppable = TRUE, !.blocked = TRUE])

RenderJob(u, j) ==
    LET seen == [u EXCEPT !.shown = j]
    IN  IF u.jobs[j] # "ended" \/ u.finished THEN seen
        ELSE CloseErrorDetails(CleanupStreaming([seen EXCEPT !.finished = TRUE, !.summary = j, !.step = "summary"]))

StartPolling(u) == IF u.job = 0 THEN u ELSE [u EXCEPT !.stream = [kind |-> "poll", of |-> u.job]]

(* The stream, or the polling when there is no stream to be had.           *)
StartSse(u) == IF u.job = 0 THEN {u} ELSE {StartPolling(u), [u EXCEPT !.stream = [kind |-> "sse", of |-> u.job]]}

AttachToExistingImport(u, j, then) ==
    Asked([u EXCEPT !.job = j, !.stoppable = FALSE, !.step = "import", !.startOff = TRUE, !.cancelOff = FALSE], "attach", j, then)

-----------------------------------------------------------------------------
(* The plan.                                                               *)
LoadPlan(u) == UpdateStartButtonState(Asked([u EXCEPT !.planLoading = TRUE], "plan", 0, "none"))

PlanLoaded(u) == UpdateStartButtonState([u EXCEPT !.planLoading = FALSE])

(* The first plan selects every vehicle, a later one keeps the selection.  *)
PlanArrives(q, found) ==
    /\ Answered(q, "plan")
    /\ ui' = PlanLoaded([Done(ui, q) EXCEPT !.devices = found, !.planned = q.date, !.hasPlan = TRUE,
                              !.sel = IF ui.hasPlan THEN @ \cap found ELSE found,
                              !.crossed = @ \/ \E r \in ui.net : r.kind = "plan" /\ r.id # q.id])

PlanFails(q) ==
    /\ Answered(q, "plan")
    /\ ui' = PlanLoaded([Done(ui, q) EXCEPT !.devices = {}, !.sel = {}, !.crossed = @ \/ \E r \in ui.net : r.kind = "plan" /\ r.id # q.id])

HandleStartChange(d) ==
    User /\ ui.open /\ ui.step = "config" /\ d # ui.date /\ ui' = Acted([ui EXCEPT !.date = d, !.typed = TRUE])

DebouncedPlan == ui.typed /\ ~ui.left /\ ui' = LoadPlan([ui EXCEPT !.typed = FALSE])

Selectable == User /\ ui.open /\ ui.step = "config"
ToggleDevice(d) ==
    /\ Selectable /\ d \in ui.devices
    /\ ui' = Acted(UpdateStartButtonState([ui EXCEPT !.sel = IF d \in @ THEN @ \ {d} ELSE @ \cup {d}]))

HandleClearAllDevices == Selectable /\ ui.sel # {} /\ ui' = Acted(UpdateStartButtonState([ui EXCEPT !.sel = {}]))

-----------------------------------------------------------------------------
ResetUi(u) ==
    UpdateStartButtonState(CloseErrorDetails(
        [u EXCEPT !.job = 0, !.finished = FALSE, !.stoppable = FALSE, !.devices = {}, !.sel = {}, !.hasPlan = FALSE,
                  !.planned = NoDate, !.planLoading = FALSE, !.submitting = FALSE, !.blocked = FALSE, !.summary = 0,
                  !.shown = 0, !.step = "config", !.cancelOff = TRUE]))

OpenWizard ==
    /\ User /\ ~ui.open
    /\ ui' = Acted(Asked([ResetUi(ui) EXCEPT !.open = TRUE, !.opening = @ + 1], "status", 0, "none"))

(* The default start date is asked for before the first plan.              *)
AfterStatus(u) == IF u.date = NoDate THEN Asked(u, "first", 0, "none") ELSE LoadPlan(u)

StatusArrives(q) ==
    /\ Answered(q, "status")
    /\ LET u == Done(ui, q)
       IN  \/ Running(u) # {} /\ ui' = AttachToExistingImport(u, Min(Running(u)), "none")
           \/ Running(u) = {} /\ u.syncing /\ ui' = AfterStatus(ShowSyncInProgress(u))
           \/ Running(u) = {} /\ ~u.syncing /\ ui' = AfterStatus([u EXCEPT !.blocked = FALSE])
           \/ ui' = UpdateStartButtonState([u EXCEPT !.blocked = TRUE])

StatusFails(q) == Answered(q, "status") /\ ui' = AfterStatus(Done(ui, q))

FirstDateArrives(q) ==
    /\ Answered(q, "first")
    /\ \E d \in Dates \cup {NoDate} : ui' = LoadPlan([Done(ui, q) EXCEPT !.date = IF d # NoDate THEN d ELSE @])

(* An import under way is shown, whether or not it could be read.          *)
Resumed(u, q) == IF q.then = "start" THEN UpdateStartButtonState([u EXCEPT !.submitting = FALSE]) ELSE u

(* It is watched from here on, even when it has ended meanwhile.           *)
Rejoined(u) == [u EXCEPT !.rejoined = @ \/ u.finished]

Attached(q) ==
    /\ Answered(q, "attach")
    /\ \/ \E u \in StartSse(Rejoined(RenderJob(Done(ui, q), q.of))) : ui' = Resumed(u, q)
       \/ \E u \in StartSse(Rejoined(Done(ui, q))) : ui' = Resumed(u, q)

-----------------------------------------------------------------------------
HandleStart ==
    /\ User /\ ui.open /\ ui.step = "config" /\ ~ui.startOff /\ ui.date # NoDate
    /\ ui' = Acted(UpdateStartButtonState(Asked([ui EXCEPT !.submitting = TRUE, !.stoppable = FALSE], "start", 0, "none")))

Submitted(u) == UpdateStartButtonState([u EXCEPT !.submitting = FALSE])

(* The server starts an import, or answers with the one under way.         *)
StartAnswered(q) ==
    /\ Answered(q, "start")
    /\ LET u == Done(ui, q)
           unborn == {j \in Jobs : u.jobs[j] = "unborn"}
       IN  \/ /\ Running(u) = {} /\ ~u.syncing /\ unborn # {}
              /\ LET j == Min(unborn)
                 IN  \E v \in StartSse([u EXCEPT !.jobs[j] = "running", !.job = j, !.step = "import", !.cancelOff = FALSE]) :
                         ui' = Submitted(v)
           \/ Running(u) # {} /\ ui' = AttachToExistingImport(u, Min(Running(u)), "start")
           \/ u.syncing /\ ui' = Asked(u, "conflict", 0, "none")

StartFails(q) == (Answered(q, "start") \/ Answered(q, "conflict")) /\ ui' = Submitted(Done(ui, q))

ConflictAnswered(q) ==
    /\ Answered(q, "conflict")
    /\ LET u == Done(ui, q)
       IN  \/ Running(u) # {} /\ ui' = AttachToExistingImport(u, Min(Running(u)), "start")
           \/ Running(u) = {} /\ u.syncing /\ ui' = Submitted(ShowSyncInProgress(u))
           \/ Running(u) = {} /\ ~u.syncing /\ ui' = Submitted(u)

-----------------------------------------------------------------------------
(* Watching.                                                               *)
StreamMessage ==
    /\ ui.stream.kind = "sse" /\ ~ui.left /\ (ui.shown # ui.stream.of \/ (ui.jobs[ui.stream.of] = "ended" /\ ~ui.finished))
    /\ ui' = [RenderJob(ui, ui.stream.of) EXCEPT !.late = @ \/ ui.stream.of # ui.job]

(* Mutant: a stream that fails is not replaced.                            *)
StreamLost == ui.stream.kind = "sse" /\ ~ui.left /\ ui' = CleanupStreaming(ui)

StreamFails == ui.stream.kind = "sse" /\ ~ui.left /\ ui' = StartPolling(CleanupStreaming(ui))

PollTick ==
    /\ ui.stream.kind = "poll" /\ ~ui.left /\ ui.job # 0 /\ \A q \in ui.net : q.kind # "poll"
    /\ ui' = Asked(ui, "poll", ui.job, "none")

PollAnswered(q) == Answered(q, "poll") /\ (ui' = RenderJob(Done(ui, q), q.of) \/ ui' = [ui EXCEPT !.net = @ \ {q}])

HandleCancel ==
    /\ User /\ ui.open /\ ui.step = "import" /\ ~ui.cancelOff /\ ui.job # 0
    /\ ui' = Acted(Asked([ui EXCEPT !.cancelOff = TRUE], "cancel", ui.job, "none"))

(* The import is cancelled, or that fails; the one followed then is read.  *)
CancelAnswered(q) ==
    /\ Answered(q, "cancel")
    /\ LET u == Done(ui, q)
           v == [u EXCEPT !.jobs[q.of] = "ended"]
       IN  \/ ui' = [u EXCEPT !.cancelOff = FALSE]
           \/ ui' = IF v.job # 0 THEN Asked(v, "read", v.job, "none") ELSE [v EXCEPT !.cancelOff = FALSE]

CancelRead(q) ==
    /\ Answered(q, "read")
    /\ LET u == [Done(ui, q) EXCEPT !.cancelOff = FALSE]
       IN  ui' = RenderJob(u, q.of) \/ ui' = u

HandleStartAnother ==
    /\ User /\ ui.open /\ ui.step = "summary"
    /\ ui' = Acted(LoadPlan([ResetUi(CleanupStreaming(ui)) EXCEPT !.opening = @ + 1]))

HandleStopSync ==
    /\ User /\ ui.open /\ ui.step = "config" /\ ui.stoppable /\ \A q \in ui.net : q.kind # "stop"
    /\ ui' = Acted(Asked(ui, "stop", 0, "none"))

(* In one of twenty looks: stopped, and a look that fails counts as that   *)
(* (trip-history-import-wizard.js:1290). After them, one more look: still  *)
(* syncing, or stopped, which then asks for no new plan.                   *)
StopAnswered(q) ==
    /\ Answered(q, "stop")
    /\ LET u == Done(ui, q)
       IN  \/ ui' = LoadPlan([u EXCEPT !.stoppable = FALSE, !.blocked = FALSE])
           \/ u.syncing /\ ui' = ShowSyncInProgress(u)
           \/ ui' = UpdateStartButtonState([u EXCEPT !.stoppable = FALSE, !.blocked = FALSE])
           \/ ui' = u

OpenErrorDetailsFor(t) ==
    /\ User /\ ui.open /\ ui.step = "summary"
    /\ ui' = Acted(IF ui.errType = t THEN CloseErrorDetails(ui)
                   ELSE Asked([ui EXCEPT !.errType = t, !.token = @ + 1, !.details = [of |-> ui.summary, type |-> t]],
                              "errors", ui.summary, "none"))

ErrorsArrive(q) ==
    /\ Answered(q, "errors")
    /\ ui' = [ui EXCEPT !.net = @ \ {q}, !.details = IF q.token = ui.token /\ ui.errType = q.type THEN [of |-> q.of, type |-> q.type] ELSE @]

Hidden == User /\ ui.open /\ ui' = Acted(CleanupStreaming([ui EXCEPT !.open = FALSE, !.stoppable = FALSE]))

(* Leaving aborts the requests; nothing ends a stream (see the README).    *)
Leave == ~ui.left /\ ui' = [ui EXCEPT !.left = TRUE, !.net = {}]

(* The server.                                                             *)
JobEnds(j) == ui.jobs[j] = "running" /\ ~ui.left /\ ui' = [ui EXCEPT !.jobs[j] = "ended"]
SyncEnds == ui.syncing /\ ~ui.left /\ ui' = [ui EXCEPT !.syncing = FALSE]

Init ==
    \E s \in BOOLEAN, d \in {NoDate, CHOOSE x \in Dates : TRUE}, r \in {"unborn", "running"} :
        /\ ~(s /\ r = "running")
        /\ ui = [ open |-> FALSE, step |-> "config", job |-> 0, finished |-> FALSE, stream |-> NoStream, shown |-> 0,
                  summary |-> 0, date |-> d, typed |-> FALSE, planned |-> NoDate, devices |-> {}, sel |-> {},
                  hasPlan |-> FALSE, planLoading |-> FALSE, submitting |-> FALSE, blocked |-> FALSE, startOff |-> FALSE,
                  stoppable |-> FALSE, cancelOff |-> TRUE, errType |-> NoType, token |-> 0,
                  details |-> [of |-> 0, type |-> NoType], net |-> {}, opening |-> 0, late |-> FALSE,
                  rejoined |-> FALSE, crossed |-> FALSE, jobs |-> [j \in Jobs |-> IF j = 1 THEN r ELSE "unborn"],
                  syncing |-> s, left |-> FALSE, steps |-> 0 ]

Next ==
    \/ OpenWizard \/ DebouncedPlan \/ HandleClearAllDevices \/ HandleStart \/ HandleCancel \/ HandleStartAnother
    \/ HandleStopSync \/ Hidden \/ Leave \/ StreamMessage \/ StreamFails \/ PollTick \/ SyncEnds
    \/ \E d \in Dates : HandleStartChange(d)
    \/ \E d \in Devices : ToggleDevice(d)
    \/ \E t \in ErrTypes : OpenErrorDetailsFor(t)
    \/ \E j \in Jobs : JobEnds(j)
    \/ \E q \in ui.net :
          \/ StatusArrives(q) \/ StatusFails(q) \/ FirstDateArrives(q) \/ Attached(q) \/ PlanArrives(q, Devices) \/ PlanFails(q)
          \/ StartAnswered(q) \/ StartFails(q) \/ ConflictAnswered(q) \/ PollAnswered(q) \/ CancelAnswered(q) \/ CancelRead(q)
          \/ StopAnswered(q) \/ ErrorsArrive(q)

Spec == Init /\ [][Next]_ui

-----------------------------------------------------------------------------
Usual == ~ui.left /\ ~ui.late

(* An import the dialog shows as running is watched, by the stream or by   *)
(* polling, or is just being joined; and what is watched is the import the *)
(* dialog is about, while it is open and until its summary - unless the    *)
(* import ended while it was joined: it is watched ever after (1028).      *)
RunningIsWatched ==
    Usual =>
      /\ ui.open /\ ui.step = "import" =>
           ui.stream.of = ui.job \/ \E q \in ui.net : q.kind = "attach" /\ q.of = ui.job
      /\ ui.stream # NoStream => ui.open /\ ui.stream.of = ui.job /\ (ui.finished => ui.rejoined)

(* The summary is of the import of this opening of the dialog, which has   *)
(* ended, and the error details are those asked for, of its summary.       *)
SummaryOfItsImport ==
    Usual => /\ ui.step = "summary" => ui.summary = ui.job /\ ui.finished /\ ui.jobs[ui.job] = "ended"
             /\ ui.details = [of |-> IF ui.errType = NoType THEN 0 ELSE ui.summary, type |-> ui.errType]

(* The plan shown is of the date chosen, once nothing is being asked and   *)
(* unless two plans crossed, and Start is offered only for vehicles of the *)
(* plan, while nothing is being submitted and no sync is known of.         *)
PlanOfDate ==
    Usual /\ ui.open /\ ui.step = "config" =>
      /\ ui.hasPlan /\ ~ui.typed /\ ~ui.crossed /\ (\A q \in ui.net : q.kind # "plan") /\ ui.devices # {} => ui.planned = ui.date
      /\ ~ui.startOff => ~ui.blocked /\ ~ui.submitting /\ ui.sel \cap ui.devices # {}

=============================================================================
