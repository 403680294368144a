----------------------------- MODULE JobTracker -----------------------------
(***************************************************************************)
(* The tracker of coverage jobs that every page carries                    *)
(* (ui/global-job-tracker.js): one active job, remembered in the browser's *)
(* storage, followed by an event stream and by polling at once, shown in a *)
(* dialog or, minimized, in a badge. The page may be reloaded at any time. *)
(***************************************************************************)
EXTENDS Naturals, FiniteSets, FiniteSetsExt

CONSTANT Scales   \* what is explored: how many jobs, of how many stages, failed polls in a row, page loads

VARIABLE ui

Jobs == UNION {1..s.jobs : s \in Scales}
MaybeJob == Jobs \cup {0}
Stages == UNION {0..s.stages : s \in Scales}
Statuses == {"unborn", "pending", "running", "ended", "lost"}

IsJobActive(status) == status \in {"pending", "running"}

NoSnap == [status |-> "unborn", stage |-> 0]
Snaps == [status : Statuses, stage : Stages]
Poller == [id : Nat, of : Jobs, at : {"fetch", "wait"}, errors : Nat, since : Stages]

TypeOK ==
    ui \in [ active : MaybeJob, minimized : BOOLEAN, stage : Stages, seen : Stages, done : SUBSET Stages,
             stored : [job : MaybeJob, minimized : BOOLEAN], modal : MaybeJob, badge : BOOLEAN, clock : BOOLEAN,
             stream : MaybeJob, polls : SUBSET Poller, timer : Nat, ends : SUBSET [id : Nat, of : Jobs],
             resuming : MaybeJob, cancelling : MaybeJob, announced : SUBSET Jobs,
             mixed : BOOLEAN, regressed : BOOLEAN, jobs : [Jobs -> Snaps], loads : Nat,
             scale : Scales ]

Fresh(u) == Min((1..(Cardinality(u.polls) + Cardinality(u.ends) + 2)) \ ({p.id : p \in u.polls} \cup {e.id : e \in u.ends} \cup {u.timer}))

SaveJobState(u) == [u EXCEPT !.stored = [job |-> u.active, minimized |-> u.active # 0 /\ u.minimized]]

-----------------------------------------------------------------------------
(* Following a job. A new poller clears the timer of the last, but not a   *)
(* poller that is just asking.                                             *)
ClearTimeout(u) == [u EXCEPT !.polls = {p \in @ : p.at # "wait" \/ p.id # u.timer}, !.timer = 0]

StartPolling(v, j) ==
    LET u == ClearTimeout(v)
    IN  IF u.active # j THEN u
        ELSE [u EXCEPT !.polls = @ \cup {[id |-> Fresh(u), of |-> j, at |-> "fetch", errors |-> 0, since |-> u.jobs[j].stage]}]

(* A stream that cannot be had at all is one that is lost at once.         *)
ConnectSSE(u, j) == StartPolling([u EXCEPT !.stream = j], j)

StopTracking(v) ==
    LET u == ClearTimeout(v)
    IN  SaveJobState([u EXCEPT !.stream = 0, !.clock = FALSE, !.active = 0, !.minimized = FALSE, !.stage = 0, !.seen = 0,
                               !.done = {}, !.modal = 0, !.badge = FALSE])

RenderProgressModal(u) == [u EXCEPT !.modal = u.active, !.clock = TRUE]

StartGlobalTracking(j) ==
    /\ j <= ui.scale.jobs /\ ui.jobs[j].status = "unborn" /\ \A i \in Jobs : i < j => ui.jobs[i].status # "unborn"
    /\ LET u == SaveJobState([ui EXCEPT !.jobs[j].status = "pending", !.active = j, !.minimized = FALSE, !.stage = 0,
                                        !.seen = 0, !.done = {}])
       IN  ui' = ConnectSSE(RenderProgressModal(u), j)

-----------------------------------------------------------------------------
(* Stages. A stage that was left is taken for completed.                   *)
HandleStageTransition(u, s) ==
    [u EXCEPT !.done = IF u.stage \notin {0, s} THEN @ \cup {u.stage} ELSE @, !.stage = s,
              !.regressed = @ \/ s < u.stage]

Progressed(u, s) ==
    SaveJobState(IF s # 0 /\ s # u.stage THEN [HandleStageTransition(u, s) EXCEPT !.seen = s]
                 ELSE [u EXCEPT !.seen = IF s # 0 THEN s ELSE @])

(* A poll compares with the stage it knows the job by, not with the one    *)
(* that is shown: after a reload the two differ.                           *)
Polled(u, s) ==
    SaveJobState([(IF s \in {0, u.seen} THEN u ELSE HandleStageTransition(u, s)) EXCEPT !.seen = s])

(* The end is shown for a moment before the tracking stops.                *)
HandleDoneEvent(u, j) ==
    IF u.active = 0 THEN u
    ELSE [u EXCEPT !.done = IF u.stage = 0 THEN @ ELSE @ \cup {u.stage}, !.ends = @ \cup {[id |-> Fresh(u), of |-> j]}]

DoneShown(e) ==
    ui' = [StopTracking([ui EXCEPT !.mixed = @ \/ ui.active \notin {0, e.of}]) EXCEPT !.ends = @ \ {e}, !.announced = @ \cup {e.of}]

-----------------------------------------------------------------------------
(* The stream.                                                             *)
StreamProgress ==
    /\ ui.stream # 0 /\ ui.active # 0 /\ IsJobActive(ui.jobs[ui.stream].status)
    /\ ui' = Progressed([ui EXCEPT !.mixed = @ \/ ui.active # ui.stream], ui.jobs[ui.stream].stage)

StreamDone ==
    /\ ui.stream # 0 /\ ui.jobs[ui.stream].status = "ended" /\ \A e \in ui.ends : e.of # ui.stream
    /\ ui' = HandleDoneEvent(ui, ui.stream)

StreamLost == ui.stream # 0 /\ ui' = StartPolling([ui EXCEPT !.stream = 0], ui.stream)

(* The polls.                                                              *)
(* What the server may have answered since it was asked.                   *)
Answers(p) ==
    {ui.jobs[p.of]} \cup {[status |-> IF s = 0 THEN "pending" ELSE "running", stage |-> s] : s \in p.since..ui.jobs[p.of].stage}

Waiting(u, p) == [u EXCEPT !.polls = (@ \ {p}) \cup {[p EXCEPT !.at = "wait", !.since = 0]}, !.timer = p.id]

PollErred(u, p, missing) ==
    IF missing \/ p.errors + 1 >= u.scale.errors
    THEN StopTracking([u EXCEPT !.polls = @ \ {p}, !.mixed = @ \/ u.active \notin {0, p.of}])
    ELSE Waiting(u, [p EXCEPT !.errors = @ + 1])

(* The answer is applied to whatever job is active by then; to none, it    *)
(* fails, and counts as an error.                                          *)
PollArrives(p, a) ==
    /\ p.at = "fetch"
    /\ LET q == [p EXCEPT !.errors = 0]
           rest == [ui EXCEPT !.polls = @ \ {p}]
           u == Polled([rest EXCEPT !.mixed = @ \/ ui.active # p.of], a.stage)
       IN  ui' = CASE a.status = "lost" -> PollErred(rest, p, TRUE)
                   [] a.status # "lost" /\ ui.active = 0 -> PollErred(rest, q, FALSE)
                   [] a.status # "lost" /\ ui.active # 0 /\ IsJobActive(a.status) -> Waiting(u, q)
                   [] OTHER -> HandleDoneEvent(u, p.of)

PollFails(p) == p.at = "fetch" /\ ui' = PollErred([ui EXCEPT !.polls = @ \ {p}], p, FALSE)

PollTimer(p) ==
    /\ p.at = "wait"
    /\ ui' = [ui EXCEPT !.polls = IF ui.active = p.of
                                  THEN (@ \ {p}) \cup {[p EXCEPT !.at = "fetch", !.since = ui.jobs[p.of].stage]} ELSE @ \ {p},
                        !.timer = IF @ = p.id THEN 0 ELSE @]

-----------------------------------------------------------------------------
CancelActiveJob == ui.active # 0 /\ ui.cancelling = 0 /\ ui.modal # 0 /\ ui' = [ui EXCEPT !.cancelling = ui.active]

CancelAnswered ==
    /\ ui.cancelling # 0
    /\ LET j == ui.cancelling
           u == [ui EXCEPT !.cancelling = 0]
       IN  \/ ui' = StopTracking([u EXCEPT !.mixed = @ \/ ui.active \notin {0, j},
                                           !.jobs[j].status = IF IsJobActive(@) THEN "ended" ELSE @])
           \/ ui' = u

MinimizeJob ==
    /\ ui.active # 0 /\ ui.modal # 0
    /\ ui' = [SaveJobState([ui EXCEPT !.minimized = TRUE]) EXCEPT !.modal = 0, !.badge = TRUE]

RestoreJobModal ==
    /\ ui.active # 0 /\ ui.badge
    /\ ui' = RenderProgressModal([SaveJobState([ui EXCEPT !.minimized = FALSE]) EXCEPT !.badge = FALSE])

Cleared(stored, jobs, announced, loads, scale) ==
    [ active |-> 0, minimized |-> FALSE, stage |-> 0, seen |-> 0, done |-> {}, stored |-> stored, modal |-> 0,
      badge |-> FALSE, clock |-> FALSE, stream |-> 0, polls |-> {}, timer |-> 0, ends |-> {},
      resuming |-> stored.job, cancelling |-> 0, announced |-> announced, mixed |-> FALSE, regressed |-> FALSE,
      jobs |-> jobs, loads |-> loads, scale |-> scale ]

(* The page is loaded anew: only the storage is kept.                      *)
Reload ==
    /\ ui.loads < ui.scale.loads
    /\ ui' = Cleared(ui.stored, ui.jobs, ui.announced, ui.loads + 1, ui.scale)

HandleJobFinished(u, j) == [StopTracking(u) EXCEPT !.announced = @ \cup {j}]

ResumeJobTracking ==
    /\ ui.resuming # 0
    /\ LET j == ui.resuming
           u == [ui EXCEPT !.resuming = 0, !.mixed = @ \/ ui.active # 0]
           v == SaveJobState([u EXCEPT !.active = j, !.minimized = ui.stored.minimized, !.seen = ui.jobs[j].stage])
       IN  \/ /\ IsJobActive(ui.jobs[j].status)
              /\ ui' = ConnectSSE(IF v.minimized THEN [v EXCEPT !.badge = TRUE] ELSE RenderProgressModal(v), j)
           \/ ui.jobs[j].status = "ended" /\ ui' = HandleJobFinished(u, j)
           \/ ui' = [u EXCEPT !.active = 0, !.minimized = FALSE, !.stored = [job |-> 0, minimized |-> FALSE]]

(* The worker takes the job through its stages; it may fail in any.        *)
JobAdvances(j) ==
    /\ IsJobActive(ui.jobs[j].status) /\ ui.jobs[j].stage < ui.scale.stages
    /\ ui' = [ui EXCEPT !.jobs[j] = [status |-> "running", stage |-> @.stage + 1]]

JobEnds(j, s) ==
    /\ s \in {"ended", "lost"} /\ IsJobActive(ui.jobs[j].status)
    /\ ui' = [ui EXCEPT !.jobs[j].status = s]

Init ==
    \E s \in Scales : ui = Cleared([job |-> 0, minimized |-> FALSE], [j \in Jobs |-> NoSnap], {}, 0, s)

Next ==
    \/ \E j \in Jobs : StartGlobalTracking(j) \/ JobAdvances(j) \/ \E s \in Statuses : JobEnds(j, s)
    \/ \E e \in ui.ends : DoneShown(e)
    \/ \E p \in ui.polls : PollFails(p) \/ PollTimer(p) \/ \E a \in Answers(p) : PollArrives(p, a)
    \/ StreamProgress \/ StreamDone \/ StreamLost \/ CancelActiveJob \/ CancelAnswered
    \/ MinimizeJob \/ RestoreJobModal \/ Reload \/ ResumeJobTracking

Spec == Init /\ [][Next]_ui

-----------------------------------------------------------------------------
(* The active job is stored, so that a reload finds it, and is shown: in   *)
(* the dialog, with its clock, or minimized in the badge. Without one      *)
(* nothing is stored, shown or streamed. The badge of a minimized job      *)
(* stays when another job takes the dialog (line 148). Once an answer      *)
(* about another job has been applied nothing is promised: mixed.          *)
ActiveIsStoredAndShown ==
    ~ui.mixed =>
      /\ ui.resuming = 0 => ui.stored = [job |-> ui.active, minimized |-> ui.active # 0 /\ ui.minimized]
      /\ ui.modal = (IF ui.minimized THEN 0 ELSE ui.active)
      /\ (ui.active # 0 /\ ui.minimized => ui.badge) /\ (ui.badge => ui.active # 0)
      /\ ui.modal # 0 => ui.clock
      /\ ui.stream # 0 => ui.stream = ui.active

(* An active job is followed until its end is shown: a poll is under way   *)
(* or due, or its end is on the screen.                                    *)
ActiveIsFollowed ==
    ~ui.mixed /\ ui.active # 0 => (\E p \in ui.polls : p.of = ui.active) \/ (\E e \in ui.ends : e.of = ui.active)

(* A job said to have ended has ended, and the stages shown as completed   *)
(* are those before the one under way - unless an answer of a poll came    *)
(* after a newer message of the stream, which takes the stage back.        *)
EndIsTrue ==
    /\ \A j \in ui.announced : ui.jobs[j].status = "ended"
    /\ ~ui.mixed /\ ~ui.regressed => \A s \in ui.done : s < ui.stage \/ (s = ui.stage /\ ui.ends # {})

=============================================================================
