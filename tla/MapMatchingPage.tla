-------------------------- MODULE MapMatchingPage --------------------------
(***************************************************************************)
(* The map-matching page (features/map-matching/index.js): choosing trips  *)
(* and previewing the choice, the job that is started and polled, its      *)
(* matched trips with the bulk actions on them, and the failed trips.      *)
(***************************************************************************)
EXTENDS Naturals, FiniteSets

CONSTANTS
    Trips,
    Forms,        \* selections the form can express (mode, dates, provider)
    MaxJobs, MaxSteps

VARIABLE ui

Jobs == 1..MaxJobs
Browse == MaxJobs + 1                         \* rows of all matched trips, not of a job
Ended == {"completed", "failed", "cancelled"}
NoForm == "unset"

TypeOK ==
    /\ DOMAIN ui = {"stage", "kept", "matched", "jobs", "form", "signature", "sent", "phase", "mode", "job",
                    "seen", "poll", "auto", "crossed", "lost", "rows", "rowsOf", "sel", "focus", "failed",
                    "failedSel", "ask", "map", "pending", "drawn", "history", "stored", "net", "steps"}
    /\ ui.stage \in [Jobs -> {"none", "running"} \cup Ended] /\ ui.kept \subseteq Trips    \* the server
    /\ ui.matched \subseteq Trips /\ ui.jobs \in 0..MaxJobs
    /\ ui.form \in Forms /\ ui.signature \in Forms \cup {NoForm} /\ ui.sent \subseteq Forms \X Forms
    /\ ui.phase \in {"select", "process", "results"} /\ ui.mode \in {"job", "matched", "failed"}
    /\ {ui.job, ui.poll, ui.auto, ui.stored} \subseteq 0..MaxJobs /\ ui.seen \in {"none", "running"} \cup Ended
    /\ {ui.rows, ui.sel, ui.focus, ui.failed, ui.failedSel, ui.drawn, ui.pending} \subseteq SUBSET Trips
    /\ ui.rowsOf \in 0..Browse /\ ui.history \subseteq Jobs
    /\ {ui.crossed, ui.lost} \subseteq BOOLEAN /\ ui.map \in {"none", "loading", "ready"}
    /\ ui.steps \in 0..MaxSteps

User == ui.steps < MaxSteps
Acted(u) == [u EXCEPT !.steps = @ + 1]
Sent(u, op, n, ts) == [u EXCEPT !.net = @ \cup {[op |-> op, n |-> n, ts |-> ts]}]
Got(u, r) == [u EXCEPT !.net = @ \ {r}]

-----------------------------------------------------------------------------
(* The form. Every change of it drops the preview.                         *)
ChangeForm(f) ==
    /\ User /\ ui.phase = "select" /\ f # ui.form
    /\ ui' = Acted([ui EXCEPT !.form = f, !.signature = NoForm])

PreviewTrips ==
    /\ User /\ ui.phase = "select"
    /\ ui' = Acted([ui EXCEPT !.net = @ \cup {[op |-> "preview", f |-> ui.form]}])

(* The preview is of the form as it was asked for.                         *)
PreviewArrives(r) ==
    /\ r.op = "preview"
    /\ ui' = [Got(ui, r) EXCEPT !.signature = r.f]

(* The previewed payload is sent only while the form still says the same.  *)
Payload(u) == IF u.signature # NoForm /\ u.signature = u.form THEN u.signature ELSE u.form

SubmitForm ==
    /\ User /\ ui.phase = "select"
    /\ ui' = Acted(Sent([ui EXCEPT !.sent = @ \cup {<<Payload(ui), ui.form>>}], "start", 0, {}))

-----------------------------------------------------------------------------
(* The job. fetchJob takes every answer for the page's own, whichever job  *)
(* it was asked for.                                                       *)
StopPolling(u) == [u EXCEPT !.poll = 0]

FetchJob(u, j) == Sent(u, "job", j, {})

StartPolling(u, j) ==
    FetchJob([u EXCEPT !.job = j, !.auto = 0, !.stored = j, !.phase = "process", !.poll = j, !.seen = "none"], j)

(* The server's answer to a start, a retry or a Mapbox-only run.           *)
StartArrives(r) ==
    /\ r.op = "start" /\ ui.jobs < MaxJobs
    /\ LET j == ui.jobs + 1 IN
       ui' = StartPolling([Got(ui, r) EXCEPT !.jobs = j, !.stage[j] = "running", !.history = @ \cup {j}], j)

PollTimer ==
    /\ ui.poll # 0
    /\ ui' = FetchJob(ui, ui.poll)

LoadMatchedPreview(u, j) ==
    IF j = 0 THEN u
    ELSE Sent([u EXCEPT !.mode = "job", !.focus = {}], "matches", j, {})

(* An ended job stops all polling; the first time a completed one is seen  *)
(* its results come up.                                                    *)
JobArrives(r) ==
    /\ r.op = "job" /\ ui.stage[r.n] \in Ended \cup {"running"}
    /\ LET s == ui.stage[r.n]
           u == [Got(ui, r) EXCEPT !.seen = s, !.crossed = @ \/ r.n # ui.job] IN
       ui' = IF s \notin Ended THEN u
             ELSE IF s = "completed" /\ ui.auto # r.n
             THEN LoadMatchedPreview([StopPolling(u) EXCEPT !.auto = r.n, !.phase = "results"], r.n)
             ELSE StopPolling(u)

(* One failed poll is the last.                                            *)
JobFails(r) ==
    /\ r.op = "job"
    /\ ui' = [StopPolling(Got(ui, r)) EXCEPT !.lost = TRUE]

JobEnds(j, s) ==
    /\ ui.stage[j] = "running"
    /\ \E ts \in SUBSET ui.kept :
         ui' = [ui EXCEPT !.stage[j] = s, !.matched = IF s = "completed" THEN @ \cup ts ELSE @]

ResetToSelect ==
    /\ User /\ ui.phase # "select"
    /\ ui' = Acted([StopPolling(ui) EXCEPT !.job = 0, !.seen = "none", !.auto = 0, !.phase = "select", !.mode = "job"])

-----------------------------------------------------------------------------
(* The history drawer. Showing a finished job's results leaves the polling *)
(* of another one on.                                                      *)
ViewJob(j) ==
    /\ User /\ j \in ui.history /\ ui.stage[j] \notin Ended
    /\ ui' = Acted(StartPolling(ui, j))

PreviewJob(j) ==
    /\ User /\ j \in ui.history /\ ui.stage[j] = "completed"
    /\ ui' = Acted(LoadMatchedPreview([ui EXCEPT !.phase = "results", !.job = j, !.crossed = @ \/ ui.poll \notin {0, j}], j))

AskBack(op, j, ts) ==
    /\ User /\ ui.ask = {}
    /\ ui' = Acted([ui EXCEPT !.ask = {[op |-> op, n |-> j, ts |-> ts]}])

CancelJob(j) == j # 0 /\ ui.stage[j] = "running" /\ AskBack("cancel", j, {})

DeleteJobHistory(j) == j \in ui.history /\ AskBack("forget", j, {})

ClearHistory == ui.history # {} /\ AskBack("clear", 0, {})

CancelArrives(r) ==
    /\ r.op = "cancel"
    /\ LET u == [Got(ui, r) EXCEPT !.stage[r.n] = IF @ = "running" THEN "cancelled" ELSE @] IN
       ui' = IF ui.job = r.n THEN [StopPolling(u) EXCEPT !.seen = u.stage[r.n]] ELSE u

ForgetArrives(r) ==
    /\ r.op = "forget"
    /\ LET u == [Got(ui, r) EXCEPT !.history = @ \ {r.n}] IN
       ui' = IF ui.job = r.n THEN [StopPolling(u) EXCEPT !.job = 0, !.seen = "none"] ELSE u

(* Running jobs are kept.                                                  *)
ClearArrives(r) ==
    /\ r.op = "clear"
    /\ ui' = [Got(ui, r) EXCEPT !.history = {j \in @ : ui.stage[j] = "running"}]

-----------------------------------------------------------------------------
(* The matched trips: a table whose selection is kept to its rows, and a   *)
(* map that may not be ready when the routes are.                          *)
DrawPreview(u, ts) ==
    CASE u.map = "ready" -> [u EXCEPT !.drawn = ts]
      [] u.map = "loading" -> [u EXCEPT !.pending = ts]
      [] OTHER -> [u EXCEPT !.map = "loading", !.pending = ts]

MapLoads ==
    /\ ui.map = "loading"
    /\ ui' = [ui EXCEPT !.map = "ready", !.drawn = ui.pending, !.pending = {}]

UpdateMatchedPreviewTable(u, ts, of) ==
    DrawPreview([u EXCEPT !.rows = ts, !.rowsOf = of, !.sel = @ \cap ts], ts)

MatchesArrive(r) ==
    /\ r.op = "matches"
    /\ ui' = UpdateMatchedPreviewTable([Got(ui, r) EXCEPT !.crossed = @ \/ r.n # ui.job], ui.matched, r.n)

BrowseMatchedTrips ==
    /\ User
    /\ ui' = Acted(Sent([ui EXCEPT !.phase = "results", !.mode = "matched", !.focus = {}, !.sel = {}], "browse", 0, {}))

BrowseArrives(r) ==
    /\ r.op = "browse"
    /\ ui' = UpdateMatchedPreviewTable(Got(ui, r), ui.matched, Browse)

SelectTrips(ts) ==
    /\ User /\ ui.phase = "results" /\ ts \subseteq ui.rows /\ ts # ui.sel
    /\ ui' = Acted([ui EXCEPT !.sel = ts])

FocusTrip(t) ==
    /\ User /\ ui.phase = "results" /\ t \in ui.rows
    /\ ui' = Acted([ui EXCEPT !.focus = {t}, !.map = IF @ = "none" THEN "loading" ELSE @])

(* Unmatching and deleting: the trips are fixed when the question is put.  *)
BulkAction(op, ts) == ui.phase = "results" /\ ts # {} /\ AskBack(op, 0, ts)

Confirmed(yes) ==
    /\ User /\ ui.ask # {}
    /\ LET u == [ui EXCEPT !.ask = {}] IN
       ui' = Acted(IF yes THEN [u EXCEPT !.net = @ \cup ui.ask] ELSE u)

(* Afterwards the rows of the current job are loaded again, if there is    *)
(* one: browsed rows and failed rows stay as they are.                     *)
BulkArrives(r) ==
    /\ r.op \in {"unmatch", "delete"}
    /\ LET u == [Got(ui, r) EXCEPT !.matched = @ \ r.ts, !.sel = {},
                                   !.kept = IF r.op = "delete" THEN @ \ r.ts ELSE @]
       IN  ui' = LoadMatchedPreview(u, ui.job)

-----------------------------------------------------------------------------
(* The failed trips, loaded again by every visit.                          *)
BrowseFailedTrips ==
    /\ User
    /\ ui' = Acted(Sent([ui EXCEPT !.phase = "results", !.mode = "failed", !.failed = {}, !.failedSel = {}],
                        "failed", 0, {}))

FailedArrive(r) ==
    /\ r.op = "failed"
    /\ ui' = [Got(ui, r) EXCEPT !.failed = ui.kept \ ui.matched]

SelectFailed(ts) ==
    /\ User /\ ui.mode = "failed" /\ ts \subseteq ui.failed /\ ts # ui.failedSel
    /\ ui' = Acted([ui EXCEPT !.failedSel = ts])

(* A retry takes the chosen trips, not the form.                           *)
RetryMatchingTrips ==
    /\ User /\ ui.mode = "failed" /\ ui.failedSel # {}
    /\ ui' = Acted(Sent(ui, "start", 0, ui.failedSel))

RequestFails(r) ==
    /\ r.op # "job"
    /\ ui' = Got(ui, r)

(* Opened with no job in its URL: the last completed job is looked up, and *)
(* shown even if the user has started one meanwhile.                       *)
ResumeStored(r) ==
    /\ r.op = "resume"
    /\ LET u == Got(ui, r) IN
       ui' = IF ui.stage[r.n] = "completed"
             THEN LoadMatchedPreview([u EXCEPT !.job = r.n, !.phase = "results",
                                               !.crossed = @ \/ ui.job # 0], r.n)
             ELSE [u EXCEPT !.seen = "none"]

Start ==
    [ stage |-> [j \in Jobs |-> "none"], kept |-> Trips, matched |-> {}, jobs |-> 0,
      form |-> CHOOSE f \in Forms : TRUE, signature |-> NoForm, sent |-> {}, phase |-> "select",
      mode |-> "job", job |-> 0, seen |-> "none", poll |-> 0, auto |-> 0, crossed |-> FALSE, lost |-> FALSE,
      rows |-> {}, rowsOf |-> 0, sel |-> {}, focus |-> {}, failed |-> {}, failedSel |-> {}, ask |-> {},
      map |-> "none", pending |-> {}, drawn |-> {}, history |-> {}, stored |-> 0, net |-> {}, steps |-> 0 ]

(* A fresh page, or one that an earlier job is stored for.                 *)
Init ==
    \/ ui = Start
    \/ ui = Sent([Start EXCEPT !.stage[1] = "completed", !.jobs = 1, !.history = {1}, !.stored = 1,
                               !.matched = Trips], "resume", 1, {})

Next ==
    \/ PreviewTrips \/ SubmitForm \/ PollTimer \/ ResetToSelect \/ ClearHistory \/ MapLoads
    \/ BrowseMatchedTrips \/ BrowseFailedTrips \/ RetryMatchingTrips
    \/ \E f \in Forms : ChangeForm(f)
    \/ \E j \in Jobs : ViewJob(j) \/ PreviewJob(j) \/ CancelJob(j) \/ DeleteJobHistory(j)
    \/ \E j \in Jobs, s \in Ended : JobEnds(j, s)
    \/ \E ts \in SUBSET Trips : SelectTrips(ts) \/ SelectFailed(ts)
    \/ \E t \in Trips : FocusTrip(t)
    \/ \E op \in {"unmatch", "delete"} : BulkAction(op, ui.sel) \/ BulkAction(op, ui.failedSel)
    \/ \E yes \in BOOLEAN : Confirmed(yes)
    \/ \E r \in ui.net :
        \/ PreviewArrives(r) \/ StartArrives(r) \/ JobArrives(r) \/ JobFails(r) \/ CancelArrives(r)
        \/ ForgetArrives(r) \/ ClearArrives(r) \/ MatchesArrive(r) \/ BrowseArrives(r) \/ BulkArrives(r)
        \/ FailedArrive(r) \/ RequestFails(r) \/ ResumeStored(r)

Spec == Init /\ [][Next]_ui

-----------------------------------------------------------------------------
(* What a start sends is what the form says at that moment, preview or not. *)
SentAsShown == \A p \in ui.sent : p[1] = p[2]

(* The page polls its own job and only while it shows its progress; while  *)
(* the job it shows is not known to have ended it does poll, unless a poll *)
(* failed or another job's answer came in between.                         *)
PollsItsJob ==
    ~ui.crossed =>
        /\ ui.poll # 0 => ui.poll = ui.job /\ ui.phase # "select"
        /\ ui.phase = "process" /\ ui.seen \notin Ended /\ ~ui.lost /\ ui.job # 0 => ui.poll = ui.job

(* No trip stays selected that is not in the table, and the routes drawn   *)
(* or waiting for the map are those of the table.                          *)
SelectionInTable ==
    /\ ui.sel \subseteq ui.rows
    /\ ui.rowsOf # 0 => (IF ui.map = "ready" THEN ui.drawn ELSE ui.pending) = ui.rows
=============================================================================
