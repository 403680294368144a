---------------------------- MODULE CoverageAreas ----------------------------
(***************************************************************************)
(* The list of coverage areas (features/coverage-management): the cards,   *)
(* the background jobs they show and start, the two saved settings, and    *)
(* the dialog that validates a location and adds it as an area.            *)
(***************************************************************************)
EXTENDS Naturals, FiniteSets

CONSTANTS
    Areas, NoArea,
    Queries, NoQuery,     \* texts of the location box; the empty one
    MaxJobs, MaxSteps     \* jobs the server starts; what the user does

VARIABLE ui

Settings == {"service", "mode"}        \* service roads, trip source
Statuses == {"absent", "ready", "building", "error"}
Job == [a : Areas, kind : {"build", "fill", "route"}, n : 1..MaxJobs]
NoJob == [a |-> NoArea, kind |-> "none", n |-> 0]
Acts == {"cancel", "route", "restart", "delete", "rebuild", "recalculate"}
Asked == [act : Acts, a : Areas, job : Job \cup {NoJob}]
Nothing == [act |-> "none", a |-> NoArea, job |-> NoJob]
Texts == Queries \cup {NoQuery}
Counts == 0..(4 * MaxSteps)

TypeOK ==
    /\ DOMAIN ui = {"status", "running", "jobs", "saved", "active", "timer", "listed", "known", "lists",
                    "ask", "failed", "batch", "form", "busy", "lost", "open", "hiding", "query", "last",
                    "req", "res", "cands", "confirmed", "typed", "checking", "retyped", "reused",
                    "net", "steps"}
    /\ ui.status \in [Areas -> Statuses] /\ ui.running \subseteq Job /\ ui.jobs \in 0..MaxJobs   \* the server
    /\ ui.saved \in [Settings -> BOOLEAN]
    /\ {ui.active, ui.timer, ui.lost, ui.open, ui.hiding, ui.typed, ui.checking, ui.retyped, ui.reused}
            \subseteq BOOLEAN
    /\ ui.listed \in [Areas -> Statuses] /\ ui.known \subseteq Job
    /\ ui.lists \subseteq [n : Counts, served : BOOLEAN, status : [Areas -> Statuses], jobs : SUBSET Job,
                           add : BOOLEAN]
    /\ ui.ask \in Asked \cup {Nothing} /\ ui.failed \in Areas \cup {NoArea} /\ ui.batch \subseteq Areas
    /\ ui.form \in [Settings -> BOOLEAN] /\ ui.busy \subseteq Settings
    /\ {ui.query, ui.last, ui.cands, ui.confirmed} \subseteq Texts /\ {ui.req, ui.res} \subseteq Counts
    /\ ui.steps \in 0..MaxSteps

User == ui.active /\ ui.steps < MaxSteps
Acted(u) == [u EXCEPT !.steps = @ + 1]
Sent(u, r) == [u EXCEPT !.net = @ \cup {r}]
Got(u, r) == [u EXCEPT !.net = @ \ {r}]

-----------------------------------------------------------------------------
(* loadAreas drops the refresh timer, asks for areas and jobs, and sets    *)
(* the timer again when the answer, or the failure, is in.                 *)
LoadAreas(u, add) ==
    [u EXCEPT !.timer = FALSE,
              !.lists = @ \cup {[n |-> u.steps, served |-> FALSE, status |-> u.status, jobs |-> {}, add |-> add]}]

ServeList(l) ==
    /\ ~l.served
    /\ ui' = [ui EXCEPT !.lists = (@ \ {l}) \cup {[l EXCEPT !.served = TRUE, !.status = ui.status,
                                                            !.jobs = ui.running]}]

ScheduleActiveJobsRefresh(u) == [u EXCEPT !.timer = u.known # {} /\ u.active]

RefreshTimer ==
    /\ ui.timer
    /\ ui' = LoadAreas(ui, FALSE)

(* One job of each sort per area counts. The error panel closes when its   *)
(* area no longer is in error.                                             *)
FirstJobs(js) ==
    {j \in js : \A i \in js : (i.a = j.a /\ (i.kind = "route") = (j.kind = "route")) => j.n <= i.n}

ClearedDialog(u) ==
    [u EXCEPT !.last = NoQuery, !.cands = NoQuery, !.confirmed = NoQuery, !.checking = FALSE,
              !.reused = @ \/ \E r \in u.net : r.op \in {"validate", "resolve"}, !.req = 0, !.res = 0]

(* addArea goes on after its reload: it empties the box, whatever the user *)
(* has typed into it since.                                                *)
AfterReload(u, l) == IF l.add THEN ClearedDialog([u EXCEPT !.query = NoQuery]) ELSE u

Shown(u, l) ==
    LET w == [u EXCEPT !.lists = @ \ {l}, !.listed = l.status, !.known = FirstJobs(l.jobs),
                       !.failed = IF @ # NoArea /\ l.status[@] # "error" THEN NoArea ELSE @]
    IN  AfterReload(ScheduleActiveJobsRefresh(w), l)

ListArrives(l) ==
    /\ l.served
    /\ ui' = Shown(ui, l)

ListFails(l) == ui' = AfterReload(ScheduleActiveJobsRefresh([ui EXCEPT !.lists = @ \ {l}]), l)

Refresh ==
    /\ User
    /\ ui' = Acted(LoadAreas(ui, FALSE))

(* Leaving the page: its requests are aborted and fail, or had just come.  *)
Teardown ==
    /\ ui.active
    /\ ui' = [ui EXCEPT !.active = FALSE, !.timer = FALSE, !.known = {}, !.failed = NoArea,
                        !.listed = [a \in Areas |-> "absent"]]

-----------------------------------------------------------------------------
(* What a card offers is asked back first; the job is the one known then.  *)
KnownJob(a, route) == {j \in ui.known : j.a = a /\ (j.kind = "route") = route}

CardAction(act, a) ==
    /\ User /\ ui.ask = Nothing /\ ui.listed[a] # "absent"
    /\ CASE act = "cancel" -> KnownJob(a, FALSE) # {}
         [] act = "restart" -> KnownJob(a, TRUE) # {}
         [] act = "recalculate" -> ui.listed[a] = "ready" /\ KnownJob(a, FALSE) = {}
         [] OTHER -> TRUE
    /\ \E j \in KnownJob(a, act \in {"route", "restart"}) \cup {NoJob} :
          /\ (act \in {"cancel", "restart"}) = (j # NoJob)
          /\ ui' = Acted([ui EXCEPT !.ask = [act |-> act, a |-> a, job |-> j]])

Decline ==
    /\ User /\ ui.ask # Nothing
    /\ ui' = Acted([ui EXCEPT !.ask = Nothing])

Confirm ==
    /\ User /\ ui.ask # Nothing
    /\ ui' = Acted(Sent([ui EXCEPT !.ask = Nothing],
                        [op |-> IF ui.ask.act = "restart" THEN "stop" ELSE ui.ask.act,
                         a |-> ui.ask.a, job |-> ui.ask.job]))

(* The server: a new job, unless its area has one of that sort.            *)
Started(u, a, kind) ==
    IF u.jobs = MaxJobs \/ \E j \in u.running : j.a = a /\ (j.kind = "route") = (kind = "route") THEN u
    ELSE [u EXCEPT !.jobs = @ + 1, !.running = @ \cup {[a |-> a, kind |-> kind, n |-> u.jobs + 1]},
                   !.status[a] = IF kind = "build" THEN "building" ELSE @]

(* The answers all end in a reload; deleting reloads on failure, too.      *)
ActionArrives(r) ==
    /\ r.op \in {"cancel", "route", "delete", "rebuild", "recalculate"}
    /\ LET u == Got(ui, r)
           done == CASE r.op = "cancel"  -> [u EXCEPT !.running = @ \ {r.job}]
                     [] r.op = "route"   -> Started(u, r.a, "route")
                     [] r.op = "rebuild" -> Started(u, r.a, "build")
                     [] r.op = "recalculate" -> Started(u, r.a, "fill")
                     [] OTHER -> [u EXCEPT !.status[r.a] = "absent",
                                           !.running = {j \in @ : j.a # r.a}]
       IN  ui' = LoadAreas(done, FALSE)

ActionFails(r) ==
    /\ r.op \in {"cancel", "route", "delete", "rebuild", "recalculate", "stop", "add", "batch"}
    /\ ui' = IF r.op = "delete" THEN LoadAreas(Got(ui, r), FALSE) ELSE Got(ui, r)

(* A restart deletes the job it knew and only then asks for a new route.   *)
StopArrives(r) ==
    /\ r.op = "stop"
    /\ ui' = Sent([Got(ui, r) EXCEPT !.running = @ \ {r.job}], [op |-> "route", a |-> r.a, job |-> NoJob])

JobEnds(j, ok) ==
    ui' = [ui EXCEPT !.running = @ \ {j},
                     !.status[j.a] = IF j.kind = "build" THEN (IF ok THEN "ready" ELSE "error") ELSE @]

ShowErrorDetails(a) ==
    /\ User /\ ui.listed[a] = "error"
    /\ ui' = Acted([ui EXCEPT !.failed = a])

(* Batch recalculation wants two ready areas without a job.                *)
Eligible == {a \in Areas : ui.listed[a] = "ready" /\ KnownJob(a, FALSE) = {}}

QueueBatch(as) ==
    /\ User /\ Cardinality(as) >= 2 /\ ui.batch = {}
    /\ ui' = Acted(Sent([ui EXCEPT !.batch = as], [op |-> "batch", a |-> NoArea, job |-> NoJob]))

BatchArrives(r) ==
    /\ r.op = "batch"
    /\ \E a \in ui.batch :
         ui' = LoadAreas(Started([Got(ui, r) EXCEPT !.batch = {}], a, "fill"), FALSE)

-----------------------------------------------------------------------------
(* The saved settings: changed at once, disabled until the answer, put     *)
(* back if saving fails, which says nothing about the server.              *)
LoadSettingsArrive(r) ==
    /\ r.op = "settings"
    /\ ui' = LoadAreas([Got(ui, r) EXCEPT !.form = ui.saved, !.busy = {}], FALSE)

LoadSettingsFail(r) ==
    /\ r.op = "settings"
    /\ ui' = LoadAreas([Got(ui, r) EXCEPT !.form = [s \in Settings |-> TRUE], !.busy = {}, !.lost = TRUE], FALSE)

ChangeSetting(s) ==
    /\ User /\ s \notin ui.busy
    /\ ui' = Acted(Sent([ui EXCEPT !.form[s] = ~@, !.busy = @ \cup {s}], [op |-> "save", s |-> s, v |-> ~ui.form[s]]))

SettingSaved(r) ==
    /\ r.op = "save"
    /\ ui' = [Got(ui, r) EXCEPT !.saved[r.s] = r.v, !.busy = @ \ {r.s}]

SettingFails(r, reached) ==
    /\ r.op = "save"
    /\ ui' = [Got(ui, r) EXCEPT !.form[r.s] = ~r.v, !.busy = @ \ {r.s}, !.lost = @ \/ reached,
                                !.saved[r.s] = IF reached THEN r.v ELSE @]

-----------------------------------------------------------------------------
(* The add dialog. Every key stroke takes a number from both counters; the *)
(* counters start again at 0 when the dialog is hidden.                    *)
OpenDialog ==
    /\ User /\ ~ui.open
    /\ ui' = Acted([ui EXCEPT !.open = TRUE])

HideDialog ==
    /\ User /\ ui.open
    /\ ui' = Acted([ui EXCEPT !.open = FALSE, !.hiding = TRUE])

Hidden ==
    /\ ui.hiding
    /\ ui' = [ClearedDialog(ui) EXCEPT !.hiding = FALSE]

TypeQuery(q) ==
    /\ User /\ ui.open /\ q # ui.query
    /\ LET u == [ui EXCEPT !.query = q, !.req = @ + 1, !.res = @ + 1, !.confirmed = NoQuery, !.typed = TRUE,
                           !.checking = q # NoQuery] IN
       ui' = Acted(IF q = NoQuery THEN [u EXCEPT !.last = NoQuery, !.cands = NoQuery] ELSE u)

(* After the debounce; the text of the last request is not asked again.    *)
ValidateLocationInput ==
    /\ ui.typed
    /\ LET u == [ui EXCEPT !.typed = FALSE] IN
       ui' = CASE ui.query = NoQuery -> u
               [] ui.query # NoQuery /\ ui.query = ui.last -> [u EXCEPT !.retyped = TRUE]
               [] OTHER -> Sent([u EXCEPT !.last = ui.query, !.req = @ + 1],
                                [op |-> "validate", q |-> ui.query, n |-> ui.req + 1])

ResolveCandidate(u, q) ==
    Sent([u EXCEPT !.confirmed = NoQuery, !.checking = TRUE, !.res = @ + 1],
         [op |-> "resolve", q |-> q, n |-> u.res + 1])

(* The first candidate with a boundary is resolved right away.             *)
ValidationArrives(r, boundary) ==
    /\ r.op = "validate"
    /\ LET u == [Got(ui, r) EXCEPT !.cands = r.q, !.checking = FALSE] IN
       ui' = IF r.n # ui.req THEN Got(ui, r) ELSE IF boundary THEN ResolveCandidate(u, r.q) ELSE u

PickCandidate ==
    /\ User /\ ui.open /\ ui.cands # NoQuery
    /\ ui' = Acted(ResolveCandidate(ui, ui.cands))

ResolveArrives(r) ==
    /\ r.op = "resolve"
    /\ ui' = IF r.n = ui.res THEN [Got(ui, r) EXCEPT !.confirmed = r.q, !.checking = FALSE] ELSE Got(ui, r)

ValidationFails(r) ==
    /\ r.op \in {"validate", "resolve"}
    /\ ui' = IF r.n = (IF r.op = "validate" THEN ui.req ELSE ui.res)
             THEN [Got(ui, r) EXCEPT !.checking = FALSE] ELSE Got(ui, r)

(* The dialog is hidden first; its boundary is read before the hidden event. *)
AddArea ==
    /\ User /\ ui.open /\ ui.confirmed # NoQuery
    /\ \E a \in {b \in Areas : ui.status[b] = "absent"} :
         ui' = Acted(Sent([ui EXCEPT !.open = FALSE, !.hiding = TRUE], [op |-> "add", a |-> a, q |-> ui.confirmed]))

AddArrives(r) ==
    /\ r.op = "add"
    /\ ui' = LoadAreas(Started(Got(ui, r), r.a, "build"), TRUE)

-----------------------------------------------------------------------------
Start ==
    [ status |-> [a \in Areas |-> "ready"], running |-> {}, jobs |-> 0,
      saved |-> [s \in Settings |-> s = "service"], active |-> TRUE, timer |-> FALSE,
      listed |-> [a \in Areas |-> "absent"], known |-> {}, lists |-> {}, ask |-> Nothing,
      failed |-> NoArea, batch |-> {}, form |-> [s \in Settings |-> TRUE], busy |-> Settings, lost |-> FALSE,
      open |-> FALSE, hiding |-> FALSE, query |-> NoQuery, last |-> NoQuery, req |-> 0, res |-> 0,
      cands |-> NoQuery, confirmed |-> NoQuery, typed |-> FALSE, checking |-> FALSE, retyped |-> FALSE,
      reused |-> FALSE, net |-> {[op |-> "settings"]}, steps |-> 0 ]

(* An area is ready, failed or not there yet.                              *)
Init == \E f \in [Areas -> {"ready", "error", "absent"}] : ui = [Start EXCEPT !.status = f]

Next ==
    \/ RefreshTimer \/ Refresh \/ Teardown \/ Decline \/ Confirm \/ OpenDialog \/ HideDialog \/ Hidden
    \/ ValidateLocationInput \/ PickCandidate \/ AddArea
    \/ \E l \in ui.lists : ServeList(l) \/ ListArrives(l) \/ ListFails(l)
    \/ \E a \in Areas : ShowErrorDetails(a) \/ \E act \in Acts : CardAction(act, a)
    \/ \E j \in ui.running, ok \in BOOLEAN : JobEnds(j, ok)
    \/ \E as \in SUBSET Eligible : QueueBatch(as)
    \/ \E s \in Settings : ChangeSetting(s)
    \/ \E q \in Texts : TypeQuery(q)
    \/ \E r \in ui.net :
        \/ ActionArrives(r) \/ ActionFails(r) \/ StopArrives(r) \/ BatchArrives(r) \/ LoadSettingsArrive(r)
        \/ LoadSettingsFail(r) \/ SettingSaved(r) \/ (\E x \in BOOLEAN : SettingFails(r, x))
        \/ (\E b \in BOOLEAN : ValidationArrives(r, b))
        \/ ResolveArrives(r) \/ ValidationFails(r) \/ AddArrives(r)

Spec == Init /\ [][Next]_ui

-----------------------------------------------------------------------------
(* While the page knows of a running job it will look again: the timer is  *)
(* set or a list is being loaded. No timer outlives the page.              *)
RefreshScheduled ==
    /\ ui.active /\ ui.known # {} => ui.timer \/ ui.lists # {}
    /\ ui.timer => ui.active

(* The error panel is of an area the cards show as failed.                 *)
PanelOfFailedArea == ui.failed # NoArea => ui.listed[ui.failed] = "error"

(* A setting that can be changed shows what is saved, unless an answer was *)
(* lost on the way.                                                        *)
SettingsAgree == ~ui.lost => \A s \in Settings \ ui.busy : ui.form[s] = ui.saved[s]

(* The boundary that Add would send is that of the text in the box, and    *)
(* "Validating" ends: something is under way; unless the counters began    *)
(* again with a request open, or a text was typed away and back.           *)
BoundaryOfQuery ==
    ~ui.reused =>
        /\ ui.confirmed \in {ui.query, NoQuery}
        /\ ui.checking /\ ~ui.retyped =>
              ui.typed \/ \E r \in ui.net : (r.op = "validate" /\ r.n = ui.req) \/ (r.op = "resolve" /\ r.n = ui.res)
=============================================================================
