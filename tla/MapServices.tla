---------------------------- MODULE MapServices ----------------------------
(***************************************************************************)
(* The map services tab of the settings page                               *)
(* (modules/features/settings/map-services.js): the status of the map data *)
(* build with the buttons that start, retry and cancel it, the coverage    *)
(* settings, and the rebuild of the region explorer's cache. Each of the   *)
(* two jobs is polled by a timer of its own while it runs. The module's    *)
(* variables outlive a visit of the tab.                                   *)
(***************************************************************************)
EXTENDS Naturals, FiniteSets, FiniteSetsExt

CONSTANTS MaxMoves, MaxNet, MaxSteps    \* changes on the server, requests in flight, acts of the user

VARIABLE ui

(* "needs" wants map data, "empty" has no trips to need any; a "failed"    *)
(* setup has states to retry, a "refused" one has none.                    *)
Statuses == {"ready", "needs", "empty", "building", "failed", "refused"}
NoStatus == "none"
Providers == {"osm", "google"}
Readings == {"status", "refresh"}
Kinds == Readings \cup {"settings", "provision", "configure", "cancel", "geo", "rebuild", "reread", "save"}
Answers == Statuses \cup Providers \cup {NoStatus, "active", "done"}

TypeOK ==
    ui \in [ on : BOOLEAN, visit : 0..MaxSteps, google : BOOLEAN, known : Providers, form : BOOLEAN,
             last : Statuses \cup {NoStatus}, shown : Statuses \cup {NoStatus, "error"}, off : BOOLEAN, timer : BOOLEAN,
             geo : {NoStatus, "active", "done"}, geoTimer : BOOLEAN, geoOff : BOOLEAN,
             net : SUBSET [id : Nat, kind : Kinds, by : 0..MaxSteps, mine : BOOLEAN, got : Answers],
             late : BOOLEAN, srv : Statuses, srvGeo : {"active", "done"}, moves : 0..MaxMoves, steps : 0..MaxSteps ]

User == ui.on /\ ui.steps < MaxSteps
Acted(u) == [u EXCEPT !.steps = @ + 1]
Fresh(net) == Min((0..Cardinality(net)) \ {q.id : q \in net})
Asked(u, kind) ==
    [u EXCEPT !.net = @ \cup {[id |-> Fresh(@), kind |-> kind, by |-> u.visit, mine |-> TRUE, got |-> NoStatus]}]
Done(u, q) == [u EXCEPT !.net = @ \ {q}, !.late = @ \/ ~u.on \/ q.by # u.visit]

(* Whatever is drawn anew replaces the button a request disabled.          *)
Redrawn(u, shown) ==
    [u EXCEPT !.shown = IF u.on THEN shown ELSE NoStatus, !.off = IF u.on THEN FALSE ELSE @,
              !.net = IF u.on THEN {[q EXCEPT !.mine = @ /\ q.kind = "rebuild"] : q \in @} ELSE @]

-----------------------------------------------------------------------------

AdjustPolling(u, s) == [u EXCEPT !.timer = ~u.google /\ s = "building"]

RenderAutoStatus(u, s) == Redrawn(u, s)

RenderError(u) == Redrawn(u, "error")

ReadAutoStatus(u, kind) == IF u.google THEN [u EXCEPT !.timer = FALSE] ELSE Asked(u, kind)
RefreshAutoStatus(u) == ReadAutoStatus(u, "status")

(* The retry and the first setup are the same handler; a retry sends the   *)
(* states of the last status.                                              *)
CanProvision(s) == s \in {"needs", "failed", "refused"}
TriggerProvisioning ==
    /\ User /\ CanProvision(ui.shown) /\ ~ui.off
    /\ ui' = Acted(Asked([ui EXCEPT !.off = TRUE],
                         IF ui.shown # "needs" /\ ui.last = "failed" THEN "configure" ELSE "provision"))

CancelSetup == User /\ ui.shown = "building" /\ ~ui.off /\ ui' = Acted(Asked([ui EXCEPT !.off = TRUE], "cancel"))

(* The refresh button, disabled while its own reading lasts.               *)
HandleRefresh ==
    /\ User /\ ui.shown \in Statuses \ {"building"} /\ ~\E q \in ui.net : q.kind = "refresh" /\ q.mine
    /\ ui' = Acted(ReadAutoStatus(ui, "refresh"))

(* The retry button of the error.                                          *)
RetryAfterError == User /\ ui.shown = "error" /\ ui' = Acted(RefreshAutoStatus(ui))

(* A request to start ends, well or not, with a reading of the status.     *)
ProvisionEnds(q) ==
    /\ q.kind \in {"provision", "configure"}
    /\ \E ok \in BOOLEAN :
         ui' = RefreshAutoStatus([Done(ui, q) EXCEPT !.srv = IF ok /\ (q.kind = "configure" \/ CanProvision(@)) THEN "building" ELSE @])

CancelEnds(q) ==
    /\ q.kind = "cancel"
    /\ \/ ui' = RefreshAutoStatus([Done(ui, q) EXCEPT !.srv = IF @ = "building" THEN "needs" ELSE @])
       \/ ui' = [Done(ui, q) EXCEPT !.off = @ /\ ~q.mine]

StatusArrives(q) ==
    /\ q.kind \in Readings /\ q.got # NoStatus
    /\ ui' = AdjustPolling(RenderAutoStatus([Done(ui, q) EXCEPT !.last = q.got], q.got), q.got)

StatusFails(q) == q.kind \in Readings /\ ui' = RenderError(Done(ui, q))

-----------------------------------------------------------------------------
StartGeoCoveragePolling(u) == [u EXCEPT !.geoTimer = TRUE]
StopGeoCoveragePolling(u) == [u EXCEPT !.geoTimer = FALSE]
StopPolling(u) == [u EXCEPT !.timer = FALSE]

RefreshGeoCoverageStatus(u) == IF u.on /\ u.form THEN Asked(u, "geo") ELSE StopGeoCoveragePolling(u)

RenderGeoCoverageStatus(u, s) == [u EXCEPT !.geo = IF u.on /\ u.form THEN s ELSE NoStatus]

GeoSeen(u, s) ==
    LET shown == RenderGeoCoverageStatus(u, s)
    IN  IF s = "active" THEN StartGeoCoveragePolling(shown) ELSE StopGeoCoveragePolling(shown)

GeoArrives(q) == q.kind = "geo" /\ q.got # NoStatus /\ ui' = GeoSeen(Done(ui, q), q.got)

GeoFails(q) == q.kind = "geo" /\ ui' = Done(ui, q)

TriggerGeoCoverageFullRebuild ==
    User /\ ui.form /\ ~ui.geoOff /\ ui' = Acted(Asked([ui EXCEPT !.geoOff = TRUE], "rebuild"))

RebuildEnds(u, q) == [u EXCEPT !.geoOff = @ /\ ~q.mine]

(* A rebuild that is started is looked up (where there is a form to show   *)
(* it) and polled, whatever that reading says.                             *)
RebuildArrives(q) ==
    /\ q.kind = "rebuild"
    /\ \/ ui' = RebuildEnds(Done(ui, q), q)
       \/ LET u == [Done(ui, q) EXCEPT !.srvGeo = "active"]
          IN  ui' = IF u.on /\ u.form
                    THEN [u EXCEPT !.net = @ \cup {[q EXCEPT !.kind = "reread"]}]
                    ELSE RebuildEnds(StartGeoCoveragePolling(StopGeoCoveragePolling(u)), q)

RereadArrives(q) ==
    /\ q.kind = "reread"
    /\ \/ q.got # NoStatus /\ ui' = RebuildEnds(StartGeoCoveragePolling(GeoSeen(Done(ui, q), q.got)), q)
       \/ ui' = RebuildEnds(StartGeoCoveragePolling(Done(ui, q)), q)

-----------------------------------------------------------------------------
RenderCoverageSettings(u) ==
    LET drawn == [u EXCEPT !.form = u.on, !.geo = NoStatus, !.geoOff = FALSE,
                           !.net = {IF q.kind \in {"rebuild", "reread"} THEN [q EXCEPT !.mine = FALSE] ELSE q : q \in @}]
    IN  IF u.on THEN RefreshGeoCoverageStatus(drawn) ELSE u

(* With Google's maps the tab offers nothing and polls nothing.            *)
IsGoogleMapProvider(u) == u.known = "google"
CoverageSettingsLoaded(v) ==
    LET u == [v EXCEPT !.google = IsGoogleMapProvider(v)]
    IN  IF u.google
        THEN StopPolling(StopGeoCoveragePolling(
                 [Redrawn(u, NoStatus) EXCEPT !.form = FALSE, !.geo = NoStatus, !.geoOff = FALSE]))
        ELSE RefreshAutoStatus(RenderCoverageSettings(u))

(* A failed reading goes by the settings of the last one.                  *)
LoadCoverageSettings(q) ==
    /\ q.kind = "settings"
    /\ \/ q.got # NoStatus /\ ui' = CoverageSettingsLoaded([Done(ui, q) EXCEPT !.known = q.got])
       \/ ui' = CoverageSettingsLoaded(Done(ui, q))

SaveCoverageSettings == User /\ ui.form /\ ui' = Acted(Asked(ui, "save"))
SaveEnds(q) == q.kind = "save" /\ ui' = Done(ui, q)

-----------------------------------------------------------------------------
InitMapServicesTab ==
    /\ ~ui.on /\ ui.steps < MaxSteps
    /\ ui' = Acted(Asked(StopPolling(StopGeoCoveragePolling(
                 [ui EXCEPT !.on = TRUE, !.visit = @ + 1, !.google = FALSE, !.form = FALSE, !.shown = NoStatus,
                            !.off = FALSE, !.geo = NoStatus, !.geoOff = FALSE])), "settings"))

CleanupMapServicesTab ==
    /\ ui.on
    /\ ui' = StopPolling(StopGeoCoveragePolling(
                 [ui EXCEPT !.on = FALSE, !.form = FALSE, !.shown = NoStatus, !.off = FALSE, !.geo = NoStatus,
                            !.geoOff = FALSE, !.net = {[q EXCEPT !.mine = FALSE] : q \in @}]))

PollTick == ui.timer /\ Cardinality(ui.net) < MaxNet /\ ui' = RefreshAutoStatus(ui)
GeoPollTick == ui.geoTimer /\ Cardinality(ui.net) < MaxNet /\ ui' = RefreshGeoCoverageStatus(ui)

(* What the server answers is read before it arrives.                      *)
ServerReads(q) ==
    /\ q.got = NoStatus /\ q.kind \in Readings \cup {"settings", "geo", "reread"}
    /\ \E got \in CASE q.kind = "settings" -> Providers
                    [] q.kind \in Readings -> {ui.srv}
                    [] OTHER -> {ui.srvGeo} :
         ui' = [ui EXCEPT !.net = (@ \ {q}) \cup {[q EXCEPT !.got = got]}]

(* The build and the rebuild end by themselves; trips are imported.        *)
ServerMoves ==
    /\ ui.moves < MaxMoves
    /\ \/ ui.srv = "building" /\ \E s \in {"ready", "failed", "refused"} : ui' = [ui EXCEPT !.srv = s, !.moves = @ + 1]
       \/ ui.srv = "empty" /\ ui' = [ui EXCEPT !.srv = "needs", !.moves = @ + 1]
       \/ ui.srvGeo = "active" /\ ui' = [ui EXCEPT !.srvGeo = "done", !.moves = @ + 1]

Answered(q) ==
    \/ ProvisionEnds(q) \/ CancelEnds(q) \/ StatusArrives(q) \/ StatusFails(q) \/ GeoArrives(q) \/ GeoFails(q)
    \/ RebuildArrives(q) \/ RereadArrives(q) \/ LoadCoverageSettings(q) \/ SaveEnds(q)

Init ==
    \E s \in {"empty", "needs", "building"} :
        ui = [ on |-> FALSE, visit |-> 0, google |-> FALSE, known |-> "osm", form |-> FALSE, last |-> NoStatus, shown |-> NoStatus,
               off |-> FALSE, timer |-> FALSE, geo |-> NoStatus, geoTimer |-> FALSE, geoOff |-> FALSE, net |-> {}, late |-> FALSE,
               srv |-> s, srvGeo |-> "done", moves |-> 0, steps |-> 0 ]

Next ==
    \/ TriggerProvisioning \/ CancelSetup \/ HandleRefresh \/ RetryAfterError \/ TriggerGeoCoverageFullRebuild \/ SaveCoverageSettings
    \/ InitMapServicesTab \/ CleanupMapServicesTab \/ PollTick \/ GeoPollTick \/ ServerMoves
    \/ \E q \in ui.net : ServerReads(q)
    \/ \E q \in ui.net : Answered(q)

Spec == Init /\ [][Next]_ui

-----------------------------------------------------------------------------
(* A build or a rebuild shown running is polled, so that its end will be   *)
(* seen: the readings that start, keep and stop the two timers cross each  *)
(* other and the redrawing of the tab (adjustPolling,                      *)
(* refreshGeoCoverageStatus). Only an answer to an earlier visit can show  *)
(* a build after the tab turned to Google's maps and back.                 *)
RunningIsPolled ==
    /\ ui.shown = "building" /\ ~ui.google /\ ~ui.late => ui.timer
    /\ ui.geo = "active" => ui.geoTimer

(* A tab that is left polls nothing, and the states a retry would send are *)
(* those of the status on show; only an answer that reaches the tab after  *)
(* it was left starts the polling again (refreshAutoStatus,                *)
(* triggerGeoCoverageFullRebuild).                                         *)
TabLeftIsQuiet ==
    /\ ~ui.on /\ ~ui.late => ~ui.timer /\ ~ui.geoTimer
    /\ ui.shown \in Statuses => ui.last = ui.shown
=============================================================================
