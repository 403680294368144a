---------------------------- MODULE SetupWizard ----------------------------
(***************************************************************************)
(* The setup wizard (modules/features/setup-wizard/index.js): three steps, *)
(* the map provider, the credentials and the coverage data; in the last    *)
(* one trips are imported and the maps are built, and both are polled.     *)
(* Every handler is a chain of requests, and chains overlap. The module's  *)
(* variables outlive a visit of the page, its fields and buttons do not.   *)
(***************************************************************************)
EXTENDS Naturals, Sequences, FiniteSets, FiniteSetsExt

CONSTANTS
    Worlds,                         \* what the server may hold at first: maps, missing credentials, coverage mode
    MaxMoves, MaxFailures,          \* changes on the server, requests that fail while the page is open
    MaxNet, MaxSteps                \* chains under way, acts of the user

VARIABLE ui

Providers == {"self_hosted", "google"}
(* "error" is a build that failed or was cancelled: its states are         *)
(* configured. "detected" states come from trips alone.                    *)
MapStates == {"none", "detected", "building", "ready", "error"}
Null == "null"
Phases == {"needs-import", "importing", "detected", "building", "ready"}
Missing == {"fields", "fleet_devices", "nothing"}
SetupStatus == [known : BOOLEAN, provider : Providers, key : BOOLEAN, bouncie : Missing]
NoSetup == [known |-> FALSE, provider |-> "self_hosted", key |-> FALSE, bouncie |-> "nothing"]

(* The requests a handler makes, one after the other.                      *)
Requests ==
    [ init |-> <<"loads", "map">>, tick |-> <<"map", "sync", "setup">>, provider |-> <<"save", "setup", "map">>,
      credentials |-> <<"key", "save", "setup">>, connect |-> <<"save">>, vehicles |-> <<"save", "setup">>,
      import |-> <<"post", "sync", "map">>, start |-> <<"post", "map">>, cancel |-> <<"post", "map">>, finish |-> <<"save">> ]
Chain == [id : Nat, kind : DOMAIN Requests, at : 1..3, p : Providers, open : SUBSET {"setup", "settings", "mode", "sync"},
          got : MapStates \cup {"idle", "syncing", "done", Null}]

TypeOK ==
    ui \in [ on : BOOLEAN, radio : Providers, step : 0..2, screen : 0..2, phase : Phases, timer : BOOLEAN,
             inFlight : BOOLEAN, setup : SetupStatus, map : MapStates \cup {Null}, sync : {"idle", "syncing", Null},
             mode : {"trips", "states"}, chosen : BOOLEAN, connected : BOOLEAN, build : BOOLEAN, importOff : BOOLEAN,
             chains : SUBSET Chain, blind : BOOLEAN, late : BOOLEAN,
             srv : [setup : SetupStatus, map : MapStates, sync : {"idle", "syncing"}, mode : {"trips", "states"}, connected : BOOLEAN],
             moves : 0..MaxMoves, failures : 0..MaxFailures, steps : 0..MaxSteps ]

User == ui.on /\ ui.steps < MaxSteps /\ Cardinality(ui.chains) < MaxNet
Acted(u) == [u EXCEPT !.steps = @ + 1]
Fresh(u) == Min((0..Cardinality(u.chains)) \ {c.id : c \in u.chains})
Request(c) == Requests[c.kind][c.at]

-----------------------------------------------------------------------------
(* What the page works out of what it knows.                               *)

(* A page that is left has no radio buttons, and the last status counts.   *)
IsGoogleProvider(u) == (IF u.on THEN u.radio ELSE u.setup.provider) = "google"

(* The server always calls the provider complete, and a token for Mapbox   *)
(* is part of the build.                                                   *)
ProviderComplete(u) == u.setup.known
CredentialsComplete(u) == u.setup.known /\ u.setup.bouncie = "nothing" /\ (IsGoogleProvider(u) => u.setup.key)

ShouldBlockCoverageSetup(u) == u.mode = "trips" /\ u.map \in {Null, "none"}

ApplySelectedStatesFromStatus(u) ==
    [u EXCEPT !.chosen = u.map \in {"building", "ready", "error"} \/ (u.mode = "trips" /\ u.map = "detected")]

DetermineCoveragePhase(u) ==
    CASE u.map = "ready" -> "ready"
      [] u.map = "building" \/ (u.map # "ready" /\ u.inFlight) -> "building"
      [] OTHER -> IF ~ShouldBlockCoverageSetup(u) THEN "detected"
                  ELSE IF u.sync = "syncing" THEN "importing" ELSE "needs-import"

-----------------------------------------------------------------------------
(* What the page draws.                                                    *)

StopStatusPolling(u) == [u EXCEPT !.timer = FALSE]

UpdateImportUI(u) == [u EXCEPT !.importOff = u.sync = "syncing"]

(* The flag of a start that is under way is lowered by the next drawing    *)
(* that does not find the build running, its own first one included.       *)
UpdateBuildUI(u) ==
    [u EXCEPT !.build = CredentialsComplete(u) /\ ~u.inFlight /\ u.chosen, !.inFlight = @ /\ u.map = "building"]

UpdateCoveragePhase(u) ==
    IF IsGoogleProvider(u) THEN StopStatusPolling(u)
    ELSE LET v == UpdateBuildUI(UpdateImportUI([u EXCEPT !.phase = DetermineCoveragePhase(u)]))
         IN  [v EXCEPT !.timer = v.phase \in {"building", "importing"}]

GoToStep(u, s, force) ==
    LET bounded == IF IsGoogleProvider(u) THEN Min({s, 1}) ELSE s
        v == [u EXCEPT !.step = bounded, !.screen = bounded]
    IN  IF ~force /\ ((bounded > 0 /\ ~ProviderComplete(u)) \/ (bounded > 1 /\ ~CredentialsComplete(u))) THEN u
        ELSE IF bounded = 2 THEN UpdateCoveragePhase(v) ELSE v

UpdateProviderUI(u) == IF IsGoogleProvider(u) /\ u.step > 1 THEN GoToStep(u, 1, TRUE) ELSE u

UpdateStepState(u) ==
    GoToStep(u, IF ~ProviderComplete(u) THEN 0 ELSE IF u.step = 0 THEN 1 ELSE u.step, TRUE)

-----------------------------------------------------------------------------
(* Chains of requests.                                                     *)

Begin(u, kind, at, p) ==
    [u EXCEPT !.chains = @ \cup {[id |-> Fresh(u), kind |-> kind, at |-> at, p |-> p, got |-> Null,
                                  open |-> IF kind = "init" THEN {"setup", "settings", "mode", "sync"} ELSE {}]}]

Left(u) == StopStatusPolling([u EXCEPT !.on = FALSE])

(* Without a status nothing is missing, for Google the setup is finished.  *)
CredentialsSaved(u, c) ==
    LET v == UpdateStepState(u)
        named == ~v.setup.known \/ v.setup.bouncie # "fields"
    IN  IF c.p = "google" /\ named THEN Begin(v, "finish", 1, c.p)
        ELSE IF named /\ v.setup.known THEN GoToStep(v, 2, FALSE) ELSE v

Ended(w, c) ==
    LET u == [w EXCEPT !.late = @ \/ ~w.on]
    IN  CASE c.kind = "init" -> UpdateCoveragePhase(UpdateStepState(UpdateProviderUI(u)))
          [] c.kind = "tick" -> UpdateCoveragePhase(UpdateStepState(u))
          [] c.kind = "provider" -> GoToStep(UpdateStepState(UpdateProviderUI(u)), 1, FALSE)
          [] c.kind = "credentials" -> CredentialsSaved(u, c)
          [] c.kind = "vehicles" -> UpdateStepState(u)
          [] c.kind \in {"import", "start", "cancel"} -> UpdateCoveragePhase(u)
          [] c.kind = "finish" -> Left(u)
          (* The browser goes to Bouncie, and comes back to a new document. *)
          [] c.kind = "connect" ->
               [u EXCEPT !.on = FALSE, !.timer = FALSE, !.step = 0, !.phase = "needs-import", !.inFlight = FALSE,
                         !.setup = NoSetup, !.map = Null, !.sync = Null, !.mode = "trips", !.chosen = FALSE,
                         !.connected = FALSE, !.chains = {}, !.blind = FALSE, !.srv.connected = TRUE]

(* On with the chain: its next request, or what the handler does last. The *)
(* status of the maps is not asked for, and forgotten, with Google's maps. *)
Went(u, c, i) ==
    IF i > Len(Requests[c.kind]) THEN Ended([u EXCEPT !.chains = @ \ {c}], c)
    ELSE [u EXCEPT !.chains = (@ \ {c}) \cup {[c EXCEPT !.at = i, !.got = Null]}]
GoOn(u, c) ==
    LET i == c.at + 1
        chosen == c.kind = "provider" /\ c.p = "google"
        skipped == /\ i <= Len(Requests[c.kind]) /\ Requests[c.kind][i] = "map"
                   /\ chosen \/ IsGoogleProvider(u)
        v == IF chosen THEN StopStatusPolling(u) ELSE u
    IN  IF skipped THEN Went([v EXCEPT !.map = Null, !.blind = TRUE], c, i + 1) ELSE Went(u, c, i)

(* Answers to requests that carry the page's signal fail once it is left.  *)
Heard(c) == ui.on \/ Request(c) = "post"
MayFail(c) == Heard(c) => ui.failures < MaxFailures
Failed(u, c) == [u EXCEPT !.failures = IF Heard(c) THEN @ + 1 ELSE @]

RefreshMapServicesStatus(c) ==
    /\ Request(c) = "map"
    /\ \/ /\ Heard(c) /\ c.got # Null
          /\ ui' = GoOn(ApplySelectedStatesFromStatus([ui EXCEPT !.map = c.got, !.blind = c.got # ui.srv.map]), c)
       \/ MayFail(c) /\ ui' = GoOn([Failed(ui, c) EXCEPT !.map = Null, !.blind = TRUE], c)

LoadTripSyncStatus(c) ==
    /\ Request(c) = "sync"
    /\ \/ Heard(c) /\ c.got # Null /\ ui' = GoOn([ui EXCEPT !.sync = c.got], c)
       \/ MayFail(c) /\ ui' = GoOn([Failed(ui, c) EXCEPT !.sync = Null], c)

LoadSetupStatus(c) ==
    /\ Request(c) = "setup"
    /\ \/ Heard(c) /\ ui' = GoOn([ui EXCEPT !.setup = ui.srv.setup], c)
       \/ MayFail(c) /\ ui' = GoOn([Failed(ui, c) EXCEPT !.setup = NoSetup], c)

(* The first loads run side by side.                                       *)
LoadCoverageSettings(u, ok) ==
    LET v == [u EXCEPT !.mode = IF ok THEN u.srv.mode ELSE "trips"]
    IN  IF v.map = Null THEN v ELSE ApplySelectedStatesFromStatus(v)
LoadBouncieCredentials(u, ok) ==
    IF ok THEN UpdateProviderUI([u EXCEPT !.connected = u.srv.connected, !.radio = u.srv.setup.provider])
    ELSE [u EXCEPT !.connected = FALSE]
Load(c) ==
    /\ Request(c) = "loads"
    /\ \E l \in c.open, ok \in BOOLEAN :
         LET w == IF ok THEN ui ELSE Failed(ui, c)
             u == CASE l = "setup" -> [w EXCEPT !.setup = IF ok THEN ui.srv.setup ELSE NoSetup]
                    [] l = "sync" -> [w EXCEPT !.sync = IF ok THEN ui.srv.sync ELSE Null]
                    [] l = "mode" -> LoadCoverageSettings(w, ok)
                    [] l = "settings" -> LoadBouncieCredentials(w, ok)
             rest == [c EXCEPT !.open = @ \ {l}]
             v == [u EXCEPT !.chains = (@ \ {c}) \cup {rest}]
         IN  /\ IF ok THEN Heard(c) ELSE MayFail(c)
             /\ ui' = IF rest.open = {} THEN GoOn(v, rest) ELSE v

(* A request that changes something ends; its answer may be lost.          *)
Succeeds(c) == Request(c) \in {"key", "save", "post"} /\ c.got = "done" /\ Heard(c) /\ ui' = GoOn(ui, c)
Fails(c) ==
    /\ Request(c) \in {"key", "save", "post"} /\ MayFail(c)
    /\ LET u == [Failed(ui, c) EXCEPT !.chains = @ \ {c}]
       IN  ui' = CASE c.kind = "credentials" /\ Request(c) = "save" ->
                        [u EXCEPT !.chains = @ \cup {[c EXCEPT !.kind = "vehicles", !.at = 2, !.got = Null]}]
                   [] c.kind = "import" -> [u EXCEPT !.importOff = FALSE]
                   [] c.kind = "start" ->
                        UpdateCoveragePhase([u EXCEPT !.inFlight = FALSE, !.blind = @ \/ c.got = "done", !.late = @ \/ ~u.on])
                   [] OTHER -> u

-----------------------------------------------------------------------------
(* The user. The buttons of a step are on the screen with it.              *)

ChangeProvider(p) ==
    User /\ ui.screen = 0 /\ ui.radio # p /\ ui' = Acted(UpdateStepState(UpdateProviderUI([ui EXCEPT !.radio = p])))
HandleProviderContinue == User /\ ui.screen = 0 /\ ui' = Acted(Begin(ui, "provider", 1, ui.radio))
GoBack == User /\ ui.screen > 0 /\ (ui.screen = 2 => ui.phase # "ready") /\ ui' = Acted(GoToStep(ui, ui.screen - 1, FALSE))

(* The form may lack a field, and then only the status is read again.      *)
HandleCredentialsContinue ==
    /\ User /\ ui.screen = 1
    /\ \/ ui' = Acted(Begin(ui, "credentials", IF ui.radio = "google" THEN 1 ELSE 2, ui.radio))
       \/ ui.radio # "google" /\ ui' = Acted(Begin(ui, "vehicles", 2, ui.radio))
HandleConnectBouncie == User /\ ui.screen = 1 /\ ui' = Acted(Begin(ui, "connect", 1, ui.radio))
SyncVehicles == User /\ ui.screen = 1 /\ ui.connected /\ ui' = Acted(Begin(ui, "vehicles", 1, ui.radio))

ImportTripsForCoverage ==
    /\ User /\ ui.screen = 2 /\ ui.phase \in {"needs-import", "importing"} /\ ~ui.importOff
    /\ ui' = Acted(Begin([ui EXCEPT !.importOff = TRUE], "import", 1, ui.radio))
StartMapSetup ==
    /\ User /\ ui.screen = 2 /\ ui.phase = "detected" /\ ui.build
    /\ ~ui.inFlight /\ ~ShouldBlockCoverageSetup(ui)
    /\ ui' = Acted(Begin(UpdateCoveragePhase([ui EXCEPT !.inFlight = TRUE]), "start", 1, ui.radio))
CancelMapSetup == User /\ ui.screen = 2 /\ ui.phase = "building" /\ ui' = Acted(Begin(ui, "cancel", 1, ui.radio))
CompleteSetupAndExit == User /\ ui.screen = 2 /\ ui.phase \in {"building", "ready"} /\ ui' = Acted(Begin(ui, "finish", 1, ui.radio))

StatusTick == ui.timer /\ Cardinality(ui.chains) < MaxNet /\ ui' = (IF IsGoogleProvider(ui)
    THEN Begin([ui EXCEPT !.map = Null, !.blind = TRUE], "tick", 2, ui.radio) ELSE Begin(ui, "tick", 1, ui.radio))

(* Requests that were cut off have ended long before the page is entered   *)
(* again; those that do not carry its signal may go on.                    *)
InitSetupWizardPage ==
    /\ ~ui.on /\ ui.steps < MaxSteps /\ \A c \in ui.chains : Request(c) = "post"
    /\ ui' = Acted(Begin([ui EXCEPT !.on = TRUE, !.radio = "self_hosted", !.screen = 0, !.build = FALSE, !.importOff = FALSE],
                         "init", 1, "self_hosted"))
Leave == ui.on /\ ui' = Left(ui)

-----------------------------------------------------------------------------
(* The server. What is read is read before it arrives.                     *)
ServerReads(c) ==
    /\ c.got = Null /\ Request(c) \in {"map", "sync"}
    /\ ui' = [ui EXCEPT !.chains = (@ \ {c}) \cup {[c EXCEPT !.got = IF Request(c) = "map" THEN ui.srv.map ELSE ui.srv.sync]}]

Effect(s, c) ==
    CASE Request(c) = "key" -> [s EXCEPT !.setup.key = TRUE]
      [] c.kind = "provider" -> [s EXCEPT !.setup.provider = c.p]
      [] c.kind \in {"credentials", "connect"} -> [s EXCEPT !.setup.bouncie = IF @ = "fields" THEN "fleet_devices" ELSE @]
      [] c.kind = "vehicles" -> [s EXCEPT !.setup.bouncie = IF @ = "fleet_devices" THEN "nothing" ELSE @]
      [] c.kind = "import" -> [s EXCEPT !.sync = "syncing"]
      [] c.kind = "start" -> [s EXCEPT !.map = IF @ = "none" THEN @ ELSE "building"]
      [] c.kind = "cancel" -> [s EXCEPT !.map = IF @ = "building" THEN "error" ELSE @]
      [] c.kind = "finish" -> s
Served(c) ==
    /\ c.got = Null /\ Request(c) \in {"key", "save", "post"}
    /\ ui' = [ui EXCEPT !.chains = (@ \ {c}) \cup {[c EXCEPT !.got = "done"]}, !.srv = Effect(@, c)]

(* The build and the import end by themselves; imported trips have states. *)
ServerMoves ==
    /\ ui.moves < MaxMoves
    /\ \/ /\ ui.srv.map = "building"
          /\ \E m \in {"ready", "error"} : ui' = [ui EXCEPT !.srv.map = m, !.moves = @ + 1]
       \/ /\ ui.srv.sync = "syncing"
          /\ ui' = [ui EXCEPT !.srv.sync = "idle", !.srv.map = IF @ = "none" THEN "detected" ELSE @, !.moves = @ + 1]

Answered(c) ==
    RefreshMapServicesStatus(c) \/ LoadTripSyncStatus(c) \/ LoadSetupStatus(c) \/ Load(c) \/ Succeeds(c) \/ Fails(c)

Init ==
    \E w \in Worlds :
        ui = [ on |-> FALSE, radio |-> "self_hosted", step |-> 0, screen |-> 0, phase |-> "needs-import", timer |-> FALSE,
               inFlight |-> FALSE, setup |-> NoSetup, map |-> Null, sync |-> Null, mode |-> "trips", chosen |-> FALSE,
               connected |-> FALSE, build |-> FALSE, importOff |-> FALSE, chains |-> {}, blind |-> FALSE, late |-> FALSE,
               srv |-> [setup |-> [known |-> TRUE, provider |-> "self_hosted", key |-> FALSE, bouncie |-> w.bouncie],
                        map |-> w.map, sync |-> "idle", mode |-> w.mode, connected |-> w.bouncie = "nothing"],
               moves |-> 0, failures |-> 0, steps |-> 0 ]

Next ==
    \/ \E p \in Providers : ChangeProvider(p)
    \/ HandleProviderContinue \/ GoBack \/ HandleCredentialsContinue \/ HandleConnectBouncie \/ SyncVehicles
    \/ ImportTripsForCoverage \/ StartMapSetup \/ CancelMapSetup \/ CompleteSetupAndExit
    \/ StatusTick \/ InitSetupWizardPage \/ Leave \/ ServerMoves
    \/ \E c \in ui.chains : ServerReads(c) \/ Served(c)
    \/ \E c \in ui.chains : Answered(c)

Spec == Init /\ [][Next]_ui

-----------------------------------------------------------------------------
(* A build that runs on the server is polled by the last step, whoever     *)
(* started, cancelled or polled it before, unless the last reading failed  *)
(* or was overtaken, or the answer to the start was lost                   *)
(* (startMapSetup, refreshMapServicesStatus, updateCoveragePhase).         *)
BuildIsFollowed ==
    ui.on /\ ui.screen = 2 /\ ui.chains = {} /\ ~ui.blind /\ ui.srv.map = "building" => ui.timer

(* With no handler under way the last step shows the phase that the page's *)
(* statuses stand for (or, after a start, still the build), and polls      *)
(* exactly in the phases that end by themselves (determineCoveragePhase,   *)
(* goToStep, updateCoveragePhase).                                         *)
PhaseIsState ==
    ui.on /\ ui.screen = 2 /\ ui.chains = {} =>
        /\ ui.phase \in {DetermineCoveragePhase(ui), "building"}
        /\ ui.timer <=> ui.phase \in {"building", "importing"}

(* A wizard that was left polls nothing, unless a handler ended later: its *)
(* last lines start the polling again (teardown, startStatusPolling).      *)
WizardLeftIsQuiet == ~ui.on /\ ~ui.late => ~ui.timer
=============================================================================
