-------------------------- MODULE BrowserMapPages --------------------------
(***************************************************************************)
(* The pages with a map. Each module is one page, or one part of a page,   *)
(* of the browser; a behaviour of this module is a behaviour of one of     *)
(* them, chosen at the start, so one run explores all of them side by side *)
(* without multiplying them. The live trip's metrics, which the server     *)
(* computes for the live map, are the part "metrics".                      *)
(***************************************************************************)
EXTENDS LiveMetrics, TLC

CONSTANTS
    Pages, Home, MapPages, Filters, NoFilter,  \* the shell's pages and filter
    MaxEntries, ShellSteps, Faults,            \* its bounds and what may fail
    Layers,                                    \* of the map, by whatever draws them
    Sources, Features, Paints, Zooms, Popups, NoPopup, ProxySteps,
    Styles, LayerSteps,
    Trips, NoTrip, Bundles, NoBundle, Big, Reasons, RenderSteps,
    Areas, NoArea, Modes, NoMode,              \* coverage areas, the ways to show their streets
    StreetModes, Dates, Clipping, DataSteps,   \* ... and to load them; whether an area clips the trips
    MaxData, SceneSteps,
    MaxSync, ViewSteps,
    Ranges, Feeds, NoRange, ChartDays, JournalSteps,  \* Feeds: the journal's sources
    Streets, MaxTasks, MaxPersistRetries, DriveSteps, \* of live navigation
    MaxFailures, RouteSteps, PlanSteps         \* of the route planner

ASSUME ShellAssumption ==
    /\ Home \in Pages /\ MapPages \subseteq Pages
    /\ MaxEntries \in Nat \ {0} /\ ShellSteps \in Nat
ASSUME AbsenceAssumption ==                    \* what stands for nothing is not one of them
    /\ NoArea \notin Areas /\ NoPopup \notin Popups
    /\ NoRange \notin Ranges /\ Ranges # {} /\ Feeds # {}
ASSUME StreetsAssumption ==                    \* abort keys are of the streets, or an area, or the trips
    /\ IsFiniteSet(StreetModes) /\ StreetModes # {} /\ NoMode \notin StreetModes
    /\ StreetModes \cap (Areas \cup {"trips"}) = {} /\ "trips" \notin Areas /\ Dates # {}
ASSUME NavigationAssumption ==
    MaxTasks \in Nat \ {0} /\ MaxPersistRetries \in Nat /\ DriveSteps \in Nat

VARIABLES page, ui

(* Summaries no points of this instance add up to.                         *)
MCSummary == [t \in Times |-> [distance |-> 10 + t, max |-> 20 + t, duration |-> 30 + t]]
MCSpeeds == {-1, 3}

Shell == INSTANCE AppShell WITH MaxSteps <- ShellSteps
Proxy == INSTANCE MapProxy WITH MaxSteps <- ProxySteps
Layer == INSTANCE MapLayers WITH MaxSteps <- LayerSteps
Data == INSTANCE MapData WITH Modes <- StreetModes, Days <- Dates, Clip <- Clipping, MaxSteps <- DataSteps
Rendering == INSTANCE TripRenderer WITH MaxSteps <- RenderSteps
Scene == INSTANCE MapScenes WITH MaxSteps <- SceneSteps
Dashboard == INSTANCE CoverageView WITH MaxSteps <- ViewSteps
Journal == INSTANCE CoverageJournal WITH Sources <- Feeds, Points <- ChartDays, MaxSteps <- JournalSteps
Navigation == INSTANCE LiveNavigation WITH MaxSteps <- DriveSteps
Route == INSTANCE OptimalRoutes WITH MaxSteps <- RouteSteps
Drive == INSTANCE DrivePlanner WITH MaxSteps <- PlanSteps

WebInit ==
    /\ Init
    /\ \/ page = "metrics" /\ ui = "none"
       \/ page = "shell" /\ Shell!Init
       \/ page = "proxy" /\ Proxy!Init
       \/ page = "layers" /\ Layer!Init
       \/ page = "data" /\ Data!Init
       \/ page = "rendering" /\ Rendering!Init
       \/ page = "scene" /\ Scene!Init
       \/ page = "dashboard" /\ Dashboard!Init
       \/ page = "journal" /\ Journal!Init
       \/ page = "navigation" /\ Navigation!Init
       \/ page = "route" /\ Route!Init
       \/ page = "drive" /\ Drive!Init

WebNext ==
    \/ page = "metrics" /\ Next /\ UNCHANGED <<page, ui>>
    \/ /\ UNCHANGED <<vars, page>>
       /\ \/ page = "shell" /\ Shell!Next
          \/ page = "proxy" /\ Proxy!Next
          \/ page = "layers" /\ Layer!Next
          \/ page = "data" /\ Data!Next
          \/ page = "rendering" /\ Rendering!Next
          \/ page = "scene" /\ Scene!Next
          \/ page = "dashboard" /\ Dashboard!Next
          \/ page = "journal" /\ Journal!Next
          \/ page = "navigation" /\ Navigation!Next
          \/ page = "route" /\ Route!Next
          \/ page = "drive" /\ Drive!Next

WebSpec == WebInit /\ [][WebNext]_<<vars, page, ui>>

-----------------------------------------------------------------------------
(* Every page's record of its state, its timers and its requests is well   *)
(* formed, and so is the live trip's snapshot.                             *)
WebTypeOK ==
    /\ TypeOK
    /\ page = "shell" => Shell!TypeOK
    /\ page = "proxy" => Proxy!TypeOK
    /\ page = "layers" => Layer!TypeOK
    /\ page = "data" => Data!TypeOK
    /\ page = "rendering" => Rendering!TypeOK
    /\ page = "scene" => Scene!TypeOK
    /\ page = "dashboard" => Dashboard!TypeOK
    /\ page = "journal" => Journal!TypeOK
    /\ page = "navigation" => Navigation!TypeOK
    /\ page = "route" => Route!TypeOK
    /\ page = "drive" => Drive!TypeOK
(* The address bar, the content, the page module that is alive and the     *)
(* filter the pages work on agree, through Swup visits, history entries of *)
(* the store, late and failing modules (navigation.js, store.js, app.js).  *)
PageMatchesUrl == page = "shell" => Shell!RouteMatchesUrl /\ Shell!OnePageAlive /\ Shell!PagesKnowFilter

(* What is on the map is what the page's own state says: overlays of the   *)
(* Google proxy and their data, layers and their switches through style    *)
(* changes, trips in exactly one renderer or hidden by a scene, the        *)
(* streets of an area and the street in its panel (google_map.js,          *)
(* layer-manager.js, map-manager.js, the lens scenes, coverage pages).     *)
MapShowsState ==
    /\ page = "proxy" => Proxy!DrawnIsData /\ Proxy!NoGhostOverlays
    /\ page = "layers" => Layer!MapShowsSwitches
    /\ page = "rendering" => Rendering!DrawnIsState /\ Rendering!OneRenderer /\ Rendering!LatestBundle
    /\ page = "scene" => Scene!TripsComeBack
    /\ page = "dashboard" => Dashboard!RenderedIsOnMap /\ Dashboard!PanelMatchesMap
    /\ page = "journal" => Journal!MapAsOf

(* What a page shows is the answer to its last question: the period, area, *)
(* range and segments selected now, although the answers to earlier ones   *)
(* still arrive (data-manager.js, app-controller.js, coverage-management,  *)
(* coverage-journal, live-navigation, optimal-route, driving-navigation).  *)
AnswersOfSelection ==
    /\ page = "data" => Data!TripsOfFilters /\ Data!StreetsOfSelection /\ Data!OverlayOfSelection
    /\ page = "dashboard" => Dashboard!DashboardOfOneArea
    /\ page = "journal" => Journal!JournalOfOneRange
    /\ page = "navigation" => Navigation!RouteOfArea
    /\ page = "route" => Route!RouteOfSelection
    /\ page = "drive" => Drive!PlanOfArea /\ Drive!StatsOfSelection
    /\ page = "scene" => Scene!SuggestionsOfArea /\ Scene!PlacesListed

(* A segment that was driven is saved in the end: it is never forgotten    *)
(* between the debounce, the requests and the retries, and what waits is   *)
(* tried again (live-navigation-coverage.js).                              *)
DrivenIsSaved == page = "navigation" => Navigation!DrivenNotLost /\ Navigation!RetryScheduled

(* A generation or a question on show is followed until it ends: no page   *)
(* waits for what nobody listens to, and no event source, progress or      *)
(* loading flag is left behind (live-navigation, optimal-route,            *)
(* driving-navigation, data-manager.js).                                   *)
WaitingIsOwned ==
    /\ page = "navigation" => Navigation!GenerationHeard /\ Navigation!SourcesOwned
    /\ page = "route" => Route!TaskIsFollowed
    /\ page = "drive" => Drive!ProgressEnds
    /\ page = "data" => Data!FlagNotStuck

(* There is one of what there is to be one of, through every crossing of   *)
(* callers, frames and transitions: one map, one open popup, one style     *)
(* change, one view, one scene; and listeners, replays, scenes and the     *)
(* watched position do not outlive what they are for.                      *)
OneAndOwned ==
    /\ page = "proxy" => Proxy!OneMap /\ Proxy!OnePopup /\ Proxy!ListenersBound
    /\ page = "layers" => Layer!OneMapReady /\ Layer!StylesInTurn
    /\ page = "dashboard" => Dashboard!OneViewShown
    /\ page = "journal" => Journal!PinnedWhileChosen
    /\ page = "rendering" => Rendering!ReplayOwned
    /\ page = "scene" => Scene!SceneOwned /\ Scene!NothingOutlivesPage /\ Scene!SheetFits
    /\ page = "navigation" => Navigation!WatchOwned
=============================================================================
