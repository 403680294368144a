-------------------------- MODULE BrowserDataPages -------------------------
(***************************************************************************)
(* The pages of lists, dialogs and jobs. Each module is one page, or one   *)
(* part of a page, of the browser; a behaviour of this module is a         *)
(* behaviour of one of them, chosen at the start, so one run explores all  *)
(* of them side by side without multiplying them.                          *)
(***************************************************************************)
EXTENDS Integers, Sequences, FiniteSets

CONSTANTS
    VisitPlaces, NoPlace, SavedPlaces, Filters, PlaceTrips, NoTrip, VisitSteps,  \* of the visits page
    Bundles, NoFiles, Oversized, Records, NoRecord, Warned, Blocked,
    BatchSize, UploadSteps,                                               \* of the import by file
    Scales,                                                               \* of the job tracker
    Ranges, NoRange, From, To, Driven, Week, Month, MaxPoints,
    DrilldownLimit, ServerLimit, Ranked,
    Initially, More, InsightSteps                                         \* of the insights page

ASSUME VisitsAssumption == SavedPlaces \subseteq VisitPlaces
ASSUME UploadAssumption == DOMAIN Records = Bundles /\ NoFiles \notin Bundles
ASSUME ScalesAssumption == Scales \subseteq [jobs : Nat, stages : Nat, errors : Nat, loads : Nat]
ASSUME RangesAssumption ==                     \* a day is a number, of a finite record
    /\ NoRange \notin Ranges
    /\ From \in [Ranges -> Nat] /\ To \in [Ranges -> Nat] /\ \A r \in Ranges : From[r] <= To[r]
    /\ IsFiniteSet(DOMAIN Driven) /\ DOMAIN Driven \subseteq Nat /\ Driven \in [DOMAIN Driven -> Nat]
    /\ Week \in Nat \ {0} /\ Month \in Nat \ {0} /\ MaxPoints \in [{"daily", "weekly", "monthly"} -> Nat \ {0}]
    /\ DrilldownLimit \in Nat \ {0} /\ ServerLimit \in Nat \ {0}

VARIABLES page, ui

(* Values of this instance that a configuration cannot write.              *)
MCRecords == [a |-> {1, 2, 3}, b |-> {3, 4}]
MCScales ==
    {[jobs |-> 1, stages |-> 2, errors |-> 2, loads |-> 1], [jobs |-> 2, stages |-> 0, errors |-> 1, loads |-> 0]}
MCFrom == [a |-> 0, b |-> 2]
MCTo == [a |-> 8, b |-> 5]
MCDriven == [d \in 0..9 |-> d % 3]
MCMaxPoints == [daily |-> 3, weekly |-> 3, monthly |-> 2]
MCRanked == [a |-> [streets |-> {"x", "y"}, segments |-> {"s"}], b |-> [streets |-> {"x"}, segments |-> {}]]

Table == INSTANCE TripsList WITH
    Trips <- <<"t1", "t2", "t3">>, Looks <- {{"t1"}, {"t2", "t3"}}, Columns <- <<"c1", "c2">>, PageSize <- 2, MaxSteps <- 3
Trip == INSTANCE TripDetails WITH
    Trips <- {"t1", "t2"}, NoTrip <- "none", Routed <- {"t1"}, Traceless <- {"t2"}, Points <- 2, MaxSteps <- 4
Routes == INSTANCE RoutesPage WITH
    Routes <- {"r1", "r2"}, NoRoute <- "none", Looks <- {"all", "few"}, Pairs <- {"ab", "ac"}, MaxJobs <- 2, MaxSteps <- 3
Areas == INSTANCE CoverageAreas WITH
    Areas <- {"a1", "a2"}, NoArea <- "none", Queries <- {"q1", "q2"}, NoQuery <- "-", MaxJobs <- 2, MaxSteps <- 2
Matching == INSTANCE MapMatchingPage WITH Trips <- {"t1", "t2"}, Forms <- {"f1", "f2"}, MaxJobs <- 2, MaxSteps <- 3
Logs == INSTANCE ServerLogs WITH Filters <- {"f1", "f2"}, Containers <- {"a", "b"}, Pool <- 1, MaxSteps <- 2
Visits == INSTANCE VisitsPage WITH
    Places <- VisitPlaces, Saved <- SavedPlaces, Trips <- PlaceTrips, MaxSteps <- VisitSteps
Insights == INSTANCE InsightsPage WITH MaxSteps <- InsightSteps
Upload == INSTANCE TripUpload WITH MaxSteps <- UploadSteps
Wizard == INSTANCE ImportWizard WITH
    Dates <- {"d1", "d2"}, NoDate <- "-", Devices <- {"v"}, ErrTypes <- {"e", "f"}, NoType <- "-", MaxJobs <- 2, MaxSteps <- 3
Job == INSTANCE JobTracker
Sync == INSTANCE SyncStatus WITH MaxVisits <- 1, MaxMoves <- 1, MaxNet <- 1, MaxSteps <- 1
Gas == INSTANCE GasTracking WITH
    Vehicles <- {"v", "w"}, NoVehicle <- "-", Fillups <- {"f", "g"}, NoFillup <- "none", MaxSteps <- 3
Services == INSTANCE MapServices WITH MaxMoves <- 1, MaxNet <- 2, MaxSteps <- 2
Setup == INSTANCE SetupWizard WITH
    Worlds <- {[map |-> "none", bouncie |-> "nothing", mode |-> "trips"],
               [map |-> "detected", bouncie |-> "fleet_devices", mode |-> "trips"],
               [map |-> "detected", bouncie |-> "nothing", mode |-> "trips"]},
    MaxMoves <- 1, MaxFailures <- 1, MaxNet <- 2, MaxSteps <- 3
SetupBuild == INSTANCE SetupWizard WITH
    Worlds <- {[map |-> "building", bouncie |-> "nothing", mode |-> "states"],
               [map |-> "detected", bouncie |-> "nothing", mode |-> "trips"]},
    MaxMoves <- 1, MaxFailures <- 0, MaxNet <- 1, MaxSteps <- 4

WebInit ==
    \/ page = "trips" /\ Table!Init
    \/ page = "trip" /\ Trip!Init
    \/ page = "routes" /\ Routes!Init
    \/ page = "areas" /\ Areas!Init
    \/ page = "matching" /\ Matching!Init
    \/ page = "logs" /\ Logs!Init
    \/ page = "visits" /\ Visits!Init
    \/ page = "insights" /\ Insights!Init
    \/ page = "upload" /\ Upload!Init
    \/ page = "wizard" /\ Wizard!Init
    \/ page = "job" /\ Job!Init
    \/ page = "sync" /\ Sync!Init
    \/ page = "gas" /\ Gas!Init
    \/ page = "services" /\ Services!Init
    \/ page = "setup" /\ Setup!Init
    \/ page = "setup build" /\ SetupBuild!Init

WebNext ==
    /\ UNCHANGED page
    /\ \/ page = "trips" /\ Table!Next
       \/ page = "trip" /\ Trip!Next
       \/ page = "routes" /\ Routes!Next
       \/ page = "areas" /\ Areas!Next
       \/ page = "matching" /\ Matching!Next
       \/ page = "logs" /\ Logs!Next
       \/ page = "visits" /\ Visits!Next
       \/ page = "insights" /\ Insights!Next
       \/ page = "upload" /\ Upload!Next
       \/ page = "wizard" /\ Wizard!Next
       \/ page = "job" /\ Job!Next
       \/ page = "sync" /\ Sync!Next
       \/ page = "gas" /\ Gas!Next
       \/ page = "services" /\ Services!Next
       \/ page = "setup" /\ Setup!Next
       \/ page = "setup build" /\ SetupBuild!Next

WebSpec == WebInit /\ [][WebNext]_<<page, ui>>

-----------------------------------------------------------------------------
(* Every page's record of its state, its timers and its requests is well   *)
(* formed.                                                                 *)
WebTypeOK ==
    /\ page = "trips" => Table!TypeOK
    /\ page = "trip" => Trip!TypeOK
    /\ page = "routes" => Routes!TypeOK
    /\ page = "areas" => Areas!TypeOK
    /\ page = "matching" => Matching!TypeOK
    /\ page = "logs" => Logs!TypeOK
    /\ page = "visits" => Visits!TypeOK
    /\ page = "insights" => Insights!TypeOK
    /\ page = "upload" => Upload!TypeOK
    /\ page = "wizard" => Wizard!TypeOK
    /\ page = "job" => Job!TypeOK
    /\ page = "sync" => Sync!TypeOK
    /\ page = "gas" => Gas!TypeOK
    /\ page = "services" => Services!TypeOK
    /\ page = "setup" => Setup!TypeOK
    /\ page = "setup build" => SetupBuild!TypeOK

(* A table, a chart and the logs show the answer to the last question: the *)
(* page, sort, filter, range or containers asked for now, and a selection  *)
(* names only what is there, although answers to earlier questions, edits  *)
(* and deletions cross (trips/index.js, map-matching, insights, server     *)
(* logs, the explorer of the routes page).                                 *)
TablesAnswerLastQuestion ==
    /\ page = "trips" => Table!ScreenIsSearchedRows /\ Table!RowsAnswerLastRequest /\ Table!SelectionExists
    /\ page = "matching" => Matching!SelectionInTable
    /\ page = "insights" => Insights!ShowsLastRange /\ Insights!SelectionShown
    /\ page = "logs" => Logs!DockerLogsOfSelection
    /\ page = "routes" => Routes!ExplorerAnswersLast

(* A dialog is of one thing: what it shows, what its fields hold and what  *)
(* its buttons act on belong to the trip, route, place, area, boundary or  *)
(* import that was opened last (trips/index.js, routes/index.js,           *)
(* visits-controller.js, visits-manager.js, coverage-management,           *)
(* import wizard).                                                         *)
DialogsOfOneThing ==
    /\ page = "trip" => Trip!DialogShowsItsTrip
    /\ page = "routes" => Routes!DialogOfOneRoute
    /\ page = "visits" => Visits!DialogOfPlace /\ Visits!BoundaryOfPlace
    /\ page = "areas" => Areas!PanelOfFailedArea /\ Areas!BoundaryOfQuery
    /\ page = "wizard" => Wizard!SummaryOfItsImport /\ Wizard!PlanOfDate

(* A job shown as running is followed, by a stream, by polling or by a     *)
(* refresh that is due, so that its end will be seen, although streams     *)
(* break, polls fail and dialogs close and open (routes, map-matching,     *)
(* import wizard, global-job-tracker.js, trip-sync.js, map-services.js,    *)
(* setup wizard, coverage-management).                                     *)
JobsAreFollowed ==
    /\ page = "routes" => Routes!PollsActiveJob
    /\ page = "matching" => Matching!PollsItsJob
    /\ page = "wizard" => Wizard!RunningIsWatched
    /\ page = "job" => Job!ActiveIsFollowed
    /\ page = "sync" => Sync!StatusIsFollowed
    /\ page = "services" => Services!RunningIsPolled
    /\ page = "setup" => Setup!BuildIsFollowed /\ Setup!PhaseIsState
    /\ page = "setup build" => SetupBuild!BuildIsFollowed /\ SetupBuild!PhaseIsState
    /\ page = "areas" => Areas!RefreshScheduled

(* What is sent and saved is what the form shows at that moment, and what  *)
(* a form says of itself is what its fields say: the matching job, the     *)
(* fill-up and the source of its odometer, the import of the reviewed      *)
(* files, the settings, the sync button.                                   *)
SentAsShown ==
    /\ page = "matching" => Matching!SentAsShown
    /\ page = "gas" => Gas!SavedAsEntered /\ Gas!AdviceAgrees
    /\ page = "upload" => Upload!ImportOfItsReview
    /\ page = "areas" => Areas!SettingsAgree
    /\ page = "sync" => Sync!ButtonAgrees

(* What a page says is done is done on the server, and its lists, its map  *)
(* and its storage agree on it: the places, the imported trips, the active *)
(* job and its end (visits, trip-import, global-job-tracker.js).           *)
DoneIsDone ==
    /\ page = "visits" => Visits!PlacesAgree
    /\ page = "upload" => Upload!ImportedIsInHistory /\ Upload!RoutesAsTable
    /\ page = "job" => Job!ActiveIsStoredAndShown /\ Job!EndIsTrue

(* Timers, animations, spinners and request pools belong to something that *)
(* is on the screen, and nothing of a page goes on after it was left       *)
(* (trips/index.js, server logs, insights, visits, map-services.js).       *)
NothingOutlivesItsPage ==
    /\ page = "trip" => Trip!PlaybackOwned
    /\ page = "logs" => Logs!TimersOwned /\ Logs!SpinnerHasLoad /\ Logs!PoolBounded
    /\ page = "insights" => Insights!RefreshOwned
    /\ page = "visits" => Visits!NothingLeftOpen
    /\ page = "services" => Services!TabLeftIsQuiet
    /\ page = "setup" => Setup!WizardLeftIsQuiet
    /\ page = "setup build" => SetupBuild!WizardLeftIsQuiet

(* Days, weeks and months of a range count the same trips and the same     *)
(* active days, compressed into the points of the chart or not, and a      *)
(* point opens the trips it counts (charts.js, derived-insights.js).       *)
PeriodsAddUp == page = "insights" => Insights!PointOpensItsTrips /\ Insights!PeriodsAgree
=============================================================================
