CONSTANTS
    Times = {1, 2, 3}
    Positions = {0, 1}
    Speeds <- MCSpeeds
    MaxBatch = 2
    Hour = 2
    Summary <- MCSummary
    Pages = {"map", "trips"}
    Home = "map"
    MapPages = {"map"}
    Filters = {"f1"}
    NoFilter = "none"
    MaxEntries = 3
    ShellSteps = 3
    Faults = {"cdn", "module"}
    Layers = {"trips", "matched"}
    Sources = {"s1"}
    Features = {"f1"}
    Paints = {"p1", "p2"}
    Zooms = {1, 2}
    Popups = {"p", "q"}
    NoPopup = "-"
    ProxySteps = 4
    Styles = {"s", "t"}
    LayerSteps = 4
    Trips = {"t1", "t2"}
    NoTrip = "-"
    Bundles = {{"t1"}, {"t1", "t2"}}
    NoBundle = {}
    Big = {{"t1", "t2"}}
    Reasons = {"flow"}
    RenderSteps = 2
    Areas = {"A", "B"}
    NoArea = "-"
    Modes = {"all"}
    NoMode = "none"
    StreetModes = {"undriven", "all"}
    Dates = {1, 2}
    Clipping = TRUE
    DataSteps = 2
    MaxData = 2
    SceneSteps = 4
    MaxSync = 1
    ViewSteps = 3
    Ranges = {"all", "90d"}
    Feeds = {"any", "trip"}
    NoRange = "none"
    ChartDays = 2
    JournalSteps = 3
    Streets = {1, 2}
    MaxTasks = 1
    MaxPersistRetries = 2
    DriveSteps = 2
    MaxFailures = 1
    RouteSteps = 2
    PlanSteps = 3
SPECIFICATION WebSpec
INVARIANTS WebTypeOK IncrementalIsFull RouteOrdered SummaryOnOneBasis PageMatchesUrl MapShowsState  DrivenIsSaved WaitingIsOwned OneAndOwned
CHECK_DEADLOCK FALSE
