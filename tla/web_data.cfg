SPECIFICATION WebSpec
INVARIANTS WebTypeOK   JobsAreFollowed SentAsShown DoneIsDone NothingOutlivesItsPage PeriodsAddUp
CHECK_DEADLOCK FALSE
CONSTANTS
    VisitPlaces = {"p1", "p2"}
    NoPlace = "-"
    SavedPlaces = {"p1"}
    Filters = {"f1", "f2"}
    PlaceTrips = {"t1", "t2"}
    NoTrip = "-"
    VisitSteps = 2
    Bundles = {"a", "b"}
    NoFiles = "-"
    Oversized = {}
    Records <- MCRecords
    NoRecord = 0
    Warned = {2}
    Blocked = {4}
    BatchSize = 1
    UploadSteps = 5
    Scales <- MCScales
    Ranges = {"a", "b"}
    NoRange = "-"
    From <- MCFrom
    To <- MCTo
    Driven <- MCDriven
    Week = 2
    Month = 4
    MaxPoints <- MCMaxPoints
    DrilldownLimit = 2
    ServerLimit = 5
    Ranked <- MCRanked
    Initially = 1
    More = 1
    InsightSteps = 2
