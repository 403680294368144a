CONSTANTS
    s1 = s1
    s2 = s2
    t1 = t1
    t2 = t2
    Segments = {s1, s2}
    Length <- MCLength
    Trips = {t1, t2}
    NoTrip = NoTrip
    Drives <- TripDrives
    Drivers = {d1, d2, d3}
    Editors = {}
    Refreshes = {}
    Crashes = TRUE
SPECIFICATION Spec
SYMMETRY Symmetry
INVARIANTS CountersExact LatestDriveWins EachSegmentCountedOnce
CHECK_DEADLOCK FALSE
