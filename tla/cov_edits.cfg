CONSTANTS
    s1 = s1
    s2 = s2
    t1 = t1
    t2 = t2
    Segments = {s1, s2}
    Length <- MCLength
    Trips = {t1, t2}
    NoTrip = NoTrip
    Drives <- DriveOrMark
    Drivers = {d1}
    Editors = {e1, e2}
    Refreshes = {k1}
    Crashes = TRUE
SPECIFICATION FairSpec
INVARIANT TypeOK
PROPERTIES UndriveableStays EventuallyExact
CHECK_DEADLOCK FALSE
