------------------------- MODULE MCCoverageStats -------------------------
EXTENDS CoverageStats, TLC

CONSTANTS s1, s2, t1, t2

MCLength == s1 :> 2 @@ s2 :> 3

(* Two trips that share s1, and a backfill over both.                      *)
TripDrives ==
    { [segs |-> {s1}, first |-> 2, last |-> 2, trip |-> t1],
      [segs |-> {s1, s2}, first |-> 3, last |-> 3, trip |-> t2],
      [segs |-> {s1, s2}, first |-> 1, last |-> 3, trip |-> t2] }

OneDrive == { [segs |-> {s1}, first |-> 1, last |-> 1, trip |-> t1] }

(* The user's own mark-driven request has no trip.                         *)
DriveOrMark == OneDrive \cup { [segs |-> {s1}, first |-> 4, last |-> 4, trip |-> NoTrip] }

Symmetry == Permutations(Drivers) \cup Permutations(Editors) \cup Permutations(Refreshes)
=============================================================================
