----------------------------- MODULE LiveMetrics -----------------------------
(***************************************************************************)
(* What process_trip_start, process_trip_data and process_trip_metrics     *)
(* (tracking/services/tracking_service.py) make of the points and metrics  *)
(* of one live trip. Bouncie repeats points across its real-time and       *)
(* periodic streams and does not order its events, so a batch may append   *)
(* to the route, overlap it or come late; the handler either extends the   *)
(* stored metrics or computes them anew.                                   *)
(*                                                                         *)
(* Events are handled one at a time here; how handlers overlap is the      *)
(* subject of LiveTrip. Points lie on a line. The average speed is a       *)
(* quotient of two of the fields and left out.                             *)
(***************************************************************************)
EXTENDS Integers, Sequences, FiniteSets, FiniteSetsExt

CONSTANTS
    Times,      \* timestamps of events and points
    Positions,  \* where a point can be
    Speeds,     \* reported speeds; a negative one stands for none or an invalid one
    MaxBatch,   \* points in one tripData event
    Hour,       \* factor that makes every segment speed an integer
    Summary     \* the provider's metrics in the tripMetrics event of a time

ASSUME TimesAssumption == Times \subseteq Nat \ {0}
ASSUME PointAssumption == Positions \subseteq Int /\ Speeds \subseteq Int
ASSUME BoundsAssumption == MaxBatch \in Nat \ {0} /\ Hour \in Nat \ {0}
ASSUME SummaryAssumption == Summary \in [Times -> [distance: Nat, max: Nat, duration: Nat]]

VARIABLES
    known,     \* the trip has a snapshot
    coords,    \* coordinates
    start,     \* startTime
    last,      \* lastUpdate
    source,    \* metricsSource
    provided,  \* providerMetricsTimestamp, 0 when there is none
    metrics    \* distance, maxSpeed, currentSpeed, duration and pointsRecorded

vars == <<known, coords, start, last, source, provided, metrics>>

Points  == [ts: Times, pos: Positions, speed: Speeds]
Batches == UNION {[1..n -> Points] : n \in 1..MaxBatch}
NoMetrics == [distance |-> 0, max |-> 0, current |-> 0, duration |-> 0, points |-> 0]

TypeOK ==
    /\ known \in BOOLEAN
    /\ coords \in Seq(Points)
    /\ start \in Times \cup {0} /\ last \in Times \cup {0} /\ provided \in Times \cup {0}
    /\ source \in {"gps", "provider"}
    /\ metrics \in [distance: Nat, max: Nat, current: Nat, duration: Int, points: Nat]

Init ==
    /\ known = FALSE
    /\ coords = <<>>
    /\ start = 0 /\ last = 0 /\ provided = 0
    /\ source = "gps"
    /\ metrics = NoMetrics

Earlier(s, t) == IF s < t THEN s ELSE t
Later(s, t)   == IF s > t THEN s ELSE t

-----------------------------------------------------------------------------
(* Merging.                                                                *)

(* _deduplicate_coordinates: one point per timestamp, the last given one,  *)
(* in the order of time.                                                   *)
Newest(s, t) == s[Max({i \in DOMAIN s : s[i].ts = t})]
Deduplicate(s) ==
    LET kept == {Newest(s, s[i].ts) : i \in DOMAIN s}
    IN  CHOOSE r \in [1..Cardinality(kept) -> kept] :
            \A i, j \in DOMAIN r : i < j => r[i].ts < r[j].ts

(* Mutant: only the first new point is compared with the route.            *)
FirstPointFollows(old, new) == new[1].ts > old[Len(old)].ts

(* The new points continue the route, each later than the one before.      *)
Continues(old, new) ==
    LET s == old \o new IN \A i \in Len(old) + 1 .. Len(s) : s[i].ts > s[i - 1].ts

AppendOnly(old, new) == old # <<>> /\ Continues(old, new)

(* _merge_trip_coordinates.                                                *)
Merge(old, new) == IF AppendOnly(old, new) THEN old \o new ELSE Deduplicate(old \o new)

-----------------------------------------------------------------------------
(* Metrics.                                                                *)

Distance(c, i) == IF c[i].pos > c[i - 1].pos THEN c[i].pos - c[i - 1].pos
                                             ELSE c[i - 1].pos - c[i].pos

(* _segment_speed_mph, of the segment that ends in point i.                *)
SegmentSpeed(c, i) ==
    IF c[i].ts > c[i - 1].ts THEN (Distance(c, i) * Hour) \div (c[i].ts - c[i - 1].ts) ELSE 0

Travelled(c, first) == MapThenSumSet(LAMBDA i : Distance(c, i), first..Len(c))

(* Mutant: the maximum does not begin at zero.                             *)
TopSpeedUnfloored(c, first) ==
    Max({c[i].speed : i \in first..Len(c)}
            \cup {SegmentSpeed(c, i) : i \in Later(first, 2)..Len(c)})

(* The highest speed reported at, or reached before, one of these points.  *)
TopSpeed(c, first) ==
    Max({0} \cup {c[i].speed : i \in first..Len(c)}
            \cup {SegmentSpeed(c, i) : i \in Later(first, 2)..Len(c)})

CurrentSpeed(c) ==
    LET n == Len(c) IN
    IF c[n].speed >= 0 THEN c[n].speed ELSE IF n > 1 THEN SegmentSpeed(c, n) ELSE 0

(* The fields both computations derive in the same way, for a trip that    *)
(* began at s.                                                             *)
MetricsOf(c, s, distance, top) ==
    [ distance |-> distance, max |-> top, current |-> CurrentSpeed(c),
      duration |-> c[Len(c)].ts - s, points |-> Len(c) ]

(* _calculate_trip_metrics.                                                *)
FullMetrics(c, s) == MetricsOf(c, s, Travelled(c, 2), TopSpeed(c, 1))

(* Mutant: the segment that joins the new points to the route is left out. *)
ExtendWithoutJoin(c, s, prior) ==
    MetricsOf(c, s, metrics.distance + Travelled(c, prior + 2),
              Later(metrics.max, TopSpeed(c, prior + 1)))

(* _calculate_trip_metrics_incremental: extend the stored metrics by the   *)
(* points after the first `prior` if they cover exactly those.             *)
IncrementalMetrics(c, s, prior) ==
    IF prior <= 0 \/ metrics.points # prior
    THEN FullMetrics(c, s)
    ELSE MetricsOf(c, s, metrics.distance + Travelled(c, prior + 1),
                   Later(metrics.max, TopSpeed(c, prior + 1)))

-----------------------------------------------------------------------------
(* process_trip_start.                                                     *)
TripStart(t) ==
    /\ known' = TRUE
    /\ start' = IF known THEN Earlier(start, t) ELSE t
    /\ last' = IF known THEN Later(last, t) ELSE t
    /\ UNCHANGED <<coords, source, provided, metrics>>

(* Mutant: points overwrite the provider's summary.                        *)
AlwaysFromPoints(m, c) == metrics' = m /\ last' = c[Len(c)].ts

(* Metrics computed from the points c replace the stored ones unless these *)
(* are the provider's, of which only the speed and the count are renewed.  *)
TakeMetrics(m, c) ==
    IF source = "gps"
    THEN metrics' = m /\ last' = c[Len(c)].ts
    ELSE /\ metrics' = [metrics EXCEPT !.current = m.current, !.points = m.points]
         /\ last' = Later(last, c[Len(c)].ts)

(* process_trip_data; a trip first heard of here starts with its first     *)
(* point.                                                                  *)
TripData(new) ==
    LET c == Merge(coords, new) IN
    /\ known' = TRUE
    /\ start' = IF known THEN start ELSE new[1].ts
    /\ coords' = c
    /\ TakeMetrics(IF AppendOnly(coords, new) /\ source = "gps"
                   THEN IncrementalMetrics(c, start', Len(coords))
                   ELSE FullMetrics(c, start'), c)
    /\ UNCHANGED <<source, provided>>

(* process_trip_metrics: a complete, newer summary of a known trip.        *)
TripMetrics(t) ==
    /\ known
    /\ t > provided
    /\ metrics' = [metrics EXCEPT !.distance = Summary[t].distance, !.max = Summary[t].max,
                                  !.duration = Summary[t].duration]
    /\ provided' = t
    /\ source' = "provider"
    /\ last' = Later(last, t)
    /\ UNCHANGED <<known, coords, start>>

Next ==
    \/ \E t \in Times : TripStart(t) \/ TripMetrics(t)
    \/ \E b \in Batches : TripData(b)

Spec == Init /\ [][Next]_vars
-----------------------------------------------------------------------------

(* However batches append to, overlap or precede the route, the distance   *)
(* and speeds shown are those of the whole route computed in one go        *)
(* (_calculate_trip_metrics_incremental against _calculate_trip_metrics).  *)
IncrementalIsFull ==
    source = "gps" /\ coords # <<>> =>
        /\ metrics.distance = Travelled(coords, 2)
        /\ metrics.max      = TopSpeed(coords, 1)
        /\ metrics.current  = CurrentSpeed(coords)
        /\ metrics.points   = Len(coords)

(* The route is in the order of time and has one point per timestamp,      *)
(* which the append-only shortcut of _merge_trip_coordinates relies on.    *)
RouteOrdered == \A i \in 2..Len(coords) : coords[i - 1].ts < coords[i].ts

(* "Keep that summary on one basis instead of replacing any field with GPS *)
(* values" (process_trip_data): once the provider has sent a summary,      *)
(* distance, speed and duration are all those of its newest one.           *)
SummaryOnOneBasis ==
    source = "provider" =>
        [distance |-> metrics.distance, max |-> metrics.max, duration |-> metrics.duration]
            = Summary[provided]
=============================================================================
