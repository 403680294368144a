---------------------------- MODULE CoverageStats ----------------------------
(***************************************************************************)
(* Street coverage of one area: the CoverageState row of every segment and *)
(* the counters cached in its CoverageArea document (core/coverage.py,     *)
(* street_coverage/stats.py).                                              *)
(*                                                                         *)
(* Trips and backfills mark segments driven, the user marks them           *)
(* undriveable or undriven, and a refresh recomputes the counters. Each    *)
(* database command is one step; nothing spans the rows and the counters   *)
(* in one transaction, so every request interleaves with every other.      *)
(***************************************************************************)
EXTENDS Integers, FiniteSets, FiniteSetsExt

CONSTANTS
    Segments,   \* segment ids of the area's current version
    Length,     \* length_miles of each segment
    Trips,
    NoTrip,     \* driven_by_trip_id is null
    Drives,     \* what a driving request may mark: [segs, first, last, trip]
    Drivers,    \* requests that mark segments driven
    Editors,    \* requests that mark a segment undriveable or undriven
    Refreshes,  \* coroutines that run update_area_stats
    Crashes     \* whether a request may die between two steps

Times == Nat \ {0}
Rows  == [ status: {"undriven", "driven", "undriveable"},
           first: Nat, last: Nat, by: Trips \cup {NoTrip}, id: Nat ]

ASSUME LengthAssumption == Length \in [Segments -> Nat]
ASSUME TripAssumption == NoTrip \notin Trips
ASSUME DrivesAssumption ==
    Drives \subseteq { d \in [ segs: SUBSET Segments, first: Times, last: Times,
                               trip: Trips \cup {NoTrip} ] : d.first <= d.last }
ASSUME RequestsAssumption ==
    /\ Drivers \cap Editors = {}
    /\ IsFiniteSet(Segments) /\ IsFiniteSet(Drivers) /\ IsFiniteSet(Editors)
    /\ Crashes \in BOOLEAN

VARIABLES
    state,     \* the CoverageState row of each segment
    ids,       \* _id values handed out so far
    area,      \* the counters of the CoverageArea document
    pc,        \* where each request is
    drive,     \* what a driver marks
    todo,      \* its segments still to be updated
    dup,       \* its segments whose upsert met a DuplicateKeyError
    accepted,  \* its segments updated, trip id not yet written
    newly,     \* its newly_driven_ids
    edit,      \* an editor's segment and new status
    seen,      \* the row an editor has read
    calc       \* counters a refresh has computed, NoCalc otherwise

driverVars  == <<drive, todo, dup, accepted, newly>>
editorVars  == <<edit, seen>>
vars == <<state, ids, area, pc, driverVars, editorVars, calc>>

Requests == Drivers \cup Editors

(* No row means undriven.                                                  *)
NoRow == [status |-> "undriven", first |-> 0, last |-> 0, by |-> NoTrip, id |-> 0]

DrivenRow(id, d) ==
    [status |-> "driven", first |-> d.first, last |-> d.last, by |-> NoTrip, id |-> id]

UndriveableRow(id) ==
    [status |-> "undriveable", first |-> 0, last |-> 0, by |-> NoTrip, id |-> id]

NoEdit == [seg |-> NoTrip, status |-> "undriven"]
NoDrive == [segs |-> {}, first |-> 1, last |-> 1, trip |-> NoTrip]
NoCalc == [driven |-> -1, drivenMiles |-> -1, undriveable |-> -1, undriveableMiles |-> -1]

Miles(segs) == MapThenSumSet(LAMBDA s : Length[s], segs)
TotalMiles == Miles(Segments)

WithStatus(status) == {s \in Segments : state[s].status = status}

(* calculate_area_stats: the counters as the rows have them.               *)
Truth ==
    [ driven           |-> Cardinality(WithStatus("driven")),
      drivenMiles      |-> Miles(WithStatus("driven")),
      undriveable      |-> Cardinality(WithStatus("undriveable")),
      undriveableMiles |-> Miles(WithStatus("undriveable")) ]

Init ==
    /\ state    = [s \in Segments |-> NoRow]
    /\ ids      = 0
    /\ area     = [driven |-> 0, drivenMiles |-> 0, undriveable |-> 0, undriveableMiles |-> 0]
    /\ pc       = [c \in Requests |-> "idle"]
    /\ drive    = [c \in Drivers |-> NoDrive]
    /\ todo     = [c \in Drivers |-> {}]
    /\ dup      = [c \in Drivers |-> {}]
    /\ accepted = [c \in Drivers |-> {}]
    /\ newly    = [c \in Drivers |-> {}]
    /\ edit     = [c \in Editors |-> NoEdit]
    /\ seen     = [c \in Editors |-> NoRow]
    /\ calc     = [k \in Refreshes |-> NoCalc]

Goto(c, step) == pc' = [pc EXCEPT ![c] = step]

-----------------------------------------------------------------------------
(* apply_area_stats_delta: one update pipeline.                            *)

AtLeast0(n) == IF n < 0 THEN 0 ELSE n

(* Mutant: the increment is lost when it is the first one.                 *)
SetInsteadOfAdd(delta) ==
    area' = [ driven |-> AtLeast0(delta.driven),
              drivenMiles |-> AtLeast0(delta.drivenMiles),
              undriveable |-> AtLeast0(delta.undriveable),
              undriveableMiles |-> AtLeast0(delta.undriveableMiles) ]

(* The counters never go below zero, and the driven miles never above a    *)
(* positive driveable length.                                              *)
ApplyDelta(delta) ==
    LET undriveableMiles == AtLeast0(area.undriveableMiles + delta.undriveableMiles)
        driveable        == AtLeast0(TotalMiles - undriveableMiles)
        drivenMiles      == AtLeast0(area.drivenMiles + delta.drivenMiles)
    IN  area' = [ driven           |-> AtLeast0(area.driven + delta.driven),
                  drivenMiles      |-> IF driveable > 0 /\ drivenMiles > driveable
                                       THEN driveable ELSE drivenMiles,
                  undriveable      |-> AtLeast0(area.undriveable + delta.undriveable),
                  undriveableMiles |-> undriveableMiles ]

-----------------------------------------------------------------------------
(* update_coverage_for_segments, and backfill_coverage_for_area once it    *)
(* has matched its trips.                                                  *)

StartDrive(c) ==
    /\ pc[c] = "idle"
    /\ \E d \in Drives : /\ drive' = [drive EXCEPT ![c] = d]
                         /\ todo' = [todo EXCEPT ![c] = d.segs]
    /\ Goto(c, "states")
    /\ UNCHANGED <<state, ids, area, dup, accepted, newly, editorVars, calc>>

(* Mutant: the later writer's times win.                                   *)
Overwritten(row, d) == [row EXCEPT !.first = d.first, !.last = d.last]

(* _driven_state_update_pipeline on a driven row.                          *)
Merged(row, d) ==
    [row EXCEPT !.first = IF d.first < @ THEN d.first ELSE @,
                !.last  = IF d.last > @ THEN d.last ELSE @]

Accept(c, s, row) ==
    /\ state' = [state EXCEPT ![s] = row]
    /\ accepted' = [accepted EXCEPT ![c] = @ \cup {s}]

(* find_one_and_update with upsert, filtered on "not undriveable": the     *)
(* caller learns from the BEFORE document whether the segment is new.      *)
UpdateState(c, s) ==
    /\ pc[c] = "states"
    /\ s \in todo[c]
    /\ todo' = [todo EXCEPT ![c] = @ \ {s}]
    /\ \/ /\ state[s].status = "undriven"
          /\ Accept(c, s, DrivenRow(ids + 1, drive[c]))
          /\ ids' = ids + 1
          /\ newly' = [newly EXCEPT ![c] = @ \cup {s}]
          /\ UNCHANGED dup
       \/ /\ state[s].status = "driven"
          /\ Accept(c, s, Merged(state[s], drive[c]))
          /\ UNCHANGED <<ids, newly, dup>>
       \/ /\ state[s].status # "undriven"
          /\ dup' = [dup EXCEPT ![c] = @ \cup {s}]
          /\ UNCHANGED <<state, ids, accepted, newly>>
    /\ UNCHANGED <<area, pc, drive, editorVars, calc>>

(* Mutant: the retry forgets its status filter.                            *)
RetryAnyRow(c, s) ==
    /\ pc[c] = "states"
    /\ s \in dup[c]
    /\ dup' = [dup EXCEPT ![c] = @ \ {s}]
    /\ Accept(c, s, [Merged(state[s], drive[c]) EXCEPT !.status = "driven"])
    /\ UNCHANGED <<ids, area, pc, drive, todo, newly, editorVars, calc>>

(* Mutant: a segment accepted by the retry counts as newly driven.         *)
RetryCountsAgain(c, s) ==
    /\ pc[c] = "states"
    /\ s \in dup[c]
    /\ dup' = [dup EXCEPT ![c] = @ \ {s}]
    /\ IF state[s].status = "driven"
       THEN /\ Accept(c, s, Merged(state[s], drive[c]))
            /\ newly' = [newly EXCEPT ![c] = @ \cup {s}]
       ELSE UNCHANGED <<state, accepted, newly>>
    /\ UNCHANGED <<ids, area, pc, drive, todo, editorVars, calc>>

(* After a DuplicateKeyError only a driven row is updated; any other row,  *)
(* or none, makes the caller drop the segment.                             *)
RetryState(c, s) ==
    /\ pc[c] = "states"
    /\ s \in dup[c]
    /\ dup' = [dup EXCEPT ![c] = @ \ {s}]
    /\ IF state[s].status = "driven"
       THEN Accept(c, s, Merged(state[s], drive[c]))
       ELSE UNCHANGED <<state, accepted>>
    /\ UNCHANGED <<ids, area, pc, drive, todo, newly, editorVars, calc>>

StatesDone(c) == pc[c] = "states" /\ todo[c] = {} /\ dup[c] = {}

(* The trip id is written only where this drive is still the last one.     *)
Attribute(c, s) ==
    /\ StatesDone(c)
    /\ drive[c].trip # NoTrip
    /\ s \in accepted[c]
    /\ accepted' = [accepted EXCEPT ![c] = @ \ {s}]
    /\ state' = IF state[s].status = "driven" /\ state[s].last = drive[c].last
                THEN [state EXCEPT ![s].by = drive[c].trip] ELSE state
    /\ UNCHANGED <<ids, area, pc, drive, todo, dup, newly, editorVars, calc>>

(* Only newly driven segments change the cached counters.                  *)
ApplyDrive(c) ==
    /\ StatesDone(c)
    /\ drive[c].trip = NoTrip \/ accepted[c] = {}
    /\ IF newly[c] = {}
       THEN UNCHANGED area
       ELSE ApplyDelta([ driven |-> Cardinality(newly[c]), drivenMiles |-> Miles(newly[c]),
                         undriveable |-> 0, undriveableMiles |-> 0 ])
    /\ newly' = [newly EXCEPT ![c] = {}]
    /\ Goto(c, "done")
    /\ UNCHANGED <<state, ids, drive, todo, dup, accepted, editorVars, calc>>

-----------------------------------------------------------------------------
(* mark_segment_undriveable and mark_segment_undriven.                     *)

(* Read the row; resetting a segment without one is already done.          *)
ReadForEdit(c) ==
    /\ pc[c] = "idle"
    /\ \E s \in Segments, status \in {"undriveable", "undriven"} :
          /\ edit' = [edit EXCEPT ![c] = [seg |-> s, status |-> status]]
          /\ seen' = [seen EXCEPT ![c] = state[s]]
          /\ Goto(c, IF status = "undriven" /\ state[s] = NoRow THEN "done" ELSE "write")
    /\ UNCHANGED <<state, ids, area, driverVars, calc>>

(* Without a row: insert, which fails if one has appeared. With a row:     *)
(* save() replaces the document of that _id, inserts it again if it has    *)
(* been deleted, and fails if the segment has a new row by now.            *)
WriteUndriveable(c) ==
    LET s == edit[c].seg IN
    /\ pc[c] = "write"
    /\ edit[c].status = "undriveable"
    /\ IF state[s] # NoRow /\ state[s].id # seen[c].id
       THEN Goto(c, "done") /\ UNCHANGED <<state, ids>>
       ELSE /\ state' = [state EXCEPT ![s] =
                            UndriveableRow(IF seen[c] = NoRow THEN ids + 1 ELSE seen[c].id)]
            /\ ids' = IF seen[c] = NoRow THEN ids + 1 ELSE ids
            /\ Goto(c, IF seen[c].status = "undriveable" THEN "done" ELSE "delta")
    /\ UNCHANGED <<area, driverVars, editorVars, calc>>

(* Mutant: the row is reset instead of deleted.                            *)
ResetRow(c) ==
    LET s == edit[c].seg IN
    /\ pc[c] = "write"
    /\ edit[c].status = "undriven"
    /\ state' = [state EXCEPT ![s].status = "undriven"]
    /\ Goto(c, "delta")
    /\ UNCHANGED <<ids, area, driverVars, editorVars, calc>>

(* delete() of the document read, which may be gone already.               *)
DeleteRow(c) ==
    LET s == edit[c].seg IN
    /\ pc[c] = "write"
    /\ edit[c].status = "undriven"
    /\ state' = IF state[s].id = seen[c].id THEN [state EXCEPT ![s] = NoRow] ELSE state
    /\ Goto(c, "delta")
    /\ UNCHANGED <<ids, area, driverVars, editorVars, calc>>

(* The deltas follow from the status that was read, not the one replaced.  *)
ApplyEdit(c) ==
    LET len   == Length[edit[c].seg]
        wasDriven      == IF seen[c].status = "driven" THEN 1 ELSE 0
        wasUndriveable == IF seen[c].status = "undriveable" THEN 1 ELSE 0
        isUndriveable  == IF edit[c].status = "undriveable" THEN 1 ELSE 0
    IN  /\ pc[c] = "delta"
        /\ ApplyDelta([ driven           |-> - wasDriven,
                        drivenMiles      |-> - (wasDriven * len),
                        undriveable      |-> isUndriveable - wasUndriveable,
                        undriveableMiles |-> (isUndriveable - wasUndriveable) * len ])
        /\ Goto(c, "done")
        /\ UNCHANGED <<state, ids, driverVars, editorVars, calc>>

-----------------------------------------------------------------------------
(* update_area_stats: aggregate, then save the whole document.             *)

(* Mutant: undriveable segments are taken for undriven.                    *)
ComputeDrivenOnly(k) ==
    /\ calc[k] = NoCalc
    /\ calc' = [calc EXCEPT ![k] = [Truth EXCEPT !.undriveable = 0, !.undriveableMiles = 0]]
    /\ UNCHANGED <<state, ids, area, pc, driverVars, editorVars>>

ComputeStats(k) ==
    /\ calc[k] = NoCalc
    /\ calc' = [calc EXCEPT ![k] = Truth]
    /\ UNCHANGED <<state, ids, area, pc, driverVars, editorVars>>

SaveStats(k) ==
    /\ calc[k] # NoCalc
    /\ area' = calc[k]
    /\ calc' = [calc EXCEPT ![k] = NoCalc]
    /\ UNCHANGED <<state, ids, pc, driverVars, editorVars>>

(* The request's coroutine dies: what it has written stays.                *)
RequestDies(c) ==
    /\ Crashes
    /\ pc[c] \notin {"idle", "done", "dead"}
    /\ Goto(c, "dead")
    /\ UNCHANGED <<state, ids, area, driverVars, editorVars, calc>>

DriverStep(c) ==
    \/ StartDrive(c)
    \/ \E s \in Segments : UpdateState(c, s) \/ RetryState(c, s) \/ Attribute(c, s)
    \/ ApplyDrive(c)

EditorStep(c) == ReadForEdit(c) \/ WriteUndriveable(c) \/ DeleteRow(c) \/ ApplyEdit(c)

Next ==
    \/ \E c \in Drivers : DriverStep(c)
    \/ \E c \in Editors : EditorStep(c)
    \/ \E k \in Refreshes : ComputeStats(k) \/ SaveStats(k)
    \/ \E c \in Requests : RequestDies(c)

Spec == Init /\ [][Next]_vars

(* Requests run to their end and the scheduled refresh keeps coming.       *)
Fairness ==
    /\ \A c \in Drivers : WF_vars(DriverStep(c))
    /\ \A c \in Editors : WF_vars(EditorStep(c))
    /\ \A k \in Refreshes : WF_vars(ComputeStats(k) \/ SaveStats(k))

FairSpec == Spec /\ Fairness
-----------------------------------------------------------------------------
TypeOK ==
    /\ state \in [Segments -> Rows]
    /\ ids \in Nat
    /\ area \in [driven: Nat, drivenMiles: Nat, undriveable: Nat, undriveableMiles: Nat]
    /\ pc \in [Requests -> {"idle", "states", "write", "delta", "done", "dead"}]
    /\ drive \in [Drivers -> Drives \cup {NoDrive}]
    /\ todo \in [Drivers -> SUBSET Segments]
    /\ dup \in [Drivers -> SUBSET Segments]
    /\ accepted \in [Drivers -> SUBSET Segments]
    /\ newly \in [Drivers -> SUBSET Segments]
    /\ seen \in [Editors -> Rows]
    /\ \A s \in Segments : /\ state[s].status = "undriven" <=> state[s] = NoRow
                           /\ state[s].id <= ids

(* Every request that was started has run to its end.                      *)
Quiet == /\ \A c \in Requests : pc[c] \in {"idle", "done"}
         /\ \A k \in Refreshes : calc[k] = NoCalc

(* "Uses atomic per-segment transitions so concurrent callers can identify *)
(* the exact newly driven set" (update_coverage_for_segments) and "keeps   *)
(* concurrent callers from losing increments" (apply_area_stats_delta):    *)
(* when all requests have ended the cached counters are those of the rows. *)
CountersExact == Quiet => area = Truth

(* Segments a request has found to be newly driven and not counted yet.    *)
Claimed == UNION {newly[c] : c \in Drivers}

(* "the exact newly driven set" at every moment, not only when all is      *)
(* quiet: as long as segments are only driven, no two requests claim the   *)
(* same segment, and the cached count is that of the driven segments less  *)
(* those whose request has not got to counting them or has died before.    *)
EachSegmentCountedOnce ==
    /\ \A c, d \in Drivers : c # d => newly[c] \cap newly[d] = {}
    /\ Claimed \subseteq WithStatus("driven")
    /\ area.driven = Cardinality(WithStatus("driven") \ Claimed)

(* The drives that ran to their end and marked segment s.                  *)
Done(s) == {drive[c] : c \in {c \in Drivers : pc[c] = "done" /\ s \in drive[c].segs}}

(* The order in which trips and backfills arrive does not matter: when all *)
(* are done a segment shows the earliest and the latest of their times,    *)
(* and the trip it is attributed to is one that drove it at that latest    *)
(* time (_driven_state_update_pipeline and the trip update after it).      *)
LatestDriveWins ==
    Quiet => \A s \in Segments :
        LET row == state[s] IN
        Done(s) # {} =>
            /\ row.first = Min({d.first : d \in Done(s)})
            /\ row.last  = Max({d.last : d \in Done(s)})
            /\ \E d \in Done(s) : d.trip = row.by /\ d.last = row.last

(* "an undriveable state stays untouched" (_update_driven_states_atomic):  *)
(* no trip, and no duplicate-key race between a trip and the user's edits, *)
(* turns an undriveable segment into a driven one.                         *)
UndriveableStays ==
    [][ \A s \in Segments :
          state[s].status = "undriveable" => state'[s].status # "driven" ]_vars

(* "Fixing any inconsistencies" (_update_coverage_for_new_trips_logic):    *)
(* whatever drift overlapping or dying requests leave behind, once they    *)
(* stop the refresh makes the counters exact, and they stay so.            *)
EventuallyExact == <>[](area = Truth)
=============================================================================
