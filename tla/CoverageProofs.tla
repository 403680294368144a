--------------------------- MODULE CoverageProofs ---------------------------
(***************************************************************************)
(* For any set of segments, trips and requests: an undriveable segment is  *)
(* never driven again behind the user's back, and requests that only mark  *)
(* segments driven count every one of them exactly once.                   *)
(***************************************************************************)
EXTENDS CoverageStats, FiniteSums

(* The rows and what requests remember of them.                            *)
RowTypes ==
    /\ state \in [Segments -> Rows]
    /\ ids \in Nat
    /\ drive \in [Drivers -> Drives \cup {NoDrive}]
    /\ seen \in [Editors -> Rows]

LEMMA DriveFacts ==
    ASSUME RowTypes, NEW c \in Drivers
    PROVE  drive[c].first \in Nat /\ drive[c].last \in Nat /\ drive[c].trip \in Trips \cup {NoTrip}
<1>1. CASE drive[c] \in Drives
  BY <1>1, DrivesAssumption DEF Times
<1>2. CASE drive[c] = NoDrive
  BY <1>2 DEF NoDrive
<1>3. QED
  BY <1>1, <1>2 DEF RowTypes

LEMMA RowFacts ==
    ASSUME RowTypes
    PROVE  /\ NoRow \in Rows
           /\ \A i \in Nat : UndriveableRow(i) \in Rows
           /\ \A i \in Nat, c \in Drivers : DrivenRow(i, drive[c]) \in Rows
           /\ \A r \in Rows, c \in Drivers :
                 Merged(r, drive[c]) \in Rows /\ Merged(r, drive[c]).status = r.status
<1>1. NoRow \in Rows /\ \A i \in Nat : UndriveableRow(i) \in Rows
  BY DEF NoRow, UndriveableRow, Rows
<1>2. \A i \in Nat, c \in Drivers : DrivenRow(i, drive[c]) \in Rows
  BY DriveFacts DEF DrivenRow, Rows
<1>3. \A r \in Rows, c \in Drivers :
         Merged(r, drive[c]) \in Rows /\ Merged(r, drive[c]).status = r.status
  BY DriveFacts DEF Merged, Rows
<1>4. QED
  BY <1>1, <1>2, <1>3

LEMMA RowIds ==
    ASSUME RowTypes
    PROVE  /\ \A r \in Rows, c \in Drivers : Merged(r, drive[c]).id = r.id
           /\ \A r \in Rows, c \in Drivers :
                 LET a == [r EXCEPT !.by = drive[c].trip]
                 IN  a \in Rows /\ a.status = r.status /\ a.id = r.id
<1>1. \A r \in Rows, c \in Drivers : Merged(r, drive[c]).id = r.id
  BY DriveFacts DEF Merged, Rows
<1>2. \A r \in Rows, c \in Drivers :
         LET a == [r EXCEPT !.by = drive[c].trip]
         IN  a \in Rows /\ a.status = r.status /\ a.id = r.id
  BY DriveFacts DEF Rows
<1>3. QED
  BY <1>1, <1>2

(* What a step of a driving request does to the rows.                      *)
LEMMA DriverRows ==
    ASSUME RowTypes, NEW c \in Drivers, DriverStep(c)
    PROVE  /\ RowTypes'
           /\ \A s \in Segments : state'[s] = state[s] \/ state'[s].status = "driven"
           /\ \A s \in Segments : state[s].status = "undriveable" => state'[s] = state[s]
<1>1. CASE StartDrive(c)
  BY <1>1 DEF StartDrive, RowTypes, editorVars
<1>2. ASSUME NEW s \in Segments, UpdateState(c, s) PROVE
           /\ RowTypes'
           /\ \A u \in Segments : state'[u] = state[u] \/ state'[u].status = "driven"
           /\ \A u \in Segments : state[u].status = "undriveable" => state'[u] = state[u]
  <2>1. DrivenRow(ids + 1, drive[c]) \in Rows /\ DrivenRow(ids + 1, drive[c]).status = "driven"
    <3>1. ids + 1 \in Nat
      BY DEF RowTypes
    <3> QED BY <3>1, RowFacts DEF DrivenRow
  <2>2. /\ Merged(state[s], drive[c]) \in Rows
        /\ Merged(state[s], drive[c]).status = state[s].status
    BY RowFacts DEF RowTypes
  <2>3. UNCHANGED <<drive, seen>> /\ ids' \in Nat
    BY <1>2 DEF UpdateState, RowTypes, editorVars
  <2>4. \/ state' = state
        \/ /\ state[s].status = "undriven"
           /\ state' = [state EXCEPT ![s] = DrivenRow(ids + 1, drive[c])]
        \/ /\ state[s].status = "driven"
           /\ state' = [state EXCEPT ![s] = Merged(state[s], drive[c])]
    BY <1>2 DEF UpdateState, Accept
  <2> QED BY <2>1, <2>2, <2>3, <2>4 DEF RowTypes
<1>3. ASSUME NEW s \in Segments, RetryState(c, s) PROVE
           /\ RowTypes'
           /\ \A u \in Segments : state'[u] = state[u] \/ state'[u].status = "driven"
           /\ \A u \in Segments : state[u].status = "undriveable" => state'[u] = state[u]
  <2>1. /\ Merged(state[s], drive[c]) \in Rows
        /\ Merged(state[s], drive[c]).status = state[s].status
    BY RowFacts DEF RowTypes
  <2>2. UNCHANGED <<drive, seen, ids>>
    BY <1>3 DEF RetryState, editorVars
  <2>3. \/ state' = state
        \/ /\ state[s].status = "driven"
           /\ state' = [state EXCEPT ![s] = Merged(state[s], drive[c])]
    BY <1>3 DEF RetryState, Accept
  <2> QED BY <2>1, <2>2, <2>3 DEF RowTypes
<1>4. ASSUME NEW s \in Segments, Attribute(c, s) PROVE
           /\ RowTypes'
           /\ \A u \in Segments : state'[u] = state[u] \/ state'[u].status = "driven"
           /\ \A u \in Segments : state[u].status = "undriveable" => state'[u] = state[u]
  <2>1. UNCHANGED <<drive, seen, ids>>
    BY <1>4 DEF Attribute, editorVars
  <2>2. \/ state' = state
        \/ /\ state[s].status = "driven"
           /\ state' = [state EXCEPT ![s].by = drive[c].trip]
    BY <1>4 DEF Attribute
  <2>3. [state[s] EXCEPT !.by = drive[c].trip] \in Rows
    BY DriveFacts DEF RowTypes, Rows
  <2>4. [state[s] EXCEPT !.by = drive[c].trip].status = state[s].status
    BY DEF RowTypes, Rows
  <2> QED BY <2>1, <2>2, <2>3, <2>4 DEF RowTypes
<1>5. CASE ApplyDrive(c)
  BY <1>5 DEF ApplyDrive, RowTypes, editorVars
<1>6. QED
  BY <1>1, <1>2, <1>3, <1>4, <1>5 DEF DriverStep

(* A user's edit leaves a segment undriven or undriveable.                 *)
LEMMA EditorRows ==
    ASSUME RowTypes, NEW c \in Editors, EditorStep(c)
    PROVE  /\ RowTypes'
           /\ \A s \in Segments : state'[s] = state[s] \/ state'[s].status # "driven"
<1>1. CASE ReadForEdit(c)
  BY <1>1 DEF ReadForEdit, RowTypes, driverVars
<1>2. CASE WriteUndriveable(c)
  <2>1. UNCHANGED <<drive, seen>>
    BY <1>2 DEF WriteUndriveable, driverVars, editorVars
  <2>2. (IF seen[c] = NoRow THEN ids + 1 ELSE seen[c].id) \in Nat /\ ids' \in Nat
    BY <1>2 DEF WriteUndriveable, RowTypes, Rows
  <2>3. \A i \in Nat : UndriveableRow(i) \in Rows /\ UndriveableRow(i).status # "driven"
    BY RowFacts DEF UndriveableRow
  <2>4. \/ state' = state
        \/ state' = [state EXCEPT ![edit[c].seg] =
                         UndriveableRow(IF seen[c] = NoRow THEN ids + 1 ELSE seen[c].id)]
    BY <1>2 DEF WriteUndriveable
  <2> QED BY <2>1, <2>2, <2>3, <2>4 DEF RowTypes
<1>3. CASE DeleteRow(c)
  <2>1. NoRow \in Rows /\ NoRow.status # "driven"
    BY RowFacts DEF NoRow
  <2> QED BY <1>3, <2>1 DEF DeleteRow, RowTypes, driverVars, editorVars
<1>4. CASE ApplyEdit(c)
  BY <1>4 DEF ApplyEdit, RowTypes, driverVars, editorVars
<1>5. QED
  BY <1>1, <1>2, <1>3, <1>4 DEF EditorStep

(* Refreshes and deaths touch no row.                                      *)
LEMMA OtherRows ==
    ASSUME RowTypes,
           \/ \E k \in Refreshes : ComputeStats(k) \/ SaveStats(k)
           \/ \E c \in Requests : RequestDies(c)
    PROVE  RowTypes' /\ state' = state
BY DEF ComputeStats, SaveStats, RequestDies, RowTypes, driverVars, editorVars

LEMMA RowTypesHold == Spec => []RowTypes
<1>1. Init => RowTypes
  <2>1. NoRow \in Rows
    BY DEF NoRow, Rows
  <2> QED BY <2>1 DEF Init, RowTypes
<1>2. RowTypes /\ [Next]_vars => RowTypes'
  <2>1. ASSUME RowTypes, Next PROVE RowTypes'
    BY <2>1, DriverRows, EditorRows, OtherRows DEF Next
  <2>2. ASSUME RowTypes, UNCHANGED vars PROVE RowTypes'
    BY <2>2 DEF RowTypes, vars, driverVars, editorVars
  <2> QED BY <2>1, <2>2
<1>3. QED
  BY <1>1, <1>2, PTL DEF Spec

(* "an undriveable state stays untouched" (UndriveableStays): whatever     *)
(* requests interleave, no trip turns an undriveable segment into a driven *)
(* one, not even through the retry after a duplicate key.                  *)
THEOREM UndriveableIsSafe == Spec => UndriveableStays
<1>1. RowTypes /\ [Next]_vars
        => [\A s \in Segments : state[s].status = "undriveable" => state'[s].status # "driven"]_vars
  <2> SUFFICES ASSUME RowTypes, Next, NEW s \in Segments, state[s].status = "undriveable"
               PROVE  state'[s].status # "driven"
    OBVIOUS
  <2> QED BY DriverRows, EditorRows, OtherRows DEF Next
<1>2. QED
  BY <1>1, RowTypesHold, PTL DEF Spec, UndriveableStays

-----------------------------------------------------------------------------
(* Counting.                                                               *)

CountInv ==
    /\ RowTypes
    /\ newly \in [Drivers -> SUBSET Segments]
    /\ area.driven \in Nat
    /\ EachSegmentCountedOnce

(* ApplyDelta adds to the driven count.                                    *)
LEMMA DeltaAdds ==
    ASSUME NEW n \in Nat, NEW m, area.driven \in Nat,
           ApplyDelta([driven |-> n, drivenMiles |-> m, undriveable |-> 0, undriveableMiles |-> 0])
    PROVE  area'.driven = area.driven + n
BY DEF ApplyDelta, AtLeast0

LEMMA Finite ==
    ASSUME NEW S \in SUBSET Segments
    PROVE  IsFiniteSet(S) /\ Cardinality(S) \in Nat
BY RequestsAssumption, FS_Subset, FS_CardinalityType

LEMMA DisjointSum ==
    ASSUME NEW S, NEW T, IsFiniteSet(S), IsFiniteSet(T), S \cap T = {}
    PROVE  Cardinality(S \cup T) = Cardinality(S) + Cardinality(T)
<1>1. Cardinality(S \cup T) = Cardinality(S) + Cardinality(T) - Cardinality(S \cap T)
  BY FS_Union
<1>2. Cardinality(S \cap T) = 0
  BY FS_EmptySet
<1>3. Cardinality(S) \in Nat /\ Cardinality(T) \in Nat
  BY FS_CardinalityType
<1>4. QED
  BY <1>1, <1>2, <1>3

(* Finding a segment undriven: it becomes driven and claimed at once.      *)
LEMMA CountUpdate ==
    ASSUME CountInv, NEW c \in Drivers, NEW s \in Segments, UpdateState(c, s)
    PROVE  CountInv'
<1>1. RowTypes' /\ area' = area
  BY DriverRows DEF CountInv, DriverStep, UpdateState
<1>2. CASE state[s].status # "undriven" \/ state' = state
  <2>1. newly' = newly
    BY <1>2 DEF UpdateState, Accept, CountInv, RowTypes, Rows, DrivenRow, NoRow
  <2>2. WithStatus("driven")' = WithStatus("driven")
    BY <1>2, RowFacts DEF UpdateState, Accept, WithStatus, CountInv, RowTypes
  <2> QED BY <1>1, <2>1, <2>2 DEF CountInv, EachSegmentCountedOnce, Claimed
<1>3. CASE state[s].status = "undriven" /\ state' # state
  <2>1. /\ newly' = [newly EXCEPT ![c] = @ \cup {s}]
        /\ state' = [state EXCEPT ![s] = DrivenRow(ids + 1, drive[c])]
    BY <1>3 DEF UpdateState, Accept
  <2>2. s \notin WithStatus("driven")
    BY <1>3 DEF WithStatus
  <2>3. WithStatus("driven")' = WithStatus("driven") \cup {s}
    BY <2>1 DEF WithStatus, CountInv, RowTypes, DrivenRow
  <2>4. Claimed' = Claimed \cup {s}
    BY <2>1 DEF Claimed, CountInv
  <2>5. \A d \in Drivers : s \notin newly[d]
    BY <2>2 DEF CountInv, EachSegmentCountedOnce, Claimed
  <2>6. \A d, e \in Drivers : d # e => newly'[d] \cap newly'[e] = {}
    BY <2>1, <2>5 DEF CountInv, EachSegmentCountedOnce
  <2>7. WithStatus("driven")' \ Claimed' = WithStatus("driven") \ Claimed
    BY <2>2, <2>3, <2>4
  <2>8. newly' \in [Drivers -> SUBSET Segments]
    BY <2>1 DEF CountInv
  <2> QED BY <1>1, <2>3, <2>4, <2>6, <2>7, <2>8 DEF CountInv, EachSegmentCountedOnce
<1>4. QED
  BY <1>2, <1>3

(* Steps that leave the counters, the claims and every status alone.       *)
LEMMA CountKept ==
    ASSUME CountInv, RowTypes', area' = area, newly' = newly,
           \A s \in Segments : state'[s].status = state[s].status
    PROVE  CountInv'
<1>1. WithStatus("driven")' = WithStatus("driven") /\ Claimed' = Claimed
  BY DEF WithStatus, Claimed
<1>2. QED
  BY <1>1 DEF CountInv, EachSegmentCountedOnce

(* Counting: exactly what the request has claimed.                         *)
LEMMA CountApply ==
    ASSUME CountInv, NEW c \in Drivers, ApplyDrive(c)
    PROVE  CountInv'
<1>1. /\ newly' = [newly EXCEPT ![c] = {}]
      /\ state' = state
      /\ RowTypes'
  BY DriverRows DEF ApplyDrive, CountInv, DriverStep
<1> DEFINE driven == WithStatus("driven")
           mine   == newly[c]
           rest   == driven \ Claimed
<1>2. driven' = driven
  BY <1>1 DEF WithStatus
<1>3. driven \in SUBSET Segments /\ mine \in SUBSET Segments /\ mine \subseteq driven
  BY DEF WithStatus, CountInv, EachSegmentCountedOnce, Claimed
<1>4. Claimed' = Claimed \ mine
  BY <1>1 DEF Claimed, CountInv, EachSegmentCountedOnce
<1>5. driven' \ Claimed' = rest \cup mine /\ rest \cap mine = {}
  <2>1. mine \subseteq Claimed
    BY DEF Claimed
  <2> QED BY <1>2, <1>3, <1>4, <2>1
<1>6. /\ IsFiniteSet(rest) /\ IsFiniteSet(mine)
      /\ Cardinality(rest) \in Nat /\ Cardinality(mine) \in Nat
  <2>1. rest \in SUBSET Segments
    BY <1>3
  <2> QED BY <1>3, <2>1, Finite
<1>7. Cardinality(rest \cup mine) = Cardinality(rest) + Cardinality(mine)
  BY <1>5, <1>6, DisjointSum
<1>8. area.driven = Cardinality(rest) /\ area.driven \in Nat
  BY DEF CountInv, EachSegmentCountedOnce
<1>9. area'.driven = area.driven + Cardinality(mine)
  <2>1. CASE mine = {}
    <3>1. Cardinality(mine) = 0
      BY <2>1, FS_EmptySet
    <3> QED BY <2>1, <3>1, <1>8 DEF ApplyDrive
  <2>2. CASE mine # {}
    <3>1. ApplyDelta([ driven |-> Cardinality(mine), drivenMiles |-> Miles(mine),
                       undriveable |-> 0, undriveableMiles |-> 0 ])
      BY <2>2 DEF ApplyDrive
    <3> QED BY <3>1, <1>6, <1>8, DeltaAdds
  <2> QED BY <2>1, <2>2
<1>10. area'.driven = Cardinality(driven' \ Claimed') /\ area'.driven \in Nat
  BY <1>5, <1>6, <1>7, <1>8, <1>9
<1>11. Claimed' \subseteq driven'
  BY <1>2, <1>4 DEF CountInv, EachSegmentCountedOnce
<1>12. /\ newly' \in [Drivers -> SUBSET Segments]
       /\ \A d, e \in Drivers : d # e => newly'[d] \cap newly'[e] = {}
  BY <1>1 DEF CountInv, EachSegmentCountedOnce
<1>13. QED
  BY <1>1, <1>10, <1>11, <1>12 DEF CountInv, EachSegmentCountedOnce

(* As long as segments are only driven (no edits, no refreshes), every     *)
(* newly driven segment is counted exactly once (EachSegmentCountedOnce),  *)
(* for any number of concurrent requests of which any may die.             *)
THEOREM CountedOnce ==
    ASSUME Editors = {}, Refreshes = {}
    PROVE  Spec => []EachSegmentCountedOnce
<1>1. Init => CountInv
  <2>1. ASSUME Init PROVE CountInv
    <3>1. RowTypes /\ newly \in [Drivers -> SUBSET Segments] /\ area.driven = 0
      <4>1. NoRow \in Rows
        BY DEF NoRow, Rows
      <4> QED BY <2>1, <4>1 DEF Init, RowTypes
    <3>2. WithStatus("driven") = {} /\ Claimed = {}
      BY <2>1 DEF Init, WithStatus, NoRow, Claimed
    <3>3. Cardinality({}) = 0
      BY FS_EmptySet
    <3>4. \A c, d \in Drivers : c # d => newly[c] \cap newly[d] = {}
      BY <2>1 DEF Init
    <3>5. WithStatus("driven") \ Claimed = {}
      BY <3>2
    <3> QED BY <3>1, <3>2, <3>3, <3>4, <3>5 DEF CountInv, EachSegmentCountedOnce
  <2> QED BY <2>1
<1>2. CountInv /\ [Next]_vars => CountInv'
  <2>1. ASSUME CountInv, NEW c \in Drivers, DriverStep(c) PROVE CountInv'
    <3>r. RowTypes'
      BY <2>1, DriverRows DEF CountInv
    <3>1. CASE StartDrive(c)
      BY <2>1, <3>1, <3>r, CountKept DEF StartDrive
    <3>2. ASSUME NEW s \in Segments, UpdateState(c, s) PROVE CountInv'
      BY <2>1, <3>2, CountUpdate
    <3>3. ASSUME NEW s \in Segments, RetryState(c, s) PROVE CountInv'
      <4>1. Merged(state[s], drive[c]).status = state[s].status
        BY <2>1, RowFacts DEF CountInv, RowTypes
      <4>2. \A u \in Segments : state'[u].status = state[u].status
        BY <2>1, <3>3, <4>1 DEF RetryState, Accept, CountInv, RowTypes
      <4> QED BY <2>1, <3>3, <3>r, <4>2, CountKept DEF RetryState
    <3>4. ASSUME NEW s \in Segments, Attribute(c, s) PROVE CountInv'
      <4>1. \A u \in Segments : state'[u].status = state[u].status
        BY <2>1, <3>4 DEF Attribute, CountInv, RowTypes, Rows
      <4> QED BY <2>1, <3>4, <3>r, <4>1, CountKept DEF Attribute
    <3>5. CASE ApplyDrive(c)
      BY <2>1, <3>5, CountApply
    <3> QED BY <2>1, <3>1, <3>2, <3>3, <3>4, <3>5 DEF DriverStep
  <2>2. ASSUME CountInv, NEW c \in Requests, RequestDies(c) PROVE CountInv'
    BY <2>2, OtherRows, CountKept DEF CountInv, RequestDies, driverVars
  <2>3. ASSUME CountInv, UNCHANGED vars PROVE CountInv'
    <3>1. RowTypes'
      BY <2>3 DEF CountInv, RowTypes, vars, driverVars, editorVars
    <3> QED BY <2>3, <3>1, CountKept DEF vars, driverVars
  <2> QED BY <2>1, <2>2, <2>3 DEF Next
<1>3. CountInv => EachSegmentCountedOnce
  BY DEF CountInv
<1>4. QED
  BY <1>1, <1>2, <1>3, PTL DEF Spec

-----------------------------------------------------------------------------
(* Miles: the fold over the lengths of a set of segments is their sum.     *)

LEMMA MilesSum ==
    ASSUME NEW T \in SUBSET Segments, NEW g, IsSum(g, Segments, Length)
    PROVE  Miles(T) = g[T]
<1> DEFINE h == CHOOSE h : h = [s \in SUBSET T |-> IF s = {} THEN 0 ELSE
                    Length[CHOOSE x \in s : TRUE] + h[s \ {CHOOSE x \in s : TRUE}]]
<1>1. IsFiniteSet(Segments) /\ IsFiniteSet(T)
  BY RequestsAssumption, FS_Subset
<1>2. Miles(T) = h[T]
  BY DEF Miles, MapThenSumSet, MapThenFoldSet
<1>3. IsSum(h, T, Length)
  <2>1. \E f : IsSum(f, T, Length)
    BY <1>1, SumExists
  <2>2. h = CHOOSE f : IsSum(f, T, Length)
    BY DEF IsSum, Pick
  <2> QED BY <2>1, <2>2
<1> HIDE DEF h
<1>4. \A x \in Segments : Length[x] \in Nat
  BY LengthAssumption
<1>5. \A s \in SUBSET T : h[s] = g[s]
  BY <1>1, <1>3, <1>4, SumUnique
<1>6. QED
  BY <1>2, <1>5

(* Miles add up.                                                           *)
LEMMA MilesType ==
    ASSUME NEW T \in SUBSET Segments
    PROVE  Miles(T) \in Nat
<1>1. PICK g : IsSum(g, Segments, Length)
  BY RequestsAssumption, SumExists
<1>2. Miles(T) = g[T]
  BY <1>1, MilesSum
<1>3. g[T] \in Nat
  BY <1>1, LengthAssumption, RequestsAssumption, SumType
<1>4. QED
  BY <1>2, <1>3

LEMMA MilesDisjoint ==
    ASSUME NEW T \in SUBSET Segments, NEW U \in SUBSET Segments, T \cap U = {}
    PROVE  Miles(T \cup U) = Miles(T) + Miles(U)
<1>1. PICK g : IsSum(g, Segments, Length)
  BY RequestsAssumption, SumExists
<1>2. Miles(T) = g[T] /\ Miles(U) = g[U] /\ Miles(T \cup U) = g[T \cup U]
  BY <1>1, MilesSum
<1>3. g[T \cup U] = g[T] + g[U]
  BY <1>1, LengthAssumption, RequestsAssumption, SumDisjoint
<1>4. QED
  BY <1>2, <1>3

LEMMA MilesMonotone ==
    ASSUME NEW T \in SUBSET Segments, NEW U \in SUBSET T
    PROVE  Miles(U) <= Miles(T)
<1>1. Miles(U \cup (T \ U)) = Miles(U) + Miles(T \ U)
  BY MilesDisjoint
<1>2. U \cup (T \ U) = T
  OBVIOUS
<1>3. Miles(U) \in Nat /\ Miles(T \ U) \in Nat
  BY MilesType
<1>4. Miles(T) = Miles(U) + Miles(T \ U)
  BY <1>1, <1>2, Zenon
<1>5. QED
  BY <1>3, <1>4

LEMMA NoMiles == Miles({}) = 0
<1>1. PICK g : IsSum(g, Segments, Length)
  BY RequestsAssumption, SumExists
<1>2. Miles({}) = g[{}]
  BY <1>1, MilesSum
<1>3. QED
  BY <1>1, <1>2, SumEmpty
-----------------------------------------------------------------------------
(* Types.                                                                  *)

Counters == [driven: Nat, drivenMiles: Nat, undriveable: Nat, undriveableMiles: Nat]

(* An editor past its read has a segment, the row it read is not newer     *)
(* than the rows, and a refresh holds counters.                            *)
TypeInv ==
    /\ TypeOK
    /\ edit \in [Editors -> [seg: Segments \cup {NoTrip}, status: {"undriveable", "undriven"}]]
    /\ \A c \in Editors : /\ pc[c] \in {"write", "delta"} => edit[c].seg \in Segments
                          /\ seen[c].id <= ids
    /\ calc \in [Refreshes -> Counters \cup {NoCalc}]

LEMMA TruthType == RowTypes => Truth \in Counters
<1> SUFFICES ASSUME RowTypes PROVE Truth \in Counters
  OBVIOUS
<1>1. \A status : WithStatus(status) \in SUBSET Segments
  BY DEF WithStatus
<1>2. \A T \in SUBSET Segments : Cardinality(T) \in Nat /\ Miles(T) \in Nat
  BY Finite, MilesType
<1>3. QED
  BY <1>1, <1>2 DEF Truth, Counters

(* The update pipeline keeps the counters natural numbers.                 *)
LEMMA DeltaType ==
    ASSUME area \in Counters,
           NEW d \in [driven: Int, drivenMiles: Int, undriveable: Int, undriveableMiles: Int],
           ApplyDelta(d)
    PROVE  area' \in Counters
<1>1. TotalMiles \in Nat
  BY MilesType DEF TotalMiles
<1>2. QED
  BY <1>1 DEF ApplyDelta, AtLeast0, Counters

LEMMA RowsOfType == TypeOK => RowTypes
BY DEF TypeOK, RowTypes

(* A segment is undriven exactly when it has no row, and ids grow.         *)
RowsSound ==
    \A s \in Segments : /\ state[s].status = "undriven" <=> state[s] = NoRow
                        /\ state[s].id <= ids

LEMMA RowStep ==
    ASSUME TypeOK, RowTypes', ids <= ids', NEW s \in Segments, NEW r \in Rows,
           state' = [state EXCEPT ![s] = r],
           r.status = "undriven" <=> r = NoRow, r.id <= ids'
    PROVE  RowsSound'
<1>1. ids \in Nat /\ ids' \in Nat /\ state[s] \in Rows
  BY DEF TypeOK, RowTypes
<1>2. ASSUME NEW u \in Segments
      PROVE  (state'[u].status = "undriven" <=> state'[u] = NoRow) /\ state'[u].id <= ids'
  <2>1. CASE u = s
    <3>1. state'[u] = r
      BY <2>1 DEF TypeOK
    <3> QED BY <3>1
  <2>2. CASE u # s
    <3>1. state'[u] = state[u] /\ state[u] \in Rows
      BY <2>2 DEF TypeOK
    <3>2. state[u].id \in Nat /\ state[u].id <= ids
      BY <3>1 DEF TypeOK, Rows
    <3>3. state[u].status = "undriven" <=> state[u] = NoRow
      BY DEF TypeOK
    <3> QED BY <1>1, <3>1, <3>2, <3>3
  <2> QED BY <2>1, <2>2
<1>3. QED
  BY <1>2 DEF RowsSound, NoRow

LEMMA TypeDriver ==
    ASSUME TypeInv, NEW c \in Drivers, DriverStep(c)
    PROVE  TypeInv'
<1> USE DEF TypeInv
<1>r. RowTypes /\ RowTypes'
  BY RowsOfType, DriverRows
<1>c. c \in Requests /\ c \notin Editors
  BY RequestsAssumption DEF Requests
<1>d. ids \in Nat /\ ids + 1 \in Nat
  BY <1>r DEF RowTypes
<1>e. \A e \in Editors : seen[e].id \in Nat
  BY <1>r DEF RowTypes, Rows
<1>1. CASE StartDrive(c)
  <2>1. PICK d \in Drives : drive' = [drive EXCEPT ![c] = d] /\ todo' = [todo EXCEPT ![c] = d.segs]
    BY <1>1 DEF StartDrive
  <2>2. d.segs \in SUBSET Segments
    BY DrivesAssumption
  <2> QED BY <1>1, <1>c, <2>1, <2>2 DEF StartDrive, TypeOK, editorVars, Goto
<1>2. ASSUME NEW s \in Segments, UpdateState(c, s) PROVE TypeInv'
  <2>1. /\ DrivenRow(ids + 1, drive[c]) \in Rows
        /\ DrivenRow(ids + 1, drive[c]).status = "driven" /\ DrivenRow(ids + 1, drive[c]).id = ids + 1
    BY <1>r, <1>d, RowFacts DEF DrivenRow
  <2>2. /\ Merged(state[s], drive[c]) \in Rows
        /\ Merged(state[s], drive[c]).status = state[s].status /\ Merged(state[s], drive[c]).id = state[s].id
    BY <1>r, RowFacts, RowIds DEF RowTypes
  <2>3. /\ todo' \in [Drivers -> SUBSET Segments]
        /\ dup' \in [Drivers -> SUBSET Segments]
        /\ accepted' \in [Drivers -> SUBSET Segments]
        /\ newly' \in [Drivers -> SUBSET Segments]
    BY <1>2 DEF UpdateState, Accept, TypeOK
  <2>4. UNCHANGED <<area, pc, drive, edit, seen, calc>>
    BY <1>2 DEF UpdateState, editorVars
  <2>5. /\ ids' \in Nat /\ ids <= ids'
        /\ \/ state' = state
           \/ state' = [state EXCEPT ![s] = DrivenRow(ids + 1, drive[c])] /\ ids' = ids + 1
           \/ state' = [state EXCEPT ![s] = Merged(state[s], drive[c])] /\ state[s].status = "driven"
    BY <1>2, <1>d DEF UpdateState, Accept
  <2>6. RowsSound'
    <3>1. CASE state' = state
      <4>1. \A u \in Segments : state[u].id \in Nat
        BY DEF TypeOK, Rows
      <4> QED BY <3>1, <4>1, <1>d, <2>5 DEF RowsSound, TypeOK, NoRow
    <3>2. CASE state' = [state EXCEPT ![s] = DrivenRow(ids + 1, drive[c])] /\ ids' = ids + 1
      <4>1. DrivenRow(ids + 1, drive[c]) # NoRow
        BY DEF DrivenRow, NoRow
      <4>2. DrivenRow(ids + 1, drive[c]).id <= ids' /\ DrivenRow(ids + 1, drive[c]).status # "undriven"
        BY <3>2, <2>1, <1>d
      <4> QED BY <3>2, <4>1, <4>2, <1>r, <2>1, <2>5, RowStep
    <3>3. CASE state' = [state EXCEPT ![s] = Merged(state[s], drive[c])] /\ state[s].status = "driven"
      <4>1. Merged(state[s], drive[c]) # NoRow
        BY <3>3, <2>2 DEF NoRow
      <4>2. state[s].id <= ids' /\ state[s].id \in Nat
        BY <1>d, <2>5 DEF TypeOK, Rows
      <4> QED BY <3>3, <4>1, <4>2, <1>r, <2>2, <2>5, RowStep
    <3> QED BY <3>1, <3>2, <3>3, <2>5
  <2>7. \A e \in Editors : seen'[e].id <= ids'
    BY <1>d, <1>e, <2>4, <2>5
  <2> QED BY <1>r, <2>3, <2>4, <2>6, <2>7 DEF TypeOK, RowTypes, RowsSound
<1>3. ASSUME NEW s \in Segments, RetryState(c, s) PROVE TypeInv'
  <2>1. /\ Merged(state[s], drive[c]) \in Rows
        /\ Merged(state[s], drive[c]).status = state[s].status /\ Merged(state[s], drive[c]).id = state[s].id
    BY <1>r, RowFacts, RowIds DEF RowTypes
  <2>2. /\ dup' \in [Drivers -> SUBSET Segments]
        /\ accepted' \in [Drivers -> SUBSET Segments]
    BY <1>3 DEF RetryState, Accept, TypeOK
  <2>3. UNCHANGED <<ids, area, pc, drive, todo, newly, edit, seen, calc>>
    BY <1>3 DEF RetryState, editorVars
  <2>4. RowsSound'
    <3>1. CASE state' = state
      BY <3>1, <2>3 DEF RowsSound, TypeOK, NoRow
    <3>2. CASE state' = [state EXCEPT ![s] = Merged(state[s], drive[c])] /\ state[s].status = "driven"
      <4>1. Merged(state[s], drive[c]) # NoRow
        BY <3>2, <2>1 DEF NoRow
      <4>2. state[s].id <= ids' /\ ids <= ids'
        BY <1>d, <2>3 DEF TypeOK, Rows
      <4> QED BY <3>2, <4>1, <4>2, <1>r, <2>1, <2>3, RowStep
    <3> QED BY <1>3, <3>1, <3>2 DEF RetryState, Accept
  <2> QED BY <1>r, <2>2, <2>3, <2>4 DEF TypeOK, RowTypes, RowsSound
<1>4. ASSUME NEW s \in Segments, Attribute(c, s) PROVE TypeInv'
  <2> DEFINE row == [state[s] EXCEPT !.by = drive[c].trip]
  <2>1. row \in Rows /\ row.status = state[s].status /\ row.id = state[s].id
    BY <1>r, RowFacts, RowIds DEF RowTypes
  <2>2. accepted' \in [Drivers -> SUBSET Segments]
    BY <1>4 DEF Attribute, TypeOK
  <2>3. UNCHANGED <<ids, area, pc, drive, todo, dup, newly, edit, seen, calc>>
    BY <1>4 DEF Attribute, editorVars
  <2>4. \/ state' = state
        \/ state' = [state EXCEPT ![s] = row] /\ state[s].status = "driven"
    BY <1>4 DEF Attribute, TypeOK
  <2>5. RowsSound'
    <3> HIDE DEF row
    <3>1. CASE state' = state
      BY <3>1, <2>3 DEF RowsSound, TypeOK, NoRow
    <3>2. CASE state' = [state EXCEPT ![s] = row] /\ state[s].status = "driven"
      <4>1. row # NoRow
        BY <3>2, <2>1 DEF NoRow
      <4>2. state[s].id <= ids' /\ ids <= ids'
        BY <1>d, <2>3 DEF TypeOK, Rows
      <4> QED BY <3>2, <4>1, <4>2, <1>r, <2>1, <2>3, RowStep
    <3> QED BY <2>4, <3>1, <3>2
  <2> QED BY <1>r, <2>2, <2>3, <2>5 DEF TypeOK, RowTypes, RowsSound
<1>5. CASE ApplyDrive(c)
  <2>1. area' \in Counters
    <3>1. CASE newly[c] = {}
      BY <1>5, <3>1 DEF ApplyDrive, TypeOK, Counters
    <3>2. CASE newly[c] # {}
      <4>1. Cardinality(newly[c]) \in Nat /\ Miles(newly[c]) \in Nat
        BY Finite, MilesType DEF TypeOK
      <4>2. [ driven |-> Cardinality(newly[c]), drivenMiles |-> Miles(newly[c]),
              undriveable |-> 0, undriveableMiles |-> 0 ]
                \in [driven: Int, drivenMiles: Int, undriveable: Int, undriveableMiles: Int]
        BY <4>1
      <4>3. area \in Counters
        BY DEF TypeOK, Counters
      <4> QED BY <1>5, <3>2, <4>2, <4>3, DeltaType DEF ApplyDrive
    <3> QED BY <3>1, <3>2
  <2>2. UNCHANGED <<state, ids, drive, todo, dup, accepted, edit, seen, calc>>
    BY <1>5 DEF ApplyDrive, editorVars
  <2>3. /\ newly' \in [Drivers -> SUBSET Segments]
        /\ pc' = [pc EXCEPT ![c] = "done"]
    BY <1>5 DEF ApplyDrive, TypeOK, Goto
  <2> QED BY <1>c, <2>1, <2>2, <2>3 DEF TypeOK, Counters, NoRow
<1>6. QED
  BY <1>1, <1>2, <1>3, <1>4, <1>5 DEF DriverStep

LEMMA TypeEditor ==
    ASSUME TypeInv, NEW c \in Editors, EditorStep(c)
    PROVE  TypeInv'
<1> USE DEF TypeInv
<1>r. RowTypes /\ RowTypes'
  BY RowsOfType, EditorRows
<1>c. c \in Requests
  BY DEF Requests
<1>d. ids \in Nat /\ ids + 1 \in Nat
  BY <1>r DEF RowTypes
<1>e. \A e \in Editors : seen[e].id \in Nat /\ seen[e].id <= ids
  BY <1>r DEF RowTypes, Rows
<1>1. CASE ReadForEdit(c)
  <2>1. PICK s \in Segments, status \in {"undriveable", "undriven"} :
           /\ edit' = [edit EXCEPT ![c] = [seg |-> s, status |-> status]]
           /\ seen' = [seen EXCEPT ![c] = state[s]]
           /\ Goto(c, IF status = "undriven" /\ state[s] = NoRow THEN "done" ELSE "write")
    BY <1>1 DEF ReadForEdit
  <2>2. UNCHANGED <<state, ids, area, drive, todo, dup, accepted, newly, calc>>
    BY <1>1 DEF ReadForEdit, driverVars
  <2>3. state[s] \in Rows /\ state[s].id <= ids
    BY DEF TypeOK
  <2>4. \A e \in Editors : seen'[e].id <= ids
    BY <1>e, <1>r, <2>1, <2>3 DEF RowTypes
  <2>5. [seg |-> s, status |-> status] \in [seg: Segments \cup {NoTrip}, status: {"undriveable", "undriven"}]
    OBVIOUS
  <2>6. \A e \in Editors : edit'[e].seg = IF e = c THEN s ELSE edit[e].seg
    BY <2>1
  <2>7. pc' = [pc EXCEPT ![c] = "done"] \/ pc' = [pc EXCEPT ![c] = "write"]
    BY <2>1 DEF Goto
  <2>8. \A e \in Editors : pc'[e] \in {"write", "delta"} => edit'[e].seg \in Segments
    BY <1>c, <2>6, <2>7 DEF TypeOK, Requests
  <2> QED BY <1>c, <1>r, <2>1, <2>2, <2>4, <2>5, <2>7, <2>8 DEF TypeOK, RowTypes, NoRow
<1>2. CASE WriteUndriveable(c)
  <2> DEFINE s == edit[c].seg
             id == IF seen[c] = NoRow THEN ids + 1 ELSE seen[c].id
             row == UndriveableRow(id)
  <2>1. s \in Segments
    BY <1>2 DEF WriteUndriveable
  <2>2. UNCHANGED <<area, drive, todo, dup, accepted, newly, edit, seen, calc>>
    BY <1>2 DEF WriteUndriveable, driverVars, editorVars
  <2>3. ids' \in Nat /\ ids <= ids'
    BY <1>2, <1>d DEF WriteUndriveable
  <2>4. pc' = [pc EXCEPT ![c] = "done"] \/ pc' = [pc EXCEPT ![c] = "delta"]
    BY <1>2 DEF WriteUndriveable, Goto
  <2>5. RowsSound'
    <3>1. CASE state' = state
      <4>1. \A u \in Segments : state[u].id \in Nat
        BY DEF TypeOK, Rows
      <4> QED BY <3>1, <4>1, <1>d, <2>3 DEF RowsSound, TypeOK, NoRow
    <3>2. CASE state' = [state EXCEPT ![s] = row] /\ id <= ids'
      <4>1. id \in Nat
        BY <1>d, <1>e
      <4> HIDE DEF id
      <4>2. row \in Rows /\ row.status = "undriveable" /\ row.id = id
        BY <4>1, <1>r, RowFacts DEF UndriveableRow
      <4>3. row # NoRow
        BY <4>2 DEF NoRow
      <4> HIDE DEF row, s
      <4> QED BY <3>2, <4>2, <4>3, <1>r, <2>1, <2>3, RowStep
    <3>3. state' = state \/ (state' = [state EXCEPT ![s] = row] /\ id <= ids')
      BY <1>2, <1>d, <1>e DEF WriteUndriveable
    <3> QED BY <3>1, <3>2, <3>3
  <2>6. \A e \in Editors : seen'[e].id <= ids'
    BY <1>d, <1>e, <2>2, <2>3
  <2>7. \A e \in Editors : pc'[e] \in {"write", "delta"} => edit'[e].seg \in Segments
    BY <1>c, <2>1, <2>2, <2>4 DEF TypeOK, Requests
  <2> QED BY <1>c, <1>r, <2>2, <2>4, <2>5, <2>6, <2>7 DEF TypeOK, RowTypes, RowsSound
<1>3. CASE DeleteRow(c)
  <2> DEFINE s == edit[c].seg
  <2>1. s \in Segments
    BY <1>3 DEF DeleteRow
  <2>2. UNCHANGED <<ids, area, drive, todo, dup, accepted, newly, edit, seen, calc>>
    BY <1>3 DEF DeleteRow, driverVars, editorVars
  <2>3. pc' = [pc EXCEPT ![c] = "delta"]
    BY <1>3 DEF DeleteRow, Goto
  <2>4. RowsSound'
    <3>1. CASE state' = state
      BY <3>1, <2>2 DEF RowsSound, TypeOK, NoRow
    <3>2. CASE state' = [state EXCEPT ![s] = NoRow]
      <4>1. NoRow \in Rows /\ NoRow.status = "undriven" /\ NoRow.id = 0
        BY <1>r, RowFacts DEF NoRow
      <4>2. NoRow.id <= ids' /\ ids <= ids'
        BY <4>1, <1>d, <2>2
      <4> HIDE DEF s
      <4> QED BY <3>2, <4>1, <4>2, <1>r, <2>1, RowStep
    <3> QED BY <1>3, <3>1, <3>2 DEF DeleteRow
  <2>5. \A e \in Editors : pc'[e] \in {"write", "delta"} => edit'[e].seg \in Segments
    BY <1>c, <2>1, <2>2, <2>3 DEF TypeOK, Requests
  <2> QED BY <1>c, <1>r, <2>2, <2>3, <2>4, <2>5 DEF TypeOK, RowTypes, RowsSound
<1>4. CASE ApplyEdit(c)
  <2>1. UNCHANGED <<state, ids, drive, todo, dup, accepted, newly, edit, seen, calc>>
    BY <1>4 DEF ApplyEdit, driverVars, editorVars
  <2>2. pc' = [pc EXCEPT ![c] = "done"]
    BY <1>4 DEF ApplyEdit, Goto
  <2>3. area' \in Counters
    <3> DEFINE len == Length[edit[c].seg]
               w == IF seen[c].status = "driven" THEN 1 ELSE 0
               u == IF seen[c].status = "undriveable" THEN 1 ELSE 0
               i == IF edit[c].status = "undriveable" THEN 1 ELSE 0
               d == [ driven |-> - w, drivenMiles |-> - (w * len),
                      undriveable |-> i - u, undriveableMiles |-> (i - u) * len ]
    <3>1. len \in Nat
      BY <1>4, LengthAssumption DEF ApplyEdit
    <3>2. w \in {0, 1} /\ u \in {0, 1} /\ i \in {0, 1}
      OBVIOUS
    <3>3. ApplyDelta(d)
      BY <1>4 DEF ApplyEdit
    <3> HIDE DEF len, w, u, i
    <3>4. d \in [driven: Int, drivenMiles: Int, undriveable: Int, undriveableMiles: Int]
      <4>1. w * len \in Int /\ (i - u) * len \in Int
        BY <3>1, <3>2
      <4> QED BY <3>2, <4>1
    <3>5. area \in Counters
      BY DEF TypeOK, Counters
    <3> HIDE DEF d
    <3> QED BY <3>3, <3>4, <3>5, DeltaType
  <2>4. \A e \in Editors : pc'[e] \in {"write", "delta"} => edit'[e].seg \in Segments
    BY <1>c, <2>1, <2>2 DEF TypeOK, Requests
  <2> QED BY <1>c, <2>1, <2>2, <2>3, <2>4 DEF TypeOK, Counters, NoRow
<1>5. QED
  BY <1>1, <1>2, <1>3, <1>4 DEF EditorStep

LEMMA TypeOther ==
    ASSUME TypeInv,
           \/ \E k \in Refreshes : ComputeStats(k) \/ SaveStats(k)
           \/ \E c \in Requests : RequestDies(c)
           \/ UNCHANGED vars
    PROVE  TypeInv'
<1> USE DEF TypeInv
<1>1. ASSUME NEW k \in Refreshes, ComputeStats(k) PROVE TypeInv'
  <2>1. Truth \in Counters
    BY RowsOfType, TruthType
  <2> QED BY <1>1, <2>1 DEF ComputeStats, TypeOK, driverVars, editorVars, NoRow
<1>2. ASSUME NEW k \in Refreshes, SaveStats(k) PROVE TypeInv'
  <2>1. calc[k] \in Counters
    BY <1>2 DEF SaveStats
  <2> QED BY <1>2, <2>1 DEF SaveStats, TypeOK, Counters, driverVars, editorVars, NoRow
<1>3. ASSUME NEW c \in Requests, RequestDies(c) PROVE TypeInv'
  <2>1. pc' = [pc EXCEPT ![c] = "dead"]
    BY <1>3 DEF RequestDies, Goto
  <2>2. UNCHANGED <<state, ids, area, drive, todo, dup, accepted, newly, edit, seen, calc>>
    BY <1>3 DEF RequestDies, driverVars, editorVars
  <2>3. \A e \in Editors : pc'[e] \in {"write", "delta"} => edit'[e].seg \in Segments
    BY <2>1, <2>2 DEF TypeOK, Requests
  <2> QED BY <2>1, <2>2, <2>3 DEF TypeOK, NoRow
<1>4. CASE UNCHANGED vars
  BY <1>4 DEF vars, TypeOK, driverVars, editorVars, NoRow
<1>5. QED
  BY <1>1, <1>2, <1>3, <1>4

(* TypeOK, for any segments, drives and requests, editors and refreshes    *)
(* included: rows are rows, only segments without one are undriven, and    *)
(* apply_area_stats_delta keeps the counters natural numbers whatever      *)
(* deltas stale reads give it.                                             *)
THEOREM CoverageTypes == Spec => []TypeOK
<1>1. Init => TypeInv
  <2> SUFFICES ASSUME Init PROVE TypeInv
    OBVIOUS
  <2>1. NoRow \in Rows /\ NoRow.id = 0 /\ NoRow.status = "undriven"
    BY DEF NoRow, Rows
  <2>2. TypeOK
    BY <2>1 DEF Init, TypeOK
  <2>3. /\ edit \in [Editors -> [seg: Segments \cup {NoTrip}, status: {"undriveable", "undriven"}]]
        /\ \A c \in Editors : pc[c] = "idle" /\ seen[c].id <= ids
    BY <2>1 DEF Init, NoEdit, Requests
  <2>4. calc \in [Refreshes -> Counters \cup {NoCalc}]
    BY DEF Init
  <2> QED BY <2>2, <2>3, <2>4 DEF TypeInv
<1>2. TypeInv /\ [Next]_vars => TypeInv'
  BY TypeDriver, TypeEditor, TypeOther DEF Next
<1>3. TypeInv => TypeOK
  BY DEF TypeInv
<1>4. QED
  BY <1>1, <1>2, <1>3, PTL DEF Spec

-----------------------------------------------------------------------------
(* Miles are counted like segments, and quiet requests owe nothing.        *)

Counted(segs) ==
    [ driven |-> Cardinality(segs), drivenMiles |-> Miles(segs),
      undriveable |-> 0, undriveableMiles |-> 0 ]

ExactInv ==
    /\ CountInv
    /\ pc \in [Requests -> {"idle", "states", "write", "delta", "done", "dead"}]
    /\ \A c \in Drivers : pc[c] \in {"idle", "done"} => newly[c] = {}
    /\ \A s \in Segments : state[s].status # "undriveable"
    /\ area = Counted(WithStatus("driven") \ Claimed)

(* Adding what one request claims: the cap at the driveable length never   *)
(* cuts anything off, as the sum is one of distinct segments.              *)
LEMMA DeltaExact ==
    ASSUME NEW rest \in SUBSET Segments, NEW mine \in SUBSET Segments, rest \cap mine = {},
           area = Counted(rest), ApplyDelta(Counted(mine))
    PROVE  area' = Counted(rest \cup mine)
<1>1. /\ Cardinality(rest) \in Nat /\ Cardinality(mine) \in Nat
      /\ Cardinality(rest \cup mine) = Cardinality(rest) + Cardinality(mine)
  BY Finite, DisjointSum
<1>2. /\ Miles(rest) \in Nat /\ Miles(mine) \in Nat /\ TotalMiles \in Nat
      /\ Miles(rest \cup mine) = Miles(rest) + Miles(mine)
  BY MilesType, MilesDisjoint DEF TotalMiles
<1>3. Miles(rest \cup mine) <= TotalMiles
  BY MilesMonotone DEF TotalMiles
<1>4. area'.driven = Cardinality(rest) + Cardinality(mine)
  BY <1>1 DEF ApplyDelta, AtLeast0, Counted
<1>5. area'.undriveable = 0 /\ area'.undriveableMiles = 0
  BY DEF ApplyDelta, AtLeast0, Counted
<1>6. area'.drivenMiles = Miles(rest) + Miles(mine)
  <2>1. Miles(rest) + Miles(mine) <= TotalMiles
    BY <1>2, <1>3
  <2>2. AtLeast0(area.undriveableMiles + Counted(mine).undriveableMiles) = 0
    BY DEF AtLeast0, Counted
  <2>3. AtLeast0(TotalMiles - 0) = TotalMiles
    BY <1>2 DEF AtLeast0
  <2>4. AtLeast0(area.drivenMiles + Counted(mine).drivenMiles) = Miles(rest) + Miles(mine)
    BY <1>2 DEF AtLeast0, Counted
  <2> QED BY <1>2, <2>1, <2>2, <2>3, <2>4 DEF ApplyDelta
<1>7. area' = [ driven |-> area'.driven, drivenMiles |-> area'.drivenMiles,
                undriveable |-> area'.undriveable, undriveableMiles |-> area'.undriveableMiles ]
  BY DEF ApplyDelta
<1>8. QED
  BY <1>1, <1>2, <1>4, <1>5, <1>6, <1>7 DEF Counted

(* Steps that leave claims, counters and the driven segments alone.        *)
LEMMA ExactKept ==
    ASSUME ExactInv, CountInv', area' = area, newly' = newly,
           \A s \in Segments : state'[s].status = state[s].status,
           pc' \in [Requests -> {"idle", "states", "write", "delta", "done", "dead"}],
           \A c \in Drivers : pc'[c] \in {"idle", "done"} => pc[c] \in {"idle", "done"}
    PROVE  ExactInv'
<1>1. WithStatus("driven")' = WithStatus("driven") /\ Claimed' = Claimed
  BY DEF WithStatus, Claimed
<1>2. QED
  BY <1>1 DEF ExactInv, Counted

LEMMA ExactUpdate ==
    ASSUME ExactInv, NEW c \in Drivers, NEW s \in Segments, UpdateState(c, s)
    PROVE  ExactInv'
<1>c. CountInv' /\ RowTypes /\ RowTypes'
  BY CountUpdate DEF ExactInv, CountInv
<1>1. area' = area /\ pc' = pc
  BY DEF UpdateState
<1>2. CASE newly' = newly
  <2>1. Merged(state[s], drive[c]).status = state[s].status
    BY <1>c, RowFacts DEF RowTypes
  <2>2. newly[c] \cup {s} # newly[c] \/ state[s].status = "driven"
    BY DEF ExactInv, CountInv, EachSegmentCountedOnce, Claimed, WithStatus
  <2>3. \A u \in Segments : state'[u].status = state[u].status
    BY <1>2, <1>c, <2>1, <2>2 DEF UpdateState, Accept, ExactInv, CountInv, RowTypes
  <2> QED BY <1>c, <1>1, <1>2, <2>3, ExactKept DEF ExactInv
<1>3. CASE newly' # newly
  <2>1. /\ newly' = [newly EXCEPT ![c] = @ \cup {s}]
        /\ state' = [state EXCEPT ![s] = DrivenRow(ids + 1, drive[c])]
        /\ state[s].status = "undriven"
    BY <1>3 DEF UpdateState, Accept
  <2>2. WithStatus("driven")' = WithStatus("driven") \cup {s} /\ s \notin WithStatus("driven")
    BY <1>c, <2>1 DEF WithStatus, RowTypes, DrivenRow
  <2>3. Claimed' = Claimed \cup {s}
    BY <2>1 DEF Claimed, ExactInv, CountInv
  <2>4. WithStatus("driven")' \ Claimed' = WithStatus("driven") \ Claimed
    BY <2>2, <2>3
  <2>5. \A u \in Segments : state'[u].status # "undriveable"
    BY <1>c, <2>1 DEF RowTypes, DrivenRow, ExactInv
  <2>6. pc[c] = "states"
    BY DEF UpdateState
  <2>7. \A d \in Drivers : pc'[d] \in {"idle", "done"} => newly'[d] = {}
    BY <1>1, <2>1, <2>6 DEF ExactInv, CountInv
  <2>8. area' = Counted(WithStatus("driven")' \ Claimed')
    BY <1>1, <2>4 DEF ExactInv
  <2> QED BY <1>c, <1>1, <2>5, <2>7, <2>8 DEF ExactInv, Counted
<1>4. QED
  BY <1>2, <1>3

LEMMA ExactApply ==
    ASSUME ExactInv, NEW c \in Drivers, ApplyDrive(c)
    PROVE  ExactInv'
<1>c. CountInv'
  BY CountApply DEF ExactInv
<1>1. /\ newly' = [newly EXCEPT ![c] = {}] /\ state' = state
      /\ pc' = [pc EXCEPT ![c] = "done"] /\ c \in Requests
  BY DEF ApplyDrive, Goto, Requests
<1> DEFINE driven == WithStatus("driven")
           mine   == newly[c]
           rest   == driven \ Claimed
<1>2. driven' = driven
  BY <1>1 DEF WithStatus
<1>3. driven \in SUBSET Segments /\ mine \in SUBSET Segments /\ mine \subseteq driven /\ mine \subseteq Claimed
  BY DEF WithStatus, ExactInv, CountInv, EachSegmentCountedOnce, Claimed
<1>4. Claimed' = Claimed \ mine
  BY <1>1 DEF Claimed, ExactInv, CountInv, EachSegmentCountedOnce
<1>5. driven' \ Claimed' = rest \cup mine /\ rest \cap mine = {}
  BY <1>2, <1>3, <1>4
<1>6. area = Counted(rest)
  BY DEF ExactInv
<1>7. area' = Counted(rest \cup mine)
  <2>1. CASE mine = {}
    <3>1. rest \cup mine = rest
      BY <2>1
    <3> QED BY <2>1, <3>1, <1>6 DEF ApplyDrive
  <2>2. CASE mine # {}
    <3>1. ApplyDelta(Counted(mine))
      BY <2>2 DEF ApplyDrive, Counted
    <3>2. rest \in SUBSET Segments
      BY <1>3
    <3> HIDE DEF rest, mine
    <3> QED BY <3>1, <3>2, <1>3, <1>5, <1>6, DeltaExact
  <2> QED BY <2>1, <2>2
<1>8. area' = Counted(driven' \ Claimed')
  BY <1>5, <1>7
<1>9. \A d \in Drivers : pc'[d] \in {"idle", "done"} => newly'[d] = {}
  BY <1>1 DEF ExactInv, CountInv, Requests
<1>10. QED
  BY <1>c, <1>1, <1>8, <1>9 DEF ExactInv, Counted

(* CountersExact: "concurrent callers can identify the exact newly driven  *)
(* set" and lose no increments. When any number of driving requests, in    *)
(* any interleaving, have run to their end, the cached counters and miles  *)
(* are those of the rows.                                                  *)
THEOREM CountersAreExact ==
    ASSUME Editors = {}, Refreshes = {}
    PROVE  Spec => []CountersExact
<1>1. Init => ExactInv
  <2> SUFFICES ASSUME Init PROVE ExactInv
    OBVIOUS
  <2>1. RowTypes /\ newly \in [Drivers -> SUBSET Segments] /\ \A c \in Drivers : newly[c] = {}
    <3>1. NoRow \in Rows
      BY DEF NoRow, Rows
    <3> QED BY <3>1 DEF Init, RowTypes
  <2>2. WithStatus("driven") \ Claimed = {} /\ Claimed = {} /\ WithStatus("driven") = {}
    BY DEF Init, WithStatus, NoRow, Claimed
  <2>3. Cardinality({}) = 0 /\ Miles({}) = 0
    BY FS_EmptySet, NoMiles
  <2>4. area = Counted({})
    BY <2>3 DEF Init, Counted
  <2>5. CountInv
    BY <2>1, <2>2, <2>3, <2>4 DEF CountInv, EachSegmentCountedOnce, Counted
  <2>6. \A s \in Segments : state[s].status # "undriveable"
    BY DEF Init, NoRow
  <2> QED BY <2>1, <2>2, <2>4, <2>5, <2>6 DEF Init, ExactInv
<1>2. ExactInv /\ [Next]_vars => ExactInv'
  <2>1. ASSUME ExactInv, NEW c \in Drivers, DriverStep(c) PROVE ExactInv'
    <3>r. RowTypes /\ RowTypes' /\ c \in Requests
      BY <2>1, DriverRows DEF ExactInv, CountInv, Requests
    <3>1. CASE StartDrive(c)
      <4>1. CountInv'
        BY <2>1, <3>1, <3>r, CountKept DEF StartDrive, ExactInv
      <4> QED BY <2>1, <3>1, <3>r, <4>1, ExactKept DEF StartDrive, ExactInv, Goto, Requests
    <3>2. ASSUME NEW s \in Segments, UpdateState(c, s) PROVE ExactInv'
      BY <2>1, <3>2, ExactUpdate
    <3>3. ASSUME NEW s \in Segments, RetryState(c, s) PROVE ExactInv'
      <4>1. Merged(state[s], drive[c]).status = state[s].status
        BY <3>r, RowFacts DEF RowTypes
      <4>2. \A u \in Segments : state'[u].status = state[u].status
        BY <3>r, <3>3, <4>1 DEF RetryState, Accept, RowTypes
      <4>3. UNCHANGED <<area, newly, pc>>
        BY <3>3 DEF RetryState
      <4>4. CountInv'
        BY <2>1, <3>r, <4>2, <4>3, CountKept DEF ExactInv
      <4> QED BY <2>1, <4>2, <4>3, <4>4, ExactKept DEF ExactInv
    <3>4. ASSUME NEW s \in Segments, Attribute(c, s) PROVE ExactInv'
      <4>1. \A u \in Segments : state'[u].status = state[u].status
        BY <3>r, <3>4 DEF Attribute, RowTypes, Rows
      <4>2. UNCHANGED <<area, newly, pc>>
        BY <3>4 DEF Attribute
      <4>3. CountInv'
        BY <2>1, <3>r, <4>1, <4>2, CountKept DEF ExactInv
      <4> QED BY <2>1, <4>1, <4>2, <4>3, ExactKept DEF ExactInv
    <3>5. CASE ApplyDrive(c)
      BY <2>1, <3>5, ExactApply
    <3> QED BY <2>1, <3>1, <3>2, <3>3, <3>4, <3>5 DEF DriverStep
  <2>2. ASSUME ExactInv, NEW c \in Requests, RequestDies(c) PROVE ExactInv'
    <3>1. UNCHANGED <<state, area, newly>> /\ RowTypes' /\ pc' = [pc EXCEPT ![c] = "dead"]
      BY <2>2, OtherRows DEF ExactInv, CountInv, RequestDies, driverVars, Goto
    <3>2. CountInv'
      BY <2>2, <3>1, CountKept DEF ExactInv
    <3> QED BY <2>2, <3>1, <3>2, ExactKept DEF ExactInv, Requests
  <2>3. ASSUME ExactInv, UNCHANGED vars PROVE ExactInv'
    <3>1. RowTypes' /\ UNCHANGED <<state, area, newly, pc>>
      BY <2>3 DEF ExactInv, CountInv, RowTypes, vars, driverVars, editorVars
    <3>2. CountInv'
      BY <2>3, <3>1, CountKept DEF ExactInv
    <3> QED BY <2>3, <3>1, <3>2, ExactKept DEF ExactInv
  <2> QED BY <2>1, <2>2, <2>3 DEF Next
<1>3. ExactInv => CountersExact
  <2> SUFFICES ASSUME ExactInv, Quiet PROVE area = Truth
    BY DEF CountersExact
  <2>1. \A c \in Drivers : newly[c] = {}
    BY DEF Quiet, ExactInv, Requests
  <2>2. WithStatus("driven") \ Claimed = WithStatus("driven")
    BY <2>1 DEF Claimed
  <2>3. WithStatus("undriveable") = {}
    BY DEF WithStatus, ExactInv
  <2>4. Cardinality({}) = 0 /\ Miles({}) = 0
    BY FS_EmptySet, NoMiles
  <2>5. area = Counted(WithStatus("driven"))
    BY <2>2 DEF ExactInv
  <2> QED BY <2>3, <2>4, <2>5 DEF Truth, Counted
<1>4. QED
  BY <1>1, <1>2, <1>3, PTL DEF Spec

-----------------------------------------------------------------------------
(* Times and attribution.                                                  *)

(* Request c has merged its drive into the row of s.                       *)
Applied(c, s) ==
    pc[c] # "idle" /\ s \in drive[c].segs /\ s \notin todo[c] /\ s \notin dup[c]

(* What a driver remembers of its segments.                                *)
DriverSound ==
    /\ RowTypes
    /\ pc \in [Requests -> {"idle", "states", "write", "delta", "done", "dead"}]
    /\ todo \in [Drivers -> SUBSET Segments]
    /\ dup \in [Drivers -> SUBSET Segments]
    /\ accepted \in [Drivers -> SUBSET Segments]
    /\ \A c \in Drivers :
          /\ pc[c] # "idle" => drive[c] \in Drives
          /\ pc[c] = "idle" => todo[c] = {} /\ dup[c] = {} /\ accepted[c] = {}
          /\ pc[c] = "done" => todo[c] = {} /\ dup[c] = {} /\ accepted[c] = {}
          /\ todo[c] \cup dup[c] \cup accepted[c] \subseteq drive[c].segs
          /\ todo[c] \cap dup[c] = {}
    /\ \A s \in Segments : state[s].status # "undriveable"
    /\ \A c \in Drivers : \A s \in dup[c] : state[s].status = "driven"

(* The row lies around every drive merged into it.                         *)
Around ==
    \A c \in Drivers, s \in Segments :
        Applied(c, s) => /\ state[s].status = "driven"
                         /\ state[s].first <= drive[c].first
                         /\ drive[c].last <= state[s].last

(* Its times are those of merged drives, and its trip is the one of a      *)
(* latest drive unless a request with a latest drive has yet to write it.  *)
Attained ==
    \A s \in Segments : state[s].status = "driven" =>
        /\ \E c \in Drivers : Applied(c, s) /\ drive[c].first = state[s].first
        /\ \E c \in Drivers : /\ Applied(c, s) /\ drive[c].last = state[s].last
                              /\ s \in accepted[c] \/ state[s].by = drive[c].trip

LatestInv == DriverSound /\ Around /\ Attained

(* Merging keeps the earlier first and the later last time.                *)
LEMMA MergedTimes ==
    ASSUME RowTypes, NEW c \in Drivers, NEW r \in Rows
    PROVE  LET m == Merged(r, drive[c]) IN
           /\ m.first <= r.first /\ m.first <= drive[c].first
           /\ r.last <= m.last /\ drive[c].last <= m.last
           /\ m.first \in {r.first, drive[c].first} /\ m.last \in {r.last, drive[c].last}
           /\ m.first \in Nat /\ m.last \in Nat
           /\ m.by = r.by
<1>1. drive[c].first \in Nat /\ drive[c].last \in Nat
  BY DriveFacts
<1>2. r.first \in Nat /\ r.last \in Nat
  BY DEF Rows
<1>3. /\ Merged(r, drive[c]).first = IF drive[c].first < r.first THEN drive[c].first ELSE r.first
      /\ Merged(r, drive[c]).last = IF drive[c].last > r.last THEN drive[c].last ELSE r.last
      /\ Merged(r, drive[c]).by = r.by
  BY <1>1, <1>2 DEF Merged, Rows
<1>4. QED
  BY <1>1, <1>2, <1>3

(* Request c merges its drive into segment s: both branches of             *)
(* UpdateState that accept the segment, and the retry.                     *)
LEMMA MergeStep ==
    ASSUME LatestInv, NEW c \in Drivers, NEW s \in Segments, pc[c] = "states",
           s \in todo[c] \/ s \in dup[c], DriverSound', UNCHANGED <<pc, drive>>,
           \A d \in Drivers : /\ todo'[d] = IF d = c THEN todo[c] \ {s} ELSE todo[d]
                              /\ dup'[d] = IF d = c THEN dup[c] \ {s} ELSE dup[d]
                              /\ accepted'[d] = IF d = c THEN accepted[c] \cup {s} ELSE accepted[d],
           NEW r \in Rows, state' = [state EXCEPT ![s] = r], r.status = "driven",
           \/ /\ state[s].status = "undriven"
              /\ r.first = drive[c].first /\ r.last = drive[c].last
           \/ /\ state[s].status = "driven"
              /\ r = Merged(state[s], drive[c])
    PROVE  LatestInv'
<1> USE DEF LatestInv
<1>t. /\ RowTypes
      /\ \A d \in Drivers : drive[d].first \in Nat /\ drive[d].last \in Nat
  BY DriveFacts DEF DriverSound
<1>s. s \in drive[c].segs
  BY DEF DriverSound
<1>1. \A d \in Drivers, u \in Segments :
         Applied(d, u)' <=> Applied(d, u) \/ (d = c /\ u = s)
  BY <1>s DEF Applied
<1>2. \A u \in Segments : state'[u] = IF u = s THEN r ELSE state[u]
  BY <1>t DEF RowTypes
<1>3. \A u \in Segments : /\ state[u] \in Rows /\ state[u].first \in Nat /\ state[u].last \in Nat
  BY <1>t DEF RowTypes, Rows
<1>4. CASE state[s].status = "undriven" /\ r.first = drive[c].first /\ r.last = drive[c].last
  <2>1. \A d \in Drivers : ~Applied(d, s)
    BY <1>4 DEF Around
  <2>2. Around'
    <3> SUFFICES ASSUME NEW d \in Drivers, NEW u \in Segments, Applied(d, u)'
                 PROVE  /\ state'[u].status = "driven" /\ state'[u].first <= drive'[d].first
                        /\ drive'[d].last <= state'[u].last
      BY DEF Around
    <3>1. CASE u = s
      BY <3>1, <1>1, <1>2, <1>4, <1>t, <2>1
    <3>2. CASE u # s
      BY <3>2, <1>1, <1>2, <1>t DEF Around
    <3> QED BY <3>1, <3>2
  <2>3. Attained'
    <3> SUFFICES ASSUME NEW u \in Segments, state'[u].status = "driven"
                 PROVE  /\ \E d \in Drivers : Applied(d, u)' /\ drive'[d].first = state'[u].first
                        /\ \E d \in Drivers : /\ Applied(d, u)' /\ drive'[d].last = state'[u].last
                                              /\ u \in accepted'[d] \/ state'[u].by = drive'[d].trip
      BY DEF Attained
    <3>1. CASE u = s
      BY <3>1, <1>1, <1>2, <1>4
    <3>2. CASE u # s
      BY <3>2, <1>1, <1>2 DEF Attained
    <3> QED BY <3>1, <3>2
  <2> QED BY <2>2, <2>3
<1>5. CASE state[s].status = "driven" /\ r = Merged(state[s], drive[c])
  <2>1. /\ r.first <= state[s].first /\ r.first <= drive[c].first
        /\ state[s].last <= r.last /\ drive[c].last <= r.last
        /\ r.first \in {state[s].first, drive[c].first} /\ r.last \in {state[s].last, drive[c].last}
        /\ r.first \in Nat /\ r.last \in Nat /\ r.by = state[s].by
    BY <1>5, <1>t, <1>3, MergedTimes
  <2>2. Around'
    <3> SUFFICES ASSUME NEW d \in Drivers, NEW u \in Segments, Applied(d, u)'
                 PROVE  /\ state'[u].status = "driven" /\ state'[u].first <= drive'[d].first
                        /\ drive'[d].last <= state'[u].last
      BY DEF Around
    <3>1. CASE u = s /\ d = c
      BY <3>1, <1>2, <2>1
    <3>2. CASE u = s /\ d # c
      <4>1. Applied(d, s) /\ state[s].first <= drive[d].first /\ drive[d].last <= state[s].last
        BY <3>2, <1>1 DEF Around
      <4> QED BY <3>2, <4>1, <1>2, <1>3, <1>t, <2>1
    <3>3. CASE u # s
      BY <3>3, <1>1, <1>2 DEF Around
    <3> QED BY <3>1, <3>2, <3>3
  <2>3. Attained'
    <3> SUFFICES ASSUME NEW u \in Segments, state'[u].status = "driven"
                 PROVE  /\ \E d \in Drivers : Applied(d, u)' /\ drive'[d].first = state'[u].first
                        /\ \E d \in Drivers : /\ Applied(d, u)' /\ drive'[d].last = state'[u].last
                                              /\ u \in accepted'[d] \/ state'[u].by = drive'[d].trip
      BY DEF Attained
    <3>1. CASE u = s
      <4>1. PICK d1 \in Drivers : Applied(d1, s) /\ drive[d1].first = state[s].first
        BY <1>5 DEF Attained
      <4>2. PICK d2 \in Drivers : /\ Applied(d2, s) /\ drive[d2].last = state[s].last
                                  /\ s \in accepted[d2] \/ state[s].by = drive[d2].trip
        BY <1>5 DEF Attained
      <4>3. \E d \in Drivers : Applied(d, u)' /\ drive'[d].first = state'[u].first
        BY <3>1, <4>1, <1>1, <1>2, <2>1
      <4>4. \E d \in Drivers : /\ Applied(d, u)' /\ drive'[d].last = state'[u].last
                               /\ u \in accepted'[d] \/ state'[u].by = drive'[d].trip
        <5>1. CASE r.last = drive[c].last
          BY <5>1, <3>1, <1>1, <1>2
        <5>2. CASE r.last = state[s].last
          BY <5>2, <3>1, <4>2, <1>1, <1>2, <2>1
        <5> QED BY <5>1, <5>2, <2>1
      <4> QED BY <4>3, <4>4
    <3>2. CASE u # s
      BY <3>2, <1>1, <1>2 DEF Attained
    <3> QED BY <3>1, <3>2
  <2> QED BY <2>2, <2>3
<1>6. QED
  BY <1>4, <1>5

(* A driver's step keeps its memory sound. Only here is it used that every *)
(* drive has a trip: a drive without one ends with segments unattributed.  *)
LEMMA DriverSoundStep ==
    ASSUME DriverSound, Editors = {}, \A d \in Drives : d.trip # NoTrip,
           NEW c \in Drivers, DriverStep(c)
    PROVE  DriverSound'
<1> USE DEF DriverSound
<1>r. /\ RowTypes' /\ c \in Requests
      /\ \A s \in Segments : state'[s] = state[s] \/ state'[s].status = "driven"
  BY DriverRows DEF Requests
<1>d. \A s \in Segments : state[s].status = "driven" => state'[s].status = "driven"
  BY <1>r
<1>u. \A s \in Segments : state'[s].status # "undriveable"
  BY <1>r
<1>1. CASE StartDrive(c)
  <2>1. PICK d \in Drives : drive' = [drive EXCEPT ![c] = d] /\ todo' = [todo EXCEPT ![c] = d.segs]
    BY <1>1 DEF StartDrive
  <2>2. d.segs \in SUBSET Segments
    BY DrivesAssumption
  <2>3. /\ pc[c] = "idle" /\ pc' = [pc EXCEPT ![c] = "states"]
        /\ UNCHANGED <<state, dup, accepted>>
    BY <1>1 DEF StartDrive, Goto
  <2>4. \A e \in Drivers :
          /\ drive'[e] = IF e = c THEN d ELSE drive[e]
          /\ todo'[e] = IF e = c THEN d.segs ELSE todo[e]
          /\ pc'[e] = IF e = c THEN "states" ELSE pc[e]
    BY <1>r, <2>1, <2>3 DEF RowTypes, Requests
  <2> QED BY <1>r, <1>u, <2>1, <2>2, <2>3, <2>4
<1>2. ASSUME NEW s \in Segments, UpdateState(c, s) PROVE DriverSound'
  <2>1. /\ pc[c] = "states" /\ s \in todo[c]
        /\ todo' = [todo EXCEPT ![c] = @ \ {s}]
        /\ UNCHANGED <<pc, drive>>
    BY <1>2 DEF UpdateState
  <2>2. dup' = dup \/ (dup' = [dup EXCEPT ![c] = @ \cup {s}] /\ state[s].status # "undriven")
    BY <1>2 DEF UpdateState
  <2>3. accepted' = accepted \/ accepted' = [accepted EXCEPT ![c] = @ \cup {s}]
    BY <1>2 DEF UpdateState, Accept
  <2>4. state[s].status \in {"undriven", "driven"}
    BY DEF RowTypes, Rows
  <2>5. \A e \in Drivers : \A u \in dup'[e] : state'[u].status = "driven"
    BY <1>d, <2>2, <2>4
  <2>6. s \in drive[c].segs
    BY <2>1
  <2> QED BY <1>r, <1>u, <2>1, <2>2, <2>3, <2>5, <2>6
<1>3. ASSUME NEW s \in Segments, RetryState(c, s) PROVE DriverSound'
  <2>1. /\ pc[c] = "states" /\ s \in dup[c] /\ s \in drive[c].segs
        /\ dup' = [dup EXCEPT ![c] = @ \ {s}]
        /\ UNCHANGED <<pc, drive, todo>>
    BY <1>3 DEF RetryState
  <2>2. accepted' = accepted \/ accepted' = [accepted EXCEPT ![c] = @ \cup {s}]
    BY <1>3 DEF RetryState, Accept
  <2> QED BY <1>r, <1>d, <1>u, <2>1, <2>2
<1>4. ASSUME NEW s \in Segments, Attribute(c, s) PROVE DriverSound'
  <2>1. /\ pc[c] = "states"
        /\ accepted' = [accepted EXCEPT ![c] = @ \ {s}]
        /\ UNCHANGED <<pc, drive, todo, dup>>
    BY <1>4 DEF Attribute, StatesDone
  <2> QED BY <1>r, <1>d, <1>u, <2>1
<1>5. CASE ApplyDrive(c)
  <2>1. /\ pc[c] = "states" /\ todo[c] = {} /\ dup[c] = {} /\ accepted[c] = {}
        /\ pc' = [pc EXCEPT ![c] = "done"]
        /\ UNCHANGED <<state, drive, todo, dup, accepted>>
    BY <1>5 DEF ApplyDrive, StatesDone, Goto
  <2>2. \A e \in Drivers : pc'[e] = IF e = c THEN "done" ELSE pc[e]
    BY <2>1 DEF Requests
  <2> QED BY <1>r, <1>u, <2>1, <2>2
<1>6. QED
  BY <1>1, <1>2, <1>3, <1>4, <1>5 DEF DriverStep

(* Steps that merge nothing.                                               *)
LEMMA LatestKept ==
    ASSUME LatestInv, DriverSound', UNCHANGED <<state, accepted>>,
           \A c \in Drivers, s \in Segments : Applied(c, s)' <=> Applied(c, s),
           \A c \in Drivers : pc[c] # "idle" => drive'[c] = drive[c]
    PROVE  LatestInv'
<1>1. \A c \in Drivers, s \in Segments : Applied(c, s) => drive'[c] = drive[c]
  BY DEF Applied
<1>2. Around'
  BY <1>1 DEF LatestInv, Around
<1>3. Attained'
  BY <1>1 DEF LatestInv, Attained
<1>4. QED
  BY <1>2, <1>3 DEF LatestInv

(* Writing the trip: only where the drive is still a latest one.           *)
LEMMA AttributeStep ==
    ASSUME LatestInv, DriverSound', NEW c \in Drivers, NEW s \in Segments, Attribute(c, s)
    PROVE  LatestInv'
<1> USE DEF LatestInv
<1>1. /\ UNCHANGED <<pc, drive, todo, dup>> /\ todo[c] = {} /\ dup[c] = {}
      /\ pc[c] = "states" /\ s \in accepted[c]
      /\ \A d \in Drivers : accepted'[d] = IF d = c THEN accepted[c] \ {s} ELSE accepted[d]
  BY DEF Attribute, StatesDone, DriverSound
<1>2. \A d \in Drivers, u \in Segments : Applied(d, u)' <=> Applied(d, u)
  BY <1>1 DEF Applied
<1>3. \A u \in Segments : /\ state'[u].status = state[u].status /\ state'[u].first = state[u].first
                          /\ state'[u].last = state[u].last
                          /\ u # s => state'[u].by = state[u].by
  BY DEF Attribute, DriverSound, RowTypes, Rows
<1>4. \/ state' = state /\ ~(state[s].status = "driven" /\ state[s].last = drive[c].last)
      \/ /\ state'[s].by = drive[c].trip
         /\ state[s].status = "driven" /\ state[s].last = drive[c].last
  BY DEF Attribute, DriverSound, RowTypes, Rows
<1>5. Around'
  BY <1>1, <1>2, <1>3 DEF Around
<1>6. Attained'
  <2> SUFFICES ASSUME NEW u \in Segments, state'[u].status = "driven"
               PROVE  /\ \E d \in Drivers : Applied(d, u)' /\ drive'[d].first = state'[u].first
                      /\ \E d \in Drivers : /\ Applied(d, u)' /\ drive'[d].last = state'[u].last
                                            /\ u \in accepted'[d] \/ state'[u].by = drive'[d].trip
    BY DEF Attained
  <2>1. \E d \in Drivers : Applied(d, u)' /\ drive'[d].first = state'[u].first
    BY <1>1, <1>2, <1>3 DEF Attained
  <2>2. PICK d \in Drivers : /\ Applied(d, u) /\ drive[d].last = state[u].last
                             /\ u \in accepted[d] \/ state[u].by = drive[d].trip
    BY <1>3 DEF Attained
  <2>3. CASE u # s
    BY <2>1, <2>2, <2>3, <1>1, <1>2, <1>3
  <2>4. CASE u = s /\ state'[s].by = drive[c].trip /\ state[s].last = drive[c].last
    <3>1. Applied(c, s)
      BY <1>1 DEF Applied, DriverSound
    <3> QED BY <2>1, <2>4, <3>1, <1>1, <1>2, <1>3
  <2>5. CASE u = s /\ state' = state /\ state[s].last # drive[c].last
    <3>1. d # c
      BY <2>2, <2>5
    <3> QED BY <2>1, <2>2, <2>5, <3>1, <1>1, <1>2
  <2> QED BY <2>3, <2>4, <2>5, <1>3, <1>4
<1>7. QED
  BY <1>5, <1>6

LEMMA LatestStep ==
    ASSUME LatestInv, Editors = {}, \A d \in Drives : d.trip # NoTrip,
           NEW c \in Drivers, DriverStep(c)
    PROVE  LatestInv'
<1>s. DriverSound /\ DriverSound' /\ RowTypes /\ c \in Requests
  BY DriverSoundStep DEF LatestInv, DriverSound, Requests
<1>1. CASE StartDrive(c)
  <2>1. PICK d \in Drives : drive' = [drive EXCEPT ![c] = d] /\ todo' = [todo EXCEPT ![c] = d.segs]
    BY <1>1 DEF StartDrive
  <2>2. /\ pc[c] = "idle" /\ pc' = [pc EXCEPT ![c] = "states"]
        /\ UNCHANGED <<state, dup, accepted>>
    BY <1>1 DEF StartDrive, Goto
  <2>3. \A e \in Drivers :
          /\ drive'[e] = IF e = c THEN d ELSE drive[e]
          /\ todo'[e] = IF e = c THEN d.segs ELSE todo[e]
          /\ pc'[e] = IF e = c THEN "states" ELSE pc[e]
    BY <1>s, <2>1, <2>2 DEF RowTypes, Requests, DriverSound
  <2>4. \A e \in Drivers, s \in Segments : Applied(e, s)' <=> Applied(e, s)
    BY <2>2, <2>3 DEF Applied
  <2> QED BY <1>s, <2>2, <2>3, <2>4, LatestKept
<1>2. ASSUME NEW s \in Segments, UpdateState(c, s) PROVE LatestInv'
  <2>1. /\ pc[c] = "states" /\ s \in todo[c] /\ UNCHANGED <<pc, drive>>
        /\ todo' = [todo EXCEPT ![c] = @ \ {s}]
    BY <1>2 DEF UpdateState
  <2>2. CASE dup' = [dup EXCEPT ![c] = @ \cup {s}] /\ UNCHANGED <<state, accepted>>
    <3>1. \A e \in Drivers, u \in Segments : Applied(e, u)' <=> Applied(e, u)
      BY <1>s, <2>1, <2>2 DEF Applied, DriverSound
    <3> QED BY <1>s, <2>1, <2>2, <3>1, LatestKept
  <2>3. ASSUME UNCHANGED dup, accepted' = [accepted EXCEPT ![c] = @ \cup {s}],
               NEW r \in Rows, state' = [state EXCEPT ![s] = r], r.status = "driven",
               \/ /\ state[s].status = "undriven"
                  /\ r.first = drive[c].first /\ r.last = drive[c].last
               \/ /\ state[s].status = "driven"
                  /\ r = Merged(state[s], drive[c])
        PROVE  LatestInv'
    <3>1. s \notin dup[c]
      BY <1>s, <2>1 DEF DriverSound
    <3>2. \A d \in Drivers : /\ todo'[d] = IF d = c THEN todo[c] \ {s} ELSE todo[d]
                             /\ dup'[d] = IF d = c THEN dup[c] \ {s} ELSE dup[d]
                             /\ accepted'[d] = IF d = c THEN accepted[c] \cup {s} ELSE accepted[d]
      BY <1>s, <2>1, <2>3, <3>1 DEF DriverSound
    <3> QED BY <1>s, <2>1, <2>3, <3>2, MergeStep
  <2>4. DrivenRow(ids + 1, drive[c]) \in Rows
    <3>1. ids + 1 \in Nat
      BY <1>s DEF RowTypes
    <3> QED BY <1>s, <3>1, RowFacts
  <2>5. /\ DrivenRow(ids + 1, drive[c]).status = "driven"
        /\ DrivenRow(ids + 1, drive[c]).first = drive[c].first
        /\ DrivenRow(ids + 1, drive[c]).last = drive[c].last
    BY DEF DrivenRow
  <2>6. /\ Merged(state[s], drive[c]) \in Rows
        /\ Merged(state[s], drive[c]).status = state[s].status
    BY <1>s, RowFacts DEF RowTypes
  <2>7. \/ dup' = [dup EXCEPT ![c] = @ \cup {s}] /\ UNCHANGED <<state, accepted>>
        \/ /\ UNCHANGED dup /\ accepted' = [accepted EXCEPT ![c] = @ \cup {s}]
           /\ \/ /\ state[s].status = "undriven"
                 /\ state' = [state EXCEPT ![s] = DrivenRow(ids + 1, drive[c])]
              \/ /\ state[s].status = "driven"
                 /\ state' = [state EXCEPT ![s] = Merged(state[s], drive[c])]
    BY <1>2 DEF UpdateState, Accept
  <2> QED BY <2>2, <2>3, <2>4, <2>5, <2>6, <2>7
<1>3. ASSUME NEW s \in Segments, RetryState(c, s) PROVE LatestInv'
  <2>1. /\ pc[c] = "states" /\ s \in dup[c] /\ UNCHANGED <<pc, drive, todo>>
        /\ dup' = [dup EXCEPT ![c] = @ \ {s}]
        /\ state[s].status = "driven"
        /\ accepted' = [accepted EXCEPT ![c] = @ \cup {s}]
        /\ state' = [state EXCEPT ![s] = Merged(state[s], drive[c])]
    BY <1>3, <1>s DEF RetryState, Accept, DriverSound
  <2>2. /\ Merged(state[s], drive[c]) \in Rows
        /\ Merged(state[s], drive[c]).status = state[s].status
    BY <1>s, RowFacts DEF RowTypes
  <2>3. \A d \in Drivers : /\ todo'[d] = todo[d]
                           /\ dup'[d] = IF d = c THEN dup[c] \ {s} ELSE dup[d]
                           /\ accepted'[d] = IF d = c THEN accepted[c] \cup {s} ELSE accepted[d]
    BY <1>s, <2>1 DEF DriverSound
  <2>4. s \notin todo[c]
    BY <1>s, <2>1 DEF DriverSound
  <2>5. \A d \in Drivers : todo'[d] = IF d = c THEN todo[c] \ {s} ELSE todo[d]
    BY <2>3, <2>4
  <2> QED BY <1>s, <2>1, <2>2, <2>3, <2>5, MergeStep
<1>4. ASSUME NEW s \in Segments, Attribute(c, s) PROVE LatestInv'
  BY <1>4, <1>s, AttributeStep
<1>5. CASE ApplyDrive(c)
  <2>1. /\ pc[c] = "states" /\ pc' = [pc EXCEPT ![c] = "done"]
        /\ UNCHANGED <<state, drive, todo, dup, accepted>>
    BY <1>5 DEF ApplyDrive, StatesDone, Goto
  <2>2. \A e \in Drivers, s \in Segments : Applied(e, s)' <=> Applied(e, s)
    BY <1>s, <2>1 DEF Applied, DriverSound, Requests
  <2> QED BY <1>s, <2>1, <2>2, LatestKept
<1>6. QED
  BY <1>1, <1>2, <1>3, <1>4, <1>5 DEF DriverStep

(* LatestDriveWins: trips and backfills may arrive and interleave in any   *)
(* order; when all have ended, a segment shows the earliest and the latest *)
(* of their times and the trip of a latest one. Every drive has a trip     *)
(* here, as those of trips and backfills do.                               *)
THEOREM LatestWins ==
    ASSUME Editors = {}, \A d \in Drives : d.trip # NoTrip
    PROVE  Spec => []LatestDriveWins
<1>1. Init => LatestInv
  <2> SUFFICES ASSUME Init PROVE LatestInv
    OBVIOUS
  <2>1. NoRow \in Rows /\ NoRow.status = "undriven"
    BY DEF NoRow, Rows
  <2>2. RowTypes
    BY <2>1 DEF Init, RowTypes
  <2>3. /\ \A c \in Drivers : pc[c] = "idle" /\ todo[c] = {} /\ dup[c] = {} /\ accepted[c] = {}
        /\ \A s \in Segments : state[s].status = "undriven"
    BY <2>1 DEF Init, Requests
  <2>4. DriverSound
    BY <2>2, <2>3 DEF Init, DriverSound
  <2>5. Around /\ Attained
    BY <2>3 DEF Around, Attained, Applied
  <2> QED BY <2>4, <2>5 DEF LatestInv
<1>2. LatestInv /\ [Next]_vars => LatestInv'
  <2>1. ASSUME LatestInv, NEW c \in Drivers, DriverStep(c) PROVE LatestInv'
    BY <2>1, LatestStep
  <2>2. ASSUME LatestInv, NEW c \in Requests, RequestDies(c) PROVE LatestInv'
    <3>1. /\ pc[c] \notin {"idle", "done", "dead"} /\ pc' = [pc EXCEPT ![c] = "dead"]
          /\ UNCHANGED <<state, ids, drive, todo, dup, accepted, seen>>
      BY <2>2 DEF RequestDies, Goto, driverVars, editorVars
    <3>2. \A e \in Drivers : pc'[e] = pc[e] \/ (pc[e] \notin {"idle", "done"} /\ pc'[e] = "dead")
      BY <2>2, <3>1 DEF LatestInv, DriverSound, Requests
    <3>3. RowTypes' /\ pc' \in [Requests -> {"idle", "states", "write", "delta", "done", "dead"}]
      BY <2>2, <3>1 DEF LatestInv, DriverSound, RowTypes
    <3>4. DriverSound'
      BY <2>2, <3>1, <3>2, <3>3 DEF LatestInv, DriverSound
    <3>5. \A e \in Drivers, s \in Segments : Applied(e, s)' <=> Applied(e, s)
      BY <3>1, <3>2 DEF Applied
    <3> QED BY <2>2, <3>1, <3>4, <3>5, LatestKept
  <2>3. ASSUME LatestInv, NEW k \in Refreshes, ComputeStats(k) \/ SaveStats(k) PROVE LatestInv'
    <3>1. UNCHANGED <<state, ids, pc, drive, todo, dup, accepted, seen>>
      BY <2>3 DEF ComputeStats, SaveStats, driverVars, editorVars
    <3>2. DriverSound' /\ \A e \in Drivers, s \in Segments : Applied(e, s)' <=> Applied(e, s)
      BY <2>3, <3>1 DEF LatestInv, DriverSound, RowTypes, Applied
    <3> QED BY <2>3, <3>1, <3>2, LatestKept
  <2>4. ASSUME LatestInv, UNCHANGED vars PROVE LatestInv'
    <3>1. UNCHANGED <<state, ids, pc, drive, todo, dup, accepted, seen>>
      BY <2>4 DEF vars, driverVars, editorVars
    <3>2. DriverSound' /\ \A e \in Drivers, s \in Segments : Applied(e, s)' <=> Applied(e, s)
      BY <2>4, <3>1 DEF LatestInv, DriverSound, RowTypes, Applied
    <3> QED BY <2>4, <3>1, <3>2, LatestKept
  <2> QED BY <2>1, <2>2, <2>3, <2>4 DEF Next
<1>3. LatestInv => LatestDriveWins
  <2> SUFFICES ASSUME LatestInv, Quiet, NEW s \in Segments, Done(s) # {}
               PROVE  /\ state[s].first = Min({d.first : d \in Done(s)})
                      /\ state[s].last  = Max({d.last : d \in Done(s)})
                      /\ \E d \in Done(s) : d.trip = state[s].by /\ d.last = state[s].last
    BY DEF LatestDriveWins
  <2>t. /\ state[s].first \in Nat /\ state[s].last \in Nat
        /\ \A c \in Drivers : drive[c].first \in Nat /\ drive[c].last \in Nat
    BY DriveFacts DEF LatestInv, DriverSound, RowTypes, Rows
  <2>1. \A c \in Drivers : Applied(c, s) <=> pc[c] = "done" /\ s \in drive[c].segs
    BY DEF Quiet, Applied, LatestInv, DriverSound, Requests
  <2>2. \A d \in Done(s) : \E c \in Drivers : Applied(c, s) /\ d = drive[c]
    BY <2>1 DEF Done
  <2>3. \A c \in Drivers : Applied(c, s) => drive[c] \in Done(s) /\ accepted[c] = {}
    BY <2>1 DEF Done, LatestInv, DriverSound
  <2>4. state[s].status = "driven"
    BY <2>2 DEF LatestInv, Around
  <2>5. PICK c1 \in Drivers : Applied(c1, s) /\ drive[c1].first = state[s].first
    BY <2>4 DEF LatestInv, Attained
  <2>6. PICK c2 \in Drivers : /\ Applied(c2, s) /\ drive[c2].last = state[s].last
                              /\ s \in accepted[c2] \/ state[s].by = drive[c2].trip
    BY <2>4 DEF LatestInv, Attained
  <2>7. \A d \in Done(s) : /\ d.first \in Nat /\ d.last \in Nat
                           /\ state[s].first <= d.first /\ d.last <= state[s].last
    BY <2>2, <2>t DEF LatestInv, Around
  <2>8. state[s].first = Min({d.first : d \in Done(s)})
    <3> DEFINE S == {d.first : d \in Done(s)}
    <3>1. state[s].first \in S /\ \A y \in S : y \in Nat /\ state[s].first <= y
      BY <2>3, <2>5, <2>7
    <3> HIDE DEF S
    <3>2. \A x \in S : (\A y \in S : x <= y) => x = state[s].first
      BY <2>t, <3>1
    <3>3. state[s].first = Min(S)
      BY <3>1, <3>2 DEF Min
    <3> QED BY <3>3 DEF S
  <2>9. state[s].last = Max({d.last : d \in Done(s)})
    <3> DEFINE S == {d.last : d \in Done(s)}
    <3>1. state[s].last \in S /\ \A y \in S : y \in Nat /\ state[s].last >= y
      BY <2>3, <2>6, <2>7, <2>t
    <3> HIDE DEF S
    <3>2. \A x \in S : (\A y \in S : x >= y) => x = state[s].last
      BY <2>t, <3>1
    <3>3. state[s].last = Max(S)
      BY <3>1, <3>2 DEF Max
    <3> QED BY <3>3 DEF S
  <2>10. \E d \in Done(s) : d.trip = state[s].by /\ d.last = state[s].last
    BY <2>3, <2>6
  <2> QED BY <2>8, <2>9, <2>10
<1>4. QED
  BY <1>1, <1>2, <1>3, PTL DEF Spec
=============================================================================
