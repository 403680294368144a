----------------------------- MODULE MapScenes -----------------------------
(***************************************************************************)
(* The lenses of the map page (features/map): the rail with one lens at a  *)
(* time, the two scenes that take the place of the trips (particle-flow.js *)
(* and destination-bloom.js, one canvas each over the map), the guard that *)
(* allows one of them, the lists of the coverage and places lenses, relief *)
(* and buildings, and the phone's sheet. Data is a version number; the     *)
(* worker decodes a version some time after its arrival is announced.      *)
(***************************************************************************)
EXTENDS Naturals, FiniteSets

CONSTANTS Areas, NoArea, Modes, NoMode, MaxData, MaxSteps

VARIABLE ui

Lenses == {"trips", "coverage", "places", "flow"}
Scenes == {"flow", "bloom"}
SheetStates == {"collapsed", "half", "expanded"}

Scene == [on : BOOLEAN, out : BOOLEAN,                  \* _active, fade-out timer running
          canvas : BOOLEAN, heard : Nat, dat : 0..MaxData]  \* heard: listeners it has on the map

TypeOK ==
    ui \in [ lens : Lenses \cup {"none"}, saved : Lenses, still : BOOLEAN,   \* prefers-reduced-motion
             scene : [Scenes -> Scene], sup : SUBSET Scenes, soon : [Scenes -> Nat],
             told : 0..MaxData, dat : 0..MaxData, late : BOOLEAN, leaked : BOOLEAN,
             pin : BOOLEAN, naming : {"no", "asked", "sent", "reload"},
             places : Nat, listed : Nat, loaded : BOOLEAN, pnet : SUBSET [id : Nat, seen : Nat], crossed : BOOLEAN,
             area : Areas \cup {NoArea}, chip : Modes \cup {NoMode}, last : Modes \cup {NoMode},
             stored : Modes \cup {NoMode}, hint : {"none", "finding", "found", "failed"},
             list : Areas \cup {NoArea}, req : Nat, net : SUBSET [id : Nat, area : Areas],
             relief : [pref : BOOLEAN, on : BOOLEAN, shade : BOOLEAN],
             tall   : [pref : BOOLEAN, on : BOOLEAN],
             sheet  : SheetStates, half : BOOLEAN, drag : BOOLEAN, locked : BOOLEAN,
             steps  : 0..MaxSteps ]

User == ui.lens # "none" /\ ui.steps < MaxSteps
Acted(u) == [u EXCEPT !.steps = @ + 1]

-----------------------------------------------------------------------------
(* A scene. The renderer takes the trips off the map while a scene has     *)
(* suppressed them, so its loop over the style's layers finds none.        *)
HideTripLayers(u, s) == [u EXCEPT !.sup = @ \cup {s}]
Refresh(u, s) == IF u.scene[s].on THEN HideTripLayers([u EXCEPT !.scene[s].dat = u.dat], s) ELSE u

FinalizeDeactivate(u, s) ==
    [u EXCEPT !.sup = @ \ {s}, !.pin = IF s = "bloom" THEN FALSE ELSE @,
              !.scene[s] = [u.scene[s] EXCEPT !.canvas = FALSE, !.out = FALSE, !.heard = IF @ = 0 THEN 0 ELSE @ - 1]]

DestroyScene(u, s) == FinalizeDeactivate([u EXCEPT !.scene[s].on = FALSE], s)

(* The guard on "...:activated": the other scene, if active, is destroyed. *)
RepairExclusiveSceneMode(u, s) ==
    LET o == CHOOSE x \in Scenes : x # s
    IN  HideTripLayers(IF u.scene[o].on THEN DestroyScene(u, o) ELSE u, s)

RepairScene(u) ==
    IF u.scene["bloom"].on THEN RepairExclusiveSceneMode(u, "bloom")
    ELSE IF u.scene["flow"].on THEN RepairExclusiveSceneMode(u, "flow") ELSE u

(* Mutant: the fade-out that was running still ends the scene.             *)
ActivateFading(u, s) ==
    IF u.scene[s].on THEN u
    ELSE RepairExclusiveSceneMode(Refresh(
            [u EXCEPT !.scene[s].on = TRUE, !.scene[s].canvas = TRUE, !.scene[s].heard = @ + 1,
                      !.leaked = @ \/ u.scene[s].heard > 0], s), s)

(* The timer of a fade-out is stopped; the listeners bound before it are   *)
(* forgotten, not removed (`leaked').                                      *)
ActivateScene(u, s) ==
    IF u.scene[s].on THEN u
    ELSE RepairExclusiveSceneMode(Refresh(
            [u EXCEPT !.scene[s] = [u.scene[s] EXCEPT !.on = TRUE, !.out = FALSE, !.canvas = TRUE, !.heard = @ + 1],
                      !.leaked = @ \/ u.scene[s].heard > 0], s), s)

(* With reduced motion the bloom is taken down at once and stays active.   *)
DeactivateScene(u, s) ==
    IF ~u.scene[s].on THEN u
    ELSE IF s = "bloom" /\ u.still THEN FinalizeDeactivate(u, s)
    ELSE [u EXCEPT !.scene[s].on = FALSE, !.scene[s].out = TRUE]

FadedOut(s) == ui.scene[s].out /\ ui' = FinalizeDeactivate(ui, s)

-----------------------------------------------------------------------------
(* Trips arrive: the guard repairs, the lens refreshes its scene 200 ms    *)
(* later; `late' when that comes before the worker has decoded them.       *)
DataEvent(u) ==
    LET v == RepairScene(u)
        Fed(s) == u.lens = (IF s = "flow" THEN "flow" ELSE "places") /\ v.scene[s].on
    IN  [v EXCEPT !.soon = [s \in Scenes |-> @[s] + (IF Fed(s) THEN 1 ELSE 0)]]

TripsDataLoaded ==
    /\ User /\ ui.told < MaxData
    /\ ui' = Acted(DataEvent([ui EXCEPT !.told = @ + 1]))

Decoded == ui.dat < ui.told /\ ui' = [ui EXCEPT !.dat = ui.told,
                                                !.late = @ \/ \E s \in Scenes : ui.scene[s].on /\ ui.soon[s] = 0]

RefreshTimer(s) == ui.soon[s] > 0 /\ ui' = Refresh([ui EXCEPT !.soon[s] = @ - 1], s)

(* A new style: relief and buildings are put back, the scenes stay.        *)
EnsureTerrainRelief(u) ==
    [u EXCEPT !.relief.on = u.relief.pref, !.relief.shade = u.relief.pref]
TerrainFails(u) == [u EXCEPT !.relief.on = FALSE, !.relief.shade = u.relief.pref]
EnsureBuildingsLayer(u) == [u EXCEPT !.tall.on = u.tall.pref]

StyleChanges ==
    /\ User
    /\ \E v \in {EnsureTerrainRelief(ui), TerrainFails(ui)} : ui' = Acted(DataEvent(EnsureBuildingsLayer(v)))

SetTerrainRelief(b) ==
    /\ User
    /\ LET u == [ui EXCEPT !.relief.pref = b] IN
       \E v \in {EnsureTerrainRelief(u)} \cup (IF b THEN {TerrainFails(u)} ELSE {}) : ui' = Acted(v)

SetBuildings(b) == User /\ ui' = Acted(EnsureBuildingsLayer([ui EXCEPT !.tall.pref = b]))

-----------------------------------------------------------------------------
(* The places lens: the bloom and the list of places.                      *)
RenderPlaces(u) ==
    IF u.loaded THEN u
    ELSE [u EXCEPT !.loaded = TRUE, !.pnet = @ \cup {[id |-> u.steps, seen |-> u.places]},
                   !.crossed = @ \/ u.pnet # {}]

PlacesArrive(r) == ui' = [ui EXCEPT !.pnet = @ \ {r}, !.listed = r.seen]

PlacesFail(r) == ui' = [ui EXCEPT !.pnet = @ \ {r}, !.loaded = FALSE]

(* A cluster is pinned by a click or a tap, and unpinned by the next.      *)
PinCluster == /\ User /\ ui.scene["bloom"].on /\ ui.scene["bloom"].heard > 0
              /\ ui' = Acted([ui EXCEPT !.pin = ~@])

NameClusterAsPlace ==
    /\ User /\ ui.pin /\ ui.naming = "no"
    /\ ui' = Acted([ui EXCEPT !.naming = "asked"])

NamingCancelled == ui.naming = "asked" /\ ui' = [ui EXCEPT !.naming = "no"]

NamingConfirmed == ui.naming = "asked" /\ ui' = [ui EXCEPT !.naming = "sent"]

(* "placeSaved": the list of places is loaded again, now or when the lens  *)
(* is next looked at; then the trips are.                                  *)
PlaceSaved ==
    /\ ui.naming = "sent"
    /\ LET u == [ui EXCEPT !.places = @ + 1, !.naming = "reload", !.loaded = IF ui.lens = "none" THEN @ ELSE FALSE] IN
       ui' = IF u.lens = "places" THEN RenderPlaces(u) ELSE u

PlaceFails == ui.naming = "sent" /\ ui' = [ui EXCEPT !.naming = "no"]

Reloaded == ui.naming = "reload" /\ ui' = Refresh([ui EXCEPT !.naming = "no"], "bloom")

-----------------------------------------------------------------------------
(* The coverage lens: the street chips and the suggestions.                *)
(* es:streetModeChange is stored by the application's controller.          *)
DispatchStreetMode(u, m) == [u EXCEPT !.stored = m]

SyncControlAvailability(u) == [u EXCEPT !.chip = IF u.area = NoArea THEN NoMode ELSE u.stored]

RenderSuggestions(u) ==
    IF u.area = NoArea THEN u
    ELSE [u EXCEPT !.req = @ + 1, !.hint = "finding", !.net = @ \cup {[id |-> u.req + 1, area |-> u.area]}]

SelectArea(a) ==
    /\ User /\ a # ui.area
    /\ LET u == SyncControlAvailability([ui EXCEPT !.area = a]) IN
       ui' = Acted(IF u.lens = "coverage" THEN RenderSuggestions(u) ELSE u)

ClickChip(m) ==
    /\ User /\ ui.lens = "coverage" /\ ui.area # NoArea
    /\ LET n == IF ui.chip = m THEN NoMode ELSE m
       IN  ui' = Acted(DispatchStreetMode([ui EXCEPT !.chip = n, !.last = n], n))

Current(r) == r.id = ui.req /\ r.area = ui.area

SuggestionsArrive(r) ==
    ui' = IF Current(r) THEN [ui EXCEPT !.net = @ \ {r}, !.hint = "found", !.list = r.area]
          ELSE [ui EXCEPT !.net = @ \ {r}]

SuggestionsFail(r) ==
    ui' = IF r.id = ui.req THEN [ui EXCEPT !.net = @ \ {r}, !.hint = "failed"]
          ELSE [ui EXCEPT !.net = @ \ {r}]

ActivateCoverage(u) ==
    LET v == SyncControlAvailability(u)
        w == IF v.stored # NoMode THEN [v EXCEPT !.last = v.stored, !.chip = v.stored]
             ELSE IF v.last # NoMode THEN DispatchStreetMode([v EXCEPT !.chip = v.last], v.last) ELSE v
    IN  IF v.area = NoArea THEN v ELSE RenderSuggestions(w)

DeactivateCoverage(u) ==
    IF u.chip = NoMode THEN u ELSE DispatchStreetMode([u EXCEPT !.last = u.chip, !.chip = NoMode], NoMode)

-----------------------------------------------------------------------------
(* The rail: the lens of before is deactivated, then the new one is made   *)
(* active and saved. Leaving destroys the flow, and the bloom if active.   *)
Activated(u, l) ==
    CASE l = "flow" -> ActivateScene(u, "flow")
      [] l = "places" -> ActivateScene(RenderPlaces(u), "bloom")
      [] l = "coverage" -> ActivateCoverage(u)
      [] OTHER -> u

Deactivated(u, l) ==
    CASE l = "flow" -> DeactivateScene(u, "flow")
      [] l = "places" -> DeactivateScene(u, "bloom")
      [] l = "coverage" -> DeactivateCoverage(u)
      [] OTHER -> u

SetLens(l) ==
    /\ User /\ l # ui.lens
    /\ ui' = Acted(Activated([Deactivated(ui, ui.lens) EXCEPT !.lens = l, !.saved = l], l))

Leave ==
    /\ User
    /\ LET u == DestroyScene(ui, "flow")
           v == IF u.scene["bloom"].on THEN DestroyScene(u, "bloom") ELSE u
       IN  ui' = [Deactivated(v, v.lens) EXCEPT !.lens = "none", !.locked = FALSE, !.drag = FALSE,
                                          !.pnet = {}, !.net = {}]

Return ==
    /\ ui.lens = "none" /\ ui.steps < MaxSteps
    /\ LET u == [ui EXCEPT !.lens = ui.saved, !.loaded = FALSE, !.last = CHOOSE m \in Modes : TRUE,
                           !.hint = "none", !.list = NoArea, !.sheet = "collapsed"]
       IN  ui' = Acted(RepairScene(Activated(EnsureBuildingsLayer(EnsureTerrainRelief(u)), u.saved)))

-----------------------------------------------------------------------------
(* The phone's sheet: dragged, flung or tapped to one of the positions the *)
(* screen has room for; away from the lowest one the page does not scroll. *)
SheetPositions(u) == SheetStates \ (IF u.half THEN {} ELSE {"half"})
SetState(u, s) == LET v == IF s \in SheetPositions(u) THEN s ELSE "collapsed"
                  IN  [u EXCEPT !.sheet = v, !.locked = v # "collapsed"]

TouchStart == User /\ ~ui.drag /\ ui' = Acted([ui EXCEPT !.drag = TRUE])

TouchEnd(s) == ui.drag /\ s \in SheetPositions(ui) /\ ui' = SetState([ui EXCEPT !.drag = FALSE], s)

RecomputeLayout(b) ==
    /\ User /\ ui.half # b
    /\ ui' = LET u == [ui EXCEPT !.half = b] IN Acted(SetState(u, u.sheet))

Idle == [on |-> FALSE, out |-> FALSE, canvas |-> FALSE, heard |-> 0, dat |-> 0]

Fresh(still) ==
    [ lens |-> "trips", saved |-> "trips", still |-> still, scene |-> [s \in Scenes |-> Idle], sup |-> {},
      soon |-> [s \in Scenes |-> 0], told |-> 0, dat |-> 0, late |-> FALSE, leaked |-> FALSE,
      pin |-> FALSE, naming |-> "no", places |-> 0, listed |-> 0, loaded |-> FALSE, pnet |-> {}, crossed |-> FALSE,
      area |-> NoArea, chip |-> NoMode, last |-> CHOOSE m \in Modes : TRUE, stored |-> NoMode,
      hint |-> "none", list |-> NoArea, req |-> 0, net |-> {},
      relief |-> [pref |-> FALSE, on |-> FALSE, shade |-> FALSE], tall |-> [pref |-> FALSE, on |-> FALSE],
      sheet |-> "collapsed", half |-> TRUE, drag |-> FALSE, locked |-> FALSE, steps |-> 0 ]

Init == \E still \in BOOLEAN : ui = Fresh(still)

Timers == \E s \in Scenes : FadedOut(s) \/ RefreshTimer(s)

Answers ==
    \/ \E r \in ui.pnet : PlacesArrive(r) \/ PlacesFail(r)
    \/ \E r \in ui.net : SuggestionsArrive(r) \/ SuggestionsFail(r)
    \/ PlaceSaved \/ PlaceFails \/ Reloaded \/ Decoded

Acts ==
    \/ \E l \in Lenses : SetLens(l)
    \/ Leave \/ Return \/ TripsDataLoaded \/ StyleChanges
    \/ PinCluster \/ NameClusterAsPlace \/ NamingCancelled \/ NamingConfirmed
    \/ \E a \in Areas \cup {NoArea} : SelectArea(a)
    \/ \E m \in Modes : ClickChip(m)
    \/ \E b \in BOOLEAN : SetTerrainRelief(b) \/ SetBuildings(b) \/ RecomputeLayout(b)
    \/ TouchStart \/ \E s \in SheetStates : TouchEnd(s)

Next == Timers \/ Answers \/ Acts

Spec == Init /\ [][Next]_ui

-----------------------------------------------------------------------------
(* The trips are off the map only while a scene shows something in their   *)
(* place: once its canvas is gone they are back (except with reduced       *)
(* motion: the bloom put away believes to be active, and new data hides    *)
(* them again).                                                            *)
TripsComeBack == ui.still \/ \A s \in ui.sup : ui.scene[s].canvas

(* One scene at a time: never two active ones; a canvas over the map       *)
(* belongs to a scene that is active or fading, and an active scene has    *)
(* its canvas, its listeners and the trips of now unless a refresh is due. *)
SceneOwned ==
    /\ \E s \in Scenes : ~ui.scene[s].on
    /\ \A s \in Scenes : LET x == ui.scene[s] IN
        /\ x.canvas => x.on \/ x.out
        /\ x.on /\ ~ui.still => x.canvas /\ x.heard > 0
        /\ x.on /\ x.canvas => x.dat = ui.dat \/ ui.soon[s] > 0 \/ ui.late

(* After the page was left no scene goes on: what is there is fading.      *)
NothingOutlivesPage ==
    ui.lens = "none" => \A s \in Scenes : ~ui.scene[s].on /\ (ui.sup # {} => \E x \in Scenes : ui.scene[x].out)

(* The places listed are all those there are, unless a list is on its way  *)
(* or was crossed by another.                                              *)
PlacesListed ==
    ui.lens = "places" /\ ui.loaded /\ ui.pnet = {} /\ ~ui.crossed => ui.listed = ui.places

(* The suggestions shown as found are those of the selected area.          *)
SuggestionsOfArea ==
    ui.lens = "coverage" /\ ui.area # NoArea /\ ui.hint = "found" => ui.list = ui.area

(* The page is locked exactly while the sheet is up, in a position there   *)
(* is room for.                                                            *)
SheetFits == ui.lens # "none" => ui.sheet \in SheetPositions(ui) /\ (ui.locked <=> ui.sheet # "collapsed")
=============================================================================
