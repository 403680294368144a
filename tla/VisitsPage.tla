----------------------------- MODULE VisitsPage -----------------------------
(***************************************************************************)
(* The visits page (features/visits, modules/visits): saved places on a    *)
(* map and in a grid, boundaries drawn or edited and saved, discoveries    *)
(* that become places, the dialogs of a place, the trips of a place. The   *)
(* page controller and the visits manager each keep a list of the places.  *)
(***************************************************************************)
EXTENDS Naturals, FiniteSets

CONSTANTS Places, NoPlace, Saved,              \* every place, and those the server begins with
          Filters, Trips, NoTrip, MaxSteps

VARIABLE ui

Maybe == Places \cup {NoPlace}
Modes == {"idle", "draw-new", "select-existing", "edit-new", "edit-existing"}
Shapes == Places \cup {"none", "new"}          \* whose boundary is being edited
Loads == [id : Nat, rows : SUBSET Places]
Suggests == [id : Nat, of : Filters, load : BOOLEAN]
Writes == [id : Nat, kind : {"create", "map", "form", "delete", "suggest"}, of : Maybe, geo : Shapes]

TypeOK ==
    ui \in [ server : SUBSET Places, used : SUBSET Places, mgr : SUBSET Places, feats : SUBSET Places, grid : SUBSET Places,
             init : {"map", "places", "stats", "done"}, link : Maybe,
             loads : SUBSET Loads, refreshes : SUBSET [id : Nat, reset : BOOLEAN],
             filter : Filters, shown : Filters \cup {"none"}, suggests : SUBSET Suggests, stops : Nat,
             mode : Modes, edited : Maybe, poly : Shapes, toast : BOOLEAN, form : BOOLEAN, named : BOOLEAN,
             writes : SUBSET Writes, confirm : Maybe, prompt : {"none", "suggestion", "stop"},
             active : Maybe, asks : SUBSET [id : Nat, of : Places], detail : Maybe, edit : BOOLEAN,
             editId : Maybe, editName : Maybe, after : {"none", "edit", "boundary"}, afterOf : Maybe,
             view : Maybe, rows : SUBSET Places, tripAsks : SUBSET [id : Nat, of : Places],
             trip : Trips \cup {NoTrip}, tmap : {"none", "loading", "ready"}, first : Trips \cup {NoTrip},
             line : Trips \cup {NoTrip}, popup : Maybe, told : BOOLEAN,
             styles : Nat, layer : BOOLEAN,
             crossed : BOOLEAN, failed : BOOLEAN, unmanaged : SUBSET Places, cut : BOOLEAN, late : BOOLEAN,
             left : BOOLEAN, steps : 0..MaxSteps ]

User == ~ui.left /\ ui.steps < MaxSteps
Acted(u) == [u EXCEPT !.steps = @ + 1]
Ready == ui.init = "done" /\ ~ui.left
Page == User /\ Ready /\ ui.detail = NoPlace /\ ~ui.edit   \* no dialog covers the page

-----------------------------------------------------------------------------
(* The page's data: places and statistics, then the discoveries for the    *)
(* filter chosen by then, then the other stops, then the link's place.     *)
LoadSuggestions(u, load) ==
    [u EXCEPT !.suggests = @ \cup {[id |-> u.steps, of |-> u.filter, load |-> load]},
              !.crossed = @ \/ u.suggests # {}]

LoadData(u, rows) ==
    IF u.left THEN u
    ELSE [u EXCEPT !.loads = @ \cup {[id |-> u.steps, rows |-> rows]}, !.crossed = @ \/ u.loads # {}]

(* Rows the manager handed over, or read by the server at any time since.  *)
DataArrives(l) ==
    LET u == [ui EXCEPT !.loads = @ \ {l}]
    IN  \/ ui.left /\ ui' = u
        \/ /\ ~ui.left
           /\ \E rows \in {l.rows, ui.server} : ui' = LoadSuggestions([u EXCEPT !.grid = rows], TRUE)

DataFails(l) == ui' = [ui EXCEPT !.loads = @ \ {l}, !.failed = TRUE]

ShowPlaceDetail(u, p) ==
    [u EXCEPT !.active = p, !.asks = @ \cup {[id |-> u.steps, of |-> p]},
              !.crossed = @ \/ u.detail \notin {p, NoPlace} \/ \E a \in u.asks : a.of # p]

SuggestionsArrive(s) ==
    /\ \/ ui' = [ui EXCEPT !.suggests = @ \ {s}, !.shown = s.of,
                           !.stops = IF s.load /\ ~ui.left THEN @ + 1 ELSE @]
       \/ ui' = [ui EXCEPT !.suggests = @ \ {s}, !.failed = TRUE,
                           !.stops = IF s.load /\ ~ui.left THEN @ + 1 ELSE @]

(* The place of the address is opened once.                                *)
StopsArrive ==
    /\ ui.stops > 0
    /\ LET u == [ui EXCEPT !.stops = @ - 1]
       IN  ui' = IF ui.left \/ ui.link = NoPlace THEN u
                 ELSE IF ui.link \in ui.grid THEN ShowPlaceDetail([u EXCEPT !.link = NoPlace], ui.link)
                 ELSE [u EXCEPT !.link = NoPlace]

-----------------------------------------------------------------------------
(* The manager: the map, then its places, then their statistics.           *)
MapLoaded ==
    /\ ui.init = "map" /\ ~ui.left
    /\ ui' = [ui EXCEPT !.init = "places", !.layer = TRUE]

PlacesArrive ==
    /\ ui.init = "places"
    /\ \/ ui.left /\ ui' = [ui EXCEPT !.init = "done"]
       \/ ~ui.left /\ ui' = [ui EXCEPT !.init = "stats", !.mgr = ui.server, !.feats = ui.server]
       \/ ~ui.left /\ ui' = [ui EXCEPT !.init = "stats", !.mgr = {}, !.failed = TRUE]

StatsArrive ==
    /\ ui.init = "stats"
    /\ \/ ui' = LoadData([ui EXCEPT !.init = "done"], ui.mgr)
       \/ ui' = [ui EXCEPT !.init = "done", !.failed = TRUE]

ClearDrawing(u) == [u EXCEPT !.poly = "none", !.edited = NoPlace, !.mode = "idle",
                             !.toast = FALSE, !.form = FALSE, !.named = FALSE]

(* What was drawn since the change was sent is cleared with it (`cut').    *)
RefreshAfterMutation(r) ==
    LET u == [ui EXCEPT !.refreshes = @ \ {r}]
        cleared(x) == IF r.reset /\ ~x.left THEN ClearDrawing([x EXCEPT !.cut = @ \/ x.mode # "idle"]) ELSE x
    IN  \/ ui' = cleared(LoadData(u, ui.mgr))
        \/ ui' = [u EXCEPT !.failed = TRUE]

-----------------------------------------------------------------------------
(* Drawing. The toast shows while a boundary or a place is being chosen,   *)
(* the form while a boundary is edited.                                    *)
SetMode(u, m) == [u EXCEPT !.mode = m, !.toast = m \in {"draw-new", "select-existing"},
                           !.form = m \in {"edit-new", "edit-existing"}]

StartDrawing == User /\ Ready /\ ui' = Acted(SetMode(ClearDrawing(ui), "draw-new"))

StartSelectingBoundaryForEdit == User /\ Ready /\ ui' = Acted(SetMode(ClearDrawing(ui), "select-existing"))

(* The tool bar of the map also begins a polygon, whatever the mode is.    *)
OnPolygonCreated ==
    /\ Page
    /\ ui' = Acted(SetMode([ui EXCEPT !.poly = "new", !.edited = NoPlace], "edit-new"))

OnPolygonUpdated ==
    /\ Page /\ ui.poly # "none"
    /\ ui' = Acted(IF ui.mode = "draw-new" THEN SetMode(ui, "edit-new") ELSE ui)

(* Shrink, expand, simplify, smooth: the shape is replaced in its mode.    *)
ApplyBoundaryGeometryTransform ==
    /\ Page /\ ui.mode \in {"edit-new", "edit-existing"} /\ ui.poly # "none"
    /\ ui' = Acted(SetMode(ui, ui.mode))

ClearCurrentDrawing == User /\ ui.mode # "idle" /\ ui' = Acted(ClearDrawing(ui))

StartEditingPlaceBoundary(u, p) ==
    IF p \notin u.mgr THEN u
    ELSE SetMode([ClearDrawing(u) EXCEPT !.edited = p, !.poly = p, !.named = TRUE], "edit-existing")

ApplySuggestion ==
    /\ Page /\ ui.shown # "none"
    /\ ui' = Acted(SetMode([ClearDrawing(ui) EXCEPT !.poly = "new", !.named = TRUE], "edit-new"))

TypeName == Page /\ ui.form /\ ~ui.named /\ ui' = Acted([ui EXCEPT !.named = TRUE])

(* A click on a place of the map: edits it, is ignored, or shows it.       *)
HandlePlaceClick(p) ==
    /\ Page /\ ui.layer /\ p \in ui.feats
    /\ ui' = Acted(IF ui.mode = "select-existing" THEN StartEditingPlaceBoundary(ui, p)
                   ELSE IF ui.mode # "idle" THEN ui
                   ELSE IF p \in ui.mgr THEN [ui EXCEPT !.popup = p, !.told = FALSE] ELSE ui)

PopupStatistics == ui.popup # NoPlace /\ ~ui.told /\ ui' = [ui EXCEPT !.told = TRUE]

-----------------------------------------------------------------------------
(* Saving: a new place, the place whose boundary is edited, the place of   *)
(* the edit dialog (with a boundary only if it is the one being edited).   *)
Send(u, kind, p, geo) ==
    [u EXCEPT !.writes = @ \cup {[id |-> u.steps, kind |-> kind, of |-> p, geo |-> geo]}]

SavePlace ==
    /\ User /\ Ready /\ ui.named
    /\ ui' = Acted(IF ui.edited # NoPlace THEN IF ui.edited \in ui.mgr THEN Send(ui, "map", ui.edited, ui.poly) ELSE ui
                   ELSE IF ui.poly # "none" THEN Send(ui, "create", NoPlace, "new") ELSE ui)

SaveEditedPlace ==
    /\ User /\ Ready /\ ui.edit
    /\ ui' = Acted(IF ui.editId \in ui.mgr
                   THEN Send(ui, "form", ui.editId, IF ui.edited = ui.editId THEN ui.poly ELSE "none")
                   ELSE ui)

Refresh(u, reset) == [u EXCEPT !.refreshes = @ \cup {[id |-> u.steps, reset |-> reset]}]

PlaceCreated(w, p) ==
    /\ w.kind = "create" /\ p \notin ui.used
    /\ LET u == [ui EXCEPT !.writes = @ \ {w}, !.server = @ \cup {p}, !.used = @ \cup {p}]
       IN  ui' = IF ui.left THEN u
                 ELSE Refresh([u EXCEPT !.mgr = @ \cup {p}, !.feats = @ \cup {p}], TRUE)

(* The edit dialog closes, whichever place it shows by now.                *)
PlaceUpdated(w) ==
    /\ w.kind \in {"map", "form"} /\ w.of \in ui.server
    /\ LET u == [ui EXCEPT !.writes = @ \ {w}, !.edit = FALSE]
       IN  ui' = IF ui.left THEN u
                 ELSE Refresh([u EXCEPT !.mgr = @ \cup {w.of}, !.feats = @ \cup {w.of}],
                              w.kind = "map" \/ w.geo # "none")

WriteFails(w) == ui' = [ui EXCEPT !.writes = @ \ {w}]

(* Deleting asks first; the dialogs close when it is done.                 *)
DeleteActivePlace ==
    /\ User /\ Ready /\ ui.active # NoPlace /\ (ui.detail # NoPlace \/ ui.edit)
    /\ ui' = Acted(IF ui.active \in ui.mgr THEN [ui EXCEPT !.confirm = ui.active] ELSE ui)

ConfirmDelete ==
    /\ ui.confirm # NoPlace
    /\ \/ ui' = [ui EXCEPT !.confirm = NoPlace]
       \/ ui' = [Send(ui, "delete", ui.confirm, "none") EXCEPT !.confirm = NoPlace]

PlaceDeleted(w) ==
    /\ w.kind = "delete" /\ w.of \in ui.server
    /\ LET u == [ui EXCEPT !.writes = @ \ {w}, !.server = @ \ {w.of}]
       IN  ui' = IF ui.left THEN u
                 ELSE Refresh([u EXCEPT !.mgr = @ \ {w.of}, !.feats = @ \ {w.of}, !.detail = NoPlace,
                                        !.edit = FALSE, !.active = NoPlace, !.crossed = @ \/ ui.asks # {}], FALSE)

(* A discovery or another stop is named first. A discovery is created by   *)
(* the page controller: the manager does not hear of it (`unmanaged').     *)
AskName(kind) == Page /\ ui.prompt = "none" /\ ui.shown # "none" /\ ui' = Acted([ui EXCEPT !.prompt = kind])

NameGiven ==
    /\ ui.prompt # "none" /\ ~ui.left
    /\ LET u == [ui EXCEPT !.prompt = "none"]
       IN  \/ ui' = u
           \/ ui.prompt = "suggestion" /\ ui' = Send(u, "suggest", NoPlace, "new")
           \/ ui.prompt = "stop" /\ ui' = [SetMode(ClearDrawing(u), "draw-new") EXCEPT !.named = TRUE]

SuggestionSaved(w, p) ==
    /\ w.kind = "suggest" /\ p \notin ui.used
    /\ LET u == [ui EXCEPT !.writes = @ \ {w}, !.server = @ \cup {p}, !.used = @ \cup {p}, !.unmanaged = @ \cup {p}]
       IN  ui' = LoadData(u, u.server)

-----------------------------------------------------------------------------
(* The dialogs of a place.                                                 *)
OpenDetail(p) == Page /\ p \in ui.grid /\ ui' = Acted(ShowPlaceDetail(ui, p))

(* The form of the edit dialog gets the place chosen last and the name of  *)
(* the place that arrives.                                                 *)
DetailArrives(a) ==
    /\ \/ ui' = [ui EXCEPT !.asks = @ \ {a}, !.detail = a.of, !.editId = ui.active, !.editName = a.of,
                           !.late = @ \/ ui.left]
       \/ ui' = [ui EXCEPT !.asks = @ \ {a}]

CloseDialog == User /\ (ui.detail # NoPlace \/ ui.edit) /\ ui' = Acted([ui EXCEPT !.detail = NoPlace, !.edit = FALSE])

(* One dialog follows another when the first is hidden, or after 450 ms.   *)
OpenEditModalForActivePlace ==
    /\ User /\ Ready /\ ui.detail # NoPlace
    /\ ui' = Acted(IF ui.active \in ui.grid
                   THEN [ui EXCEPT !.editId = ui.active, !.editName = ui.active, !.detail = NoPlace,
                                   !.after = "edit", !.afterOf = ui.active]
                   ELSE ui)

StartBoundaryEditForActivePlace ==
    /\ User /\ Ready /\ (ui.detail # NoPlace \/ ui.edit) /\ ui.active # NoPlace
    /\ ui' = Acted([ui EXCEPT !.detail = NoPlace, !.after = "boundary", !.afterOf = ui.active])

AfterHidden ==
    /\ ui.after # "none"
    /\ LET u == [ui EXCEPT !.after = "none", !.afterOf = NoPlace]
       IN  ui' = IF ui.after = "edit" THEN [u EXCEPT !.edit = TRUE, !.late = @ \/ ui.left]
                 ELSE IF ui.left THEN u
                 ELSE StartEditingPlaceBoundary([u EXCEPT !.edit = FALSE], ui.afterOf)

-----------------------------------------------------------------------------

(* The table of a place's trips: emptied when asked for, added to when the *)
(* answer comes; one trip on a map of its own.                             *)
ToggleView(p) ==
    /\ Page /\ p \in ui.mgr
    /\ ui' = Acted([ui EXCEPT !.view = p, !.rows = {}, !.popup = NoPlace,
                              !.tripAsks = @ \cup {[id |-> ui.steps, of |-> p]},
                              !.crossed = @ \/ ui.tripAsks # {}])

PlaceTripsArrive(a) ==
    \/ ui' = [ui EXCEPT !.tripAsks = @ \ {a}, !.rows = IF ui.left THEN @ ELSE @ \cup {a.of}]
    \/ ui' = [ui EXCEPT !.tripAsks = @ \ {a}]

BackToPlaces == Page /\ ui.view # NoPlace /\ ui' = Acted([ui EXCEPT !.view = NoPlace, !.crossed = @ \/ ui.tripAsks # {}])

(* The map made for the first trip draws that trip when it has loaded.     *)
ShowTrip(t) ==
    /\ Page /\ ui.rows # {}
    /\ LET u == [ui EXCEPT !.trip = t]
       IN  ui' = Acted(CASE ui.tmap = "none"  -> [u EXCEPT !.tmap = "loading", !.first = t]
                         [] ui.tmap = "loading" -> u
                         [] OTHER -> [u EXCEPT !.line = t])

TripMapLoaded ==
    /\ ui.tmap = "loading" /\ ~ui.left
    /\ ui' = [ui EXCEPT !.tmap = "ready", !.line = ui.first, !.first = NoTrip]

-----------------------------------------------------------------------------
ChangeFilter(f) == Page /\ f # ui.filter /\ ui' = Acted(LoadSuggestions([ui EXCEPT !.filter = f], FALSE))

FiltersApplied == User /\ ui' = Acted(LoadData(ui, ui.server))

(* A style takes the places and a trip's line off the maps; the places are *)
(* put back when it has loaded.                                            *)
SetStyle ==
    /\ User /\ ui.layer /\ ui.styles < 2
    /\ ui' = Acted([ui EXCEPT !.layer = FALSE, !.styles = @ + 1, !.line = NoTrip,
                              !.trip = IF ui.tmap = "ready" THEN NoTrip ELSE @])

StyleLoaded ==
    /\ ui.styles > 0 /\ ~ui.left
    /\ ui' = [ui EXCEPT !.styles = @ - 1, !.layer = TRUE]

(* Mutant: the trip's map survives the page.                               *)
DestroyKeepingTrip ==
    /\ ~ui.left
    /\ ui' = [ui EXCEPT !.left = TRUE, !.feats = {}, !.layer = FALSE, !.popup = NoPlace,
                        !.detail = NoPlace, !.edit = FALSE]

Destroy ==
    /\ ~ui.left
    /\ ui' = [ui EXCEPT !.left = TRUE, !.feats = {}, !.layer = FALSE, !.popup = NoPlace, !.tmap = "none",
                        !.line = NoTrip, !.first = NoTrip, !.detail = NoPlace, !.edit = FALSE]

Init ==
    \E f \in Filters, p \in {NoPlace} \cup Saved :
        ui = [ server |-> Saved, used |-> Saved, mgr |-> {}, feats |-> {}, grid |-> {}, init |-> "map", link |-> p,
               loads |-> {}, refreshes |-> {}, filter |-> f, shown |-> "none", suggests |-> {}, stops |-> 0,
               mode |-> "idle", edited |-> NoPlace, poly |-> "none", toast |-> FALSE, form |-> FALSE,
               named |-> FALSE, writes |-> {}, confirm |-> NoPlace, prompt |-> "none",
               active |-> NoPlace, asks |-> {}, detail |-> NoPlace, edit |-> FALSE, editId |-> NoPlace,
               editName |-> NoPlace, after |-> "none", afterOf |-> NoPlace,
               view |-> NoPlace, rows |-> {}, tripAsks |-> {}, trip |-> NoTrip, tmap |-> "none",
               first |-> NoTrip, line |-> NoTrip, popup |-> NoPlace, told |-> FALSE, styles |-> 0, layer |-> FALSE,
               crossed |-> FALSE, failed |-> FALSE, unmanaged |-> {}, cut |-> FALSE, late |-> FALSE,
               left |-> FALSE, steps |-> 0 ]

Next ==
    \/ MapLoaded \/ PlacesArrive \/ StatsArrive \/ StopsArrive
    \/ \E l \in ui.loads : DataArrives(l) \/ DataFails(l)
    \/ \E s \in ui.suggests : SuggestionsArrive(s)
    \/ \E r \in ui.refreshes : RefreshAfterMutation(r)
    \/ StartDrawing \/ StartSelectingBoundaryForEdit \/ OnPolygonCreated \/ OnPolygonUpdated
    \/ ApplyBoundaryGeometryTransform \/ ClearCurrentDrawing \/ ApplySuggestion \/ TypeName
    \/ SavePlace \/ SaveEditedPlace \/ DeleteActivePlace \/ ConfirmDelete \/ NameGiven
    \/ \E w \in ui.writes : PlaceUpdated(w) \/ WriteFails(w) \/ PlaceDeleted(w)
    \/ \E w \in ui.writes, p \in Places : PlaceCreated(w, p) \/ SuggestionSaved(w, p)
    \/ \E kind \in {"suggestion", "stop"} : AskName(kind)
    \/ \E p \in Places : HandlePlaceClick(p) \/ OpenDetail(p) \/ ToggleView(p)
    \/ \E a \in ui.asks : DetailArrives(a)
    \/ \E a \in ui.tripAsks : PlaceTripsArrive(a)
    \/ CloseDialog \/ OpenEditModalForActivePlace \/ StartBoundaryEditForActivePlace \/ AfterHidden
    \/ BackToPlaces \/ TripMapLoaded \/ PopupStatistics \/ FiltersApplied \/ SetStyle \/ StyleLoaded \/ Destroy
    \/ \E t \in Trips : ShowTrip(t)
    \/ \E f \in Filters : ChangeFilter(f)

Spec == Init /\ [][Next]_ui

-----------------------------------------------------------------------------
(* When every answer is in and none failed or crossed another, the grid,   *)
(* the manager's list and the map show the places that are saved, but for  *)
(* those the page controller created behind the manager's back             *)
(* (visits-controller.js:1510).                                            *)
Settled == ui.init = "done" /\ ui.loads = {} /\ ui.refreshes = {} /\ ui.writes = {}
PlacesAgree ==
    Settled /\ ~ui.left /\ ~ui.failed /\ ~ui.crossed
        => /\ ui.grid \cup ui.unmanaged = ui.server
           /\ ui.mgr \cup ui.unmanaged = ui.server
           /\ ui.feats = ui.mgr

(* What is saved as a place's boundary is that place's boundary: a boundary *)
(* is edited for one place or for none, and no write carries another's.    *)
BoundaryOfPlace ==
    /\ ui.mode = "edit-existing" => ui.edited # NoPlace /\ ui.poly = ui.edited
    /\ ui.mode \in {"draw-new", "edit-new"} => ui.edited = NoPlace
    /\ \A w \in ui.writes : w.kind \in {"map", "form"} => w.geo \in {"none", w.of}
    /\ ui.form <=> ui.mode \in {"edit-new", "edit-existing"}

(* The dialogs and the table show the place that was opened last, unless   *)
(* answers crossed: then the dialog shows one place and acts on another.   *)
DialogOfPlace ==
    ~ui.crossed =>
        /\ ui.detail # NoPlace => ui.detail = ui.active \/ ui.late
        /\ ui.edit => ui.editId = ui.editName \/ ui.late
        /\ ui.view # NoPlace => ui.rows \subseteq {ui.view}

(* After the page is left no map, popup or dialog of it is open, but for a *)
(* dialog that was about to follow another (visits-controller.js:449) or   *)
(* whose answer was still to come.                                         *)
NothingLeftOpen ==
    ui.left => /\ ui.tmap = "none" /\ ui.popup = NoPlace /\ ~ui.layer
               /\ (ui.edit \/ ui.detail # NoPlace) => ui.late
=============================================================================
