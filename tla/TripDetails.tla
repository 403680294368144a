----------------------------- MODULE TripDetails -----------------------------
(***************************************************************************)
(* The trip dialog of the trips page (features/trips/index.js): its map,   *)
(* the trip it loads, the route chip, geocoding again, and the playback.   *)
(* A trip's route has Points coordinates.                                  *)
(***************************************************************************)
EXTENDS Naturals

CONSTANTS
    Trips, NoTrip,
    Routed,      \* trips that belong to a recurring route
    Traceless,   \* trips with no drawable geometry
    Points,      \* coordinates of a route
    MaxSteps     \* bound on what the user does

VARIABLE ui

Maybe == Trips \cup {NoTrip}

TypeOK ==
    ui \in [ open     : BOOLEAN, id : Maybe, data : Maybe,   \* currentTripId, currentTripData
             map      : {"none", "starting", "styling", "ready"},
             drawn    : Maybe, route : Maybe,                \* map source, playbackState.coords
             retries  : SUBSET Trips,                        \* renderTripOnMap's own timers
             playing  : BOOLEAN, frame : BOOLEAN, complete : BOOLEAN, progress : 0..Points,
             token    : 0..(2 * MaxSteps + 2), chip : Maybe, \* modalRouteChipToken and its chip
             regeo    : BOOLEAN, asked : {"none", "delete", "inactive"},
             deleted  : SUBSET Trips, off : SUBSET Trips,
             net      : SUBSET [op : {"trip", "chip", "regeocode", "inactive", "delete"},
                                id : Trips, token : 0..(2 * MaxSteps + 2)],
             raced    : BOOLEAN, steps : 0..MaxSteps ]

User == ui.steps < MaxSteps /\ ui.asked = "none"
Acted(u) == [u EXCEPT !.steps = @ + 1]
Sent(u, op, t) == [u EXCEPT !.net = @ \cup {[op |-> op, id |-> t, token |-> u.token]}]

-----------------------------------------------------------------------------
(* Playback.                                                               *)
PausePlayback(u) == [u EXCEPT !.playing = FALSE, !.frame = FALSE]

CompletePlayback(u) == [PausePlayback(u) EXCEPT !.complete = TRUE]

ResetPlayback(u) == [PausePlayback(u) EXCEPT !.progress = 0]

SetPlaybackRoute(u, t) == [u EXCEPT !.route = t, !.progress = 0]

StartPlayback(u) ==
    IF u.map \notin {"styling", "ready"} \/ u.route = NoTrip THEN u
    ELSE [u EXCEPT !.playing = TRUE, !.complete = FALSE, !.frame = TRUE]

PlayButton ==
    /\ User
    /\ ui.open
    /\ ui' = Acted(IF ui.playing THEN PausePlayback(ui)
                   ELSE IF ui.complete THEN StartPlayback([ResetPlayback(ui) EXCEPT !.complete = FALSE])
                   ELSE StartPlayback(ui))

(* Mutant: a frame goes on past the last point.                            *)
StepPast ==
    /\ ui.frame
    /\ LET p == ui.progress + 1 IN
       ui' = IF ui.route = NoTrip THEN CompletePlayback([ui EXCEPT !.progress = 1])
             ELSE IF p > Points THEN CompletePlayback([ui EXCEPT !.progress = p])
             ELSE [ui EXCEPT !.progress = p]

(* One animation frame; a route taken away under it ends the playback.     *)
Step ==
    /\ ui.frame
    /\ LET p == ui.progress + 1 IN
       ui' = IF ui.route = NoTrip THEN CompletePlayback([ui EXCEPT !.progress = 1])
             ELSE IF p >= Points THEN CompletePlayback([ui EXCEPT !.progress = Points])
             ELSE [ui EXCEPT !.progress = p]

-----------------------------------------------------------------------------
(* The map of the dialog.                                                  *)

(* clearTripModalRouteData: the line goes, the playback's route stays.     *)
ClearRoute(u) == [u EXCEPT !.drawn = NoTrip]

(* renderTripOnMap waits for the style by asking again 200 ms later.       *)
RenderTripOnMap(u, t) ==
    IF t \in Traceless THEN ClearRoute(u)
    ELSE IF u.map # "ready" THEN [u EXCEPT !.retries = @ \cup {t}]
    ELSE SetPlaybackRoute([u EXCEPT !.drawn = t], t)

RenderRetry(t) ==
    /\ t \in ui.retries
    /\ ui.map = "ready"
    /\ ui' = RenderTripOnMap([ui EXCEPT !.retries = @ \ {t}, !.raced = @ \/ t # ui.id \/ ~ui.open], t)

InitTripModalMap(u) == IF u.map = "none" THEN [u EXCEPT !.map = "starting"] ELSE u

MapCreated ==
    /\ ui.map = "starting"
    /\ ui' = [ui EXCEPT !.map = "styling"]

MapFails ==
    /\ ui.map = "starting"
    /\ ui' = [ui EXCEPT !.map = "none"]

(* onMapReady loads the trip of the dialog once more.                      *)
MapReady ==
    /\ ui.map = "styling"
    /\ ui' = LET u == [ui EXCEPT !.map = "ready"] IN IF u.id = NoTrip THEN u ELSE Sent(u, "trip", u.id)

-----------------------------------------------------------------------------
(* The dialog.                                                             *)
OpenTripModal(t) ==
    /\ User
    /\ ~ui.open
    /\ t \notin ui.deleted
    /\ ui' = Acted(Sent(InitTripModalMap([ui EXCEPT !.open = TRUE, !.id = t]), "trip", t))

(* hidden.bs.modal: the trip's id is kept, its data are not.               *)
Hidden(u) ==
    ClearRoute([ResetPlayback(u) EXCEPT !.open = FALSE, !.data = NoTrip, !.regeo = FALSE])

CloseModal ==
    /\ User
    /\ ui.open
    /\ ui' = Acted(Hidden(ui))

(* updateTripRouteChip: a token per trip shown.                            *)
UpdateTripRouteChip(u, t) ==
    IF t \in u.off \/ t \notin Routed THEN [u EXCEPT !.chip = NoTrip]
    ELSE Sent([u EXCEPT !.token = @ + 1], "chip", t)

ChipArrives(r) ==
    /\ r.op = "chip"
    /\ ui' = [ui EXCEPT !.chip = IF r.token = ui.token THEN r.id ELSE @, !.net = @ \ {r}]

UpdateModalContent(u, t) == UpdateTripRouteChip(u, t)

(* loadTripData: an answer for a trip left since is dropped, one for a     *)
(* dialog that was only closed is not.                                     *)
TripArrives(r) ==
    /\ r.op = "trip"
    /\ LET u == [ui EXCEPT !.net = @ \ {r}, !.raced = @ \/ (r.id = ui.id /\ ~ui.open)] IN
       ui' = IF r.id # ui.id THEN u
             ELSE RenderTripOnMap(UpdateModalContent([u EXCEPT !.data = r.id], r.id), r.id)

RequestFails(r) ==
    /\ r.op \in {"trip", "chip", "inactive", "delete"}
    /\ ui' = [ui EXCEPT !.net = @ \ {r}]

ToggleMatched ==
    /\ User
    /\ ui.open /\ ui.data # NoTrip
    /\ ui' = Acted(RenderTripOnMap(ui, ui.data))

RegeocodeCurrentTrip ==
    /\ User
    /\ ui.open /\ ui.data # NoTrip /\ ~ui.regeo
    /\ ui' = Acted(Sent([ui EXCEPT !.regeo = TRUE], "regeocode", ui.id))

RegeocodeDone(r) ==
    /\ r.op = "regeocode"
    /\ ui' = Sent([ui EXCEPT !.regeo = FALSE, !.net = @ \ {r}], "trip", r.id)

RegeocodeFails(r) ==
    /\ r.op = "regeocode"
    /\ ui' = [ui EXCEPT !.regeo = FALSE, !.net = @ \ {r}]

(* Delete and inactive ask first and read the trip after the answer.       *)
Ask(op) ==
    /\ User
    /\ ui.open /\ ui.data # NoTrip
    /\ ui' = Acted([ui EXCEPT !.asked = op])

Answer(yes) ==
    /\ ui.asked # "none"
    /\ LET u == [ui EXCEPT !.asked = "none"] IN
       ui' = CASE ~yes -> u
               [] yes /\ ui.asked = "delete" -> Sent(Hidden(u), "delete", u.id)
               [] OTHER -> Sent(u, "inactive", u.data)

InactiveDone(r) ==
    /\ r.op = "inactive"
    /\ LET u == [ui EXCEPT !.net = @ \ {r},
                           !.off = IF r.id \in @ THEN @ \ {r.id} ELSE @ \cup {r.id}] IN
       ui' = IF ui.data = r.id THEN UpdateModalContent(u, r.id) ELSE u

DeleteDone(r) ==
    /\ r.op = "delete"
    /\ ui' = [ui EXCEPT !.deleted = @ \cup {r.id}, !.net = @ \ {r}]

Start ==
    [ open |-> FALSE, id |-> NoTrip, data |-> NoTrip, map |-> "none", drawn |-> NoTrip,
      route |-> NoTrip, retries |-> {}, playing |-> FALSE, frame |-> FALSE, complete |-> FALSE,
      progress |-> 0, token |-> 0, chip |-> NoTrip, regeo |-> FALSE, asked |-> "none",
      deleted |-> {}, off |-> {}, net |-> {}, raced |-> FALSE, steps |-> 0 ]

Init == ui = Start

Next ==
    \/ PlayButton \/ Step \/ MapCreated \/ MapFails \/ MapReady \/ CloseModal \/ ToggleMatched
    \/ RegeocodeCurrentTrip
    \/ \E t \in Trips : RenderRetry(t) \/ OpenTripModal(t)
    \/ \E op \in {"delete", "inactive"} : Ask(op)
    \/ \E yes \in BOOLEAN : Answer(yes)
    \/ \E r \in ui.net : \/ ChipArrives(r) \/ TripArrives(r) \/ RequestFails(r) \/ RegeocodeDone(r)
                         \/ RegeocodeFails(r) \/ InactiveDone(r) \/ DeleteDone(r)

Spec == Init /\ [][Next]_ui

-----------------------------------------------------------------------------
(* Whatever order trips, map and style arrive in, the dialog's text and    *)
(* its map are of the trip its Delete button would delete, unless a trip   *)
(* answered after the dialog was closed, or a redraw waiting for the style *)
(* belonged to an earlier trip.                                            *)
DialogShowsItsTrip ==
    ui.open /\ ~ui.raced => {ui.data, ui.drawn} \subseteq {NoTrip, ui.id}

(* One animation runs at most, exactly while the button says so, and never *)
(* behind a closed dialog.                                                 *)
PlaybackOwned == ui.frame = ui.playing /\ (ui.playing => ui.open)
=============================================================================
