---------------------------- MODULE TripRenderer ----------------------------
(***************************************************************************)
(* How trips get on the main map (trip-map-renderer.js, map-manager.js,    *)
(* trip-interactions.js, trip-animator.js, features/map/index.js): bundles *)
(* decoded by a worker, drawn by the deck.gl overlay or by native layers,  *)
(* the selected trip over them, its popup with its actions, and the replay *)
(* that follows the selection. A bundle is a set of trips.                 *)
(***************************************************************************)
EXTENDS Naturals, Sequences, FiniteSets

CONSTANTS Layers, Trips, NoTrip, Bundles, NoBundle, Big, Reasons, MaxSteps
    \* Bundles: sets of trips; Big: those too large for the overlay's heat map

VARIABLE ui

Selection == [trip : Trips \cup {NoTrip}, layer : Layers]
Drawn == [Layers -> Bundles \cup {NoBundle}]

TypeOK ==
    ui \in [ deck  : BOOLEAN,                                       \* deck.gl is there
             info  : [Layers -> [vis : BOOLEAN, heat : BOOLEAN]],
             dat   : Drawn, jobs : Seq([layer : Layers, bundle : Bundles]), latest : Drawn,
             overlay : BOOLEAN, dk : Drawn, dsel : Trips \cup {NoTrip},       \* the overlay and what it draws
             native  : BOOLEAN, nat : Drawn, nsel : Trips \cup {NoTrip}, bound : SUBSET Layers,
             sel   : Selection, sup : SUBSET Reasons,
             relief : BOOLEAN, terrain : BOOLEAN, listens : BOOLEAN,
             drape : [Layers -> {"none", "pending", "done"}],
             busy  : BOOLEAN, soon : Nat, lost : BOOLEAN, putback : BOOLEAN,  \* throttle, renders to come
             pop   : SUBSET [id : Nat, trip : Trips, defer : BOOLEAN, armed : BOOLEAN], stray : Nat,
             ask   : Trips \cup {NoTrip}, net : SUBSET Trips,
             draw  : Trips \cup {NoTrip}, play : Trips \cup {NoTrip}, control : Trips \cup {NoTrip},
             act   : Trips \cup {NoTrip}, left : BOOLEAN, steps : 0..MaxSteps ]

User == ~ui.left /\ ui.steps < MaxSteps
Acted(u) == [u EXCEPT !.steps = @ + 1]
Nothing == [l \in Layers |-> NoBundle]
Nobody == [trip |-> NoTrip, layer |-> CHOOSE l \in Layers : TRUE]
Has(b) == IF b = NoBundle THEN {} ELSE b

-----------------------------------------------------------------------------
(* render: what is to be seen, and by which of the two renderers.          *)
Seen(u) == [l \in Layers |-> IF u.info[l].vis THEN u.dat[l] ELSE NoBundle]
Highlight(u) == IF u.sel.trip \in Has(u.dat[u.sel.layer]) THEN u.sel.trip ELSE NoTrip

ShouldUseNativeRenderer(u) ==
    LET hot == {l \in Layers : u.info[l].vis /\ u.info[l].heat /\ u.dat[l] # NoBundle}
    IN  ~u.deck \/ hot = {} \/ \E l \in hot : u.dat[l] \in Big

ClearNativeLayers(u) == [u EXCEPT !.nat = Nothing, !.nsel = NoTrip, !.bound = {}, !.native = FALSE]

RenderNative(u) ==
    [u EXCEPT !.overlay = FALSE, !.dk = Nothing, !.dsel = NoTrip, !.native = TRUE, !.nat = Seen(u),
              !.nsel = Highlight(u), !.bound = {l \in Layers : Seen(u)[l] # NoBundle}]

(* The overlay is made when it is first needed; it listens to the terrain  *)
(* from then on, and lifts the paths of the layers it draws.               *)
RenderDeck(u) ==
    LET t == IF u.listens THEN u.terrain ELSE u.relief
    IN  [u EXCEPT !.overlay = TRUE, !.listens = TRUE, !.terrain = t, !.dk = Seen(u), !.dsel = Highlight(u),
                  !.drape = [l \in Layers |->
                      IF Seen(u)[l] = NoBundle THEN u.drape[l]
                      ELSE IF ~t THEN "none" ELSE IF u.drape[l] = "none" THEN "pending" ELSE u.drape[l]]]

Render(u) ==
    LET v == [u EXCEPT !.lost = FALSE] IN
    IF v.sup # {} THEN ClearNativeLayers([v EXCEPT !.dk = Nothing, !.dsel = NoTrip])
    ELSE IF ShouldUseNativeRenderer(v) THEN RenderNative(v)
    ELSE RenderDeck(IF v.native THEN ClearNativeLayers(v) ELSE v)

(* refreshTripStyles is throttled: a call while one is recent is dropped;  *)
(* the render it leads to waits for an import.                             *)
RefreshTripStyles(u) ==
    IF u.busy THEN [u EXCEPT !.lost = TRUE] ELSE [u EXCEPT !.busy = TRUE, !.soon = @ + 1]

ThrottleEnds == ui.busy /\ ui' = [ui EXCEPT !.busy = FALSE]

RefreshSelection == ui.soon > 0 /\ ui' = Render([ui EXCEPT !.soon = @ - 1])

-----------------------------------------------------------------------------
(* Data, visibility, heat map, suppression.                                *)
BundleArrives(l, b) ==
    /\ User
    /\ ui' = Acted([ui EXCEPT !.jobs = Append(@, [layer |-> l, bundle |-> b]), !.latest[l] = b])

Decoded ==
    /\ ui.jobs # << >>
    /\ LET job == Head(ui.jobs) IN
       ui' = RefreshTripStyles(Render([ui EXCEPT !.jobs = Tail(@), !.dat[job.layer] = job.bundle,
                                                 !.drape[job.layer] = "none"]))

DecodeFails ==
    /\ ui.jobs # << >>
    /\ ui' = [ui EXCEPT !.jobs = Tail(@), !.putback = TRUE]

SetLayerVisibility(l, v) ==
    /\ User /\ ui.info[l].vis # v
    /\ ui' = Acted(Render([ui EXCEPT !.info[l].vis = v]))

SetUseHeatmap(h) ==
    /\ User
    /\ ui' = Acted(Render([ui EXCEPT !.info = [l \in Layers |-> [ui.info[l] EXCEPT !.heat = h]]]))

SuppressTripLayers(x) ==
    /\ User
    /\ LET u == [ui EXCEPT !.sup = @ \cup {x}] IN ui' = Acted(IF ui.sup = {} THEN Render(u) ELSE u)

RestoreTripLayers(x) ==
    /\ User /\ x \in ui.sup
    /\ LET u == [ui EXCEPT !.sup = @ \ {x}] IN ui' = Acted(IF u.sup = {} THEN Render(u) ELSE u)

(* A new style takes the native layers with it; the bundles of the visible *)
(* layers are decoded again. `putback' when a newer one was being decoded. *)
StyleChanges ==
    /\ User
    /\ LET again == {l \in Layers : ui.info[l].vis /\ ui.dat[l] # NoBundle}
           one == CHOOSE l \in again : TRUE
           rest == again \ {one}
           Jobs(ls) == IF ls = {} THEN << >>
                       ELSE LET l == CHOOSE x \in ls : TRUE IN <<[layer |-> l, bundle |-> ui.dat[l]]>>
       IN  ui' = Acted([ui EXCEPT !.nat = Nothing, !.nsel = NoTrip, !.lost = TRUE,
                                  !.jobs = @ \o (IF again = {} THEN << >> ELSE Jobs({one}) \o Jobs(rest)),
                                  !.putback = @ \/ ui.jobs # << >>])

(* Terrain: noticed once the overlay listens; an idle map samples again.   *)
ReliefToggled ==
    /\ User
    /\ LET u == [ui EXCEPT !.relief = ~@] IN
       ui' = Acted(IF u.listens THEN Render([u EXCEPT !.terrain = u.relief]) ELSE u)

MapIdle ==
    /\ ui.terrain /\ \E l \in Layers : ui.dat[l] # NoBundle /\ ui.drape[l] # "done"
    /\ ui' = Render([ui EXCEPT !.drape = [l \in Layers |-> IF ui.dat[l] # NoBundle THEN "done" ELSE ui.drape[l]]])

-----------------------------------------------------------------------------
(* Selection by a click, in either renderer, or from a link.               *)
HandleTripClick(u, t, l, deferred) ==
    RefreshTripStyles([u EXCEPT !.sel = [trip |-> t, layer |-> l],
                                !.pop = @ \cup {[id |-> u.steps + 1, trip |-> t, defer |-> deferred, armed |-> ~deferred]}])

(* A click on the map closes the popups that listen to it.                 *)
ClosedByClick(u) == [u EXCEPT !.pop = {p \in @ : ~p.armed}]

ClickDeck(l, t) ==
    /\ User /\ ui.overlay /\ t \in Has(ui.dk[l])
    /\ ui' = Acted(Render(HandleTripClick(ClosedByClick(ui), t, l, TRUE)))

ClickNative(l, t) ==
    /\ User /\ l \in ui.bound /\ t \in Has(ui.nat[l])
    /\ ui' = Acted(HandleTripClick(ClosedByClick(ui), t, l, FALSE))

ClickNothing ==
    /\ User
    /\ LET u == ClosedByClick(ui) IN
       ui' = Acted(IF u.sel.trip = NoTrip THEN u ELSE RefreshTripStyles([u EXCEPT !.sel = Nobody]))

ZoomToTrip(t) ==
    /\ User
    /\ \E l \in Layers : t \in Has(ui.dat[l])
    /\ ui' = Acted(RefreshTripStyles([ui EXCEPT !.sel =
                   [trip |-> t, layer |-> CHOOSE l \in Layers : t \in Has(ui.dat[l])]]))

(* Popups. The listener of a deferred one is added after 80 ms, also when  *)
(* the popup has closed by then (`stray').                                 *)
ArmPopup(p) == p.defer /\ ~p.armed /\ ui' = [ui EXCEPT !.pop = (@ \ {p}) \cup {[p EXCEPT !.armed = TRUE]}]

PopupRemoved(u, p) == [u EXCEPT !.pop = @ \ {p}, !.stray = IF p.defer /\ ~p.armed THEN @ + 1 ELSE @]

ClosePopup(p) == User /\ ui' = Acted(PopupRemoved(ui, p))

(* Rematch, clear the match, delete: each asks first, then sends; with the *)
(* answer the popup goes and the map is loaded again.                      *)
AskAction(p) == User /\ ui.ask = NoTrip /\ p.trip \notin ui.net /\ ui' = Acted([ui EXCEPT !.ask = p.trip])
Decline == ui.ask # NoTrip /\ ui' = [ui EXCEPT !.ask = NoTrip]
Confirm == ui.ask # NoTrip /\ ui' = [ui EXCEPT !.ask = NoTrip, !.net = @ \cup {ui.ask}]

ActionDone(t) ==
    /\ t \in ui.net
    /\ \E b \in Bundles, l \in Layers :
         ui' = [ui EXCEPT !.net = @ \ {t}, !.pop = {p \in @ : p.trip # t},
                          !.stray = @ + Cardinality({p \in ui.pop : p.trip = t /\ p.defer /\ ~p.armed}),
                          !.jobs = Append(@, [layer |-> l, bundle |-> b]), !.latest[l] = b]

ActionFails(t) == t \in ui.net /\ ui' = [ui EXCEPT !.net = @ \ {t}]

-----------------------------------------------------------------------------
(* Every 300 ms the route animation and the replay controls are brought in *)
(* line with the selection.                                                *)
Stopped(u) == [u EXCEPT !.draw = NoTrip, !.play = NoTrip, !.control = NoTrip]

SyncSelection ==
    /\ ~ui.left
    /\ LET t == ui.sel.trip IN
       IF t # NoTrip /\ (t # ui.act \/ ui.control = NoTrip)
       THEN ui' = IF Highlight(ui) = NoTrip THEN [Stopped(ui) EXCEPT !.act = NoTrip]
                  ELSE [Stopped(ui) EXCEPT !.act = t, !.draw = t, !.control = t]
       ELSE t = NoTrip /\ ui.control # NoTrip /\ ui' = [Stopped(ui) EXCEPT !.act = NoTrip]

DrawEnds == ui.draw # NoTrip /\ ui' = [ui EXCEPT !.draw = NoTrip]

ClickReplay ==
    /\ User /\ ui.control # NoTrip
    /\ ui' = Acted([ui EXCEPT !.play = IF @ = NoTrip THEN ui.control ELSE NoTrip])

ReplayEnds == ui.play # NoTrip /\ ui' = [ui EXCEPT !.play = NoTrip]

Leave == User /\ ui' = Acted([Stopped(ui) EXCEPT !.left = TRUE])

Start ==
    [ deck |-> TRUE, info |-> [l \in Layers |-> [vis |-> TRUE, heat |-> TRUE]], dat |-> Nothing, jobs |-> << >>,
      latest |-> Nothing, overlay |-> FALSE, dk |-> Nothing, dsel |-> NoTrip, native |-> FALSE, nat |-> Nothing,
      nsel |-> NoTrip, bound |-> {}, sel |-> Nobody, sup |-> {}, relief |-> FALSE, terrain |-> FALSE,
      listens |-> FALSE, drape |-> [l \in Layers |-> "none"], busy |-> FALSE, soon |-> 0, lost |-> FALSE,
      putback |-> FALSE, pop |-> {}, stray |-> 0, ask |-> NoTrip, net |-> {}, draw |-> NoTrip, play |-> NoTrip,
      control |-> NoTrip, act |-> NoTrip, left |-> FALSE, steps |-> 0 ]

(* The page opens and the first bundle has been asked for.                 *)
Init == \E d \in BOOLEAN, b \in Bundles, l \in Layers :
            ui = [Start EXCEPT !.deck = d, !.jobs = <<[layer |-> l, bundle |-> b]>>, !.latest[l] = b]

Next ==
    \/ ThrottleEnds \/ RefreshSelection \/ Decoded \/ DecodeFails \/ StyleChanges \/ ReliefToggled \/ MapIdle
    \/ ClickNothing \/ Decline \/ Confirm \/ SyncSelection \/ DrawEnds \/ ClickReplay \/ ReplayEnds \/ Leave
    \/ \E l \in Layers, b \in Bundles : BundleArrives(l, b)
    \/ \E l \in Layers, v \in BOOLEAN : SetLayerVisibility(l, v)
    \/ \E h \in BOOLEAN : SetUseHeatmap(h)
    \/ \E x \in Reasons : SuppressTripLayers(x) \/ RestoreTripLayers(x)
    \/ \E l \in Layers, t \in Trips : ClickDeck(l, t) \/ ClickNative(l, t)
    \/ \E t \in Trips : ZoomToTrip(t) \/ ActionDone(t) \/ ActionFails(t)
    \/ \E p \in ui.pop : ArmPopup(p) \/ ClosePopup(p) \/ AskAction(p)

Spec == Init /\ [][Next]_ui

-----------------------------------------------------------------------------
(* Once no render is to come, the map shows exactly the visible layers     *)
(* with their current data and the selected trip, in one renderer; nothing *)
(* while some scene suppresses the trips. Excepted: a refresh the throttle *)
(* dropped, and a style that has not been put back.                        *)
DrawnIsState ==
    ui.soon = 0 /\ ~ui.lost /\ (ui.native \/ ui.overlay) =>
        /\ ui.sup = {} => [l \in Layers |-> ui.nat[l]] = Seen(ui) \/ ui.dk = Seen(ui)
        /\ ui.sup = {} => ui.nsel = Highlight(ui) \/ ui.dsel = Highlight(ui)
        /\ ui.sup # {} => ui.nat = Nothing /\ ui.dk = Nothing /\ ui.nsel = NoTrip /\ ui.dsel = NoTrip

(* Trips are never drawn twice: not by both renderers at once.             *)
OneRenderer == (ui.nat = Nothing /\ ui.nsel = NoTrip) \/ (ui.dk = Nothing /\ ui.dsel = NoTrip)

(* When the worker is idle a layer has the bundle that arrived last,       *)
(* unless a style was put back while a newer bundle was being decoded.     *)
LatestBundle == ui.jobs = << >> /\ ~ui.putback => \A l \in Layers : ui.dat[l] = ui.latest[l]

(* A replay is always that of the trip whose controls are shown, and       *)
(* nothing is animated after the page is left.                             *)
ReplayOwned ==
    /\ ui.play \in {ui.control, NoTrip} /\ ui.draw \in {ui.control, NoTrip}
    /\ ui.left => ui.play = NoTrip /\ ui.draw = NoTrip
=============================================================================
