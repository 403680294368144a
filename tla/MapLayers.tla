------------------------------ MODULE MapLayers ------------------------------
(***************************************************************************)
(* The main map and its layers (map-core.js, layer-manager.js): one        *)
(* initialisation shared by all callers, style changes one after the       *)
(* other, and for each layer a queue of updates, fades that end later, and *)
(* a rebuild that waits for a frame. A layer's data is the number of the   *)
(* load it came from; 0 is none.                                           *)
(***************************************************************************)
EXTENDS Naturals, Sequences, FiniteSets

CONSTANTS Layers, Styles, MaxSteps

VARIABLE ui

TypeOK ==
    ui \in [ map    : {"none", "library", "loading", "ready", "failed"}, calls : Nat, made : Nat,
             told   : Nat, callbacks : Nat,                       \* readyCallbacks run, waiting
             info   : [Layers -> [vis : BOOLEAN, data : Nat]],    \* store.mapLayers
             m      : [Layers -> [on : BOOLEAN, data : Nat, vis : BOOLEAN, clear : BOOLEAN]],  \* on the map
             q      : [Layers -> Seq([data : Nat, frame : BOOLEAN])],
             fades  : [Layers -> Nat],
             style  : Styles, pref : Styles, loaded : BOOLEAN,
             sq     : Seq(Styles), change : {"idle", "loading", "handlers"}, todo : SUBSET Layers,
             need   : SUBSET Layers, loads : Nat,
             refaded : BOOLEAN, steps : 0..MaxSteps ]

User == ui.map = "ready" /\ ui.steps < MaxSteps
Acted(u) == [u EXCEPT !.steps = @ + 1]

-----------------------------------------------------------------------------
(* Initialisation: the first caller starts it, the others get its promise. *)
(* A failed one answers every later caller.                                *)
Initialize ==
    /\ ui.steps < MaxSteps
    /\ ui' = Acted([ui EXCEPT !.calls = @ + 1, !.map = IF @ = "none" THEN "library" ELSE @])

LibraryReady ==
    /\ ui.map = "library"
    /\ ui' = [ui EXCEPT !.map = "loading", !.made = @ + 1]

MapLoads ==
    /\ ui.map = "loading"
    /\ ui' = [ui EXCEPT !.map = "ready", !.told = @ + ui.callbacks, !.callbacks = 0]

InitFails ==
    /\ ui.map \in {"library", "loading"}
    /\ ui' = [ui EXCEPT !.map = "failed"]

OnReady ==
    /\ ui.steps < MaxSteps
    /\ ui' = Acted(IF ui.map = "ready" THEN [ui EXCEPT !.told = @ + 1] ELSE [ui EXCEPT !.callbacks = @ + 1])

-----------------------------------------------------------------------------
(* Updates of a layer run one after the other; each keeps its data as the  *)
(* layer's own.                                                            *)
UpdateMapLayer(u, l, d) == [u EXCEPT !.q[l] = Append(@, [data |-> d, frame |-> FALSE])]

Ended(u, l) == [u EXCEPT !.q[l] = Tail(@)]

Kept(u, l, d) == [u EXCEPT !.info[l].data = d]

(* With source and layer there the data is replaced at once; otherwise     *)
(* both are removed and made again in the next frame. An update waits for  *)
(* the style.                                                              *)
UpdateStarts(l) ==
    /\ ui.q[l] # << >> /\ ~Head(ui.q[l]).frame /\ ui.loaded
    /\ LET d == Head(ui.q[l]).data IN
       ui' = IF ui.m[l].on
             THEN Ended(Kept([ui EXCEPT !.m[l] = [on |-> TRUE, data |-> d, vis |-> ui.info[l].vis, clear |-> FALSE]],
                             l, d), l)
             ELSE [ui EXCEPT !.q[l][1].frame = TRUE]

(* The wait for the style gives up after two seconds.                      *)
StyleWaitEnds(l) ==
    /\ ui.q[l] # << >> /\ ~Head(ui.q[l]).frame /\ ~ui.loaded
    /\ ui' = [ui EXCEPT !.q[l][1].frame = TRUE]

(* The frame: a style that is not loaded takes no source and the update is *)
(* given up.                                                               *)
FrameRuns(l) ==
    /\ ui.q[l] # << >> /\ Head(ui.q[l]).frame
    /\ LET d == Head(ui.q[l]).data IN
       ui' = IF ~ui.loaded THEN Ended(ui, l)
             ELSE Ended(Kept([ui EXCEPT !.m[l] = [on |-> TRUE, data |-> d, vis |-> ui.info[l].vis, clear |-> FALSE]],
                             l, d), l)

(* Fading: a layer shown is visible at once; one hidden turns transparent  *)
(* and is switched off when the fade has ended.                            *)
FadeLayer(u, l, v) ==
    IF v THEN [u EXCEPT !.m[l].vis = TRUE, !.m[l].clear = FALSE]
    ELSE [u EXCEPT !.m[l].clear = TRUE, !.fades[l] = @ + 1]

FadeEnds(l) ==
    /\ ui.fades[l] > 0
    /\ ui' = [ui EXCEPT !.fades[l] = @ - 1,
                        !.m[l].vis = IF ui.m[l].on THEN FALSE ELSE @,
                        !.refaded = @ \/ ui.info[l].vis]

(* The switch of a layer: its data is asked for when there is none.        *)
ToggleLayer(l, v) ==
    /\ User /\ v # ui.info[l].vis
    /\ LET u == [ui EXCEPT !.info[l].vis = v] IN
       ui' = Acted(IF v /\ u.info[l].data = 0 THEN [u EXCEPT !.need = @ \cup {l}]
                   ELSE IF u.m[l].on THEN FadeLayer(u, l, v)
                   ELSE IF v THEN UpdateMapLayer(u, l, u.info[l].data) ELSE u)

DataArrives(l) ==
    /\ l \in ui.need
    /\ LET d == ui.loads + 1 IN
       ui' = UpdateMapLayer([ui EXCEPT !.need = @ \ {l}, !.loads = d, !.info[l].data = d], l, d)

DataFails(l) ==
    /\ l \in ui.need
    /\ ui' = [ui EXCEPT !.need = @ \ {l}]

(* The data of a layer is loaded again (another area, another period).     *)
Reload(l) ==
    /\ User /\ l \notin ui.need /\ ui.info[l].vis
    /\ ui' = Acted([ui EXCEPT !.need = @ \cup {l}])

-----------------------------------------------------------------------------
(* Styles: setting one drops every source and layer; once it has loaded    *)
(* the handler puts the visible layers back, one after the other.          *)
Gone == [on |-> FALSE, data |-> 0, vis |-> FALSE, clear |-> FALSE]

SetStyle(s) ==
    /\ User
    /\ ui' = Acted([ui EXCEPT !.sq = Append(@, s)])

StyleStarts ==
    /\ ui.change = "idle" /\ ui.sq # << >>
    /\ ui' = IF Head(ui.sq) = ui.style /\ ui.loaded THEN [ui EXCEPT !.sq = Tail(@)]
             ELSE [ui EXCEPT !.change = "loading", !.loaded = FALSE, !.m = [l \in Layers |-> Gone]]

StyleLoads ==
    /\ ui.change = "loading"
    /\ ui' = [ui EXCEPT !.change = "handlers", !.loaded = TRUE, !.style = Head(ui.sq), !.pref = Head(ui.sq),
                        !.todo = Layers]

(* Mutant: the layers of before are put back only when they have a place.  *)
NotPutBack(l) ==
    /\ ui.change = "handlers" /\ l \in ui.todo /\ \A x \in Layers \ ui.todo : ui.q[x] = << >>
    /\ LET u == [ui EXCEPT !.todo = @ \ {l}] IN
       ui' = IF ui.info[l].vis /\ ui.m[l].on THEN UpdateMapLayer(u, l, ui.info[l].data) ELSE u

PutBack(l) ==
    /\ ui.change = "handlers" /\ l \in ui.todo /\ \A x \in Layers \ ui.todo : ui.q[x] = << >>
    /\ LET u == [ui EXCEPT !.todo = @ \ {l}] IN
       ui' = IF ui.info[l].vis /\ ui.info[l].data # 0 THEN UpdateMapLayer(u, l, ui.info[l].data) ELSE u

StyleEnds ==
    /\ ui.change = "handlers" /\ ui.todo = {} /\ \A l \in Layers : ui.q[l] = << >>
    /\ ui' = [ui EXCEPT !.change = "idle", !.sq = Tail(@)]

Start ==
    [ map |-> "none", calls |-> 0, made |-> 0, told |-> 0, callbacks |-> 0,
      info |-> [l \in Layers |-> [vis |-> FALSE, data |-> 0]],
      m |-> [l \in Layers |-> Gone], q |-> [l \in Layers |-> << >>], fades |-> [l \in Layers |-> 0],
      style |-> CHOOSE s \in Styles : TRUE, pref |-> CHOOSE s \in Styles : TRUE, loaded |-> TRUE, sq |-> << >>,
      change |-> "idle", todo |-> {}, need |-> {}, loads |-> 0, refaded |-> FALSE,
      steps |-> 0 ]

Init == ui = [Start EXCEPT !.map = "library", !.calls = 1]

Next ==
    \/ Initialize \/ LibraryReady \/ MapLoads \/ InitFails \/ OnReady \/ StyleStarts \/ StyleLoads \/ StyleEnds
    \/ \E s \in Styles : SetStyle(s)
    \/ \E l \in Layers :
        \/ UpdateStarts(l) \/ StyleWaitEnds(l) \/ FrameRuns(l) \/ FadeEnds(l) \/ DataArrives(l) \/ DataFails(l)
        \/ Reload(l) \/ PutBack(l)
        \/ \E v \in BOOLEAN : ToggleLayer(l, v)

Spec == Init /\ [][Next]_ui

-----------------------------------------------------------------------------
Settled == ui.map = "ready" /\ ui.change = "idle" /\ ui.sq = << >>
           /\ \A l \in Layers : ui.q[l] = << >> /\ ui.fades[l] = 0

(* When everything has settled, a layer is on the map and visible exactly  *)
(* when its switch is on and it has data, with the data last loaded:       *)
(* whatever toggles, loads, frames and styles crossed. One crossing is     *)
(* excepted: a fade that ends after the layer was shown again hides it     *)
(* (_fadeLayer does not look at the switch when its timer fires).          *)
MapShowsSwitches ==
    Settled /\ ~ui.refaded =>
        \A l \in Layers :
            /\ (ui.m[l].on /\ ui.m[l].vis /\ ~ui.m[l].clear) = (ui.info[l].vis /\ ui.info[l].data # 0)
            /\ ui.info[l].vis => ui.m[l].data = ui.info[l].data

(* One map is made however many callers there are, and a ready callback    *)
(* runs only once there is a loaded map.                                   *)
OneMapReady ==
    /\ ui.made <= 1
    /\ ui.told > 0 => ui.map = "ready"
    /\ ui.map = "ready" => ui.callbacks = 0

(* Style changes do not overlap: the style kept as the preference is the   *)
(* style shown, and while one loads no layer is drawn.                     *)
StylesInTurn ==
    /\ ui.pref = ui.style
    /\ ~ui.loaded => ui.change = "loading" /\ \A l \in Layers : ~ui.m[l].on
=============================================================================
