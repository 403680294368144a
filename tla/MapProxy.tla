------------------------------ MODULE MapProxy ------------------------------
(***************************************************************************)
(* The Mapbox-like map built over Google Maps (maps/google_map.js):        *)
(* registries of sources, layers and layer listeners, the overlays drawn   *)
(* for them on the Google map, and the popups and markers of the           *)
(* compatibility classes. A feature is a model value, a filter the set of  *)
(* features it lets through, a style the paint and the zoom it is for.     *)
(***************************************************************************)
EXTENDS Naturals, Sequences, FiniteSets, SequencesExt

CONSTANTS Sources, Layers, Features, Paints, Zooms, Popups, NoPopup, MaxSteps

VARIABLE ui

Overlays == [l : Layers, gen : Nat, f : Features, hot : BOOLEAN]

TypeOK ==
    ui \in [ map    : {"none", "ready", "removed"}, waiting : Nat, made : Nat,    \* googleMapCore.initialize
             src    : [Sources -> [on : BOOLEAN, data : SUBSET Features, layers : SUBSET Layers]],
             hot    : [Sources -> SUBSET Features],                \* sourceFeatureStateRegistry
             layer  : [Layers -> [on : BOOLEAN, source : Sources, filter : SUBSET Features, vis : BOOLEAN,
                                  paint : Paints, gen : Nat, drawn : SUBSET Overlays]],
             style  : [Layers -> [paint : Paints, zoom : Zooms, z : Nat]],  \* options of its overlays
             onMap  : SUBSET Overlays,                             \* overlays whose map is the Google map
             order  : Seq(Layers), zoom : Zooms, clamp : SUBSET Zooms,
             ears   : SUBSET [l : Layers, gen : Nat],              \* layerListenerRegistry with its bindings
             gen    : Nat,
             active : Popups \cup {NoPopup}, open : SUBSET Popups, \* _activePopupInstance, info windows
             timers : [Popups -> Nat], ear : [Popups -> Nat],      \* deferred and current click listener
             clicks : SUBSET [p : Popups, id : Nat], raced : BOOLEAN,
             marker : Nat, bound : Popups \cup {NoPopup}, leaked : Nat,
             steps  : 0..MaxSteps ]

Caller == ui.map = "ready" /\ ui.steps < MaxSteps
Acted(u) == [u EXCEPT !.steps = @ + 1]

-----------------------------------------------------------------------------
(* Two pages may initialise at once: the map is looked for again after the *)
(* wait for the library.                                                   *)
Initialize ==
    /\ ui.steps < MaxSteps /\ ui.map # "removed"
    /\ ui' = Acted([ui EXCEPT !.waiting = @ + 1])

LibraryReady ==
    /\ ui.waiting > 0
    /\ ui' = IF ui.map # "none" THEN [ui EXCEPT !.waiting = @ - 1]
             ELSE [ui EXCEPT !.waiting = @ - 1, !.map = "ready", !.made = @ + 1]

LibraryTimesOut ==
    /\ ui.waiting > 0 /\ ui.map = "none"
    /\ ui' = [ui EXCEPT !.waiting = @ - 1]

-----------------------------------------------------------------------------
(* Overlays.                                                               *)
ClearLayerOverlays(u, ls) ==
    [u EXCEPT !.layer = [l \in Layers |-> IF l \in ls THEN [u.layer[l] EXCEPT !.drawn = {}] ELSE u.layer[l]],
              !.onMap = {o \in @ : o.l \notin ls}]

GetLayerZIndex(u, l) ==
    IF \E i \in DOMAIN u.order : u.order[i] = l
    THEN CHOOSE i \in DOMAIN u.order : u.order[i] = l ELSE 1

(* Paint is an expression over the zoom, evaluated for the zoom of now.    *)
EvaluateStyle(p, zoom, z) == [paint |-> p, zoom |-> zoom, z |-> z]

ApplyLayerStyle(u, l) ==
    [u EXCEPT !.style[l] = EvaluateStyle(u.layer[l].paint, u.zoom, GetLayerZIndex(u, l))]

UpdateAllLayerZIndices(u) ==
    [u EXCEPT !.style = [l \in Layers |-> IF \E i \in DOMAIN u.order : u.order[i] = l
                                          THEN ApplyLayerStyle(u, l).style[l] ELSE @[l]]]

BindLayerListenerRecord(u, ls) ==
    [u EXCEPT !.ears = {IF e.l \in ls THEN [l |-> e.l, gen |-> u.layer[e.l].gen] ELSE e : e \in @}]

EvaluateLayerFilter(filter, f) == f \in filter

(* The features of the source as overlays, each with its feature state.    *)
CollectFeatures(u, l, g) ==
    LET s == u.layer[l].source IN
    { [l |-> l, gen |-> g, f |-> f, hot |-> f \in u.hot[s]] :
          f \in {x \in u.src[s].data : EvaluateLayerFilter(u.layer[l].filter, x)} }

(* New overlays for what the filters let through, and the layers'          *)
(* listeners bound to them; none for a layer whose source is gone.         *)
RerenderLayers(u, ls) ==
    LET there == {l \in ls : u.layer[l].on}
        drawing == {l \in there : u.src[u.layer[l].source].on}
        g == u.gen + 1
        Fresh(l) == CollectFeatures(u, l, g)
        w == ClearLayerOverlays(u, there)
    IN  BindLayerListenerRecord(
            [w EXCEPT !.gen = IF drawing = {} THEN @ ELSE g,
                      !.layer = [l \in Layers |-> IF l \in drawing THEN [w.layer[l] EXCEPT !.drawn = Fresh(l), !.gen = g]
                                                 ELSE w.layer[l]],
                      !.style = [l \in Layers |-> IF l \in drawing THEN ApplyLayerStyle(w, l).style[l] ELSE w.style[l]],
                      !.onMap = @ \cup UNION {Fresh(l) : l \in {x \in drawing : u.layer[x].vis}}],
            drawing)

RerenderLayer(u, l) == RerenderLayers(u, {l})

RerenderSourceLayers(u, s) == RerenderLayers(u, IF u.src[s].on THEN u.src[s].layers ELSE {})

-----------------------------------------------------------------------------
(* Sources. Adding one that exists forgets which layers show it.           *)
AddSource(s, d) ==
    /\ Caller
    /\ ui' = Acted([ui EXCEPT !.src[s] = [on |-> TRUE, data |-> d, layers |-> {}], !.hot[s] = {}])

SetData(s, d) ==
    /\ Caller /\ ui.src[s].on
    /\ ui' = Acted(RerenderSourceLayers([ui EXCEPT !.src[s].data = d], s))

RemoveSource(s) ==
    /\ Caller /\ ui.src[s].on
    /\ LET u == ClearLayerOverlays(ui, ui.src[s].layers) IN
       ui' = Acted([u EXCEPT !.src[s] = [on |-> FALSE, data |-> {}, layers |-> {}], !.hot[s] = {}])

SetFeatureState(s, f) ==
    /\ Caller /\ ui.src[s].on
    /\ ui' = Acted(RerenderSourceLayers([ui EXCEPT !.hot[s] = @ \cup {f}], s))

RemoveFeatureState(s, gone) ==
    /\ Caller /\ ui.hot[s] \cap gone # {}
    /\ ui' = Acted(RerenderSourceLayers([ui EXCEPT !.hot[s] = @ \ gone], s))

-----------------------------------------------------------------------------
(* Layers. Adding one that exists replaces it, its listeners gone.         *)
Inserted(q, l, before) ==
    IF \E i \in DOMAIN q : q[i] = before
    THEN LET i == CHOOSE i \in DOMAIN q : q[i] = before IN InsertAt(q, i, l)
    ELSE Append(q, l)

LayerRemoved(u, l) ==
    IF ~u.layer[l].on THEN u
    ELSE LET w == ClearLayerOverlays(u, {l})
             s == u.layer[l].source
         IN  UpdateAllLayerZIndices(
                 [w EXCEPT !.src[s].layers = @ \ {l}, !.layer[l].on = FALSE, !.order = RemoveFirst(@, l),
                           !.ears = {e \in @ : e.l # l}])

(* before = l is no layer to stand before: the new one goes on top.        *)
AddLayer(l, s, p, before) ==
    /\ Caller
    /\ LET u == LayerRemoved(ui, l)
           w == [u EXCEPT !.layer[l] = [on |-> TRUE, source |-> s, filter |-> Features, vis |-> TRUE,
                                        paint |-> p, gen |-> 0, drawn |-> {}],
                          !.src[s].layers = IF u.src[s].on THEN @ \cup {l} ELSE @,
                          !.order = Inserted(@, l, before)]
       IN  ui' = Acted(UpdateAllLayerZIndices(RerenderLayer(w, l)))

RemoveLayer(l) ==
    /\ Caller /\ ui.layer[l].on
    /\ ui' = Acted(LayerRemoved(ui, l))

ApplyLayerVisibility(u, l) ==
    [u EXCEPT !.onMap = {o \in @ : o.l # l} \cup IF u.layer[l].vis THEN u.layer[l].drawn ELSE {}]

SetVisibility(l, v) ==
    /\ Caller /\ ui.layer[l].on
    /\ ui' = Acted(ApplyLayerVisibility([ui EXCEPT !.layer[l].vis = v], l))

SetPaintProperty(l, p) ==
    /\ Caller /\ ui.layer[l].on
    /\ ui' = Acted(ApplyLayerStyle([ui EXCEPT !.layer[l].paint = p], l))

SetFilter(l, fs) ==
    /\ Caller /\ ui.layer[l].on
    /\ ui' = Acted(RerenderLayer([ui EXCEPT !.layer[l].filter = fs], l))

MoveLayer(l, before) ==
    /\ Caller /\ ui.layer[l].on /\ before # l
    /\ ui' = Acted(UpdateAllLayerZIndices([ui EXCEPT !.order = Inserted(RemoveFirst(@, l), l, before)]))

OnLayer(l) ==
    /\ Caller /\ ~\E e \in ui.ears : e.l = l
    /\ ui' = Acted([ui EXCEPT !.ears = @ \cup {[l |-> l, gen |-> ui.layer[l].gen]}])

OffLayer(l) ==
    /\ Caller /\ \E e \in ui.ears : e.l = l
    /\ ui' = Acted([ui EXCEPT !.ears = {e \in @ : e.l # l}])

ZoomTo(z) ==
    /\ Caller /\ z # ui.zoom
    /\ ui' = Acted(UpdateAllLayerZIndices([ui EXCEPT !.zoom = z]))

(* fitBounds moves at once; its greatest zoom is applied on the next idle. *)
FitBounds(z, most) ==
    /\ Caller
    /\ ui' = Acted(UpdateAllLayerZIndices([ui EXCEPT !.zoom = z, !.clamp = @ \cup {most}]))

Idle ==
    /\ ui.map = "ready" /\ ui.clamp # {}
    /\ LET z == CHOOSE z \in ui.clamp \cup {ui.zoom} : \A y \in ui.clamp \cup {ui.zoom} : z <= y IN
       ui' = UpdateAllLayerZIndices([ui EXCEPT !.zoom = z, !.clamp = {}])

-----------------------------------------------------------------------------
(* Popups: one active, each closed by a click on the map; the listener for *)
(* it is added after the click that opened the popup.                      *)
PopupsRemoved(u, ps) ==
    [u EXCEPT !.clicks = {c \in @ : \A p \in ps : c.id # u.ear[p]},
              !.ear = [p \in Popups |-> IF p \in ps THEN 0 ELSE u.ear[p]], !.open = @ \ ps,
              !.active = IF @ \in ps THEN NoPopup ELSE @, !.raced = @ \/ \E p \in ps : u.timers[p] > 0]

PopupRemoved(u, p) == PopupsRemoved(u, {p})

Opened(u, p) ==
    LET w == IF u.active \notin {p, NoPopup} THEN PopupRemoved(u, u.active) ELSE u IN
    [w EXCEPT !.active = p, !.open = @ \cup {p}, !.timers[p] = @ + 1,
              !.raced = @ \/ w.ear[p] # 0 \/ w.timers[p] > 0]

OpenPopup(p) ==
    /\ Caller
    /\ ui' = Acted(Opened(ui, p))

ListenForClick(p) ==
    /\ ui.map = "ready" /\ ui.timers[p] > 0
    /\ ui' = [ui EXCEPT !.timers[p] = @ - 1, !.gen = @ + 1, !.ear[p] = ui.gen + 1,
                        !.clicks = @ \cup {[p |-> p, id |-> ui.gen + 1]}]

RemovePopup(p) ==
    /\ Caller /\ p \in ui.open
    /\ ui' = Acted(PopupRemoved(ui, p))

(* The window's own close button tells nobody.                             *)
CloseButton(p) ==
    /\ Caller /\ p \in ui.open
    /\ ui' = Acted([ui EXCEPT !.open = @ \ {p}])

ClickMap ==
    /\ Caller /\ ui.clicks # {}
    /\ ui' = Acted(PopupsRemoved(ui, {c.p : c \in ui.clicks}))

(* Markers: added to the map again, a marker forgets its first overlay.    *)
AddMarker ==
    /\ Caller
    /\ ui' = Acted([ui EXCEPT !.marker = ui.gen + 1, !.gen = @ + 1, !.leaked = IF ui.marker = 0 THEN @ ELSE @ + 1])

SetPopup(p) ==
    /\ Caller
    /\ ui' = Acted([ui EXCEPT !.bound = p])

ClickMarker ==
    /\ Caller /\ ui.marker # 0 /\ ui.bound # NoPopup
    /\ ui' = Acted(Opened(ui, ui.bound))

RemoveMarker ==
    /\ Caller /\ ui.marker # 0
    /\ ui' = Acted([ui EXCEPT !.marker = 0])

NoSource == [on |-> FALSE, data |-> {}, layers |-> {}]
NoLayer ==
    [on |-> FALSE, source |-> CHOOSE s \in Sources : TRUE, filter |-> {}, vis |-> TRUE,
     paint |-> CHOOSE p \in Paints : TRUE, gen |-> 0, drawn |-> {}]

(* map.remove: registries emptied, overlays off the map.                   *)
RemoveMap ==
    /\ Caller
    /\ ui' = Acted([ui EXCEPT !.map = "removed", !.src = [s \in Sources |-> NoSource],
                              !.hot = [s \in Sources |-> {}], !.layer = [l \in Layers |-> NoLayer],
                              !.order = << >>, !.ears = {}, !.onMap = {}])

Start ==
    [ map |-> "none", waiting |-> 0, made |-> 0, src |-> [s \in Sources |-> NoSource], hot |-> [s \in Sources |-> {}],
      layer |-> [l \in Layers |-> NoLayer],
      style |-> [l \in Layers |-> [paint |-> CHOOSE p \in Paints : TRUE, zoom |-> CHOOSE z \in Zooms : TRUE, z |-> 0]],
      onMap |-> {}, order |-> << >>, zoom |-> CHOOSE z \in Zooms : TRUE, clamp |-> {}, ears |-> {}, gen |-> 0,
      active |-> NoPopup, open |-> {}, timers |-> [p \in Popups |-> 0], ear |-> [p \in Popups |-> 0],
      clicks |-> {}, raced |-> FALSE, marker |-> 0, bound |-> NoPopup, leaked |-> 0, steps |-> 0 ]

Init == ui = [Start EXCEPT !.waiting = 1]

Next ==
    \/ Initialize \/ LibraryReady \/ LibraryTimesOut \/ Idle \/ ClickMap \/ AddMarker \/ ClickMarker
    \/ RemoveMarker \/ RemoveMap
    \/ \E s \in Sources :
        \/ RemoveSource(s)
        \/ \E d \in SUBSET Features : AddSource(s, d) \/ SetData(s, d) \/ RemoveFeatureState(s, d)
        \/ \E f \in Features : SetFeatureState(s, f)
    \/ \E l \in Layers :
        \/ RemoveLayer(l) \/ OnLayer(l) \/ OffLayer(l)
        \/ \E v \in BOOLEAN : SetVisibility(l, v)
        \/ \E p \in Paints : SetPaintProperty(l, p)
        \/ \E fs \in SUBSET Features : SetFilter(l, fs)
        \/ \E b \in Layers : MoveLayer(l, b) \/ \E s \in Sources, p \in Paints : AddLayer(l, s, p, b)
    \/ \E z \in Zooms : ZoomTo(z) \/ \E m \in Zooms : FitBounds(z, m)
    \/ \E p \in Popups : OpenPopup(p) \/ ListenForClick(p) \/ RemovePopup(p) \/ CloseButton(p) \/ SetPopup(p)

Spec == Init /\ [][Next]_ui

-----------------------------------------------------------------------------
(* What a query of some layers answers: `area' are the features it hits.   *)
OverlayHits(o, area) == o.f \in area

QueryRenderedFeatures(ls, area) ==
    {o \in UNION {ui.layer[l].drawn : l \in {x \in ls : ui.layer[x].on /\ ui.layer[x].vis}} : OverlayHits(o, area)}

Attached(l) == ui.layer[l].on /\ ui.src[ui.layer[l].source].on /\ l \in ui.src[ui.layer[l].source].layers

(* A layer that its source knows of has an overlay for exactly the         *)
(* features that its filter lets through, each with its feature state, in  *)
(* the style of its paint at this zoom and at its place in the order.      *)
DrawnIsData ==
    \A l \in Layers : Attached(l) =>
        /\ {[f |-> o.f, hot |-> o.hot] : o \in ui.layer[l].drawn} =
               {[f |-> f, hot |-> f \in ui.hot[ui.layer[l].source]] :
                    f \in ui.src[ui.layer[l].source].data \cap ui.layer[l].filter}
        /\ ui.style[l].paint = ui.layer[l].paint /\ ui.style[l].zoom = ui.zoom
        /\ ui.style[l].z \in DOMAIN ui.order /\ ui.order[ui.style[l].z] = l

(* What is on the Google map is what a query of the layers finds there: no *)
(* overlay is left over from a layer, a source or a drawing that is gone.  *)
NoGhostOverlays ==
    \A ls \in SUBSET Layers : QueryRenderedFeatures(ls, Features) = {o \in ui.onMap : o.l \in ls}

(* The listeners of a drawn layer are bound to its present overlays, and   *)
(* none outlives its layer's registration but those added before it.       *)
ListenersBound ==
    \A e \in ui.ears : ui.layer[e.l].on /\ ui.layer[e.l].drawn # {} =>
        \A o \in ui.layer[e.l].drawn : o.gen = e.gen

(* At most one popup is open, the active one; a click listener belongs to  *)
(* it, unless a popup was closed before its listener came or opened twice. *)
OnePopup ==
    /\ ui.open \subseteq {ui.active}
    /\ ~ui.raced => \A c \in ui.clicks : c.p = ui.active /\ c.id = ui.ear[c.p]

(* However many callers initialise, one map is made.                       *)
OneMap == ui.made <= 1
=============================================================================
