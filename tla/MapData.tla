------------------------------- MODULE MapData -------------------------------
(***************************************************************************)
(* What the main map loads (app-controller.js, data-manager.js,            *)
(* core/store.js, utils/data.js): the trips of a period, the streets of    *)
(* the selected coverage area in each street mode, and its boundary. A     *)
(* handler is the asynchronous function of one event: it does its steps    *)
(* one after the other and stops at each await until the requests it waits *)
(* for have settled. A request is known by its abort key.                  *)
(***************************************************************************)
EXTENDS Naturals, Sequences, FiniteSets

CONSTANTS Areas, NoArea, Modes, NoMode, Days, Clip, MaxSteps

VARIABLE ui

Keys == Modes \cup {"trips"} \cup Areas         \* an area is the key of its boundary
Step == [do : {"hide", "show", "reveal", "sync", "draw", "reset", "refresh", "pass"},
         x : Modes \cup Areas \cup {NoArea}]
Request == [id : Nat, key : Keys, area : Areas \cup {NoArea}, day : Days, dead : BOOLEAN]
Answer == [key : Keys, area : Areas \cup {NoArea}, day : Days]

TypeOK ==
    ui \in [ sel   : Areas \cup {NoArea}, saved : Modes \cup {NoMode}, day : Days,
             info  : [Modes -> [vis : BOOLEAN, area : Areas \cup {NoArea}]],  \* state.mapLayers
             m     : [Modes -> [vis : BOOLEAN, area : Areas \cup {NoArea}]],  \* the layers on the map
             flag  : [Modes -> BOOLEAN],                                      \* ...StreetsLoaded
             ctl   : [Keys -> Nat],                                           \* abortControllers
             trips : [day : Days, area : Areas \cup {NoArea}],
             queue : Seq([day : Days, area : Areas \cup {NoArea}]),           \* bundles the worker decodes
             answers : SUBSET Answer,                                         \* apiCache
             cache : SUBSET Areas, overlay : Areas \cup {NoArea},
             runs  : SUBSET [id : Nat, todo : Seq(Step), wait : SUBSET Nat, ok : BOOLEAN],
             net   : SUBSET Request, last : Nat,
             crossed : BOOLEAN, unowned : BOOLEAN, stale : BOOLEAN, failed : SUBSET Modes,
             steps : 0..MaxSteps ]

Do(d, x) == [do |-> d, x |-> x]
Clipped(a) == IF Clip THEN a ELSE NoArea

(* No handler can go on: only then does the browser take the next event.   *)
Quiet == \A h \in ui.runs : h.wait # {}
User == ui.steps < MaxSteps /\ Quiet
Acted(u) == [u EXCEPT !.steps = @ + 1]

(* A new handler; `crossed' when another one has not ended.                *)
Handler(u, id, todo, wait) ==
    [u EXCEPT !.runs = @ \cup {[id |-> id, todo |-> todo, wait |-> wait, ok |-> TRUE]},
              !.crossed = @ \/ u.runs # {}]

(* fetchWithRetry: a recent answer to the same question is taken as it is; *)
(* else the controller kept under the key is aborted and replaced. The     *)
(* question for streets has no period. That of a boundary never finds an   *)
(* answer here: Sync has its own cache, which forgets nothing.             *)
Kept(u, key, area) == \E a \in u.answers : a.key = key /\ a.area = area /\ (key = "trips" => a.day = u.day)

Fetch(u, key, area) ==
    [u EXCEPT !.last = @ + 1, !.ctl[key] = u.last + 1,
              !.net = {IF r.id = u.ctl[key] THEN [r EXCEPT !.dead = TRUE] ELSE r : r \in u.net}
                      \cup {[id |-> u.last + 1, key |-> key, area |-> area, day |-> u.day, dead |-> FALSE]}]

(* apiCache.set: the answer is kept, for thirty seconds.                   *)
Keep(u, r) == [u EXCEPT !.answers = @ \cup {[key |-> r.key, area |-> r.area, day |-> r.day]}]

(* Whatever the end of a request, the controller of its key is forgotten.  *)
Finally(u, r) ==
    [u EXCEPT !.net = @ \ {r}, !.ctl[r.key] = 0,
              !.runs = {[h EXCEPT !.wait = @ \ {r.id}] : h \in @}]

(* The trips are asked for. An answer that was kept goes to the worker at  *)
(* once. `unowned' while an older request is left that may answer after:   *)
(* a kept answer aborts none, a request only that of the controller kept.  *)
FetchTrips(u) ==
    LET a == Clipped(u.sel)
        kept == Kept(u, "trips", a)
        v == [u EXCEPT !.stale = FALSE,
                       !.unowned = \E r \in u.net : r.key = "trips" /\ ~r.dead /\ (kept \/ r.id # u.ctl["trips"])]
    IN  IF kept THEN [v EXCEPT !.queue = Append(@, [day |-> u.day, area |-> a])] ELSE Fetch(v, "trips", a)

(* The streets of an area go to the layer of the mode.                     *)
DrawStreets(u, mode, area) ==
    [u EXCEPT !.info[mode].area = area, !.m[mode] = [vis |-> u.info[mode].vis, area |-> area]]

-----------------------------------------------------------------------------
(* The steps of handleStreetViewModeChange, of the overlay that follows    *)
(* it, and of the functions that call it.                                  *)
Then(u, h, steps, wait) ==
    [u EXCEPT !.runs = (@ \ {h}) \cup
        (IF steps = << >> /\ wait = {} THEN {} ELSE {[h EXCEPT !.todo = steps, !.wait = wait]})]

Hide(u, h, mode, rest) ==
    Then([u EXCEPT !.info[mode].vis = FALSE, !.m[mode].vis = FALSE], h,
         <<Do("sync", NoArea)>> \o rest, {})

Show(u, h, mode, rest) ==
    IF u.sel = NoArea THEN Then(u, h, rest, {})
    ELSE LET v == [u EXCEPT !.info[mode].vis = TRUE]
             w == [v EXCEPT !.flag[mode] = TRUE, !.failed = @ \ {mode}]
             after == <<Do("reveal", mode), Do("sync", NoArea)>> \o rest
         IN  IF v.flag[mode] THEN Then(v, h, after, {})
             ELSE IF Kept(w, mode, w.sel) THEN Then(DrawStreets(w, mode, w.sel), h, after, {})
             ELSE Then(Fetch(w, mode, w.sel), h, after, {w.last + 1})

(* Once the fetch has ended, well or not, what is on the map is shown.     *)
Reveal(u, h, mode, rest) ==
    Then([u EXCEPT !.m[mode].vis = u.m[mode].area # NoArea], h, rest, {})

Sync(u, h, rest) ==
    IF u.sel = NoArea THEN Then([u EXCEPT !.overlay = NoArea], h, rest, {})
    ELSE IF u.sel \in u.cache
    THEN Then([u EXCEPT !.runs = (@ \ {h}) \cup {[h EXCEPT !.ok = TRUE]}], [h EXCEPT !.ok = TRUE],
              <<Do("draw", u.sel)>> \o rest, {})
    ELSE Then(Fetch(u, u.sel, u.sel), h, <<Do("draw", u.sel)>> \o rest, {u.last + 1})

Draw(u, h, area, rest) ==
    Then(IF u.sel # area THEN u ELSE [u EXCEPT !.overlay = IF h.ok THEN area ELSE NoArea], h, rest, {})

(* Mutant: the streets are not asked for again in another area.            *)
NothingReset(u, h, rest) ==
    Then([u EXCEPT !.info = [x \in Modes |-> [u.info[x] EXCEPT !.area = NoArea]]], h, rest, {})

ResetStreetCache(u, h, rest) ==
    Then([u EXCEPT !.flag = [x \in Modes |-> FALSE],
                   !.info = [x \in Modes |-> [u.info[x] EXCEPT !.area = NoArea]]], h, rest, {})

RefreshStreetLayers(u, h, rest) ==
    Then(u, h, (IF u.saved = NoMode THEN << >> ELSE <<Do("show", u.saved)>>) \o rest, {})

(* The last frame of an update applies the switches to the layers with     *)
(* data.                                                                   *)
VisibilityPass(u, h, rest) ==
    Then([u EXCEPT !.m = [x \in Modes |-> IF u.info[x].area # NoArea /\ u.m[x].area # NoArea
                                          THEN [u.m[x] EXCEPT !.vis = u.info[x].vis] ELSE u.m[x]]],
         h, rest, {})

HandlerRuns ==
    \E h \in ui.runs :
        /\ h.wait = {}
        /\ IF h.todo = << >> THEN ui' = Then(ui, h, << >>, {})
           ELSE LET s == Head(h.todo)  rest == Tail(h.todo) IN
                ui' = CASE s.do = "hide"    -> Hide(ui, h, s.x, rest)
                        [] s.do = "show"    -> Show(ui, h, s.x, rest)
                        [] s.do = "reveal"  -> Reveal(ui, h, s.x, rest)
                        [] s.do = "sync"    -> Sync(ui, h, rest)
                        [] s.do = "draw"    -> Draw(ui, h, s.x, rest)
                        [] s.do = "reset"   -> ResetStreetCache(ui, h, rest)
                        [] s.do = "refresh" -> RefreshStreetLayers(ui, h, rest)
                        [] s.do = "pass"    -> VisibilityPass(ui, h, rest)

-----------------------------------------------------------------------------
(* Events. The modes are taken in a fixed order.                           *)
ModeOrder == CHOOSE s \in [1..Cardinality(Modes) -> Modes] : \A i, k \in DOMAIN s : s[i] = s[k] => i = k
HideAll == [i \in DOMAIN ModeOrder |-> Do("hide", ModeOrder[i])]

SelectLocation(a) ==
    /\ User
    /\ LET u == Acted([ui EXCEPT !.sel = a])
           v == IF Clip /\ a # ui.sel THEN FetchTrips(u) ELSE u
           todo == IF a = NoArea THEN HideAll
                   ELSE (IF a # ui.sel THEN HideAll \o <<Do("reset", NoArea)>> ELSE << >>)
                        \o <<Do("refresh", NoArea)>>
       IN  ui' = Handler(v, u.steps, todo, {})

StreetModeChange(mode, hide) ==
    /\ User
    /\ LET u == Acted([ui EXCEPT !.saved = IF hide THEN NoMode ELSE mode])
           order == ModeOrder
       IN  ui' = Handler(u, u.steps, [i \in DOMAIN order |->
                            Do(IF order[i] = mode /\ ~hide THEN "show" ELSE "hide", order[i])], {})

(* Filters applied: updateMap aborts every request whose controller is     *)
(* kept and forgets the answers, loads the trips and the streets that are  *)
(* to be seen and not loaded, and applies the switches.                    *)
FiltersApplied(d) ==
    /\ User
    /\ LET u == Acted([ui EXCEPT !.day = d, !.net = {[r EXCEPT !.dead = @ \/ r.id = ui.ctl[r.key]] : r \in ui.net},
                                 !.ctl = [x \in Keys |-> 0], !.answers = {}])
           wanted == {x \in Modes : u.info[x].vis /\ ~u.flag[x] /\ u.sel # NoArea}
           v == FetchTrips(u)
           w == IF wanted = {} THEN v
                ELSE LET x == CHOOSE y \in wanted : TRUE IN
                     Fetch([v EXCEPT !.flag[x] = TRUE, !.failed = @ \ {x}], x, v.sel)
       IN  ui' = Handler(w, u.steps, <<Do("pass", NoArea)>>, (u.last + 1)..w.last)

TripsArrive(r) ==
    /\ r.key = "trips" /\ ~r.dead
    /\ ui' = [Keep(Finally(ui, r), r) EXCEPT !.queue = Append(@, [day |-> r.day, area |-> r.area])]

DecodeEnds ==
    /\ Quiet /\ ui.queue # << >>
    /\ ui' = [ui EXCEPT !.queue = Tail(@), !.trips = Head(ui.queue)]

StreetsArrive(r) ==
    /\ r.key \in Modes /\ ~r.dead
    /\ ui' = DrawStreets(Keep(Finally(ui, r), r), r.key, r.area)

BoundaryArrives(r) ==
    /\ r.key \in Areas /\ ~r.dead
    /\ ui' = [Finally(ui, r) EXCEPT !.cache = @ \cup {r.area},
                                    !.runs = {[h EXCEPT !.ok = IF r.id \in h.wait THEN TRUE ELSE @,
                                                        !.wait = @ \ {r.id}] : h \in ui.runs}]

(* A request that failed, ran out of time or was aborted: the streets may  *)
(* be asked for again, the boundary counts as missing.                     *)
RequestEnds(r) ==
    LET u == Finally(ui, r)
        dropped == {[h EXCEPT !.ok = IF r.id \in h.wait THEN FALSE ELSE @, !.wait = @ \ {r.id}] : h \in ui.runs}
    IN  ui' = IF r.key \in Modes THEN [u EXCEPT !.flag[r.key] = FALSE, !.failed = @ \cup {r.key}]
              ELSE IF r.key = "trips" THEN [u EXCEPT !.stale = @ \/ ~r.dead]
              ELSE [u EXCEPT !.runs = dropped]

AnswerExpires == Quiet /\ \E a \in ui.answers : ui' = [ui EXCEPT !.answers = @ \ {a}]

Settle == Quiet /\ \E r \in ui.net : TripsArrive(r) \/ StreetsArrive(r) \/ BoundaryArrives(r) \/ RequestEnds(r)

(* The page has opened with every street mode off, the area selected in an *)
(* earlier visit and its boundary, and asks for the trips.                 *)
Start ==
    [ sel |-> NoArea, saved |-> NoMode, day |-> CHOOSE d \in Days : TRUE,
      info |-> [x \in Modes |-> [vis |-> FALSE, area |-> NoArea]],
      m |-> [x \in Modes |-> [vis |-> FALSE, area |-> NoArea]], flag |-> [x \in Modes |-> FALSE],
      ctl |-> [x \in Keys |-> 0], trips |-> [day |-> CHOOSE d \in Days : TRUE, area |-> NoArea], queue |-> << >>,
      answers |-> {}, cache |-> {}, overlay |-> NoArea, runs |-> {}, net |-> {}, last |-> 0, crossed |-> FALSE,
      unowned |-> FALSE, stale |-> TRUE, failed |-> {}, steps |-> 0 ]

Init == \E a \in {NoArea, CHOOSE x \in Areas : TRUE} \cap (Areas \cup {NoArea}) :
            ui = FetchTrips([Start EXCEPT !.sel = a, !.overlay = a, !.cache = {a} \ {NoArea}])

Next ==
    \/ HandlerRuns \/ Settle \/ DecodeEnds \/ AnswerExpires
    \/ \E a \in Areas \cup {NoArea} : SelectLocation(a)
    \/ \E mode \in Modes, hide \in BOOLEAN : StreetModeChange(mode, hide)
    \/ \E d \in Days : FiltersApplied(d)

Spec == Init /\ [][Next]_ui

-----------------------------------------------------------------------------
Settled == ui.runs = {} /\ ui.net = {} /\ ui.queue = << >>

(* The trips drawn are those of the period and of the clipping area chosen *)
(* last, unless loading them failed or an older request was left when they *)
(* were asked for: fetchWithRetry takes a recent answer without aborting   *)
(* the request under way (utils/data.js:156), and forgets the controller   *)
(* of a newer request when an older one ends (line 193). The older answer  *)
(* is then drawn last.                                                     *)
TripsOfFilters ==
    Settled /\ ~ui.stale /\ ~ui.unowned => ui.trips = [day |-> ui.day, area |-> Clipped(ui.sel)]

(* When every handler has ended, a mode is on the map exactly when it is   *)
(* the saved one, and with the streets of the selected area: unless two    *)
(* handlers overlapped, or the load of the mode failed (the layer of the   *)
(* area before is then shown again).                                       *)
StreetsOfSelection ==
    Settled /\ ~ui.crossed =>
        \A x \in Modes : x \notin ui.failed =>
            /\ ui.m[x].vis = (ui.saved = x /\ ui.sel # NoArea)
            /\ ui.m[x].vis => ui.m[x].area = ui.sel

(* The boundary drawn is that of the selected area, or none: also when     *)
(* handlers of two selections overlap.                                     *)
OverlayOfSelection == Settled => ui.overlay \in {ui.sel, NoArea}

(* The flag that keeps streets from being asked for twice is up only while *)
(* they are asked for or after their answer: it never blocks a mode whose  *)
(* streets of the selected area were not loaded.                           *)
FlagNotStuck ==
    Settled /\ ~ui.crossed => \A x \in Modes : ui.flag[x] => ui.info[x].area = ui.sel \/ ui.sel = NoArea
=============================================================================
