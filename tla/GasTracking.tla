----------------------------- MODULE GasTracking -----------------------------
(***************************************************************************)
(* The fill-up page (features/gas-tracking/index.js): one form for new and *)
(* for recorded fill-ups, whose odometer is typed or estimated by the      *)
(* server, whose location is looked up for the vehicle and time entered,   *)
(* and a list of the last fill-ups.                                        *)
(***************************************************************************)
EXTENDS Naturals, FiniteSets, FiniteSetsExt

CONSTANTS Vehicles, NoVehicle, Fillups, NoFillup, MaxSteps

VARIABLE ui

Times == {"now", "past"}
Blank == <<"blank">>
Typed == <<"typed">>
(* An odometer found by the server: estimated, or an exact earlier entry.  *)
Readings == Vehicles \X Times \X {"exact", "est"}
Places == (Vehicles \X Times) \cup {Blank}
Sources == {"none", "manual", "estimated"}
Entry == [v : Vehicles, t : Times, odo : Readings \cup {Blank, Typed}, src : Sources, loc : Places]
NoEntry == [v |-> NoVehicle, t |-> "now", odo |-> Blank, src |-> "none", loc |-> Blank]
Book == [Fillups -> Entry \cup {NoEntry}]

TypeOK ==
    ui \in [ phase : {"map", "vehicles", "bouncie", "trips", "again", "location", "fillups", "ready", "left"},
             vehicle : Vehicles \cup {NoVehicle}, time : Times, gallons : BOOLEAN, full : BOOLEAN, missed : BOOLEAN,
             noOdo : BOOLEAN, value : Readings \cup {Blank, Typed}, auto : Readings \cup {Blank}, src : Sources,
             loc : Places, editing : Fillups \cup {NoFillup}, list : Book, srv : Book,
             ready : {"gallons", "paused", "partial", "odometer", "eligible"},
             saving : BOOLEAN, calc : BOOLEAN, ticks : SUBSET Vehicles,
             net : SUBSET [id : Nat, kind : {"loc", "list", "calc", "save", "delete"}, v : Vehicles \cup {NoVehicle},
                           t : Times, ed : Fillups \cup {NoFillup}, then : {"stop", "load", "init", "saved"},
                           f : Fillups \cup {NoFillup}, rec : Entry \cup {NoEntry}],
             crossed : BOOLEAN, steps : 0..MaxSteps ]

User == ui.phase = "ready" /\ ui.steps < MaxSteps
Acted(u) == [u EXCEPT !.steps = @ + 1]
Fresh(net) == Min((0..Cardinality(net)) \ {q.id : q \in net})
Request(u, kind, then, f, rec) ==
    [id |-> Fresh(u.net), kind |-> kind, v |-> u.vehicle, t |-> u.time, ed |-> u.editing, then |-> then, f |-> f, rec |-> rec]
Asked(u, kind, then, f, rec) == [u EXCEPT !.net = @ \cup {Request(u, kind, then, f, rec)}]
Done(u, q) == [u EXCEPT !.net = @ \ {q}]

(* An answer about a vehicle, a time or a fill-up that is no longer the    *)
(* form's.                                                                 *)
Crossed(u, q) == u.crossed \/ q.v # u.vehicle \/ q.t # u.time \/ q.ed # u.editing

-----------------------------------------------------------------------------
HasOdometer(u) == ~u.noOdo /\ u.value # Blank

GetMpgReadiness(u) ==
    IF ~u.gallons THEN "gallons" ELSE IF u.missed THEN "paused" ELSE IF ~u.full THEN "partial"
    ELSE IF ~HasOdometer(u) THEN "odometer" ELSE "eligible"

UpdateMpgReadiness(u) == [u EXCEPT !.ready = GetMpgReadiness(u)]

ClearOdometerSource(u) == [u EXCEPT !.auto = Blank, !.src = "none"]
IsAutoManaged(u) == u.value = Blank \/ u.value = u.auto

ClearAutoManagedOdometer(u, force) ==
    IF force \/ IsAutoManaged(u) THEN ClearOdometerSource([u EXCEPT !.value = Blank]) ELSE u

SetOdometerFromSource(u, r) ==
    [u EXCEPT !.value = r, !.auto = r, !.src = IF r[3] = "exact" THEN "manual" ELSE "estimated"]

MarkOdometerManual(u) ==
    IF u.value = Blank THEN ClearOdometerSource(u) ELSE [u EXCEPT !.auto = Blank, !.src = "manual"]

(* The source sent with the odometer: without one on record, "manual".     *)
OdometerSource(u) == IF ~HasOdometer(u) THEN "none" ELSE IF u.src = "none" THEN "manual" ELSE u.src

-----------------------------------------------------------------------------
LoadRecentFillups(u, then) == Asked(u, "list", then, NoFillup, NoEntry)

AfterLocation(u, then) ==
    CASE then = "init" -> LoadRecentFillups([u EXCEPT !.phase = "fillups"], "init")
      [] then = "load" -> LoadRecentFillups(u, "stop")
      [] OTHER -> u

UpdateLocationAndOdometer(u, then) ==
    IF u.vehicle = NoVehicle THEN AfterLocation(UpdateMpgReadiness(ClearAutoManagedOdometer(u, TRUE)), then)
    ELSE Asked(u, "loc", then, NoFillup, NoEntry)

(* Found, known without a position or not at all, or failed.               *)
LocationArrives(q) ==
    /\ q.kind = "loc"
    /\ \E at \in {<<q.v, q.t>>, Blank} :
         ui' = AfterLocation(UpdateMpgReadiness([Done(ui, q) EXCEPT !.loc = at, !.crossed = Crossed(ui, q)]), q.then)

(* The list of the vehicle asked for, of all of them without one.          *)
ListArrives(q) ==
    /\ q.kind = "list"
    /\ LET u == [Done(ui, q) EXCEPT !.saving = @ /\ q.then # "saved",
                                    !.phase = IF q.then = "init" THEN "ready" ELSE @]
           seen == [f \in Fillups |-> IF q.v \in {NoVehicle, ui.srv[f].v} THEN ui.srv[f] ELSE NoEntry]
           v == IF q.then = "init" THEN UpdateMpgReadiness([u EXCEPT !.time = "now"]) ELSE u
       IN  \/ ui' = [v EXCEPT !.list = seen]
           \/ ui' = v

-----------------------------------------------------------------------------
(* The page is built in turn: the map, the vehicles, which are discovered  *)
(* when there are none, the location, the list, and only then the          *)
(* listeners.                                                              *)
MapLoaded == ui.phase = "map" /\ ui' = [ui EXCEPT !.phase = "vehicles"]

VehiclesArrive(found) ==
    /\ ui.phase \in {"vehicles", "again"}
    /\ IF ~found
       THEN \/ ui.phase = "vehicles" /\ ui' = [ui EXCEPT !.phase = "bouncie"]
            \/ ui' = LoadRecentFillups([ui EXCEPT !.phase = "fillups"], "init")
       ELSE \/ \E v \in Vehicles : ui' = UpdateLocationAndOdometer([ui EXCEPT !.phase = "location", !.vehicle = v], "init")
            \/ ui' = LoadRecentFillups([ui EXCEPT !.phase = "fillups"], "init")

AttemptVehicleDiscovery ==
    /\ ui.phase \in {"bouncie", "trips"}
    /\ \/ ui' = [ui EXCEPT !.phase = "again"]
       \/ ui.phase = "bouncie" /\ ui' = [ui EXCEPT !.phase = "trips"]
       \/ ui.phase = "trips" /\ ui' = LoadRecentFillups([ui EXCEPT !.phase = "fillups"], "init")

(* A vehicle chosen before the listeners exist is noticed by nobody.       *)
ChooseEarly(v) ==
    /\ ui.phase \in {"location", "fillups"} /\ ui.steps < MaxSteps
    /\ ui' = Acted([ui EXCEPT !.vehicle = v, !.crossed = TRUE])

-----------------------------------------------------------------------------
ChangeVehicle(v) ==
    /\ User /\ v # ui.vehicle
    /\ ui' = Acted(UpdateLocationAndOdometer([ClearAutoManagedOdometer(ui, TRUE) EXCEPT !.vehicle = v, !.loc = Blank], "load"))

ChangeTime(t) == User /\ t # ui.time /\ ui' = Acted(UpdateLocationAndOdometer(ClearAutoManagedOdometer([ui EXCEPT !.time = t], FALSE), "stop"))

EnterGallons(g) == User /\ ui' = Acted(UpdateMpgReadiness([ui EXCEPT !.gallons = g]))
ToggleFull == User /\ ui' = Acted(UpdateMpgReadiness([ui EXCEPT !.full = ~@]))
ToggleMissed == User /\ ui' = Acted(UpdateMpgReadiness([ui EXCEPT !.missed = ~@]))

TypeOdometer(r) == User /\ ~ui.noOdo /\ ui' = Acted(UpdateMpgReadiness(MarkOdometerManual([ui EXCEPT !.value = r])))

ToggleNotRecorded ==
    /\ User
    /\ ui' = Acted(UpdateMpgReadiness(IF ui.noOdo THEN [ui EXCEPT !.noOdo = FALSE]
                                      ELSE ClearOdometerSource([ui EXCEPT !.noOdo = TRUE, !.value = Blank])))

AutoCalcOdometer ==
    /\ User /\ ui.vehicle # NoVehicle /\ ~ui.noOdo /\ ~ui.calc
    /\ ui' = Acted(Asked([ui EXCEPT !.calc = TRUE], "calc", "stop", NoFillup, NoEntry))

CalcArrives(q) ==
    /\ q.kind = "calc"
    /\ LET u == [Done(ui, q) EXCEPT !.calc = FALSE]
       IN  \/ \E how \in {"exact", "est"} :
                ui' = UpdateMpgReadiness([SetOdometerFromSource(u, <<q.v, q.t, how>>)
                                          EXCEPT !.crossed = Crossed(ui, q) \/ ui.noOdo])
           \/ ui' = UpdateMpgReadiness(u)

-----------------------------------------------------------------------------
(* The form is emptied; a selected vehicle comes back after a tick.        *)
ResetFormState(v) ==
    LET u == [ClearOdometerSource(v) EXCEPT !.editing = NoFillup, !.vehicle = NoVehicle, !.time = "now", !.gallons = FALSE,
                !.full = TRUE, !.missed = FALSE, !.noOdo = FALSE, !.value = Blank]
    IN  IF v.vehicle = NoVehicle THEN UpdateMpgReadiness(u) ELSE [u EXCEPT !.ticks = @ \cup {v.vehicle}]

Reselected(v) ==
    /\ v \in ui.ticks
    /\ ui' = UpdateMpgReadiness(UpdateLocationAndOdometer(
               [ui EXCEPT !.ticks = @ \ {v}, !.vehicle = v, !.time = "now", !.loc = Blank,
                          !.crossed = @ \/ ui.vehicle # NoVehicle], "stop"))

CancelEdit == User /\ ui.editing # NoFillup /\ ui' = Acted(ResetFormState(ui))

FormEntry(u) ==
    [v |-> u.vehicle, t |-> u.time, odo |-> IF HasOdometer(u) THEN u.value ELSE Blank, src |-> OdometerSource(u), loc |-> u.loc]

(* Entries without a vehicle or gallons are refused.                       *)
HandleFormSubmit ==
    /\ User /\ ~ui.saving /\ ui.vehicle # NoVehicle /\ ui.gallons
    /\ \/ \E f \in Fillups : /\ IF ui.editing = NoFillup THEN ui.srv[f] = NoEntry /\ (\A q \in ui.net : q.f # f) ELSE f = ui.editing
                             /\ ui' = Acted(Asked([ui EXCEPT !.saving = TRUE], "save", "saved", f, FormEntry(ui)))

(* A fill-up deleted meanwhile is not updated. The list is read before the *)
(* vehicle is back in the form: it is the list of all vehicles.            *)
Saved(q) ==
    /\ q.kind = "save"
    /\ LET u == Done(ui, q)
       IN  \/ /\ q.ed = NoFillup \/ ui.srv[q.f] # NoEntry
              /\ ui' = LoadRecentFillups(ResetFormState([u EXCEPT !.srv[q.f] = q.rec]), "saved")
           \/ ui' = [u EXCEPT !.saving = FALSE]

(* Mutant: a recorded odometer is taken for a typed one.                   *)
EditAsManual(f) ==
    /\ User /\ ui.list[f] # NoEntry
    /\ LET e == ui.list[f]
       IN  ui' = Acted(UpdateMpgReadiness([ui EXCEPT !.editing = f, !.vehicle = e.v, !.time = e.t, !.gallons = TRUE, !.loc = e.loc,
                   !.noOdo = (e.odo = Blank), !.value = e.odo, !.src = IF e.odo = Blank THEN "none" ELSE "manual", !.auto = Blank]))

EditFillup(f) ==
    /\ User /\ ui.list[f] # NoEntry
    /\ LET e == ui.list[f]
       IN  ui' = Acted(UpdateMpgReadiness([ui EXCEPT !.editing = f, !.vehicle = e.v, !.time = e.t, !.gallons = TRUE, !.loc = e.loc,
                   !.noOdo = (e.odo = Blank), !.value = e.odo, !.src = e.src,
                   !.auto = IF e.src = "estimated" THEN e.odo ELSE Blank]))

DeleteFillup(f) == User /\ ui.list[f] # NoEntry /\ ui' = Acted(Asked(ui, "delete", "stop", f, NoEntry))

Deleted(q) ==
    /\ q.kind = "delete"
    /\ LET u == Done(ui, q)
       IN  \/ /\ ui.srv[q.f] # NoEntry
              /\ ui' = LoadRecentFillups(IF ui.editing = q.f THEN ResetFormState([u EXCEPT !.srv[q.f] = NoEntry])
                                         ELSE [u EXCEPT !.srv[q.f] = NoEntry], "stop")
           \/ ui' = u

Leave == ui.phase = "ready" /\ ui' = [ui EXCEPT !.phase = "left", !.net = {}, !.ticks = {}]

Init ==
    \E v \in Vehicles, f \in Fillups :
        LET book == [g \in Fillups |-> IF g = f THEN [v |-> v, t |-> "past", odo |-> <<v, "past", "est">>, src |-> "estimated",
                                                      loc |-> <<v, "past">>] ELSE NoEntry]
        IN  ui = [ phase |-> "map", vehicle |-> NoVehicle, time |-> "now", gallons |-> FALSE, full |-> TRUE, missed |-> FALSE,
                   noOdo |-> FALSE, value |-> Blank, auto |-> Blank, src |-> "none", loc |-> Blank, editing |-> NoFillup,
                   list |-> [g \in Fillups |-> NoEntry], srv |-> book, ready |-> "gallons", saving |-> FALSE, calc |-> FALSE,
                   ticks |-> {}, net |-> {}, crossed |-> FALSE, steps |-> 0 ]

Next ==
    \/ \E q \in ui.net : LocationArrives(q) \/ ListArrives(q) \/ CalcArrives(q) \/ Saved(q) \/ Deleted(q)
    \/ \E v \in Vehicles : ChooseEarly(v) \/ Reselected(v)
    \/ \E v \in Vehicles \cup {NoVehicle} : ChangeVehicle(v)
    \/ \E t \in Times : ChangeTime(t)
    \/ \E b \in BOOLEAN : EnterGallons(b) \/ VehiclesArrive(b)
    \/ \E r \in {Blank, Typed} : TypeOdometer(r)
    \/ \E f \in Fillups : EditFillup(f) \/ DeleteFillup(f)
    \/ MapLoaded \/ AttemptVehicleDiscovery \/ ToggleFull \/ ToggleMissed \/ ToggleNotRecorded \/ AutoCalcOdometer
    \/ CancelEdit \/ HandleFormSubmit \/ Leave

Spec == Init /\ [][Next]_ui

-----------------------------------------------------------------------------
(* The advice under the form is about the form: what it says of the MPG of *)
(* this entry is what the fields say, except while a location is looked up *)
(* (it is renewed when the answer is there, index.js:382) and for the tick *)
(* in which a form that was emptied gets its vehicle back.                 *)
AdviceAgrees ==
    ui.phase = "ready" /\ ui.ticks = {} /\ (\A q \in ui.net : q.kind # "loc") => ui.ready = GetMpgReadiness(ui)

(* What is recorded says where it came from: a typed odometer is saved as  *)
(* manual, an estimate as an estimate, through every edit; and an estimate *)
(* and a location are of the vehicle they are saved for, and an estimate   *)
(* of the time, unless an answer for an earlier entry of the form was let  *)
(* in (index.js:341,838: answers are not matched to the form), a vehicle   *)
(* was chosen before the page listened (index.js:50), or the form was used *)
(* within the tick that gives it its vehicle back (index.js:1028).         *)
SavedAsEntered ==
    \A f \in Fillups :
        LET e == ui.srv[f]
        IN  /\ (e.odo = Typed => e.src = "manual") /\ (e.odo = Blank => e.src = "none")
            /\ e.odo \in Readings /\ e.odo[3] = "est" =>
                 e.src = "estimated" /\ (ui.crossed \/ (e.odo[1] = e.v /\ e.odo[2] = e.t))
            /\ e.loc # Blank /\ ~ui.crossed => e.loc[1] = e.v

=============================================================================
