----------------------------- MODULE SyncStatus -----------------------------
(***************************************************************************)
(* The sync button of the trips pages (modules/trip-sync.js): the state of *)
(* the trip sync, heard from an event stream or, without one, by polling;  *)
(* the button that starts or cancels a sync; and the sync started by the   *)
(* page itself when the trips are out of date. The module's variables      *)
(* outlive a visit of a page.                                              *)
(***************************************************************************)
EXTENDS Naturals, FiniteSets, FiniteSetsExt

CONSTANTS MaxVisits, MaxMoves, MaxNet, MaxSteps    \* visits, changes on the server, requests

VARIABLE ui

(* "stale" is idle and out of date; "held" is syncing without a job to     *)
(* cancel.                                                                 *)
States == {"idle", "stale", "syncing", "held", "error", "paused"}
NoStatus == "none"
Syncing(s) == s \in {"syncing", "held"}
Kinds == {"first", "online", "poll", "start", "cancel", "reread", "last"}

TypeOK ==
    ui \in [ current : States \cup {NoStatus}, inFlight : BOOLEAN, auto : BOOLEAN, timers : SUBSET (0..MaxVisits),
             action : {"start", "cancel"}, off : BOOLEAN, stream : BOOLEAN, polling : BOOLEAN, online : BOOLEAN,
             net : SUBSET [id : Nat, kind : Kinds, by : 0..MaxVisits, got : States \cup {NoStatus}],
             visit : 0..MaxVisits, on : BOOLEAN, late : BOOLEAN, clash : BOOLEAN, dark : BOOLEAN,
             srv : States, moves : 0..MaxMoves, steps : 0..MaxSteps ]

User == ui.on /\ ui.steps < MaxSteps
Acted(u) == [u EXCEPT !.steps = @ + 1]
Fresh(net) == Min((0..Cardinality(net)) \ {q.id : q \in net})
Asked(u, kind) == [u EXCEPT !.net = @ \cup {[id |-> Fresh(@), kind |-> kind, by |-> u.visit, got |-> NoStatus]}]
Done(u, q) == [u EXCEPT !.net = @ \ {q}, !.late = @ \/ ~u.on \/ q.by # u.visit]

-----------------------------------------------------------------------------

UpdateStatusUI(u) ==
    [u EXCEPT !.action = IF Syncing(u.current) THEN "cancel" ELSE "start",
              !.off = u.inFlight \/ u.current \in {"paused", "held"}, !.dark = FALSE]

(* dark: the button shows that the browser is off line.                    *)
UpdateOfflineUI(u) == [u EXCEPT !.off = TRUE, !.dark = TRUE]

ShouldAutoSync(u, s) == s = "stale" /\ ~u.auto

(* The state is taken over. (A sync seen to end is told to the page by its *)
(* callback, which the button's own readings do not pass on.)              *)
HandleStatusUpdate(v, s) ==
    LET u == [v EXCEPT !.current = s]
    IN  IF ~u.online THEN UpdateOfflineUI(u)
        ELSE IF ~ShouldAutoSync(u, s) THEN UpdateStatusUI(u)
        ELSE [UpdateStatusUI(u) EXCEPT !.auto = TRUE, !.timers = @ \cup {u.visit}]

-----------------------------------------------------------------------------
(* What the server answers is read before it arrives.                      *)
ReadStatus(q) ==
    /\ q.got = NoStatus /\ q.kind \in {"first", "online", "poll", "reread", "last"}
    /\ ui' = [ui EXCEPT !.net = (@ \ {q}) \cup {[q EXCEPT !.got = ui.srv]}]

StatusArrives(q) ==
    /\ q.got # NoStatus /\ q.kind \in {"first", "online", "poll"}
    /\ ui' = HandleStatusUpdate(Done(ui, q), q.got)

StatusFails(q) == q.kind \in {"first", "online", "poll"} /\ ui' = [ui EXCEPT !.net = @ \ {q}]

(* A request of the button ends: the state known by now is shown, or read. *)
ActionEnds(v) ==
    LET u == [v EXCEPT !.inFlight = FALSE]
    IN  IF u.current = NoStatus THEN Asked(u, "last") ELSE [UpdateStatusUI(u) EXCEPT !.clash = @ \/ ~u.online]

StartSync(u) == IF ~u.online THEN UpdateOfflineUI(u) ELSE Asked([u EXCEPT !.inFlight = TRUE, !.off = TRUE], "start")

CancelSync(u) == IF u.current = "held" THEN u ELSE Asked([u EXCEPT !.inFlight = TRUE, !.off = TRUE], "cancel")

HandleSyncClick ==
    /\ User /\ ~ui.off /\ ~ui.inFlight
    /\ ui' = Acted(IF Syncing(ui.current) THEN CancelSync(ui) ELSE StartSync(ui))

(* The sync the page starts by itself, after a moment; nobody stops it     *)
(* when the page is left or the button was used meanwhile.                 *)
AutoSync(t) ==
    /\ t \in ui.timers
    /\ ui' = StartSync([ui EXCEPT !.timers = @ \ {t}, !.late = @ \/ ~ui.on \/ t # ui.visit, !.clash = @ \/ ui.inFlight])

ActionAnswered(q) ==
    /\ q.kind \in {"start", "cancel"}
    /\ LET u == Done(ui, q)
           ok == IF q.kind = "start" THEN ui.srv \in {"idle", "stale", "error"} ELSE TRUE
           srv == IF q.kind = "start" THEN "syncing" ELSE IF Syncing(ui.srv) THEN "idle" ELSE ui.srv
       IN  \/ ok /\ ui' = Asked([u EXCEPT !.srv = srv], "reread")
           \/ ui' = ActionEnds(u)

Reread(q) ==
    /\ q.kind = "reread"
    /\ \/ q.got # NoStatus /\ ui' = ActionEnds(HandleStatusUpdate(Done(ui, q), q.got))
       \/ ui' = ActionEnds(Done(ui, q))

LastRead(q) ==
    /\ q.kind = "last"
    /\ \/ q.got # NoStatus
          /\ ui' = [UpdateStatusUI([Done(ui, q) EXCEPT !.current = q.got]) EXCEPT !.current = ui.current, !.clash = @ \/ ~ui.online \/ ui.current # NoStatus]
       \/ ui' = [ui EXCEPT !.net = @ \ {q}]

-----------------------------------------------------------------------------
StreamMessage == ui.stream /\ ui.srv # ui.current /\ ui' = HandleStatusUpdate(ui, ui.srv)

StreamFails == ui.stream /\ ui' = [ui EXCEPT !.stream = FALSE, !.polling = TRUE]

PollTick == ui.polling /\ Cardinality(ui.net) < MaxNet /\ (\A q \in ui.net : q.kind # "poll") /\ ui' = Asked(ui, "poll")

HandleOffline == User /\ ui.online /\ ui' = Acted(UpdateOfflineUI([ui EXCEPT !.online = FALSE]))
HandleOnline == ui.on /\ Cardinality(ui.net) < MaxNet /\ ~ui.online /\ ui' = Asked([ui EXCEPT !.online = TRUE], "online")

(* A page with the button is entered, and left.                            *)
InitTripSync ==
    /\ ~ui.on /\ ui.visit < MaxVisits
    /\ \E s \in BOOLEAN :
         ui' = Asked([ui EXCEPT !.on = TRUE, !.visit = @ + 1, !.stream = s, !.polling = ~s, !.off = FALSE, !.dark = FALSE, !.action = "start"], "first")

CleanupFn == ui.on /\ ui' = [ui EXCEPT !.on = FALSE, !.stream = FALSE, !.polling = FALSE, !.auto = FALSE]

(* The scheduler, the worker and other pages.                              *)
ServerMoves(s) ==
    /\ s # ui.srv /\ ui.moves < MaxMoves
    /\ ui' = [ui EXCEPT !.srv = s, !.moves = @ + 1]

Init ==
    \E s \in {"idle", "stale", "syncing"} :
        ui = [ current |-> NoStatus, inFlight |-> FALSE, auto |-> FALSE, timers |-> {}, action |-> "start", off |-> FALSE,
               stream |-> FALSE, polling |-> FALSE, online |-> TRUE, net |-> {}, visit |-> 0, on |-> FALSE, late |-> FALSE, clash |-> FALSE, dark |-> FALSE, srv |-> s, moves |-> 0, steps |-> 0 ]

Next ==
    \/ \E q \in ui.net : ReadStatus(q) \/ StatusArrives(q) \/ StatusFails(q) \/ ActionAnswered(q) \/ Reread(q) \/ LastRead(q)
    \/ \E t \in ui.timers : AutoSync(t)
    \/ \E s \in States : ServerMoves(s)
    \/ HandleSyncClick \/ StreamMessage \/ StreamFails \/ PollTick \/ HandleOffline \/ HandleOnline \/ InitTripSync \/ CleanupFn

Spec == Init /\ [][Next]_ui

-----------------------------------------------------------------------------
Usual == ui.on /\ ~ui.late

(* The button does what it says: once a state is known it offers to cancel *)
(* exactly while a sync is known to run, it can be used whenever what it   *)
(* offers can be done, and then only - unless a request ended off line or  *)
(* beside another (trip-sync.js:189), or nothing was heard since the       *)
(* browser was off line: a failed first reading leaves the button dead.    *)
ButtonAgrees ==
    Usual /\ ~ui.clash /\ ui.visit = 1 =>
      /\ ui.current # NoStatus /\ ~ui.dark =>
           /\ (ui.action = "cancel") = Syncing(ui.current)
           /\ ~ui.inFlight => ui.off = (ui.current \in {"paused", "held"})
      /\ ~ui.off => ui.online /\ ~ui.inFlight /\ ui.current # "held"

(* While a page is shown the state is listened to or polled, by exactly    *)
(* one of the two; nothing is once it is left; and a page that is to start *)
(* a sync by itself remembers it, so that it does so once.                 *)
StatusIsFollowed ==
    /\ ui.on = (ui.stream \/ ui.polling) /\ ~(ui.stream /\ ui.polling)
    /\ Usual /\ ui.visit \in ui.timers => ui.auto

=============================================================================
