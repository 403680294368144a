------------------------------ MODULE LiveTrip ------------------------------
(***************************************************************************)
(* Live trips: the webhook handlers and get_active_trip                    *)
(* (tracking/services/tracking_service.py) on the Redis keys of            *)
(* live_trip_store.py, and the page that shows the live trip through       *)
(* polling and a websocket (tracking/api/live.py,                          *)
(* static/js/modules/features/tracking/index.js).                          *)
(*                                                                         *)
(* One step is one awaited Redis call. Every webhook delivery is a request *)
(* of its own and the provider neither orders nor serialises them.         *)
(***************************************************************************)
EXTENDS Naturals

CONSTANTS
    Tx,       \* transaction ids
    NoTx,
    Stamps,   \* timestamps of points and metrics
    Hooks,    \* webhook requests that may be under way at the same time
    Page,     \* the page's channels: a subset of {"poll", "socket"}
    Env       \* disturbances: a subset of Disturbances

Disturbances ==
    { "stale",   \* the stored trip was last updated more than 30 minutes ago
      "redis",   \* a Redis call raises
      "ttl" }    \* a key reaches its expiry

ASSUME TxAssumption == NoTx \notin Tx
ASSUME StampsAssumption == Stamps \subseteq Nat \ {0}
ASSUME EnvAssumption == Env \subseteq Disturbances
ASSUME PageAssumption == Page \subseteq {"poll", "socket"} /\ Hooks \cap Page = {}

VARIABLES
    trip,     \* tracking:live:trip:<tx>
    active,   \* tracking:live:active_tx
    closed,   \* transactions with a tracking:live:closed:<tx> key
    pc,       \* where each request is
    ev,       \* event type of a webhook request
    tx,       \* the trip a request is about
    arg,      \* timestamp in the event
    snap,     \* the snapshot a request holds in memory
    ptr,      \* active_tx equalled tx when clear_trip_snapshot read it
    screen    \* activeTrip of the page

store == <<trip, active, closed>>
local == <<pc, ev, tx, arg, snap, ptr>>
liveVars  == <<store, local, screen>>

Procs == Hooks \cup Page
Events == ({"start", "end"} \X {0}) \cup ({"data", "metrics"} \X Stamps)
EventTypes == {"start", "data", "metrics", "end", "none"}
Steps == { "idle", "closed?", "load", "save", "publish", "complete", "clear", "wipe",
           "read", "load_active", "drop", "answer", "subscribe", "listening" }

(* Steps that are about a particular trip.                                 *)
OnTrip == { "closed?", "load", "save", "publish", "complete", "clear", "wipe",
            "load_active", "drop" }

Snapshots == [stored: BOOLEAN, points: SUBSET Stamps, metrics: {0} \cup Stamps]
Absent == [stored |-> FALSE, points |-> {}, metrics |-> 0]

StoreTypes ==
    /\ trip \in [Tx -> Snapshots]
    /\ active \in Tx \cup {NoTx}
    /\ closed \in SUBSET Tx
    /\ screen \in Tx \cup {NoTx}

LocalTypes ==
    /\ pc \in [Procs -> Steps]
    /\ ev \in [Procs -> EventTypes]
    /\ tx \in [Procs -> Tx \cup {NoTx}]
    /\ arg \in [Procs -> {0} \cup Stamps]
    /\ snap \in [Procs -> Snapshots]
    /\ ptr \in [Procs -> BOOLEAN]
    /\ \A p \in Procs : /\ pc[p] \in OnTrip => tx[p] \in Tx
                        /\ ev[p] \in {"data", "metrics"} => arg[p] \in Stamps

(* The keys, the page and what each request holds in memory; a request     *)
(* only acts on a trip it has been given.                                  *)
LiveTypeOK == StoreTypes /\ LocalTypes

LiveInit ==
    /\ trip   = [t \in Tx |-> Absent]
    /\ active = NoTx
    /\ closed = {}
    /\ pc     = [p \in Procs |-> "idle"]
    /\ ev     = [p \in Procs |-> "none"]
    /\ tx     = [p \in Procs |-> NoTx]
    /\ arg    = [p \in Procs |-> 0]
    /\ snap   = [p \in Procs |-> Absent]
    /\ ptr    = [p \in Procs |-> FALSE]
    /\ screen = NoTx

Goto(p, step) == pc' = [pc EXCEPT ![p] = step]

(* A webhook request ends; a query of the page ends with this answer.      *)
Return(p, answer) ==
    /\ Goto(p, IF p \in Page THEN "answer" ELSE "idle")
    /\ tx' = [tx EXCEPT ![p] = IF p \in Page THEN answer ELSE NoTx]
    /\ ev' = [ev EXCEPT ![p] = "none"]
    /\ arg' = [arg EXCEPT ![p] = 0]
    /\ snap' = [snap EXCEPT ![p] = Absent]
    /\ ptr' = [ptr EXCEPT ![p] = FALSE]

Continue(p, step) == Goto(p, step) /\ UNCHANGED <<ev, tx, arg, snap, ptr>>

-----------------------------------------------------------------------------
(* process_trip_start, process_trip_data, process_trip_metrics and         *)
(* process_trip_end.                                                       *)

Receive(h, e, t) ==
    /\ pc[h] = "idle"
    /\ Goto(h, "closed?")
    /\ ev' = [ev EXCEPT ![h] = e[1]]
    /\ tx' = [tx EXCEPT ![h] = t]
    /\ arg' = [arg EXCEPT ![h] = e[2]]
    /\ UNCHANGED <<store, snap, ptr, screen>>

(* Mutant: the closed marker is not consulted.                             *)
IgnoreClosed(h) ==
    /\ pc[h] = "closed?"
    /\ Continue(h, "load")
    /\ UNCHANGED <<store, screen>>

(* is_trip_marked_closed, the first await of every handler.                *)
CheckClosed(h) ==
    /\ pc[h] = "closed?"
    /\ IF tx[h] \in closed THEN Return(h, NoTx) ELSE Continue(h, "load")
    /\ UNCHANGED <<store, screen>>

(* Mutant: new points replace the stored ones.                             *)
ReplacePoints(e, s, a) ==
    [ stored  |-> TRUE,
      points  |-> IF e = "data" THEN {a} ELSE s.points,
      metrics |-> IF e = "metrics" THEN a ELSE s.metrics ]

(* What the event makes of a snapshot: tripStart and tripData create a     *)
(* missing one, tripData merges its points, tripMetrics replaces the       *)
(* provider's summary. Metrics are the subject of LiveMetrics.             *)
Updated(e, s, a) ==
    [ stored  |-> TRUE,
      points  |-> IF e = "data" THEN s.points \cup {a} ELSE s.points,
      metrics |-> IF e = "metrics" THEN a ELSE s.metrics ]

(* tripMetrics for no known trip, or not newer than the last, are dropped. *)
Ignored(e, s, a) == e = "metrics" /\ (~s.stored \/ a <= s.metrics)

(* From here on the event is in the snapshot or was a tripEnd.             *)
Consume(h, step, s) ==
    /\ Goto(h, step)
    /\ snap' = [snap EXCEPT ![h] = s]
    /\ ev' = [ev EXCEPT ![h] = "none"]
    /\ arg' = [arg EXCEPT ![h] = 0]
    /\ UNCHANGED <<tx, ptr>>

(* get_trip_snapshot and what follows it up to the next await. What the    *)
(* completion message of a tripEnd says of the trip is left out.           *)
Load(h) ==
    LET s == trip[tx[h]] IN
    /\ pc[h] = "load"
    /\ IF ev[h] = "end"
       THEN Consume(h, IF s.stored THEN "complete" ELSE "clear", Absent)
       ELSE IF Ignored(ev[h], s, arg[h])
            THEN Return(h, NoTx)
            ELSE Consume(h, "save", Updated(ev[h], s, arg[h]))
    /\ UNCHANGED <<store, screen>>

(* save_trip_snapshot: one MULTI, which also removes the closed marker.    *)
Save(h) ==
    /\ pc[h] = "save"
    /\ trip' = [trip EXCEPT ![tx[h]] = snap[h]]
    /\ active' = tx[h]
    /\ closed' = closed \ {tx[h]}
    /\ Goto(h, "publish")
    /\ snap' = [snap EXCEPT ![h] = Absent]
    /\ UNCHANGED <<ev, tx, arg, ptr, screen>>

(* The websocket passes messages on only once it is subscribed.            *)
Listening == "socket" \in Page /\ pc["socket"] = "listening"
Show(t) == screen' = IF Listening THEN t ELSE screen

(* _publish_trip_snapshot swallows its errors.                             *)
Publish(t) == Show(t) \/ ("redis" \in Env /\ UNCHANGED screen)

PublishActive(h) ==
    /\ pc[h] = "publish"
    /\ Publish(tx[h])
    /\ Return(h, NoTx)
    /\ UNCHANGED store

(* _publish_completed_and_clear: on "completed" the page shows no trip.    *)
PublishCompleted(p) ==
    /\ pc[p] = "complete"
    /\ Publish(NoTx)
    /\ Continue(p, "clear")
    /\ UNCHANGED store

(* clear_trip_snapshot reads the pointer ...                               *)
ReadPointer(p) ==
    /\ pc[p] = "clear"
    /\ Goto(p, "wipe")
    /\ ptr' = [ptr EXCEPT ![p] = (active = tx[p])]
    /\ UNCHANGED <<store, ev, tx, arg, snap, screen>>

(* ... and decides by what it read which keys its MULTI deletes.           *)
Wipe(p) ==
    /\ pc[p] = "wipe"
    /\ trip' = [trip EXCEPT ![tx[p]] = Absent]
    /\ active' = IF ptr[p] THEN NoTx ELSE active
    /\ closed' = closed \cup {tx[p]}
    /\ Return(p, NoTx)
    /\ UNCHANGED screen

(* The webhook endpoint logs the exception and answers; Bouncie may        *)
(* deliver the event again. get_active_trip answers that there is no trip. *)
RequestFails(p) ==
    /\ "redis" \in Env
    /\ pc[p] \in {"closed?", "load", "save", "clear", "wipe", "read", "load_active", "drop"}
    /\ Return(p, NoTx)
    /\ UNCHANGED <<store, screen>>

-----------------------------------------------------------------------------
(* get_active_trip, for the page's polling and for a new websocket.        *)

Query(p) ==
    /\ pc[p] = "idle"
    /\ Continue(p, "read")
    /\ UNCHANGED <<store, screen>>

(* Mutant: an absent pointer is followed.                                  *)
ReadActiveUnchecked(p) ==
    /\ pc[p] = "read"
    /\ Goto(p, "load_active")
    /\ tx' = [tx EXCEPT ![p] = active]
    /\ UNCHANGED <<store, ev, arg, snap, ptr, screen>>

(* The pointer is read, then the trip it names.                            *)
ReadActive(p) ==
    /\ pc[p] = "read"
    /\ IF active = NoTx
       THEN Return(p, NoTx)
       ELSE /\ Goto(p, "load_active")
            /\ tx' = [tx EXCEPT ![p] = active]
            /\ UNCHANGED <<ev, arg, snap, ptr>>
    /\ UNCHANGED <<store, screen>>

(* Mutant: a pointer to a missing trip is left alone.                      *)
LoadAndKeepPointer(p) ==
    /\ pc[p] = "load_active"
    /\ Return(p, IF trip[tx[p]].stored THEN tx[p] ELSE NoTx)
    /\ UNCHANGED <<store, screen>>

(* A trip is returned, auto-completed when it is stale, or found missing.  *)
LoadActive(p) ==
    /\ pc[p] = "load_active"
    /\ \/ trip[tx[p]].stored /\ Return(p, tx[p])
       \/ /\ trip[tx[p]].stored
          /\ "stale" \in Env
          /\ Continue(p, "complete")
       \/ ~trip[tx[p]].stored /\ Continue(p, "drop")
    /\ UNCHANGED <<store, screen>>

(* get_active_trip_snapshot deletes the pointer whatever it is by now.     *)
DropPointer(p) ==
    /\ pc[p] = "drop"
    /\ active' = NoTx
    /\ Return(p, NoTx)
    /\ UNCHANGED <<trip, closed, screen>>

-----------------------------------------------------------------------------
(* The page.                                                               *)

(* Mutant: an empty answer leaves the screen as it is.                     *)
PollShowsOnly ==
    /\ "poll" \in Page
    /\ pc["poll"] = "answer"
    /\ screen' = IF tx["poll"] = NoTx THEN screen ELSE tx["poll"]
    /\ Goto("poll", "idle")
    /\ tx' = [tx EXCEPT !["poll"] = NoTx]
    /\ UNCHANGED <<store, ev, arg, snap, ptr>>

(* poll(): a trip is shown, no trip clears the screen.                     *)
PollAnswered ==
    /\ "poll" \in Page
    /\ pc["poll"] = "answer"
    /\ screen' = tx["poll"]
    /\ Goto("poll", "idle")
    /\ tx' = [tx EXCEPT !["poll"] = NoTx]
    /\ UNCHANGED <<store, ev, arg, snap, ptr>>

(* The websocket sends the initial trip, if any, before it subscribes.     *)
SocketAnswered ==
    /\ "socket" \in Page
    /\ pc["socket"] = "answer"
    /\ screen' = IF tx["socket"] = NoTx THEN screen ELSE tx["socket"]
    /\ Goto("socket", "subscribe")
    /\ tx' = [tx EXCEPT !["socket"] = NoTx]
    /\ UNCHANGED <<store, ev, arg, snap, ptr>>

Subscribe ==
    /\ "socket" \in Page
    /\ pc["socket"] = "subscribe"
    /\ Continue("socket", "listening")
    /\ UNCHANGED <<store, screen>>

(* The connection drops; the page reconnects.                              *)
Disconnect ==
    /\ "socket" \in Page
    /\ pc["socket"] = "listening"
    /\ Continue("socket", "idle")
    /\ UNCHANGED <<store, screen>>

-----------------------------------------------------------------------------
TripExpires(t) ==
    /\ "ttl" \in Env
    /\ trip[t].stored
    /\ trip' = [trip EXCEPT ![t] = Absent]
    /\ UNCHANGED <<active, closed, local, screen>>

ClosedExpires(t) ==
    /\ "ttl" \in Env
    /\ t \in closed
    /\ closed' = closed \ {t}
    /\ UNCHANGED <<trip, active, local, screen>>

PointerExpires ==
    /\ "ttl" \in Env
    /\ active # NoTx
    /\ active' = NoTx
    /\ UNCHANGED <<trip, closed, local, screen>>

Handle(h) == CheckClosed(h) \/ Load(h) \/ Save(h) \/ PublishActive(h)
Finalize(p) == PublishCompleted(p) \/ ReadPointer(p) \/ Wipe(p)
Answer(p) == ReadActive(p) \/ LoadActive(p) \/ DropPointer(p)

LiveNext ==
    \/ \E h \in Hooks : \/ \E e \in Events, t \in Tx : Receive(h, e, t)
                        \/ Handle(h)
    \/ \E p \in Procs : Finalize(p) \/ RequestFails(p)
    \/ \E p \in Page : Query(p) \/ Answer(p)
    \/ PollAnswered \/ SocketAnswered \/ Subscribe \/ Disconnect
    \/ \E t \in Tx : TripExpires(t) \/ ClosedExpires(t)
    \/ PointerExpires

LiveSpec == LiveInit /\ [][LiveNext]_liveVars

(* Requests are served to their end, and poll() schedules itself again in  *)
(* its finally whatever the outcome.                                       *)
Fairness ==
    /\ \A h \in Hooks : WF_liveVars(Handle(h) \/ Finalize(h))
    /\ WF_liveVars(PollAnswered \/ \E p \in Page \cap {"poll"} : Query(p) \/ Answer(p) \/ Finalize(p))

FairSpec == LiveSpec /\ Fairness
-----------------------------------------------------------------------------

(* The trip is finished and no event handler got past the closed check     *)
(* before it was.                                                          *)
SettledClosed(t) ==
    /\ t \in closed
    /\ ~trip[t].stored
    /\ \A h \in Hooks : tx[h] = t => pc[h] \notin {"load", "save", "publish"}

(* "late webhook suppression" (_publish_completed_and_clear), in the form  *)
(* that holds: until the marker expires no later event, duplicate or query *)
(* brings a settled trip back, neither into Redis nor as a message.        *)
LateEventsSuppressed ==
    [][ \A t \in Tx : SettledClosed(t) => SettledClosed(t)' ]_liveVars

(* With webhooks handled one at a time a stored trip only grows: no query, *)
(* auto-completion or repeated event takes back recorded points, and older *)
(* tripMetrics never replace newer ones (process_trip_data,                *)
(* process_trip_metrics).                                                  *)
LiveTripGrows ==
    [][ \A t \in Tx : trip[t].stored /\ trip'[t].stored =>
           trip[t].points \subseteq trip'[t].points /\ trip[t].metrics <= trip'[t].metrics ]_liveVars

(* The page recovers from every message it missed or saw too late: it does *)
(* not go on showing a trip that is gone (poll()).                         *)
ScreenSettles ==
    \A t \in Tx : (screen = t /\ ~trip[t].stored) ~> (screen # t \/ trip[t].stored)

(* A pointer left to a trip that is gone is removed                        *)
(* (get_active_trip_snapshot).                                             *)
PointerHeals ==
    \A t \in Tx : (active = t /\ ~trip[t].stored) ~> (active # t \/ trip[t].stored)

(* "a trip was recently finalized and should ignore late events"           *)
(* (is_trip_marked_closed): a closed trip is not stored again.             *)
(* Does not hold: a handler may be past the closed check.                  *)
ClosedIgnoresLateEvents ==
    [][ \A t \in Tx : t \in closed => ~trip'[t].stored ]_liveVars

(* "clear active pointer when it matches" (clear_trip_snapshot): a trip    *)
(* that stays live does not lose the pointer.                              *)
(* Does not hold: the pointer is compared before the MULTI.                *)
PointerClearedWhenItMatches ==
    [][ \A t \in Tx : active = t /\ trip[t].stored /\ trip'[t].stored => active' # NoTx ]_liveVars

(* "clients see the completion event before Redis-backed live state is     *)
(* cleared and marked closed" (_publish_completed_and_clear): a listening  *)
(* page no longer shows a trip when it is marked closed.                   *)
(* Does not hold: it may subscribe, or get an active message, too late.    *)
CompletionSeenFirst ==
    [][ \A t \in Tx : t \notin closed /\ t \in closed' /\ Listening => screen # t ]_liveVars
=============================================================================
