----------------------------- MODULE LiveProofs -----------------------------
(***************************************************************************)
(* Proofs about LiveTrip and LiveMetrics: a finished trip stays finished,  *)
(* a live trip grows while handlers run one at a time, and its metrics and *)
(* route are those of the points received, for batches and routes of any   *)
(* length.                                                                 *)
(***************************************************************************)
EXTENDS LiveTrip, LiveMetrics, FiniteSums, TLAPS

LEMMA AbsentType == Absent \in Snapshots
BY DEF Absent, Snapshots

(* A request that ends leaves well-typed locals behind.                    *)
LEMMA ReturnTypes ==
    ASSUME LocalTypes, NEW p \in Procs, NEW answer \in Tx \cup {NoTx}, Return(p, answer)
    PROVE  LocalTypes'
<1>1. {"idle", "answer"} \cap OnTrip = {} /\ {"idle", "answer"} \subseteq Steps
  BY DEF OnTrip, Steps
<1>2. "none" \in EventTypes /\ "none" \notin {"data", "metrics"}
  BY DEF EventTypes
<1>3. QED
  BY <1>1, <1>2, AbsentType DEF LocalTypes, Return, Goto

(* So does one that goes on about the same trip, or about none.            *)
LEMMA ContinueTypes ==
    ASSUME LocalTypes, NEW p \in Procs, NEW step \in Steps, Continue(p, step),
           step \in OnTrip => pc[p] \in OnTrip
    PROVE  LocalTypes'
BY DEF LocalTypes, Continue, Goto

(* And one whose event has gone into a snapshot.                           *)
LEMMA ConsumeTypes ==
    ASSUME LocalTypes, NEW h \in Procs, NEW step \in Steps, NEW s \in Snapshots, Consume(h, step, s),
           pc[h] \in OnTrip
    PROVE  LocalTypes'
BY DEF LocalTypes, Consume, Goto, EventTypes

LEMMA UpdatedTypes ==
    ASSUME NEW e, NEW s \in Snapshots, NEW a, e \in {"data", "metrics"} => a \in Stamps
    PROVE  Updated(e, s, a) \in Snapshots
BY DEF Updated, Snapshots

-----------------------------------------------------------------------------
LEMMA TypeInit == LiveInit => LiveTypeOK
BY AbsentType DEF LiveInit, LiveTypeOK, StoreTypes, LocalTypes, Absent, Snapshots, Steps, EventTypes, OnTrip

LEMMA HandlerTypes ==
    ASSUME LiveTypeOK, NEW h \in Hooks,
           Handle(h) \/ \E e \in Events, t \in Tx : Receive(h, e, t)
    PROVE  LiveTypeOK'
<1> USE DEF LiveTypeOK
<1>h. h \in Procs
  BY DEF Procs
<1>n. NoTx \in Tx \cup {NoTx}
  OBVIOUS
<1>1. CASE \E e \in Events, t \in Tx : Receive(h, e, t)
  <2>1. PICK e \in Events, t \in Tx : Receive(h, e, t)
    BY <1>1
  <2>2. /\ e[1] \in EventTypes /\ e[2] \in {0} \cup Stamps
        /\ e[1] \in {"data", "metrics"} => e[2] \in Stamps
    BY DEF Events, EventTypes
  <2>3. LocalTypes'
    BY <2>1, <2>2, <1>h DEF Receive, Goto, LocalTypes, Steps
  <2>4. StoreTypes'
    BY <2>1 DEF Receive, StoreTypes, store
  <2> QED BY <2>3, <2>4
<1>2. CASE CheckClosed(h)
  <2>1. "load" \in Steps /\ "closed?" \in OnTrip
    BY DEF Steps, OnTrip
  <2>2. LocalTypes'
    BY <1>2, <1>h, <1>n, <2>1, ReturnTypes, ContinueTypes DEF CheckClosed
  <2>3. StoreTypes'
    BY <1>2 DEF CheckClosed, StoreTypes, store
  <2> QED BY <2>2, <2>3
<1>3. CASE Load(h)
  <2>1. {"complete", "clear", "save"} \subseteq Steps /\ "load" \in OnTrip
    BY DEF Steps, OnTrip
  <2>2. trip[tx[h]] \in Snapshots
    BY <1>3, <1>h, <2>1 DEF Load, LocalTypes, StoreTypes
  <2>3. Updated(ev[h], trip[tx[h]], arg[h]) \in Snapshots
    BY <2>2, <1>h, UpdatedTypes DEF LocalTypes
  <2>4. LocalTypes'
    BY <1>3, <1>h, <1>n, <2>1, <2>3, AbsentType, ReturnTypes, ConsumeTypes DEF Load
  <2>5. StoreTypes'
    BY <1>3 DEF Load, StoreTypes, store
  <2> QED BY <2>4, <2>5
<1>4. CASE Save(h)
  <2>1. tx[h] \in Tx /\ snap[h] \in Snapshots
    BY <1>4, <1>h DEF Save, LocalTypes, OnTrip
  <2>2. LocalTypes'
    BY <1>4, <1>h, <2>1, AbsentType DEF Save, Goto, LocalTypes, Steps, OnTrip
  <2>3. StoreTypes'
    BY <1>4, <2>1 DEF Save, StoreTypes
  <2> QED BY <2>2, <2>3
<1>5. CASE PublishActive(h)
  <2>1. LocalTypes'
    BY <1>5, <1>h, <1>n, ReturnTypes DEF PublishActive
  <2>2. tx[h] \in Tx \cup {NoTx}
    BY <1>h DEF LocalTypes
  <2>3. StoreTypes'
    BY <1>5, <2>2 DEF PublishActive, Publish, Show, StoreTypes, store
  <2> QED BY <2>1, <2>3
<1>6. QED
  BY <1>1, <1>2, <1>3, <1>4, <1>5 DEF Handle

LEMMA FinalizeTypes ==
    ASSUME LiveTypeOK, NEW p \in Procs, Finalize(p) \/ RequestFails(p)
    PROVE  LiveTypeOK'
<1> USE DEF LiveTypeOK
<1>n. NoTx \in Tx \cup {NoTx}
  OBVIOUS
<1>1. CASE PublishCompleted(p)
  <2>1. "clear" \in Steps /\ "complete" \in OnTrip
    BY DEF Steps, OnTrip
  <2>2. LocalTypes'
    BY <1>1, <2>1, ContinueTypes DEF PublishCompleted
  <2>3. StoreTypes'
    BY <1>1 DEF PublishCompleted, Publish, Show, StoreTypes, store
  <2> QED BY <2>2, <2>3
<1>2. CASE ReadPointer(p)
  <2>1. LocalTypes'
    BY <1>2 DEF ReadPointer, Goto, LocalTypes, Steps, OnTrip
  <2>2. StoreTypes'
    BY <1>2 DEF ReadPointer, StoreTypes, store
  <2> QED BY <2>1, <2>2
<1>3. CASE Wipe(p)
  <2>1. tx[p] \in Tx
    BY <1>3 DEF Wipe, LocalTypes, OnTrip
  <2>2. LocalTypes'
    BY <1>3, <1>n, ReturnTypes DEF Wipe
  <2>3. StoreTypes'
    BY <1>3, <2>1, AbsentType DEF Wipe, StoreTypes
  <2> QED BY <2>2, <2>3
<1>4. CASE RequestFails(p)
  <2>1. LocalTypes'
    BY <1>4, <1>n, ReturnTypes DEF RequestFails
  <2>2. StoreTypes'
    BY <1>4 DEF RequestFails, StoreTypes, store
  <2> QED BY <2>1, <2>2
<1>5. QED
  BY <1>1, <1>2, <1>3, <1>4 DEF Finalize

LEMMA QueryTypes ==
    ASSUME LiveTypeOK, NEW p \in Page, Query(p) \/ Answer(p)
    PROVE  LiveTypeOK'
<1> USE DEF LiveTypeOK
<1>p. p \in Procs
  BY DEF Procs
<1>n. NoTx \in Tx \cup {NoTx}
  OBVIOUS
<1>t. tx[p] \in Tx \cup {NoTx}
  BY <1>p DEF LocalTypes
<1>1. CASE Query(p)
  <2>1. "read" \in Steps /\ "read" \notin OnTrip
    BY DEF Steps, OnTrip
  <2>2. LocalTypes'
    BY <1>1, <1>p, <2>1, ContinueTypes DEF Query
  <2>3. StoreTypes'
    BY <1>1 DEF Query, StoreTypes, store
  <2> QED BY <2>2, <2>3
<1>2. CASE ReadActive(p)
  <2>1. CASE active = NoTx
    BY <1>2, <2>1, <1>p, <1>n, ReturnTypes DEF ReadActive, StoreTypes, store
  <2>2. CASE active # NoTx
    <3>1. active \in Tx
      BY <2>2 DEF StoreTypes
    <3>2. LocalTypes'
      BY <1>2, <2>2, <3>1, <1>p DEF ReadActive, Goto, LocalTypes, Steps
    <3>3. StoreTypes'
      BY <1>2 DEF ReadActive, StoreTypes, store
    <3> QED BY <3>2, <3>3
  <2> QED BY <2>1, <2>2
<1>3. CASE LoadActive(p)
  <2>1. {"complete", "drop"} \subseteq Steps /\ "load_active" \in OnTrip
    BY DEF Steps, OnTrip
  <2>2. LocalTypes'
    BY <1>3, <1>p, <1>t, <2>1, ReturnTypes, ContinueTypes DEF LoadActive
  <2>3. StoreTypes'
    BY <1>3 DEF LoadActive, StoreTypes, store
  <2> QED BY <2>2, <2>3
<1>4. CASE DropPointer(p)
  <2>1. LocalTypes'
    BY <1>4, <1>p, <1>n, ReturnTypes DEF DropPointer
  <2>2. StoreTypes'
    BY <1>4 DEF DropPointer, StoreTypes
  <2> QED BY <2>1, <2>2
<1>5. QED
  BY <1>1, <1>2, <1>3, <1>4 DEF Answer

LEMMA PageTypes ==
    ASSUME LiveTypeOK, PollAnswered \/ SocketAnswered \/ Subscribe \/ Disconnect
    PROVE  LiveTypeOK'
<1> USE DEF LiveTypeOK
<1>1. CASE PollAnswered
  <2>1. "poll" \in Procs
    BY <1>1 DEF PollAnswered, Procs
  <2>2. LocalTypes'
    BY <1>1, <2>1 DEF PollAnswered, Goto, LocalTypes, Steps, OnTrip
  <2>3. StoreTypes'
    BY <1>1, <2>1 DEF PollAnswered, StoreTypes, store, LocalTypes
  <2> QED BY <2>2, <2>3
<1>2. CASE SocketAnswered
  <2>1. "socket" \in Procs
    BY <1>2 DEF SocketAnswered, Procs
  <2>2. LocalTypes'
    BY <1>2, <2>1 DEF SocketAnswered, Goto, LocalTypes, Steps, OnTrip
  <2>3. StoreTypes'
    BY <1>2, <2>1 DEF SocketAnswered, StoreTypes, store, LocalTypes
  <2> QED BY <2>2, <2>3
<1>3. CASE Subscribe \/ Disconnect
  <2>1. "socket" \in Procs
    BY <1>3 DEF Subscribe, Disconnect, Procs
  <2>2. /\ {"listening", "idle"} \subseteq Steps
        /\ "listening" \notin OnTrip /\ "idle" \notin OnTrip
    BY DEF Steps, OnTrip
  <2>3. LocalTypes'
    BY <1>3, <2>1, <2>2, ContinueTypes DEF Subscribe, Disconnect
  <2>4. StoreTypes'
    BY <1>3 DEF Subscribe, Disconnect, StoreTypes, store
  <2> QED BY <2>3, <2>4
<1>4. QED
  BY <1>1, <1>2, <1>3

LEMMA ExpiryTypes ==
    ASSUME LiveTypeOK, (\E t \in Tx : TripExpires(t) \/ ClosedExpires(t)) \/ PointerExpires
    PROVE  LiveTypeOK'
<1> USE DEF LiveTypeOK
<1>1. LocalTypes'
  BY DEF TripExpires, ClosedExpires, PointerExpires, LocalTypes, local
<1>2. StoreTypes'
  BY AbsentType DEF TripExpires, ClosedExpires, PointerExpires, StoreTypes
<1>3. QED
  BY <1>1, <1>2

(* Type correctness of the live-trip store, its requests and the page      *)
(* (LiveTypeOK), under every disturbance: in particular a request only acts on *)
(* a trip it has been given.                                               *)
THEOREM LiveTypes == LiveSpec => []LiveTypeOK
<1>1. LiveInit => LiveTypeOK
  BY TypeInit
<1>2. LiveTypeOK /\ [LiveNext]_liveVars => LiveTypeOK'
  <2>1. ASSUME LiveTypeOK, LiveNext PROVE LiveTypeOK'
    BY <2>1, HandlerTypes, FinalizeTypes, QueryTypes, PageTypes, ExpiryTypes DEF LiveNext
  <2>2. ASSUME LiveTypeOK, UNCHANGED liveVars PROVE LiveTypeOK'
    BY <2>2 DEF LiveTypeOK, StoreTypes, LocalTypes, liveVars, store, local
  <2> QED BY <2>1, <2>2
<1>3. QED
  BY <1>1, <1>2, PTL DEF LiveSpec

-----------------------------------------------------------------------------
(* A request that ends is in none of the steps that store or announce.     *)
LEMMA SettledByReturn ==
    ASSUME LiveTypeOK, NEW t \in Tx, SettledClosed(t), NEW p \in Procs, NEW answer, Return(p, answer),
           t \in closed', ~trip'[t].stored
    PROVE  SettledClosed(t)'
<1>1. \A h \in Hooks : h # p => tx'[h] = tx[h] /\ pc'[h] = pc[h]
  BY DEF Return, Goto, LiveTypeOK, LocalTypes, Procs
<1>2. pc'[p] \in {"idle", "answer"}
  BY DEF Return, Goto, LiveTypeOK, LocalTypes
<1>3. QED
  BY <1>1, <1>2 DEF SettledClosed

(* Steps that leave the trip's keys alone and move no handler into one of  *)
(* those steps.                                                            *)
LEMMA SettledKept ==
    ASSUME LiveTypeOK, NEW t \in Tx, SettledClosed(t), t \in closed', ~trip'[t].stored,
           \A h \in Hooks : tx'[h] = t /\ pc'[h] \in {"load", "save", "publish"}
                              => tx[h] = t /\ pc[h] = pc'[h]
    PROVE  SettledClosed(t)'
BY DEF SettledClosed

LEMMA SettledByHandler ==
    ASSUME LiveTypeOK, NEW t \in Tx, SettledClosed(t), NEW h \in Hooks,
           Handle(h) \/ \E e \in Events, u \in Tx : Receive(h, e, u)
    PROVE  SettledClosed(t)'
<1>h. h \in Procs
  BY DEF Procs
<1>k. t \in closed /\ ~trip[t].stored
  BY DEF SettledClosed
<1>o. ASSUME pc[h] \in {"load", "save", "publish"} PROVE tx[h] # t
  BY <1>o DEF SettledClosed
<1>1. CASE \E e \in Events, u \in Tx : Receive(h, e, u)
  BY <1>1, <1>h, <1>k, SettledKept DEF Receive, Goto, store, LiveTypeOK, LocalTypes, Procs
<1>2. CASE CheckClosed(h)
  <2>1. CASE tx[h] \in closed
    BY <1>2, <2>1, <1>h, <1>k, SettledByReturn DEF CheckClosed, store
  <2>2. CASE tx[h] \notin closed
    BY <1>2, <2>2, <1>h, <1>k, SettledKept
    DEF CheckClosed, Continue, Goto, store, LiveTypeOK, LocalTypes, Procs
  <2> QED BY <2>1, <2>2
<1>3. CASE Load(h)
  <2>1. tx[h] # t
    BY <1>3, <1>o DEF Load
  <2>2. \A g \in Hooks : g # h => tx'[g] = tx[g] /\ pc'[g] = pc[g]
    BY <1>3, <1>h DEF Load, Consume, Return, Goto, LiveTypeOK, LocalTypes, Procs
  <2>3. tx'[h] # t
    <3>1. NoTx # t
      BY TxAssumption
    <3>2. h \notin Page
      BY PageAssumption
    <3> QED BY <1>3, <1>h, <2>1, <3>1, <3>2 DEF Load, Consume, Return, LiveTypeOK, LocalTypes
  <2> QED BY <1>3, <1>k, <2>2, <2>3, SettledKept DEF Load, store
<1>4. CASE Save(h)
  <2>1. tx[h] # t
    BY <1>4, <1>o DEF Save
  <2>2. trip'[t] = trip[t] /\ t \in closed'
    BY <1>4, <1>k, <2>1 DEF Save, LiveTypeOK, StoreTypes
  <2>3. tx' = tx /\ \A g \in Hooks : g # h => pc'[g] = pc[g]
    BY <1>4, <1>h DEF Save, Goto, LiveTypeOK, LocalTypes, Procs
  <2> QED BY <1>k, <2>1, <2>2, <2>3, SettledKept
<1>5. CASE PublishActive(h)
  BY <1>5, <1>h, <1>k, SettledByReturn DEF PublishActive, store
<1>6. QED
  BY <1>1, <1>2, <1>3, <1>4, <1>5 DEF Handle

LEMMA SettledByFinalize ==
    ASSUME LiveTypeOK, NEW t \in Tx, SettledClosed(t), NEW p \in Procs, Finalize(p) \/ RequestFails(p)
    PROVE  SettledClosed(t)'
<1>k. t \in closed /\ ~trip[t].stored
  BY DEF SettledClosed
<1>1. CASE PublishCompleted(p)
  BY <1>1, <1>k, SettledKept
  DEF PublishCompleted, Continue, Goto, store, LiveTypeOK, LocalTypes, Procs
<1>2. CASE ReadPointer(p)
  BY <1>2, <1>k, SettledKept DEF ReadPointer, Goto, store, LiveTypeOK, LocalTypes, Procs
<1>3. CASE Wipe(p)
  <2>1. t \in closed' /\ ~trip'[t].stored
    BY <1>3, <1>k DEF Wipe, LiveTypeOK, StoreTypes, Absent
  <2> QED BY <1>3, <2>1, SettledByReturn DEF Wipe
<1>4. CASE RequestFails(p)
  BY <1>4, <1>k, SettledByReturn DEF RequestFails, store
<1>5. QED
  BY <1>1, <1>2, <1>3, <1>4 DEF Finalize

LEMMA SettledByPage ==
    ASSUME LiveTypeOK, NEW t \in Tx, SettledClosed(t),
           \/ \E p \in Page : Query(p) \/ Answer(p)
           \/ PollAnswered \/ SocketAnswered \/ Subscribe \/ Disconnect
    PROVE  SettledClosed(t)'
<1>k. t \in closed /\ ~trip[t].stored
  BY DEF SettledClosed
<1>1. \A p \in Page, h \in Hooks : p # h /\ p \in Procs /\ h \in Procs
  BY PageAssumption DEF Procs
<1>2. closed' = closed /\ trip' = trip
  BY DEF Query, Answer, ReadActive, LoadActive, DropPointer, PollAnswered, SocketAnswered,
         Subscribe, Disconnect, store
<1>3. \A h \in Hooks : tx'[h] = tx[h] /\ pc'[h] = pc[h]
  <2>1. CASE \E p \in Page : Query(p) \/ Answer(p)
    BY <2>1, <1>1 DEF Query, Answer, ReadActive, LoadActive, DropPointer, Return, Continue, Goto,
                      LiveTypeOK, LocalTypes
  <2>2. CASE PollAnswered \/ SocketAnswered \/ Subscribe \/ Disconnect
    BY <2>2, <1>1 DEF PollAnswered, SocketAnswered, Subscribe, Disconnect, Continue, Goto,
                      LiveTypeOK, LocalTypes
  <2> QED BY <2>1, <2>2
<1>4. QED
  BY <1>k, <1>2, <1>3, SettledKept

(* "late webhook suppression" for any number of trips, requests and points *)
(* (LateEventsSuppressed): while closed markers do not expire, neither     *)
(* duplicates nor Redis failures, stale auto-completions or the page bring *)
(* a settled trip back.                                                    *)
THEOREM ClosedStaysClosed ==
    ASSUME "ttl" \notin Env
    PROVE  LiveSpec => LateEventsSuppressed
<1>1. LiveTypeOK /\ [LiveNext]_liveVars => [\A t \in Tx : SettledClosed(t) => SettledClosed(t)']_liveVars
  <2> SUFFICES ASSUME LiveTypeOK, LiveNext, NEW t \in Tx, SettledClosed(t) PROVE SettledClosed(t)'
    OBVIOUS
  <2>1. CASE \E h \in Hooks : Handle(h) \/ \E e \in Events, u \in Tx : Receive(h, e, u)
    BY <2>1, SettledByHandler
  <2>2. CASE \E p \in Procs : Finalize(p) \/ RequestFails(p)
    BY <2>2, SettledByFinalize
  <2>3. CASE \/ \E p \in Page : Query(p) \/ Answer(p)
             \/ PollAnswered \/ SocketAnswered \/ Subscribe \/ Disconnect
    BY <2>3, SettledByPage
  <2>4. CASE (\E u \in Tx : TripExpires(u) \/ ClosedExpires(u)) \/ PointerExpires
    BY <2>4 DEF TripExpires, ClosedExpires, PointerExpires
  <2> QED BY <2>1, <2>2, <2>3, <2>4 DEF LiveNext
<1>2. QED
  BY <1>1, LiveTypes, PTL DEF LiveSpec, LateEventsSuppressed

-----------------------------------------------------------------------------
(* What a handler is about to store contains what is stored: only a save   *)
(* stores anything, so while one request is handled the trip it has loaded *)
(* can only disappear.                                                     *)
SnapshotAhead ==
    \A h \in Hooks : pc[h] = "save" =>
        LET s == trip[tx[h]] IN
        s.stored => s.points \subseteq snap[h].points /\ s.metrics <= snap[h].metrics

Serial == \A g, h \in Hooks : g = h

LEMMA Counted == {0} \cup Stamps \subseteq Nat /\ \A s \in Snapshots : s.metrics \in Nat
<1>1. {0} \cup Stamps \subseteq Nat
  BY StampsAssumption
<1>2. \A s \in Snapshots : s.metrics \in {0} \cup Stamps
  BY DEF Snapshots
<1>3. QED
  BY <1>1, <1>2

(* tripData merges and tripMetrics are only accepted when they are newer.  *)
LEMMA UpdatedGrows ==
    ASSUME NEW s \in Snapshots, NEW e, NEW a \in {0} \cup Stamps, ~Ignored(e, s, a)
    PROVE  s.points \subseteq Updated(e, s, a).points /\ s.metrics <= Updated(e, s, a).metrics
<1>1. s.metrics \in Nat /\ a \in Nat
  BY Counted
<1>2. e = "metrics" => a > s.metrics
  BY <1>1 DEF Ignored
<1>3. QED
  BY <1>1, <1>2 DEF Updated

(* Steps that put no request before its save and store nothing.            *)
LEMMA AheadKept ==
    ASSUME SnapshotAhead,
           \A t \in Tx : trip'[t] = trip[t] \/ ~trip'[t].stored,
           \A h \in Hooks : pc'[h] = "save" =>
               pc[h] = "save" /\ tx'[h] = tx[h] /\ snap'[h] = snap[h] /\ tx[h] \in Tx
    PROVE  SnapshotAhead' /\ \A t \in Tx : trip[t].stored /\ trip'[t].stored => trip'[t] = trip[t]
BY DEF SnapshotAhead

LEMMA AheadByHandler ==
    ASSUME LiveTypeOK, SnapshotAhead, Serial, NEW h \in Hooks,
           Handle(h) \/ \E e \in Events, t \in Tx : Receive(h, e, t)
    PROVE  /\ SnapshotAhead'
           /\ \A t \in Tx : trip[t].stored /\ trip'[t].stored =>
                  trip[t].points \subseteq trip'[t].points /\ trip[t].metrics <= trip'[t].metrics
<1>h. h \in Procs /\ h \notin Page /\ \A g \in Hooks : g = h
  BY PageAssumption DEF Procs, Serial
<1>t. \A t \in Tx : trip[t] \in Snapshots /\ trip[t].metrics \in Nat
  BY Counted DEF LiveTypeOK, StoreTypes
<1>1. CASE Load(h)
  <2>1. tx[h] \in Tx /\ trip[tx[h]] \in Snapshots /\ arg[h] \in {0} \cup Stamps
    BY <1>1, <1>h DEF Load, LiveTypeOK, StoreTypes, LocalTypes, OnTrip
  <2>2. trip' = trip
    BY <1>1 DEF Load, store
  <2>3. ASSUME pc'[h] = "save"
        PROVE  /\ ~Ignored(ev[h], trip[tx[h]], arg[h]) /\ tx'[h] = tx[h]
               /\ snap'[h] = Updated(ev[h], trip[tx[h]], arg[h])
    BY <1>1, <1>h, <2>3 DEF Load, Consume, Return, Goto, LiveTypeOK, LocalTypes
  <2>4. SnapshotAhead'
    BY <1>h, <2>1, <2>2, <2>3, UpdatedGrows DEF SnapshotAhead
  <2> QED BY <2>2, <2>4, <1>t
<1>2. CASE Save(h)
  <2>1. tx[h] \in Tx /\ trip' = [trip EXCEPT ![tx[h]] = snap[h]] /\ pc[h] = "save"
    BY <1>2, <1>h DEF Save, LiveTypeOK, LocalTypes, OnTrip
  <2>2. pc'[h] = "publish"
    BY <1>2, <1>h DEF Save, Goto, LiveTypeOK, LocalTypes
  <2>3. SnapshotAhead'
    BY <1>h, <2>2 DEF SnapshotAhead
  <2>4. \A t \in Tx : trip'[t] = IF t = tx[h] THEN snap[h] ELSE trip[t]
    BY <2>1 DEF LiveTypeOK, StoreTypes
  <2>5. trip[tx[h]].stored =>
            trip[tx[h]].points \subseteq snap[h].points /\ trip[tx[h]].metrics <= snap[h].metrics
    BY <2>1 DEF SnapshotAhead
  <2> QED BY <1>t, <2>3, <2>4, <2>5
<1>3. CASE (\E e \in Events, t \in Tx : Receive(h, e, t)) \/ CheckClosed(h) \/ PublishActive(h)
  <2>1. trip' = trip
    BY <1>3 DEF Receive, CheckClosed, PublishActive, store
  <2>2. pc'[h] # "save"
    BY <1>3, <1>h DEF Receive, CheckClosed, PublishActive, Continue, Return, Goto, LiveTypeOK, LocalTypes
  <2>3. SnapshotAhead'
    BY <1>h, <2>2 DEF SnapshotAhead
  <2> QED BY <2>1, <2>3, <1>t
<1>4. QED
  BY <1>1, <1>2, <1>3 DEF Handle

LEMMA AheadByOthers ==
    ASSUME LiveTypeOK, SnapshotAhead,
           \/ \E p \in Procs : Finalize(p) \/ RequestFails(p)
           \/ \E p \in Page : Query(p) \/ Answer(p)
           \/ PollAnswered \/ SocketAnswered \/ Subscribe \/ Disconnect
           \/ \E t \in Tx : TripExpires(t) \/ ClosedExpires(t)
           \/ PointerExpires
    PROVE  SnapshotAhead' /\ \A t \in Tx : trip[t].stored /\ trip'[t].stored => trip'[t] = trip[t]
<1>a. Absent.stored = FALSE
  BY DEF Absent
<1>b. \A h \in Hooks : h \in Procs /\ (pc[h] = "save" => tx[h] \in Tx)
  BY DEF LiveTypeOK, LocalTypes, OnTrip, Procs
<1>p. Page \subseteq Procs
  BY DEF Procs
<1>1. \A t \in Tx : trip'[t] = trip[t] \/ ~trip'[t].stored
  BY <1>a DEF Finalize, PublishCompleted, ReadPointer, Wipe, RequestFails, Query, Answer, ReadActive,
              LoadActive, DropPointer, PollAnswered, SocketAnswered, Subscribe, Disconnect, TripExpires,
              ClosedExpires, PointerExpires, store, LiveTypeOK, StoreTypes
<1>2. \A h \in Hooks : pc'[h] = "save" =>
          pc[h] = "save" /\ tx'[h] = tx[h] /\ snap'[h] = snap[h]
  <2> SUFFICES ASSUME NEW h \in Hooks, pc'[h] = "save"
               PROVE  pc[h] = "save" /\ tx'[h] = tx[h] /\ snap'[h] = snap[h]
    OBVIOUS
  <2>1. ASSUME NEW p \in Procs, Finalize(p) \/ RequestFails(p)
        PROVE  pc[h] = "save" /\ tx'[h] = tx[h] /\ snap'[h] = snap[h]
    BY <2>1, <1>b DEF Finalize, PublishCompleted, ReadPointer, Wipe, RequestFails, Return, Continue,
                      Goto, LiveTypeOK, LocalTypes
  <2>2. ASSUME NEW p \in Page, Query(p) \/ Answer(p)
        PROVE  pc[h] = "save" /\ tx'[h] = tx[h] /\ snap'[h] = snap[h]
    BY <2>2, <1>b, <1>p DEF Query, Answer, ReadActive, LoadActive, DropPointer, Return, Continue, Goto,
                            LiveTypeOK, LocalTypes
  <2>3. CASE PollAnswered \/ SocketAnswered \/ Subscribe \/ Disconnect
    BY <2>3, <1>b, <1>p DEF PollAnswered, SocketAnswered, Subscribe, Disconnect, Continue, Goto,
                            LiveTypeOK, LocalTypes
  <2>4. CASE (\E t \in Tx : TripExpires(t) \/ ClosedExpires(t)) \/ PointerExpires
    BY <2>4 DEF TripExpires, ClosedExpires, PointerExpires, local
  <2> QED BY <2>1, <2>2, <2>3, <2>4
<1>3. QED
  BY <1>1, <1>2, <1>b, AheadKept

(* With webhooks handled one at a time a stored trip only grows            *)
(* (LiveTripGrows), for any trips and timestamps, beside any page and      *)
(* under every disturbance: whatever deletes the trip between the load and *)
(* the save of a handler, nothing but that save stores it again.           *)
THEOREM SerialTripsGrow ==
    ASSUME Serial
    PROVE  LiveSpec => LiveTripGrows
<1>1. LiveInit => SnapshotAhead
  BY DEF LiveInit, SnapshotAhead, Procs
<1>2. LiveTypeOK /\ SnapshotAhead /\ [LiveNext]_liveVars =>
          /\ SnapshotAhead'
          /\ [\A t \in Tx : trip[t].stored /\ trip'[t].stored =>
                 trip[t].points \subseteq trip'[t].points /\ trip[t].metrics <= trip'[t].metrics]_liveVars
  <2>1. ASSUME LiveTypeOK, SnapshotAhead, UNCHANGED liveVars PROVE SnapshotAhead'
    BY <2>1 DEF SnapshotAhead, liveVars, store, local
  <2>2. ASSUME LiveTypeOK, SnapshotAhead, LiveNext
        PROVE  /\ SnapshotAhead'
               /\ \A t \in Tx : trip[t].stored /\ trip'[t].stored =>
                      trip[t].points \subseteq trip'[t].points /\ trip[t].metrics <= trip'[t].metrics
    <3>1. CASE \E h \in Hooks : Handle(h) \/ \E e \in Events, t \in Tx : Receive(h, e, t)
      BY <2>2, <3>1, AheadByHandler
    <3>2. CASE \/ \E p \in Procs : Finalize(p) \/ RequestFails(p)
               \/ \E p \in Page : Query(p) \/ Answer(p)
               \/ PollAnswered \/ SocketAnswered \/ Subscribe \/ Disconnect
               \/ \E t \in Tx : TripExpires(t) \/ ClosedExpires(t)
               \/ PointerExpires
      <4>1. SnapshotAhead' /\ \A t \in Tx : trip[t].stored /\ trip'[t].stored => trip'[t] = trip[t]
        BY <2>2, <3>2, AheadByOthers
      <4>2. \A t \in Tx : trip[t].metrics \in Nat
        BY <2>2, Counted DEF LiveTypeOK, StoreTypes
      <4> QED BY <4>1, <4>2
    <3> QED BY <2>2, <3>1, <3>2 DEF LiveNext
  <2> QED BY <2>1, <2>2
<1>3. QED
  BY <1>1, <1>2, LiveTypes, PTL DEF LiveSpec, LiveTripGrows

-----------------------------------------------------------------------------
(* The metrics and the route.                                              *)
-----------------------------------------------------------------------------
(* Maxima of finite sets of integers.                                      *)

LEMMA MaxExists ==
    ASSUME NEW S \in SUBSET Int, IsFiniteSet(S), S # {}
    PROVE  Max(S) \in S /\ \A y \in S : Max(S) >= y
<1> DEFINE good == {s \in SUBSET S : s # {} => \E m \in s : \A y \in s : m >= y}
<1>1. ASSUME NEW s \in SUBSET S, \A x \in s : s \ {x} \in good
      PROVE  s \in good
  <2> SUFFICES ASSUME s # {} PROVE \E m \in s : \A y \in s : m >= y
    OBVIOUS
  <2>1. PICK x \in s : TRUE
    OBVIOUS
  <2>2. CASE s \ {x} = {}
    <3>1. \A y \in s : x >= y
      BY <2>2
    <3> QED BY <3>1
  <2>3. CASE s \ {x} # {}
    <3>1. PICK m \in s \ {x} : \A y \in s \ {x} : m >= y
      BY <1>1, <2>3
    <3>2. CASE m >= x
      <4>1. \A y \in s : m >= y
        BY <3>1, <3>2
      <4> QED BY <4>1
    <3>3. CASE ~ (m >= x)
      <4>1. \A y \in s : x >= y
        BY <3>1, <3>3
      <4> QED BY <4>1
    <3> QED BY <3>2, <3>3
  <2> QED BY <2>2, <2>3
<1>2. \A s \in SUBSET S : s \in good
  <2> HIDE DEF good
  <2> QED BY <1>1, SubsetInduction
<1>3. \E m \in S : \A y \in S : m >= y
  BY <1>2
<1>4. QED
  BY <1>3 DEF Max

LEMMA MaxIs ==
    ASSUME NEW S \in SUBSET Int, NEW m \in S, \A y \in S : m >= y
    PROVE  Max(S) = m
<1>1. Max(S) \in S /\ \A y \in S : Max(S) >= y
  BY DEF Max
<1>2. Max(S) \in Int /\ m \in Int /\ Max(S) >= m /\ m >= Max(S)
  BY <1>1
<1>3. QED
  BY <1>2

LEMMA MaxUnion ==
    ASSUME NEW S \in SUBSET Int, NEW T \in SUBSET Int, IsFiniteSet(S), IsFiniteSet(T),
           S # {}, T # {}
    PROVE  Max(S \cup T) = Later(Max(S), Max(T))
<1>1. Max(S) \in S /\ \A y \in S : Max(S) >= y
  BY MaxExists
<1>2. Max(T) \in T /\ \A y \in T : Max(T) >= y
  BY MaxExists
<1> DEFINE m == Later(Max(S), Max(T))
<1>3. Max(S) \in Int /\ Max(T) \in Int
  BY <1>1, <1>2
<1>4. m \in S \cup T /\ m \in Int /\ m >= Max(S) /\ m >= Max(T)
  BY <1>1, <1>2, <1>3 DEF Later
<1> HIDE DEF m
<1>5. ASSUME NEW y \in S \cup T PROVE m >= y
  <2>1. CASE y \in S
    <3>1. Max(S) >= y /\ y \in Int
      BY <1>1, <2>1
    <3> QED BY <1>3, <1>4, <3>1
  <2>2. CASE y \in T
    <3>1. Max(T) >= y /\ y \in Int
      BY <1>2, <2>2
    <3> QED BY <1>3, <1>4, <3>1
  <2> QED BY <2>1, <2>2
<1>6. S \cup T \in SUBSET Int
  OBVIOUS
<1>7. Max(S \cup T) = m
  BY <1>4, <1>5, <1>6, MaxIs
<1>8. QED
  BY <1>7 DEF m

LEMMA ImageFinite ==
    ASSUME NEW S, IsFiniteSet(S), NEW f
    PROVE  IsFiniteSet({f[x] : x \in S})
<1> DEFINE T == {f[x] : x \in S}
           g == [x \in S |-> f[x]]
<1>1. g \in Surjection(S, T)
  BY DEF Surjection
<1> HIDE DEF g
<1>2. QED
  BY <1>1, FS_Surjection

-----------------------------------------------------------------------------
(* Merging.                                                                *)

Ordered(c) == \A i, j \in 1..Len(c) : i < j => c[i].ts < c[j].ts

LEMMA PointTypes ==
    ASSUME NEW p \in Points
    PROVE  p.ts \in Nat /\ p.ts \in Times /\ p.pos \in Int /\ p.speed \in Int
BY TimesAssumption, PointAssumption DEF Points

(* Points of different times can be put in the order of time: the latest   *)
(* one goes last.                                                          *)
LEMMA OrderExists ==
    ASSUME NEW K \in SUBSET Points, IsFiniteSet(K), \A p, q \in K : p.ts = q.ts => p = q
    PROVE  \E r \in [1..Cardinality(K) -> K] :
               \A i, j \in 1..Cardinality(K) : i < j => r[i].ts < r[j].ts
<1> DEFINE inOrder(r, n) == \A i, j \in 1..n : i < j => r[i].ts < r[j].ts
           good == {s \in SUBSET K : \E r \in [1..Cardinality(s) -> s] : inOrder(r, Cardinality(s))}
<1>1. ASSUME NEW s \in SUBSET K, \A x \in s : s \ {x} \in good
      PROVE  \E r \in [1..Cardinality(s) -> s] : inOrder(r, Cardinality(s))
  <2>1. IsFiniteSet(s) /\ Cardinality(s) \in Nat
    BY FS_Subset, FS_CardinalityType
  <2>2. CASE s = {}
    <3>1. 1..Cardinality(s) = {}
      BY <2>2, FS_EmptySet
    <3>2. [i \in 1..Cardinality(s) |-> 0] \in [1..Cardinality(s) -> s]
      BY <3>1
    <3>3. inOrder([i \in 1..Cardinality(s) |-> 0], Cardinality(s))
      BY <3>1
    <3> QED BY <3>2, <3>3
  <2>3. CASE s # {}
    <3> DEFINE times == {p.ts : p \in s}
    <3>1. IsFiniteSet(times)
      <4> DEFINE f == [p \in s |-> p.ts]
      <4>1. times = {f[p] : p \in s}
        OBVIOUS
      <4> HIDE DEF f
      <4>2. IsFiniteSet({f[p] : p \in s})
        BY <2>1, ImageFinite
      <4> QED BY <4>1, <4>2, Zenon
    <3>2. times \in SUBSET Int /\ times # {}
      BY <2>3, PointTypes
    <3>3. Max(times) \in times /\ \A t \in times : Max(times) >= t
      BY <3>1, <3>2, MaxExists
    <3>4. PICK x \in s : x.ts = Max(times)
      BY <3>3
    <3>5. \A p \in s \ {x} : p.ts < x.ts
      <4> SUFFICES ASSUME NEW p \in s \ {x} PROVE p.ts < x.ts
        OBVIOUS
      <4>1. x.ts >= p.ts
        BY <3>3, <3>4
      <4>2. x.ts # p.ts
        OBVIOUS
      <4>3. x.ts \in Nat /\ p.ts \in Nat
        BY PointTypes
      <4> QED BY <4>1, <4>2, <4>3
    <3>6. Cardinality(s \ {x}) = Cardinality(s) - 1
      BY <2>1, FS_RemoveElement
    <3> DEFINE n == Cardinality(s \ {x})
    <3>7. PICK r \in [1..n -> s \ {x}] : inOrder(r, n)
      BY <1>1
    <3>8. n \in Nat /\ Cardinality(s) = n + 1
      BY <2>1, <3>6, FS_Subset, FS_CardinalityType
    <3> DEFINE q == [i \in 1..n + 1 |-> IF i = n + 1 THEN x ELSE r[i]]
    <3> HIDE DEF n, good
    <3>9. q \in [1..n + 1 -> s]
      BY <3>8
    <3>10. ASSUME NEW i \in 1..n + 1, NEW j \in 1..n + 1, i < j PROVE q[i].ts < q[j].ts
      <4>1. i \in 1..n /\ q[i] = r[i] /\ r[i] \in s \ {x}
        BY <3>8, <3>10
      <4>2. CASE j = n + 1
        <5>1. q[j] = x
          BY <4>2
        <5> QED BY <3>5, <4>1, <5>1
      <4>3. CASE j # n + 1
        <5>1. j \in 1..n /\ q[j] = r[j]
          BY <3>8, <4>3
        <5> QED BY <3>7, <3>10, <4>1, <5>1
      <4> QED BY <4>2, <4>3
    <3>11. inOrder(q, n + 1)
      BY <3>10
    <3> QED BY <3>8, <3>9, <3>11, Zenon
  <2> QED BY <2>2, <2>3
<1>2. \A s \in SUBSET K : (\A x \in s : s \ {x} \in good) => s \in good
  BY <1>1
<1>3. \A s \in SUBSET K : s \in good
  <2> HIDE DEF good
  <2> QED BY <1>2, SubsetInduction
<1>4. K \in good
  BY <1>3
<1>5. QED
  BY <1>4

LEMMA DeduplicateOrders ==
    ASSUME NEW s \in Seq(Points), s # <<>>
    PROVE  Deduplicate(s) \in Seq(Points) /\ Deduplicate(s) # <<>> /\ Ordered(Deduplicate(s))
<1> DEFINE newest == [i \in DOMAIN s |-> Newest(s, s[i].ts)]
           kept == {Newest(s, s[i].ts) : i \in DOMAIN s}
           n == Cardinality(kept)
<1>1. DOMAIN s = 1..Len(s) /\ Len(s) \in Nat /\ 1 \in DOMAIN s /\ IsFiniteSet(DOMAIN s)
  BY FS_Interval
<1>2. ASSUME NEW i \in DOMAIN s
      PROVE  Newest(s, s[i].ts) \in Points /\ Newest(s, s[i].ts).ts = s[i].ts
  <2> DEFINE same == {j \in DOMAIN s : s[j].ts = s[i].ts}
  <2>1. same \in SUBSET Int /\ same # {} /\ IsFiniteSet(same)
    BY <1>1, FS_Subset
  <2>2. Max(same) \in same
    BY <2>1, MaxExists
  <2>3. Newest(s, s[i].ts) = s[Max(same)]
    BY DEF Newest
  <2> HIDE DEF same
  <2>4. Max(same) \in DOMAIN s /\ s[Max(same)].ts = s[i].ts
    BY <2>2 DEF same
  <2> QED BY <1>1, <2>3, <2>4
<1>3. kept \in SUBSET Points /\ kept # {}
  BY <1>1, <1>2
<1>4. IsFiniteSet(kept)
  <2>1. kept = {newest[i] : i \in DOMAIN s}
    OBVIOUS
  <2> HIDE DEF newest
  <2>2. IsFiniteSet({newest[i] : i \in DOMAIN s})
    BY <1>1, ImageFinite
  <2> QED BY <2>1, <2>2, Zenon
<1>5. \A p, q \in kept : p.ts = q.ts => p = q
  BY <1>2
<1> DEFINE sorted(r) == \A i, j \in DOMAIN r : i < j => r[i].ts < r[j].ts
<1>6. Deduplicate(s) = CHOOSE r \in [1..n -> kept] : sorted(r)
  BY DEF Deduplicate
<1> HIDE DEF kept
<1>7. n \in Nat /\ n # 0
  BY <1>3, <1>4, FS_CardinalityType, FS_EmptySet
<1>8. \E r \in [1..n -> kept] : sorted(r)
  <2>1. PICK r \in [1..n -> kept] : \A i, j \in 1..n : i < j => r[i].ts < r[j].ts
    BY <1>3, <1>4, <1>5, OrderExists
  <2>2. sorted(r)
    BY <2>1
  <2> QED BY <2>2
<1>9. Deduplicate(s) \in [1..n -> kept] /\ sorted(Deduplicate(s))
  <2> HIDE DEF n, sorted
  <2> QED BY <1>6, <1>8, Zenon
<1> HIDE DEF n
<1>10. Deduplicate(s) \in Seq(Points) /\ Len(Deduplicate(s)) = n
  BY <1>3, <1>7, <1>9
<1>11. QED
  BY <1>7, <1>9, <1>10 DEF Ordered

(* The append-only test: the new points continue an ordered route.         *)
LEMMA AppendOrders ==
    ASSUME NEW old \in Seq(Points), Ordered(old), NEW new \in Seq(Points), Continues(old, new)
    PROVE  Ordered(old \o new)
<1> DEFINE s == old \o new
           good == {k \in Nat : k <= Len(s) => \A i \in 1..k : i < k => s[i].ts < s[k].ts}
<1>1. s \in Seq(Points) /\ Len(s) = Len(old) + Len(new) /\ Len(s) \in Nat /\ Len(old) \in Nat
  OBVIOUS
<1>2. \A i \in 1..Len(old) : s[i] = old[i]
  OBVIOUS
<1>3. \A i \in Len(old) + 1 .. Len(s) : s[i].ts > s[i - 1].ts
  BY DEF Continues
<1> HIDE DEF s
<1>4. \A i \in 1..Len(s) : s[i].ts \in Nat
  BY <1>1, PointTypes
<1>5. 0 \in good
  OBVIOUS
<1>6. ASSUME NEW k \in Nat, k \in good PROVE k + 1 \in good
  <2> SUFFICES ASSUME k + 1 <= Len(s), NEW i \in 1..k + 1, i < k + 1
               PROVE  s[i].ts < s[k + 1].ts
    OBVIOUS
  <2>1. CASE k + 1 <= Len(old)
    <3>1. s[i] = old[i] /\ s[k + 1] = old[k + 1]
      BY <1>1, <1>2, <2>1
    <3>2. old[i].ts < old[k + 1].ts
      BY <1>1, <2>1 DEF Ordered
    <3> QED BY <3>1, <3>2
  <2>2. CASE k + 1 > Len(old)
    <3>1. k + 1 \in Len(old) + 1 .. Len(s) /\ (k + 1) - 1 = k
      BY <1>1, <2>2
    <3>2. s[k + 1].ts > s[k].ts
      BY <1>3, <3>1
    <3>3. i = k \/ s[i].ts < s[k].ts
      BY <1>6, SMTT(40)
    <3>4. i \in 1..Len(s) /\ k \in 1..Len(s) /\ k + 1 \in 1..Len(s)
      BY <1>1
    <3>5. s[i].ts \in Nat /\ s[k].ts \in Nat /\ s[k + 1].ts \in Nat
      BY <1>4, <3>4
    <3> QED BY <3>2, <3>3, <3>5, SMTT(40)
  <2> QED BY <1>1, <2>1, <2>2
<1>7. \A k \in Nat : k \in good
  <2> HIDE DEF good
  <2> QED BY <1>5, <1>6, NumberInduction
<1>8. \A i, j \in 1..Len(s) : i < j => s[i].ts < s[j].ts
  BY <1>1, <1>7
<1>9. QED
  BY <1>8 DEF Ordered, s

LEMMA MergeOrders ==
    ASSUME NEW old \in Seq(Points), Ordered(old), NEW new \in Batches
    PROVE  Merge(old, new) \in Seq(Points) /\ Merge(old, new) # <<>> /\ Ordered(Merge(old, new))
<1>1. new \in Seq(Points) /\ Len(new) \in Nat \ {0}
  BY BoundsAssumption DEF Batches
<1>2. old \o new \in Seq(Points) /\ old \o new # <<>>
  BY <1>1
<1>3. CASE AppendOnly(old, new)
  <2>1. Ordered(old \o new)
    BY <1>1, <1>3, AppendOrders DEF AppendOnly
  <2> QED BY <1>2, <1>3, <2>1 DEF Merge
<1>4. CASE ~AppendOnly(old, new)
  <2>1. Merge(old, new) = Deduplicate(old \o new)
    BY <1>4 DEF Merge
  <2> QED BY <1>2, <2>1, DeduplicateOrders
<1>5. QED
  BY <1>3, <1>4

-----------------------------------------------------------------------------
(* Distance and speed.                                                     *)

LEMMA SegmentTypes ==
    ASSUME NEW c \in Seq(Points), NEW i \in 2..Len(c)
    PROVE  Distance(c, i) \in Nat /\ SegmentSpeed(c, i) \in Nat
<1>1. c[i] \in Points /\ c[i - 1] \in Points
  OBVIOUS
<1>2. /\ c[i].ts \in Nat /\ c[i - 1].ts \in Nat
      /\ c[i].pos \in Int /\ c[i - 1].pos \in Int
  BY <1>1, PointTypes
<1>3. Distance(c, i) \in Nat
  BY <1>2 DEF Distance
<1>4. \A a, b \in Nat : b > 0 => a \div b \in Nat
  OBVIOUS
<1>5. \A a, b \in Nat : a * b \in Nat
  OBVIOUS
<1> DEFINE gap == c[i].ts - c[i - 1].ts
           far == Distance(c, i) * Hour
<1>6. far \in Nat
  BY <1>3, <1>5, BoundsAssumption
<1>7. c[i].ts > c[i - 1].ts => gap \in Nat /\ gap > 0
  BY <1>2
<1>8. SegmentSpeed(c, i) = IF c[i].ts > c[i - 1].ts THEN far \div gap ELSE 0
  BY DEF SegmentSpeed
<1> HIDE DEF far, gap
<1>9. SegmentSpeed(c, i) \in Nat
  BY <1>4, <1>6, <1>7, <1>8
<1>10. QED
  BY <1>3, <1>9

(* Travelled as a value of a sum over the segments.                        *)
Segments(c) == [i \in 2..Len(c) |-> Distance(c, i)]

LEMMA TravelledSum ==
    ASSUME NEW c \in Seq(Points), NEW first \in Nat, first >= 2,
           NEW g, IsSum(g, 2..Len(c), Segments(c))
    PROVE  Travelled(c, first) = g[first..Len(c)]
<1> DEFINE S == 2..Len(c)
           T == first..Len(c)
           E == Segments(c)
           F == [i \in T |-> Distance(c, i)]
           summed(f, s) == IF s = {} THEN 0 ELSE F[Pick(s)] + f[s \ {Pick(s)}]
           folded(f, s) == IF s = {} THEN 0 ELSE Distance(c, CHOOSE x \in s : TRUE)
                                                 + f[s \ {CHOOSE x \in s : TRUE}]
           h == CHOOSE h : h = [s \in SUBSET T |-> folded(h, s)]
<1>1. T \in SUBSET S /\ IsFiniteSet(S) /\ IsFiniteSet(T)
  BY FS_Interval, SMTT(40)
<1>2. Travelled(c, first) = h[T]
  BY DEF Travelled, MapThenSumSet, MapThenFoldSet
<1>3. \A s \in SUBSET T : \A f : summed(f, s) = folded(f, s)
  <2> SUFFICES ASSUME NEW s \in SUBSET T, NEW f PROVE summed(f, s) = folded(f, s)
    OBVIOUS
  <2>1. CASE s = {}
    BY <2>1
  <2>2. CASE s # {}
    <3>1. Pick(s) \in T
      BY <2>2, PickIsElement
    <3>2. F[Pick(s)] = Distance(c, Pick(s))
      BY <3>1
    <3> QED BY <2>2, <3>2 DEF Pick
  <2> QED BY <2>1, <2>2
<1>4. \A f : IsSum(f, T, F) <=> f = [s \in SUBSET T |-> summed(f, s)]
  BY DEF IsSum
<1>5. \A x \in S : E[x] \in Nat
  BY SegmentTypes DEF Segments
<1>6. \A x \in T : F[x] = E[x]
  BY <1>1 DEF Segments
<1>7. IsSum(g, S, E)
  OBVIOUS
<1> HIDE DEF summed, folded, T, F, S, E
<1>8. PICK f : f = [s \in SUBSET T |-> summed(f, s)]
  BY <1>1, <1>4, SumExists
<1>9. f = [s \in SUBSET T |-> folded(f, s)]
  BY <1>3, <1>8
<1>10. h = [s \in SUBSET T |-> folded(h, s)]
  BY <1>9, Zenon
<1> HIDE DEF h
<1>11. h = [s \in SUBSET T |-> summed(h, s)]
  BY <1>3, <1>10
<1>12. IsSum(h, T, F)
  BY <1>4, <1>11
<1>13. h[T] = g[T]
  <2>1. \A s \in SUBSET T : h[s] = g[s]
    BY ONLY <1>1, <1>5, <1>6, <1>7, <1>12, SumUnique
  <2> QED BY <2>1
<1>14. QED
  BY <1>2, <1>13 DEF T

LEMMA TravelledType ==
    ASSUME NEW c \in Seq(Points)
    PROVE  Travelled(c, 2) \in Nat
<1> DEFINE S == 2..Len(c)
           E == Segments(c)
<1>1. IsFiniteSet(S)
  BY FS_Interval
<1>2. \A x \in S : E[x] \in Nat
  BY SegmentTypes DEF Segments
<1> HIDE DEF E
<1>3. PICK g : IsSum(g, S, E)
  BY <1>1, SumExists
<1>4. Travelled(c, 2) = g[S]
  BY <1>3, TravelledSum DEF E
<1> HIDE DEF S
<1>5. g[S] \in Nat
  BY ONLY <1>1, <1>2, <1>3, SumType
<1>6. QED
  BY <1>4, <1>5

(* What the added points add to the distance.                              *)
LEMMA TravelledExtends ==
    ASSUME NEW old \in Seq(Points), NEW new \in Seq(Points), old # <<>>
    PROVE  Travelled(old \o new, 2) = Travelled(old, 2) + Travelled(old \o new, Len(old) + 1)
<1> DEFINE c == old \o new
           n == Len(old)
           S == 2..Len(c)
           T == 2..n
           U == n + 1 .. Len(c)
           E == Segments(c)
           F == Segments(old)
<1>1. c \in Seq(Points) /\ Len(c) = n + Len(new) /\ Len(new) \in Nat /\ n \in Nat /\ n >= 1
  OBVIOUS
<1>2. \A i \in 1..n : c[i] = old[i]
  OBVIOUS
<1> HIDE DEF c, n
<1>3. /\ IsFiniteSet(S) /\ T \in SUBSET S /\ U \in SUBSET S
      /\ T \cap U = {} /\ T \cup U = S
  <2>1. Len(c) \in Nat /\ Len(c) >= n
    BY <1>1
  <2>2. IsFiniteSet(S)
    BY <2>1, FS_Interval
  <2>3. T \in SUBSET S /\ U \in SUBSET S /\ T \cap U = {}
    BY <1>1, <2>1
  <2>4. T \cup U = S
    BY <1>1, <2>1
  <2> QED BY <2>2, <2>3, <2>4
<1>4. \A x \in S : E[x] \in Nat
  BY <1>1, SegmentTypes DEF Segments
<1>5. \A x \in T : F[x] = E[x]
  <2> SUFFICES ASSUME NEW x \in T PROVE F[x] = E[x]
    OBVIOUS
  <2>1. x \in 1..n /\ x - 1 \in 1..n /\ x \in S
    BY <1>1
  <2>2. c[x] = old[x] /\ c[x - 1] = old[x - 1]
    BY <1>2, <2>1
  <2>3. F[x] = Distance(old, x) /\ E[x] = Distance(c, x)
    BY <2>1 DEF Segments, n
  <2> QED BY <2>2, <2>3 DEF Distance
<1> HIDE DEF E, F
<1>6. IsFiniteSet(T)
  BY <1>3, FS_Subset
<1>7. PICK g : IsSum(g, S, E)
  BY <1>3, SumExists
<1>8. PICK h : IsSum(h, T, F)
  BY <1>6, SumExists
<1>9. Travelled(c, 2) = g[S] /\ Travelled(c, n + 1) = g[U]
  BY <1>1, <1>7, TravelledSum DEF E
<1>10. Travelled(old, 2) = h[T]
  BY <1>8, TravelledSum DEF F, n
<1> HIDE DEF S, T, U
<1>11. h[T] = g[T]
  <2>1. \A s \in SUBSET T : h[s] = g[s]
    BY ONLY <1>3, <1>4, <1>5, <1>7, <1>8, SumUnique
  <2> QED BY <2>1
<1>12. g[T \cup U] = g[T] + g[U]
  BY ONLY <1>3, <1>4, <1>7, SumDisjoint
<1>13. Travelled(c, 2) = Travelled(old, 2) + Travelled(c, n + 1)
  BY <1>3, <1>9, <1>10, <1>11, <1>12, Zenon
<1>14. QED
  BY <1>13 DEF c, n

(* The speeds TopSpeed compares.                                           *)
SpeedsFrom(c, first) ==
    {0} \cup {c[i].speed : i \in first..Len(c)}
        \cup {SegmentSpeed(c, i) : i \in Later(first, 2)..Len(c)}

LEMMA SpeedsFinite ==
    ASSUME NEW c \in Seq(Points), NEW first \in Nat \ {0}
    PROVE  /\ SpeedsFrom(c, first) \in SUBSET Int /\ SpeedsFrom(c, first) # {}
           /\ IsFiniteSet(SpeedsFrom(c, first))
<1> DEFINE A == {c[i].speed : i \in first..Len(c)}
           L == Later(first, 2)
           B == {SegmentSpeed(c, i) : i \in L..Len(c)}
           a == [i \in first..Len(c) |-> c[i].speed]
           b == [i \in L..Len(c) |-> SegmentSpeed(c, i)]
<1>1. Len(c) \in Nat /\ L \in Nat /\ L >= 2
  BY DEF Later
<1>2. \A i \in first..Len(c) : c[i] \in Points
  OBVIOUS
<1>3. A \in SUBSET Int
  BY <1>2, PointTypes
<1> HIDE DEF L
<1>4. B \in SUBSET Int
  <2>1. \A i \in L..Len(c) : i \in 2..Len(c)
    BY <1>1
  <2> QED BY <2>1, SegmentTypes
<1>5. A = {a[i] : i \in first..Len(c)} /\ B = {b[i] : i \in L..Len(c)}
  OBVIOUS
<1>6. IsFiniteSet(first..Len(c)) /\ IsFiniteSet(L..Len(c))
  BY <1>1, FS_Interval
<1>7. SpeedsFrom(c, first) = ({0} \cup A) \cup B
  BY DEF SpeedsFrom, L
<1> HIDE DEF a, b, A, B
<1>8. IsFiniteSet(A) /\ IsFiniteSet(B)
  BY <1>5, <1>6, ImageFinite
<1>9. IsFiniteSet(({0} \cup A) \cup B)
  BY <1>8, FS_Singleton, FS_Union
<1>10. QED
  BY <1>3, <1>4, <1>7, <1>9

LEMMA TopSpeedType ==
    ASSUME NEW c \in Seq(Points), NEW first \in Nat \ {0}
    PROVE  TopSpeed(c, first) \in Nat
<1>1. TopSpeed(c, first) = Max(SpeedsFrom(c, first))
  BY DEF TopSpeed, SpeedsFrom
<1>2. Max(SpeedsFrom(c, first)) \in SpeedsFrom(c, first) /\ Max(SpeedsFrom(c, first)) >= 0
  <2>1. 0 \in SpeedsFrom(c, first)
    BY DEF SpeedsFrom
  <2> QED BY <2>1, SpeedsFinite, MaxExists
<1>3. Max(SpeedsFrom(c, first)) \in Int
  BY <1>2, SpeedsFinite
<1>4. QED
  BY <1>1, <1>2, <1>3

(* The top speed of the whole route is the higher of those of its parts.   *)
LEMMA TopSpeedExtends ==
    ASSUME NEW old \in Seq(Points), NEW new \in Seq(Points), old # <<>>
    PROVE  TopSpeed(old \o new, 1)
               = Later(TopSpeed(old, 1), TopSpeed(old \o new, Len(old) + 1))
<1> DEFINE c == old \o new
           n == Len(old)
           A == SpeedsFrom(old, 1)
           B == SpeedsFrom(c, n + 1)
<1>1. c \in Seq(Points) /\ Len(c) = n + Len(new) /\ Len(new) \in Nat /\ n \in Nat /\ n >= 1
  OBVIOUS
<1>2. \A i \in 1..n : c[i] = old[i]
  OBVIOUS
<1> HIDE DEF c
<1>3. Later(1, 2) = 2 /\ Later(n + 1, 2) = n + 1
  BY <1>1 DEF Later
<1>4. \A i \in 2..n : SegmentSpeed(c, i) = SegmentSpeed(old, i)
  <2> SUFFICES ASSUME NEW i \in 2..n PROVE SegmentSpeed(c, i) = SegmentSpeed(old, i)
    OBVIOUS
  <2>1. i \in 1..n /\ i - 1 \in 1..n
    BY <1>1
  <2>2. c[i] = old[i] /\ c[i - 1] = old[i - 1]
    BY <1>2, <2>1
  <2> QED BY <2>2 DEF SegmentSpeed, Distance
<1>5. SpeedsFrom(c, 1) = A \cup B
  <2> DEFINE reported(s, I) == {s[i].speed : i \in I}
             reached(s, I) == {SegmentSpeed(s, i) : i \in I}
  <2>1. 1..Len(c) = (1..n) \cup (n + 1 .. Len(c)) /\ 2..Len(c) = (2..n) \cup (n + 1 .. Len(c))
    BY <1>1
  <2>2. reported(c, 1..Len(c)) = reported(old, 1..n) \cup reported(c, n + 1 .. Len(c))
    BY <1>2, <2>1, SMTT(40)
  <2>3. reached(c, 2..Len(c)) = reached(old, 2..n) \cup reached(c, n + 1 .. Len(c))
    BY <1>4, <2>1
  <2>4. A = {0} \cup reported(old, 1..n) \cup reached(old, 2..n)
    BY <1>3 DEF SpeedsFrom
  <2>5. B = {0} \cup reported(c, n + 1 .. Len(c)) \cup reached(c, n + 1 .. Len(c))
    BY <1>3 DEF SpeedsFrom
  <2>6. SpeedsFrom(c, 1) = {0} \cup reported(c, 1..Len(c)) \cup reached(c, 2..Len(c))
    BY <1>3 DEF SpeedsFrom
  <2> HIDE DEF reported, reached, A, B
  <2> QED BY <2>2, <2>3, <2>4, <2>5, <2>6
<1>6. /\ A \in SUBSET Int /\ A # {} /\ IsFiniteSet(A)
      /\ B \in SUBSET Int /\ B # {} /\ IsFiniteSet(B)
  <2>1. n + 1 \in Nat \ {0} /\ 1 \in Nat \ {0}
    BY <1>1
  <2>2. A \in SUBSET Int /\ A # {} /\ IsFiniteSet(A)
    BY <2>1, SpeedsFinite
  <2> HIDE DEF n
  <2>3. B \in SUBSET Int /\ B # {} /\ IsFiniteSet(B)
    BY <1>1, <2>1, SpeedsFinite
  <2> QED BY <2>2, <2>3
<1> HIDE DEF A, B
<1>7. Max(A \cup B) = Later(Max(A), Max(B))
  BY <1>6, MaxUnion
<1>8. /\ TopSpeed(c, 1) = Max(SpeedsFrom(c, 1))
      /\ TopSpeed(old, 1) = Max(A) /\ TopSpeed(c, n + 1) = Max(B)
  BY DEF TopSpeed, SpeedsFrom, A, B
<1>9. TopSpeed(c, 1) = Later(TopSpeed(old, 1), TopSpeed(c, n + 1))
  BY <1>5, <1>7, <1>8, Zenon
<1>10. QED
  BY <1>9 DEF c

LEMMA CurrentType ==
    ASSUME NEW c \in Seq(Points), c # <<>>
    PROVE  CurrentSpeed(c) \in Nat /\ c[Len(c)].ts \in Times /\ c[Len(c)].ts \in Nat
<1> DEFINE n == Len(c)
<1>1. c[n] \in Points /\ n \in Nat
  OBVIOUS
<1>2. c[n].speed \in Int /\ c[n].ts \in Times /\ c[n].ts \in Nat
  BY <1>1, PointTypes
<1>3. n > 1 => SegmentSpeed(c, n) \in Nat
  <2>1. n > 1 => n \in 2..Len(c)
    BY <1>1
  <2> QED BY <2>1, SegmentTypes
<1>4. CurrentSpeed(c) = IF c[n].speed >= 0 THEN c[n].speed
                                           ELSE IF n > 1 THEN SegmentSpeed(c, n) ELSE 0
  BY DEF CurrentSpeed
<1> HIDE DEF n
<1>5. CurrentSpeed(c) \in Nat
  BY <1>2, <1>3, <1>4
<1>6. QED
  BY <1>2, <1>5 DEF n

-----------------------------------------------------------------------------
(* The inductive invariant. The route has to be ordered as a whole, not    *)
(* only from point to point, for a merge to keep it so; the metrics of     *)
(* points never come back once the provider's have replaced them, so       *)
(* IncrementalIsFull needs no more than the types beside it.               *)

Metrics == [distance: Nat, max: Nat, current: Nat, duration: Int, points: Nat]

Inv ==
    /\ TypeOK
    /\ Ordered(coords)
    /\ IncrementalIsFull
    /\ source = "provider" => provided \in Times
    /\ SummaryOnOneBasis

(* The metrics of a route computed in one go.                              *)
LEMMA FullIsFull ==
    ASSUME NEW c \in Seq(Points), c # <<>>, NEW s \in Int
    PROVE  /\ FullMetrics(c, s) \in Metrics
           /\ FullMetrics(c, s).distance = Travelled(c, 2)
           /\ FullMetrics(c, s).max = TopSpeed(c, 1)
           /\ FullMetrics(c, s).current = CurrentSpeed(c)
           /\ FullMetrics(c, s).points = Len(c)
<1>1. Travelled(c, 2) \in Nat
  BY TravelledType
<1>2. TopSpeed(c, 1) \in Nat
  BY TopSpeedType
<1>3. CurrentSpeed(c) \in Nat /\ c[Len(c)].ts \in Nat
  BY CurrentType
<1>4. c[Len(c)].ts - s \in Int /\ Len(c) \in Nat
  BY <1>3
<1>5. QED
  BY <1>1, <1>2, <1>3, <1>4 DEF FullMetrics, MetricsOf, Metrics

(* Extending the stored metrics by the points that follow the route gives  *)
(* the metrics of the extended route.                                      *)
LEMMA ExtendedIsFull ==
    ASSUME Inv, source = "gps", NEW new \in Seq(Points), AppendOnly(coords, new), NEW s \in Int
    PROVE  IncrementalMetrics(coords \o new, s, Len(coords)) = FullMetrics(coords \o new, s)
<1> DEFINE c == coords \o new
           n == Len(coords)
<1>1. coords \in Seq(Points) /\ coords # <<>>
  BY DEF Inv, TypeOK, AppendOnly
<1>2. /\ metrics.distance = Travelled(coords, 2)
      /\ metrics.max = TopSpeed(coords, 1)
      /\ metrics.points = n
  BY <1>1 DEF Inv, IncrementalIsFull
<1>3. n \in Nat /\ ~(n <= 0)
  BY <1>1
<1>4. Travelled(c, 2) = metrics.distance + Travelled(c, n + 1)
  BY <1>1, <1>2, TravelledExtends
<1>5. TopSpeed(c, 1) = Later(metrics.max, TopSpeed(c, n + 1))
  BY <1>1, <1>2, TopSpeedExtends
<1> HIDE DEF c, n
<1>6. IncrementalMetrics(c, s, n)
          = MetricsOf(c, s, metrics.distance + Travelled(c, n + 1),
                      Later(metrics.max, TopSpeed(c, n + 1)))
  BY <1>2, <1>3 DEF IncrementalMetrics
<1>7. IncrementalMetrics(c, s, n) = FullMetrics(c, s)
  BY <1>4, <1>5, <1>6, Zenon DEF FullMetrics
<1>8. QED
  BY <1>7 DEF c, n

LEMMA InitInv == Init => Inv
<1> SUFFICES ASSUME Init PROVE Inv
  OBVIOUS
<1>1. TypeOK
  <2>1. coords \in Seq(Points)
    BY DEF Init
  <2>2. metrics \in [distance: Nat, max: Nat, current: Nat, duration: Int, points: Nat]
    BY DEF Init, NoMetrics
  <2> QED BY <2>1, <2>2 DEF Init, TypeOK
<1>2. Ordered(coords)
  BY DEF Init, Ordered
<1>3. IncrementalIsFull /\ SummaryOnOneBasis /\ source # "provider"
  BY DEF Init, IncrementalIsFull, SummaryOnOneBasis
<1>4. QED
  BY <1>1, <1>2, <1>3 DEF Inv

LEMMA StartInv ==
    ASSUME Inv, NEW t \in Times, TripStart(t)
    PROVE  Inv'
<1>1. start' \in Times \cup {0} /\ last' \in Times \cup {0} /\ known' \in BOOLEAN
  BY DEF TripStart, Inv, TypeOK, Earlier, Later
<1>2. TypeOK'
  BY <1>1 DEF TripStart, Inv, TypeOK
<1>3. QED
  BY <1>2 DEF TripStart, Inv, Ordered, IncrementalIsFull, SummaryOnOneBasis

LEMMA SummaryInv ==
    ASSUME Inv, NEW t \in Times, TripMetrics(t)
    PROVE  Inv'
<1>1. Summary[t] \in [distance: Nat, max: Nat, duration: Nat]
  BY SummaryAssumption
<1>2. metrics \in Metrics
  BY DEF Inv, TypeOK, Metrics
<1>3. /\ metrics' \in Metrics
      /\ [distance |-> metrics'.distance, max |-> metrics'.max, duration |-> metrics'.duration]
             = Summary[t]
  <2> DEFINE p == Summary[t]
  <2>1. /\ p \in [distance: Nat, max: Nat, duration: Nat]
        /\ p.distance \in Nat /\ p.max \in Nat /\ p.duration \in Nat /\ p.duration \in Int
    BY <1>1
  <2>2. metrics' = [metrics EXCEPT !.distance = p.distance, !.max = p.max,
                                   !.duration = p.duration]
    BY DEF TripMetrics
  <2> HIDE DEF p
  <2>3. /\ metrics' \in Metrics
        /\ metrics'.distance = p.distance /\ metrics'.max = p.max
        /\ metrics'.duration = p.duration
    BY <1>2, <2>1, <2>2 DEF Metrics
  <2>4. [distance |-> p.distance, max |-> p.max, duration |-> p.duration] = p
    BY <2>1
  <2> QED BY <2>3, <2>4 DEF p
<1>4. last' \in Times \cup {0} /\ provided' = t /\ source' = "provider"
  BY DEF TripMetrics, Inv, TypeOK, Later
<1>5. TypeOK'
  BY <1>3, <1>4 DEF TripMetrics, Inv, TypeOK, Metrics
<1>6. SummaryOnOneBasis' /\ IncrementalIsFull'
  BY <1>3, <1>4 DEF SummaryOnOneBasis, IncrementalIsFull
<1>7. Ordered(coords)'
  BY DEF TripMetrics, Inv, Ordered
<1>8. QED
  BY <1>4, <1>5, <1>6, <1>7 DEF Inv

LEMMA DataInv ==
    ASSUME Inv, NEW new \in Batches, TripData(new)
    PROVE  Inv'
<1> DEFINE c == Merge(coords, new)
           m == IF AppendOnly(coords, new) /\ source = "gps"
                THEN IncrementalMetrics(c, start', Len(coords)) ELSE FullMetrics(c, start')
<1>1. new \in Seq(Points) /\ new[1] \in Points
  <2>1. PICK n \in 1..MaxBatch : new \in [1..n -> Points]
    BY DEF Batches
  <2>2. 1 \in 1..n /\ n \in Nat
    BY <2>1, BoundsAssumption
  <2> QED BY <2>1, <2>2
<1>2. c \in Seq(Points) /\ c # <<>> /\ Ordered(c)
  BY MergeOrders DEF Inv, TypeOK
<1>3. start' \in Times \cup {0} /\ start' \in Int
  <2>1. new[1].ts \in Times
    BY <1>1, PointTypes
  <2>2. start' = IF known THEN start ELSE new[1].ts
    BY DEF TripData
  <2>3. start \in Times \cup {0}
    BY DEF Inv, TypeOK
  <2>4. start' \in Times \cup {0}
    BY <2>1, <2>2, <2>3
  <2>5. Times \cup {0} \subseteq Int
    BY TimesAssumption
  <2> QED BY <2>4, <2>5
<1>4. m = FullMetrics(c, start')
  <2>1. CASE AppendOnly(coords, new) /\ source = "gps"
    <3>1. c = coords \o new
      BY <2>1 DEF Merge
    <3>2. IncrementalMetrics(coords \o new, start', Len(coords)) = FullMetrics(coords \o new, start')
      BY <1>1, <1>3, <2>1, ExtendedIsFull
    <3> QED BY <2>1, <3>1, <3>2
  <2>2. CASE ~(AppendOnly(coords, new) /\ source = "gps")
    BY <2>2
  <2> QED BY <2>1, <2>2
<1>5. /\ coords' = c /\ known' = TRUE /\ source' = source /\ provided' = provided
      /\ TakeMetrics(m, c)
  BY DEF TripData
<1> HIDE DEF c, m
<1>6. /\ m \in Metrics
      /\ m.distance = Travelled(c, 2) /\ m.max = TopSpeed(c, 1)
      /\ m.current = CurrentSpeed(c) /\ m.points = Len(c)
  BY <1>2, <1>3, <1>4, FullIsFull
<1>7. c[Len(c)].ts \in Times
  BY <1>2, CurrentType
<1>8. last' \in Times \cup {0}
  BY <1>5, <1>7 DEF TakeMetrics, Inv, TypeOK, Later
<1>9. metrics \in Metrics /\ source \in {"gps", "provider"}
  BY DEF Inv, TypeOK, Metrics
<1>10. CASE source = "gps"
  <2>1. metrics' = m
    BY <1>5, <1>10 DEF TakeMetrics
  <2>2. TypeOK'
    BY <1>2, <1>3, <1>5, <1>6, <1>8, <2>1 DEF Inv, TypeOK, Metrics
  <2>3. IncrementalIsFull'
    BY <1>5, <1>6, <2>1 DEF IncrementalIsFull
  <2>4. SummaryOnOneBasis' /\ source' # "provider"
    BY <1>5, <1>10 DEF SummaryOnOneBasis
  <2>5. Ordered(coords)'
    BY <1>2, <1>5 DEF Ordered
  <2> QED BY <2>2, <2>3, <2>4, <2>5 DEF Inv
<1>11. CASE source = "provider"
  <2>1. metrics' = [metrics EXCEPT !.current = m.current, !.points = m.points]
    BY <1>5, <1>11 DEF TakeMetrics
  <2>2. /\ metrics' \in Metrics
        /\ metrics'.distance = metrics.distance /\ metrics'.max = metrics.max
        /\ metrics'.duration = metrics.duration
    BY <1>6, <1>9, <2>1 DEF Metrics
  <2>3. TypeOK'
    BY <1>2, <1>3, <1>5, <1>8, <2>2 DEF Inv, TypeOK, Metrics
  <2>4. IncrementalIsFull'
    BY <1>5, <1>11 DEF IncrementalIsFull
  <2>5. SummaryOnOneBasis' /\ provided' \in Times
    BY <1>5, <1>11, <2>2 DEF Inv, SummaryOnOneBasis
  <2>6. Ordered(coords)'
    BY <1>2, <1>5 DEF Ordered
  <2> QED BY <2>3, <2>4, <2>5, <2>6 DEF Inv
<1>12. QED
  BY <1>9, <1>10, <1>11

LEMMA Invariance == Spec => []Inv
<1>1. Inv /\ [Next]_vars => Inv'
  <2> SUFFICES ASSUME Inv, [Next]_vars PROVE Inv'
    OBVIOUS
  <2>1. CASE Next
    BY <2>1, StartInv, SummaryInv, DataInv DEF Next
  <2>2. CASE UNCHANGED vars
    BY <2>2 DEF vars, Inv, TypeOK, Ordered, IncrementalIsFull, SummaryOnOneBasis
  <2> QED BY <2>1, <2>2
<1>2. QED
  BY <1>1, InitInv, PTL DEF Spec

(* The fields of a live trip's document keep their types: counts, distance *)
(* and speeds never negative, whatever order the events come in            *)
(* (process_trip_start, process_trip_data, process_trip_metrics).          *)
THEOREM MetricsTypes == Spec => []TypeOK
<1>1. Inv => TypeOK
  BY DEF Inv
<1>2. QED
  BY <1>1, Invariance, PTL

(* However batches append to, overlap or precede the route, the metrics    *)
(* stored are those of the whole route computed in one go                  *)
(* (_calculate_trip_metrics_incremental).                                  *)
THEOREM IncrementalEqualsFull == Spec => []IncrementalIsFull
<1>1. Inv => IncrementalIsFull
  BY DEF Inv
<1>2. QED
  BY <1>1, Invariance, PTL

(* Each point of the stored route is later than the one before it          *)
(* (_merge_trip_coordinates and _deduplicate_coordinates).                 *)
THEOREM RouteInOrder == Spec => []RouteOrdered
<1>1. Inv => RouteOrdered
  BY DEF Inv, TypeOK, Ordered, RouteOrdered
<1>2. QED
  BY <1>1, Invariance, PTL

(* Once the provider has sent a summary, points never replace one of its   *)
(* fields (process_trip_data, process_trip_metrics).                       *)
THEOREM SummaryStays == Spec => []SummaryOnOneBasis
<1>1. Inv => SummaryOnOneBasis
  BY DEF Inv
<1>2. QED
  BY <1>1, Invariance, PTL
=============================================================================
