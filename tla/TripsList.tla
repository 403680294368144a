------------------------------ MODULE TripsList ------------------------------
(***************************************************************************)
(* The trips page (features/trips/index.js): the list with its pages,      *)
(* filters, search and sort, the selection, and the optimistic deletes. A  *)
(* filter or a search text is the set of trips it lets through; the blank  *)
(* one is AllTrips. The server's collection is ui.db.                      *)
(***************************************************************************)
EXTENDS Naturals, Sequences, SequencesExt, FiniteSets

CONSTANTS
    Trips,      \* the trips on the server, oldest first
    Looks,      \* sets of trips a filter or a search text can stand for
    Columns,    \* the table's columns, in their default order
    PageSize,   \* rows of a page
    MaxSteps    \* bound on what the user does

VARIABLE ui

AllTrips == ToSet(Trips)
NoAsk == [op |-> "none", ids |-> {}]
Sorts == {"date_desc", "date_asc"}

TypeOK ==
    ui \in [ db       : Seq(AllTrips), off : SUBSET AllTrips,       \* server: trips, inactive ones
             page     : 1..Len(Trips), sort : Sorts, form : SUBSET AllTrips, \* what the next request asks
             rowsOf   : [page : 0..Len(Trips), form : SUBSET AllTrips, sort : Sorts],
             rows     : Seq(AllTrips), filtered : Seq(AllTrips),    \* tripsData, filteredTrips
             inactive : SUBSET AllTrips, total : 0..Len(Trips),
             screen   : Seq(AllTrips), empty : BOOLEAN,
             query    : SUBSET AllTrips, typing : BOOLEAN,          \* search box and its debounce
             selected : SUBSET AllTrips, loading : BOOLEAN,
             view     : {"cards", "list"}, order : Seq(ToSet(Columns)), hidden : SUBSET ToSet(Columns),
             asked    : [op : {"none", "delete", "bulk", "rematch", "inactive"}, ids : SUBSET AllTrips],
             stats    : SUBSET AllTrips,                            \* the filter the numbers are of
             net      : SUBSET [op : {"list", "stats", "vehicles", "delete", "bulk", "rematch", "reload",
                                      "inactive"},
                                page : 0..Len(Trips), form : SUBSET AllTrips, sort : Sorts,
                                ids : SUBSET AllTrips],
             dropped  : BOOLEAN, crossed : BOOLEAN, steps : 0..MaxSteps ]

Only(s, S) == SelectSeq(s, LAMBDA t : t \in S)

(* getTripsSortRequest: the stored choice, by the table of sort keys.      *)
Sorted(s, sort) == IF sort = "date_asc" THEN s ELSE Reverse(s)

Request(u, op, ids) ==
    [op |-> op, page |-> u.page, form |-> u.form, sort |-> u.sort, ids |-> ids]

User == ui.steps < MaxSteps /\ ui.asked = NoAsk
Acted(u) == [u EXCEPT !.steps = @ + 1]

-----------------------------------------------------------------------------
(* What is on the screen.                                                  *)

(* renderTrips: cards put the inactive trips in a section of their own.    *)
Cards(u, s) == Only(s, AllTrips \ u.inactive) \o Only(s, u.inactive)

TableRows(u, s) == s

Rendered(u, s) ==
    [u EXCEPT !.screen = IF u.view = "list" THEN TableRows(u, s) ELSE Cards(u, s)]

(* getRenderableTrips.                                                     *)
Renderable(u) ==
    IF u.query # AllTrips \/ u.filtered # <<>> THEN u.filtered ELSE u.rows

(* performSearch.                                                          *)
Searched(u) ==
    LET hits == Only(u.rows, u.query) IN
    Rendered([u EXCEPT !.filtered = hits, !.typing = FALSE], hits)

Visible(u) == IF u.empty THEN {} ELSE ToSet(u.screen)

SetView(v) ==
    /\ User
    /\ ui' = Acted(Rendered([ui EXCEPT !.view = v], Renderable(ui)))

(* reorderTripTableColumn: dropped onto another column, before it.         *)
ReorderColumn(c, d) ==
    /\ User
    /\ c # d
    /\ LET rest == SelectSeq(ui.order, LAMBDA x : x # c)
           i    == CHOOSE k \in 1..Len(rest) : rest[k] = d IN
       ui' = Acted(Rendered([ui EXCEPT !.order = InsertAt(rest, i, c)], Renderable(ui)))

ToggleColumn(c) ==
    /\ User
    /\ ui' = Acted(Rendered([ui EXCEPT !.hidden = IF c \in @ THEN @ \ {c} ELSE @ \cup {c}],
                            Renderable(ui)))

ResetColumns ==
    /\ User
    /\ ui.order # Columns \/ ui.hidden # {}
    /\ ui' = Acted(Rendered([ui EXCEPT !.order = Columns, !.hidden = {}], Renderable(ui)))

-----------------------------------------------------------------------------
(* Loading.                                                                *)

(* loadTrips: a second call while one is in flight does nothing.           *)
Load(u) ==
    IF u.loading THEN [u EXCEPT !.dropped = TRUE]
    ELSE [u EXCEPT !.loading = TRUE, !.net = @ \cup {Request(u, "list", {})}]

LoadStats(u) == [u EXCEPT !.net = @ \cup {Request(u, "stats", {})}]

Smallest(a, b) == IF a < b THEN a ELSE b
Answer(u, r) ==
    LET hits == Sorted(Only(u.db, r.form), r.sort) IN
    SubSeq(hits, (r.page - 1) * PageSize + 1, Smallest(Len(hits), r.page * PageSize))

(* The answer is computed on the server at some moment before it is read;  *)
(* `stale` marks one that a delete has overtaken since.                    *)
Shown(u, r, stale) ==
    LET all  == IF stale THEN Trips ELSE u.db
        data == Answer([u EXCEPT !.db = all], r)
        v == [u EXCEPT !.rows = data, !.filtered = data, !.inactive = u.off,
                       !.total = Len(Only(all, r.form)),
                       !.rowsOf = [page |-> r.page, form |-> r.form, sort |-> r.sort],
                       !.empty = data = <<>>, !.loading = FALSE, !.net = @ \ {r},
                       !.dropped = @ /\ [page |-> u.page, form |-> u.form, sort |-> u.sort]
                                        # [page |-> r.page, form |-> r.form, sort |-> r.sort],
                       !.crossed = @ \/ stale \/ \E d \in u.net : d.op \in {"delete", "bulk"}] IN
    IF data = <<>> THEN v
    ELSE IF v.query # AllTrips THEN Searched(v)
    ELSE Rendered(v, data)

ListArrives(r) ==
    /\ r.op = "list"
    /\ ui' = Shown(ui, r, FALSE)

ListArrivesOld(r) ==
    /\ r.op = "list"
    /\ ui.db # Trips
    /\ ui' = Shown(ui, r, TRUE)

(* The old rows stay in memory behind the empty state.                     *)
ListFails(r) ==
    /\ r.op = "list"
    /\ ui' = [ui EXCEPT !.empty = TRUE, !.loading = FALSE, !.net = @ \ {r}]

StatsArrive(r) ==
    /\ r.op = "stats"
    /\ ui' = [ui EXCEPT !.stats = r.form, !.net = @ \ {r}]

(* initializePage waits for the vehicle filter before anything is bound.   *)
VehiclesArrive(r) ==
    /\ r.op = "vehicles"
    /\ ui' = LoadStats(Load([ui EXCEPT !.net = @ \ {r}]))

-----------------------------------------------------------------------------
(* Pages, sort, search and filters.                                        *)
Pages(u) == 1..((u.total + PageSize - 1) \div PageSize)

GotoPage(p) ==
    /\ User
    /\ p \in Pages(ui) /\ ~ui.empty
    /\ ui' = Acted(Load([ui EXCEPT !.page = p]))

PrevOrNext(d) ==
    /\ User
    /\ ui.page + d \in Pages(ui) /\ ~ui.empty
    /\ ui' = Acted(Load([ui EXCEPT !.page = @ + d]))

ChangeSort(s) ==
    /\ User
    /\ ui' = Acted(Load([ui EXCEPT !.sort = s, !.page = 1]))

(* A click on the head of the column already sorted turns it round.        *)
HeaderSort ==
    /\ User
    /\ ui.view = "list"
    /\ ui' = Acted(Load([ui EXCEPT !.sort = IF ui.rowsOf.sort = "date_desc" THEN "date_asc"
                                                                            ELSE "date_desc",
                                   !.page = 1]))

TypeQuery(q) ==
    /\ User
    /\ ui' = Acted([ui EXCEPT !.query = q, !.typing = TRUE])

SearchTimer ==
    /\ ui.typing
    /\ ui' = Searched(ui)

ClearQuery ==
    /\ User
    /\ ui' = Acted([Searched([ui EXCEPT !.query = AllTrips]) EXCEPT !.typing = ui.typing])

(* The form is read when a request is sent, not when a field changes.      *)
TypeFilter(f) ==
    /\ User
    /\ ui' = Acted([ui EXCEPT !.form = f])

(* The vehicle and the shared dates go through the store, whose event      *)
(* reloads the page that is open, not the first one.                       *)
FiltersApplied(u) == LoadStats(Load(u))

ChangeVehicle(f) ==
    /\ User
    /\ f # ui.form
    /\ ui' = Acted(FiltersApplied([ui EXCEPT !.form = f]))

ApplyFilters ==
    /\ User
    /\ ui' = Acted(LoadStats(Load([ui EXCEPT !.page = 1])))

(* Reset tells the store first, so its own reload of page 1 is dropped.    *)
ResetFilters ==
    /\ User
    /\ ui' = Acted(LoadStats(Load([FiltersApplied([ui EXCEPT !.form = AllTrips]) EXCEPT !.page = 1])))

(* A chip's cross clears its field and reloads, on the page that is open.  *)
RemoveChip ==
    /\ User
    /\ ui.form # AllTrips
    /\ ui' = Acted(Load(FiltersApplied([ui EXCEPT !.form = AllTrips])))

-----------------------------------------------------------------------------
(* Selection and changes.                                                  *)
Select(t) ==
    /\ User
    /\ t \in Visible(ui)
    /\ ui' = Acted([ui EXCEPT !.selected = IF t \in @ THEN @ \ {t} ELSE @ \cup {t}])

SelectAll ==
    /\ User
    /\ LET vis == Visible(ui) IN
       ui' = Acted([ui EXCEPT !.selected = IF vis # {} /\ vis \subseteq @ THEN @ \ vis ELSE @ \cup vis])

ClearSelection ==
    /\ User
    /\ ui.selected # {}
    /\ ui' = Acted([ui EXCEPT !.selected = {}])

Ask(op, t) ==
    /\ User
    /\ t \in Visible(ui)
    /\ op = "rematch" => t \notin ui.inactive
    /\ ui' = Acted([ui EXCEPT !.asked = [op |-> op, ids |-> {t}]])

AskBulk ==
    /\ User
    /\ ui.selected # {}
    /\ ui' = Acted([ui EXCEPT !.asked = [op |-> "bulk", ids |-> ui.selected]])

Decline ==
    /\ ui.asked # NoAsk
    /\ ui' = [ui EXCEPT !.asked = NoAsk]

(* optimisticAction: the rows go first, the request follows.               *)
Removed(u, ids) ==
    Rendered([u EXCEPT !.rows = Only(@, AllTrips \ ids), !.filtered = Only(@, AllTrips \ ids),
                       !.selected = @ \ ids],
             Only(u.filtered, AllTrips \ ids))

Confirm ==
    /\ ui.asked # NoAsk
    /\ LET ids == IF ui.asked.op = "bulk" THEN ui.selected ELSE ui.asked.ids
           r   == Request(ui, ui.asked.op, ids)
           u   == [ui EXCEPT !.asked = NoAsk, !.net = @ \cup {r}] IN
       ui' = IF ui.asked.op \in {"delete", "bulk"} THEN Removed(u, ids) ELSE u

ServerDeletes(u, r) == [u EXCEPT !.db = Only(@, AllTrips \ r.ids), !.net = @ \ {r}]

(* deleteTrip reloads nothing but the numbers when it succeeds ...         *)
DeleteDone(r) ==
    /\ r.op = "delete"
    /\ ui' = LoadStats(ServerDeletes(ui, r))

(* ... bulkDeleteTrips reloads the list as well.                           *)
BulkDone(r) ==
    /\ r.op = "bulk"
    /\ ui' = LoadStats(Load(ServerDeletes(ui, r)))

(* rollback: whatever the list now says.                                   *)
DeleteFails(r) ==
    /\ r.op \in {"delete", "bulk"}
    /\ ui' = Load([ui EXCEPT !.net = @ \ {r}])

(* rematchTrip: the list is read again three seconds after the job was     *)
(* queued; `reload` is that timer.                                         *)
RematchQueued(r) ==
    /\ r.op = "rematch"
    /\ ui' = [ui EXCEPT !.net = (@ \ {r}) \cup {[r EXCEPT !.op = "reload"]}]

RematchTimer(r) ==
    /\ r.op = "reload"
    /\ ui' = Load([ui EXCEPT !.net = @ \ {r}])

(* mergeTripIntoState, then the rows are drawn again.                      *)
Merged(u, ids) ==
    LET flip(S) == (S \ ids) \cup (ids \ S) IN
    [u EXCEPT !.off = flip(u.off), !.inactive = (@ \ ids) \cup (flip(u.off) \cap ids)]

InactiveDone(r) ==
    /\ r.op = "inactive"
    /\ LET u == Merged([ui EXCEPT !.net = @ \ {r}], r.ids) IN
       ui' = LoadStats(Rendered(u, u.filtered))

RequestFails(r) ==
    /\ r.op \in {"stats", "rematch", "inactive"}
    /\ ui' = [ui EXCEPT !.net = @ \ {r}]

Start ==
    [ db |-> Trips, off |-> {}, page |-> 1, sort |-> "date_desc", form |-> AllTrips,
      rowsOf |-> [page |-> 0, form |-> AllTrips, sort |-> "date_desc"],
      rows |-> <<>>, filtered |-> <<>>, inactive |-> {}, total |-> 0, screen |-> <<>>,
      empty |-> FALSE, query |-> AllTrips, typing |-> FALSE, selected |-> {}, loading |-> FALSE,
      view |-> "cards", order |-> Columns, hidden |-> {}, asked |-> NoAsk, stats |-> {},
      net |-> {[op |-> "vehicles", page |-> 1, form |-> AllTrips, sort |-> "date_desc", ids |-> {}]},
      dropped |-> FALSE, crossed |-> FALSE, steps |-> 0 ]

Init == ui = Start

UserNext ==
    \/ \E v \in {"cards", "list"} : SetView(v)
    \/ \E c, d \in ToSet(Columns) : ReorderColumn(c, d)
    \/ \E c \in ToSet(Columns) : ToggleColumn(c)
    \/ \E p \in 1..Len(Trips) : GotoPage(p)
    \/ PrevOrNext(1) \/ (ui.page > 1 /\ PrevOrNext(-1))
    \/ \E s \in Sorts : ChangeSort(s)
    \/ \E q \in Looks : TypeQuery(q) \/ TypeFilter(q) \/ ChangeVehicle(q)
    \/ \E t \in AllTrips : Select(t) \/ \E op \in {"delete", "rematch", "inactive"} : Ask(op, t)
    \/ ResetColumns \/ HeaderSort \/ ClearQuery \/ ApplyFilters \/ ResetFilters \/ RemoveChip
    \/ SelectAll \/ ClearSelection \/ AskBulk \/ Decline \/ Confirm

Settle ==
    \/ SearchTimer
    \/ \E r \in ui.net :
        \/ ListArrives(r) \/ ListArrivesOld(r) \/ ListFails(r) \/ StatsArrive(r) \/ VehiclesArrive(r)
        \/ DeleteDone(r) \/ BulkDone(r) \/ DeleteFails(r) \/ RequestFails(r)
        \/ RematchQueued(r) \/ RematchTimer(r) \/ InactiveDone(r)

Next == UserNext \/ Settle

Spec == Init /\ [][Next]_ui

-----------------------------------------------------------------------------
(* Between the search box, the debounce, late lists, optimistic deletes    *)
(* and view changes, what is drawn is always the loaded rows that match    *)
(* the text in the box.                                                    *)
ScreenIsSearchedRows ==
    ~ui.typing /\ ~ui.empty => ToSet(ui.screen) = ToSet(ui.rows) \cap ui.query

(* With nothing in flight the rows are of the page, sort and filter the    *)
(* last request asked for, unless loadTrips dropped a call while busy.     *)
RowsAnswerLastRequest ==
    ~ui.loading /\ ~ui.empty /\ ui.rowsOf.page # 0 /\ ~ui.dropped
        => ui.rowsOf.page = ui.page /\ ui.rowsOf.sort = ui.sort

(* A bulk delete cannot name a trip that is already gone, unless a list    *)
(* crossed a delete: the answer brings the row removed optimistically back *)
(* on the screen and deleteTrip reloads nothing.                           *)
SelectionExists ==
    ui.crossed \/ ui.selected \subseteq ToSet(ui.db)
=============================================================================
