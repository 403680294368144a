-------------------------- MODULE CoverageJournal --------------------------
(***************************************************************************)
(* The Field Journal of a coverage area (features/coverage-journal): its   *)
(* figures, streets and contributions, loaded one after the other for a    *)
(* range of time, and the one map that its sections take turns to colour.  *)
(***************************************************************************)
EXTENDS Naturals, Sequences, FiniteSets

CONSTANTS
    Ranges, Sources, NoRange,
    Points,       \* days of the pace chart
    MaxSteps

VARIABLE ui

Days == 0..Points
MapModes == {"none", "progress", "frequency", "frontier", "selection"}

TypeOK ==
    ui \in [ range  : Ranges, source : Sources, level : {"street", "segment"},
             meta   : Ranges \cup {NoRange}, geo : Ranges \cup {NoRange},
             list   : Seq([r : Ranges, s : Sources, page : Nat]), more : Nat,    \* contributions, nextCursor
             page   : {"loading", "ready", "error"}, asOf : Days, chapter : Days,
             url    : Ranges \X Days,
             mode   : MapModes, pinned : BOOLEAN, picked : BOOLEAN, cut : Days, milestone : BOOLEAN,
             map    : {"none", "loading", "ready"}, scrub : BOOLEAN, from : Days,
             goal   : Nat, outlook : Nat,
             net    : SUBSET [op : {"meta", "segments", "list", "source", "append", "goal", "outlook"},
                              n : Nat, r : Ranges, s : Sources, page : Nat],
             mixed  : BOOLEAN, steps : 0..MaxSteps ]

User == ui.steps < MaxSteps /\ ui.page = "ready"
Acted(u) == [u EXCEPT !.steps = @ + 1]
Got(u, r) == [u EXCEPT !.net = @ \ {r}]

(* Each request takes the range and the source of the moment it is sent.   *)
Sent(u, op, n, p) ==
    [u EXCEPT !.net = @ \cup {[op |-> op, n |-> n, r |-> u.range, s |-> u.source, page |-> p]},
              !.mixed = @ \/ u.net # {}]

SyncUrl(u) == [u EXCEPT !.url = <<u.range, u.asOf>>]

-----------------------------------------------------------------------------
(* The map: sections colour it in turn; a choice of streets pins it.       *)
SetProgressMap(u, d, ms) ==
    IF u.geo = NoRange THEN u
    ELSE [u EXCEPT !.mode = "progress", !.picked = FALSE, !.cut = d, !.milestone = ms]

SetFrequencyMap(u) ==
    IF u.geo = NoRange THEN u ELSE [u EXCEPT !.mode = "frequency", !.pinned = FALSE, !.picked = FALSE]

SetFrontierMap(u, some) ==
    IF u.geo = NoRange THEN u ELSE [u EXCEPT !.mode = "frontier", !.pinned = some, !.picked = some]

HighlightSegments(u) ==
    IF u.geo = NoRange THEN u ELSE [u EXCEPT !.mode = "selection", !.pinned = TRUE, !.picked = TRUE]

SelectMilestone(u, d) == SetProgressMap([u EXCEPT !.chapter = d, !.pinned = FALSE], d, TRUE)

(* The cursor of the pace chart; the date is the page's even while the map *)
(* waits for the end of a drag.                                            *)
UpdateTimelineCursor(u, d, map) ==
    LET w == [u EXCEPT !.asOf = d] IN
    IF map THEN SetProgressMap([w EXCEPT !.pinned = FALSE], d, FALSE) ELSE w

-----------------------------------------------------------------------------
(* reloadRange: figures, then streets, then contributions, then all of it  *)
(* is drawn. Two reloads may be under way, each step with the range then.  *)
ChooseRange(x) ==
    /\ User /\ x # ui.range
    /\ LET u == [ui EXCEPT !.range = x, !.asOf = 0] IN
       ui' = Acted(Sent(u, "meta", ui.steps + 1, 0))

MetaArrives(r) ==
    /\ r.op = "meta"
    /\ ui' = Sent([Got(ui, r) EXCEPT !.meta = r.r], "segments", r.n, 0)

SegmentsArrive(r) ==
    /\ r.op = "segments"
    /\ ui' = Sent([Got(ui, r) EXCEPT !.geo = r.r, !.list = << >>, !.more = 0], "list", r.n, 1)

Page(r) == [r |-> r.r, s |-> r.s, page |-> r.page]
Listed(u, r) == [u EXCEPT !.list = <<Page(r)>>, !.more = r.page + 1]

(* The first load goes on to make the map, later ones colour it.           *)
ListArrives(r) ==
    /\ r.op = "list"
    /\ LET u == Listed([Got(ui, r) EXCEPT !.page = "ready"], r) IN
       ui' = IF r.n = 0 THEN [u EXCEPT !.map = "loading"] ELSE SyncUrl(SetFrequencyMap(u))

MapLoads ==
    /\ ui.map = "loading"
    /\ ui' = SyncUrl(SelectMilestone([ui EXCEPT !.map = "ready"], IF ui.chapter = 0 THEN Points ELSE ui.chapter))

LoadFails(r) ==
    /\ r.op \in {"meta", "segments", "list"}
    /\ ui' = [Got(ui, r) EXCEPT !.page = "error"]

-----------------------------------------------------------------------------
(* Contributions of another source, and more of them.                      *)
ChooseSource(x) ==
    /\ User
    /\ ui' = Acted(Sent([ui EXCEPT !.source = x], "source", ui.steps + 1, 1))

SourceArrives(r) ==
    /\ r.op = "source"
    /\ ui' = SyncUrl(Listed(Got(ui, r), r))

LoadMore ==
    /\ User /\ ui.more # 0
    /\ ui' = Acted(Sent(ui, "append", ui.steps + 1, ui.more))

AppendArrives(r) ==
    /\ r.op = "append"
    /\ ui' = [Got(ui, r) EXCEPT !.list = Append(@, Page(r)), !.more = r.page + 1]

ChooseLevel(l) ==
    /\ User /\ l # ui.level
    /\ ui' = Acted(SyncUrl(SetFrequencyMap([ui EXCEPT !.level = l])))

(* A street of a milestone, a ranking or the frontier is shown on the map. *)
ShowStreet ==
    /\ User
    /\ ui' = Acted(HighlightSegments(ui))

ShowFrontierStreet ==
    /\ User
    /\ ui' = Acted(SetFrontierMap(ui, TRUE))

ChooseMilestone(d) ==
    /\ User /\ d # 0
    /\ ui' = Acted(SyncUrl(SelectMilestone(ui, d)))

(* Scrolling a section into view takes the map, unless a choice pins it.   *)
ScrollTo(section) ==
    /\ User /\ ~ui.pinned
    /\ ui' = Acted(CASE section = "known" -> SetFrequencyMap(ui)
                     [] section = "frontier" -> SetFrontierMap(ui, FALSE)
                     [] OTHER -> UpdateTimelineCursor([ui EXCEPT !.mixed = @ \/ ui.scrub], IF ui.asOf = 0 THEN Points ELSE ui.asOf, TRUE))

MoveCursor(d) ==
    /\ User /\ d # 0 /\ ~ui.scrub
    /\ ui' = Acted(SyncUrl(UpdateTimelineCursor(ui, d, TRUE)))

(* Dragging on the chart: the date follows, map and URL wait for the end;  *)
(* a cancelled drag goes back to where it began.                           *)
ScrubStart(d) ==
    /\ User /\ d # 0 /\ ~ui.scrub
    /\ ui' = Acted(UpdateTimelineCursor([ui EXCEPT !.scrub = TRUE, !.from = IF ui.asOf = 0 THEN Points ELSE ui.asOf],
                                        d, FALSE))

ScrubEnd(d) ==
    /\ User /\ d # 0 /\ ui.scrub
    /\ ui' = Acted(SyncUrl(UpdateTimelineCursor([ui EXCEPT !.scrub = FALSE], d, TRUE)))

ScrubCancel ==
    /\ ui.scrub
    /\ ui' = UpdateTimelineCursor([ui EXCEPT !.scrub = FALSE], ui.from, FALSE)

(* The goal is saved and the outlook loaded again.                         *)
SaveGoal ==
    /\ User
    /\ ui' = Acted(Sent(ui, "goal", ui.steps + 1, 0))

GoalArrives(r) ==
    /\ r.op = "goal"
    /\ ui' = Sent([Got(ui, r) EXCEPT !.goal = r.n], "outlook", r.n, 0)

OutlookArrives(r) ==
    /\ r.op = "outlook"
    /\ ui' = [Got(ui, r) EXCEPT !.outlook = ui.goal]

MinorFails(r) ==
    /\ r.op \in {"source", "append", "goal", "outlook"}
    /\ ui' = Got(ui, r)

Start ==
    [ range |-> CHOOSE x \in Ranges : TRUE, source |-> CHOOSE x \in Sources : TRUE, level |-> "street",
      meta |-> NoRange, geo |-> NoRange, list |-> << >>, more |-> 0, page |-> "loading", asOf |-> 0,
      chapter |-> 0, url |-> <<CHOOSE x \in Ranges : TRUE, 0>>, mode |-> "none", pinned |-> FALSE,
      picked |-> FALSE, cut |-> 0, milestone |-> FALSE, map |-> "none", scrub |-> FALSE, from |-> 0,
      goal |-> 0, outlook |-> 0, net |-> {}, mixed |-> FALSE, steps |-> 0 ]

Init == ui = Sent(Start, "meta", 0, 0)

Next ==
    \/ MapLoads \/ LoadMore \/ ShowStreet \/ ShowFrontierStreet \/ ScrubCancel \/ SaveGoal
    \/ \E x \in Ranges : ChooseRange(x)
    \/ \E x \in Sources : ChooseSource(x)
    \/ \E l \in {"street", "segment"} : ChooseLevel(l)
    \/ \E s \in {"known", "frontier", "pace"} : ScrollTo(s)
    \/ \E d \in Days : ChooseMilestone(d) \/ MoveCursor(d) \/ ScrubStart(d) \/ ScrubEnd(d)
    \/ \E r \in ui.net :
        \/ MetaArrives(r) \/ SegmentsArrive(r) \/ ListArrives(r) \/ LoadFails(r) \/ SourceArrives(r)
        \/ AppendArrives(r) \/ GoalArrives(r) \/ OutlookArrives(r) \/ MinorFails(r)

Spec == Init /\ [][Next]_ui

-----------------------------------------------------------------------------
(* At rest the journal is of one range and one source: figures, streets    *)
(* and every page of contributions, no page twice; unless two loads ran at *)
(* the same time or a load failed.                                         *)
JournalOfOneRange ==
    ui.net = {} /\ ~ui.mixed /\ ui.page = "ready" =>
        /\ ui.meta = ui.range /\ ui.geo = ui.range
        /\ \A i \in DOMAIN ui.list : ui.list[i].r = ui.range /\ ui.list[i].page = i

(* The map is pinned exactly while it shows streets somebody chose: then   *)
(* no section may take it over.                                            *)
PinnedWhileChosen ==
    /\ ui.pinned => ui.mode \in {"frontier", "selection"}
    /\ ui.pinned = ui.picked

(* What the map shows as of a day is the day the page names, whatever was  *)
(* dragged and cancelled in between.                                       *)
MapAsOf ==
    ui.mode = "progress" /\ ~ui.milestone /\ ~ui.scrub /\ ~ui.mixed /\ ui.net = {} /\ ui.page = "ready" => ui.cut = ui.asOf
=============================================================================
