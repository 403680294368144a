------------------------ MODULE BrowserAnswersProofs ------------------------
(***************************************************************************)
(* Whatever the order in which the answers come back: what a page of the   *)
(* map pages shows is the answer to its last question, for every set of    *)
(* areas, street modes, dates, ranges, segments and trips and every bound, *)
(* where the run web_map checks one instance. One section and one          *)
(* inductive invariant for each page, laid out as in BrowserProofs, of     *)
(* which the main map needs DataSound.                                     *)
(***************************************************************************)
EXTENDS BrowserProofs

-----------------------------------------------------------------------------
(* The field journal: of which range and source it tells, and as of when.  *)

StoryFields == {"range", "source", "meta", "geo", "list", "more", "page", "net", "mixed"}
StoryPage == [r : Ranges, s : Feeds, page : Nat]
Reloads == {"meta", "segments", "list"}

StoryTyped(u) ==
    /\ StoryFields \subseteq DOMAIN u
    /\ u.range \in Ranges /\ u.source \in Feeds /\ u.mixed \in BOOLEAN
    /\ u.list \in Seq(StoryPage) /\ u.more \in Nat
    /\ \A q \in u.net : {"op", "n", "r", "s", "page"} \subseteq DOMAIN q /\ q.r \in Ranges /\ q.s \in Feeds /\ q.page \in Nat

Whole(u) ==
    /\ u.meta = u.range /\ u.geo = u.range /\ u.more = Len(u.list) + 1
    /\ \A i \in DOMAIN u.list : u.list[i].r = u.range /\ u.list[i].page = i

(* What a request that runs alone was asked for, and finds when it ends.   *)
Expected(u, q) ==
    /\ q.r = u.range
    /\ q.op # "meta" => u.meta = u.range
    /\ q.op = "list" => u.geo = u.range
    /\ q.op \in {"list", "source"} => q.page = 1
    /\ q.op = "append" => q.page = u.more
    /\ q.op \notin Reloads => Whole(u)

(* As long as no two loads mix, one is on its way and finds what it needs; *)
(* with none, the journal is whole.                                        *)
StorySound(u) ==
    /\ StoryTyped(u)
    /\ ~u.mixed => /\ \A p, q \in u.net : p = q
                   /\ \A q \in u.net : Expected(u, q)
                   /\ u.net = {} /\ u.page = "ready" => Whole(u)

LEMMA StoryElsewhere ==
    ASSUME NEW u, StorySound(u), NEW w, StoryFields \subseteq DOMAIN w,
           \A f \in StoryFields \ {"mixed"} : w[f] = u[f], w.mixed \in BOOLEAN, u.mixed => w.mixed
    PROVE  StorySound(w)
<1>1. /\ w.range = u.range /\ w.source = u.source /\ w.meta = u.meta /\ w.geo = u.geo /\ w.list = u.list
      /\ w.more = u.more /\ w.page = u.page /\ w.net = u.net
  BY DEF StoryFields
<1> QED BY <1>1 DEF StorySound, StoryTyped, Whole, Expected

(* The map's helpers leave the story alone.                                *)
LEMMA StoryBeside ==
    ASSUME NEW u, StorySound(u), NEW x, NEW b
    PROVE  /\ StorySound(Journal!Acted(u)) /\ StorySound(Journal!SyncUrl(u))
           /\ StorySound(Journal!SetFrequencyMap(u)) /\ StorySound(Journal!SetFrontierMap(u, b))
           /\ StorySound(Journal!HighlightSegments(u)) /\ StorySound(Journal!SelectMilestone(u, x))
           /\ StorySound(Journal!UpdateTimelineCursor(u, x, b))
<1>1. ASSUME NEW v, StorySound(v), NEW w, DOMAIN w = DOMAIN v, \A f \in StoryFields : w[f] = v[f]
      PROVE  StorySound(w)
  BY <1>1, StoryElsewhere DEF StorySound, StoryTyped, StoryFields
<1>2. StorySound(Journal!Acted(u)) /\ StorySound(Journal!SyncUrl(u))
  <2> DEFINE v == Journal!Acted(u)
             w == Journal!SyncUrl(u)
  <2>1. DOMAIN v = DOMAIN u /\ DOMAIN w = DOMAIN u /\ \A f \in StoryFields : v[f] = u[f] /\ w[f] = u[f]
    BY DEF Journal!Acted, Journal!SyncUrl, StoryFields
  <2> HIDE DEF v, w
  <2>2. StorySound(v) /\ StorySound(w)
    BY <1>1, <2>1
  <2> QED BY <2>2 DEF v, w
<1>3. StorySound(Journal!SetFrequencyMap(u)) /\ StorySound(Journal!SetFrontierMap(u, b)) /\ StorySound(Journal!HighlightSegments(u))
  <2> DEFINE v == Journal!SetFrequencyMap(u)
             w == Journal!SetFrontierMap(u, b)
             z == Journal!HighlightSegments(u)
  <2>1. /\ DOMAIN v = DOMAIN u /\ \A f \in StoryFields : v[f] = u[f]
        /\ DOMAIN w = DOMAIN u /\ \A f \in StoryFields : w[f] = u[f]
        /\ DOMAIN z = DOMAIN u /\ \A f \in StoryFields : z[f] = u[f]
    BY DEF Journal!SetFrequencyMap, Journal!SetFrontierMap, Journal!HighlightSegments, StoryFields
  <2> HIDE DEF v, w, z
  <2>2. StorySound(v) /\ StorySound(w) /\ StorySound(z)
    BY <1>1, <2>1
  <2> QED BY <2>2 DEF v, w, z
<1>4. ASSUME NEW v, StorySound(v), NEW y, NEW z PROVE StorySound(Journal!SetProgressMap(v, y, z))
  <2> DEFINE w == Journal!SetProgressMap(v, y, z)
  <2>1. DOMAIN w = DOMAIN v /\ \A f \in StoryFields : w[f] = v[f]
    BY DEF Journal!SetProgressMap, StoryFields
  <2> HIDE DEF w
  <2>2. StorySound(w)
    BY <1>1, <1>4, <2>1
  <2> QED BY <2>2 DEF w
<1>5. /\ StorySound([u EXCEPT !.chapter = x, !.pinned = FALSE]) /\ StorySound([u EXCEPT !.asOf = x])
      /\ StorySound([[u EXCEPT !.asOf = x] EXCEPT !.pinned = FALSE])
  <2> DEFINE v == [u EXCEPT !.chapter = x, !.pinned = FALSE]
             w == [u EXCEPT !.asOf = x]
             z == [w EXCEPT !.pinned = FALSE]
  <2>1. /\ DOMAIN v = DOMAIN u /\ \A f \in StoryFields : v[f] = u[f]
        /\ DOMAIN w = DOMAIN u /\ \A f \in StoryFields : w[f] = u[f]
        /\ DOMAIN z = DOMAIN u /\ \A f \in StoryFields : z[f] = u[f]
    BY DEF StoryFields
  <2> HIDE DEF v, w, z
  <2>2. StorySound(v) /\ StorySound(w) /\ StorySound(z)
    BY <1>1, <2>1
  <2> QED BY <2>2 DEF v, w, z
<1>6. StorySound(Journal!SelectMilestone(u, x))
  BY <1>4, <1>5 DEF Journal!SelectMilestone
<1>7. StorySound(Journal!UpdateTimelineCursor(u, x, b))
  BY <1>4, <1>5 DEF Journal!UpdateTimelineCursor
<1> QED BY <1>2, <1>3, <1>6, <1>7

(* Asking: alone, for what is expected; or beside another, which mixes.    *)
LEMMA StorySent ==
    ASSUME NEW u, StoryTyped(u), NEW op, NEW n, NEW p \in Nat,
           ~u.mixed /\ u.net = {} =>
               /\ op # "meta" => u.meta = u.range
               /\ op = "list" => u.geo = u.range
               /\ op \in {"list", "source"} => p = 1
               /\ op = "append" => p = u.more
               /\ op \notin Reloads => Whole(u)
    PROVE  StorySound(Journal!Sent(u, op, n, p))
<1> DEFINE q == [op |-> op, n |-> n, r |-> u.range, s |-> u.source, page |-> p]
           w == Journal!Sent(u, op, n, p)
<1>1. /\ w = [u EXCEPT !.net = @ \cup {q}, !.mixed = @ \/ u.net # {}]
      /\ {"op", "n", "r", "s", "page"} \subseteq DOMAIN q
      /\ q.op = op /\ q.r = u.range /\ q.s = u.source /\ q.page = p
  BY DEF Journal!Sent
<1> HIDE DEF q, w
<1>2. /\ w.net = u.net \cup {q} /\ w.mixed = (u.mixed \/ u.net # {}) /\ DOMAIN w = DOMAIN u
      /\ \A f \in StoryFields \ {"net", "mixed"} : w[f] = u[f]
  BY <1>1 DEF StoryTyped, StoryFields
<1>3. /\ w.range = u.range /\ w.source = u.source /\ w.meta = u.meta /\ w.geo = u.geo /\ w.list = u.list
      /\ w.more = u.more /\ w.page = u.page
  BY <1>2 DEF StoryFields
<1>4. StoryTyped(w)
  BY <1>1, <1>2, <1>3 DEF StoryTyped
<1>5. ASSUME u.mixed \/ u.net # {} PROVE StorySound(w)
  BY <1>2, <1>4, <1>5 DEF StorySound
<1>6. ASSUME ~u.mixed /\ u.net = {} PROVE StorySound(w)
  <2>1. Expected(w, q)
    BY <1>1, <1>3, <1>6 DEF Expected, Whole
  <2> QED BY <1>2, <1>4, <1>6, <2>1 DEF StorySound
<1>7. StorySound(w)
  BY <1>5, <1>6
<1> QED BY <1>7 DEF w

(* A reader asks on a page that is ready.                                  *)
LEMMA StoryAsked ==
    ASSUME StorySound(ui), Journal!User, NEW x, NEW op \in {"goal", "append"}, NEW n
    PROVE  StorySound(Journal!Sent(ui, op, n, ui.more))
<1>1. ~ui.mixed /\ ui.net = {} => Whole(ui)
  BY DEF StorySound, Journal!User
<1>2. StoryTyped(ui) /\ ui.more \in Nat
  BY DEF StorySound, StoryTyped
<1> QED BY <1>1, <1>2, StorySent DEF Whole, Reloads

(* An answer of a load that ran alone brings what the next step expects.   *)
LEMMA StoryAnswers ==
    ASSUME StorySound(ui), NEW r \in ui.net,
           \/ Journal!MetaArrives(r) \/ Journal!SegmentsArrive(r) \/ Journal!ListArrives(r)
           \/ Journal!LoadFails(r) \/ Journal!SourceArrives(r) \/ Journal!AppendArrives(r)
           \/ Journal!GoalArrives(r) \/ Journal!OutlookArrives(r) \/ Journal!MinorFails(r)
    PROVE  StorySound(ui')
<1> DEFINE g == Journal!Got(ui, r)
<1>1. /\ DOMAIN g = DOMAIN ui /\ g.net = ui.net \ {r} /\ \A f \in StoryFields \ {"net"} : g[f] = ui[f]
      /\ g = [ui EXCEPT !.net = @ \ {r}]
  BY DEF Journal!Got, StorySound, StoryTyped, StoryFields
<1>2. /\ StoryFields \subseteq DOMAIN g /\ StoryTyped(g)
      /\ g.range = ui.range /\ g.meta = ui.meta /\ g.geo = ui.geo /\ g.list = ui.list /\ g.more = ui.more
      /\ g.mixed = ui.mixed /\ g.page = ui.page
  BY <1>1 DEF StorySound, StoryTyped, StoryFields
<1>3. /\ {"op", "n", "r", "s", "page"} \subseteq DOMAIN r /\ r.r \in Ranges /\ r.s \in Feeds /\ r.page \in Nat
      /\ ~ui.mixed => g.net = {} /\ Expected(ui, r)
  BY <1>1 DEF StorySound, StoryTyped
<1> HIDE DEF g
<1>4. CASE Journal!MetaArrives(r)
  <2> DEFINE v == [g EXCEPT !.meta = r.r]
  <2>1. ui' = Journal!Sent(v, "segments", r.n, 0)
    BY <1>4 DEF Journal!MetaArrives, g
  <2>2. StoryTyped(v) /\ (~v.mixed => v.meta = v.range)
    BY <1>2, <1>3 DEF StoryTyped, StoryFields, Expected
  <2> HIDE DEF v
  <2> QED BY <2>1, <2>2, StorySent DEF Reloads
<1>5. CASE Journal!SegmentsArrive(r)
  <2> DEFINE v == [g EXCEPT !.geo = r.r, !.list = << >>, !.more = 0]
  <2>1. ui' = Journal!Sent(v, "list", r.n, 1)
    BY <1>5 DEF Journal!SegmentsArrive, g
  <2>2. StoryTyped(v) /\ (~v.mixed => v.meta = v.range /\ v.geo = v.range)
    BY <1>2, <1>3, <1>5 DEF StoryTyped, StoryFields, Expected, Journal!SegmentsArrive
  <2> HIDE DEF v
  <2> QED BY <2>1, <2>2, StorySent DEF Reloads
<1>6. ASSUME NEW v, v = [g EXCEPT !.page = "ready"] \/ v = g, r.op \in {"list", "source"}
      PROVE  StorySound(Journal!Listed(v, r))
  <2> DEFINE w == Journal!Listed(v, r)
             x == Journal!Page(r)
  <2>1. /\ x \in StoryPage /\ x.r = r.r /\ x.page = r.page
        /\ w = [v EXCEPT !.list = <<x>>, !.more = r.page + 1]
    BY <1>3 DEF Journal!Listed, Journal!Page, StoryPage
  <2> HIDE DEF w, x
  <2>2. /\ StoryTyped(v) /\ v.net = g.net /\ v.mixed = g.mixed /\ v.range = g.range /\ v.meta = g.meta /\ v.geo = g.geo
    BY <1>2, <1>6 DEF StoryTyped, StoryFields
  <2>3. /\ StoryFields \subseteq DOMAIN w /\ w.list = <<x>> /\ w.more = r.page + 1 /\ w.range = v.range /\ w.source = v.source
        /\ w.meta = v.meta /\ w.geo = v.geo /\ w.net = v.net /\ w.mixed = v.mixed
    BY <2>1, <2>2 DEF StoryTyped, StoryFields
  <2>4. StoryTyped(w)
    BY <1>3, <2>1, <2>2, <2>3 DEF StoryTyped
  <2>5. ASSUME ~w.mixed PROVE w.net = {} /\ Whole(w)
    BY <1>2, <1>3, <1>6, <2>1, <2>2, <2>3, <2>5 DEF Whole, Expected, Reloads
  <2>6. StorySound(w)
    BY <2>4, <2>5 DEF StorySound
  <2> QED BY <2>6 DEF w
<1>7. CASE Journal!ListArrives(r)
  <2> DEFINE v == Journal!Listed([g EXCEPT !.page = "ready"], r)
             w == [v EXCEPT !.map = "loading"]
  <2>1. /\ r.op = "list"
        /\ \/ ui' = w \/ ui' = Journal!SyncUrl(Journal!SetFrequencyMap(v))
    BY <1>7 DEF Journal!ListArrives, g
  <2>2. StorySound(v)
    BY <1>6, <2>1
  <2> HIDE DEF v
  <2>3. StoryFields \subseteq DOMAIN w /\ (\A f \in StoryFields : w[f] = v[f]) /\ v.mixed \in BOOLEAN /\ w.mixed = v.mixed
    BY <2>2 DEF StorySound, StoryTyped, StoryFields
  <2> HIDE DEF w
  <2>4. StorySound(w)
    BY <2>2, <2>3, StoryElsewhere
  <2> QED BY <2>1, <2>2, <2>4, StoryBeside
<1>8. CASE Journal!SourceArrives(r)
  <2>1. r.op = "source" /\ ui' = Journal!SyncUrl(Journal!Listed(g, r))
    BY <1>8 DEF Journal!SourceArrives, g
  <2> QED BY <1>6, <2>1, StoryBeside
<1>9. CASE Journal!LoadFails(r)
  BY <1>2, <1>3, <1>9 DEF Journal!LoadFails, g, StorySound, StoryTyped, StoryFields
<1>10. CASE Journal!AppendArrives(r)
  <2> DEFINE x == Journal!Page(r)
             w == [g EXCEPT !.list = Append(@, x), !.more = r.page + 1]
  <2>1. x \in StoryPage /\ x.r = r.r /\ x.page = r.page /\ r.op = "append" /\ ui' = w
    BY <1>3, <1>10 DEF Journal!Page, StoryPage, Journal!AppendArrives, g
  <2> HIDE DEF x
  <2>2. /\ StoryFields \subseteq DOMAIN w /\ w.list = Append(g.list, x) /\ w.more = r.page + 1 /\ w.range = g.range /\ w.source = g.source
        /\ w.meta = g.meta /\ w.geo = g.geo /\ w.net = g.net /\ w.mixed = g.mixed /\ g.list \in Seq(StoryPage)
    BY <1>2 DEF StoryTyped, StoryFields
  <2> HIDE DEF w
  <2>3. StoryTyped(w)
    BY <1>2, <1>3, <2>1, <2>2 DEF StoryTyped
  <2>4. ASSUME ~w.mixed PROVE w.net = {} /\ Whole(w)
    <3>1. Whole(g) /\ r.page = g.more /\ r.r = g.range /\ w.net = {}
      BY <1>2, <1>3, <2>1, <2>2, <2>4 DEF Expected, Reloads, Whole
    <3>2. \A i \in DOMAIN w.list : (i \in DOMAIN g.list /\ w.list[i] = g.list[i]) \/ (i = r.page /\ w.list[i] = x)
      BY <2>1, <2>2, <3>1 DEF Whole
    <3> QED BY <2>1, <2>2, <3>1, <3>2 DEF Whole
  <2>5. StorySound(w)
    BY <2>3, <2>4 DEF StorySound
  <2> QED BY <2>1, <2>5
<1>11. ASSUME r.op \notin Reloads, NEW w, DOMAIN w = DOMAIN g, \A f \in StoryFields : w[f] = g[f] PROVE StorySound(w)
  <2>1. ~g.mixed => Whole(g)
    BY <1>2, <1>3, <1>11 DEF Expected, Whole
  <2>2. StorySound(g) /\ g.mixed \in BOOLEAN
    BY <1>2, <1>3, <2>1 DEF StorySound, StoryTyped
  <2> QED BY <1>2, <1>11, <2>2, StoryElsewhere DEF StoryFields
<1>12. CASE Journal!GoalArrives(r)
  <2> DEFINE v == [g EXCEPT !.goal = r.n]
  <2>1. ui' = Journal!Sent(v, "outlook", r.n, 0)
    BY <1>12 DEF Journal!GoalArrives, g
  <2>2. r.op \notin Reloads /\ DOMAIN v = DOMAIN g /\ \A f \in StoryFields : v[f] = g[f]
    BY <1>2, <1>12 DEF Journal!GoalArrives, StoryFields, Reloads
  <2> HIDE DEF v
  <2>3. StorySound(v)
    BY <1>11, <2>2
  <2>4. v.meta = g.meta /\ v.range = g.range /\ v.geo = g.geo /\ v.list = g.list /\ v.more = g.more /\ v.mixed = g.mixed
    BY <2>2 DEF StoryFields
  <2>5. ~v.mixed => Whole(v)
    BY <1>2, <1>3, <2>2, <2>4 DEF Expected, Whole
  <2> QED BY <2>1, <2>3, <2>5, StorySent DEF StorySound, Whole
<1>13. CASE Journal!OutlookArrives(r)
  <2> DEFINE v == [g EXCEPT !.outlook = ui.goal]
  <2>1. ui' = v
    BY <1>13 DEF Journal!OutlookArrives, g
  <2>2. r.op \notin Reloads /\ DOMAIN v = DOMAIN g /\ \A f \in StoryFields : v[f] = g[f]
    BY <1>2, <1>13 DEF Journal!OutlookArrives, StoryFields, Reloads
  <2> HIDE DEF v
  <2> QED BY <1>11, <2>1, <2>2
<1>14. CASE Journal!MinorFails(r)
  BY <1>11, <1>14 DEF Journal!MinorFails, g, StoryFields, Reloads
<1> QED BY <1>4, <1>5, <1>7, <1>8, <1>9, <1>10, <1>12, <1>13, <1>14

(* A change of fields that are not of the story.                           *)
LEMMA StorySame ==
    ASSUME NEW v, StorySound(v), NEW w, DOMAIN w = DOMAIN v, \A f \in StoryFields : w[f] = v[f]
    PROVE  StorySound(w)
BY StoryElsewhere DEF StorySound, StoryTyped, StoryFields

(* What the reader does.                                                   *)
LEMMA StoryActs ==
    ASSUME StorySound(ui),
           \/ Journal!MapLoads \/ Journal!LoadMore \/ Journal!ShowStreet \/ Journal!ShowFrontierStreet
           \/ Journal!ScrubCancel \/ Journal!SaveGoal
           \/ \E x \in Ranges : Journal!ChooseRange(x)
           \/ \E x \in Feeds : Journal!ChooseSource(x)
           \/ \E l \in {"street", "segment"} : Journal!ChooseLevel(l)
           \/ \E s \in {"known", "frontier", "pace"} : Journal!ScrollTo(s)
           \/ \E d \in Journal!Days : Journal!ChooseMilestone(d) \/ Journal!MoveCursor(d)
                                      \/ Journal!ScrubStart(d) \/ Journal!ScrubEnd(d)
    PROVE  StorySound(ui')
<1>1. CASE Journal!MapLoads
  <2> DEFINE v == [ui EXCEPT !.map = "ready"]
  <2>1. DOMAIN v = DOMAIN ui /\ \A f \in StoryFields : v[f] = ui[f]
    BY DEF StoryFields
  <2>2. \E d : ui' = Journal!SyncUrl(Journal!SelectMilestone(v, d))
    BY <1>1 DEF Journal!MapLoads
  <2> HIDE DEF v
  <2>3. StorySound(v)
    BY <2>1, StorySame
  <2> QED BY <2>2, <2>3, StoryBeside
<1>2. CASE Journal!LoadMore \/ Journal!SaveGoal
  <2>1. Journal!User /\ ui.more \in Nat
    BY <1>2 DEF Journal!LoadMore, Journal!SaveGoal, StorySound, StoryTyped
  <2>2. CASE Journal!LoadMore
    BY <2>1, <2>2, StoryAsked, StoryBeside DEF Journal!LoadMore
  <2>3. CASE Journal!SaveGoal
    <3> DEFINE w == Journal!Sent(ui, "goal", ui.steps + 1, 0)
    <3>1. ui' = Journal!Acted(w)
      BY <2>3 DEF Journal!SaveGoal
    <3>2. StoryTyped(ui) /\ (~ui.mixed /\ ui.net = {} => Whole(ui))
      BY <2>1 DEF StorySound, Journal!User
    <3>3. StorySound(w)
      BY <3>2, StorySent DEF Whole, Reloads
    <3> HIDE DEF w
    <3> QED BY <3>1, <3>3, StoryBeside
  <2> QED BY <1>2, <2>2, <2>3
<1>3. CASE Journal!ShowStreet \/ Journal!ShowFrontierStreet
  BY <1>3, StoryBeside DEF Journal!ShowStreet, Journal!ShowFrontierStreet
<1>4. CASE Journal!ScrubCancel
  <2> DEFINE v == [ui EXCEPT !.scrub = FALSE]
  <2>1. /\ DOMAIN v = DOMAIN ui /\ \A f \in StoryFields : v[f] = ui[f]
        /\ ui' = Journal!UpdateTimelineCursor(v, ui.from, FALSE)
    BY <1>4 DEF Journal!ScrubCancel, StoryFields
  <2> HIDE DEF v
  <2>2. StorySound(v)
    BY <2>1, StorySame
  <2> QED BY <2>1, <2>2, StoryBeside
<1>5. ASSUME NEW x \in Ranges, Journal!ChooseRange(x) PROVE StorySound(ui')
  <2> DEFINE v == [ui EXCEPT !.range = x, !.asOf = 0]
             w == Journal!Sent(v, "meta", ui.steps + 1, 0)
  <2>1. ui' = Journal!Acted(w)
    BY <1>5 DEF Journal!ChooseRange
  <2>2. StoryTyped(v)
    BY DEF StorySound, StoryTyped, StoryFields
  <2> HIDE DEF v
  <2>3. StorySound(w)
    BY <2>2, StorySent DEF Reloads
  <2> HIDE DEF w
  <2> QED BY <2>1, <2>3, StoryBeside
<1>6. ASSUME NEW x \in Feeds, Journal!ChooseSource(x) PROVE StorySound(ui')
  <2> DEFINE v == [ui EXCEPT !.source = x]
             w == Journal!Sent(v, "source", ui.steps + 1, 1)
  <2>1. ui' = Journal!Acted(w)
    BY <1>6 DEF Journal!ChooseSource
  <2>2. StoryTyped(v) /\ v.net = ui.net /\ v.mixed = ui.mixed /\ (Whole(ui) => Whole(v))
    BY DEF StorySound, StoryTyped, StoryFields, Whole
  <2>3. ~v.mixed /\ v.net = {} => Whole(v)
    BY <1>6, <2>2 DEF StorySound, Journal!ChooseSource, Journal!User
  <2> HIDE DEF v
  <2>4. StorySound(w)
    BY <2>2, <2>3, StorySent DEF Whole, Reloads
  <2> HIDE DEF w
  <2> QED BY <2>1, <2>4, StoryBeside
<1>7. ASSUME NEW l, Journal!ChooseLevel(l) PROVE StorySound(ui')
  <2> DEFINE v == [ui EXCEPT !.level = l]
  <2>1. DOMAIN v = DOMAIN ui /\ \A f \in StoryFields : v[f] = ui[f]
    BY DEF StoryFields
  <2>2. ui' = Journal!Acted(Journal!SyncUrl(Journal!SetFrequencyMap(v)))
    BY <1>7 DEF Journal!ChooseLevel
  <2> HIDE DEF v
  <2>3. StorySound(v)
    BY <2>1, StorySame
  <2> QED BY <2>2, <2>3, StoryBeside
<1>8. ASSUME NEW s, Journal!ScrollTo(s) PROVE StorySound(ui')
  <2> DEFINE v == [ui EXCEPT !.mixed = @ \/ ui.scrub]
  <2>1. \/ ui' = Journal!Acted(Journal!SetFrequencyMap(ui)) \/ ui' = Journal!Acted(Journal!SetFrontierMap(ui, FALSE))
        \/ \E d : ui' = Journal!Acted(Journal!UpdateTimelineCursor(v, d, TRUE))
    BY <1>8 DEF Journal!ScrollTo
  <2>2. /\ StoryFields \subseteq DOMAIN v /\ \A f \in StoryFields \ {"mixed"} : v[f] = ui[f]
        /\ v.mixed \in BOOLEAN /\ (ui.mixed => v.mixed)
    BY DEF StorySound, StoryTyped, StoryFields
  <2> HIDE DEF v
  <2>3. StorySound(v)
    BY <2>2, StoryElsewhere
  <2> QED BY <2>1, <2>3, StoryBeside
<1>9. ASSUME NEW d, Journal!ChooseMilestone(d) \/ Journal!MoveCursor(d) PROVE StorySound(ui')
  BY <1>9, StoryBeside DEF Journal!ChooseMilestone, Journal!MoveCursor
<1>10. ASSUME NEW d, Journal!ScrubStart(d) \/ Journal!ScrubEnd(d) PROVE StorySound(ui')
  <2> DEFINE v == [ui EXCEPT !.scrub = TRUE, !.from = IF ui.asOf = 0 THEN ChartDays ELSE ui.asOf]
             w == [ui EXCEPT !.scrub = FALSE]
  <2>1. /\ DOMAIN v = DOMAIN ui /\ \A f \in StoryFields : v[f] = ui[f]
        /\ DOMAIN w = DOMAIN ui /\ \A f \in StoryFields : w[f] = ui[f]
    BY DEF StoryFields
  <2>2. \/ ui' = Journal!Acted(Journal!UpdateTimelineCursor(v, d, FALSE))
        \/ ui' = Journal!Acted(Journal!SyncUrl(Journal!UpdateTimelineCursor(w, d, TRUE)))
    BY <1>10 DEF Journal!ScrubStart, Journal!ScrubEnd
  <2> HIDE DEF v, w
  <2>3. StorySound(v) /\ StorySound(w)
    BY <2>1, StorySame
  <2> QED BY <2>2, <2>3, StoryBeside
<1> QED BY <1>1, <1>2, <1>3, <1>4, <1>5, <1>6, <1>7, <1>8, <1>9, <1>10

LEMMA StoryKept ==
    ASSUME StorySound(ui), Journal!Next
    PROVE  StorySound(ui')
BY StoryActs, StoryAnswers DEF Journal!Next

LEMMA StoryStart ==
    ASSUME Journal!Init
    PROVE  StorySound(ui)
<1>1. StoryTyped(Journal!Start) /\ Journal!Start.net = {}
  BY AbsenceAssumption DEF Journal!Start, StoryTyped, StoryFields
<1> HIDE DEF Journal!Start
<1>2. StorySound(Journal!Sent(Journal!Start, "meta", 0, 0))
  BY <1>1, StorySent DEF Reloads
<1> QED BY <1>2 DEF Journal!Init

LEMMA StoryTold ==
    ASSUME StorySound(ui)
    PROVE  Journal!JournalOfOneRange
BY DEF StorySound, Whole, Journal!JournalOfOneRange

-----------------------------------------------------------------------------
(* The coverage dashboard: whose details it tells, and whose streets it    *)
(* shows.                                                                  *)

AreaFields == {"area", "data", "token", "mixed", "sync", "moves", "net"}
MapFields == {"rendered", "drawn", "lit", "segment", "fresh", "layers", "filter", "cache"}

(* A request for an area's details names an area and no sync to come.      *)
Recalled(q, sync) ==
    /\ {"op", "of", "n", "v"} \subseteq DOMAIN q
    /\ q.op = "view" => q.of \in Areas /\ q.v \in Nat /\ q.v <= sync[q.of]

AreaSound(u) ==
    /\ AreaFields \subseteq DOMAIN u /\ u.sync \in [Areas -> Nat] /\ u.mixed \in BOOLEAN
    /\ u.area \in Areas \cup {NoArea}
    /\ \A m \in u.moves : {"area", "n", "stage"} \subseteq DOMAIN m /\ m.area \in Areas \cup {NoArea}
    /\ \A q \in u.net : Recalled(q, u.sync)
    /\ ~u.mixed => /\ u.data \in {u.area, NoArea}
                   /\ u.data # NoArea => u.token \in Nat /\ u.token <= u.sync[u.area]

PanelSound(u) ==
    /\ MapFields \subseteq DOMAIN u
    /\ u.rendered # Dashboard!NoKey => u.drawn = u.rendered.a
    /\ u.lit = u.segment
    /\ u.fresh /\ u.drawn # NoArea => u.layers = Dashboard!LayersShown(u)

OpenSound(u) == AreaSound(u) /\ PanelSound(u)

LEMMA OpenSame ==
    ASSUME NEW u, NEW w, DOMAIN w = DOMAIN u
    PROVE  /\ AreaSound(u) /\ (\A f \in AreaFields : w[f] = u[f]) => AreaSound(w)
           /\ PanelSound(u) /\ (\A f \in MapFields : w[f] = u[f]) => PanelSound(w)
BY DEF AreaSound, PanelSound, AreaFields, MapFields, Dashboard!LayersShown

LEMMA OpenAsks ==
    ASSUME NEW u, OpenSound(u), NEW op, NEW a, NEW n, NEW v,
           op = "view" => a \in Areas /\ v \in Nat /\ v <= u.sync[a]
    PROVE  OpenSound(Dashboard!Sent(u, op, a, n, v))
<1> DEFINE q == [op |-> op, of |-> a, n |-> n, v |-> v]
           w == Dashboard!Sent(u, op, a, n, v)
<1>1. Recalled(q, u.sync)
  BY DEF Recalled
<1> HIDE DEF q
<1>2. w.net = u.net \cup {q} /\ DOMAIN w = DOMAIN u /\ \A f \in DOMAIN u \ {"net"} : w[f] = u[f]
  <2>1. w = [u EXCEPT !.net = @ \cup {q}] /\ "net" \in DOMAIN u
    BY DEF Dashboard!Sent, q, OpenSound, AreaSound, AreaFields
  <2> HIDE DEF w
  <2> QED BY <2>1
<1> HIDE DEF w
<1>3. PanelSound(w)
  BY <1>2, OpenSame DEF OpenSound, PanelSound, MapFields
<1>4. /\ w.area = u.area /\ w.data = u.data /\ w.token = u.token /\ w.mixed = u.mixed /\ w.sync = u.sync /\ w.moves = u.moves
  BY <1>2 DEF OpenSound, AreaSound, AreaFields
<1>5. AreaSound(w)
  BY <1>1, <1>2, <1>4 DEF OpenSound, AreaSound
<1>6. OpenSound(w)
  BY <1>3, <1>5 DEF OpenSound
<1> QED BY <1>6 DEF w

LEMMA OpenHelpers ==
    ASSUME NEW u, OpenSound(u), NEW r, NEW k, NEW a, NEW v
    PROVE  /\ OpenSound(Dashboard!Acted(u)) /\ OpenSound(Dashboard!Got(u, r))
           /\ OpenSound(Dashboard!CloseStreetDetailPanel(u)) /\ OpenSound(Dashboard!UpdateStreetStatus(u))
           /\ OpenSound(Dashboard!RefreshDashboardStats(u, a)) /\ OpenSound(Dashboard!LoadStreets(u, a, v))
           /\ OpenSound(Dashboard!Drawn(u, k))
<1>1. OpenSound(Dashboard!Acted(u))
  <2> DEFINE w == Dashboard!Acted(u)
  <2>1. DOMAIN w = DOMAIN u /\ \A f \in AreaFields \cup MapFields : w[f] = u[f]
    BY DEF Dashboard!Acted, AreaFields, MapFields
  <2> HIDE DEF w
  <2>2. OpenSound(w)
    BY <2>1, OpenSame DEF OpenSound
  <2> QED BY <2>2 DEF w
<1>2. OpenSound(Dashboard!Got(u, r))
  <2> DEFINE w == Dashboard!Got(u, r)
  <2>1. w = [u EXCEPT !.net = @ \ {r}] /\ "net" \in DOMAIN u
    BY DEF Dashboard!Got, OpenSound, AreaSound, AreaFields
  <2> HIDE DEF w
  <2>2. DOMAIN w = DOMAIN u /\ w.net = u.net \ {r} /\ \A f \in DOMAIN u \ {"net"} : w[f] = u[f]
    BY <2>1
  <2>3. PanelSound(w)
    BY <2>2, OpenSame DEF OpenSound, PanelSound, MapFields
  <2>4. AreaSound(w)
    BY <2>2 DEF OpenSound, AreaSound, AreaFields
  <2>5. OpenSound(w)
    BY <2>3, <2>4 DEF OpenSound
  <2> QED BY <2>5 DEF w
<1>3. OpenSound(Dashboard!CloseStreetDetailPanel(u))
  <2> DEFINE w == Dashboard!CloseStreetDetailPanel(u)
  <2>1. DOMAIN w = DOMAIN u /\ (\A f \in AreaFields : w[f] = u[f]) /\ PanelSound(w)
    BY DEF Dashboard!CloseStreetDetailPanel, AreaFields, MapFields, OpenSound, PanelSound, Dashboard!LayersShown
  <2> HIDE DEF w
  <2>2. OpenSound(w)
    BY <2>1, OpenSame DEF OpenSound
  <2> QED BY <2>2 DEF w
<1>4. OpenSound(Dashboard!UpdateStreetStatus(u))
  <2> DEFINE w == [u EXCEPT !.drawn = u.cache.a, !.rendered = Dashboard!NoKey]
  <2>1. ASSUME u.drawn # NoArea PROVE OpenSound(w)
    <3>1. DOMAIN w = DOMAIN u /\ (\A f \in AreaFields : w[f] = u[f]) /\ PanelSound(w)
      BY <2>1 DEF AreaFields, MapFields, OpenSound, PanelSound, Dashboard!LayersShown
    <3> HIDE DEF w
    <3> QED BY <3>1, OpenSame DEF OpenSound
  <2> QED BY <2>1 DEF Dashboard!UpdateStreetStatus
<1>5. ASSUME NEW x, OpenSound(x), NEW l PROVE OpenSound(Dashboard!Drawn(x, l))
  <2> DEFINE all == {"driven", "undriven", "undriveable"}
             ls == IF x.drawn = NoArea THEN all ELSE x.layers
             fr == IF x.drawn = NoArea THEN x.filter = {} ELSE x.fresh
             w == Dashboard!Drawn(x, l)
  <2> HIDE DEF ls, fr
  <2>1. w = [x EXCEPT !.drawn = l.a, !.rendered = l, !.layers = ls, !.fresh = fr]
    BY DEF Dashboard!Drawn, ls, fr
  <2> HIDE DEF w
  <2>2. /\ DOMAIN w = DOMAIN x /\ (\A f \in AreaFields : w[f] = x[f]) /\ w.drawn = l.a /\ w.rendered = l /\ w.layers = ls
        /\ w.fresh = fr /\ w.lit = x.lit /\ w.segment = x.segment /\ w.filter = x.filter
    BY <1>5, <2>1 DEF AreaFields, MapFields, OpenSound, PanelSound
  <2>3. fr /\ l.a # NoArea => ls = x.filter \cup (IF x.filter = {} THEN all ELSE {})
    BY <1>5 DEF OpenSound, PanelSound, Dashboard!LayersShown, ls, fr
  <2>4. PanelSound(w)
    BY <1>5, <2>2, <2>3 DEF OpenSound, PanelSound, Dashboard!LayersShown
  <2>5. OpenSound(w)
    BY <1>5, <2>2, <2>4, OpenSame DEF OpenSound
  <2> QED BY <2>5 DEF w
<1>6. OpenSound(Dashboard!RefreshDashboardStats(u, a))
  BY OpenAsks DEF Dashboard!RefreshDashboardStats
<1>7. OpenSound(Dashboard!LoadStreets(u, a, v))
  <2> DEFINE w == [u EXCEPT !.loads = @ + 1]
             l == [a |-> a, v |-> v]
  <2>1. DOMAIN w = DOMAIN u /\ \A f \in AreaFields \cup MapFields : w[f] = u[f]
    BY DEF AreaFields, MapFields
  <2>2. \/ Dashboard!LoadStreets(u, a, v) = w
        \/ Dashboard!LoadStreets(u, a, v) = Dashboard!Drawn(w, l)
        \/ Dashboard!LoadStreets(u, a, v) = Dashboard!Sent(w, "streets", a, u.loads + 1, v)
    BY DEF Dashboard!LoadStreets
  <2> HIDE DEF w, l
  <2>3. OpenSound(w)
    BY <2>1, OpenSame DEF OpenSound
  <2> QED BY <1>5, <2>2, <2>3, OpenAsks
<1> QED BY <1>1, <1>2, <1>3, <1>4, <1>5, <1>6, <1>7

(* The transitions from and to an area.                                    *)
LEMMA OpenMoves ==
    ASSUME OpenSound(ui),
           \/ Dashboard!BackToList \/ \E a \in Areas : Dashboard!ViewArea(a)
           \/ \E m \in ui.moves : Dashboard!Exited(m) \/ Dashboard!Entered(m)
    PROVE  OpenSound(ui')
<1>1. ASSUME NEW u, OpenSound(u), NEW to, NEW n, NEW a \in Areas \cup {NoArea} PROVE OpenSound(Dashboard!SwitchView(u, to, n, a))
  <2> DEFINE m == [from |-> u.view, to |-> to, stage |-> 1, n |-> n, area |-> a]
             tg == u.tangled \/ u.moves # {}
             w == Dashboard!SwitchView(u, to, n, a)
  <2>1. {"area", "n", "stage"} \subseteq DOMAIN m /\ m.area = a
    OBVIOUS
  <2> HIDE DEF m, tg
  <2>2. w = [u EXCEPT !.moves = @ \cup {m}, !.tangled = tg]
    BY DEF Dashboard!SwitchView, m, tg
  <2> HIDE DEF w
  <2>3. /\ DOMAIN w = DOMAIN u /\ w.moves = u.moves \cup {m}
        /\ \A f \in DOMAIN u \ {"moves", "tangled"} : w[f] = u[f]
    BY <1>1, <2>2 DEF OpenSound, AreaSound, AreaFields
  <2>4. AreaSound(w)
    BY <1>1, <2>1, <2>3 DEF OpenSound, AreaSound, AreaFields
  <2>5. OpenSound(w)
    BY <1>1, <2>3, <2>4, OpenSame DEF OpenSound, PanelSound, MapFields
  <2> QED BY <2>5 DEF w
<1>2. CASE Dashboard!BackToList
  <2> DEFINE u == Dashboard!CloseStreetDetailPanel(ui)
             w == [u EXCEPT !.req = @ + 1, !.area = NoArea, !.data = NoArea, !.token = 0]
  <2>1. ui' = Dashboard!Acted(Dashboard!SwitchView(w, "list", ui.req + 1, NoArea))
    BY <1>2 DEF Dashboard!BackToList
  <2>2. OpenSound(u)
    BY OpenHelpers
  <2> HIDE DEF u
  <2>3. /\ DOMAIN w = DOMAIN u /\ w.area = NoArea /\ w.data = NoArea
        /\ \A f \in DOMAIN u \ {"req", "area", "data", "token"} : w[f] = u[f]
    BY <2>2 DEF OpenSound, AreaSound, AreaFields
  <2> HIDE DEF w
  <2>4. AreaSound(w)
    BY <2>2, <2>3 DEF OpenSound, AreaSound, AreaFields
  <2>5. OpenSound(w)
    BY <2>2, <2>3, <2>4, OpenSame DEF OpenSound, PanelSound, MapFields
  <2> QED BY <1>1, <2>1, <2>5, OpenHelpers
<1>3. ASSUME NEW a \in Areas, Dashboard!ViewArea(a) PROVE OpenSound(ui')
  <2> DEFINE mx == ui.mixed \/ ui.data # NoArea
             w == [ui EXCEPT !.req = @ + 1, !.area = a, !.mixed = mx]
  <2>1. ui' = Dashboard!Acted(Dashboard!SwitchView(Dashboard!CloseStreetDetailPanel(w), "area", ui.req + 1, a))
    BY <1>3 DEF Dashboard!ViewArea
  <2>2. mx \in BOOLEAN /\ (~mx => ui.data = NoArea)
    BY DEF OpenSound, AreaSound
  <2> HIDE DEF mx
  <2>3. /\ DOMAIN w = DOMAIN ui /\ w.area = a /\ w.mixed = mx
        /\ \A f \in DOMAIN ui \ {"req", "area", "mixed"} : w[f] = ui[f]
    BY DEF OpenSound, AreaSound, AreaFields
  <2> HIDE DEF w
  <2>4. AreaSound(w)
    BY <2>2, <2>3 DEF OpenSound, AreaSound, AreaFields
  <2>5. OpenSound(w)
    BY <2>3, <2>4, OpenSame DEF OpenSound, PanelSound, MapFields
  <2>6. OpenSound(Dashboard!CloseStreetDetailPanel(w))
    BY <2>5, OpenHelpers
  <2> QED BY <1>1, <2>1, <2>6, OpenHelpers
<1>4. ASSUME NEW m \in ui.moves, Dashboard!Exited(m) PROVE OpenSound(ui')
  <2> DEFINE s == [m EXCEPT !.stage = 2]
             sh == (ui.shown \ {m.from}) \cup {m.to}
             w == [ui EXCEPT !.shown = sh, !.moves = (@ \ {m}) \cup {s}]
  <2>1. ui' = w
    BY <1>4 DEF Dashboard!Exited
  <2>2. {"area", "n", "stage"} \subseteq DOMAIN s /\ s.area \in Areas \cup {NoArea}
    BY DEF OpenSound, AreaSound
  <2> HIDE DEF s, sh
  <2>3. /\ DOMAIN w = DOMAIN ui /\ w.moves = (ui.moves \ {m}) \cup {s}
        /\ \A f \in DOMAIN ui \ {"shown", "moves"} : w[f] = ui[f]
    BY DEF OpenSound, AreaSound, AreaFields
  <2> HIDE DEF w
  <2>4. AreaSound(w)
    BY <2>2, <2>3 DEF OpenSound, AreaSound, AreaFields
  <2> QED BY <2>1, <2>3, <2>4, OpenSame DEF OpenSound, PanelSound, MapFields
<1>5. ASSUME NEW m \in ui.moves, Dashboard!Entered(m) PROVE OpenSound(ui')
  <2> DEFINE w == [ui EXCEPT !.view = m.to, !.moves = @ \ {m}]
  <2>1. \/ ui' = w
        \/ m.area # NoArea /\ ui' = Dashboard!Sent(w, "view", m.area, m.n, ui.sync[m.area])
    BY <1>5 DEF Dashboard!Entered
  <2>2. /\ DOMAIN w = DOMAIN ui /\ w.moves = ui.moves \ {m} /\ w.sync = ui.sync
        /\ \A f \in DOMAIN ui \ {"view", "moves"} : w[f] = ui[f]
    BY DEF OpenSound, AreaSound, AreaFields
  <2> HIDE DEF w
  <2>3. AreaSound(w)
    BY <2>2 DEF OpenSound, AreaSound, AreaFields
  <2>4. OpenSound(w)
    BY <2>2, <2>3, OpenSame DEF OpenSound, PanelSound, MapFields
  <2>5. m.area # NoArea => m.area \in Areas /\ w.sync[m.area] \in Nat
    BY <2>2 DEF OpenSound, AreaSound
  <2> QED BY <2>1, <2>2, <2>4, <2>5, OpenAsks
<1> QED BY <1>2, <1>3, <1>4, <1>5

LEMMA OpenKept ==
    ASSUME OpenSound(ui), Dashboard!Next
    PROVE  OpenSound(ui')
<1>1. ASSUME NEW u, OpenSound(u), NEW w, DOMAIN w = DOMAIN u, \A f \in AreaFields \cup MapFields : w[f] = u[f]
      PROVE  OpenSound(w)
  BY <1>1, OpenSame DEF OpenSound
<1>2. CASE Dashboard!MapReady
  <2> DEFINE u == [ui EXCEPT !.map = "ready"]
  <2>1. ui' = u \/ ui' = Dashboard!LoadStreets(u, ui.area, ui.token)
    BY <1>2 DEF Dashboard!MapReady
  <2>2. DOMAIN u = DOMAIN ui /\ \A f \in AreaFields \cup MapFields : u[f] = ui[f]
    BY DEF AreaFields, MapFields
  <2> HIDE DEF u
  <2>3. OpenSound(u)
    BY <1>1, <2>2
  <2> QED BY <2>1, <2>3, OpenHelpers
<1>3. CASE Dashboard!OpenHistory
  <2> DEFINE u == [ui EXCEPT !.activity = NoArea, !.jobs = NoArea]
             v == Dashboard!Sent(u, "activity", ui.area, 0, 0)
  <2>1. ui' = Dashboard!Acted(Dashboard!Sent(v, "jobs", ui.area, 0, 0))
    BY <1>3 DEF Dashboard!OpenHistory
  <2>2. DOMAIN u = DOMAIN ui /\ \A f \in AreaFields \cup MapFields : u[f] = ui[f]
    BY DEF AreaFields, MapFields
  <2> HIDE DEF u
  <2>3. OpenSound(u)
    BY <1>1, <2>2
  <2>4. OpenSound(v)
    BY <2>3, OpenAsks
  <2> HIDE DEF v
  <2>5. OpenSound(Dashboard!Sent(v, "jobs", ui.area, 0, 0))
    BY <2>4, OpenAsks
  <2> QED BY <2>1, <2>5, OpenHelpers
<1>4. CASE Dashboard!OpenStreetDetailPanel
  <2> DEFINE u == [ui EXCEPT !.segment = ui.drawn, !.lit = ui.drawn]
  <2>1. DOMAIN u = DOMAIN ui /\ (\A f \in AreaFields : u[f] = ui[f]) /\ PanelSound(u)
    BY DEF AreaFields, MapFields, OpenSound, PanelSound, Dashboard!LayersShown
  <2>2. ui' = Dashboard!Acted(u)
    BY <1>4 DEF Dashboard!OpenStreetDetailPanel
  <2> HIDE DEF u
  <2>3. OpenSound(u)
    BY <2>1, OpenSame DEF OpenSound
  <2> QED BY <2>2, <2>3, OpenHelpers
<1>5. ASSUME Dashboard!ClosePanel PROVE OpenSound(ui')
  BY <1>5, OpenHelpers DEF Dashboard!ClosePanel
<1>6. CASE Dashboard!MarkSegment
  <2> DEFINE u == [ui EXCEPT !.misfiled = @ \/ ui.segment # ui.area]
  <2>1. DOMAIN u = DOMAIN ui /\ \A f \in AreaFields \cup MapFields : u[f] = ui[f]
    BY DEF AreaFields, MapFields
  <2>2. ui' = Dashboard!Acted(Dashboard!Sent(u, "mark", ui.area, ui.steps + 1, 0))
    BY <1>6 DEF Dashboard!MarkSegment
  <2> HIDE DEF u
  <2>3. OpenSound(Dashboard!Sent(u, "mark", ui.area, ui.steps + 1, 0))
    BY <1>1, <2>1, OpenAsks
  <2> QED BY <2>2, <2>3, OpenHelpers
<1>7. CASE Dashboard!Escape
  BY <1>5, <1>7, OpenMoves DEF Dashboard!Escape
<1>8. ASSUME NEW a \in Areas, Dashboard!ServerSyncs(a) PROVE OpenSound(ui')
  <2> DEFINE sy == [ui.sync EXCEPT ![a] = @ + 1]
             w == [ui EXCEPT !.sync = sy]
  <2>1. ui' = w
    BY <1>8 DEF Dashboard!ServerSyncs
  <2>2. sy \in [Areas -> Nat] /\ \A x \in Areas : ui.sync[x] \in Nat /\ ui.sync[x] <= sy[x]
    BY DEF OpenSound, AreaSound
  <2> HIDE DEF sy
  <2>3. DOMAIN w = DOMAIN ui /\ w.sync = sy /\ \A f \in DOMAIN ui \ {"sync"} : w[f] = ui[f]
    BY DEF OpenSound, AreaSound, AreaFields
  <2> HIDE DEF w
  <2>4. \A q \in w.net : Recalled(q, sy)
    BY <2>2, <2>3 DEF OpenSound, AreaSound, AreaFields, Recalled
  <2>5. ~w.mixed => /\ w.data \in {w.area, NoArea}
                    /\ w.data # NoArea => w.token \in Nat /\ w.token <= sy[w.area]
    <3>1. w.mixed = ui.mixed /\ w.data = ui.data /\ w.area = ui.area /\ w.token = ui.token
      BY <2>3 DEF OpenSound, AreaSound, AreaFields
    <3>2. ASSUME ~ui.mixed, ui.data # NoArea PROVE ui.token \in Nat /\ ui.token <= sy[ui.area]
      <4>1. ui.area \in Areas /\ ui.token \in Nat /\ ui.token <= ui.sync[ui.area]
        BY <3>2 DEF OpenSound, AreaSound
      <4>2. ui.sync[ui.area] \in Nat /\ sy[ui.area] \in Nat
        BY <2>2, <4>1
      <4> QED BY <2>2, <4>1, <4>2
    <3> QED BY <3>1, <3>2 DEF OpenSound, AreaSound
  <2>6. AreaSound(w)
    BY <2>2, <2>3, <2>4, <2>5 DEF OpenSound, AreaSound, AreaFields
  <2> QED BY <2>1, <2>3, <2>6, OpenSame DEF OpenSound, PanelSound, MapFields
<1>9. ASSUME NEW f, Dashboard!ApplyMapFilter(f) PROVE OpenSound(ui')
  <2> DEFINE g == IF f = {} THEN {} ELSE (ui.filter \ f) \cup (f \ ui.filter)
             u == [ui EXCEPT !.filter = g, !.lit = ui.segment]
             v == [u EXCEPT !.layers = Dashboard!LayersShown(u), !.fresh = TRUE]
  <2>1. \/ ui.drawn = NoArea /\ ui' = Dashboard!Acted(u)
        \/ ui' = Dashboard!Acted(v)
    BY <1>9 DEF Dashboard!ApplyMapFilter
  <2> HIDE DEF g
  <2>2. /\ DOMAIN u = DOMAIN ui /\ (\A x \in AreaFields : u[x] = ui[x]) /\ MapFields \subseteq DOMAIN u
        /\ u.rendered = ui.rendered /\ u.drawn = ui.drawn /\ u.lit = u.segment
    BY DEF AreaFields, MapFields, OpenSound, PanelSound
  <2> HIDE DEF u
  <2>3. ui.drawn = NoArea => PanelSound(u)
    BY <2>2 DEF OpenSound, PanelSound
  <2>4. DOMAIN v = DOMAIN ui /\ (\A x \in AreaFields : v[x] = ui[x]) /\ PanelSound(v)
    BY <2>2 DEF AreaFields, MapFields, OpenSound, PanelSound, Dashboard!LayersShown
  <2> HIDE DEF v
  <2>5. OpenSound(v) /\ (ui.drawn = NoArea => OpenSound(u))
    BY <2>2, <2>3, <2>4, OpenSame DEF OpenSound
  <2> QED BY <2>1, <2>5, OpenHelpers
<1>10. ASSUME NEW r \in ui.net, Dashboard!AreaArrives(r) PROVE OpenSound(ui')
  <2> DEFINE g == Dashboard!Got(ui, r)
             u == [g EXCEPT !.data = r.of, !.token = r.v]
             v == [u EXCEPT !.map = "starting"]
  <2>1. r.op = "view" /\ (ui' = g \/ (r.of = ui.area /\ (ui' = v \/ ui' = Dashboard!LoadStreets(u, r.of, r.v))))
    BY <1>10 DEF Dashboard!AreaArrives, Dashboard!ThisVisit
  <2>2. OpenSound(g) /\ g.area = ui.area /\ g.sync = ui.sync
    BY OpenHelpers DEF Dashboard!Got
  <2>3. r.of \in Areas /\ r.v \in Nat /\ r.v <= ui.sync[r.of]
    BY <2>1 DEF OpenSound, AreaSound, Recalled
  <2> HIDE DEF g
  <2>4. DOMAIN u = DOMAIN g /\ u.data = r.of /\ u.token = r.v /\ \A f \in DOMAIN g \ {"data", "token"} : u[f] = g[f]
    BY <2>2 DEF OpenSound, AreaSound, AreaFields
  <2> HIDE DEF u
  <2>5. r.of = ui.area => AreaSound(u)
    BY <2>2, <2>3, <2>4 DEF OpenSound, AreaSound, AreaFields
  <2>6. r.of = ui.area => OpenSound(u)
    BY <2>2, <2>4, <2>5, OpenSame DEF OpenSound, PanelSound, MapFields
  <2>7. DOMAIN v = DOMAIN u /\ \A f \in AreaFields \cup MapFields : v[f] = u[f]
    BY DEF AreaFields, MapFields
  <2> HIDE DEF v
  <2> QED BY <1>1, <2>1, <2>2, <2>6, <2>7, OpenHelpers
<1>11. ASSUME NEW r \in ui.net, Dashboard!StreetsArrive(r) PROVE OpenSound(ui')
  <2> DEFINE g == Dashboard!Got(ui, r)
             k == [a |-> r.of, v |-> r.v]
             u == [g EXCEPT !.cache = k]
  <2>1. ui' = Dashboard!Drawn(u, k) \/ ui' = u
    BY <1>11 DEF Dashboard!StreetsArrive
  <2>2. OpenSound(g)
    BY OpenHelpers
  <2> HIDE DEF g, k
  <2>3. DOMAIN u = DOMAIN g /\ (\A f \in AreaFields : u[f] = g[f]) /\ PanelSound(u)
    BY <2>2 DEF AreaFields, MapFields, OpenSound, PanelSound, Dashboard!LayersShown
  <2> HIDE DEF u
  <2>4. OpenSound(u)
    BY <2>2, <2>3, OpenSame DEF OpenSound
  <2> QED BY <2>1, <2>4, OpenHelpers
<1>12. ASSUME NEW r \in ui.net,
              Dashboard!RefreshArrives(r) \/ Dashboard!RequestFails(r) \/ Dashboard!ActivityArrives(r) \/ Dashboard!JobsArrive(r)
       PROVE  OpenSound(ui')
  <2> DEFINE g == Dashboard!Got(ui, r)
             u == [g EXCEPT !.activity = r.of]
             v == [g EXCEPT !.jobs = r.of]
  <2>1. ui' = g \/ ui' = u \/ ui' = v
    BY <1>12 DEF Dashboard!RefreshArrives, Dashboard!RequestFails, Dashboard!ActivityArrives, Dashboard!JobsArrive
  <2>2. OpenSound(g)
    BY OpenHelpers
  <2> HIDE DEF g
  <2>3. /\ DOMAIN u = DOMAIN g /\ \A f \in AreaFields \cup MapFields : u[f] = g[f]
        /\ DOMAIN v = DOMAIN g /\ \A f \in AreaFields \cup MapFields : v[f] = g[f]
    BY DEF AreaFields, MapFields
  <2> HIDE DEF u, v
  <2> QED BY <1>1, <2>1, <2>2, <2>3
<1>13. ASSUME NEW r \in ui.net, Dashboard!MarkArrives(r) PROVE OpenSound(ui')
  <2>1. ui' = Dashboard!RefreshDashboardStats(Dashboard!CloseStreetDetailPanel(Dashboard!UpdateStreetStatus(Dashboard!Got(ui, r))), r.of)
    BY <1>13 DEF Dashboard!MarkArrives
  <2>2. OpenSound(Dashboard!Got(ui, r))
    BY OpenHelpers
  <2>3. OpenSound(Dashboard!UpdateStreetStatus(Dashboard!Got(ui, r)))
    BY <2>2, OpenHelpers
  <2>4. OpenSound(Dashboard!CloseStreetDetailPanel(Dashboard!UpdateStreetStatus(Dashboard!Got(ui, r))))
    BY <2>3, OpenHelpers
  <2> QED BY <2>1, <2>4, OpenHelpers
<1> QED
  BY <1>2, <1>3, <1>4, <1>5, <1>6, <1>7, <1>8, <1>9, <1>10, <1>11, <1>12, <1>13, OpenMoves DEF Dashboard!Next

LEMMA OpenStart ==
    ASSUME Dashboard!Init
    PROVE  OpenSound(ui)
BY DEF Dashboard!Init, Dashboard!Start, OpenSound, AreaSound, PanelSound, AreaFields, MapFields

LEMMA OpenIsOne ==
    ASSUME OpenSound(ui)
    PROVE  Dashboard!DashboardOfOneArea /\ Dashboard!RenderedIsOnMap /\ Dashboard!PanelMatchesMap
BY DEF OpenSound, AreaSound, PanelSound, Dashboard!DashboardOfOneArea, Dashboard!RenderedIsOnMap, Dashboard!PanelMatchesMap

-----------------------------------------------------------------------------
(* Live navigation: of which area the route, its figures and its streets   *)
(* are.                                                                    *)

LedFields == {"area", "loads", "loaded", "route", "base", "crossed", "cov"}

LedTyped(u) ==
    /\ LedFields \subseteq DOMAIN u /\ DOMAIN u.cov = CovFields
    /\ u.crossed \in BOOLEAN /\ u.loaded \in BOOLEAN
    /\ \A l \in u.loads : {"id", "at", "of", "base"} \subseteq DOMAIN l

(* A load that asks for the route has the figures of the same area.        *)
LedSound(u) ==
    /\ LedTyped(u)
    /\ ~u.crossed => /\ \A l \in u.loads : l.at = "route" => l.base = l.of
                     /\ u.loaded => u.route = u.area /\ u.base = u.area /\ u.cov.und \subseteq Navigation!SegmentsOf(u.area)

LEMMA LedSame ==
    ASSUME NEW u, LedSound(u), NEW w, DOMAIN w = DOMAIN u,
           \A f \in LedFields \ {"cov", "loaded"} : w[f] = u[f],
           w.loaded = u.loaded \/ w.loaded = FALSE,
           DOMAIN w.cov = DOMAIN u.cov, w.cov.und \subseteq u.cov.und
    PROVE  LedSound(w)
BY DEF LedSound, LedTyped, LedFields

(* What reads no answer keeps the route, or gives it up.                   *)
LEMMA LedHelpers ==
    ASSUME NEW u, LedSound(u), NEW s, NEW p
    PROVE  /\ LedSound(Navigation!Acted(u)) /\ LedSound(Navigation!TransitionTo(u, s))
           /\ LedSound(Navigation!ResetCoverage(u)) /\ LedSound(Navigation!ResetRouteState(u))
           /\ Navigation!ResetRouteState(u).loaded = FALSE
           /\ LedSound(Navigation!PersistDrivenSegments(u)) /\ LedSound(Navigation!MarkSegmentsDriven(u, p))
           /\ LedSound(Navigation!AutoGenerateRoute(u)) /\ LedSound(Navigation!LoadRoute(u))
           /\ LedSound(Navigation!StartNavigation(u)) /\ LedSound(Navigation!StartGeolocation(u))
<1>1. ASSUME NEW w, DOMAIN w = DOMAIN u, \A f \in LedFields : w[f] = u[f] PROVE LedSound(w)
  BY <1>1, LedSame DEF LedFields
<1>2. LedSound(Navigation!Acted(u))
  <2> DEFINE w == Navigation!Acted(u)
  <2>1. DOMAIN w = DOMAIN u /\ \A f \in LedFields : w[f] = u[f]
    BY DEF Navigation!Acted, LedFields
  <2> HIDE DEF w
  <2>2. LedSound(w)
    BY <1>1, <2>1
  <2> QED BY <2>2 DEF w
<1>3. LedSound(Navigation!TransitionTo(u, s))
  <2> DEFINE ck == IF s = "preview" /\ u.loaded THEN u.checks \cup {[id |-> u.steps, at |-> "position"]} ELSE u.checks
             w == [u EXCEPT !.st = s, !.panel = s, !.silent = FALSE, !.checks = ck]
  <2> HIDE DEF ck
  <2>1. DOMAIN w = DOMAIN u /\ \A f \in LedFields : w[f] = u[f]
    BY DEF LedFields
  <2>2. Navigation!TransitionTo(u, s) = u \/ Navigation!TransitionTo(u, s) = w
    BY DEF Navigation!TransitionTo, ck
  <2> HIDE DEF w
  <2> QED BY <1>1, <2>1, <2>2
<1>4. LedSound(Navigation!ResetCoverage(u)) /\ DOMAIN Navigation!ResetCoverage(u) = DOMAIN u
  <2> DEFINE c == [u.cov EXCEPT !.und = {}, !.pend = {}, !.debounce = FALSE, !.retry = FALSE, !.fails = 0]
             w == [u EXCEPT !.dropped = @ \cup u.cov.pend, !.cov = c]
  <2>1. DOMAIN c = DOMAIN u.cov /\ c.und = {}
    BY DEF LedSound, LedTyped, CovFields
  <2>2. Navigation!ResetCoverage(u) = w
    BY DEF Navigation!ResetCoverage
  <2> HIDE DEF c
  <2>3. DOMAIN w = DOMAIN u /\ w.cov = c /\ \A f \in LedFields \ {"cov"} : w[f] = u[f]
    BY DEF LedFields, LedSound, LedTyped
  <2> HIDE DEF w
  <2>4. LedSound(w)
    BY <2>1, <2>3, LedSame DEF LedFields
  <2> QED BY <2>2, <2>3, <2>4
<1>5. LedSound(Navigation!ResetRouteState(u)) /\ Navigation!ResetRouteState(u).loaded = FALSE
  <2> DEFINE v == Navigation!ResetCoverage(u)
             si == v.silent \/ u.panel # "setup"
             w == Navigation!ResetRouteState(u)
  <2>1. LedSound(v)
    BY <1>4
  <2>2. \E x : w = [v EXCEPT !.st = "setup", !.silent = x, !.loaded = FALSE, !.route = NoArea, !.line = NoArea,
                   !.watch = FALSE, !.prev = "none", !.smart = NoArea, !.resume = FALSE, !.way = NoArea, !.nav = FALSE]
    BY DEF Navigation!ResetRouteState
  <2> HIDE DEF v, w
  <2>3. DOMAIN w = DOMAIN v /\ w.loaded = FALSE /\ \A f \in LedFields \ {"loaded", "route"} : w[f] = v[f]
    BY <2>1, <2>2 DEF LedFields, LedSound, LedTyped
  <2>4. LedSound(w)
    BY <2>1, <2>3 DEF LedFields, LedSound, LedTyped
  <2> QED BY <2>3, <2>4 DEF w
<1>6. LedSound(Navigation!PersistDrivenSegments(u))
  <2> DEFINE c == [u.cov EXCEPT !.pend = {}]
             n == [id |-> u.steps, segs |-> u.cov.pend, area |-> u.cov.area]
             mv == u.moved \/ \E x \in u.cov.pend : x[1] # u.cov.area
             w == [u EXCEPT !.cov = c, !.puts = @ \cup {n}, !.moved = mv]
  <2>1. DOMAIN c = DOMAIN u.cov /\ c.und = u.cov.und
    BY DEF LedSound, LedTyped, CovFields
  <2> HIDE DEF mv, n, c
  <2>2. Navigation!PersistDrivenSegments(u) \in {u, w}
    BY DEF Navigation!PersistDrivenSegments, mv, n, c
  <2>3. DOMAIN w = DOMAIN u /\ w.cov = c /\ \A f \in LedFields \ {"cov"} : w[f] = u[f]
    BY DEF LedFields, LedSound, LedTyped
  <2> HIDE DEF w
  <2>4. LedSound(w)
    BY <2>1, <2>3, LedSame DEF LedFields
  <2> QED BY <2>2, <2>4
<1>7. LedSound(Navigation!MarkSegmentsDriven(u, p))
  <2> DEFINE c == [u.cov EXCEPT !.und = @ \ p, !.pend = @ \cup p, !.retry = FALSE, !.debounce = TRUE]
             w == [u EXCEPT !.cov = c, !.marked = @ \cup p]
  <2>1. DOMAIN c = DOMAIN u.cov /\ c.und \subseteq u.cov.und
    BY DEF LedSound, LedTyped, CovFields
  <2>2. Navigation!MarkSegmentsDriven(u, p) \in {u, w}
    BY DEF Navigation!MarkSegmentsDriven, Navigation!QueueSegmentPersistence, LedSound, LedTyped, LedFields, CovFields
  <2> HIDE DEF c
  <2>3. DOMAIN w = DOMAIN u /\ w.cov = c /\ \A f \in LedFields \ {"cov"} : w[f] = u[f]
    BY DEF LedFields, LedSound, LedTyped
  <2> HIDE DEF w
  <2>4. LedSound(w)
    BY <2>1, <2>3, LedSame DEF LedFields
  <2> QED BY <2>2, <2>4
<1>8. LedSound(Navigation!AutoGenerateRoute(u))
  <2> DEFINE w == [u EXCEPT !.starts = @ \cup {[id |-> u.steps, of |-> u.area]}]
  <2>1. DOMAIN w = DOMAIN u /\ \A f \in LedFields : w[f] = u[f]
    BY DEF LedFields
  <2>2. Navigation!AutoGenerateRoute(u) = u \/ Navigation!AutoGenerateRoute(u) = w
    BY DEF Navigation!AutoGenerateRoute
  <2> HIDE DEF w
  <2> QED BY <1>1, <2>1, <2>2
<1>9. LedSound(Navigation!LoadRoute(u))
  <2> DEFINE n == [id |-> u.steps, at |-> "area", of |-> u.area, base |-> NoArea]
             w == [u EXCEPT !.loaded = FALSE, !.crossed = @ \/ u.loads # {}, !.loads = @ \cup {n}]
  <2>1. {"id", "at", "of", "base"} \subseteq DOMAIN n /\ n.at = "area"
    OBVIOUS
  <2>2. Navigation!LoadRoute(u) = u \/ Navigation!LoadRoute(u) = w
    BY DEF Navigation!LoadRoute
  <2> HIDE DEF n
  <2>3. /\ DOMAIN w = DOMAIN u /\ w.loaded = FALSE /\ w.crossed = (u.crossed \/ u.loads # {}) /\ w.loads = u.loads \cup {n}
        /\ w.cov = u.cov
    BY DEF LedSound, LedTyped, LedFields
  <2> HIDE DEF w
  <2>4. LedSound(w)
    BY <2>1, <2>3 DEF LedSound, LedTyped
  <2> QED BY <2>2, <2>4
<1>10. LedSound(Navigation!StartNavigation(u)) /\ LedSound(Navigation!StartGeolocation(u))
  <2> DEFINE w == [u EXCEPT !.nav = TRUE]
             v == [u EXCEPT !.watch = TRUE]
  <2>1. DOMAIN w = DOMAIN u /\ (\A f \in LedFields : w[f] = u[f]) /\ DOMAIN v = DOMAIN u /\ \A f \in LedFields : v[f] = u[f]
    BY DEF LedFields
  <2>2. Navigation!StartNavigation(u) \in {u, w} /\ Navigation!StartGeolocation(u) = v
    BY DEF Navigation!StartNavigation, Navigation!StartGeolocation
  <2> HIDE DEF w, v
  <2> QED BY <1>1, <2>1, <2>2
<1> QED BY <1>2, <1>3, <1>4, <1>5, <1>6, <1>7, <1>8, <1>9, <1>10

(* A change of fields that have nothing to do with the route.              *)
LEMMA LedBeside ==
    ASSUME NEW u, LedSound(u), NEW w, DOMAIN w = DOMAIN u, \A f \in LedFields : w[f] = u[f]
    PROVE  LedSound(w)
BY LedSame DEF LedFields

LEMMA LedCancelled ==
    ASSUME NEW u, LedSound(u), NEW b, NEW to
    PROVE  LedSound(Navigation!AfterCancel(u, b, to)) /\ LedSound(Navigation!CancelGeneration(u, b, to))
<1>1. ASSUME NEW v, LedSound(v) PROVE LedSound(Navigation!AfterCancel(v, b, to))
  <2> DEFINE x == IF v.st = "generating" THEN Navigation!TransitionTo(v, "setup") ELSE v
             y == Navigation!ResetRouteState(x)
             z == [y EXCEPT !.area = to]
  <2>1. LedSound(x)
    BY <1>1, LedHelpers
  <2>2. Navigation!AfterCancel(v, b, to) \in {Navigation!LoadRoute(z), x}
    BY DEF Navigation!AfterCancel
  <2> HIDE DEF x
  <2>3. LedSound(y) /\ y.loaded = FALSE
    BY <2>1, LedHelpers
  <2> HIDE DEF y
  <2>4. DOMAIN z = DOMAIN y /\ \A f \in DOMAIN y \ {"area"} : z[f] = y[f]
    OBVIOUS
  <2> HIDE DEF z
  <2>5. LedSound(z)
    BY <2>3, <2>4 DEF LedSound, LedTyped, LedFields
  <2> QED BY <2>1, <2>2, <2>5, LedHelpers
<1>2. LedSound(Navigation!CancelGeneration(u, b, to))
  <2> DEFINE x == Navigation!Closed(u, u.source)
             v == [x EXCEPT !.source = 0]
             w == [v EXCEPT !.cancels = @ \cup {[id |-> u.steps, task |-> v.task, change |-> b, to |-> to]}]
  <2>1. Navigation!CancelGeneration(u, b, to) \in {Navigation!AfterCancel(v, b, to), w}
    BY DEF Navigation!CancelGeneration
  <2>2. DOMAIN v = DOMAIN u /\ \A f \in LedFields : v[f] = u[f]
    BY DEF LedFields, Navigation!Closed
  <2> HIDE DEF v
  <2>3. DOMAIN w = DOMAIN v /\ \A f \in LedFields : w[f] = v[f]
    BY DEF LedFields
  <2> HIDE DEF w
  <2>4. LedSound(v)
    BY <2>2, LedBeside
  <2>5. LedSound(w)
    BY <2>3, <2>4, LedBeside
  <2> QED BY <1>1, <2>1, <2>4, <2>5
<1> QED BY <1>1, <1>2

LEMMA LedGenerating ==
    ASSUME LedSound(ui), Navigation!Generating
    PROVE  LedSound(ui')
<1>1. ASSUME NEW r \in ui.starts, Navigation!GenerationRefused(r) PROVE LedSound(ui')
  <2> DEFINE u == [ui EXCEPT !.starts = @ \ {r}]
  <2>1. ui' = Navigation!TransitionTo(u, "setup") /\ DOMAIN u = DOMAIN ui /\ \A f \in LedFields : u[f] = ui[f]
    BY <1>1 DEF Navigation!GenerationRefused, LedFields
  <2> HIDE DEF u
  <2> QED BY <2>1, LedBeside, LedHelpers
<1>2. ASSUME NEW u, LedSound(u), NEW w, DOMAIN w = DOMAIN u, \A f \in LedFields \ {"crossed"} : w[f] = u[f],
             w.crossed \in BOOLEAN, u.crossed => w.crossed
      PROVE  LedSound(w)
  BY <1>2 DEF LedSound, LedTyped, LedFields
<1>3. ASSUME NEW r \in ui.starts, NEW t \in Navigation!Tasks, Navigation!GenerationStarted(r, t)
      PROVE  LedSound(ui')
  <2> DEFINE cr == ui.crossed \/ ui.source # 0 \/ ui.area # r.of
             lt == ui.late \/ ui.left
             u == [ui EXCEPT !.starts = @ \ {r}, !.made[t] = r.of, !.crossed = cr, !.late = lt]
             l == Navigation!Listen(u, t)
  <2>1. ui' = Navigation!TransitionTo(l, "generating")
    BY <1>3 DEF Navigation!GenerationStarted
  <2>2. cr \in BOOLEAN /\ (ui.crossed => cr)
    BY DEF LedSound, LedTyped
  <2> HIDE DEF cr, lt
  <2>3. DOMAIN l = DOMAIN ui /\ l.crossed = cr /\ \A f \in LedFields \ {"crossed"} : l[f] = ui[f]
    BY DEF LedSound, LedTyped, LedFields, Navigation!Listen
  <2> HIDE DEF l
  <2>4. LedSound(l)
    BY <1>2, <2>2, <2>3
  <2> QED BY <2>1, <2>4, LedHelpers
<1>4. ASSUME NEW t \in Navigation!Tasks, Navigation!ConnectionLost(t) PROVE LedSound(ui')
  <2> DEFINE w == [ui EXCEPT !.polled = @ \cup {t}]
  <2>1. ui' = w /\ DOMAIN w = DOMAIN ui /\ \A f \in LedFields : w[f] = ui[f]
    BY <1>4 DEF Navigation!ConnectionLost, LedFields
  <2> HIDE DEF w
  <2> QED BY <2>1, LedBeside
<1>5. ASSUME NEW t \in Navigation!Tasks, Navigation!GenerationComplete(t) \/ Navigation!GenerationError(t)
      PROVE  LedSound(ui')
  <2> DEFINE x == Navigation!Closed(ui, t)
             v == [x EXCEPT !.task = 0, !.source = 0]
  <2>1. ui' \in {Navigation!LoadRoute(v), Navigation!TransitionTo(v, "setup")}
    BY <1>5 DEF Navigation!GenerationComplete, Navigation!GenerationError
  <2>2. DOMAIN v = DOMAIN ui /\ \A f \in LedFields : v[f] = ui[f]
    BY DEF LedFields, Navigation!Closed
  <2> HIDE DEF v
  <2> QED BY <2>1, <2>2, LedBeside, LedHelpers
<1>6. ASSUME NEW c \in ui.cancels, Navigation!Cancelled(c) PROVE LedSound(ui')
  <2> DEFINE cr == ui.crossed \/ ui.task # c.task \/ ui.source # 0
             v == [ui EXCEPT !.cancels = @ \ {c}, !.task = 0, !.crossed = cr]
  <2>1. cr \in BOOLEAN /\ (ui.crossed => cr)
    BY DEF LedSound, LedTyped
  <2>2. ui' = Navigation!AfterCancel(v, c.change, c.to)
    BY <1>6 DEF Navigation!Cancelled
  <2> HIDE DEF cr
  <2>3. DOMAIN v = DOMAIN ui /\ v.crossed = cr /\ \A f \in LedFields \ {"crossed"} : v[f] = ui[f]
    BY DEF LedSound, LedTyped, LedFields
  <2> HIDE DEF v
  <2>4. LedSound(v)
    BY <1>2, <2>1, <2>3
  <2> QED BY <2>2, <2>4, LedCancelled
<1> QED BY <1>1, <1>3, <1>4, <1>5, <1>6 DEF Navigation!Generating

LEMMA LedSaved ==
    ASSUME LedSound(ui), Navigation!Saving
    PROVE  LedSound(ui')
<1>1. ASSUME NEW w, NEW c, DOMAIN w = DOMAIN ui, \A f \in LedFields \ {"cov"} : w[f] = ui[f], w.cov = c,
             DOMAIN c = DOMAIN ui.cov, c.und = ui.cov.und
      PROVE  LedSound(w)
  BY <1>1, LedSame DEF LedFields
<1>2. CASE Navigation!DebounceEnds \/ Navigation!RetryTimer
  <2> DEFINE c == [ui.cov EXCEPT !.debounce = FALSE]
             d == [ui.cov EXCEPT !.retry = FALSE]
             u == [ui EXCEPT !.cov = c]
             v == [ui EXCEPT !.cov = d]
  <2>1. DOMAIN c = DOMAIN ui.cov /\ c.und = ui.cov.und /\ DOMAIN d = DOMAIN ui.cov /\ d.und = ui.cov.und
    BY DEF LedSound, LedTyped, CovFields
  <2>2. ui' \in {Navigation!PersistDrivenSegments(u), Navigation!PersistDrivenSegments(v)}
    BY <1>2 DEF Navigation!DebounceEnds, Navigation!RetryTimer
  <2> HIDE DEF c, d
  <2>3. /\ DOMAIN u = DOMAIN ui /\ (\A f \in LedFields \ {"cov"} : u[f] = ui[f]) /\ u.cov = c
        /\ DOMAIN v = DOMAIN ui /\ (\A f \in LedFields \ {"cov"} : v[f] = ui[f]) /\ v.cov = d
    BY DEF LedSound, LedTyped, LedFields
  <2> HIDE DEF u, v
  <2>4. LedSound(u) /\ LedSound(v)
    BY <1>1, <2>1, <2>3
  <2> QED BY <2>2, <2>4, LedHelpers
<1>3. ASSUME NEW p \in ui.puts, Navigation!PersistDone(p) PROVE LedSound(ui')
  <2> DEFINE c == [ui.cov EXCEPT !.fails = 0, !.retry = FALSE]
             st == ui.stranded \/ (ui.cov.pend # {} /\ ~ui.cov.debounce)
             w == [ui EXCEPT !.puts = @ \ {p}, !.kept = @ \cup p.segs, !.cov = c, !.stranded = st]
  <2>1. DOMAIN c = DOMAIN ui.cov /\ c.und = ui.cov.und
    BY DEF LedSound, LedTyped, CovFields
  <2> HIDE DEF st
  <2>2. ui' = w
    BY <1>3 DEF Navigation!PersistDone, st, LedSound, LedTyped, LedFields, CovFields
  <2> HIDE DEF c
  <2>3. DOMAIN w = DOMAIN ui /\ (\A f \in LedFields \ {"cov"} : w[f] = ui[f]) /\ w.cov = c
    BY DEF LedSound, LedTyped, LedFields
  <2> HIDE DEF w
  <2> QED BY <1>1, <2>1, <2>2, <2>3
<1>4. ASSUME NEW p \in ui.puts, Navigation!PersistFails(p) PROVE LedSound(ui')
  <2> DEFINE n == ui.cov.fails + 1
             fl == IF n > MaxPersistRetries THEN ui.cov.fails ELSE n
             c == [ui.cov EXCEPT !.pend = @ \cup p.segs, !.fails = fl]
             d == [c EXCEPT !.retry = FALSE]
             e == [c EXCEPT !.retry = TRUE]
             u == [ui EXCEPT !.puts = @ \ {p}, !.cov = c, !.dropped = @ \ p.segs]
             v == [u EXCEPT !.cov = d]
             w == [u EXCEPT !.cov = e]
  <2> HIDE DEF fl
  <2>1. /\ DOMAIN d = DOMAIN ui.cov /\ d.und = ui.cov.und /\ DOMAIN e = DOMAIN ui.cov /\ e.und = ui.cov.und
    BY DEF LedSound, LedTyped, CovFields
  <2>2. ui' \in {v, w}
    <3> DEFINE x == [ui EXCEPT !.puts = @ \ {p}, !.cov.pend = @ \cup p.segs, !.dropped = @ \ p.segs, !.cov.fails = fl]
    <3>1. ui' \in {[x EXCEPT !.cov.retry = FALSE], [x EXCEPT !.cov.retry = TRUE]}
      BY <1>4 DEF Navigation!PersistFails, fl
    <3>2. x = u /\ x.cov = c
      BY DEF LedSound, LedTyped, LedFields, CovFields
    <3> HIDE DEF x, u
    <3> QED BY <3>1, <3>2
  <2> HIDE DEF c, d, e
  <2>3. /\ DOMAIN v = DOMAIN ui /\ (\A f \in LedFields \ {"cov"} : v[f] = ui[f]) /\ v.cov = d
        /\ DOMAIN w = DOMAIN ui /\ (\A f \in LedFields \ {"cov"} : w[f] = ui[f]) /\ w.cov = e
    BY DEF LedSound, LedTyped, LedFields
  <2> HIDE DEF u, v, w
  <2>4. LedSound(v) /\ LedSound(w)
    BY <1>1, <2>1, <2>3
  <2> QED BY <2>2, <2>4
<1> QED BY <1>2, <1>3, <1>4 DEF Navigation!Saving

(* The next request of a load is made for the area of that moment.         *)
LEMMA LedOn ==
    ASSUME NEW u, LedTyped(u), NEW l, {"id", "at", "of", "base"} \subseteq DOMAIN l, NEW at,
           ~u.crossed /\ u.area = l.of =>
               /\ \A x \in u.loads \ {l} : x.at = "route" => x.base = x.of
               /\ at = "route" => l.base = l.of
               /\ u.loaded => u.route = u.area /\ u.base = u.area /\ u.cov.und \subseteq Navigation!SegmentsOf(u.area)
    PROVE  LedSound(Navigation!On(l, at, u))
<1> DEFINE m == [l EXCEPT !.at = at, !.of = u.area]
           cr == u.crossed \/ u.area # l.of
           ls == (u.loads \ {l}) \cup {m}
           w == [u EXCEPT !.loads = ls, !.crossed = cr]
<1>1. Navigation!On(l, at, u) = w
  BY DEF Navigation!On
<1>2. DOMAIN m = DOMAIN l /\ m.at = at /\ m.of = u.area /\ m.base = l.base
  OBVIOUS
<1> HIDE DEF m
<1>3. /\ cr \in BOOLEAN /\ (~cr => ~u.crossed /\ u.area = l.of)
  BY DEF LedTyped
<1>4. ~cr => \A x \in ls : x.at = "route" => x.base = x.of
  BY <1>2, <1>3
<1>5. \A x \in ls : {"id", "at", "of", "base"} \subseteq DOMAIN x
  BY <1>2 DEF LedTyped
<1> HIDE DEF cr, ls
<1>6. /\ DOMAIN w = DOMAIN u /\ w.crossed = cr /\ w.loads = ls
      /\ \A f \in DOMAIN u \ {"loads", "crossed"} : w[f] = u[f]
  BY DEF LedTyped, LedFields
<1> HIDE DEF w
<1>7. w.area = u.area /\ w.loaded = u.loaded /\ w.route = u.route /\ w.base = u.base /\ w.cov = u.cov
  BY <1>6 DEF LedTyped, LedFields
<1>8. LedTyped(w)
  BY <1>3, <1>5, <1>6, <1>7 DEF LedTyped
<1> QED BY <1>1, <1>3, <1>4, <1>6, <1>7, <1>8 DEF LedSound

LEMMA LedLoads ==
    ASSUME LedSound(ui), NEW l \in ui.loads,
           \/ Navigation!AreaArrives(l) \/ Navigation!RouteArrives(l) \/ Navigation!SegmentsSettled(l)
           \/ Navigation!EtaArrives(l) \/ Navigation!LoadFails(l)
    PROVE  LedSound(ui')
<1> DEFINE none == [ui EXCEPT !.loads = @ \ {l}]
<1>1. /\ DOMAIN none = DOMAIN ui /\ none.loads = ui.loads \ {l} /\ \A f \in DOMAIN ui \ {"loads"} : none[f] = ui[f]
  BY DEF LedSound, LedTyped, LedFields
<1>2. {"id", "at", "of", "base"} \subseteq DOMAIN l
  BY DEF LedSound, LedTyped
<1> HIDE DEF none
<1>3. LedSound(none)
  BY <1>1 DEF LedSound, LedTyped, LedFields
<1>4. CASE Navigation!AreaArrives(l)
  <2> DEFINE m == [l EXCEPT !.base = l.of]
  <2>1. ui' \in {Navigation!On(m, "route", none), Navigation!AutoGenerateRoute(none)}
    BY <1>4 DEF Navigation!AreaArrives, none
  <2>2. {"id", "at", "of", "base"} \subseteq DOMAIN m /\ m.base = m.of
    BY <1>2
  <2> HIDE DEF m
  <2>3. LedSound(Navigation!On(m, "route", none))
    BY <1>3, <2>2, LedOn DEF LedSound
  <2> QED BY <1>3, <2>1, <2>3, LedHelpers
<1>5. CASE Navigation!RouteArrives(l)
  <2> DEFINE u == [ui EXCEPT !.route = l.of, !.base = l.base, !.loaded = TRUE, !.line = l.of]
             v == [u EXCEPT !.cov.area = u.area]
             c == [v.cov EXCEPT !.und = {}, !.pend = {}, !.debounce = FALSE, !.retry = FALSE, !.fails = 0]
             w == [v EXCEPT !.dropped = @ \cup v.cov.pend, !.cov = c]
  <2>1. l.at = "route" /\ ui' = Navigation!On(l, "segments", w)
    BY <1>5 DEF Navigation!RouteArrives, Navigation!ResetCoverage
  <2>2. /\ DOMAIN v = DOMAIN ui /\ v.route = l.of /\ v.base = l.base /\ v.loaded = TRUE /\ DOMAIN v.cov = CovFields
        /\ v.area = ui.area /\ v.crossed = ui.crossed /\ v.loads = ui.loads
    BY DEF LedSound, LedTyped, LedFields
  <2> HIDE DEF v
  <2>3. DOMAIN c = CovFields /\ c.und = {}
    BY <2>2 DEF CovFields
  <2> HIDE DEF c
  <2>4. /\ DOMAIN w = DOMAIN ui /\ w.route = l.of /\ w.base = l.base /\ w.loaded = TRUE /\ w.cov = c
        /\ w.area = ui.area /\ w.crossed = ui.crossed /\ w.loads = ui.loads
    BY <2>2 DEF LedSound, LedTyped, LedFields
  <2> HIDE DEF w
  <2>5. LedTyped(w)
    BY <2>3, <2>4 DEF LedSound, LedTyped
  <2>6. ~w.crossed => \A x \in w.loads : x.at = "route" => x.base = x.of
    BY <2>4 DEF LedSound
  <2>7. ~w.crossed /\ w.area = l.of => w.route = w.area /\ w.base = w.area /\ w.cov.und \subseteq Navigation!SegmentsOf(w.area)
    BY <2>1, <2>3, <2>4, <2>6
  <2> QED BY <1>2, <2>1, <2>5, <2>6, <2>7, LedOn
<1>6. CASE Navigation!SegmentsSettled(l)
  <2> PICK segs \in {{}, Navigation!SegmentsOf(l.of) \ ui.kept} : ui' = Navigation!On(l, "eta", [ui EXCEPT !.cov.und = @ \cup segs])
    BY <1>6 DEF Navigation!SegmentsSettled
  <2> DEFINE c == [ui.cov EXCEPT !.und = @ \cup segs]
             w == [ui EXCEPT !.cov = c]
  <2>1. DOMAIN c = CovFields /\ c.und = ui.cov.und \cup segs
    BY DEF LedSound, LedTyped, CovFields
  <2>2. ui' = Navigation!On(l, "eta", w)
    OBVIOUS
  <2>3. segs \subseteq Navigation!SegmentsOf(l.of)
    OBVIOUS
  <2> HIDE DEF c
  <2>4. DOMAIN w = DOMAIN ui /\ w.cov = c /\ \A f \in DOMAIN ui \ {"cov"} : w[f] = ui[f]
    BY DEF LedSound, LedTyped, LedFields
  <2> HIDE DEF w
  <2>5. LedTyped(w)
    BY <2>1, <2>4 DEF LedSound, LedTyped, LedFields
  <2>6. /\ w.area = ui.area /\ w.loaded = ui.loaded /\ w.route = ui.route /\ w.base = ui.base /\ w.crossed = ui.crossed /\ w.loads = ui.loads
    BY <2>4 DEF LedSound, LedTyped, LedFields
  <2>7. ~w.crossed /\ w.area = l.of =>
               /\ \A x \in w.loads : x.at = "route" => x.base = x.of
               /\ w.loaded => w.route = w.area /\ w.base = w.area /\ w.cov.und \subseteq Navigation!SegmentsOf(w.area)
    BY <2>1, <2>3, <2>4, <2>6 DEF LedSound
  <2> QED BY <1>2, <2>2, <2>5, <2>7, LedOn
<1>7. CASE Navigation!EtaArrives(l)
  <2> DEFINE u == [ui EXCEPT !.loads = @ \ {l}, !.late = @ \/ ui.left]
  <2>1. ui' = Navigation!TransitionTo(u, "preview")
    BY <1>7 DEF Navigation!EtaArrives
  <2>2. DOMAIN u = DOMAIN none /\ \A f \in LedFields : u[f] = none[f]
    BY DEF LedFields, none
  <2> HIDE DEF u
  <2> QED BY <1>3, <2>1, <2>2, LedBeside, LedHelpers
<1>8. CASE Navigation!LoadFails(l)
  <2> DEFINE u == [ui EXCEPT !.loads = @ \ {l}, !.loaded = FALSE, !.line = NoArea]
             sk == u.stuck \/ u.st = "generating"
             s == [u EXCEPT !.stuck = sk]
             i == [u EXCEPT !.area = NoArea]
  <2>1. ui' \in {s, Navigation!ResetRouteState(i), Navigation!AutoGenerateRoute(u)}
    BY <1>8 DEF Navigation!LoadFails, Navigation!InvalidateSelectedArea
  <2>2. /\ DOMAIN u = DOMAIN none /\ u.loaded = FALSE /\ \A f \in LedFields \ {"loaded"} : u[f] = none[f]
    BY DEF none, LedFields, LedSound, LedTyped
  <2> HIDE DEF u, sk
  <2>3. LedSound(u)
    BY <1>3, <2>2 DEF LedSound, LedTyped, LedFields
  <2>4. DOMAIN s = DOMAIN u /\ (\A f \in LedFields : s[f] = u[f])
    BY DEF LedFields
  <2>5. DOMAIN i = DOMAIN u /\ \A f \in DOMAIN u \ {"area"} : i[f] = u[f]
    OBVIOUS
  <2> HIDE DEF s, i
  <2>6. LedSound(i)
    BY <2>2, <2>3, <2>5 DEF LedSound, LedTyped, LedFields
  <2> QED BY <2>1, <2>3, <2>4, <2>6, LedBeside, LedHelpers
<1> QED BY <1>4, <1>5, <1>6, <1>7, <1>8

LEMMA LedLoading ==
    ASSUME LedSound(ui), Navigation!Loading
    PROVE  LedSound(ui')
<1>1. ASSUME NEW c \in ui.checks, Navigation!PositionUnknown(c) \/ Navigation!WayArrives(c) \/ \E b \in BOOLEAN : Navigation!PositionKnown(c, b)
      PROVE  LedSound(ui')
  <2> DEFINE u(p) == [ui EXCEPT !.checks = @ \ {c}, !.prev = p, !.smart = ui.route]
             d == [c EXCEPT !.at = "way"]
             v(p) == [u(p) EXCEPT !.checks = @ \cup {d}]
             w(x) == [ui EXCEPT !.checks = @ \ {c}, !.way = x]
             n == [ui EXCEPT !.checks = @ \ {c}]
  <2>1. ui' = n \/ (\E x : ui' = w(x)) \/ \E p : ui' \in {u(p), v(p)}
    BY <1>1 DEF Navigation!PositionUnknown, Navigation!WayArrives, Navigation!PositionKnown
  <2> HIDE DEF d
  <2>2. DOMAIN n = DOMAIN ui /\ \A f \in LedFields : n[f] = ui[f]
    BY DEF LedFields
  <2>3. ASSUME NEW p PROVE /\ DOMAIN u(p) = DOMAIN ui /\ \A f \in LedFields : u(p)[f] = ui[f]
                           /\ DOMAIN v(p) = DOMAIN ui /\ \A f \in LedFields : v(p)[f] = ui[f]
                           /\ DOMAIN w(p) = DOMAIN ui /\ \A f \in LedFields : w(p)[f] = ui[f]
    BY DEF LedFields
  <2> HIDE DEF n, u, v, w
  <2> QED BY <2>1, <2>2, <2>3, LedBeside
<1>2. ASSUME NEW e \in ui.ends, Navigation!EndSaved(e) PROVE LedSound(ui')
  <2>1. DOMAIN ui' = DOMAIN ui /\ \A f \in LedFields : ui'[f] = ui[f]
    BY <1>2 DEF Navigation!EndSaved, LedFields
  <2> QED BY <2>1, LedBeside
<1>3. ASSUME NEW e \in ui.ends, Navigation!EndRefreshed(e) PROVE LedSound(ui')
  <2> DEFINE cr == ui.crossed \/ e.of # ui.area
             v == [ui EXCEPT !.ends = @ \ {e}]
             w == [ui EXCEPT !.ends = @ \ {e}, !.base = e.of, !.crossed = cr]
  <2>1. ui' = v \/ ui' = w
    BY <1>3 DEF Navigation!EndRefreshed
  <2>2. DOMAIN v = DOMAIN ui /\ \A f \in LedFields : v[f] = ui[f]
    BY DEF LedFields
  <2> HIDE DEF v
  <2>3. cr \in BOOLEAN /\ (~cr => ~ui.crossed /\ e.of = ui.area)
    BY DEF LedSound, LedTyped
  <2> HIDE DEF cr
  <2>4. DOMAIN w = DOMAIN ui /\ w.base = e.of /\ w.crossed = cr /\ \A f \in DOMAIN ui \ {"ends", "base", "crossed"} : w[f] = ui[f]
    BY DEF LedSound, LedTyped, LedFields
  <2> HIDE DEF w
  <2>5. LedSound(w)
    BY <2>3, <2>4 DEF LedSound, LedTyped, LedFields
  <2> QED BY <2>1, <2>2, <2>5, LedBeside
<1>4. CASE Navigation!WayToStartArrives
  <2> DEFINE u == [ui EXCEPT !.leads = @ - 1, !.late = @ \/ ui.left \/ ~ui.loaded]
             v == Navigation!TransitionTo(u, "to_start")
             w == [v EXCEPT !.nav = TRUE]
  <2>1. DOMAIN u = DOMAIN ui /\ \A f \in LedFields : u[f] = ui[f]
    BY DEF LedFields
  <2>2. ui' = Navigation!StartGeolocation(w)
    BY <1>4 DEF Navigation!WayToStartArrives, Navigation!LeadToStart
  <2> HIDE DEF u
  <2>3. LedSound(v)
    BY <2>1, LedBeside, LedHelpers
  <2> HIDE DEF v
  <2>4. DOMAIN w = DOMAIN v /\ \A f \in LedFields : w[f] = v[f]
    BY DEF LedFields
  <2> HIDE DEF w
  <2> QED BY <2>2, <2>3, <2>4, LedBeside, LedHelpers
<1>5. CASE Navigation!OfferAnswered
  <2> DEFINE u == [ui EXCEPT !.offers = @ - 1, !.late = @ \/ ~ui.nav]
             v == [u EXCEPT !.resume = TRUE]
  <2>1. /\ DOMAIN u = DOMAIN ui /\ (\A f \in LedFields : u[f] = ui[f])
        /\ DOMAIN v = DOMAIN ui /\ \A f \in LedFields : v[f] = ui[f]
    BY DEF LedFields
  <2>2. \/ ui' = Navigation!TransitionTo(v, "ahead")
        \/ ui' = Navigation!TransitionTo(u, "off_route")
    BY <1>5 DEF Navigation!OfferAnswered
  <2> HIDE DEF u, v
  <2> QED BY <2>1, <2>2, LedBeside, LedHelpers
<1>6. CASE Navigation!StartTimer
  <2> DEFINE u == [ui EXCEPT !.timer = FALSE]
  <2>1. DOMAIN u = DOMAIN ui /\ (\A f \in LedFields : u[f] = ui[f])
    BY DEF LedFields
  <2>2. ui' = IF u.st = "at_start" THEN Navigation!TransitionTo(u, "active") ELSE u
    BY <1>6 DEF Navigation!StartTimer
  <2> HIDE DEF u
  <2> QED BY <2>1, <2>2, LedBeside, LedHelpers
<1>7. CASE Navigation!HandleGeolocationError
  <2>1. DOMAIN ui' = DOMAIN ui /\ \A f \in LedFields : ui'[f] = ui[f]
    BY <1>7 DEF Navigation!HandleGeolocationError, LedFields
  <2> QED BY <2>1, LedBeside
<1> QED BY <1>1, <1>2, <1>3, <1>4, <1>5, <1>6, <1>7, LedLoads DEF Navigation!Loading

LEMMA LedActs ==
    ASSUME LedSound(ui), Navigation!Acts
    PROVE  LedSound(ui')
<1>1. CASE Navigation!ClickLoad
  <2>1. LedSound(Navigation!LoadRoute(ui))
    BY LedHelpers
  <2> QED BY <1>1, <2>1, LedHelpers DEF Navigation!ClickLoad
<1>2. CASE Navigation!ClickCancel
  <2>1. LedSound(Navigation!CancelGeneration(ui, FALSE, NoArea))
    BY LedCancelled
  <2> QED BY <1>2, <2>1, LedHelpers DEF Navigation!ClickCancel
<1>3. CASE Navigation!RegenerateRoute
  <2>1. LedSound(Navigation!ResetRouteState(ui))
    BY LedHelpers
  <2>2. LedSound(Navigation!AutoGenerateRoute(Navigation!ResetRouteState(ui)))
    BY <2>1, LedHelpers
  <2> QED BY <1>3, <2>2, LedHelpers DEF Navigation!RegenerateRoute
<1>4. ASSUME NEW a, Navigation!HandleAreaChange(a) PROVE LedSound(ui')
  <2> DEFINE cr == ui.crossed \/ ui.cancels # {}
             u == [ui EXCEPT !.crossed = cr]
             v == Navigation!CancelGeneration(u, TRUE, a)
  <2>1. ui' = Navigation!Acted(v)
    BY <1>4 DEF Navigation!HandleAreaChange
  <2>2. cr \in BOOLEAN /\ (ui.crossed => cr)
    BY DEF LedSound, LedTyped
  <2> HIDE DEF cr
  <2>3. DOMAIN u = DOMAIN ui /\ u.crossed = cr /\ \A f \in DOMAIN ui \ {"crossed"} : u[f] = ui[f]
    BY DEF LedSound, LedTyped, LedFields
  <2> HIDE DEF u
  <2>4. LedSound(u)
    BY <2>2, <2>3 DEF LedSound, LedTyped, LedFields
  <2>5. LedSound(v)
    BY <2>4, LedCancelled
  <2> HIDE DEF v
  <2> QED BY <2>1, <2>5, LedHelpers
<1>5. CASE Navigation!StartNavigatingToStart
  <2> DEFINE u == Navigation!TransitionTo(ui, "to_start")
             v == [u EXCEPT !.nav = TRUE]
             w == Navigation!StartGeolocation(v)
             x == [ui EXCEPT !.leads = @ + 1]
  <2>1. LedSound(u)
    BY LedHelpers
  <2>2. DOMAIN x = DOMAIN ui /\ \A f \in LedFields : x[f] = ui[f]
    BY DEF LedFields
  <2>3. ui' \in {Navigation!Acted(w), Navigation!Acted(x)}
    BY <1>5 DEF Navigation!StartNavigatingToStart, Navigation!LeadToStart
  <2> HIDE DEF u, x
  <2>4. DOMAIN v = DOMAIN u /\ \A f \in LedFields : v[f] = u[f]
    BY DEF LedFields
  <2> HIDE DEF v
  <2>5. LedSound(w) /\ LedSound(x)
    BY <2>1, <2>2, <2>4, LedBeside, LedHelpers
  <2> HIDE DEF w
  <2> QED BY <2>3, <2>5, LedHelpers
<1>6. ASSUME NEW gps, Navigation!BeginNavigation(gps) PROVE LedSound(ui')
  <2> DEFINE u == Navigation!TransitionTo(ui, "active")
             v == Navigation!StartNavigation(u)
             w == Navigation!StartGeolocation(v)
  <2>1. LedSound(u)
    BY LedHelpers
  <2>2. ui' \in {Navigation!Acted(v), Navigation!Acted(w)}
    BY <1>6 DEF Navigation!BeginNavigation
  <2> HIDE DEF u
  <2>3. LedSound(v)
    BY <2>1, LedHelpers
  <2> HIDE DEF v
  <2>4. LedSound(w)
    BY <2>3, LedHelpers
  <2> HIDE DEF w
  <2> QED BY <2>2, <2>3, <2>4, LedHelpers
<1>7. ASSUME NEW f, NEW segs, Navigation!UpdateNavigation(f, segs) PROVE LedSound(ui')
  <2> DEFINE v == Navigation!Acted(ui)
             u == Navigation!MarkSegmentsDriven(v, segs)
             x == Navigation!TransitionTo(u, "at_start")
             h == Navigation!HandleNavigationStateTransitions(u, f)
             o == [u EXCEPT !.offers = @ + 1]
             y == [x EXCEPT !.timer = TRUE]
             z == [h EXCEPT !.prev = f]
  <2>1. LedSound(v)
    BY LedHelpers
  <2>2. ui' \in {y, u, z}
    BY <1>7 DEF Navigation!UpdateNavigation
  <2> HIDE DEF v
  <2>3. LedSound(u)
    BY <2>1, LedHelpers
  <2> HIDE DEF u
  <2>4. LedSound(x)
    BY <2>3, LedHelpers
  <2> HIDE DEF x
  <2>5. DOMAIN o = DOMAIN u /\ \A k \in LedFields : o[k] = u[k]
    BY DEF LedFields
  <2>6. h \in {u, o, Navigation!TransitionTo(u, "arrived"),
              Navigation!TransitionTo(u, "off_route"), Navigation!TransitionTo(u, "active")}
    BY DEF Navigation!HandleNavigationStateTransitions, Navigation!OfferResumeFromAhead
  <2> HIDE DEF h, o
  <2>7. LedSound(h)
    BY <2>3, <2>5, <2>6, LedBeside, LedHelpers
  <2>8. /\ DOMAIN y = DOMAIN x /\ (\A k \in LedFields : y[k] = x[k])
        /\ DOMAIN z = DOMAIN h /\ \A k \in LedFields : z[k] = h[k]
    BY DEF LedFields
  <2> HIDE DEF y, z
  <2> QED BY <2>2, <2>3, <2>4, <2>7, <2>8, LedBeside
<1>8. CASE Navigation!ResumeFromAhead \/ Navigation!DismissResumePrompt
  <2> DEFINE u == [ui EXCEPT !.resume = FALSE]
             v == Navigation!TransitionTo(u, "active")
             w == Navigation!TransitionTo(u, "off_route")
  <2>1. DOMAIN u = DOMAIN ui /\ \A k \in LedFields : u[k] = ui[k]
    BY DEF LedFields
  <2>2. ui' \in {Navigation!Acted(v), Navigation!Acted(w)}
    BY <1>8 DEF Navigation!ResumeFromAhead, Navigation!DismissResumePrompt
  <2> HIDE DEF u
  <2>3. LedSound(v) /\ LedSound(w)
    BY <2>1, LedBeside, LedHelpers
  <2> HIDE DEF v, w
  <2> QED BY <2>2, <2>3, LedHelpers
<1>9. CASE Navigation!EndNavigation
  <2> DEFINE x == [ui EXCEPT !.nav = FALSE, !.watch = FALSE]
             y == Navigation!TransitionTo(x, "setup")
             u == Navigation!PersistDrivenSegments(y)
             v == [u EXCEPT !.ends = @ \cup {[id |-> u.steps, at |-> "save", of |-> NoArea]}]
  <2>1. DOMAIN x = DOMAIN ui /\ \A k \in LedFields : x[k] = ui[k]
    BY DEF LedFields
  <2>2. ui' = Navigation!Acted(v)
    BY <1>9 DEF Navigation!EndNavigation
  <2> HIDE DEF x
  <2>3. LedSound(y)
    BY <2>1, LedBeside, LedHelpers
  <2> HIDE DEF y
  <2>4. LedSound(u)
    BY <2>3, LedHelpers
  <2> HIDE DEF u
  <2>5. DOMAIN v = DOMAIN u /\ \A k \in LedFields : v[k] = u[k]
    BY DEF LedFields
  <2> HIDE DEF v
  <2> QED BY <2>2, <2>4, <2>5, LedBeside, LedHelpers
<1>10. CASE Navigation!ThemeChanges
  <2> DEFINE v == [ui EXCEPT !.line = NoArea]
  <2>1. DOMAIN v = DOMAIN ui /\ (\A k \in LedFields : v[k] = ui[k]) /\ ui' = Navigation!Acted(v)
    BY <1>10 DEF Navigation!ThemeChanges, LedFields
  <2> HIDE DEF v
  <2> QED BY <2>1, LedBeside, LedHelpers
<1>11. CASE Navigation!Leave
  <2> DEFINE x == Navigation!CancelGeneration(ui, FALSE, NoArea)
             y == [x EXCEPT !.left = TRUE]
             z == Navigation!PersistDrivenSegments(y)
  <2>1. LedSound(x)
    BY LedCancelled
  <2>2. ui' = Navigation!ResetRouteState(z)
    BY <1>11 DEF Navigation!Leave
  <2> HIDE DEF x
  <2>3. DOMAIN y = DOMAIN x /\ \A k \in LedFields : y[k] = x[k]
    BY DEF LedFields
  <2> HIDE DEF y
  <2>4. LedSound(z)
    BY <2>1, <2>3, LedBeside, LedHelpers
  <2> HIDE DEF z
  <2> QED BY <2>2, <2>4, LedHelpers
<1>12. CASE Navigation!ShowSetup
  <2> DEFINE u == Navigation!TransitionTo(ui, "setup")
  <2>1. LedSound(u)
    BY LedHelpers
  <2>2. ui' = Navigation!Acted(u)
    BY <1>12 DEF Navigation!ShowSetup
  <2> HIDE DEF u
  <2> QED BY <2>1, <2>2, LedHelpers
<1> QED BY <1>1, <1>2, <1>3, <1>4, <1>5, <1>6, <1>7, <1>8, <1>9, <1>10, <1>11, <1>12 DEF Navigation!Acts

LEMMA LedKept ==
    ASSUME LedSound(ui), Navigation!Next
    PROVE  LedSound(ui')
BY LedSaved, LedGenerating, LedLoading, LedActs DEF Navigation!Next

LEMMA LedStart ==
    ASSUME Navigation!Init
    PROVE  LedSound(ui)
<1> DEFINE f == Navigation!Fresh
<1>1. LedTyped(f) /\ f.loads = {} /\ f.loaded = FALSE /\ f.crossed = FALSE
  BY DEF Navigation!Fresh, LedTyped, LedFields, CovFields
<1>2. ASSUME NEW a, NEW u, u = [f EXCEPT !.area = a], NEW m, m = [u EXCEPT !.made[1] = a]
      PROVE  LedSound(u) /\ LedSound(Navigation!Listen(m, 1))
  <2> DEFINE l == Navigation!Listen(m, 1)
  <2> HIDE DEF f
  <2>1. DOMAIN u = DOMAIN f /\ \A k \in LedFields \ {"area"} : u[k] = f[k]
    BY <1>2, <1>1 DEF LedTyped, LedFields
  <2>2. LedSound(u)
    BY <1>1, <2>1 DEF LedSound, LedTyped, LedFields
  <2>3. DOMAIN l = DOMAIN u /\ \A k \in LedFields : l[k] = u[k]
    BY <1>2 DEF LedFields, Navigation!Listen
  <2> HIDE DEF l
  <2>4. LedSound(l)
    BY <2>2, <2>3, LedBeside
  <2> QED BY <2>2, <2>4 DEF l
<1>3. ASSUME NEW a, NEW s PROVE LedSound(Navigation!Driving(a, s))
  <2> DEFINE c == [f.cov EXCEPT !.area = a, !.und = Navigation!SegmentsOf(a)]
             d == [f EXCEPT !.area = a, !.st = s, !.panel = s, !.smart = a, !.loaded = TRUE, !.route = a,
                            !.base = a, !.line = a, !.cov = c, !.nav = TRUE, !.watch = TRUE, !.prev = "on"]
  <2> HIDE DEF f
  <2>1. DOMAIN c = CovFields /\ c.und = Navigation!SegmentsOf(a)
    BY <1>1 DEF LedTyped, CovFields
  <2>2. Navigation!Driving(a, s) = d
    BY <1>1 DEF Navigation!Driving, f, LedTyped, LedFields, CovFields
  <2> HIDE DEF c
  <2>3. /\ DOMAIN d = DOMAIN f /\ d.area = a /\ d.route = a /\ d.base = a /\ d.cov = c /\ d.loaded = TRUE
        /\ d.loads = f.loads /\ d.crossed = f.crossed
    BY <1>1 DEF LedTyped, LedFields
  <2> HIDE DEF d
  <2> QED BY <1>1, <2>1, <2>2, <2>3 DEF LedSound, LedTyped
<1>4. LedSound(f)
  BY <1>1 DEF LedSound
<1> HIDE DEF f
<1> QED BY <1>2, <1>3, <1>4, LedHelpers DEF Navigation!Init, f

LEMMA LedToArea ==
    ASSUME LedSound(ui)
    PROVE  Navigation!RouteOfArea
BY DEF LedSound, Navigation!RouteOfArea

-----------------------------------------------------------------------------
(* The lenses of the map: of which area the suggestions are, and which     *)
(* places are listed.                                                      *)

ListFields == {"lens", "loaded", "pnet", "crossed", "listed", "places", "area", "hint", "list"}

(* While no two lists of places are on their way, the one that is knows    *)
(* all the places there are.                                               *)
ListSound(u) ==
    /\ ListFields \subseteq DOMAIN u /\ u.crossed \in BOOLEAN
    /\ u.lens = "coverage" /\ u.area # NoArea /\ u.hint = "found" => u.list = u.area
    /\ ~u.crossed => /\ \A p, q \in u.pnet : p = q
                     /\ u.lens # "none" /\ u.loaded => IF u.pnet = {} THEN u.listed = u.places
                                                       ELSE \A p \in u.pnet : p.seen = u.places

OffList(u, v) == DOMAIN v = DOMAIN u /\ \A f \in ListFields : v[f] = u[f]

LEMMA OffListSound ==
    ASSUME NEW u, ListSound(u), NEW v, OffList(u, v)
    PROVE  ListSound(v)
BY DEF ListSound, OffList, ListFields

LEMMA OffListThen ==
    ASSUME NEW u, NEW v, OffList(u, v), NEW w, OffList(v, w)
    PROVE  OffList(u, w)
BY DEF OffList

(* The scenes, the relief, the sheet and the chips are beside the lists.   *)
LEMMA OffListHelpers ==
    ASSUME NEW u, NEW s, NEW m
    PROVE  /\ OffList(u, u) /\ OffList(u, Scene!Acted(u)) /\ OffList(u, Scene!HideTripLayers(u, s)) /\ OffList(u, Scene!Refresh(u, s))
           /\ OffList(u, Scene!FinalizeDeactivate(u, s)) /\ OffList(u, Scene!DestroyScene(u, s))
           /\ OffList(u, Scene!RepairExclusiveSceneMode(u, s)) /\ OffList(u, Scene!RepairScene(u))
           /\ OffList(u, Scene!ActivateScene(u, s)) /\ OffList(u, Scene!DeactivateScene(u, s)) /\ OffList(u, Scene!DataEvent(u))
           /\ OffList(u, Scene!EnsureTerrainRelief(u)) /\ OffList(u, Scene!TerrainFails(u)) /\ OffList(u, Scene!EnsureBuildingsLayer(u))
           /\ OffList(u, Scene!DispatchStreetMode(u, m)) /\ OffList(u, Scene!SyncControlAvailability(u))
           /\ OffList(u, Scene!DeactivateCoverage(u)) /\ OffList(u, Scene!SetState(u, s))
<1>1. OffList(u, u) /\ OffList(u, Scene!Acted(u))
  BY DEF OffList, ListFields, Scene!Acted
<1>2. ASSUME NEW x, NEW k PROVE OffList(x, Scene!HideTripLayers(x, k))
  BY DEF OffList, ListFields, Scene!HideTripLayers
<1>3. ASSUME NEW x, NEW k PROVE OffList(x, Scene!Refresh(x, k))
  <2> DEFINE v == [x EXCEPT !.scene[k].dat = x.dat]
  <2>1. Scene!Refresh(x, k) = x \/ Scene!Refresh(x, k) = Scene!HideTripLayers(v, k)
    BY DEF Scene!Refresh
  <2>2. OffList(x, v) /\ OffList(x, x)
    BY DEF OffList, ListFields
  <2> HIDE DEF v
  <2> QED BY <1>2, <2>1, <2>2, OffListThen
<1>4. ASSUME NEW x, NEW k PROVE OffList(x, Scene!FinalizeDeactivate(x, k))
  <2> DEFINE r == [x.scene[k] EXCEPT !.canvas = FALSE, !.out = FALSE, !.heard = IF @ = 0 THEN 0 ELSE @ - 1]
             p == IF k = "bloom" THEN FALSE ELSE x.pin
  <2>1. Scene!FinalizeDeactivate(x, k) = [x EXCEPT !.sup = @ \ {k}, !.pin = p, !.scene[k] = r]
    BY DEF Scene!FinalizeDeactivate
  <2> HIDE DEF p, r
  <2> QED BY <2>1 DEF OffList, ListFields
<1>5. ASSUME NEW x, NEW k PROVE OffList(x, Scene!DestroyScene(x, k))
  <2> DEFINE v == [x EXCEPT !.scene[k].on = FALSE]
  <2>1. Scene!DestroyScene(x, k) = Scene!FinalizeDeactivate(v, k)
    BY DEF Scene!DestroyScene
  <2>2. OffList(x, v)
    BY DEF OffList, ListFields
  <2> HIDE DEF v
  <2> QED BY <1>4, <2>1, <2>2, OffListThen
<1>6. ASSUME NEW x, NEW k PROVE OffList(x, Scene!RepairExclusiveSceneMode(x, k))
  <2> DEFINE o == CHOOSE z \in Scene!Scenes : z # k
             v == IF x.scene[o].on THEN Scene!DestroyScene(x, o) ELSE x
  <2>1. Scene!RepairExclusiveSceneMode(x, k) = Scene!HideTripLayers(v, k)
    BY DEF Scene!RepairExclusiveSceneMode
  <2>2. OffList(x, x)
    BY DEF OffList
  <2>3. OffList(x, v)
    BY <1>5, <2>2
  <2> HIDE DEF v
  <2> QED BY <1>2, <2>1, <2>3, OffListThen
<1>7. OffList(u, Scene!RepairScene(u))
  BY <1>1, <1>6 DEF Scene!RepairScene
<1>8. OffList(u, Scene!ActivateScene(u, s))
  <2> DEFINE r == [u.scene[s] EXCEPT !.on = TRUE, !.out = FALSE, !.canvas = TRUE, !.heard = @ + 1]
             b == u.leaked \/ u.scene[s].heard > 0
             v == [u EXCEPT !.scene[s] = r, !.leaked = b]
             w == Scene!Refresh(v, s)
  <2> HIDE DEF r, b
  <2>1. Scene!ActivateScene(u, s) = u \/ Scene!ActivateScene(u, s) = Scene!RepairExclusiveSceneMode(w, s)
    BY DEF Scene!ActivateScene, r, b
  <2>2. OffList(u, v)
    BY DEF OffList, ListFields
  <2> HIDE DEF v
  <2>3. OffList(u, w)
    BY <1>3, <2>2, OffListThen
  <2> HIDE DEF w
  <2> QED BY <1>1, <1>6, <2>1, <2>3, OffListThen
<1>9. OffList(u, Scene!DeactivateScene(u, s))
  <2>1. OffList(u, [u EXCEPT !.scene[s].on = FALSE, !.scene[s].out = TRUE])
    BY DEF OffList, ListFields
  <2> QED BY <1>1, <1>4, <2>1 DEF Scene!DeactivateScene
<1>10. OffList(u, Scene!DataEvent(u))
  <2> DEFINE v == Scene!RepairScene(u)
  <2>1. \E x : Scene!DataEvent(u) = [v EXCEPT !.soon = x]
    BY DEF Scene!DataEvent
  <2> HIDE DEF v
  <2>2. OffList(v, Scene!DataEvent(u))
    BY <2>1 DEF OffList, ListFields
  <2> QED BY <1>7, <2>2, OffListThen DEF v
<1>11. OffList(u, Scene!EnsureTerrainRelief(u)) /\ OffList(u, Scene!TerrainFails(u)) /\ OffList(u, Scene!EnsureBuildingsLayer(u))
  BY DEF OffList, ListFields, Scene!EnsureTerrainRelief, Scene!TerrainFails, Scene!EnsureBuildingsLayer
<1>12. OffList(u, Scene!DispatchStreetMode(u, m)) /\ OffList(u, Scene!SyncControlAvailability(u)) /\ OffList(u, Scene!DeactivateCoverage(u))
  BY DEF OffList, ListFields, Scene!DispatchStreetMode, Scene!SyncControlAvailability, Scene!DeactivateCoverage
<1>13. OffList(u, Scene!SetState(u, s))
  <2> DEFINE v == IF s \in Scene!SheetPositions(u) THEN s ELSE "collapsed"
             b == v # "collapsed"
  <2>1. Scene!SetState(u, s) = [u EXCEPT !.sheet = v, !.locked = b]
    BY DEF Scene!SetState
  <2> HIDE DEF v, b
  <2> QED BY <2>1 DEF OffList, ListFields
<1> QED BY <1>1, <1>2, <1>3, <1>4, <1>5, <1>6, <1>7, <1>8, <1>9, <1>10, <1>11, <1>12, <1>13

LEMMA PlacesAsked ==
    ASSUME NEW u, ListSound(u)
    PROVE  ListSound(Scene!RenderPlaces(u)) /\ Scene!RenderPlaces(u).lens = u.lens
<1> DEFINE n == [id |-> u.steps, seen |-> u.places]
           cr == u.crossed \/ u.pnet # {}
           w == [u EXCEPT !.loaded = TRUE, !.pnet = @ \cup {n}, !.crossed = cr]
<1>1. Scene!RenderPlaces(u) = u \/ Scene!RenderPlaces(u) = w
  BY DEF Scene!RenderPlaces
<1>2. n.seen = u.places
  OBVIOUS
<1>3. cr \in BOOLEAN /\ (~cr => ~u.crossed /\ u.pnet = {})
  BY DEF ListSound
<1> HIDE DEF n, cr
<1>4. /\ DOMAIN w = DOMAIN u /\ w.loaded = TRUE /\ w.pnet = u.pnet \cup {n} /\ w.crossed = cr /\ w.lens = u.lens /\ w.listed = u.listed
      /\ w.places = u.places /\ w.area = u.area /\ w.hint = u.hint /\ w.list = u.list
  BY DEF ListSound, ListFields
<1> HIDE DEF w
<1>5. ListSound(w)
  BY <1>2, <1>3, <1>4 DEF ListSound
<1> QED BY <1>1, <1>4, <1>5

(* A new question takes away what was found.                               *)
LEMMA SuggestionsAsked ==
    ASSUME NEW u, ListFields \subseteq DOMAIN u, ListSound([u EXCEPT !.hint = "finding"])
    PROVE  u.area # NoArea => ListSound(Scene!RenderSuggestions(u))
<1> DEFINE n == [id |-> u.req + 1, area |-> u.area]
           v == [u EXCEPT !.hint = "finding"]
           w == [u EXCEPT !.req = @ + 1, !.hint = "finding", !.net = @ \cup {n}]
<1>1. u.area # NoArea => Scene!RenderSuggestions(u) = w
  BY DEF Scene!RenderSuggestions
<1> HIDE DEF n
<1>2. OffList(v, w)
  BY DEF OffList, ListFields
<1> HIDE DEF v, w
<1>3. ListSound(w)
  BY <1>2, OffListSound DEF v
<1> QED BY <1>1, <1>3

(* Another lens, or another area, as long as nothing counts as found.      *)
LEMMA ListElsewhere ==
    ASSUME NEW u, ListSound(u), NEW w, DOMAIN w = DOMAIN u,
           \A f \in {"pnet", "crossed", "listed", "places"} : w[f] = u[f],
           w.hint # "found" \/ w.lens # "coverage" \/ w.area = NoArea,
           (u.lens # "none" /\ w.loaded = u.loaded) \/ w.loaded = FALSE \/ w.lens = "none"
    PROVE  ListSound(w)
BY DEF ListSound, ListFields

LEMMA ListLensOn ==
    ASSUME NEW u, ListFields \subseteq DOMAIN u, NEW l, u.lens = l,
           l = "coverage" => ListSound([u EXCEPT !.hint = "finding"]), l # "coverage" => ListSound(u)
    PROVE  ListSound(Scene!Activated(u, l))
<1>1. CASE l = "coverage"
  <2> DEFINE v == Scene!SyncControlAvailability(u)
             x == IF v.stored # NoMode THEN [v EXCEPT !.last = v.stored, !.chip = v.stored]
                  ELSE IF v.last # NoMode THEN Scene!DispatchStreetMode([v EXCEPT !.chip = v.last], v.last) ELSE v
             xf == [x EXCEPT !.hint = "finding"]
             uf == [u EXCEPT !.hint = "finding"]
  <2>1. Scene!Activated(u, l) = IF v.area = NoArea THEN v ELSE Scene!RenderSuggestions(x)
    BY <1>1 DEF Scene!Activated, Scene!ActivateCoverage
  <2>2. OffList(u, v)
    BY OffListHelpers
  <2> HIDE DEF v
  <2>3. OffList(v, x)
    BY DEF OffList, ListFields, Scene!DispatchStreetMode
  <2> HIDE DEF x
  <2>4. OffList(u, x)
    BY <2>2, <2>3, OffListThen
  <2>5. OffList(uf, xf)
    BY <2>4 DEF OffList, ListFields
  <2> HIDE DEF xf, uf
  <2>6. ListSound(xf)
    BY <1>1, <2>5, OffListSound DEF uf
  <2>7. x.area = u.area /\ v.area = u.area /\ ListFields \subseteq DOMAIN x
    BY <2>2, <2>4 DEF OffList, ListFields
  <2>8. u.area # NoArea => ListSound(Scene!RenderSuggestions(x))
    BY <2>6, <2>7, SuggestionsAsked DEF xf
  <2>9. u.area = NoArea => ListSound(v)
    <3>1. ListSound(uf) /\ uf.area = u.area
      BY <1>1 DEF uf, ListFields
    <3>2. DOMAIN v = DOMAIN uf /\ \A f \in ListFields \ {"hint"} : v[f] = uf[f]
      BY <2>2 DEF OffList, ListFields, uf
    <3> QED BY <3>1, <3>2 DEF ListSound, ListFields
  <2> QED BY <2>1, <2>7, <2>8, <2>9
<1>2. CASE l = "places"
  <2>1. ListSound(Scene!RenderPlaces(u))
    BY <1>2, PlacesAsked
  <2> QED BY <1>2, <2>1, OffListHelpers, OffListSound DEF Scene!Activated
<1>3. CASE l \notin {"coverage", "places"}
  <2>1. Scene!Activated(u, l) = u \/ Scene!Activated(u, l) = Scene!ActivateScene(u, "flow")
    BY <1>3 DEF Scene!Activated
  <2> QED BY <1>3, <2>1, OffListHelpers, OffListSound
<1> QED BY <1>1, <1>2, <1>3

LEMMA ListLensOff ==
    ASSUME NEW u, NEW l
    PROVE  OffList(u, Scene!Deactivated(u, l))
BY OffListHelpers DEF Scene!Deactivated

LEMMA ListLens ==
    ASSUME ListSound(ui), Scene!Leave \/ Scene!Return \/ \E l \in Scene!Lenses : Scene!SetLens(l)
    PROVE  ListSound(ui')
<1>1. ASSUME NEW l \in Scene!Lenses, Scene!SetLens(l) PROVE ListSound(ui')
  <2> DEFINE d == Scene!Deactivated(ui, ui.lens)
             e == [d EXCEPT !.lens = l, !.saved = l]
             g == [e EXCEPT !.hint = "finding"]
  <2>1. ui' = Scene!Acted(Scene!Activated(e, l)) /\ ui.lens # "none" /\ l # "none"
    BY <1>1 DEF Scene!SetLens, Scene!User, Scene!Lenses
  <2>2. OffList(ui, d)
    BY ListLensOff
  <2> HIDE DEF d
  <2>3. ListSound(d) /\ d.lens # "none"
    BY <2>1, <2>2, OffListSound DEF OffList, ListFields
  <2>4. DOMAIN e = DOMAIN d /\ e.lens = l /\ \A f \in ListFields \ {"lens"} : e[f] = d[f]
    BY <2>3 DEF ListSound, ListFields
  <2> HIDE DEF e
  <2>5. DOMAIN g = DOMAIN d /\ g.hint = "finding" /\ g.lens = l /\ \A f \in ListFields \ {"lens", "hint"} : g[f] = d[f]
    BY <2>3, <2>4 DEF ListSound, ListFields
  <2> HIDE DEF g
  <2>6. ListSound(g)
    BY <2>3, <2>5, ListElsewhere DEF ListFields
  <2>7. ASSUME l # "coverage" PROVE ListSound(e)
    <3>1. e.loaded = d.loaded /\ e.lens # "coverage" /\ \A f \in {"pnet", "crossed", "listed", "places"} : e[f] = d[f]
      BY <2>4, <2>7 DEF ListFields
    <3> QED BY <2>3, <2>4, <3>1, ListElsewhere
  <2>8. ListFields \subseteq DOMAIN e
    BY <2>3, <2>4 DEF ListSound
  <2>9. ListSound(Scene!Activated(e, l))
    BY <2>4, <2>6, <2>7, <2>8, ListLensOn DEF g
  <2> QED BY <2>1, <2>9, OffListHelpers, OffListSound
<1>2. CASE Scene!Leave
  <2> DEFINE u == Scene!DestroyScene(ui, "flow")
             v == IF u.scene["bloom"].on THEN Scene!DestroyScene(u, "bloom") ELSE u
             d == Scene!Deactivated(v, v.lens)
             w == [d EXCEPT !.lens = "none", !.locked = FALSE, !.drag = FALSE, !.pnet = {}, !.net = {}]
  <2>1. ui' = w
    BY <1>2 DEF Scene!Leave
  <2>2. OffList(ui, u)
    BY OffListHelpers
  <2> HIDE DEF u
  <2>3. OffList(u, v)
    BY OffListHelpers
  <2> HIDE DEF v
  <2>4. OffList(v, d)
    BY ListLensOff
  <2>5. OffList(ui, d)
    BY <2>2, <2>3, <2>4, OffListThen
  <2> HIDE DEF d
  <2>6. ListSound(d)
    BY <2>5, OffListSound
  <2>7. DOMAIN w = DOMAIN d /\ w.lens = "none" /\ w.pnet = {} /\ w.crossed = d.crossed
    BY <2>6 DEF ListSound, ListFields
  <2> HIDE DEF w
  <2> QED BY <2>1, <2>6, <2>7 DEF ListSound
<1>3. CASE Scene!Return
  <2> DEFINE k == CHOOSE m \in Modes : TRUE
             u == [ui EXCEPT !.lens = ui.saved, !.loaded = FALSE, !.last = k,
                             !.hint = "none", !.list = NoArea, !.sheet = "collapsed"]
             t == Scene!EnsureTerrainRelief(u)
             b == Scene!EnsureBuildingsLayer(t)
             g == [b EXCEPT !.hint = "finding"]
  <2>1. ui' = Scene!Acted(Scene!RepairScene(Scene!Activated(b, u.saved)))
    BY <1>3 DEF Scene!Return
  <2> HIDE DEF k
  <2>2. /\ DOMAIN u = DOMAIN ui /\ u.lens = ui.saved /\ u.saved = ui.saved /\ u.loaded = FALSE /\ u.hint = "none"
        /\ \A f \in {"pnet", "crossed", "listed", "places"} : u[f] = ui[f]
    BY DEF ListSound, ListFields, Scene!Return
  <2>3. OffList(u, t) /\ OffList(t, b)
    BY OffListHelpers
  <2> HIDE DEF u, t
  <2>4. ListSound(u)
    BY <2>2, ListElsewhere
  <2>5. OffList(u, b)
    BY <2>3, OffListThen
  <2> HIDE DEF b
  <2>6. ListSound(b) /\ b.lens = u.saved /\ b.loaded = FALSE
    BY <2>2, <2>4, <2>5, OffListSound DEF OffList, ListFields
  <2>7. DOMAIN g = DOMAIN b /\ g.hint = "finding" /\ \A f \in ListFields \ {"hint"} : g[f] = b[f]
    BY <2>6 DEF ListSound, ListFields
  <2> HIDE DEF g
  <2>8. ListSound(g)
    BY <2>6, <2>7, ListElsewhere DEF ListFields
  <2>9. ListFields \subseteq DOMAIN b
    BY <2>6 DEF ListSound
  <2>10. ListSound(Scene!Activated(b, u.saved))
    BY <2>6, <2>8, <2>9, ListLensOn DEF g
  <2>11. ListSound(Scene!RepairScene(Scene!Activated(b, u.saved)))
    BY <2>10, OffListHelpers, OffListSound
  <2> QED BY <2>1, <2>11, OffListHelpers, OffListSound
<1> QED BY <1>1, <1>2, <1>3

LEMMA ListAnswers ==
    ASSUME ListSound(ui), Scene!Timers \/ Scene!Answers
    PROVE  ListSound(ui')
<1>1. ASSUME NEW u, OffList(ui, u), NEW v, OffList(u, v) PROVE ListSound(v)
  BY <1>1, OffListSound, OffListThen
<1>2. ASSUME NEW s, Scene!FadedOut(s) \/ Scene!RefreshTimer(s) PROVE ListSound(ui')
  <2> DEFINE u == [ui EXCEPT !.soon[s] = @ - 1]
  <2>1. OffList(ui, u) /\ OffList(ui, ui)
    BY DEF OffList, ListFields
  <2>2. ui' = Scene!FinalizeDeactivate(ui, s) \/ ui' = Scene!Refresh(u, s)
    BY <1>2 DEF Scene!FadedOut, Scene!RefreshTimer
  <2> HIDE DEF u
  <2> QED BY <1>1, <2>1, <2>2, OffListHelpers
<1>3. ASSUME NEW r \in ui.pnet, Scene!PlacesArrive(r) \/ Scene!PlacesFail(r) PROVE ListSound(ui')
  <2> DEFINE v == [ui EXCEPT !.pnet = @ \ {r}, !.listed = r.seen]
             w == [ui EXCEPT !.pnet = @ \ {r}, !.loaded = FALSE]
  <2>1. ui' = v \/ ui' = w
    BY <1>3 DEF Scene!PlacesArrive, Scene!PlacesFail
  <2>2. /\ DOMAIN v = DOMAIN ui /\ v.pnet = ui.pnet \ {r} /\ v.listed = r.seen
        /\ \A f \in ListFields \ {"pnet", "listed"} : v[f] = ui[f]
        /\ DOMAIN w = DOMAIN ui /\ w.pnet = ui.pnet \ {r} /\ w.loaded = FALSE
        /\ \A f \in ListFields \ {"pnet", "loaded"} : w[f] = ui[f]
    BY DEF ListSound, ListFields
  <2> HIDE DEF v, w
  <2> QED BY <2>1, <2>2 DEF ListSound, ListFields
<1>4. ASSUME NEW r \in ui.net, Scene!SuggestionsArrive(r) \/ Scene!SuggestionsFail(r) PROVE ListSound(ui')
  <2> DEFINE u == [ui EXCEPT !.net = @ \ {r}]
             v == [ui EXCEPT !.net = @ \ {r}, !.hint = "found", !.list = r.area]
             w == [ui EXCEPT !.net = @ \ {r}, !.hint = "failed"]
  <2>1. ui' = u \/ (ui' = v /\ r.area = ui.area) \/ ui' = w
    BY <1>4 DEF Scene!SuggestionsArrive, Scene!SuggestionsFail, Scene!Current
  <2>2. OffList(ui, u)
    BY DEF OffList, ListFields
  <2>3. /\ DOMAIN v = DOMAIN ui /\ v.list = r.area /\ \A f \in ListFields \ {"hint", "list"} : v[f] = ui[f]
        /\ DOMAIN w = DOMAIN ui /\ w.hint = "failed" /\ \A f \in ListFields \ {"hint"} : w[f] = ui[f]
    BY DEF ListSound, ListFields
  <2> HIDE DEF u, v, w
  <2>4. r.area = ui.area => ListSound(v)
    BY <2>3 DEF ListSound, ListFields
  <2>5. ListSound(w)
    BY <2>3 DEF ListSound, ListFields
  <2> QED BY <2>1, <2>2, <2>4, <2>5, OffListSound
<1>5. CASE Scene!PlaceSaved
  <2> DEFINE ld == IF ui.lens = "none" THEN ui.loaded ELSE FALSE
             u == [ui EXCEPT !.places = @ + 1, !.naming = "reload", !.loaded = ld]
  <2>1. ui' = u \/ ui' = Scene!RenderPlaces(u)
    BY <1>5 DEF Scene!PlaceSaved
  <2> HIDE DEF ld
  <2>2. DOMAIN u = DOMAIN ui /\ u.loaded = ld /\ \A f \in ListFields \ {"places", "loaded"} : u[f] = ui[f]
    BY DEF ListSound, ListFields
  <2> HIDE DEF u
  <2>3. ListSound(u)
    BY <2>2 DEF ListSound, ListFields, ld
  <2> QED BY <2>1, <2>3, PlacesAsked
<1>6. CASE Scene!PlaceFails \/ Scene!Decoded
  <2> DEFINE b == ui.late \/ \E s \in Scene!Scenes : ui.scene[s].on /\ ui.soon[s] = 0
             u == [ui EXCEPT !.naming = "no"]
             v == [ui EXCEPT !.dat = ui.told, !.late = b]
  <2>1. ui' = u \/ ui' = v
    BY <1>6 DEF Scene!PlaceFails, Scene!Decoded
  <2> HIDE DEF b
  <2>2. OffList(ui, u) /\ OffList(ui, v)
    BY DEF OffList, ListFields
  <2> HIDE DEF u, v
  <2> QED BY <2>1, <2>2, OffListSound
<1>7. CASE Scene!Reloaded
  <2> DEFINE u == [ui EXCEPT !.naming = "no"]
  <2>1. ui' = Scene!Refresh(u, "bloom") /\ OffList(ui, u)
    BY <1>7 DEF Scene!Reloaded, OffList, ListFields
  <2> HIDE DEF u
  <2> QED BY <1>1, <2>1, OffListHelpers
<1> QED BY <1>2, <1>3, <1>4, <1>5, <1>6, <1>7 DEF Scene!Timers, Scene!Answers

LEMMA ListActs ==
    ASSUME ListSound(ui), Scene!Acts
    PROVE  ListSound(ui')
<1>1. ASSUME NEW u, OffList(ui, u), NEW v, OffList(u, v) PROVE ListSound(Scene!Acted(v))
  BY <1>1, OffListSound, OffListThen, OffListHelpers
<1>2. OffList(ui, ui)
  BY DEF OffList
<1>3. CASE Scene!TripsDataLoaded
  <2> DEFINE u == [ui EXCEPT !.told = @ + 1]
  <2>1. ui' = Scene!Acted(Scene!DataEvent(u)) /\ OffList(ui, u)
    BY <1>3 DEF Scene!TripsDataLoaded, OffList, ListFields
  <2> HIDE DEF u
  <2> QED BY <1>1, <2>1, OffListHelpers
<1>4. CASE Scene!StyleChanges
  <2>1. PICK v \in {Scene!EnsureTerrainRelief(ui), Scene!TerrainFails(ui)} :
             ui' = Scene!Acted(Scene!DataEvent(Scene!EnsureBuildingsLayer(v)))
    BY <1>4 DEF Scene!StyleChanges
  <2>2. OffList(ui, v)
    BY OffListHelpers
  <2>3. OffList(ui, Scene!EnsureBuildingsLayer(v))
    BY <2>2, OffListHelpers, OffListThen
  <2> QED BY <1>1, <2>1, <2>3, OffListHelpers
<1>5. ASSUME NEW b \in BOOLEAN, Scene!SetTerrainRelief(b) \/ Scene!SetBuildings(b) PROVE ListSound(ui')
  <2> DEFINE u == [ui EXCEPT !.relief.pref = b]
             w == [ui EXCEPT !.tall.pref = b]
  <2>1. \/ ui' = Scene!Acted(Scene!EnsureTerrainRelief(u)) \/ ui' = Scene!Acted(Scene!TerrainFails(u))
        \/ ui' = Scene!Acted(Scene!EnsureBuildingsLayer(w))
    BY <1>5 DEF Scene!SetTerrainRelief, Scene!SetBuildings
  <2>2. OffList(ui, u) /\ OffList(ui, w)
    BY DEF OffList, ListFields
  <2> HIDE DEF u, w
  <2> QED BY <1>1, <2>1, <2>2, OffListHelpers
<1>6. CASE Scene!PinCluster \/ Scene!NameClusterAsPlace \/ Scene!NamingCancelled \/ Scene!NamingConfirmed
  <2> DEFINE u == [ui EXCEPT !.pin = ~@]
             v(x) == [ui EXCEPT !.naming = x]
  <2>1. ui' \in {Scene!Acted(u), Scene!Acted(v("asked")), v("no"), v("sent")}
    BY <1>6 DEF Scene!PinCluster, Scene!NameClusterAsPlace, Scene!NamingCancelled, Scene!NamingConfirmed
  <2>2. OffList(ui, u)
    BY DEF OffList, ListFields
  <2>3. \A x : OffList(ui, v(x))
    BY DEF OffList, ListFields
  <2> HIDE DEF u, v
  <2>4. OffList(u, u) /\ OffList(v("asked"), v("asked"))
    BY DEF OffList
  <2> QED BY <1>1, <2>1, <2>2, <2>3, <2>4, OffListSound
<1>7. ASSUME NEW a, Scene!SelectArea(a) PROVE ListSound(ui')
  <2> DEFINE x == [ui EXCEPT !.area = a]
             u == Scene!SyncControlAvailability(x)
             g == [u EXCEPT !.hint = "finding"]
  <2>1. \/ ui.lens # "coverage" /\ ui' = Scene!Acted(u)
        \/ ui.lens = "coverage" /\ ui' = Scene!Acted(Scene!RenderSuggestions(u))
    BY <1>7 DEF Scene!SelectArea, Scene!SyncControlAvailability
  <2>2. DOMAIN x = DOMAIN ui /\ x.area = a /\ \A f \in ListFields \ {"area"} : x[f] = ui[f]
    BY DEF ListSound, ListFields
  <2> HIDE DEF x
  <2>3. OffList(x, u)
    BY OffListHelpers
  <2> HIDE DEF u
  <2>4. DOMAIN u = DOMAIN ui /\ u.area = a /\ \A f \in ListFields \ {"area"} : u[f] = ui[f]
    BY <2>2, <2>3 DEF OffList, ListFields
  <2>5. DOMAIN g = DOMAIN ui /\ g.hint = "finding" /\ \A f \in ListFields \ {"area", "hint"} : g[f] = ui[f]
    BY <2>4 DEF ListSound, ListFields
  <2> HIDE DEF g
  <2>6. ListSound(g)
    BY <2>5 DEF ListSound, ListFields
  <2>7. ui.lens # "coverage" \/ a = NoArea => ListSound(u)
    BY <2>4 DEF ListSound, ListFields
  <2>8. ListSound(Scene!RenderSuggestions(u)) \/ ui.lens # "coverage"
    <3>1. ListFields \subseteq DOMAIN u /\ u.area = a
      BY <2>4 DEF ListSound, ListFields
    <3>2. CASE a # NoArea
      BY <2>6, <3>1, <3>2, SuggestionsAsked DEF g
    <3>3. CASE a = NoArea
      BY <2>7, <3>1, <3>3 DEF Scene!RenderSuggestions
    <3> QED BY <3>2, <3>3
  <2> QED BY <2>1, <2>7, <2>8, OffListHelpers, OffListSound
<1>8. ASSUME NEW m, Scene!ClickChip(m) PROVE ListSound(ui')
  <2> DEFINE n == IF ui.chip = m THEN NoMode ELSE m
             u == [ui EXCEPT !.chip = n, !.last = n]
  <2>1. ui' = Scene!Acted(Scene!DispatchStreetMode(u, n))
    BY <1>8 DEF Scene!ClickChip
  <2> HIDE DEF n
  <2>2. OffList(ui, u)
    BY DEF OffList, ListFields
  <2> HIDE DEF u
  <2> QED BY <1>1, <2>1, <2>2, OffListHelpers
<1>9. CASE Scene!TouchStart
  <2>1. OffList(ui, ui')
    BY <1>9 DEF Scene!TouchStart, Scene!Acted, OffList, ListFields
  <2> QED BY <2>1, OffListSound
<1>10. ASSUME NEW s, Scene!TouchEnd(s) PROVE ListSound(ui')
  <2> DEFINE u == [ui EXCEPT !.drag = FALSE]
  <2>1. ui' = Scene!SetState(u, s) /\ OffList(ui, u)
    BY <1>10 DEF Scene!TouchEnd, OffList, ListFields
  <2> HIDE DEF u
  <2> QED BY <2>1, OffListHelpers, OffListThen, OffListSound
<1>11. ASSUME NEW b \in BOOLEAN, Scene!RecomputeLayout(b) PROVE ListSound(ui')
  <2> DEFINE u == [ui EXCEPT !.half = b]
  <2>1. ui' = Scene!Acted(Scene!SetState(u, u.sheet)) /\ OffList(ui, u)
    BY <1>11 DEF Scene!RecomputeLayout, OffList, ListFields
  <2> HIDE DEF u
  <2> QED BY <1>1, <2>1, OffListHelpers
<1> QED BY <1>3, <1>4, <1>5, <1>6, <1>7, <1>8, <1>9, <1>10, <1>11, ListLens DEF Scene!Acts

LEMMA ListKept ==
    ASSUME ListSound(ui), Scene!Next
    PROVE  ListSound(ui')
BY ListAnswers, ListActs DEF Scene!Next

LEMMA ListStart ==
    ASSUME Scene!Init
    PROVE  ListSound(ui)
<1>1. PICK b \in BOOLEAN : ui = Scene!Fresh(b)
  BY DEF Scene!Init
<1>2. /\ ListFields \subseteq DOMAIN ui /\ ui.crossed = FALSE /\ ui.lens = "trips" /\ ui.pnet = {} /\ ui.loaded = FALSE
  BY <1>1 DEF Scene!Fresh, ListFields
<1> QED BY <1>2 DEF ListSound

LEMMA ListIsOfNow ==
    ASSUME ListSound(ui)
    PROVE  Scene!SuggestionsOfArea /\ Scene!PlacesListed
BY DEF ListSound, Scene!SuggestionsOfArea, Scene!PlacesListed

-----------------------------------------------------------------------------
(* The planner's driving half: of which area the plan is, and of which     *)
(* segments the coverage on show.                                          *)

PlanFields == {"area", "streets", "route", "details", "suggested", "shown", "sent", "crossed", "net"}

QuestionShaped(q) == {"id", "kind", "a", "sel", "dead"} \subseteq DOMAIN q
ToOfArea(q) == q.kind = "to" => \A s \in q.sel : s[1] = q.a

(* Until an answer or a proposal of another area came through, everything  *)
(* planned, and the way that is asked for, is of the area.                 *)
PlanSound(u) ==
    /\ PlanFields \subseteq DOMAIN u /\ u.crossed \in BOOLEAN
    /\ \A q \in u.net : QuestionShaped(q)
    /\ ~u.crossed =>
         /\ u.streets \in {NoArea, u.area} /\ u.shown \in {NoArea, u.area}
         /\ u.route # Drive!NoSegment => u.route[1] = u.area
         /\ u.details = "clusters" => u.suggested[1] = u.area
         /\ u.sent # Drive!NoSegment => u.sent[1] = u.sent[2][1]
         /\ \A q \in u.net : ToOfArea(q)

(* What does not touch the plan: at most questions come or go that are not *)
(* about the way to a segment of another area.                             *)
OffPlan(u, v) ==
    /\ DOMAIN v = DOMAIN u /\ \A f \in PlanFields \ {"net"} : v[f] = u[f]
    /\ (\A q \in u.net : QuestionShaped(q)) => \A q \in v.net : QuestionShaped(q)
    /\ (\A q \in u.net : QuestionShaped(q) /\ ToOfArea(q)) => \A q \in v.net : ToOfArea(q)

LEMMA OffPlanSound ==
    ASSUME NEW u, PlanSound(u), NEW v, OffPlan(u, v)
    PROVE  PlanSound(v)
<1>1. PlanFields \subseteq DOMAIN v /\ v.area = u.area /\ v.streets = u.streets /\ v.shown = u.shown /\ v.route = u.route
      /\ v.details = u.details /\ v.suggested = u.suggested /\ v.sent = u.sent /\ v.crossed = u.crossed
  BY DEF OffPlan, PlanSound, PlanFields
<1>2. (\A q \in v.net : QuestionShaped(q)) /\ (~u.crossed => \A q \in v.net : ToOfArea(q))
  BY DEF OffPlan, PlanSound
<1> QED BY <1>1, <1>2 DEF PlanSound

LEMMA OffPlanThen ==
    ASSUME NEW u, NEW v, OffPlan(u, v), NEW w, OffPlan(v, w)
    PROVE  OffPlan(u, w)
BY DEF OffPlan

LEMMA OffPlanFields ==
    ASSUME NEW u, PlanFields \subseteq DOMAIN u, NEW w, DOMAIN w = DOMAIN u, \A f \in PlanFields : w[f] = u[f]
    PROVE  OffPlan(u, w)
BY DEF OffPlan, PlanFields

LEMMA OffPlanAsked ==
    ASSUME NEW u, PlanFields \subseteq DOMAIN u, NEW k, NEW a, NEW s, k = "to" => \A x \in s : x[1] = a
    PROVE  OffPlan(u, Drive!Asked(u, k, a, s))
<1> DEFINE n == [id |-> Drive!Fresh(u.net), kind |-> k, a |-> a, sel |-> s, dead |-> FALSE]
           w == [u EXCEPT !.net = @ \cup {n}]
<1>1. Drive!Asked(u, k, a, s) = w
  BY DEF Drive!Asked
<1>2. QuestionShaped(n) /\ ToOfArea(n)
  BY DEF QuestionShaped, ToOfArea
<1> HIDE DEF n
<1>3. DOMAIN w = DOMAIN u /\ w.net = u.net \cup {n} /\ \A f \in PlanFields \ {"net"} : w[f] = u[f]
  BY DEF PlanFields
<1> HIDE DEF w
<1> QED BY <1>1, <1>2, <1>3 DEF OffPlan

LEMMA OffPlanAborted ==
    ASSUME NEW u, PlanFields \subseteq DOMAIN u
    PROVE  OffPlan(u, Drive!Aborted(u))
<1> DEFINE net == {IF q.kind = "simulate" /\ q.id = u.ctl THEN [q EXCEPT !.dead = TRUE] ELSE q : q \in u.net}
           w == [u EXCEPT !.net = net, !.ctl = Drive!NoRequest]
<1>1. Drive!Aborted(u) = w
  BY DEF Drive!Aborted
<1>2. ASSUME NEW q, QuestionShaped(q), NEW r, r = [q EXCEPT !.dead = TRUE]
      PROVE QuestionShaped(r) /\ (ToOfArea(q) => ToOfArea(r))
  BY <1>2 DEF QuestionShaped, ToOfArea
<1>3. (\A q \in u.net : QuestionShaped(q)) => \A q \in net : QuestionShaped(q)
  BY <1>2
<1>4. (\A q \in u.net : QuestionShaped(q) /\ ToOfArea(q)) => \A q \in net : ToOfArea(q)
  BY <1>2
<1> HIDE DEF net
<1>5. DOMAIN w = DOMAIN u /\ w.net = net /\ \A f \in PlanFields \ {"net"} : w[f] = u[f]
  BY DEF PlanFields
<1> HIDE DEF w
<1> QED BY <1>1, <1>3, <1>4, <1>5 DEF OffPlan

(* The simulation, the progress and the clock are beside the plan.         *)
LEMMA OffPlanHelpers ==
    ASSUME NEW u, PlanFields \subseteq DOMAIN u, NEW q
    PROVE  /\ OffPlan(u, u) /\ OffPlan(u, Drive!Acted(u)) /\ OffPlan(u, Drive!Hidden(u)) /\ OffPlan(u, Drive!HideLater(u))
           /\ OffPlan(u, Drive!Deactivate(u)) /\ OffPlan(u, Drive!Simulate(u)) /\ OffPlan(u, Drive!Done(u, q))
<1>1. OffPlan(u, u) /\ OffPlan(u, Drive!Acted(u)) /\ OffPlan(u, Drive!Hidden(u)) /\ OffPlan(u, Drive!HideLater(u))
  BY DEF OffPlan, PlanFields, Drive!Acted, Drive!Hidden, Drive!HideLater
<1>2. OffPlan(u, Drive!Deactivate(u))
  <2> DEFINE w == Drive!Aborted(u)
             v == [w EXCEPT !.active = FALSE, !.deb = FALSE, !.sel = {}, !.stats = Drive!NoStats]
  <2>1. OffPlan(u, w)
    BY OffPlanAborted
  <2>2. Drive!Deactivate(u) = v
    BY DEF Drive!Deactivate
  <2> HIDE DEF w
  <2>3. PlanFields \subseteq DOMAIN w
    BY <2>1 DEF OffPlan
  <2>4. DOMAIN v = DOMAIN w /\ \A f \in PlanFields : v[f] = w[f]
    BY <2>3 DEF PlanFields
  <2> HIDE DEF v
  <2> QED BY <2>1, <2>2, <2>3, <2>4, OffPlanFields, OffPlanThen
<1>3. OffPlan(u, Drive!Simulate(u))
  <2> DEFINE x == [u EXCEPT !.stats = Drive!NoStats]
             w == Drive!Aborted(u)
             v == Drive!Asked(w, "simulate", u.area, u.sel)
             y(c) == [v EXCEPT !.ctl = c, !.latest = c]
  <2>1. Drive!Simulate(u) = x \/ Drive!Simulate(u) = y(Drive!Fresh(w.net))
    BY DEF Drive!Simulate
  <2>2. OffPlan(u, x)
    BY DEF OffPlan, PlanFields
  <2>3. OffPlan(u, w)
    BY OffPlanAborted
  <2> HIDE DEF w
  <2>4. OffPlan(w, v)
    BY <2>3, OffPlanAsked DEF OffPlan
  <2> HIDE DEF v
  <2>5. PlanFields \subseteq DOMAIN v /\ OffPlan(u, v)
    BY <2>3, <2>4, OffPlanThen DEF OffPlan
  <2>6. ASSUME NEW c PROVE OffPlan(v, y(c))
    BY <2>5 DEF OffPlan, PlanFields
  <2> HIDE DEF x, y
  <2> QED BY <2>1, <2>2, <2>5, <2>6, OffPlanThen
<1>4. OffPlan(u, Drive!Done(u, q))
  BY DEF OffPlan, PlanFields, Drive!Done
<1> QED BY <1>1, <1>2, <1>3, <1>4

(* The way that is shown, asked for or forgotten, and another area.        *)
LEMMA PlanShown ==
    ASSUME NEW u, PlanSound(u), NEW s, NEW a
    PROVE  /\ PlanSound(Drive!ClearRouteUI(u)) /\ PlanSound(Drive!AskClusters(u, a)) /\ PlanSound(Drive!FindRouteToSegment(u, s))
           /\ (~u.crossed => s[1] = u.area) => PlanSound(Drive!DisplayRoute(u, s))
           /\ PlanSound(Drive!HandleAreaChange(u, a))
<1>1. ASSUME NEW v, PlanSound(v) PROVE PlanSound(Drive!ClearRouteUI(v))
  BY <1>1 DEF PlanSound, PlanFields, Drive!ClearRouteUI
<1>2. PlanSound(Drive!AskClusters(u, a))
  <2> DEFINE w == [u EXCEPT !.effOn = FALSE, !.shown = NoArea]
  <2>1. PlanSound(w)
    BY DEF PlanSound, PlanFields
  <2>2. Drive!AskClusters(u, a) = Drive!Asked(w, "clusters", a, {})
    BY DEF Drive!AskClusters
  <2> HIDE DEF w
  <2> QED BY <2>1, <2>2, OffPlanAsked, OffPlanSound DEF PlanSound
<1>3. PlanSound(Drive!FindRouteToSegment(u, s))
  <2> DEFINE c == u.crossed \/ s[1] # u.area
             w == [u EXCEPT !.findOn = FALSE, !.effOn = FALSE, !.progress = TRUE, !.crossed = c]
             x == Drive!Asked(w, "to", u.area, {s})
             n == [id |-> Drive!Fresh(w.net), kind |-> "to", a |-> u.area, sel |-> {s}, dead |-> FALSE]
             y == [w EXCEPT !.net = @ \cup {n}]
  <2>1. Drive!FindRouteToSegment(u, s) = u \/ Drive!FindRouteToSegment(u, s) = x
    BY DEF Drive!FindRouteToSegment
  <2>2. c \in BOOLEAN /\ (u.crossed => c) /\ (~c => s[1] = u.area)
    BY DEF PlanSound
  <2> HIDE DEF c
  <2>3. PlanSound(w) /\ w.crossed = c
    BY <2>2 DEF PlanSound, PlanFields
  <2>4. x = y /\ QuestionShaped(n)
    BY DEF Drive!Asked, QuestionShaped
  <2> HIDE DEF w, n
  <2>5. CASE ~c
    BY <2>1, <2>2, <2>3, <2>5, OffPlanAsked, OffPlanSound DEF PlanSound
  <2>6. CASE c
    <3>1. PlanFields \subseteq DOMAIN y /\ y.net = w.net \cup {n} /\ y.crossed = w.crossed
      BY <2>3 DEF PlanSound, PlanFields
    <3> HIDE DEF y
    <3>2. PlanSound(y)
      BY <2>3, <2>4, <2>6, <3>1 DEF PlanSound
    <3> QED BY <2>1, <2>4, <3>2
  <2> QED BY <2>2, <2>5, <2>6
<1>4. ASSUME ~u.crossed => s[1] = u.area PROVE PlanSound(Drive!DisplayRoute(u, s))
  BY <1>4 DEF PlanSound, PlanFields, Drive!DisplayRoute, Drive!HideLater
<1>5. PlanSound(Drive!HandleAreaChange(u, a))
  <2> DEFINE d == Drive!Deactivate(u)
             c == Drive!ClearRouteUI(d)
             w == [c EXCEPT !.area = a, !.streets = NoArea, !.shown = NoArea, !.findOn = (a # NoArea), !.effOn = (a # NoArea)]
             x == [w EXCEPT !.progress = TRUE]
  <2>1. PlanSound(c) /\ c.route = Drive!NoSegment /\ c.details = "none"
    <3>1. PlanSound(d)
      BY OffPlanHelpers, OffPlanSound DEF PlanSound
    <3> HIDE DEF d
    <3> QED BY <1>1, <3>1 DEF PlanSound, PlanFields, Drive!ClearRouteUI
  <2> HIDE DEF c
  <2>2. PlanSound(w)
    BY <2>1 DEF PlanSound, PlanFields
  <2>3. Drive!HandleAreaChange(u, a) = w \/ Drive!HandleAreaChange(u, a) = Drive!Asked(x, "streets", a, {})
    BY DEF Drive!HandleAreaChange, c
  <2> HIDE DEF w
  <2>4. PlanSound(x)
    BY <2>2 DEF PlanSound, PlanFields
  <2> HIDE DEF x
  <2> QED BY <2>2, <2>3, <2>4, OffPlanAsked, OffPlanSound DEF PlanSound
<1> QED BY <1>1, <1>2, <1>3, <1>4, <1>5

(* An answer of the area is about the area; one of another is a crossing.  *)
LEMMA PlanAnswered ==
    ASSUME PlanSound(ui), NEW q \in ui.net,
           \/ Drive!SimulateArrives(q) \/ Drive!StreetsArrive(q) \/ Drive!NearestArrives(q) \/ Drive!ToArrives(q)
           \/ Drive!PositionArrives(q) \/ Drive!ClustersArrive(q)
    PROVE  PlanSound(ui')
<1> DEFINE d == Drive!Done(ui, q)
           c == Drive!Crossed(ui, q)
<1>1. /\ PlanSound(d) /\ d.crossed = ui.crossed /\ d.area = ui.area
      /\ \A f \in {"crossed", "prompts"} : f \in DOMAIN ui => f \in DOMAIN d
  BY OffPlanHelpers, OffPlanSound DEF PlanSound, PlanFields, OffPlan
<1>2. c \in BOOLEAN /\ (ui.crossed => c) /\ (~c => q.a = ui.area) /\ (~c => ToOfArea(q))
  BY DEF PlanSound, Drive!Crossed
<1> HIDE DEF d, c
<1>3. CASE Drive!SimulateArrives(q)
  <2> DEFINE x == IF d.ctl = q.id THEN Drive!NoRequest ELSE d.ctl
             u == [d EXCEPT !.ctl = x]
             f == d.failed \/ ~q.dead
             v == [u EXCEPT !.stats = q.sel, !.failed = FALSE]
             w == [u EXCEPT !.failed = f]
  <2>1. DOMAIN u = DOMAIN d /\ u.failed = d.failed
    OBVIOUS
  <2>2. ui' \in {v, u, w}
    BY <1>3, <2>1 DEF Drive!SimulateArrives, d
  <2> HIDE DEF x, f
  <2>3. PlanSound(v) /\ PlanSound(u) /\ PlanSound(w)
    BY <1>1 DEF PlanSound, PlanFields
  <2> QED BY <2>2, <2>3
<1>4. CASE Drive!StreetsArrive(q)
  <2> DEFINE u == [d EXCEPT !.crossed = c]
             v == [u EXCEPT !.streets = q.a]
  <2>1. PlanSound(u) /\ PlanSound(v)
    BY <1>1, <1>2 DEF PlanSound, PlanFields
  <2>2. ui' \in {Drive!HideLater(v), Drive!Hidden(u)}
    BY <1>4 DEF Drive!StreetsArrive, d, c
  <2> HIDE DEF u, v
  <2> QED BY <2>1, <2>2, OffPlanHelpers, OffPlanSound DEF PlanSound
<1>5. CASE Drive!NearestArrives(q)
  <2> DEFINE u == [d EXCEPT !.crossed = c, !.findOn = TRUE, !.fetching = FALSE]
  <2>1. PlanSound(u) /\ u.crossed = c /\ u.area = ui.area
    BY <1>1, <1>2 DEF PlanSound, PlanFields
  <2>2. ui' = Drive!Hidden(u) \/ \E n \in Streets : ui' = Drive!DisplayRoute(u, <<q.a, n>>)
    BY <1>5 DEF Drive!NearestArrives, d, c
  <2> HIDE DEF u
  <2>3. ASSUME NEW n PROVE PlanSound(Drive!DisplayRoute(u, <<q.a, n>>))
    BY <1>2, <2>1, PlanShown
  <2> QED BY <2>1, <2>2, <2>3, OffPlanHelpers, OffPlanSound DEF PlanSound
<1>6. CASE Drive!ToArrives(q)
  <2> DEFINE u == [d EXCEPT !.crossed = c, !.findOn = TRUE, !.effOn = TRUE]
  <2>1. PlanSound(u) /\ u.crossed = c /\ u.area = ui.area
    BY <1>1, <1>2 DEF PlanSound, PlanFields
  <2>2. ui' = Drive!Hidden(u) \/ \E s \in q.sel : ui' = Drive!DisplayRoute(u, s)
    BY <1>6 DEF Drive!ToArrives, d, c
  <2>3. q.kind = "to"
    BY <1>6 DEF Drive!ToArrives
  <2> HIDE DEF u
  <2>4. ASSUME NEW s \in q.sel PROVE PlanSound(Drive!DisplayRoute(u, s))
    <3>1. ~c => s[1] = u.area
      BY <1>2, <2>1, <2>3 DEF ToOfArea
    <3> QED BY <2>1, <3>1, PlanShown
  <2> QED BY <2>1, <2>2, <2>4, OffPlanHelpers, OffPlanSound DEF PlanSound
<1>7. CASE Drive!PositionArrives(q)
  <2> DEFINE u == [d EXCEPT !.known = TRUE, !.crossed = c]
  <2>1. PlanSound(u)
    BY <1>1, <1>2 DEF PlanSound, PlanFields
  <2>2. ui' \in {Drive!AskClusters(u, q.a), d}
    BY <1>7 DEF Drive!PositionArrives, d, c
  <2> HIDE DEF u
  <2> QED BY <1>1, <2>1, <2>2, PlanShown
<1>8. CASE Drive!ClustersArrive(q)
  <2> DEFINE u == [d EXCEPT !.effOn = TRUE]
             w(n) == [u EXCEPT !.suggested = <<q.a, n>>, !.shown = q.a, !.details = "clusters", !.crossed = c,
                               !.prompts = @ \cup {<<q.a, n>>}]
  <2>1. ui' = u \/ \E n \in Streets : ui' = w(n)
    BY <1>8 DEF Drive!ClustersArrive, d, c
  <2>2. PlanSound(u)
    BY <1>1 DEF PlanSound, PlanFields
  <2> HIDE DEF u
  <2>3. u.area = ui.area
    BY <1>1 DEF u, PlanSound, PlanFields
  <2>4. ASSUME NEW n PROVE PlanSound(w(n))
    <3> DEFINE x == w(n)
               s == <<q.a, n>>
    <3>1. DOMAIN x = DOMAIN u /\ (\A f \in PlanFields \ {"suggested", "shown", "details", "crossed"} : x[f] = u[f])
          /\ x.suggested = s /\ x.shown = q.a /\ x.details = "clusters" /\ x.crossed = c /\ s[1] = q.a
      BY <2>2 DEF PlanSound, PlanFields
    <3> HIDE DEF x, s
    <3>2. PlanFields \subseteq DOMAIN x /\ x.area = u.area /\ x.streets = u.streets /\ x.route = u.route /\ x.sent = u.sent
          /\ x.net = u.net
      BY <2>2, <3>1 DEF PlanSound, PlanFields
    <3>3. c => PlanSound(x)
      BY <1>2, <2>2, <3>1, <3>2 DEF PlanSound
    <3>4. ~c => PlanSound(x)
      <4> HAVE ~c
      <4>1. ~u.crossed
        BY <1>1, <1>2 DEF u, PlanSound, PlanFields
      <4> QED BY <1>2, <2>2, <2>3, <3>1, <3>2, <4>1 DEF PlanSound
    <3> QED BY <1>2, <3>3, <3>4 DEF x
  <2> QED BY <2>1, <2>2, <2>4
<1> QED BY <1>3, <1>4, <1>5, <1>6, <1>7, <1>8

LEMMA PlanKept ==
    ASSUME PlanSound(ui), Drive!Next
    PROVE  PlanSound(ui')
<1> USE OffPlanHelpers, OffPlanSound
<1>1. ASSUME NEW u, PlanSound(u) PROVE PlanSound(Drive!Acted(u)) /\ PlanSound(Drive!Hidden(u)) /\ PlanSound(Drive!Deactivate(u))
                                      /\ PlanSound(Drive!Simulate(u)) /\ PlanSound(Drive!Aborted(u))
  BY <1>1, OffPlanAborted DEF PlanSound
<1>2. ASSUME NEW s, Drive!ToggleSegment(s) PROVE PlanSound(ui')
  <2> DEFINE x == IF s \in ui.sel THEN ui.sel \ {s} ELSE ui.sel \cup {s}
             u == [ui EXCEPT !.sel = x, !.deb = TRUE]
  <2>1. ui' = Drive!Acted(u)
    BY <1>2 DEF Drive!ToggleSegment
  <2> HIDE DEF x
  <2>2. PlanSound(u)
    BY DEF PlanSound, PlanFields
  <2> QED BY <1>1, <2>1, <2>2
<1>3. ASSUME NEW s, Drive!NavigateToSegment(s) PROVE PlanSound(ui')
  BY <1>1, <1>3, PlanShown DEF Drive!NavigateToSegment
<1>4. ASSUME NEW s, Drive!PromptAnswered(s) PROVE PlanSound(ui')
  <2> DEFINE u == [ui EXCEPT !.prompts = @ \ {s}]
  <2>1. PlanSound(u)
    BY DEF PlanSound, PlanFields
  <2>2. ui' \in {Drive!FindRouteToSegment(u, s), u}
    BY <1>4 DEF Drive!PromptAnswered
  <2> HIDE DEF u
  <2> QED BY <2>1, <2>2, PlanShown
<1>5. ASSUME NEW s, Drive!HydrateSelection(s) PROVE PlanSound(ui')
  <2> DEFINE u == [ui EXCEPT !.active = TRUE, !.sel = s]
  <2>1. PlanSound(u)
    BY DEF PlanSound, PlanFields
  <2>2. ui' = Drive!Acted(Drive!Simulate(u))
    BY <1>5 DEF Drive!HydrateSelection
  <2> HIDE DEF u
  <2> QED BY <1>1, <2>1, <2>2
<1>6. ASSUME NEW a, Drive!SelectArea(a) PROVE PlanSound(ui')
  <2> DEFINE w == Drive!HandleAreaChange(ui, a)
             c == w.crossed \/ ui.prompts # {}
             u == [w EXCEPT !.crossed = c]
  <2>1. PlanSound(w)
    BY PlanShown
  <2>2. ui' = Drive!Acted(u)
    BY <1>6 DEF Drive!SelectArea
  <2> HIDE DEF w
  <2>3. c \in BOOLEAN /\ (w.crossed => c)
    BY <2>1 DEF PlanSound
  <2> HIDE DEF c
  <2>4. PlanSound(u)
    BY <2>1, <2>3 DEF PlanSound, PlanFields
  <2> QED BY <1>1, <2>2, <2>4
<1>7. CASE Drive!ToggleSimulation
  <2> DEFINE u == [ui EXCEPT !.active = TRUE, !.sel = {}]
  <2>1. PlanSound(u)
    BY DEF PlanSound, PlanFields
  <2>2. ui' \in {Drive!Acted(Drive!Deactivate(ui)), Drive!Acted(u)}
    BY <1>7 DEF Drive!ToggleSimulation
  <2> HIDE DEF u
  <2> QED BY <1>1, <2>1, <2>2
<1>8. CASE Drive!ClearSelection
  <2> DEFINE w == Drive!Aborted(ui)
             u == [w EXCEPT !.deb = FALSE, !.sel = {}, !.stats = Drive!NoStats]
  <2>1. PlanSound(w)
    BY <1>1
  <2>2. ui' = Drive!Acted(u)
    BY <1>8 DEF Drive!ClearSelection
  <2> HIDE DEF w
  <2>3. PlanSound(u)
    BY <2>1 DEF PlanSound, PlanFields
  <2> QED BY <1>1, <2>2, <2>3
<1>9. CASE Drive!DebounceFires
  <2> DEFINE u == [ui EXCEPT !.deb = FALSE]
  <2>1. PlanSound(u)
    BY DEF PlanSound, PlanFields
  <2>2. ui' = Drive!Simulate(u)
    BY <1>9 DEF Drive!DebounceFires
  <2> HIDE DEF u
  <2> QED BY <1>1, <2>1, <2>2
<1>10. CASE Drive!HideFires
  <2> DEFINE w == Drive!Hidden(ui)
             u == [w EXCEPT !.hides = @ - 1]
  <2>1. PlanSound(w) /\ ui' = u
    BY <1>1, <1>10 DEF Drive!HideFires
  <2> HIDE DEF w
  <2> QED BY <2>1 DEF PlanSound, PlanFields
<1>11. CASE Drive!FindAndDisplayRoute
  <2> DEFINE w == Drive!ClearRouteUI(ui)
             u == [w EXCEPT !.fetching = TRUE, !.findOn = FALSE, !.progress = TRUE]
  <2>1. PlanSound(w)
    BY PlanShown
  <2>2. ui' = Drive!Acted(Drive!Asked(u, "nearest", ui.area, {}))
    BY <1>11 DEF Drive!FindAndDisplayRoute
  <2> HIDE DEF w
  <2>3. PlanSound(u)
    BY <2>1 DEF PlanSound, PlanFields
  <2> HIDE DEF u
  <2>4. PlanSound(Drive!Asked(u, "nearest", ui.area, {}))
    BY <2>3, OffPlanAsked DEF PlanSound
  <2> QED BY <1>1, <2>2, <2>4
<1>12. CASE Drive!FindEfficientStreetClusters
  <2>1. PlanSound(Drive!Asked(ui, "position", ui.area, {}))
    BY OffPlanAsked DEF PlanSound
  <2> QED BY <1>1, <1>12, <2>1, PlanShown DEF Drive!FindEfficientStreetClusters
<1>13. CASE Drive!RequestClusterRoute
  <2> DEFINE s == <<ui.area, ui.suggested>>
             u == [ui EXCEPT !.sent = s]
  <2>1. ui' = Drive!Acted(u) /\ ui.details = "clusters"
    BY <1>13 DEF Drive!RequestClusterRoute
  <2>2. s[1] = ui.area /\ s[2] = ui.suggested
    OBVIOUS
  <2> HIDE DEF s
  <2>3. PlanSound(u)
    BY <2>1, <2>2 DEF PlanSound, PlanFields
  <2> QED BY <1>1, <2>1, <2>3
<1>14. CASE Drive!HandleLiveTrackingUpdate
  BY <1>14 DEF Drive!HandleLiveTrackingUpdate, PlanSound, PlanFields
<1>15. CASE Drive!Destroy
  <2> DEFINE w == Drive!Deactivate(ui)
             u == [w EXCEPT !.on = FALSE, !.shown = NoArea]
  <2>1. PlanSound(w) /\ ui' = u
    BY <1>1, <1>15 DEF Drive!Destroy
  <2> HIDE DEF w
  <2> QED BY <2>1 DEF PlanSound, PlanFields
<1> QED BY <1>2, <1>3, <1>4, <1>5, <1>6, <1>7, <1>8, <1>9, <1>10, <1>11, <1>12, <1>13, <1>14, <1>15, PlanAnswered DEF Drive!Next

LEMMA PlanStart ==
    ASSUME Drive!Init
    PROVE  PlanSound(ui)
BY DEF Drive!Init, PlanSound, PlanFields

LEMMA PlanIsOfArea ==
    ASSUME PlanSound(ui)
    PROVE  Drive!PlanOfArea
BY DEF PlanSound, Drive!PlanOfArea

(* A new question has a number of its own.                                 *)
LEMMA FreshIsNew ==
    ASSUME NEW net, IsFiniteSet(net)
    PROVE  Drive!Fresh(net) \in Nat \ {0} /\ \A q \in net : q.id # Drive!Fresh(net)
<1> DEFINE ids == {q.id : q \in net}
           f == [q \in net |-> q.id]
           k == Cardinality(net) + 1
<1>1. IsFiniteSet(ids) /\ Cardinality(ids) <= Cardinality(net) /\ Cardinality(net) \in Nat /\ Cardinality(ids) \in Nat
  <2>1. f \in [net -> ids] /\ \A x \in ids : \E q \in net : f[q] = x
    OBVIOUS
  <2>2. f \in Surjection(net, ids)
    BY <2>1 DEF Surjection
  <2> HIDE DEF f, ids
  <2> QED BY <2>2, FS_Surjection, FS_CardinalityType
<1>2. ~ (1..k \subseteq ids)
  <2> SUFFICES ASSUME 1..k \subseteq ids PROVE FALSE
    OBVIOUS
  <2> HIDE DEF ids
  <2>1. k \in Int /\ Cardinality(1..k) = k
    <3>1. k \in Nat \ {0}
      BY <1>1
    <3> HIDE DEF k
    <3> QED BY <3>1, FS_Interval
  <2>2. Cardinality(1..k) <= Cardinality(ids)
    BY <1>1, FS_Subset
  <2>3. Cardinality(net) + 1 = Cardinality(1..k)
    BY <2>1
  <2> HIDE DEF k
  <2> QED BY <1>1, <2>2, <2>3
<1>3. \E n \in 1..k : \A q \in net : q.id # n
  BY <1>2
<1>4. Drive!Fresh(net) \in 1..k /\ \A q \in net : q.id # Drive!Fresh(net)
  <2>1. Drive!Cardinality(net) = Cardinality(net)
    BY DEF Drive!Cardinality, Cardinality
  <2> QED BY <1>3, <2>1 DEF Drive!Fresh
<1> QED BY <1>1, <1>4

StatsFields == {"area", "active", "sel", "deb", "ctl", "latest", "stats", "net", "failed"}

NetShaped(net) ==
    /\ IsFiniteSet(net)
    /\ \A q \in net : QuestionShaped(q) /\ q.id \in Nat \ {0}
    /\ \A p, q \in net : p.id = q.id => p = q

(* The simulation that can be aborted is the last one, and nobody aborted  *)
(* it; it is about what is selected unless another is about to be asked    *)
(* for.                                                                    *)
Controls(u, q) == q.id = u.ctl /\ q.kind = "simulate" /\ ~q.dead
Controlled(u) == u.ctl # Drive!NoRequest => u.ctl = u.latest /\ \E q \in u.net : Controls(u, q)
UpToDate(u, q) == q.sel = u.sel \/ u.deb \/ u.sel = {}

SelectionSound(u) ==
    /\ StatsFields \subseteq DOMAIN u /\ NetShaped(u.net) /\ u.deb \in BOOLEAN
    /\ Controlled(u)
    /\ ~u.active => u.sel = {} /\ u.stats = {} /\ ~u.deb
    /\ \A s \in u.sel : s[1] = u.area

StatsSound(u) ==
    /\ SelectionSound(u)
    /\ \A q \in u.net : Controls(u, q) => UpToDate(u, q)
    /\ u.sel = {} /\ ~u.deb => u.stats = {}
    /\ u.stats \notin {{}, u.sel} => u.deb \/ u.failed \/ u.ctl # Drive!NoRequest

OffStats(u, v) == DOMAIN v = DOMAIN u /\ \A f \in StatsFields : v[f] = u[f]

LEMMA OffStatsSound ==
    ASSUME NEW u, StatsSound(u), NEW v, OffStats(u, v)
    PROVE  StatsSound(v)
<1>1. /\ StatsFields \subseteq DOMAIN v /\ v.net = u.net /\ v.deb = u.deb /\ v.ctl = u.ctl /\ v.latest = u.latest /\ v.active = u.active
      /\ v.sel = u.sel /\ v.stats = u.stats /\ v.failed = u.failed /\ v.area = u.area
  BY DEF StatsSound, SelectionSound, OffStats, StatsFields
<1> QED BY <1>1 DEF StatsSound, SelectionSound, Controlled, Controls, UpToDate

LEMMA OffStatsThen ==
    ASSUME NEW u, NEW v, OffStats(u, v), NEW w, OffStats(v, w)
    PROVE  OffStats(u, w)
BY DEF OffStats

(* The plan and the clock are beside the simulation.                       *)
LEMMA OffStatsHelpers ==
    ASSUME NEW u, NEW s
    PROVE  /\ OffStats(u, u) /\ OffStats(u, Drive!Acted(u)) /\ OffStats(u, Drive!Hidden(u)) /\ OffStats(u, Drive!HideLater(u))
           /\ OffStats(u, Drive!ClearRouteUI(u)) /\ OffStats(u, Drive!DisplayRoute(u, s))
<1>1. OffStats(u, u) /\ OffStats(u, Drive!Acted(u)) /\ OffStats(u, Drive!Hidden(u)) /\ OffStats(u, Drive!HideLater(u))
      /\ OffStats(u, Drive!ClearRouteUI(u))
  BY DEF OffStats, StatsFields, Drive!Acted, Drive!Hidden, Drive!HideLater, Drive!ClearRouteUI
<1>2. OffStats(u, Drive!DisplayRoute(u, s))
  BY DEF OffStats, StatsFields, Drive!DisplayRoute, Drive!HideLater
<1> QED BY <1>1, <1>2

(* A question is asked, answered or aborted.                               *)
AddsQuestion(u, w, n, k, s) ==
    /\ DOMAIN w = DOMAIN u /\ w.net = u.net \cup {n} /\ (\A f \in DOMAIN u \ {"net"} : w[f] = u[f])
    /\ NetShaped(w.net) /\ n.id = Drive!Fresh(u.net) /\ n.kind = k /\ n.sel = s /\ n.dead = FALSE
    /\ \A q \in u.net : q.id # n.id

LEMMA AskedShaped ==
    ASSUME NEW u, "net" \in DOMAIN u, NetShaped(u.net), NEW k, NEW a, NEW s
    PROVE  \E n : AddsQuestion(u, Drive!Asked(u, k, a, s), n, k, s)
<1> DEFINE n == [id |-> Drive!Fresh(u.net), kind |-> k, a |-> a, sel |-> s, dead |-> FALSE]
           w == [u EXCEPT !.net = @ \cup {n}]
<1>1. Drive!Asked(u, k, a, s) = w
  BY DEF Drive!Asked
<1>2. QuestionShaped(n) /\ n.id = Drive!Fresh(u.net) /\ n.kind = k /\ n.sel = s /\ n.dead = FALSE
  BY DEF QuestionShaped
<1> HIDE DEF n
<1>3. n.id \in Nat \ {0} /\ \A q \in u.net : q.id # n.id
  BY <1>2, FreshIsNew DEF NetShaped
<1>4. NetShaped(u.net \cup {n})
  BY <1>2, <1>3, FS_AddElement DEF NetShaped
<1>5. DOMAIN w = DOMAIN u /\ w.net = u.net \cup {n} /\ \A f \in DOMAIN u \ {"net"} : w[f] = u[f]
  OBVIOUS
<1> HIDE DEF w
<1>6. AddsQuestion(u, w, n, k, s)
  BY <1>2, <1>3, <1>4, <1>5 DEF AddsQuestion
<1> QED BY <1>1, <1>6

LEMMA DoneShaped ==
    ASSUME NEW net, NetShaped(net), NEW q
    PROVE  NetShaped(net \ {q})
BY FS_RemoveElement DEF NetShaped

LEMMA AbortedShaped ==
    ASSUME NEW u, StatsFields \subseteq DOMAIN u, NetShaped(u.net)
    PROVE  \E net : /\ DOMAIN Drive!Aborted(u) = DOMAIN u /\ Drive!Aborted(u).net = net /\ NetShaped(net)
                    /\ Drive!Aborted(u).ctl = Drive!NoRequest
                    /\ \A f \in DOMAIN u \ {"net", "ctl"} : Drive!Aborted(u)[f] = u[f]
<1> DEFINE g(q) == IF q.kind = "simulate" /\ q.id = u.ctl THEN [q EXCEPT !.dead = TRUE] ELSE q
           net == {g(q) : q \in u.net}
           w == [u EXCEPT !.net = net, !.ctl = Drive!NoRequest]
           f == [q \in u.net |-> g(q)]
<1>1. Drive!Aborted(u) = w
  BY DEF Drive!Aborted
<1>2. ASSUME NEW q \in u.net PROVE QuestionShaped(g(q)) /\ g(q).id = q.id
  <2>1. QuestionShaped(q)
    BY DEF NetShaped
  <2> QED BY <2>1 DEF QuestionShaped
<1>3. IsFiniteSet(net)
  <2>1. f \in [u.net -> net] /\ \A x \in net : \E q \in u.net : f[q] = x
    OBVIOUS
  <2>2. f \in Surjection(u.net, net)
    BY <2>1 DEF Surjection
  <2> HIDE DEF f, net
  <2> QED BY <2>2, FS_Surjection DEF NetShaped
<1> HIDE DEF g
<1>4. NetShaped(net)
  <2>1. \A q \in net : QuestionShaped(q) /\ q.id \in Nat \ {0}
    BY <1>2 DEF NetShaped
  <2>2. ASSUME NEW p \in net, NEW q \in net, p.id = q.id PROVE p = q
    <3>1. PICK x \in u.net : p = g(x)
      OBVIOUS
    <3>2. PICK y \in u.net : q = g(y)
      OBVIOUS
    <3>3. x.id = y.id
      BY <1>2, <2>2, <3>1, <3>2
    <3>4. x = y
      BY <3>3 DEF NetShaped
    <3> QED BY <3>1, <3>2, <3>4
  <2> QED BY <1>3, <2>1, <2>2 DEF NetShaped
<1> HIDE DEF net
<1>5. DOMAIN w = DOMAIN u /\ w.net = net /\ w.ctl = Drive!NoRequest /\ \A x \in DOMAIN u \ {"net", "ctl"} : w[x] = u[x]
  BY DEF StatsFields
<1> HIDE DEF w
<1> QED BY <1>1, <1>4, <1>5

LEMMA StatsAsked ==
    ASSUME NEW u, StatsSound(u), NEW k, k # "simulate", NEW a, NEW s
    PROVE  StatsSound(Drive!Asked(u, k, a, s))
<1> DEFINE w == Drive!Asked(u, k, a, s)
<1>1. PICK n : AddsQuestion(u, w, n, k, s)
  <2>1. "net" \in DOMAIN u /\ NetShaped(u.net)
    BY DEF StatsSound, SelectionSound, StatsFields
  <2> QED BY <2>1, AskedShaped
<1> HIDE DEF w
<1> USE DEF AddsQuestion
<1>2. /\ StatsFields \subseteq DOMAIN w /\ w.deb = u.deb /\ w.ctl = u.ctl /\ w.latest = u.latest /\ w.active = u.active
      /\ w.sel = u.sel /\ w.stats = u.stats /\ w.failed = u.failed /\ w.area = u.area
  BY <1>1 DEF StatsSound, SelectionSound, StatsFields
<1>3. Controlled(w) /\ \A q \in w.net : Controls(w, q) => UpToDate(w, q)
  BY <1>1, <1>2 DEF StatsSound, SelectionSound, Controlled, Controls, UpToDate
<1> QED BY <1>1, <1>2, <1>3 DEF StatsSound, SelectionSound, w

LEMMA StatsCleared ==
    ASSUME NEW u, StatsSound(u), NEW w, DOMAIN w = DOMAIN u, \A f \in {"net", "ctl", "latest", "area", "failed"} : w[f] = Drive!Aborted(u)[f],
           w.sel = {}, w.stats = {}, w.deb = FALSE
    PROVE  StatsSound(w)
<1>1. PICK net : Drive!Aborted(u).net = net /\ NetShaped(net) /\ Drive!Aborted(u).ctl = Drive!NoRequest
  BY AbortedShaped DEF StatsSound, SelectionSound
<1>2. StatsFields \subseteq DOMAIN w /\ w.net = net /\ w.ctl = Drive!NoRequest
  BY <1>1 DEF StatsSound, SelectionSound
<1> QED BY <1>1, <1>2 DEF StatsSound, SelectionSound, Controlled, UpToDate

LEMMA StatsDeactivated ==
    ASSUME NEW u, StatsSound(u)
    PROVE  LET w == Drive!Deactivate(u) IN StatsSound(w) /\ w.sel = {} /\ w.stats = {} /\ ~w.deb /\ DOMAIN w = DOMAIN u
<1> DEFINE x == Drive!Aborted(u)
           w == [x EXCEPT !.active = FALSE, !.deb = FALSE, !.sel = {}, !.stats = Drive!NoStats]
<1>1. DOMAIN x = DOMAIN u /\ StatsFields \subseteq DOMAIN x
  BY AbortedShaped DEF StatsSound, SelectionSound
<1>2. Drive!Deactivate(u) = w
  BY DEF Drive!Deactivate
<1> HIDE DEF x
<1>3. /\ DOMAIN w = DOMAIN u /\ w.sel = {} /\ w.stats = {} /\ w.deb = FALSE
      /\ \A f \in {"net", "ctl", "latest", "area", "failed"} : w[f] = x[f]
  BY <1>1 DEF StatsFields, Drive!NoStats
<1> HIDE DEF w
<1> QED BY <1>2, <1>3, StatsCleared DEF x

LEMMA StatsSimulated ==
    ASSUME NEW u, SelectionSound(u)
    PROVE  StatsSound(Drive!Simulate(u))
<1>1. CASE u.sel = {}
  <2> DEFINE w == [u EXCEPT !.stats = Drive!NoStats]
  <2>1. Drive!Simulate(u) = w
    BY <1>1 DEF Drive!Simulate
  <2>2. /\ DOMAIN w = DOMAIN u /\ w.stats = {} /\ w.net = u.net /\ w.deb = u.deb /\ w.ctl = u.ctl /\ w.latest = u.latest
        /\ w.active = u.active /\ w.sel = u.sel /\ w.failed = u.failed /\ w.area = u.area
    BY DEF SelectionSound, StatsFields, Drive!NoStats
  <2> HIDE DEF w
  <2> QED BY <1>1, <2>1, <2>2 DEF StatsSound, SelectionSound, Controlled, Controls, UpToDate
<1>2. CASE u.sel # {}
  <2> DEFINE x == Drive!Aborted(u)
             y == Drive!Asked(x, "simulate", u.area, u.sel)
             c == Drive!Fresh(x.net)
             w == [y EXCEPT !.ctl = c, !.latest = c]
  <2>1. Drive!Simulate(u) = w
    BY <1>2 DEF Drive!Simulate
  <2>2. DOMAIN x = DOMAIN u /\ NetShaped(x.net) /\ \A f \in DOMAIN u \ {"net", "ctl"} : x[f] = u[f]
    BY AbortedShaped DEF SelectionSound
  <2> HIDE DEF x
  <2>3. PICK n : AddsQuestion(x, y, n, "simulate", u.sel)
    <3>1. "net" \in DOMAIN x
      BY <2>2 DEF SelectionSound, StatsFields
    <3> QED BY <2>2, <3>1, AskedShaped
  <2>7. n.id = c
    BY <2>3 DEF AddsQuestion
  <2> HIDE DEF y, c
  <2> USE DEF AddsQuestion
  <2>4. /\ DOMAIN w = DOMAIN u /\ w.ctl = c /\ w.latest = c /\ w.net = x.net \cup {n}
        /\ w.deb = u.deb /\ w.active = u.active /\ w.sel = u.sel /\ w.stats = u.stats /\ w.failed = u.failed /\ w.area = u.area
    BY <2>2, <2>3 DEF SelectionSound, StatsFields
  <2> HIDE DEF w
  <2>5. c # Drive!NoRequest
    BY <2>3, <2>7 DEF NetShaped, Drive!NoRequest
  <2>6. Controlled(w) /\ \A q \in w.net : Controls(w, q) => UpToDate(w, q)
    <3>1. Controls(w, n)
      BY <2>3, <2>4, <2>7 DEF Controls
    <3>2. \A q \in w.net : q.id = w.ctl => q = n
      BY <2>3, <2>4, <2>7
    <3> QED BY <2>3, <2>4, <3>1, <3>2 DEF Controlled, Controls, UpToDate
  <2> QED BY <1>2, <2>1, <2>3, <2>4, <2>5, <2>6 DEF StatsSound, SelectionSound
<1> QED BY <1>1, <1>2

(* Only the last simulation's numbers are put on show.                     *)
LEMMA StatsAnswered ==
    ASSUME StatsSound(ui), NEW q \in ui.net,
           \/ Drive!SimulateArrives(q) \/ Drive!StreetsArrive(q) \/ Drive!NearestArrives(q) \/ Drive!ToArrives(q)
           \/ Drive!PositionArrives(q) \/ Drive!ClustersArrive(q)
    PROVE  StatsSound(ui')
<1> DEFINE d == Drive!Done(ui, q)
           c == Drive!Crossed(ui, q)
<1>1. /\ DOMAIN d = DOMAIN ui /\ StatsFields \subseteq DOMAIN d /\ d.net = ui.net \ {q} /\ NetShaped(d.net)
      /\ \A f \in StatsFields \ {"net"} : d[f] = ui[f]
  BY DoneShaped DEF Drive!Done, StatsSound, SelectionSound, StatsFields
<1> HIDE DEF d, c
<1>2. CASE Drive!SimulateArrives(q)
  <2> DEFINE x == IF d.ctl = q.id THEN Drive!NoRequest ELSE d.ctl
             u == [d EXCEPT !.ctl = x]
             f == u.failed \/ ~q.dead
             v == [u EXCEPT !.stats = q.sel, !.failed = FALSE]
             w == [u EXCEPT !.failed = f]
  <2>1. \/ q.id = ui.latest /\ q.sel = ui.sel /\ ui' = v
        \/ ~(q.id = ui.latest /\ q.sel = ui.sel) /\ ui' = u
        \/ ui' = w
    BY <1>2 DEF Drive!SimulateArrives, d
  <2>2. q.id # 0 /\ q.kind = "simulate" /\ \A p \in ui.net : p.id = q.id => p = q
    BY <1>2 DEF Drive!SimulateArrives, StatsSound, SelectionSound, NetShaped
  <2>3. x # Drive!NoRequest => x = ui.ctl /\ q.id # ui.ctl
    BY <1>1 DEF StatsFields
  <2>4. x = Drive!NoRequest => ui.ctl = Drive!NoRequest \/ (Controls(ui, q) /\ ui.latest = q.id)
    <3> HAVE x = Drive!NoRequest
    <3>1. CASE ui.ctl # Drive!NoRequest
      <4>1. q.id = ui.ctl
        BY <1>1, <3>1 DEF StatsFields
      <4>2. ui.ctl = ui.latest /\ \E p \in ui.net : Controls(ui, p)
        BY <3>1 DEF StatsSound, SelectionSound, Controlled
      <4> QED BY <2>2, <4>1, <4>2 DEF Controls
    <3> QED BY <3>1
  <2> HIDE DEF x
  <2>5. /\ DOMAIN u = DOMAIN d /\ u.ctl = x /\ u.net = ui.net \ {q} /\ u.latest = ui.latest /\ u.deb = ui.deb
        /\ u.active = ui.active /\ u.sel = ui.sel /\ u.stats = ui.stats /\ u.failed = ui.failed /\ u.area = ui.area
    BY <1>1 DEF StatsFields
  <2> HIDE DEF u
  <2>6. ASSUME NEW z, DOMAIN z = DOMAIN d, z.ctl = x, z.net = ui.net \ {q}, z.latest = ui.latest, z.deb = ui.deb,
               z.active = ui.active, z.sel = ui.sel, z.area = ui.area
        PROVE  /\ StatsFields \subseteq DOMAIN z /\ NetShaped(z.net) /\ Controlled(z)
               /\ \A p \in z.net : Controls(z, p) => UpToDate(z, p)
    <3>1. ASSUME NEW p \in z.net, z.ctl # Drive!NoRequest PROVE Controls(z, p) <=> Controls(ui, p)
      BY <2>3, <2>6, <3>1 DEF Controls
    <3>2. ASSUME z.ctl # Drive!NoRequest PROVE z.ctl = z.latest /\ \E p \in z.net : Controls(z, p)
      <4>1. z.ctl = ui.ctl /\ q.id # ui.ctl
        BY <2>3, <2>6, <3>2
      <4>2. ui.ctl = ui.latest /\ \E p \in ui.net : Controls(ui, p)
        BY <3>2, <4>1 DEF StatsSound, SelectionSound, Controlled
      <4> QED BY <2>6, <3>1, <3>2, <4>1, <4>2 DEF Controls
    <3>3. ASSUME NEW p \in z.net, Controls(z, p) PROVE UpToDate(z, p)
      <4>1. z.ctl # Drive!NoRequest
        BY <2>6, <3>3 DEF Controls, Drive!NoRequest, StatsSound, SelectionSound, NetShaped
      <4>2. Controls(ui, p) /\ p \in ui.net
        BY <2>6, <3>1, <3>3, <4>1
      <4>3. UpToDate(ui, p)
        BY <4>2 DEF StatsSound
      <4> QED BY <2>6, <4>3 DEF UpToDate
    <3>4. StatsFields \subseteq DOMAIN z /\ NetShaped(z.net)
      BY <1>1, <2>6
    <3> QED BY <3>2, <3>3, <3>4 DEF Controlled
  <2>7. CASE q.id = ui.latest /\ q.sel = ui.sel /\ ui' = v
    <3>1. /\ DOMAIN v = DOMAIN d /\ v.ctl = x /\ v.net = ui.net \ {q} /\ v.latest = ui.latest /\ v.deb = ui.deb
          /\ v.active = ui.active /\ v.sel = ui.sel /\ v.area = ui.area /\ v.stats = ui.sel
      BY <1>1, <2>5, <2>7 DEF StatsFields
    <3> HIDE DEF v
    <3>2. /\ StatsFields \subseteq DOMAIN v /\ NetShaped(v.net) /\ Controlled(v)
          /\ \A p \in v.net : Controls(v, p) => UpToDate(v, p)
      BY <2>6, <2>7, <3>1
    <3> QED BY <2>7, <3>1, <3>2 DEF StatsSound, SelectionSound
  <2>8. CASE ~(q.id = ui.latest /\ q.sel = ui.sel) /\ ui' = u
    <3>1. /\ StatsFields \subseteq DOMAIN u /\ NetShaped(u.net) /\ Controlled(u)
          /\ \A p \in u.net : Controls(u, p) => UpToDate(u, p)
      BY <2>5, <2>6
    <3>2. u.stats \notin {{}, u.sel} => u.deb \/ u.failed \/ u.ctl # Drive!NoRequest
      <4> SUFFICES ASSUME u.stats \notin {{}, u.sel}, u.ctl = Drive!NoRequest PROVE u.deb \/ u.failed
        OBVIOUS
      <4>1. CASE ui.ctl = Drive!NoRequest
        BY <2>5, <4>1 DEF StatsSound
      <4>2. CASE Controls(ui, q) /\ ui.latest = q.id
        <5>1. UpToDate(ui, q)
          BY <4>2 DEF StatsSound
        <5>2. ui.deb \/ ui.sel = {}
          BY <2>8, <4>2, <5>1 DEF UpToDate
        <5> QED BY <2>5, <5>2 DEF StatsSound
      <4> QED BY <2>4, <2>5, <4>1, <4>2
    <3> QED BY <2>5, <2>8, <3>1, <3>2 DEF StatsSound, SelectionSound
  <2>9. CASE ui' = w
    <3>1. f = (ui.failed \/ ~q.dead)
      BY <2>5
    <3> HIDE DEF f
    <3>2. /\ DOMAIN w = DOMAIN d /\ w.ctl = x /\ w.net = ui.net \ {q} /\ w.latest = ui.latest /\ w.deb = ui.deb
          /\ w.active = ui.active /\ w.sel = ui.sel /\ w.area = ui.area /\ w.stats = ui.stats /\ w.failed = f
      BY <1>1, <2>5 DEF StatsFields
    <3> HIDE DEF w
    <3>3. /\ StatsFields \subseteq DOMAIN w /\ NetShaped(w.net) /\ Controlled(w)
          /\ \A p \in w.net : Controls(w, p) => UpToDate(w, p)
      BY <2>6, <3>2
    <3>4. w.stats \notin {{}, w.sel} => w.deb \/ w.failed \/ w.ctl # Drive!NoRequest
      <4> SUFFICES ASSUME w.stats \notin {{}, w.sel}, w.ctl = Drive!NoRequest PROVE w.deb \/ w.failed
        OBVIOUS
      <4>1. CASE ui.ctl = Drive!NoRequest
        BY <3>1, <3>2, <4>1 DEF StatsSound
      <4>2. CASE Controls(ui, q)
        BY <3>1, <3>2, <4>2 DEF Controls
      <4> QED BY <2>4, <3>2, <4>1, <4>2
    <3> QED BY <2>9, <3>2, <3>3, <3>4 DEF StatsSound, SelectionSound
  <2> QED BY <2>1, <2>7, <2>8, <2>9
<1>3. ASSUME ~Drive!SimulateArrives(q) PROVE StatsSound(ui')
  <2>1. q.kind # "simulate"
    BY <1>3 DEF Drive!StreetsArrive, Drive!NearestArrives, Drive!ToArrives, Drive!PositionArrives, Drive!ClustersArrive
  <2>2. StatsSound(d)
    <3>1. /\ d.deb = ui.deb /\ d.ctl = ui.ctl /\ d.latest = ui.latest /\ d.active = ui.active
          /\ d.sel = ui.sel /\ d.stats = ui.stats /\ d.failed = ui.failed /\ d.area = ui.area
      BY <1>1 DEF StatsFields
    <3>2. Controlled(d) /\ \A p \in d.net : Controls(d, p) => UpToDate(d, p)
      BY <1>1, <2>1, <3>1 DEF StatsSound, SelectionSound, Controlled, Controls, UpToDate
    <3> QED BY <1>1, <3>1, <3>2 DEF StatsSound, SelectionSound
  <2>3. ASSUME NEW v, OffStats(d, v) PROVE StatsSound(v) /\ StatsSound(Drive!Hidden(v)) /\ StatsSound(Drive!HideLater(v))
    BY <2>2, <2>3, OffStatsSound, OffStatsHelpers
  <2>4. ASSUME NEW v, OffStats(d, v), NEW s PROVE StatsSound(Drive!DisplayRoute(v, s))
    BY <2>2, <2>4, OffStatsSound, OffStatsHelpers
  <2>5. CASE Drive!StreetsArrive(q)
    <3> DEFINE u == [d EXCEPT !.crossed = c]
               v == [u EXCEPT !.streets = q.a]
    <3>1. OffStats(d, u) /\ OffStats(d, v)
      BY DEF OffStats, StatsFields
    <3>2. ui' \in {Drive!HideLater(v), Drive!Hidden(u)}
      BY <2>5 DEF Drive!StreetsArrive, d, c
    <3> HIDE DEF u, v
    <3> QED BY <2>3, <3>1, <3>2
  <2>6. CASE Drive!NearestArrives(q) \/ Drive!ToArrives(q)
    <3> DEFINE u == [d EXCEPT !.crossed = c, !.findOn = TRUE, !.fetching = FALSE]
               v == [d EXCEPT !.crossed = c, !.findOn = TRUE, !.effOn = TRUE]
    <3>1. OffStats(d, u) /\ OffStats(d, v)
      BY DEF OffStats, StatsFields
    <3>2. ui' \in {Drive!Hidden(u), Drive!Hidden(v)} \/ \E s : ui' \in {Drive!DisplayRoute(u, s), Drive!DisplayRoute(v, s)}
      BY <2>6 DEF Drive!NearestArrives, Drive!ToArrives, d, c
    <3> HIDE DEF u, v
    <3> QED BY <2>3, <2>4, <3>1, <3>2
  <2>7. CASE Drive!PositionArrives(q)
    <3> DEFINE u == [d EXCEPT !.known = TRUE, !.crossed = c]
               v == [u EXCEPT !.effOn = FALSE, !.shown = NoArea]
    <3>1. OffStats(d, v)
      BY DEF OffStats, StatsFields
    <3>2. ui' = Drive!Asked(v, "clusters", q.a, {}) \/ ui' = d
      BY <2>7 DEF Drive!PositionArrives, Drive!AskClusters, d, c
    <3> HIDE DEF v
    <3> QED BY <2>2, <2>3, <3>1, <3>2, StatsAsked
  <2>8. CASE Drive!ClustersArrive(q)
    <3> DEFINE u == [d EXCEPT !.effOn = TRUE]
               w(n) == [u EXCEPT !.suggested = <<q.a, n>>, !.shown = q.a, !.details = "clusters", !.crossed = c,
                                 !.prompts = @ \cup {<<q.a, n>>}]
    <3>1. ui' = u \/ \E n \in Streets : ui' = w(n)
      BY <2>8 DEF Drive!ClustersArrive, d, c
    <3>2. OffStats(d, u) /\ \A n : OffStats(d, w(n))
      BY DEF OffStats, StatsFields
    <3> HIDE DEF u, w
    <3> QED BY <2>3, <3>1, <3>2
  <2> QED BY <1>3, <2>5, <2>6, <2>7, <2>8
<1> QED BY <1>2, <1>3

LEMMA StatsKept ==
    ASSUME StatsSound(ui), Drive!Next
    PROVE  StatsSound(ui')
<1>1. ASSUME NEW u, StatsSound(u)
      PROVE  /\ StatsSound(Drive!Acted(u)) /\ StatsSound(Drive!Hidden(u)) /\ StatsSound(Drive!ClearRouteUI(u))
             /\ StatsSound(Drive!Deactivate(u)) /\ StatsSound(Drive!Simulate(u))
  BY <1>1, OffStatsHelpers, OffStatsSound, StatsDeactivated, StatsSimulated DEF StatsSound
<1>2. ASSUME NEW u, StatsSound(u), NEW s PROVE StatsSound(Drive!FindRouteToSegment(u, s))
  <2> DEFINE c == u.crossed \/ s[1] # u.area
             w == [u EXCEPT !.findOn = FALSE, !.effOn = FALSE, !.progress = TRUE, !.crossed = c]
  <2>1. Drive!FindRouteToSegment(u, s) = u \/ Drive!FindRouteToSegment(u, s) = Drive!Asked(w, "to", u.area, {s})
    BY DEF Drive!FindRouteToSegment
  <2> HIDE DEF c
  <2>2. OffStats(u, w)
    BY DEF OffStats, StatsFields
  <2> HIDE DEF w
  <2> QED BY <1>2, <2>1, <2>2, OffStatsSound, StatsAsked
<1>3. ASSUME NEW s, Drive!ToggleSegment(s) PROVE StatsSound(ui')
  <2> DEFINE x == IF s \in ui.sel THEN ui.sel \ {s} ELSE ui.sel \cup {s}
             u == [ui EXCEPT !.sel = x, !.deb = TRUE]
  <2>1. ui' = Drive!Acted(u) /\ ui.active /\ s[1] = ui.area
    BY <1>3 DEF Drive!ToggleSegment
  <2>2. \A y \in x : y \in ui.sel \/ y = s
    OBVIOUS
  <2> HIDE DEF x
  <2>3. /\ DOMAIN u = DOMAIN ui /\ u.sel = x /\ u.deb = TRUE /\ u.net = ui.net /\ u.ctl = ui.ctl /\ u.latest = ui.latest
        /\ u.active = ui.active /\ u.stats = ui.stats /\ u.failed = ui.failed /\ u.area = ui.area
    BY DEF StatsSound, SelectionSound, StatsFields
  <2> HIDE DEF u
  <2>4. StatsSound(u)
    BY <2>1, <2>2, <2>3 DEF StatsSound, SelectionSound, Controlled, Controls, UpToDate
  <2> QED BY <1>1, <2>1, <2>4
<1>4. ASSUME NEW s, Drive!NavigateToSegment(s) PROVE StatsSound(ui')
  BY <1>1, <1>2, <1>4 DEF Drive!NavigateToSegment
<1>5. ASSUME NEW s, Drive!PromptAnswered(s) PROVE StatsSound(ui')
  <2> DEFINE u == [ui EXCEPT !.prompts = @ \ {s}]
  <2>1. OffStats(ui, u)
    BY DEF OffStats, StatsFields
  <2>2. ui' \in {Drive!FindRouteToSegment(u, s), u}
    BY <1>5 DEF Drive!PromptAnswered
  <2> HIDE DEF u
  <2> QED BY <1>2, <2>1, <2>2, OffStatsSound
<1>6. ASSUME NEW s, Drive!HydrateSelection(s) PROVE StatsSound(ui')
  <2> DEFINE u == [ui EXCEPT !.active = TRUE, !.sel = s]
  <2>1. ui' = Drive!Acted(Drive!Simulate(u)) /\ s # {} /\ \A x \in s : x[1] = ui.area
    BY <1>6 DEF Drive!HydrateSelection
  <2>2. /\ DOMAIN u = DOMAIN ui /\ u.sel = s /\ u.deb = ui.deb /\ u.net = ui.net /\ u.ctl = ui.ctl /\ u.latest = ui.latest
        /\ u.active = TRUE /\ u.area = ui.area
    BY DEF StatsSound, SelectionSound, StatsFields
  <2> HIDE DEF u
  <2>3. SelectionSound(u)
    BY <2>1, <2>2 DEF StatsSound, SelectionSound, Controlled, Controls
  <2> QED BY <1>1, <2>1, <2>3, StatsSimulated
<1>7. ASSUME NEW a, Drive!SelectArea(a) PROVE StatsSound(ui')
  <2> DEFINE d == Drive!Deactivate(ui)
             e == Drive!ClearRouteUI(d)
             w == [e EXCEPT !.area = a, !.streets = NoArea, !.shown = NoArea, !.findOn = (a # NoArea), !.effOn = (a # NoArea)]
             x == [w EXCEPT !.progress = TRUE]
             h == Drive!HandleAreaChange(ui, a)
             c == h.crossed \/ ui.prompts # {}
             u == [h EXCEPT !.crossed = c]
  <2>1. ui' = Drive!Acted(u)
    BY <1>7 DEF Drive!SelectArea
  <2>2. h = w \/ h = Drive!Asked(x, "streets", a, {})
    BY DEF Drive!HandleAreaChange
  <2>3. StatsSound(d) /\ d.sel = {} /\ d.stats = {} /\ ~d.deb
    BY StatsDeactivated
  <2> HIDE DEF d
  <2>4. StatsSound(e) /\ e.sel = {} /\ e.stats = {} /\ ~e.deb
    BY <1>1, <2>3 DEF Drive!ClearRouteUI, StatsSound, SelectionSound, StatsFields
  <2> HIDE DEF e
  <2>5. /\ DOMAIN w = DOMAIN e /\ w.sel = e.sel /\ w.deb = e.deb /\ w.net = e.net /\ w.ctl = e.ctl /\ w.latest = e.latest
        /\ w.active = e.active /\ w.stats = e.stats /\ w.failed = e.failed
    BY <2>4 DEF StatsSound, SelectionSound, StatsFields
  <2> HIDE DEF w
  <2>6. StatsSound(w)
    BY <2>4, <2>5 DEF StatsSound, SelectionSound, Controlled, Controls, UpToDate
  <2>7. OffStats(w, x)
    BY DEF OffStats, StatsFields
  <2> HIDE DEF x
  <2>8. StatsSound(h)
    BY <2>2, <2>6, <2>7, OffStatsSound, StatsAsked
  <2> HIDE DEF h, c
  <2>9. OffStats(h, u)
    BY DEF OffStats, StatsFields
  <2> HIDE DEF u
  <2> QED BY <1>1, <2>1, <2>8, <2>9, OffStatsSound
<1>8. CASE Drive!ToggleSimulation
  <2> DEFINE u == [ui EXCEPT !.active = TRUE, !.sel = {}]
  <2>1. (ui.active /\ ui' = Drive!Acted(Drive!Deactivate(ui))) \/ (~ui.active /\ ui' = Drive!Acted(u))
    BY <1>8 DEF Drive!ToggleSimulation
  <2>2. /\ DOMAIN u = DOMAIN ui /\ u.sel = {} /\ u.deb = ui.deb /\ u.net = ui.net /\ u.ctl = ui.ctl /\ u.latest = ui.latest
        /\ u.active = TRUE /\ u.stats = ui.stats /\ u.failed = ui.failed
    BY DEF StatsSound, SelectionSound, StatsFields
  <2> HIDE DEF u
  <2>3. ~ui.active => StatsSound(u)
    BY <2>2 DEF StatsSound, SelectionSound, Controlled, Controls, UpToDate
  <2> QED BY <1>1, <2>1, <2>3
<1>9. CASE Drive!ClearSelection
  <2> DEFINE x == Drive!Aborted(ui)
             u == [x EXCEPT !.deb = FALSE, !.sel = {}, !.stats = Drive!NoStats]
  <2>1. ui' = Drive!Acted(u)
    BY <1>9 DEF Drive!ClearSelection
  <2>2. DOMAIN x = DOMAIN ui /\ StatsFields \subseteq DOMAIN x
    BY AbortedShaped DEF StatsSound, SelectionSound
  <2> HIDE DEF x
  <2>3. /\ DOMAIN u = DOMAIN ui /\ u.sel = {} /\ u.stats = {} /\ u.deb = FALSE
        /\ \A f \in {"net", "ctl", "latest", "area", "failed"} : u[f] = x[f]
    BY <2>2 DEF StatsFields, Drive!NoStats
  <2> HIDE DEF u
  <2>4. StatsSound(u)
    BY <2>3, StatsCleared DEF x
  <2> QED BY <1>1, <2>1, <2>4
<1>10. CASE Drive!DebounceFires
  <2> DEFINE u == [ui EXCEPT !.deb = FALSE]
  <2>1. ui' = Drive!Simulate(u)
    BY <1>10 DEF Drive!DebounceFires
  <2>2. /\ DOMAIN u = DOMAIN ui /\ u.sel = ui.sel /\ u.deb = FALSE /\ u.net = ui.net /\ u.ctl = ui.ctl /\ u.latest = ui.latest
        /\ u.active = ui.active /\ u.area = ui.area /\ u.stats = ui.stats
    BY DEF StatsSound, SelectionSound, StatsFields
  <2> HIDE DEF u
  <2>3. SelectionSound(u)
    BY <2>2 DEF StatsSound, SelectionSound, Controlled, Controls
  <2> QED BY <2>1, <2>3, StatsSimulated
<1>11. CASE Drive!HideFires \/ Drive!HandleLiveTrackingUpdate
  <2> DEFINE w == Drive!Hidden(ui)
             u == [w EXCEPT !.hides = @ - 1]
             v == [ui EXCEPT !.known = TRUE]
  <2>1. ui' = u \/ ui' = v
    BY <1>11 DEF Drive!HideFires, Drive!HandleLiveTrackingUpdate
  <2>2. OffStats(ui, v)
    BY DEF OffStats, StatsFields
  <2> HIDE DEF w, v
  <2>3. StatsSound(w) /\ OffStats(w, u)
    BY <1>1 DEF w, OffStats, StatsFields
  <2> HIDE DEF u
  <2> QED BY <2>1, <2>2, <2>3, OffStatsSound
<1>12. CASE Drive!FindAndDisplayRoute
  <2> DEFINE w == Drive!ClearRouteUI(ui)
             u == [w EXCEPT !.fetching = TRUE, !.findOn = FALSE, !.progress = TRUE]
  <2>1. ui' = Drive!Acted(Drive!Asked(u, "nearest", ui.area, {})) /\ StatsSound(w)
    BY <1>1, <1>12 DEF Drive!FindAndDisplayRoute
  <2> HIDE DEF w
  <2>2. OffStats(w, u)
    BY DEF OffStats, StatsFields
  <2> HIDE DEF u
  <2> QED BY <1>1, <2>1, <2>2, OffStatsSound, StatsAsked
<1>13. CASE Drive!FindEfficientStreetClusters
  <2> DEFINE u == [ui EXCEPT !.effOn = FALSE, !.shown = NoArea]
  <2>1. \/ ui' = Drive!Acted(Drive!Asked(u, "clusters", ui.area, {}))
        \/ ui' = Drive!Acted(Drive!Asked(ui, "position", ui.area, {}))
    BY <1>13 DEF Drive!FindEfficientStreetClusters, Drive!AskClusters
  <2>2. OffStats(ui, u)
    BY DEF OffStats, StatsFields
  <2> HIDE DEF u
  <2> QED BY <1>1, <2>1, <2>2, OffStatsSound, StatsAsked
<1>14. CASE Drive!RequestClusterRoute
  <2> DEFINE s == <<ui.area, ui.suggested>>
             u == [ui EXCEPT !.sent = s]
  <2>1. ui' = Drive!Acted(u)
    BY <1>14 DEF Drive!RequestClusterRoute
  <2> HIDE DEF s
  <2>2. OffStats(ui, u)
    BY DEF OffStats, StatsFields
  <2> HIDE DEF u
  <2> QED BY <1>1, <2>1, <2>2, OffStatsSound
<1>15. CASE Drive!Destroy
  <2> DEFINE w == Drive!Deactivate(ui)
             u == [w EXCEPT !.on = FALSE, !.shown = NoArea]
  <2>1. ui' = u /\ StatsSound(w)
    BY <1>1, <1>15 DEF Drive!Destroy
  <2> HIDE DEF w
  <2>2. OffStats(w, u)
    BY DEF OffStats, StatsFields
  <2> HIDE DEF u
  <2> QED BY <2>1, <2>2, OffStatsSound
<1> QED BY <1>3, <1>4, <1>5, <1>6, <1>7, <1>8, <1>9, <1>10, <1>11, <1>12, <1>13, <1>14, <1>15, StatsAnswered DEF Drive!Next

LEMMA StatsStart ==
    ASSUME Drive!Init
    PROVE  StatsSound(ui)
<1> USE DEF Drive!Init, Drive!NoRequest, Drive!NoStats
<1>1. StatsFields \subseteq DOMAIN ui /\ NetShaped(ui.net)
  BY FS_EmptySet DEF StatsFields, NetShaped
<1>2. Controlled(ui) /\ ui.net = {}
  BY DEF Controlled
<1> QED BY <1>1, <1>2 DEF StatsSound, SelectionSound

LEMMA StatsAreOfSelection ==
    ASSUME StatsSound(ui)
    PROVE  Drive!StatsOfSelection
BY DEF StatsSound, SelectionSound, Drive!StatsOfSelection, Drive!NoStats

-----------------------------------------------------------------------------
(* The route planner: of which area the route on show is.                  *)

RouteFields == {"on", "area", "streets", "data", "line", "anim", "view", "task", "tasks", "net", "crossed"}
ShownFields == RouteFields \ {"net", "crossed"}

(* Nothing has crossed and the page is there.                              *)
Undisturbed(u) == u.on /\ ~u.crossed
RouteOfArea(u, r) == r # Route!NoRoute => r[1] = "cluster" \/ r[2] = u.area

(* The questions of a selection are of an area; a generation is asked for  *)
(* and its route is read with an area selected.                            *)
AskedOfArea(u, q) ==
    /\ q.kind \in {"streets", "saved", "active"} => q.a # NoArea
    /\ q.kind = "poll" => q.t # Route!NoTask
    /\ Undisturbed(u) => /\ q.kind \in {"worker", "start"} => u.area # NoArea
                         /\ q.kind \in {"finished", "result"} => q.a # NoArea

(* Streets of another area are there only while the selected one's are     *)
(* asked for; with no area nothing is shown, drawn or followed.            *)
ShownOfArea(u) ==
    /\ u.streets \in {NoArea, u.area} \/ \E q \in u.net : q.kind = "streets" /\ q.a = u.area
    /\ RouteOfArea(u, u.data) /\ RouteOfArea(u, u.line) /\ u.anim \in {Route!NoRoute, u.data}
    /\ u.view = "results" => u.data # Route!NoRoute /\ (u.line = u.data \/ u.anim = u.data)
    /\ u.task # Route!NoTask => u.task \in Route!Tasks /\ u.tasks[u.task].a = u.area
    /\ u.area = NoArea => /\ u.view = "none" /\ u.streets = NoArea /\ u.task = Route!NoTask
                          /\ u.data = Route!NoRoute /\ u.line = Route!NoRoute

RouteSound(u) ==
    /\ RouteFields \subseteq DOMAIN u /\ u.crossed \in BOOLEAN
    /\ DOMAIN u.tasks = Route!Tasks /\ \A t \in Route!Tasks : "a" \in DOMAIN u.tasks[t]
    /\ \A q \in u.net : AskedOfArea(u, q)
    /\ Undisturbed(u) => ShownOfArea(u)

(* What shows nothing else: other fields, answers that are read, and       *)
(* questions.                                                              *)
OffRoute(u, v) ==
    /\ DOMAIN v = DOMAIN u /\ \A f \in ShownFields : v[f] = u[f]
    /\ v.crossed \in BOOLEAN /\ (u.crossed => v.crossed)
    /\ \A q \in v.net : q \in u.net \/ AskedOfArea(v, q)
    /\ Undisturbed(v) => \A q \in u.net : q.kind = "streets" /\ q.a = u.area => q \in v.net \/ u.streets \in {NoArea, u.area}

LEMMA OffRouteSound ==
    ASSUME NEW u, RouteSound(u), NEW v, OffRoute(u, v)
    PROVE  RouteSound(v)
<1>1. /\ RouteFields \subseteq DOMAIN v /\ v.on = u.on /\ v.area = u.area /\ v.streets = u.streets /\ v.data = u.data
      /\ v.line = u.line /\ v.anim = u.anim /\ v.view = u.view /\ v.task = u.task /\ v.tasks = u.tasks
  BY DEF OffRoute, RouteSound, RouteFields, ShownFields
<1>2. v.crossed \in BOOLEAN /\ (Undisturbed(v) => Undisturbed(u))
  BY <1>1 DEF OffRoute, Undisturbed
<1>3. \A q \in v.net : AskedOfArea(v, q)
  BY <1>1, <1>2 DEF OffRoute, RouteSound, AskedOfArea
<1>4. Undisturbed(v) => ShownOfArea(v)
  BY <1>1, <1>2 DEF OffRoute, RouteSound, ShownOfArea, RouteOfArea
<1> QED BY <1>1, <1>2, <1>3, <1>4 DEF RouteSound

LEMMA OffRouteFields ==
    ASSUME NEW u, RouteSound(u), NEW v, DOMAIN v = DOMAIN u, \A f \in RouteFields \ {"crossed"} : v[f] = u[f],
           v.crossed \in BOOLEAN, u.crossed => v.crossed
    PROVE  OffRoute(u, v)
BY DEF OffRoute, RouteSound, RouteFields, ShownFields

LEMMA RouteAsked ==
    ASSUME NEW u, RouteSound(u), NEW k, NEW a, NEW t, NEW b,
           k \in {"streets", "saved", "active"} => a # NoArea, k = "poll" => t # Route!NoTask,
           Undisturbed(u) /\ k \in {"worker", "start"} => u.area # NoArea,
           Undisturbed(u) /\ k \in {"finished", "result"} => a # NoArea
    PROVE  RouteSound(Route!Asked(u, k, a, t, b))
<1> DEFINE n == [id |-> Route!Fresh(u.net), kind |-> k, a |-> a, t |-> t, cl |-> b]
           w == [u EXCEPT !.net = @ \cup {n}]
<1>1. Route!Asked(u, k, a, t, b) = w
  BY DEF Route!Asked
<1>2. n.kind = k /\ n.a = a /\ n.t = t
  OBVIOUS
<1> HIDE DEF n
<1>3. DOMAIN w = DOMAIN u /\ w.net = u.net \cup {n} /\ \A f \in ShownFields \cup {"crossed"} : w[f] = u[f]
  BY DEF RouteSound, RouteFields, ShownFields
<1> HIDE DEF w
<1>4. w.crossed = u.crossed /\ w.on = u.on /\ w.area = u.area
  BY <1>3 DEF ShownFields, RouteFields
<1>5. AskedOfArea(w, n)
  BY <1>2, <1>4 DEF AskedOfArea, Undisturbed
<1>6. OffRoute(u, w)
  BY <1>3, <1>4, <1>5 DEF OffRoute, RouteSound
<1> QED BY <1>1, <1>3, <1>6, OffRouteSound

(* The stream, the polling, the clock and the buttons.                     *)
LEMMA OffRouteHelpers ==
    ASSUME NEW u, RouteSound(u), NEW t
    PROVE  /\ RouteSound(Route!Acted(u)) /\ RouteSound(Route!DisconnectSSE(u)) /\ RouteSound(Route!ConnectSSE(u, t))
           /\ \A f \in RouteFields : Route!DisconnectSSE(u)[f] = u[f]
<1>1. ASSUME NEW v, DOMAIN v = DOMAIN u, \A f \in RouteFields : v[f] = u[f] PROVE RouteSound(v)
  BY <1>1, OffRouteFields, OffRouteSound DEF RouteSound, RouteFields
<1>2. DOMAIN Route!Acted(u) = DOMAIN u /\ \A f \in RouteFields : Route!Acted(u)[f] = u[f]
  BY DEF Route!Acted, RouteFields
<1>3. DOMAIN Route!DisconnectSSE(u) = DOMAIN u /\ \A f \in RouteFields : Route!DisconnectSSE(u)[f] = u[f]
  BY DEF Route!DisconnectSSE, RouteFields
<1>4. DOMAIN Route!ConnectSSE(u, t) = DOMAIN u /\ \A f \in RouteFields : Route!ConnectSSE(u, t)[f] = u[f]
  BY DEF Route!ConnectSSE, Route!DisconnectSSE, RouteFields
<1> QED BY <1>1, <1>2, <1>3, <1>4

(* A panel, with an area selected; or none.                                *)
LEMMA RoutePanels ==
    ASSUME NEW u, RouteSound(u)
    PROVE  /\ (Undisturbed(u) => u.area # NoArea) => RouteSound(Route!ShowProgressSection(u)) /\ RouteSound(Route!ShowError(u))
           /\ RouteSound(Route!HideProgress(u)) /\ RouteSound(Route!ClearRouteDisplay(u))
<1>1. ASSUME NEW v, DOMAIN v = DOMAIN u, \A f \in RouteFields \ {"view"} : v[f] = u[f],
             v.view = "none" \/ ((Undisturbed(u) => u.area # NoArea) /\ v.view \in {"progress", "error"}) \/ v.view = u.view
      PROVE  RouteSound(v)
  <2>1. /\ RouteFields \subseteq DOMAIN v /\ v.on = u.on /\ v.area = u.area /\ v.streets = u.streets /\ v.data = u.data
        /\ v.line = u.line /\ v.anim = u.anim /\ v.task = u.task /\ v.tasks = u.tasks /\ v.net = u.net /\ v.crossed = u.crossed
    BY <1>1 DEF RouteSound, RouteFields
  <2> QED BY <1>1, <2>1 DEF RouteSound, AskedOfArea, Undisturbed, ShownOfArea, RouteOfArea
<1>2. /\ DOMAIN Route!ShowProgressSection(u) = DOMAIN u /\ Route!ShowProgressSection(u).view = "progress"
      /\ \A f \in RouteFields \ {"view"} : Route!ShowProgressSection(u)[f] = u[f]
  BY DEF Route!ShowProgressSection, RouteSound, RouteFields
<1>3. /\ DOMAIN Route!ShowError(u) = DOMAIN u /\ Route!ShowError(u).view = "error"
      /\ \A f \in RouteFields \ {"view"} : Route!ShowError(u)[f] = u[f]
  BY DEF Route!ShowError, RouteSound, RouteFields
<1>4. RouteSound(Route!HideProgress(u))
  <2> DEFINE x == IF u.view = "progress" THEN "none" ELSE u.view
             w == [u EXCEPT !.view = x, !.timer = FALSE]
  <2>1. Route!HideProgress(u) = w
    BY DEF Route!HideProgress
  <2>2. x = "none" \/ x = u.view
    OBVIOUS
  <2> HIDE DEF x
  <2>3. DOMAIN w = DOMAIN u /\ w.view = x /\ \A f \in RouteFields \ {"view"} : w[f] = u[f]
    BY DEF RouteSound, RouteFields
  <2> HIDE DEF w
  <2> QED BY <1>1, <2>1, <2>2, <2>3
<1>5. RouteSound(Route!ClearRouteDisplay(u))
  <2> DEFINE w == Route!ClearRouteDisplay(u)
  <2>1. /\ DOMAIN w = DOMAIN u /\ w.view = "none" /\ w.line = Route!NoRoute /\ w.anim = Route!NoRoute /\ w.data = Route!NoRoute
        /\ \A f \in RouteFields \ {"view", "line", "anim", "data"} : w[f] = u[f]
    BY DEF Route!ClearRouteDisplay, Route!ClearRoute, RouteSound, RouteFields
  <2> HIDE DEF w
  <2>2. /\ RouteFields \subseteq DOMAIN w /\ w.on = u.on /\ w.area = u.area /\ w.streets = u.streets
        /\ w.task = u.task /\ w.tasks = u.tasks /\ w.net = u.net /\ w.crossed = u.crossed
    BY <2>1 DEF RouteSound, RouteFields
  <2>3. RouteSound(w)
    BY <2>1, <2>2 DEF RouteSound, AskedOfArea, Undisturbed, ShownOfArea, RouteOfArea
  <2> QED BY <2>3 DEF w
<1> QED BY <1>1, <1>2, <1>3, <1>4, <1>5

(* A route of the area is read and drawn.                                  *)
LEMMA RouteShown ==
    ASSUME NEW u, RouteSound(u), NEW r, r # Route!NoRoute, NEW b \in BOOLEAN,
           Undisturbed(u) => u.area # NoArea /\ RouteOfArea(u, r)
    PROVE  RouteSound(Route!ShowResults(Route!DisplayRoute([u EXCEPT !.data = r], r, b)))
<1> DEFINE d == [u EXCEPT !.data = r]
           e == Route!DisplayRoute(d, r, b)
           w == Route!ShowResults(e)
<1>1. DOMAIN d = DOMAIN u /\ d.data = r /\ \A f \in RouteFields \ {"data"} : d[f] = u[f]
  BY DEF RouteSound, RouteFields
<1> HIDE DEF d
<1>2. /\ DOMAIN e = DOMAIN u /\ (\A f \in RouteFields \ {"line", "anim"} : e[f] = d[f])
      /\ ((e.line = r /\ e.anim = Route!NoRoute) \/ (e.line = Route!NoRoute /\ e.anim = r))
  BY <1>1 DEF Route!DisplayRoute, RouteSound, RouteFields
<1> HIDE DEF e
<1>3. DOMAIN w = DOMAIN u /\ w.view = "results" /\ \A f \in RouteFields \ {"view"} : w[f] = e[f]
  BY <1>2 DEF Route!ShowResults, RouteSound, RouteFields
<1> HIDE DEF w
<1>4. /\ RouteFields \subseteq DOMAIN w /\ w.on = u.on /\ w.area = u.area /\ w.streets = u.streets /\ w.data = r
      /\ w.line = e.line /\ w.anim = e.anim
      /\ w.task = u.task /\ w.tasks = u.tasks /\ w.net = u.net /\ w.crossed = u.crossed
  BY <1>1, <1>2, <1>3 DEF RouteSound, RouteFields
<1>5. RouteSound(w)
  BY <1>2, <1>3, <1>4 DEF RouteSound, AskedOfArea, Undisturbed, ShownOfArea, RouteOfArea
<1> QED BY <1>5 DEF d, e, w

(* A generation's end, with an area selected or a crossing.                *)
LEMMA RouteTaskEnds ==
    ASSUME NEW u, RouteSound(u)
    PROVE  /\ (Undisturbed(u) => u.area # NoArea) => RouteSound(Route!OnError(u))
           /\ RouteSound(Route!OnCancelled(u)) /\ RouteSound(Route!OnGenerationComplete(u))
<1> DEFINE v == [u EXCEPT !.task = Route!NoTask, !.cluster = FALSE]
           x == [v EXCEPT !.crossed = @ \/ u.area = NoArea]
<1>1. DOMAIN v = DOMAIN u /\ v.task = Route!NoTask /\ \A f \in RouteFields \ {"task"} : v[f] = u[f]
  BY DEF RouteSound, RouteFields
<1>2. RouteSound(v) /\ v.area = u.area /\ v.on = u.on /\ v.crossed = u.crossed /\ v.task = Route!NoTask /\ RouteFields \subseteq DOMAIN v
  <2> HIDE DEF v
  <2>1. /\ RouteFields \subseteq DOMAIN v /\ v.on = u.on /\ v.area = u.area /\ v.streets = u.streets /\ v.data = u.data
        /\ v.line = u.line /\ v.anim = u.anim /\ v.view = u.view /\ v.tasks = u.tasks /\ v.net = u.net /\ v.crossed = u.crossed
    BY <1>1 DEF RouteSound, RouteFields
  <2> QED BY <1>1, <2>1 DEF RouteSound, AskedOfArea, Undisturbed, ShownOfArea, RouteOfArea
<1>3. ASSUME Undisturbed(u) => u.area # NoArea PROVE RouteSound(Route!OnError(u))
  <2>1. Route!OnError(u) = Route!ShowError(v)
    BY DEF Route!OnError
  <2> HIDE DEF v
  <2> QED BY <1>2, <1>3, <2>1, RoutePanels DEF Undisturbed
<1>4. RouteSound(Route!OnCancelled(u))
  <2> DEFINE h == Route!HideProgress(u)
             w == [h EXCEPT !.task = Route!NoTask, !.cluster = FALSE, !.button = TRUE]
  <2>1. Route!OnCancelled(u) = w
    BY DEF Route!OnCancelled
  <2>2. RouteSound(h)
    BY RoutePanels
  <2> HIDE DEF h
  <2>3. DOMAIN w = DOMAIN h /\ w.task = Route!NoTask /\ \A f \in RouteFields \ {"task"} : w[f] = h[f]
    BY <2>2 DEF RouteSound, RouteFields
  <2> HIDE DEF w
  <2>4. /\ RouteFields \subseteq DOMAIN w /\ w.on = h.on /\ w.area = h.area /\ w.streets = h.streets /\ w.data = h.data
        /\ w.line = h.line /\ w.anim = h.anim /\ w.view = h.view /\ w.tasks = h.tasks /\ w.net = h.net /\ w.crossed = h.crossed
    BY <2>2, <2>3 DEF RouteSound, RouteFields
  <2> QED BY <2>1, <2>2, <2>3, <2>4 DEF RouteSound, AskedOfArea, Undisturbed, ShownOfArea, RouteOfArea
<1>5. RouteSound(Route!OnGenerationComplete(u))
  <2>1. \/ u.task # Route!NoTask /\ Route!OnGenerationComplete(u) = Route!Asked(v, "result", u.area, u.task, TRUE)
        \/ Route!OnGenerationComplete(u) = Route!Asked(x, "finished", u.area, Route!NoTask, FALSE)
    BY DEF Route!OnGenerationComplete
  <2> HIDE DEF v
  <2>2. u.task # Route!NoTask => RouteSound(Route!Asked(v, "result", u.area, u.task, TRUE))
    <3>1. u.task # Route!NoTask /\ Undisturbed(u) => u.area # NoArea
      BY DEF RouteSound, ShownOfArea
    <3> QED BY <1>2, <3>1, RouteAsked DEF Undisturbed
  <2>3. RouteSound(Route!Asked(x, "finished", u.area, Route!NoTask, FALSE))
    <3> DEFINE c == v.crossed \/ u.area = NoArea
               y == [v EXCEPT !.crossed = c]
    <3>1. x = y
      OBVIOUS
    <3>2. c \in BOOLEAN /\ (v.crossed => c) /\ (~c => u.area # NoArea)
      BY <1>2 DEF RouteSound
    <3> HIDE DEF c, x
    <3>3. RouteSound(y) /\ y.crossed = c
      <4>1. DOMAIN y = DOMAIN v /\ y.crossed = c /\ \A f \in RouteFields \ {"crossed"} : y[f] = v[f]
        BY <1>2 DEF RouteFields
      <4> HIDE DEF y
      <4> QED BY <1>2, <3>2, <4>1, OffRouteFields, OffRouteSound
    <3> HIDE DEF y
    <3>4. Undisturbed(y) => u.area # NoArea
      BY <3>2, <3>3 DEF Undisturbed
    <3> QED BY <3>1, <3>3, <3>4, RouteAsked
  <2> QED BY <2>1, <2>2, <2>3
<1> QED BY <1>3, <1>4, <1>5

LEMMA RouteTerminal ==
    ASSUME NEW u, RouteSound(u), NEW t, t # Route!NoTask
    PROVE  RouteSound(Route!HandleTerminalState(u, t))
<1> DEFINE c == u.crossed \/ t # u.task \/ u.tasks[t].a # u.area
           w == [u EXCEPT !.crossed = c]
           v == Route!DisconnectSSE(w)
<1>1. Route!HandleTerminalState(u, t) \in {u, Route!OnError(v), Route!OnCancelled(v), Route!OnGenerationComplete(v)}
  BY DEF Route!HandleTerminalState
<1>2. c \in BOOLEAN /\ (u.crossed => c) /\ (~c => t = u.task)
  BY DEF RouteSound
<1> HIDE DEF c
<1>3. DOMAIN w = DOMAIN u /\ w.crossed = c /\ \A f \in RouteFields \ {"crossed"} : w[f] = u[f]
  BY DEF RouteSound, RouteFields
<1> HIDE DEF w
<1>4. RouteSound(w) /\ w.area = u.area /\ w.task = u.task
  BY <1>2, <1>3, OffRouteFields, OffRouteSound DEF RouteFields
<1>5. Undisturbed(w) => w.area # NoArea
  BY <1>2, <1>3, <1>4 DEF RouteSound, ShownOfArea, Undisturbed
<1>6. RouteSound(v) /\ (Undisturbed(v) => v.area # NoArea)
  <2>1. RouteSound(v) /\ v.on = w.on /\ v.crossed = w.crossed /\ v.area = w.area
    BY <1>4, OffRouteHelpers DEF RouteFields
  <2> HIDE DEF v
  <2> QED BY <1>5, <2>1 DEF Undisturbed
<1> HIDE DEF v
<1> QED BY <1>1, <1>6, RouteTaskEnds

(* Another area: what was shown goes, and its streets are asked for; with  *)
(* a generation on its way the two have crossed.                           *)
LEMMA RouteSelects ==
    ASSUME NEW u, RouteSound(u), NEW a
    PROVE  RouteSound(Route!OnAreaSelect(u, a))
<1> DEFINE e == Route!ClearRouteDisplay(u)
           b == (a # NoArea)
           c == e.crossed \/ Route!Busy(u)
           v == [e EXCEPT !.area = a, !.button = b, !.crossed = c]
           n == [id |-> Route!Fresh(v.net), kind |-> "streets", a |-> a, t |-> Route!NoTask, cl |-> FALSE]
           x == [v EXCEPT !.streets = NoArea]
           y == [v EXCEPT !.net = @ \cup {n}]
<1>1. /\ RouteSound(e) /\ e.task = u.task /\ e.net = u.net /\ e.view = "none" /\ e.line = Route!NoRoute
      /\ e.anim = Route!NoRoute /\ e.data = Route!NoRoute /\ e.crossed = u.crossed
  BY RoutePanels DEF Route!ClearRouteDisplay, Route!ClearRoute, RouteSound, RouteFields
<1>2. Route!OnAreaSelect(u, a) = IF a = NoArea THEN x ELSE y
  BY DEF Route!OnAreaSelect, Route!Asked
<1>3. n.kind = "streets" /\ n.a = a
  OBVIOUS
<1> HIDE DEF e, n, b
<1>4. c \in BOOLEAN /\ (e.crossed => c)
      /\ (~c => e.task = Route!NoTask /\ \A q \in e.net : q.kind \notin {"worker", "start"})
  BY <1>1 DEF RouteSound, Route!Busy, Route!Starting
<1> HIDE DEF c
<1>5. /\ DOMAIN v = DOMAIN e /\ v.area = a /\ v.crossed = c
      /\ \A f \in RouteFields \ {"area", "crossed"} : v[f] = e[f]
  BY <1>1 DEF RouteSound, RouteFields
<1> HIDE DEF v
<1>6. /\ RouteFields \subseteq DOMAIN v /\ v.on = e.on /\ v.streets = e.streets /\ v.data = e.data
      /\ v.line = e.line /\ v.anim = e.anim /\ v.view = e.view /\ v.task = e.task /\ v.tasks = e.tasks /\ v.net = e.net
  BY <1>1, <1>5 DEF RouteSound, RouteFields
<1>7. a = NoArea => RouteSound(x)
  <2>1. DOMAIN x = DOMAIN v /\ x.streets = NoArea /\ \A f \in RouteFields \ {"streets"} : x[f] = v[f]
    BY <1>6 DEF RouteFields
  <2> HIDE DEF x
  <2>2. /\ RouteFields \subseteq DOMAIN x /\ x.on = e.on /\ x.area = a /\ x.data = e.data /\ x.crossed = c
        /\ x.line = e.line /\ x.anim = e.anim /\ x.view = e.view /\ x.task = e.task /\ x.tasks = e.tasks /\ x.net = e.net
    BY <1>5, <1>6, <2>1 DEF RouteFields
  <2> QED BY <1>1, <1>4, <2>1, <2>2 DEF RouteSound, AskedOfArea, Undisturbed, ShownOfArea, RouteOfArea
<1>8. a # NoArea => RouteSound(y)
  <2>1. DOMAIN y = DOMAIN v /\ y.net = v.net \cup {n} /\ \A f \in RouteFields \ {"net"} : y[f] = v[f]
    BY <1>6 DEF RouteFields
  <2> HIDE DEF y
  <2>2. /\ RouteFields \subseteq DOMAIN y /\ y.on = e.on /\ y.area = a /\ y.data = e.data /\ y.crossed = c /\ y.streets = e.streets
        /\ y.line = e.line /\ y.anim = e.anim /\ y.view = e.view /\ y.task = e.task /\ y.tasks = e.tasks /\ y.net = e.net \cup {n}
    BY <1>5, <1>6, <2>1 DEF RouteFields
  <2> HAVE a # NoArea
  <2>3. \A q \in y.net : AskedOfArea(y, q)
    BY <1>1, <1>3, <1>4, <2>2 DEF RouteSound, AskedOfArea, Undisturbed
  <2>4. Undisturbed(y) => ShownOfArea(y)
    BY <1>1, <1>3, <1>4, <2>2 DEF RouteSound, Undisturbed, ShownOfArea, RouteOfArea
  <2> QED BY <1>1, <1>4, <2>2, <2>3, <2>4 DEF RouteSound
<1> QED BY <1>2, <1>7, <1>8

(* An answer is read: of which area it is, is compared with the selected   *)
(* one; crossing another one is noted.                                     *)
LEMMA RouteDone ==
    ASSUME RouteSound(ui), NEW q \in ui.net, NEW c \in BOOLEAN, ui.crossed => c, NEW v, DOMAIN v = DOMAIN ui,
           \A f \in ShownFields : v[f] = ui[f], v.net = ui.net \ {q}, v.crossed = c,
           ~c => q.kind # "streets" \/ ui.streets \in {NoArea, ui.area}
    PROVE  RouteSound(v) /\ v.area = ui.area /\ v.on = ui.on /\ v.task = ui.task
<1>1. OffRoute(ui, v)
  BY DEF OffRoute, RouteSound, Undisturbed
<1> QED BY <1>1, OffRouteSound DEF ShownFields, RouteFields

LEMMA RouteSelectionAnswers ==
    ASSUME RouteSound(ui), NEW q \in ui.net,
           Route!AreasArrive(q) \/ Route!StreetsArrive(q) \/ Route!SavedArrives(q) \/ Route!ActiveArrives(q)
    PROVE  RouteSound(ui')
<1> DEFINE d == Route!Done(ui, q)
<1>1. DOMAIN d = DOMAIN ui /\ d.net = ui.net \ {q} /\ \A f \in DOMAIN ui \ {"net"} : d[f] = ui[f]
  BY DEF Route!Done, RouteSound, RouteFields
<1> HIDE DEF d
<1>2. CASE Route!AreasArrive(q)
  <2> DEFINE u == [d EXCEPT !.listed = TRUE, !.has = ui.srv]
  <2>1. q.kind = "areas" /\ (ui' \in {u, d} \/ \E a \in Areas : ui' = Route!OnAreaSelect(u, a))
    BY <1>2 DEF Route!AreasArrive, d
  <2>2. /\ DOMAIN u = DOMAIN ui /\ u.net = d.net /\ u.crossed = ui.crossed /\ d.crossed = ui.crossed
        /\ \A f \in ShownFields : u[f] = ui[f] /\ d[f] = ui[f]
    BY <1>1 DEF RouteSound, RouteFields, ShownFields
  <2> HIDE DEF u
  <2>3. RouteSound(u) /\ RouteSound(d)
    BY <1>1, <2>1, <2>2, RouteDone DEF RouteSound
  <2> QED BY <2>1, <2>3, RouteSelects
<1>3. CASE Route!StreetsArrive(q)
  <2>1. PICK ok \in BOOLEAN :
          ui' = Route!Asked([d EXCEPT !.streets = IF ok THEN q.a ELSE @,
                                      !.crossed = Route!Stale(ui, q) \/ (~ok /\ ui.streets \notin {NoArea, q.a})],
                            IF ui.has[q.a] THEN "saved" ELSE "active", q.a, Route!NoTask, FALSE)
    BY <1>3 DEF Route!StreetsArrive, d
  <2> DEFINE s == IF ok THEN q.a ELSE ui.streets
             c == Route!Stale(ui, q) \/ (~ok /\ ui.streets \notin {NoArea, q.a})
             u == [d EXCEPT !.streets = s, !.crossed = c]
             k == IF ui.has[q.a] THEN "saved" ELSE "active"
  <2>2. ui' = Route!Asked(u, k, q.a, Route!NoTask, FALSE)
    BY <1>1, <2>1 DEF RouteSound, RouteFields
  <2>3. q.kind = "streets" /\ q.a # NoArea
    BY <1>3 DEF Route!StreetsArrive, RouteSound, AskedOfArea
  <2>4. c \in BOOLEAN /\ (ui.crossed => c) /\ (~c => q.a = ui.area /\ s \in {NoArea, ui.area})
    BY DEF RouteSound, Route!Stale
  <2>5. k \in {"saved", "active"}
    OBVIOUS
  <2> HIDE DEF c, s, k
  <2>6. /\ DOMAIN u = DOMAIN ui /\ u.net = ui.net \ {q} /\ u.crossed = c /\ u.streets = s
        /\ \A f \in ShownFields \ {"streets"} : u[f] = ui[f]
    BY <1>1 DEF RouteSound, RouteFields, ShownFields
  <2> HIDE DEF u
  <2>7. /\ RouteFields \subseteq DOMAIN u /\ u.on = ui.on /\ u.area = ui.area /\ u.data = ui.data /\ u.task = ui.task
        /\ u.line = ui.line /\ u.anim = ui.anim /\ u.view = ui.view /\ u.tasks = ui.tasks
    BY <2>6 DEF RouteSound, RouteFields, ShownFields
  <2>8. RouteSound(u)
    BY <2>3, <2>4, <2>6, <2>7 DEF RouteSound, AskedOfArea, Undisturbed, ShownOfArea, RouteOfArea
  <2> QED BY <2>2, <2>3, <2>5, <2>8, RouteAsked
<1>4. CASE Route!SavedArrives(q)
  <2> DEFINE c == Route!Stale(ui, q) \/ Route!Busy(ui)
             w == [d EXCEPT !.crossed = c]
             u == Route!Asked(w, "active", q.a, Route!NoTask, FALSE)
             r == <<"saved", q.a>>
  <2>1. ui' \in {Route!ShowResults(Route!DisplayRoute([u EXCEPT !.data = r], r, FALSE)), u}
    BY <1>4 DEF Route!SavedArrives, d
  <2>2. q.kind = "saved" /\ q.a # NoArea
    BY <1>4 DEF Route!SavedArrives, RouteSound, AskedOfArea
  <2>3. c \in BOOLEAN /\ (ui.crossed => c) /\ (~c => q.a = ui.area)
    BY DEF RouteSound, Route!Stale
  <2> HIDE DEF c
  <2>4. DOMAIN w = DOMAIN ui /\ w.net = ui.net \ {q} /\ w.crossed = c /\ \A f \in ShownFields : w[f] = ui[f]
    BY <1>1 DEF RouteSound, RouteFields, ShownFields
  <2> HIDE DEF w
  <2>5. RouteSound(w) /\ w.area = ui.area
    BY <2>2, <2>3, <2>4, RouteDone
  <2>6. RouteSound(u) /\ u.crossed = c /\ u.area = ui.area
    <3>1. RouteSound(u)
      BY <2>2, <2>5, RouteAsked
    <3>2. u.crossed = w.crossed /\ u.area = w.area
      BY <2>4, <2>5 DEF Route!Asked, RouteSound, RouteFields
    <3> QED BY <2>4, <2>5, <3>1, <3>2
  <2> HIDE DEF u
  <2>7. r # Route!NoRoute /\ r[2] = q.a
    BY DEF Route!NoRoute
  <2> HIDE DEF r
  <2>8. Undisturbed(u) => u.area # NoArea /\ RouteOfArea(u, r)
    BY <2>2, <2>3, <2>6, <2>7 DEF Undisturbed, RouteOfArea
  <2> QED BY <2>1, <2>6, <2>7, <2>8, RouteShown
<1>5. CASE Route!ActiveArrives(q)
  <2> DEFINE c == Route!Stale(ui, q)
             u == [d EXCEPT !.crossed = c]
             e(t) == c \/ ui.tasks[t].cl \/ Route!Starting(ui) \/ ui.task \notin {t, Route!NoTask}
             v(t) == [u EXCEPT !.task = t, !.crossed = e(t)]
  <2>1. \/ ui' = u
        \/ \E t \in Route!Tasks : ui.tasks[t].a = q.a /\ ui' = Route!ConnectSSE(Route!ShowProgressSection(v(t)), t)
    <3>1. "crossed" \in DOMAIN d /\ u.crossed = c
      BY <1>1 DEF RouteSound, RouteFields
    <3> QED BY <1>5, <3>1 DEF Route!ActiveArrives, d
  <2>2. q.kind = "active" /\ q.a # NoArea
    BY <1>5 DEF Route!ActiveArrives, RouteSound, AskedOfArea
  <2>3. c \in BOOLEAN /\ (ui.crossed => c) /\ (~c => q.a = ui.area)
    BY DEF RouteSound, Route!Stale
  <2> HIDE DEF c
  <2>4. DOMAIN u = DOMAIN ui /\ u.net = ui.net \ {q} /\ u.crossed = c /\ \A f \in ShownFields : u[f] = ui[f]
    BY <1>1 DEF RouteSound, RouteFields, ShownFields
  <2> HIDE DEF u
  <2>5. RouteSound(u) /\ u.area = ui.area
    BY <2>2, <2>3, <2>4, RouteDone
  <2>6. ASSUME NEW t \in Route!Tasks, ui.tasks[t].a = q.a PROVE RouteSound(Route!ConnectSSE(Route!ShowProgressSection(v(t)), t))
    <3> DEFINE g == e(t)
               w == v(t)
    <3>1. g \in BOOLEAN /\ (c => g)
      BY <2>3
    <3> HIDE DEF e
    <3>2. /\ DOMAIN w = DOMAIN u /\ w.crossed = g /\ w.task = t
          /\ \A f \in RouteFields \ {"task", "crossed"} : w[f] = u[f]
      BY <2>5 DEF RouteSound, RouteFields
    <3> HIDE DEF g, w, v
    <3>3. /\ RouteFields \subseteq DOMAIN w /\ w.on = u.on /\ w.area = u.area /\ w.data = u.data /\ w.streets = u.streets
          /\ w.line = u.line /\ w.anim = u.anim /\ w.view = u.view /\ w.tasks = u.tasks /\ w.net = u.net
      BY <2>5, <3>2 DEF RouteSound, RouteFields
    <3>4. w.tasks = ui.tasks
      BY <2>4, <3>3 DEF ShownFields, RouteFields
    <3>5. Undisturbed(w) => ~c /\ w.area # NoArea /\ w.task \in Route!Tasks /\ w.tasks[w.task].a = w.area /\ Undisturbed(u)
      BY <2>2, <2>3, <2>4, <2>5, <2>6, <3>1, <3>2, <3>3, <3>4 DEF Undisturbed
    <3>6. RouteSound(w)
      BY <2>5, <3>1, <3>2, <3>3, <3>5 DEF RouteSound, AskedOfArea, Undisturbed, ShownOfArea, RouteOfArea
    <3>7. RouteSound(Route!ConnectSSE(Route!ShowProgressSection(w), t))
      BY <3>5, <3>6, RoutePanels, OffRouteHelpers
    <3> QED BY <3>7 DEF w, v
  <2> QED BY <2>1, <2>5, <2>6
<1> QED BY <1>2, <1>3, <1>4, <1>5

LEMMA RouteGenerationAnswers ==
    ASSUME RouteSound(ui), NEW q \in ui.net,
           \/ Route!WorkerChecked(q) \/ Route!Started(q) \/ Route!PollArrives(q) \/ Route!PollFails(q)
           \/ Route!CancelAnswered(q) \/ Route!FinishedArrives(q) \/ Route!RouteCleared(q)
    PROVE  RouteSound(ui')
<1> DEFINE d == Route!Done(ui, q)
<1>1. DOMAIN d = DOMAIN ui /\ d.net = ui.net \ {q} /\ \A f \in DOMAIN ui \ {"net"} : d[f] = ui[f]
  BY DEF Route!Done, RouteSound, RouteFields
<1> HIDE DEF d
<1>2. q.kind # "streets"
  BY DEF Route!WorkerChecked, Route!Started, Route!PollArrives, Route!PollFails, Route!CancelAnswered, Route!FinishedArrives,
         Route!RouteCleared
<1>3. ASSUME NEW v, DOMAIN v = DOMAIN d, \A f \in RouteFields \ {"crossed"} : v[f] = d[f], v.crossed \in BOOLEAN, ui.crossed => v.crossed
      PROVE  RouteSound(v) /\ v.area = ui.area /\ v.on = ui.on /\ v.task = ui.task
  <2>1. v.net = ui.net \ {q} /\ \A f \in ShownFields : v[f] = ui[f]
    BY <1>1, <1>3 DEF RouteSound, RouteFields, ShownFields
  <2> QED BY <1>1, <1>2, <1>3, <2>1, RouteDone
<1>4. d.crossed = ui.crossed /\ d.crossed \in BOOLEAN /\ RouteFields \subseteq DOMAIN d
  BY <1>1 DEF RouteSound, RouteFields
<1>5. CASE Route!WorkerChecked(q)
  <2> DEFINE a == IF q.cl THEN q.a ELSE ui.area
  <2>1. ui' = Route!Asked(d, "start", a, Route!NoTask, q.cl) /\ q.kind = "worker"
    BY <1>5 DEF Route!WorkerChecked, d
  <2> HIDE DEF a
  <2>2. RouteSound(d) /\ d.area = ui.area /\ d.on = ui.on
    BY <1>3, <1>4
  <2>3. Undisturbed(d) => d.area # NoArea
    BY <1>4, <2>1, <2>2 DEF RouteSound, AskedOfArea, Undisturbed
  <2> QED BY <2>1, <2>2, <2>3, RouteAsked
<1>6. CASE Route!Started(q)
  <2> DEFINE c == Route!Stale(ui, q)
             b == d.unfollowed \/ ui.task # Route!NoTask
             x == [d EXCEPT !.unfollowed = b]
             n == [a |-> q.a, cl |-> q.cl, s |-> "running"]
             w(t) == [d EXCEPT !.tasks[t] = n, !.task = t, !.crossed = c]
  <2>1. q.kind = "start" /\ (ui' = Route!OnError(x) \/ \E t \in Route!Tasks : q.a # NoArea /\ ui' = Route!ConnectSSE(w(t), t))
    BY <1>6 DEF Route!Started, d
  <2>2. c \in BOOLEAN /\ (ui.crossed => c) /\ (~c => q.a = ui.area)
    BY DEF RouteSound, Route!Stale
  <2>3. n.a = q.a /\ "a" \in DOMAIN n
    OBVIOUS
  <2> HIDE DEF c, b, n
  <2>4. RouteSound(Route!OnError(x))
    <3>1. DOMAIN x = DOMAIN d /\ \A f \in RouteFields : x[f] = d[f]
      BY DEF RouteFields
    <3> HIDE DEF x
    <3>2. RouteSound(x) /\ x.area = ui.area /\ x.on = ui.on /\ x.crossed = ui.crossed
      BY <1>3, <1>4, <3>1 DEF RouteFields
    <3>3. Undisturbed(x) => x.area # NoArea
      BY <2>1, <3>2 DEF RouteSound, AskedOfArea, Undisturbed
    <3> QED BY <3>2, <3>3, RouteTaskEnds
  <2>5. ASSUME NEW t \in Route!Tasks, q.a # NoArea PROVE RouteSound(Route!ConnectSSE(w(t), t))
    <3> DEFINE y == [d EXCEPT !.crossed = c]
               v == w(t)
    <3>1. DOMAIN y = DOMAIN d /\ y.crossed = c /\ \A f \in RouteFields \ {"crossed"} : y[f] = d[f]
      BY <1>4 DEF RouteFields
    <3>2. /\ DOMAIN v = DOMAIN d /\ v.crossed = c /\ v.task = t /\ v.tasks = [d.tasks EXCEPT ![t] = n]
          /\ \A f \in RouteFields \ {"crossed", "task", "tasks"} : v[f] = d[f]
      BY <1>4 DEF RouteFields
    <3> HIDE DEF y, v, w
    <3>3. RouteSound(y) /\ y.area = ui.area /\ y.crossed = c
      BY <1>3, <2>2, <3>1
    <3>4. /\ RouteFields \subseteq DOMAIN v /\ v.on = y.on /\ v.area = y.area /\ v.data = y.data /\ v.streets = y.streets
          /\ v.line = y.line /\ v.anim = y.anim /\ v.view = y.view /\ v.net = y.net /\ v.crossed = y.crossed /\ d.tasks = y.tasks
      BY <1>4, <3>1, <3>2 DEF RouteFields
    <3>5. DOMAIN v.tasks = Route!Tasks /\ (\A k \in Route!Tasks : "a" \in DOMAIN v.tasks[k]) /\ v.task \in Route!Tasks /\ v.tasks[v.task].a = q.a
      BY <2>3, <3>2, <3>3, <3>4 DEF RouteSound
    <3>6. Undisturbed(v) => Undisturbed(y) /\ v.area = q.a /\ v.area # NoArea
      BY <2>2, <2>5, <3>3, <3>4 DEF Undisturbed
    <3>7. RouteSound(v)
      BY <2>2, <3>3, <3>4, <3>5, <3>6 DEF RouteSound, AskedOfArea, ShownOfArea, RouteOfArea, Undisturbed
    <3> QED BY <3>7, OffRouteHelpers DEF v
  <2> QED BY <2>1, <2>4, <2>5
<1>7. CASE Route!PollArrives(q)
  <2> DEFINE x == [d EXCEPT !.failures = 0]
             h == Route!HandleTerminalState(x, q.t)
             w == [h EXCEPT !.polling = FALSE]
  <2>1. ui' = w /\ q.t # Route!NoTask
    BY <1>7 DEF Route!PollArrives, d, RouteSound, AskedOfArea
  <2>2. DOMAIN x = DOMAIN d /\ \A f \in RouteFields : x[f] = d[f]
    BY DEF RouteFields
  <2> HIDE DEF x
  <2>3. RouteSound(x)
    BY <1>3, <1>4, <2>2 DEF RouteFields
  <2>4. RouteSound(h)
    BY <2>1, <2>3, RouteTerminal
  <2> HIDE DEF h
  <2>5. DOMAIN w = DOMAIN h /\ \A f \in RouteFields : w[f] = h[f]
    BY DEF RouteFields
  <2> HIDE DEF w
  <2>6. RouteSound(w)
    BY <2>4, <2>5, OffRouteFields, OffRouteSound DEF RouteSound, RouteFields
  <2> QED BY <2>1, <2>6
<1>8. CASE Route!PollFails(q)
  <2> DEFINE c == d.crossed \/ q.t # ui.task
             u == [d EXCEPT !.polling = FALSE, !.crossed = c]
             v == [u EXCEPT !.failures = @ + 1]
             e == Route!DisconnectSSE(u)
  <2>1. ui' \in {u, v, Route!OnError(e)} /\ q.t # Route!NoTask
    BY <1>8 DEF Route!PollFails, d, RouteSound, AskedOfArea
  <2>2. c \in BOOLEAN /\ (ui.crossed => c) /\ (~c => q.t = ui.task)
    BY <1>4
  <2> HIDE DEF c
  <2>3. DOMAIN u = DOMAIN d /\ u.crossed = c /\ \A f \in RouteFields \ {"crossed"} : u[f] = d[f]
    BY <1>4 DEF RouteFields
  <2>4. DOMAIN v = DOMAIN u /\ \A f \in RouteFields : v[f] = u[f]
    BY DEF RouteFields
  <2> HIDE DEF u, v
  <2>5. RouteSound(u) /\ u.area = ui.area /\ u.on = ui.on /\ u.task = ui.task
    BY <1>3, <2>2, <2>3
  <2>6. RouteSound(v)
    BY <2>4, <2>5, OffRouteFields, OffRouteSound DEF RouteSound, RouteFields
  <2>7. Undisturbed(u) => u.area # NoArea
    BY <2>1, <2>2, <2>3, <2>5 DEF RouteSound, ShownOfArea, Undisturbed
  <2>8. RouteSound(e) /\ e.on = u.on /\ e.crossed = u.crossed /\ e.area = u.area
    BY <2>5, OffRouteHelpers DEF RouteFields
  <2> HIDE DEF e
  <2>9. RouteSound(Route!OnError(e))
    BY <2>7, <2>8, RouteTaskEnds DEF Undisturbed
  <2> QED BY <2>1, <2>5, <2>6, <2>9
<1>9. CASE Route!CancelAnswered(q)
  <2> DEFINE b == d.unfollowed \/ ui.task \notin {q.t, Route!NoTask} \/ Route!Starting(ui)
             y == [d EXCEPT !.unfollowed = TRUE]
             s == IF d.tasks[q.t].s = "running" THEN "cancelled" ELSE d.tasks[q.t].s
             f == [d.tasks EXCEPT ![q.t] = [@ EXCEPT !.s = s]]
             w == [d EXCEPT !.tasks = f, !.unfollowed = b]
  <2>1. ui' = y \/ ui' = Route!OnCancelled(w)
    BY <1>9 DEF Route!CancelAnswered, d
  <2>2. DOMAIN y = DOMAIN d /\ \A x \in RouteFields : y[x] = d[x]
    BY DEF RouteFields
  <2>3. d.tasks = ui.tasks /\ RouteSound(d)
    BY <1>1, <1>3, <1>4 DEF RouteSound, RouteFields
  <2> HIDE DEF b, y, s
  <2>4. RouteSound(y)
    BY <1>3, <1>4, <2>2 DEF RouteFields
  <2>5. DOMAIN f = Route!Tasks /\ \A t \in Route!Tasks : "a" \in DOMAIN f[t] /\ f[t].a = d.tasks[t].a
    BY <2>3 DEF RouteSound
  <2> HIDE DEF f
  <2>6. DOMAIN w = DOMAIN d /\ w.tasks = f /\ \A x \in RouteFields \ {"tasks"} : w[x] = d[x]
    BY <1>4 DEF RouteFields
  <2> HIDE DEF w
  <2>7. /\ RouteFields \subseteq DOMAIN w /\ w.on = d.on /\ w.area = d.area /\ w.data = d.data /\ w.streets = d.streets
        /\ w.line = d.line /\ w.anim = d.anim /\ w.view = d.view /\ w.net = d.net /\ w.crossed = d.crossed /\ w.task = d.task
    BY <1>4, <2>6 DEF RouteFields
  <2>8. RouteSound(w)
    <3>1. Undisturbed(w) => ShownOfArea(w)
      <4>1. ASSUME Undisturbed(w), w.task # Route!NoTask PROVE w.task \in Route!Tasks /\ w.tasks[w.task].a = w.area
        <5>1. d.task \in Route!Tasks /\ d.tasks[d.task].a = d.area
          BY <2>3, <2>7, <4>1 DEF RouteSound, ShownOfArea, Undisturbed
        <5> QED BY <2>5, <2>6, <2>7, <5>1
      <4> QED BY <2>3, <2>7, <4>1 DEF RouteSound, ShownOfArea, RouteOfArea, Undisturbed
    <3> QED BY <2>3, <2>5, <2>6, <2>7, <3>1 DEF RouteSound, AskedOfArea, Undisturbed
  <2> QED BY <2>1, <2>4, <2>8, RouteTaskEnds
<1>10. CASE Route!FinishedArrives(q)
  <2> DEFINE c == Route!Stale(ui, q) \/ Route!Busy(ui)
             u == [d EXCEPT !.crossed = c]
             r == IF q.kind = "result" THEN <<"cluster", q.t>> ELSE <<"saved", q.a>>
             x == [u EXCEPT !.has[ui.area] = TRUE]
             v == IF q.kind = "result" \/ ui.area = NoArea THEN u ELSE x
             y == [u EXCEPT !.unfollowed = TRUE]
  <2>1. /\ ui' \in {Route!ShowResults(Route!DisplayRoute([v EXCEPT !.data = r], r, TRUE)), Route!ShowError(u), y}
        /\ q.kind \in {"finished", "result"}
    BY <1>10 DEF Route!FinishedArrives, d
  <2>2. c \in BOOLEAN /\ (ui.crossed => c) /\ (~c => q.a = ui.area)
    BY DEF RouteSound, Route!Stale
  <2>3. r # Route!NoRoute /\ (r[1] = "cluster" \/ r[2] = q.a)
    BY DEF Route!NoRoute
  <2> HIDE DEF c, r
  <2>4. DOMAIN u = DOMAIN d /\ u.crossed = c /\ \A f \in RouteFields \ {"crossed"} : u[f] = d[f]
    BY <1>4 DEF RouteFields
  <2>5. /\ DOMAIN x = DOMAIN u /\ DOMAIN y = DOMAIN u /\ \A f \in RouteFields : x[f] = u[f] /\ y[f] = u[f]
    BY DEF RouteFields
  <2> HIDE DEF u, x, y
  <2>6. RouteSound(u) /\ u.area = ui.area /\ u.on = ui.on
    BY <1>3, <2>2, <2>4
  <2>7. RouteSound(x) /\ RouteSound(y) /\ x.area = ui.area /\ x.crossed = c /\ x.on = ui.on
    BY <2>4, <2>5, <2>6, OffRouteFields, OffRouteSound DEF RouteSound, RouteFields
  <2>8. RouteSound(v) /\ v.area = ui.area /\ v.crossed = c /\ v.on = ui.on
    BY <2>4, <2>6, <2>7
  <2> HIDE DEF v
  <2>9. ~c => q.a # NoArea \/ ~ui.on
    BY <2>1, <2>2 DEF RouteSound, AskedOfArea, Undisturbed
  <2>10. (Undisturbed(v) => v.area # NoArea /\ RouteOfArea(v, r)) /\ (Undisturbed(u) => u.area # NoArea)
    BY <2>2, <2>3, <2>4, <2>6, <2>8, <2>9 DEF Undisturbed, RouteOfArea
  <2> QED BY <2>1, <2>3, <2>6, <2>7, <2>8, <2>10, RouteShown, RoutePanels
<1>11. CASE Route!RouteCleared(q)
  <2>1. PICK ok \in BOOLEAN :
          ui' = Route!ClearRouteDisplay([d EXCEPT !.has[q.a] = FALSE, !.srv[q.a] = @ /\ ~ok, !.crossed = @ \/ Route!Busy(ui)])
    BY <1>11 DEF Route!RouteCleared, d
  <2> DEFINE c == d.crossed \/ Route!Busy(ui)
             f == [d.has EXCEPT ![q.a] = FALSE]
             g == [d.srv EXCEPT ![q.a] = @ /\ ~ok]
             u == [d EXCEPT !.has = f, !.srv = g, !.crossed = c]
             z == [d EXCEPT !.has[q.a] = FALSE, !.srv[q.a] = @ /\ ~ok, !.crossed = @ \/ Route!Busy(ui)]
  <2>2. c \in BOOLEAN /\ (ui.crossed => c)
    BY <1>4
  <2>3. /\ DOMAIN z = DOMAIN d /\ z.crossed = c /\ \A x \in RouteFields \ {"crossed"} : z[x] = d[x]
    BY <1>4 DEF RouteFields
  <2> HIDE DEF c, z
  <2>4. RouteSound(z)
    BY <1>3, <2>2, <2>3
  <2>5. ui' = Route!ClearRouteDisplay(z)
    BY <2>1 DEF z
  <2> QED BY <2>4, <2>5, RoutePanels
<1> QED BY <1>5, <1>6, <1>7, <1>8, <1>9, <1>10, <1>11

LEMMA RouteKept ==
    ASSUME RouteSound(ui), Route!Next
    PROVE  RouteSound(ui')
<1>1. ASSUME NEW v, DOMAIN v = DOMAIN ui, \A f \in RouteFields : v[f] = ui[f] PROVE RouteSound(v)
  BY <1>1, OffRouteFields, OffRouteSound DEF RouteSound, RouteFields
<1>2. ASSUME NEW v, NEW c \in BOOLEAN, ui.crossed => c, DOMAIN v = DOMAIN ui, v.crossed = c,
             \A f \in RouteFields \ {"crossed"} : v[f] = ui[f]
      PROVE  RouteSound(v) /\ v.area = ui.area
  BY <1>2, OffRouteFields, OffRouteSound DEF RouteFields
<1>3. ASSUME NEW u, RouteSound(u), NEW t, t # Route!NoTask PROVE RouteSound(Route!PollProgress(u, t)) /\ DOMAIN Route!PollProgress(u, t) = DOMAIN u
  <2> DEFINE w == [u EXCEPT !.polling = TRUE]
  <2>1. Route!PollProgress(u, t) = u \/ Route!PollProgress(u, t) = Route!Asked(w, "poll", NoArea, t, FALSE)
    BY DEF Route!PollProgress
  <2>2. DOMAIN w = DOMAIN u /\ \A f \in RouteFields : w[f] = u[f]
    BY DEF RouteFields
  <2> HIDE DEF w
  <2>3. RouteSound(w)
    BY <1>3, <2>2, OffRouteFields, OffRouteSound DEF RouteSound, RouteFields
  <2>4. RouteSound(Route!Asked(w, "poll", NoArea, t, FALSE)) /\ DOMAIN Route!Asked(w, "poll", NoArea, t, FALSE) = DOMAIN w
    <3>1. DOMAIN Route!Asked(w, "poll", NoArea, t, FALSE) = DOMAIN w
      BY DEF Route!Asked
    <3> QED BY <1>3, <2>3, <3>1, RouteAsked
  <2> QED BY <1>3, <2>1, <2>2, <2>4
<1>4. ASSUME NEW a, Route!SelectArea(a) PROVE RouteSound(ui')
  BY <1>4, RouteSelects, OffRouteHelpers DEF Route!SelectArea
<1>5. ASSUME NEW t \in Route!Tasks, Route!TaskEnds(t) PROVE RouteSound(ui')
  <2>1. PICK s : ui' = [ui EXCEPT !.tasks[t].s = s,
                                  !.srv = IF s = "completed" /\ ~ui.tasks[t].cl THEN [@ EXCEPT ![ui.tasks[t].a] = TRUE] ELSE @]
    BY <1>5 DEF Route!TaskEnds
  <2> DEFINE g == IF s = "completed" /\ ~ui.tasks[t].cl THEN [ui.srv EXCEPT ![ui.tasks[t].a] = TRUE] ELSE ui.srv
             f == [ui.tasks EXCEPT ![t] = [@ EXCEPT !.s = s]]
             w == [ui EXCEPT !.tasks = f, !.srv = g]
  <2>2. ui' = w
    BY <2>1
  <2>3. DOMAIN f = Route!Tasks /\ \A k \in Route!Tasks : "a" \in DOMAIN f[k] /\ f[k].a = ui.tasks[k].a
    BY DEF RouteSound
  <2> HIDE DEF f, g
  <2>4. DOMAIN w = DOMAIN ui /\ w.tasks = f /\ \A x \in RouteFields \ {"tasks"} : w[x] = ui[x]
    BY DEF RouteSound, RouteFields
  <2> HIDE DEF w
  <2>5. /\ RouteFields \subseteq DOMAIN w /\ w.on = ui.on /\ w.area = ui.area /\ w.data = ui.data /\ w.streets = ui.streets
        /\ w.line = ui.line /\ w.anim = ui.anim /\ w.view = ui.view /\ w.net = ui.net /\ w.crossed = ui.crossed /\ w.task = ui.task
    BY <2>4 DEF RouteSound, RouteFields
  <2> QED BY <2>2, <2>3, <2>4, <2>5 DEF RouteSound, AskedOfArea, ShownOfArea, RouteOfArea, Undisturbed
<1>6. CASE Route!LoadCoverageAreas
  BY <1>6, RouteAsked DEF Route!LoadCoverageAreas
<1>7. CASE Route!GenerateRoute
  <2> DEFINE c == ui.crossed \/ ui.task # Route!NoTask
             u == [ui EXCEPT !.crossed = c]
             p == Route!ShowProgressSection(u)
  <2>1. ui' = Route!Acted(Route!Asked(p, "worker", ui.area, Route!NoTask, FALSE)) /\ ui.area # NoArea
    BY <1>7 DEF Route!GenerateRoute
  <2>2. c \in BOOLEAN /\ (ui.crossed => c)
    BY DEF RouteSound
  <2> HIDE DEF c
  <2>3. DOMAIN u = DOMAIN ui /\ u.crossed = c /\ \A f \in RouteFields \ {"crossed"} : u[f] = ui[f]
    BY DEF RouteSound, RouteFields
  <2> HIDE DEF u
  <2>4. RouteSound(u) /\ u.area = ui.area
    BY <1>2, <2>2, <2>3
  <2>5. RouteSound(p) /\ p.area = u.area
    BY <2>1, <2>4, RoutePanels DEF Route!ShowProgressSection, RouteSound, RouteFields
  <2> HIDE DEF p
  <2>6. RouteSound(Route!Asked(p, "worker", ui.area, Route!NoTask, FALSE))
    BY <2>1, <2>4, <2>5, RouteAsked
  <2> QED BY <2>1, <2>6, OffRouteHelpers
<1>8. CASE Route!GenerateClusterRoute
  <2> DEFINE c == ui.crossed \/ Route!Busy(ui)
             u == [ui EXCEPT !.cluster = TRUE, !.crossed = c]
             p == Route!ShowProgressSection(u)
  <2>1. ui' = Route!Acted(Route!Asked(p, "worker", ui.area, Route!NoTask, TRUE)) /\ ui.area # NoArea
    BY <1>8 DEF Route!GenerateClusterRoute
  <2>2. c \in BOOLEAN /\ (ui.crossed => c)
    BY DEF RouteSound
  <2> HIDE DEF c
  <2>3. DOMAIN u = DOMAIN ui /\ u.crossed = c /\ \A f \in RouteFields \ {"crossed"} : u[f] = ui[f]
    BY DEF RouteSound, RouteFields
  <2> HIDE DEF u
  <2>4. RouteSound(u) /\ u.area = ui.area
    BY <1>2, <2>2, <2>3
  <2>5. RouteSound(p) /\ p.area = u.area
    BY <2>1, <2>4, RoutePanels DEF Route!ShowProgressSection, RouteSound, RouteFields
  <2> HIDE DEF p
  <2>6. RouteSound(Route!Asked(p, "worker", ui.area, Route!NoTask, TRUE))
    BY <2>1, <2>4, <2>5, RouteAsked
  <2> QED BY <2>1, <2>6, OffRouteHelpers
<1>9. CASE Route!StreamMessage
  BY <1>9, RouteTerminal DEF Route!StreamMessage
<1>10. CASE Route!StreamEnds
  <2> DEFINE u == [ui EXCEPT !.stream = Route!NoTask]
             p == Route!PollProgress(u, ui.stream)
             w == [p EXCEPT !.poll = ui.stream]
  <2>1. ui' \in {u, w} /\ ui.stream # Route!NoTask
    BY <1>10 DEF Route!StreamEnds, Route!StartProgressPolling
  <2>2. DOMAIN u = DOMAIN ui /\ \A f \in RouteFields : u[f] = ui[f]
    BY DEF RouteFields
  <2> HIDE DEF u
  <2>3. RouteSound(u) /\ RouteSound(p)
    BY <1>1, <1>3, <2>1, <2>2
  <2> HIDE DEF p
  <2>4. DOMAIN w = DOMAIN p /\ \A f \in RouteFields : w[f] = p[f]
    BY DEF RouteFields
  <2> HIDE DEF w
  <2>5. RouteSound(w)
    BY <2>3, <2>4, OffRouteFields, OffRouteSound DEF RouteSound, RouteFields
  <2> QED BY <2>1, <2>3, <2>5
<1>11. CASE Route!PollTick
  BY <1>3, <1>11 DEF Route!PollTick
<1>12. CASE Route!CancelTask
  <2>1. RouteSound(Route!DisconnectSSE(ui))
    BY OffRouteHelpers
  <2>2. RouteSound(Route!Asked(Route!DisconnectSSE(ui), "cancel", ui.area, ui.task, FALSE))
    BY <2>1, RouteAsked
  <2> QED BY <1>12, <2>2, OffRouteHelpers DEF Route!CancelTask
<1>13. CASE Route!DrawFrame
  <2> DEFINE w == [ui EXCEPT !.line = ui.anim, !.anim = Route!NoRoute]
  <2>1. ui' = w /\ ui.anim # Route!NoRoute
    BY <1>13 DEF Route!DrawFrame
  <2>2. DOMAIN w = DOMAIN ui /\ w.line = ui.anim /\ w.anim = Route!NoRoute /\ \A f \in RouteFields \ {"line", "anim"} : w[f] = ui[f]
    BY DEF RouteSound, RouteFields
  <2> HIDE DEF w
  <2>3. /\ RouteFields \subseteq DOMAIN w /\ w.on = ui.on /\ w.area = ui.area /\ w.data = ui.data /\ w.streets = ui.streets
        /\ w.view = ui.view /\ w.net = ui.net /\ w.crossed = ui.crossed /\ w.task = ui.task /\ w.tasks = ui.tasks
    BY <2>2 DEF RouteSound, RouteFields
  <2> QED BY <2>1, <2>2, <2>3 DEF RouteSound, AskedOfArea, ShownOfArea, RouteOfArea, Undisturbed
<1>14. CASE Route!ReplayAnimation
  <2> DEFINE w == [ui EXCEPT !.line = Route!NoRoute, !.anim = ui.data]
  <2>1. ui' = Route!Acted(w)
    BY <1>14 DEF Route!ReplayAnimation, Route!DisplayRoute
  <2>2. DOMAIN w = DOMAIN ui /\ w.line = Route!NoRoute /\ w.anim = ui.data /\ \A f \in RouteFields \ {"line", "anim"} : w[f] = ui[f]
    BY DEF RouteSound, RouteFields
  <2> HIDE DEF w
  <2>3. /\ RouteFields \subseteq DOMAIN w /\ w.on = ui.on /\ w.area = ui.area /\ w.data = ui.data /\ w.streets = ui.streets
        /\ w.view = ui.view /\ w.net = ui.net /\ w.crossed = ui.crossed /\ w.task = ui.task /\ w.tasks = ui.tasks
    BY <2>2 DEF RouteSound, RouteFields
  <2>4. RouteSound(w)
    BY <2>2, <2>3 DEF RouteSound, AskedOfArea, ShownOfArea, RouteOfArea, Undisturbed
  <2> QED BY <2>1, <2>4, OffRouteHelpers
<1>15. CASE Route!DeleteRoute
  <2>1. RouteSound(Route!Asked(ui, "clear", ui.area, Route!NoTask, FALSE))
    BY RouteAsked
  <2> QED BY <1>15, <2>1, OffRouteHelpers DEF Route!DeleteRoute
<1>16. CASE Route!Destroy
  <2> DEFINE w == [ui EXCEPT !.on = FALSE, !.anim = Route!NoRoute]
  <2>1. ui' = w
    BY <1>16 DEF Route!Destroy
  <2>2. /\ RouteFields \subseteq DOMAIN w /\ w.on = FALSE /\ w.net = ui.net /\ w.crossed = ui.crossed /\ w.tasks = ui.tasks
    BY DEF RouteSound, RouteFields
  <2> HIDE DEF w
  <2> QED BY <2>1, <2>2 DEF RouteSound, AskedOfArea, Undisturbed
<1> QED BY <1>4, <1>5, <1>6, <1>7, <1>8, <1>9, <1>10, <1>11, <1>12, <1>13, <1>14, <1>15, <1>16, RouteSelectionAnswers,
           RouteGenerationAnswers DEF Route!Next, Route!Answers

LEMMA RouteStart ==
    ASSUME Route!Init
    PROVE  RouteSound(ui)
<1>1. PICK first \in {Route!Idle} \cup Route!Earlier :
         /\ RouteFields \subseteq DOMAIN ui
         /\ ui.tasks = [t \in Route!Tasks |-> IF t = 1 THEN first ELSE Route!Idle]
         /\ ui.crossed = FALSE /\ ui.net = {} /\ ui.area = NoArea /\ ui.streets = NoArea /\ ui.task = Route!NoTask
         /\ ui.data = Route!NoRoute /\ ui.line = Route!NoRoute /\ ui.anim = Route!NoRoute /\ ui.view = "none"
  BY DEF Route!Init, RouteFields
<1>2. DOMAIN ui.tasks = Route!Tasks /\ \A t \in Route!Tasks : "a" \in DOMAIN ui.tasks[t]
  <2>1. "a" \in DOMAIN first /\ "a" \in DOMAIN Route!Idle
    BY DEF Route!Idle, Route!Earlier
  <2>2. \A t \in Route!Tasks : ui.tasks[t] = first \/ ui.tasks[t] = Route!Idle
    BY <1>1
  <2> QED BY <1>1, <2>1, <2>2
<1>3. ui.crossed \in BOOLEAN
  BY <1>1
<1> QED BY <1>1, <1>2, <1>3 DEF RouteSound, ShownOfArea, RouteOfArea

LEMMA RouteIsOfSelection ==
    ASSUME RouteSound(ui)
    PROVE  Route!RouteOfSelection
BY DEF RouteSound, Undisturbed, ShownOfArea, RouteOfArea, Route!RouteOfSelection

-----------------------------------------------------------------------------
(* The main map: the trips of the period and area chosen last.             *)

TripsFields == {"sel", "day", "trips", "queue", "net", "last", "ctl", "unowned", "stale"}
LoadFields == {"id", "key", "area", "day", "dead"}
Loads(u) == {r \in u.net : r.key = "trips" /\ ~r.dead}
Asks == [day : Dates, area : Areas \cup {NoArea}]
Chosen(u) == [day |-> u.day, area |-> Data!Clipped(u.sel)]

(* A request for the trips whose controller is not the one kept.           *)
Loose(u) == \E r \in Loads(u) : r.id # u.ctl["trips"]

LoadsTyped(u) ==
    /\ TripsFields \subseteq DOMAIN u
    /\ u.unowned \in BOOLEAN /\ u.stale \in BOOLEAN /\ u.last \in Nat
    /\ u.sel \in Areas \cup {NoArea} /\ u.day \in Dates /\ u.queue \in Seq(Asks)
    /\ DOMAIN u.ctl = Data!Keys
    /\ \A r \in u.net : /\ DOMAIN r = LoadFields /\ r.id \in 1..u.last /\ r.key \in Data!Keys
                        /\ r.day \in Dates /\ r.area \in Areas \cup {NoArea}
    /\ \A q, r \in u.net : q.id = r.id => q = r
    /\ \A k \in Data!Keys : u.ctl[k] \in 0..u.last /\ \A r \in u.net : r.id = u.ctl[k] => r.key = k

(* The trips asked for are those of the period and area chosen last; where *)
(* none are asked for, the last bundle is theirs.                          *)
TripsSound(u) ==
    /\ LoadsTyped(u)
    /\ ~u.unowned =>
          /\ \A r \in Loads(u) : r.day = u.day /\ r.area = Data!Clipped(u.sel)
          /\ ~u.stale /\ Loads(u) = {} =>
                IF u.queue = << >> THEN u.trips = Chosen(u) ELSE u.queue[Len(u.queue)] = Chosen(u)

OffTrips(u, v) == TripsFields \subseteq DOMAIN v /\ \A f \in TripsFields : v[f] = u[f]

LEMMA TripsAlike ==
    ASSUME NEW u, NEW v, TripsSound(u), OffTrips(u, v)
    PROVE  TripsSound(v)
<1>1. /\ v.sel = u.sel /\ v.day = u.day /\ v.trips = u.trips /\ v.queue = u.queue /\ v.net = u.net
      /\ v.last = u.last /\ v.ctl = u.ctl /\ v.unowned = u.unowned /\ v.stale = u.stale
  BY DEF OffTrips, TripsFields
<1>2. Loads(v) = Loads(u) /\ Chosen(v) = Chosen(u)
  BY <1>1 DEF Loads, Chosen
<1> QED BY <1>1, <1>2 DEF TripsSound, LoadsTyped, OffTrips

LEMMA KeysApart ==
    /\ \A x \in StreetModes \cup Areas : x # "trips" /\ x \in Data!Keys
    /\ "trips" \in Data!Keys
BY StreetsAssumption DEF Data!Keys

(* Trips requests are untouched by a request of another key; a request of  *)
(* the trips takes the place of those it knows.                            *)
LEMMA LoadTyped ==
    ASSUME NEW u, LoadsTyped(u), NEW key \in Data!Keys, NEW area \in Areas \cup {NoArea}
    PROVE  LET v == Data!Fetch(u, key, area) IN
           /\ LoadsTyped(v) /\ \A f \in TripsFields \ {"net", "last", "ctl"} : v[f] = u[f]
           /\ key # "trips" /\ TripsSound(u) => TripsSound(v)
           /\ key = "trips" => /\ Loads(v) # {}
                               /\ ~Loose(u) => \A r \in Loads(v) : r.day = u.day /\ r.area = area
<1> DEFINE n == [id |-> u.last + 1, key |-> key, area |-> area, day |-> u.day, dead |-> FALSE]
           Kept(r) == IF r.id = u.ctl[key] THEN [r EXCEPT !.dead = TRUE] ELSE r
           k == {Kept(r) : r \in u.net}
           c == [u.ctl EXCEPT ![key] = u.last + 1]
           v == [u EXCEPT !.last = u.last + 1, !.ctl = c, !.net = k \cup {n}]
<1>1. Data!Fetch(u, key, area) = v
  BY DEF Data!Fetch
<1>2. /\ DOMAIN n = LoadFields /\ n.id = u.last + 1 /\ n.key = key /\ n.area = area /\ n.dead = FALSE
      /\ n.day = u.day
  BY DEF LoadFields
<1>3. \A r \in u.net : /\ DOMAIN Kept(r) = LoadFields /\ Kept(r).id = r.id /\ Kept(r).key = r.key
                       /\ Kept(r).area = r.area /\ Kept(r).day = r.day
                       /\ (~Kept(r).dead => Kept(r) = r /\ ~r.dead /\ r.id # u.ctl[key])
                       /\ (r.id # u.ctl[key] => Kept(r) = r)
  BY DEF LoadsTyped, LoadFields
<1>4. DOMAIN c = Data!Keys /\ c[key] = u.last + 1 /\ \A x \in Data!Keys \ {key} : c[x] = u.ctl[x]
  BY DEF LoadsTyped
<1> HIDE DEF n, Kept, c
<1>6. /\ TripsFields \subseteq DOMAIN v /\ v.last = u.last + 1 /\ v.net = k \cup {n} /\ v.ctl = c
      /\ \A f \in TripsFields \ {"net", "last", "ctl"} : v[f] = u[f]
  BY DEF LoadsTyped, TripsFields
<1>7. /\ v.sel = u.sel /\ v.day = u.day /\ v.trips = u.trips /\ v.queue = u.queue /\ v.stale = u.stale
      /\ v.unowned = u.unowned
  BY <1>6 DEF TripsFields
<1> HIDE DEF v
<1>8. /\ u.last \in Nat /\ u.day \in Dates
      /\ \A r \in u.net : /\ r.id \in 1..u.last /\ r.key \in Data!Keys /\ r.day \in Dates
                          /\ r.area \in Areas \cup {NoArea}
      /\ \A q, r \in u.net : q.id = r.id => q = r
      /\ \A x \in Data!Keys : u.ctl[x] \in 0..u.last /\ \A r \in u.net : r.id = u.ctl[x] => r.key = x
  BY DEF LoadsTyped
<1>9. ASSUME NEW r \in v.net PROVE r = n \/ \E a \in u.net : r = Kept(a)
  BY <1>6
<1>10. ASSUME NEW r \in v.net
       PROVE  /\ DOMAIN r = LoadFields /\ r.id \in 1..v.last /\ r.key \in Data!Keys
              /\ r.day \in Dates /\ r.area \in Areas \cup {NoArea}
  <2>1. CASE r = n
    BY <2>1, <1>2, <1>6, <1>8
  <2>2. CASE \E a \in u.net : r = Kept(a)
    <3> PICK a \in u.net : r = Kept(a)
      BY <2>2
    <3> QED BY <1>3, <1>6, <1>8
  <2> QED BY <2>1, <2>2, <1>9
<1>11. ASSUME NEW q \in v.net, NEW r \in v.net, q.id = r.id PROVE q = r
  <2>1. \A a \in u.net : Kept(a).id # n.id
    BY <1>2, <1>3, <1>8
  <2>2. CASE q = n \/ r = n
    BY <2>1, <2>2, <1>9, <1>11
  <2>3. CASE q # n /\ r # n
    <3>1. PICK a \in u.net, b \in u.net : q = Kept(a) /\ r = Kept(b)
      BY <1>9, <2>3
    <3> QED BY <1>3, <1>8, <1>11, <3>1
  <2> QED BY <2>2, <2>3
<1>12. ASSUME NEW x \in Data!Keys, NEW r \in v.net, r.id = v.ctl[x] PROVE r.key = x
  <2>1. CASE x = key
    <3>1. r.id = u.last + 1
      BY <1>4, <1>6, <1>12, <2>1
    <3>2. \A a \in u.net : Kept(a).id # u.last + 1
      BY <1>3, <1>8
    <3> QED BY <1>2, <1>9, <2>1, <3>1, <3>2
  <2>2. CASE x # key
    <3>1. r.id = u.ctl[x]
      BY <1>4, <1>6, <1>12, <2>2
    <3>2. CASE r = n
      BY <1>2, <1>8, <3>1, <3>2
    <3>3. CASE \E a \in u.net : r = Kept(a)
      <4> PICK a \in u.net : r = Kept(a)
        BY <3>3
      <4> QED BY <1>3, <1>8, <3>1
    <3> QED BY <1>9, <3>2, <3>3
  <2> QED BY <2>1, <2>2
<1>13. \A x \in Data!Keys : v.ctl[x] \in 0..v.last
  BY <1>4, <1>6, <1>8
<1>14. LoadsTyped(v)
  <2>1. v.unowned \in BOOLEAN /\ v.stale \in BOOLEAN /\ v.last \in Nat
    BY <1>6, <1>7, <1>8 DEF LoadsTyped
  <2>2. v.sel \in Areas \cup {NoArea} /\ v.day \in Dates /\ v.queue \in Seq(Asks)
    BY <1>7 DEF LoadsTyped
  <2>3. DOMAIN v.ctl = Data!Keys
    BY <1>4, <1>6
  <2> QED BY <2>1, <2>2, <2>3, <1>6, <1>10, <1>11, <1>12, <1>13 DEF LoadsTyped
<1>16. ASSUME key # "trips", TripsSound(u) PROVE TripsSound(v)
  <2>1. \A r \in u.net : r.key = "trips" => r.id # u.ctl[key]
    BY <1>8, <1>16
  <2>2. Loads(v) = Loads(u)
    <3>1. \A r \in Loads(v) : r \in Loads(u)
      BY <1>2, <1>3, <1>9, <1>16 DEF Loads
    <3>2. \A r \in Loads(u) : r = Kept(r)
      BY <1>3, <2>1 DEF Loads
    <3>3. \A r \in Loads(u) : r \in v.net
      BY <1>6, <3>2 DEF Loads
    <3> QED BY <3>1, <3>3 DEF Loads
  <2>3. Chosen(v) = Chosen(u)
    BY <1>7 DEF Chosen
  <2> QED BY <1>6, <1>7, <1>14, <1>16, <2>2, <2>3 DEF TripsSound
<1>17. ASSUME key = "trips"
       PROVE  Loads(v) # {} /\ (~Loose(u) => \A r \in Loads(v) : r.day = u.day /\ r.area = area)
  <2>1. n \in Loads(v)
    BY <1>2, <1>6, <1>17 DEF Loads
  <2>2. ASSUME ~Loose(u), NEW r \in Loads(v) PROVE r = n
    <3>1. \A a \in u.net : r # Kept(a)
      BY <1>3, <1>17, <2>2 DEF Loads, Loose
    <3> QED BY <1>9, <3>1 DEF Loads
  <2> QED BY <1>2, <2>1, <2>2
<1> QED BY <1>1, <1>6, <1>14, <1>16, <1>17

(* A kept answer is queued; else there is one more request.                *)
LEMMA TripsForm ==
    ASSUME NEW u
    PROVE  LET v(o) == [u EXCEPT !.stale = FALSE, !.unowned = o] IN
           \E o, q : Data!FetchTrips(u) \in {[v(o) EXCEPT !.queue = q], Data!Fetch(v(o), "trips", Data!Clipped(u.sel))}
<1> DEFINE o == \E r \in u.net : r.key = "trips" /\ ~r.dead
                    /\ (Data!Kept(u, "trips", Data!Clipped(u.sel)) \/ r.id # u.ctl["trips"])
           w == [u EXCEPT !.stale = FALSE, !.unowned = o]
           q == Append(w.queue, [day |-> u.day, area |-> Data!Clipped(u.sel)])
<1>1. Data!FetchTrips(u) \in {[w EXCEPT !.queue = q], Data!Fetch(w, "trips", Data!Clipped(u.sel))}
  BY DEF Data!FetchTrips
<1> HIDE DEF o, q
<1> QED BY <1>1

(* Asking for the trips again, whatever was known of them.                 *)
LEMMA TripsAskedFor ==
    ASSUME NEW u, LoadsTyped(u)
    PROVE  TripsSound(Data!FetchTrips(u)) /\ Data!FetchTrips(u).sel = u.sel
<1> DEFINE area == Data!Clipped(u.sel)
           kept == Data!Kept(u, "trips", area)
           o == \E r \in u.net : r.key = "trips" /\ ~r.dead /\ (kept \/ r.id # u.ctl["trips"])
           v == [u EXCEPT !.stale = FALSE, !.unowned = o]
           a == [day |-> u.day, area |-> area]
           b == Append(v.queue, a)
           q == [v EXCEPT !.queue = b]
           z == Data!Fetch(v, "trips", area)
<1>1. Data!FetchTrips(u) = IF kept THEN q ELSE z
  BY DEF Data!FetchTrips
<1>2. area \in Areas \cup {NoArea} /\ "trips" \in Data!Keys /\ a \in Asks
  BY KeysApart DEF LoadsTyped, Data!Clipped, Asks
<1>3. o \in BOOLEAN /\ (~o => ~Loose(u) /\ (kept => Loads(u) = {}))
  BY DEF Loose, Loads
<1> HIDE DEF kept, o
<1>4. TripsFields \subseteq DOMAIN v /\ v.stale = FALSE /\ v.unowned = o /\ \A f \in TripsFields \ {"stale", "unowned"} : v[f] = u[f]
  BY DEF LoadsTyped, TripsFields
<1>5. /\ v.sel = u.sel /\ v.day = u.day /\ v.trips = u.trips /\ v.queue = u.queue /\ v.net = u.net
      /\ v.last = u.last /\ v.ctl = u.ctl
  BY <1>4 DEF TripsFields
<1> HIDE DEF v
<1>6. LoadsTyped(v)
  <2>1. v.unowned \in BOOLEAN /\ v.stale \in BOOLEAN /\ v.last \in Nat
    BY <1>3, <1>4, <1>5 DEF LoadsTyped
  <2> QED BY <1>4, <1>5, <2>1 DEF LoadsTyped
<1>7. Loads(v) = Loads(u) /\ Loose(v) = Loose(u)
  BY <1>5 DEF Loads, Loose
<1>8. CASE kept
  <2>1. b \in Seq(Asks) /\ b # << >> /\ b[Len(b)] = a
    BY <1>2, <1>6 DEF LoadsTyped
  <2> HIDE DEF b
  <2>2. TripsFields \subseteq DOMAIN q /\ q.queue = b /\ \A f \in TripsFields \ {"queue"} : q[f] = v[f]
    BY <1>4 DEF TripsFields
  <2>3. /\ q.sel = v.sel /\ q.day = v.day /\ q.trips = v.trips /\ q.net = v.net /\ q.last = v.last
        /\ q.ctl = v.ctl /\ q.unowned = v.unowned /\ q.stale = v.stale
    BY <2>2 DEF TripsFields
  <2> HIDE DEF q
  <2>4. LoadsTyped(q)
    BY <1>6, <2>1, <2>2, <2>3 DEF LoadsTyped
  <2>5. Loads(q) = Loads(u) /\ Chosen(q) = a
    BY <1>5, <2>3 DEF Loads, Chosen
  <2>6. ~q.unowned => Loads(q) = {}
    BY <1>3, <1>4, <1>8, <2>3, <2>5
  <2> QED BY <1>1, <1>5, <1>8, <2>1, <2>2, <2>3, <2>4, <2>5, <2>6 DEF TripsSound
<1>9. CASE ~kept
  <2>1. /\ LoadsTyped(z) /\ \A f \in TripsFields \ {"net", "last", "ctl"} : z[f] = v[f]
        /\ Loads(z) # {} /\ (~Loose(v) => \A r \in Loads(z) : r.day = v.day /\ r.area = area)
    BY <1>2, <1>6, LoadTyped
  <2> HIDE DEF z
  <2>2. z.sel = u.sel /\ z.day = u.day /\ z.unowned = o
    BY <1>4, <1>5, <2>1 DEF TripsFields
  <2>3. ~z.unowned => \A r \in Loads(z) : r.day = z.day /\ r.area = area
    BY <1>3, <1>5, <1>7, <2>1, <2>2
  <2>4. Data!Clipped(z.sel) = area
    BY <2>2
  <2> HIDE DEF area
  <2> QED BY <1>1, <1>9, <2>1, <2>2, <2>3, <2>4 DEF TripsSound
<1> QED BY <1>8, <1>9

LEMMA HandlersOffTrips ==
    ASSUME NEW u, TripsSound(u)
    PROVE  /\ \A h, steps, wait : TripsSound(Data!Then(u, h, steps, wait))
           /\ \A id, todo, wait : TripsSound(Data!Handler(u, id, todo, wait))
<1>1. TripsFields \subseteq DOMAIN u
  BY DEF TripsSound, LoadsTyped
<1>2. \A s : OffTrips(u, [u EXCEPT !.runs = s])
  BY <1>1 DEF OffTrips, TripsFields
<1>3. \A h, steps, wait : TripsSound(Data!Then(u, h, steps, wait))
  BY <1>2, TripsAlike DEF Data!Then
<1>4. \A s, c : OffTrips(u, [u EXCEPT !.runs = s, !.crossed = c])
  BY <1>1 DEF OffTrips, TripsFields
<1>5. ASSUME NEW id, NEW todo, NEW wait PROVE TripsSound(Data!Handler(u, id, todo, wait))
  <2> DEFINE c == u.crossed \/ u.runs # {}
             s == u.runs \cup {[id |-> id, todo |-> todo, wait |-> wait, ok |-> TRUE]}
  <2>1. Data!Handler(u, id, todo, wait) = [u EXCEPT !.runs = s, !.crossed = c]
    BY DEF Data!Handler
  <2> HIDE DEF c, s
  <2> QED BY <1>4, <2>1, TripsAlike
<1> QED BY <1>3, <1>5

(* What the steps of the handlers change that is not of the trips.         *)
LEMMA LayersOffTrips ==
    ASSUME NEW u, TripsSound(u)
    PROVE  /\ \A o : TripsSound([u EXCEPT !.overlay = o])
           /\ \A o : TripsSound([u EXCEPT !.runs = o])
           /\ \A o : TripsSound([u EXCEPT !.m = o])
           /\ \A o : TripsSound([u EXCEPT !.info = o])
           /\ \A o, p : TripsSound([u EXCEPT !.info = o, !.m = p])
           /\ \A o, p : TripsSound([u EXCEPT !.flag = o, !.info = p])
           /\ \A o, p : TripsSound([u EXCEPT !.flag = o, !.failed = p])
           /\ \A o, p : TripsSound([u EXCEPT !.cache = o, !.runs = p])
           /\ \A o : TripsSound([u EXCEPT !.answers = o])
<1>1. TripsFields \subseteq DOMAIN u
  BY DEF TripsSound, LoadsTyped
<1>2. /\ \A o : OffTrips(u, [u EXCEPT !.overlay = o])
      /\ \A o : OffTrips(u, [u EXCEPT !.runs = o])
      /\ \A o : OffTrips(u, [u EXCEPT !.m = o])
      /\ \A o : OffTrips(u, [u EXCEPT !.info = o])
      /\ \A o : OffTrips(u, [u EXCEPT !.answers = o])
  BY <1>1 DEF OffTrips, TripsFields
<1>3. /\ \A o, p : OffTrips(u, [u EXCEPT !.info = o, !.m = p])
      /\ \A o, p : OffTrips(u, [u EXCEPT !.flag = o, !.info = p])
      /\ \A o, p : OffTrips(u, [u EXCEPT !.flag = o, !.failed = p])
      /\ \A o, p : OffTrips(u, [u EXCEPT !.cache = o, !.runs = p])
  BY <1>1 DEF OffTrips, TripsFields
<1> QED BY <1>2, <1>3, TripsAlike

LEMMA StreetsOffTrips ==
    ASSUME NEW u, TripsSound(u), NEW mode, NEW area
    PROVE  TripsSound(Data!DrawStreets(u, mode, area))
<1> DEFINE i == [u.info EXCEPT ![mode].area = area]
           m == [u.m EXCEPT ![mode] = [vis |-> u.info[mode].vis, area |-> area]]
<1>1. Data!DrawStreets(u, mode, area) = [u EXCEPT !.info = i, !.m = m]
  BY DEF Data!DrawStreets
<1> HIDE DEF i, m
<1>2. TripsSound([u EXCEPT !.info = i, !.m = m])
  BY LayersOffTrips
<1> QED BY <1>1, <1>2

(* A request for streets or a boundary.                                    *)
LEMMA AskedOffTrips ==
    ASSUME NEW u, TripsSound(u), NEW key \in StreetModes \cup Areas, NEW area \in Areas
    PROVE  TripsSound(Data!Fetch(u, key, area))
<1>1. key \in Data!Keys /\ key # "trips" /\ area \in Areas \cup {NoArea}
  BY KeysApart
<1> QED BY <1>1, LoadTyped DEF TripsSound

LEMMA HandlerRunsTrips ==
    ASSUME DataTyped(ui), TripsSound(ui), Data!HandlerRuns
    PROVE  TripsSound(ui')
<1> PICK h \in ui.runs :
        /\ h.wait = {}
        /\ IF h.todo = << >> THEN ui' = Data!Then(ui, h, << >>, {})
           ELSE LET s == Head(h.todo)  rest == Tail(h.todo) IN
                ui' = CASE s.do = "hide"    -> Data!Hide(ui, h, s.x, rest)
                        [] s.do = "show"    -> Data!Show(ui, h, s.x, rest)
                        [] s.do = "reveal"  -> Data!Reveal(ui, h, s.x, rest)
                        [] s.do = "sync"    -> Data!Sync(ui, h, rest)
                        [] s.do = "draw"    -> Data!Draw(ui, h, s.x, rest)
                        [] s.do = "reset"   -> Data!ResetStreetCache(ui, h, rest)
                        [] s.do = "refresh" -> Data!RefreshStreetLayers(ui, h, rest)
                        [] s.do = "pass"    -> Data!VisibilityPass(ui, h, rest)
  BY DEF Data!HandlerRuns
<1>1. CASE h.todo = << >>
  BY <1>1, HandlersOffTrips
<1>2. CASE h.todo # << >>
  <2> DEFINE s == Head(h.todo)
             rest == Tail(h.todo)
  <2>1. s \in Steps
    BY <1>2, ResetStaysAhead DEF DataTyped
  <2> HIDE DEF s, rest
  <2>2. ui' = CASE s.do = "hide"    -> Data!Hide(ui, h, s.x, rest)
                [] s.do = "show"    -> Data!Show(ui, h, s.x, rest)
                [] s.do = "reveal"  -> Data!Reveal(ui, h, s.x, rest)
                [] s.do = "sync"    -> Data!Sync(ui, h, rest)
                [] s.do = "draw"    -> Data!Draw(ui, h, s.x, rest)
                [] s.do = "reset"   -> Data!ResetStreetCache(ui, h, rest)
                [] s.do = "refresh" -> Data!RefreshStreetLayers(ui, h, rest)
                [] s.do = "pass"    -> Data!VisibilityPass(ui, h, rest)
    BY <1>2 DEF s, rest
  <2>3. TripsSound(Data!Hide(ui, h, s.x, rest))
    BY LayersOffTrips, HandlersOffTrips DEF Data!Hide
  <2>4. TripsSound(Data!Reveal(ui, h, s.x, rest))
    BY LayersOffTrips, HandlersOffTrips DEF Data!Reveal
  <2>5. TripsSound(Data!Draw(ui, h, s.x, rest))
    BY LayersOffTrips, HandlersOffTrips DEF Data!Draw
  <2>6. TripsSound(Data!ResetStreetCache(ui, h, rest))
    BY LayersOffTrips, HandlersOffTrips DEF Data!ResetStreetCache
  <2>7. TripsSound(Data!RefreshStreetLayers(ui, h, rest))
    BY HandlersOffTrips DEF Data!RefreshStreetLayers
  <2>8. TripsSound(Data!VisibilityPass(ui, h, rest))
    BY LayersOffTrips, HandlersOffTrips DEF Data!VisibilityPass
  <2>9. ui.sel \in Areas \cup {NoArea}
    BY DEF DataTyped
  <2>10. TripsSound(Data!Sync(ui, h, rest))
    <3>1. CASE ui.sel = NoArea
      BY <3>1, LayersOffTrips, HandlersOffTrips DEF Data!Sync
    <3>2. CASE ui.sel # NoArea /\ ui.sel \in ui.cache
      BY <3>2, LayersOffTrips, HandlersOffTrips DEF Data!Sync
    <3>3. CASE ui.sel # NoArea /\ ui.sel \notin ui.cache
      <4>1. TripsSound(Data!Fetch(ui, ui.sel, ui.sel))
        BY <2>9, <3>3, AskedOffTrips
      <4> QED BY <3>3, <4>1, HandlersOffTrips DEF Data!Sync
    <3> QED BY <3>1, <3>2, <3>3
  <2>11. ASSUME s.do = "show" PROVE TripsSound(Data!Show(ui, h, s.x, rest))
    <3> DEFINE i == [ui.info EXCEPT ![s.x].vis = TRUE]
               v == [ui EXCEPT !.info = i]
               f == [v.flag EXCEPT ![s.x] = TRUE]
               w == [v EXCEPT !.flag = f, !.failed = v.failed \ {s.x}]
    <3>1. s.x \in StreetModes
      BY <2>1, <2>11 DEF Steps
    <3>2. [ui EXCEPT !.info[s.x].vis = TRUE] = v
      OBVIOUS
    <3>3. TripsSound(v) /\ TripsFields \subseteq DOMAIN v /\ v.sel = ui.sel
      <4>1. TripsSound(v)
        BY LayersOffTrips
      <4>2. TripsFields \subseteq DOMAIN ui
        BY DEF TripsSound, LoadsTyped
      <4> QED BY <4>1, <4>2 DEF TripsFields
    <3> HIDE DEF v, i
    <3>4. [v EXCEPT !.flag[s.x] = TRUE, !.failed = @ \ {s.x}] = w
      OBVIOUS
    <3> HIDE DEF f
    <3>5. TripsSound(w)
      BY <3>3, LayersOffTrips
    <3>9. w.sel = ui.sel
      BY <3>3 DEF TripsFields
    <3> HIDE DEF w
    <3>6. CASE ui.sel = NoArea
      BY <3>6, HandlersOffTrips DEF Data!Show
    <3>7. CASE ui.sel # NoArea /\ v.flag[s.x]
      BY <3>2, <3>3, <3>7, HandlersOffTrips DEF Data!Show
    <3>8. CASE ui.sel # NoArea /\ ~v.flag[s.x]
      <4>1. TripsSound(Data!Fetch(w, s.x, w.sel)) /\ TripsSound(Data!DrawStreets(w, s.x, w.sel))
        BY <2>9, <3>1, <3>3, <3>5, <3>8, <3>9, AskedOffTrips, StreetsOffTrips
      <4> QED BY <3>2, <3>4, <3>8, <4>1, HandlersOffTrips DEF Data!Show
    <3> QED BY <3>6, <3>7, <3>8
  <2>12. s.do \in {"hide", "show", "reveal", "sync", "draw", "reset", "refresh", "pass"}
    BY <2>1 DEF Steps, Data!Step
  <2> QED BY <2>2, <2>3, <2>4, <2>5, <2>6, <2>7, <2>8, <2>10, <2>11, <2>12
<1> QED BY <1>1, <1>2

LEMMA LoadForgotten ==
    ASSUME NEW u, TripsSound(u), NEW r \in u.net
    PROVE  LET v == Data!Finally(u, r) IN
           /\ LoadsTyped(v) /\ \A f \in TripsFields \ {"net", "ctl"} : v[f] = u[f]
           /\ Loads(v) = Loads(u) \ {r}
<1> DEFINE c == [u.ctl EXCEPT ![r.key] = 0]
           hs == {[h EXCEPT !.wait = h.wait \ {r.id}] : h \in u.runs}
           v == [u EXCEPT !.net = u.net \ {r}, !.ctl = c, !.runs = hs]
<1>1. Data!Finally(u, r) = v
  BY DEF Data!Finally
<1>2. /\ TripsFields \subseteq DOMAIN u /\ u.last \in Nat /\ DOMAIN u.ctl = Data!Keys /\ r.key \in Data!Keys
      /\ \A q \in u.net : q.id \in 1..u.last
      /\ \A k \in Data!Keys : u.ctl[k] \in 0..u.last /\ \A q \in u.net : q.id = u.ctl[k] => q.key = k
  BY DEF TripsSound, LoadsTyped
<1>3. DOMAIN c = Data!Keys /\ \A k \in Data!Keys : c[k] = IF k = r.key THEN 0 ELSE u.ctl[k]
  BY <1>2
<1> HIDE DEF c, hs
<1>4. /\ TripsFields \subseteq DOMAIN v /\ v.net = u.net \ {r} /\ v.ctl = c
      /\ \A f \in TripsFields \ {"net", "ctl"} : v[f] = u[f]
  BY <1>2 DEF TripsFields
<1>5. /\ v.sel = u.sel /\ v.day = u.day /\ v.queue = u.queue /\ v.unowned = u.unowned /\ v.stale = u.stale
      /\ v.last = u.last
  BY <1>4 DEF TripsFields
<1> HIDE DEF v
<1>6. \A k \in Data!Keys : v.ctl[k] \in 0..v.last /\ \A q \in v.net : q.id = v.ctl[k] => q.key = k
  BY <1>2, <1>3, <1>4, <1>5
<1>7. Loads(v) = Loads(u) \ {r}
  BY <1>4 DEF Loads
<1>8. LoadsTyped(v)
  BY <1>3, <1>4, <1>5, <1>6 DEF TripsSound, LoadsTyped
<1> QED BY <1>1, <1>4, <1>7, <1>8

LEMMA OtherForgotten ==
    ASSUME NEW u, TripsSound(u), NEW r \in u.net, r.key # "trips" \/ r.dead
    PROVE  TripsSound(Data!Finally(u, r))
<1> DEFINE v == Data!Finally(u, r)
<1>1. LoadsTyped(v) /\ (\A f \in TripsFields \ {"net", "ctl"} : v[f] = u[f]) /\ Loads(v) = Loads(u) \ {r}
  BY LoadForgotten
<1> HIDE DEF v
<1>2. Loads(v) = Loads(u)
  BY <1>1 DEF Loads
<1>3. /\ v.sel = u.sel /\ v.day = u.day /\ v.trips = u.trips /\ v.queue = u.queue /\ v.unowned = u.unowned
      /\ v.stale = u.stale
  BY <1>1 DEF TripsFields
<1>4. Chosen(v) = Chosen(u)
  BY <1>3 DEF Chosen
<1>5. TripsSound(v)
  BY <1>1, <1>2, <1>3, <1>4 DEF TripsSound
<1> QED BY <1>5 DEF v

LEMMA SettleTrips ==
    ASSUME TripsSound(ui), Data!Settle
    PROVE  TripsSound(ui')
<1> PICK r \in ui.net : \/ Data!TripsArrive(r) \/ Data!StreetsArrive(r)
                        \/ Data!BoundaryArrives(r) \/ Data!RequestEnds(r)
  BY DEF Data!Settle
<1> DEFINE v == Data!Finally(ui, r)
<1>1. LoadsTyped(v) /\ (\A f \in TripsFields \ {"net", "ctl"} : v[f] = ui[f]) /\ Loads(v) = Loads(ui) \ {r}
  BY LoadForgotten
<1>2. r.key # "trips" \/ r.dead => TripsSound(v)
  BY OtherForgotten
<1>3. \A x \in StreetModes \cup Areas : x # "trips"
  BY KeysApart
<1>4. /\ v.sel = ui.sel /\ v.day = ui.day /\ v.trips = ui.trips /\ v.queue = ui.queue /\ v.unowned = ui.unowned
      /\ v.stale = ui.stale
  BY <1>1 DEF TripsFields
<1>5. CASE Data!TripsArrive(r)
  <2> DEFINE a == [day |-> r.day, area |-> r.area]
             q == Append(v.queue, a)
             k == v.answers \cup {[key |-> r.key, area |-> r.area, day |-> r.day]}
             w == [[v EXCEPT !.answers = k] EXCEPT !.queue = q]
  <2>1. ui' = w /\ r.key = "trips" /\ ~r.dead
    BY <1>5 DEF Data!TripsArrive, Data!Keep
  <2>2. r \in Loads(ui) /\ a \in Asks /\ v.queue \in Seq(Asks)
    BY <1>1, <2>1 DEF Loads, Asks, TripsSound, LoadsTyped
  <2>3. ~ui.unowned => a = Chosen(ui)
    BY <2>2 DEF TripsSound, Chosen
  <2>4. q \in Seq(Asks) /\ q # << >> /\ q[Len(q)] = a
    BY <2>2
  <2> HIDE DEF v, q, a, k
  <2>5. TripsFields \subseteq DOMAIN w /\ w.queue = q /\ \A f \in TripsFields \ {"queue"} : w[f] = v[f]
    BY <1>1 DEF LoadsTyped, TripsFields
  <2>6. /\ w.sel = v.sel /\ w.day = v.day /\ w.trips = v.trips /\ w.net = v.net /\ w.last = v.last
        /\ w.ctl = v.ctl /\ w.unowned = v.unowned /\ w.stale = v.stale
    BY <2>5 DEF TripsFields
  <2> HIDE DEF w
  <2>7. LoadsTyped(w)
    BY <1>1, <2>4, <2>5, <2>6 DEF LoadsTyped
  <2>8. Loads(w) \subseteq Loads(ui) /\ Chosen(w) = Chosen(ui)
    BY <1>1, <1>4, <2>6 DEF Loads, Chosen
  <2>9. \A x \in Loads(ui) : ~ui.unowned => x.day = ui.day /\ x.area = Data!Clipped(ui.sel)
    BY DEF TripsSound
  <2>10. TripsSound(w)
    BY <1>4, <2>3, <2>4, <2>5, <2>6, <2>7, <2>8, <2>9 DEF TripsSound
  <2> QED BY <2>1, <2>10
<1>6. CASE Data!StreetsArrive(r)
  <2> DEFINE k == v.answers \cup {[key |-> r.key, area |-> r.area, day |-> r.day]}
             x == [v EXCEPT !.answers = k]
  <2>1. r.key \in StreetModes /\ ui' = Data!DrawStreets(x, r.key, r.area)
    BY <1>6 DEF Data!StreetsArrive, Data!Keep
  <2>2. TripsSound(v)
    BY <1>2, <1>3, <2>1
  <2> HIDE DEF v, k
  <2>3. TripsSound(x)
    BY <2>2, LayersOffTrips
  <2> HIDE DEF x
  <2> QED BY <2>1, <2>3, StreetsOffTrips
<1>7. CASE Data!BoundaryArrives(r)
  <2>1. r.key \in Areas
    BY <1>7 DEF Data!BoundaryArrives
  <2>2. TripsSound(v)
    BY <1>2, <1>3, <2>1
  <2>3. PICK hs, ch : ui' = [v EXCEPT !.cache = ch, !.runs = hs]
    BY <1>7 DEF Data!BoundaryArrives
  <2> HIDE DEF v
  <2>4. TripsSound([v EXCEPT !.cache = ch, !.runs = hs])
    BY <2>2, LayersOffTrips
  <2> QED BY <2>3, <2>4
<1>8. CASE Data!RequestEnds(r)
  <2>1. CASE r.key \in StreetModes
    <3>1. TripsSound(v)
      BY <1>2, <1>3, <2>1
    <3>2. PICK f, p : ui' = [v EXCEPT !.flag = f, !.failed = p]
      BY <1>8, <2>1 DEF Data!RequestEnds
    <3> HIDE DEF v
    <3> QED BY <3>1, <3>2, LayersOffTrips
  <2>2. CASE r.key \notin StreetModes /\ r.key # "trips"
    <3>1. TripsSound(v)
      BY <1>2, <2>2
    <3>2. PICK hs : ui' = [v EXCEPT !.runs = hs]
      BY <1>8, <2>2 DEF Data!RequestEnds
    <3> HIDE DEF v
    <3> QED BY <3>1, <3>2, LayersOffTrips
  <2>3. CASE r.key \notin StreetModes /\ r.key = "trips"
    <3> DEFINE s == v.stale \/ ~r.dead
               w == [v EXCEPT !.stale = s]
    <3>1. ui' = w
      BY <1>8, <2>3 DEF Data!RequestEnds
    <3>2. s \in BOOLEAN /\ (r.dead => (s <=> v.stale)) /\ (~r.dead => s)
      BY <1>1 DEF LoadsTyped
    <3> HIDE DEF v, s
    <3>3. TripsFields \subseteq DOMAIN w /\ w.stale = s /\ \A f \in TripsFields \ {"stale"} : w[f] = v[f]
      BY <1>1 DEF LoadsTyped, TripsFields
    <3>4. /\ w.sel = v.sel /\ w.day = v.day /\ w.trips = v.trips /\ w.net = v.net /\ w.last = v.last
          /\ w.ctl = v.ctl /\ w.unowned = v.unowned /\ w.queue = v.queue
      BY <3>3 DEF TripsFields
    <3> HIDE DEF w
    <3>5. LoadsTyped(w)
      BY <1>1, <3>2, <3>3, <3>4 DEF LoadsTyped
    <3>6. Loads(w) = Loads(ui) \ {r} /\ Chosen(w) = Chosen(ui) /\ Chosen(v) = Chosen(ui)
      BY <1>1, <1>4, <3>4 DEF Loads, Chosen
    <3>7. \A x \in Loads(ui) : ~ui.unowned => x.day = ui.day /\ x.area = Data!Clipped(ui.sel)
      BY DEF TripsSound
    <3>8. CASE r.dead
      <4>1. TripsSound(v) /\ Loads(v) = Loads(w) /\ (w.stale <=> v.stale)
        BY <1>1, <1>2, <3>2, <3>3, <3>6, <3>8
      <4>2. TripsSound(w)
        BY <1>4, <3>4, <3>5, <3>6, <4>1 DEF TripsSound
      <4> QED BY <3>1, <4>2
    <3>9. CASE ~r.dead
      <4>1. TripsSound(w)
        BY <1>4, <3>2, <3>3, <3>4, <3>5, <3>6, <3>7, <3>9 DEF TripsSound
      <4> QED BY <3>1, <4>1
    <3> QED BY <3>8, <3>9
  <2> QED BY <2>1, <2>2, <2>3
<1> QED BY <1>5, <1>6, <1>7, <1>8

LEMMA LastOfTail ==
    ASSUME NEW s \in Seq(Asks), s # << >>
    PROVE  /\ Tail(s) \in Seq(Asks)
           /\ Tail(s) = << >> => s[Len(s)] = Head(s)
           /\ Tail(s) # << >> => Tail(s)[Len(Tail(s))] = s[Len(s)]
<1>1. Tail(s) \in Seq(Asks) /\ Len(Tail(s)) = Len(s) - 1 /\ \A i \in 1..Len(Tail(s)) : Tail(s)[i] = s[i + 1]
  OBVIOUS
<1>2. ASSUME Tail(s) = << >> PROVE s[Len(s)] = Head(s)
  <2>1. Len(<< >>) = 0
    OBVIOUS
  <2>2. Len(s) \in Nat
    OBVIOUS
  <2>3. Len(s) - 1 = 0
    BY <1>1, <1>2, <2>1, Zenon
  <2>4. Len(s) = 1
    BY <2>2, <2>3
  <2>5. s[1] = Head(s)
    OBVIOUS
  <2> QED BY <2>4, <2>5
<1>3. ASSUME Tail(s) # << >> PROVE Tail(s)[Len(Tail(s))] = s[Len(s)]
  <2>1. Len(Tail(s)) \in 1..Len(Tail(s))
    BY <1>1, <1>3
  <2> QED BY <1>1, <2>1
<1> QED BY <1>1, <1>2, <1>3

LEMMA DecodeTrips ==
    ASSUME TripsSound(ui), Data!DecodeEnds
    PROVE  TripsSound(ui')
<1> DEFINE q == Tail(ui.queue)
           t == Head(ui.queue)
           w == [ui EXCEPT !.queue = q, !.trips = t]
<1>1. ui' = w /\ ui.queue # << >> /\ ui.queue \in Seq(Asks)
  BY DEF Data!DecodeEnds, TripsSound, LoadsTyped
<1>2. /\ q \in Seq(Asks)
      /\ q = << >> => ui.queue[Len(ui.queue)] = t
      /\ q # << >> => q[Len(q)] = ui.queue[Len(ui.queue)]
  BY <1>1, LastOfTail
<1> HIDE DEF q, t
<1>3. TripsFields \subseteq DOMAIN w /\ w.queue = q /\ w.trips = t /\ \A f \in TripsFields \ {"queue", "trips"} : w[f] = ui[f]
  BY DEF TripsSound, LoadsTyped, TripsFields
<1>4. /\ w.sel = ui.sel /\ w.day = ui.day /\ w.net = ui.net /\ w.last = ui.last
      /\ w.ctl = ui.ctl /\ w.unowned = ui.unowned /\ w.stale = ui.stale
  BY <1>3 DEF TripsFields
<1> HIDE DEF w
<1>5. LoadsTyped(w)
  BY <1>2, <1>3, <1>4 DEF TripsSound, LoadsTyped
<1>6. Loads(w) = Loads(ui) /\ Chosen(w) = Chosen(ui)
  BY <1>4 DEF Loads, Chosen
<1>7. TripsSound(w)
  BY <1>1, <1>2, <1>3, <1>4, <1>5, <1>6 DEF TripsSound
<1> QED BY <1>1, <1>7

LEMMA SelectLocationTrips ==
    ASSUME TripsSound(ui), NEW a \in Areas \cup {NoArea}, Data!SelectLocation(a)
    PROVE  TripsSound(ui')
<1> DEFINE u == Data!Acted([ui EXCEPT !.sel = a])
           v == IF Clipping /\ a # ui.sel THEN Data!FetchTrips(u) ELSE u
<1>1. \E todo : ui' = Data!Handler(v, u.steps, todo, {})
  BY DEF Data!SelectLocation
<1>2. TripsFields \subseteq DOMAIN u /\ u.sel = a /\ \A f \in TripsFields \ {"sel"} : u[f] = ui[f]
  BY DEF TripsSound, LoadsTyped, TripsFields, Data!Acted
<1>3. /\ u.day = ui.day /\ u.trips = ui.trips /\ u.net = ui.net /\ u.last = ui.last
      /\ u.ctl = ui.ctl /\ u.unowned = ui.unowned /\ u.stale = ui.stale /\ u.queue = ui.queue
  BY <1>2 DEF TripsFields
<1> HIDE DEF u
<1>4. LoadsTyped(u)
  BY <1>2, <1>3 DEF TripsSound, LoadsTyped
<1>5. TripsSound(v)
  <2>1. CASE Clipping /\ a # ui.sel
    BY <1>4, <2>1, TripsAskedFor
  <2>2. CASE ~(Clipping /\ a # ui.sel)
    <3>1. Data!Clipped(u.sel) = Data!Clipped(ui.sel)
      BY <1>2, <2>2 DEF Data!Clipped
    <3>2. Loads(u) = Loads(ui) /\ Chosen(u) = Chosen(ui)
      BY <1>3, <3>1 DEF Loads, Chosen
    <3>3. TripsSound(u)
      BY <1>3, <1>4, <3>1, <3>2 DEF TripsSound
    <3> QED BY <2>2, <3>3
  <2> QED BY <2>1, <2>2
<1> HIDE DEF v
<1> QED BY <1>1, <1>5, HandlersOffTrips

LEMMA StreetModeChangeTrips ==
    ASSUME TripsSound(ui), NEW mode, NEW hide, Data!StreetModeChange(mode, hide)
    PROVE  TripsSound(ui')
<1> DEFINE s == IF hide THEN NoMode ELSE mode
           u == Data!Acted([ui EXCEPT !.saved = s])
<1>1. \E todo : ui' = Data!Handler(u, u.steps, todo, {})
  BY DEF Data!StreetModeChange
<1> HIDE DEF s
<1>2. OffTrips(ui, u)
  BY DEF OffTrips, TripsSound, LoadsTyped, TripsFields, Data!Acted
<1>3. TripsSound(u)
  BY <1>2, TripsAlike
<1> HIDE DEF u
<1> QED BY <1>1, <1>3, HandlersOffTrips

LEMMA FiltersAppliedTrips ==
    ASSUME DataTyped(ui), TripsSound(ui), NEW d \in Dates, Data!FiltersApplied(d)
    PROVE  TripsSound(ui')
<1> DEFINE Killed(r) == [r EXCEPT !.dead = @ \/ r.id = ui.ctl[r.key]]
           dead == {Killed(r) : r \in ui.net}
           c == [x \in Data!Keys |-> 0]
           u == Data!Acted([ui EXCEPT !.day = d, !.net = dead, !.ctl = c, !.answers = {}])
           wanted == {x \in StreetModes : u.info[x].vis /\ ~u.flag[x] /\ u.sel # NoArea}
           v == Data!FetchTrips(u)
           x == CHOOSE y \in wanted : TRUE
           f == [v.flag EXCEPT ![x] = TRUE]
           z == [v EXCEPT !.flag = f, !.failed = v.failed \ {x}]
           n == Data!Fetch(z, x, v.sel)
           w == IF wanted = {} THEN v ELSE n
<1>1. \E wait : ui' = Data!Handler(w, u.steps, <<Data!Do("pass", NoArea)>>, wait)
  BY DEF Data!FiltersApplied
<1>2. \A r \in ui.net : /\ DOMAIN Killed(r) = LoadFields /\ Killed(r).id = r.id /\ Killed(r).key = r.key
                        /\ Killed(r).area = r.area /\ Killed(r).day = r.day
  BY DEF TripsSound, LoadsTyped, LoadFields
<1> HIDE DEF Killed, c
<1>3. /\ TripsFields \subseteq DOMAIN u /\ u.day = d /\ u.net = dead /\ u.ctl = c
      /\ \A g \in TripsFields \ {"day", "net", "ctl"} : u[g] = ui[g]
  BY DEF TripsSound, LoadsTyped, TripsFields, Data!Acted
<1>4. /\ u.sel = ui.sel /\ u.last = ui.last /\ u.unowned = ui.unowned /\ u.stale = ui.stale /\ u.queue = ui.queue
  BY <1>3 DEF TripsFields
<1> HIDE DEF u
<1>5. LoadsTyped(u)
  <2>1. /\ \A r \in ui.net : /\ r.id \in 1..ui.last /\ r.key \in Data!Keys
                             /\ r.day \in Dates /\ r.area \in Areas \cup {NoArea}
        /\ \A q, r \in ui.net : q.id = r.id => q = r
        /\ ui.last \in Nat
    BY DEF TripsSound, LoadsTyped
  <2>2. ASSUME NEW r \in u.net
        PROVE  /\ DOMAIN r = LoadFields /\ r.id \in 1..u.last /\ r.key \in Data!Keys
               /\ r.day \in Dates /\ r.area \in Areas \cup {NoArea}
    <3> PICK a \in ui.net : r = Killed(a)
      BY <1>3
    <3> QED BY <1>2, <1>4, <2>1
  <2>3. ASSUME NEW q \in u.net, NEW r \in u.net, q.id = r.id PROVE q = r
    <3> PICK a \in ui.net, b \in ui.net : q = Killed(a) /\ r = Killed(b)
      BY <1>3
    <3> QED BY <1>2, <2>1, <2>3
  <2>4. DOMAIN u.ctl = Data!Keys /\ \A k \in Data!Keys : u.ctl[k] = 0
    BY <1>3 DEF c
  <2>5. \A k \in Data!Keys : u.ctl[k] \in 0..u.last /\ \A r \in u.net : r.id = u.ctl[k] => r.key = k
    BY <1>4, <2>1, <2>2, <2>4
  <2>6. /\ u.unowned \in BOOLEAN /\ u.stale \in BOOLEAN /\ u.last \in Nat
        /\ u.sel \in Areas \cup {NoArea} /\ u.queue \in Seq(Asks)
    BY <1>4 DEF TripsSound, LoadsTyped
  <2> QED BY <1>3, <2>2, <2>3, <2>4, <2>5, <2>6 DEF LoadsTyped
<1>6. TripsSound(v)
  BY <1>5, TripsAskedFor
<1> HIDE DEF wanted
<1>7. CASE wanted = {}
  <2>1. w = v
    BY <1>7
  <2> HIDE DEF v, w
  <2> QED BY <1>1, <1>6, <2>1, HandlersOffTrips
<1>8. CASE wanted # {}
  <2>1. x \in StreetModes /\ u.sel # NoArea
    BY <1>8 DEF wanted
  <2>2. v.sel = u.sel
    BY <1>5, TripsAskedFor
  <2>3. v.sel \in Areas
    BY <1>5, <2>1, <2>2 DEF LoadsTyped
  <2> HIDE DEF v, x, f
  <2>4. TripsSound(z)
    BY <1>6, LayersOffTrips
  <2> HIDE DEF z
  <2>5. TripsSound(n)
    BY <2>1, <2>3, <2>4, AskedOffTrips
  <2>6. w = n
    BY <1>8
  <2> HIDE DEF n, w
  <2> QED BY <1>1, <2>5, <2>6, HandlersOffTrips
<1> QED BY <1>7, <1>8

LEMMA TripsKept ==
    ASSUME DataSound(ui), TripsSound(ui), Data!Next
    PROVE  TripsSound(ui')
<1>1. CASE Data!AnswerExpires
  <2>1. PICK k : ui' = [ui EXCEPT !.answers = k]
    BY <1>1 DEF Data!AnswerExpires
  <2> QED BY <2>1, LayersOffTrips
<1> QED BY <1>1, HandlerRunsTrips, SettleTrips, DecodeTrips, SelectLocationTrips, StreetModeChangeTrips,
        FiltersAppliedTrips DEF Data!Next, DataSound

LEMMA TripsStart ==
    ASSUME Data!Init
    PROVE  TripsSound(ui)
<1> PICK a \in {NoArea, CHOOSE x \in Areas : TRUE} \cap (Areas \cup {NoArea}) :
            ui = Data!FetchTrips([Data!Start EXCEPT !.sel = a, !.overlay = a, !.cache = {a} \ {NoArea}])
  BY DEF Data!Init
<1> DEFINE u == [Data!Start EXCEPT !.sel = a, !.overlay = a, !.cache = {a} \ {NoArea}]
<1>1. (CHOOSE d \in Dates : TRUE) \in Dates
  BY StreetsAssumption
<1> DEFINE d == CHOOSE x \in Dates : TRUE
<1>2. /\ TripsFields \subseteq DOMAIN u /\ u.sel = a /\ u.day = d /\ u.net = {} /\ u.last = 0
      /\ u.ctl = [x \in Data!Keys |-> 0] /\ u.unowned = FALSE /\ u.stale = TRUE /\ u.queue = << >>
  BY DEF Data!Start, TripsFields
<1> HIDE DEF u, d
<1>3. LoadsTyped(u)
  <2>1. DOMAIN u.ctl = Data!Keys /\ \A k \in Data!Keys : u.ctl[k] = 0
    BY <1>2
  <2>2. \A r \in u.net : FALSE
    BY <1>2
  <2>3. u.queue \in Seq(Asks)
    BY <1>2
  <2>4. u.sel \in Areas \cup {NoArea} /\ u.day \in Dates
    BY <1>1, <1>2 DEF d
  <2>5. /\ u.unowned = FALSE
        /\ u.stale = TRUE
        /\ u.last = 0
    BY <1>2, Zenon
  <2>8. u.unowned \in BOOLEAN /\ u.stale \in BOOLEAN
    BY <2>5, Zenon
  <2>9. u.last \in Nat
    BY <2>5
  <2>6. \A k \in Data!Keys : u.ctl[k] \in 0..u.last /\ \A r \in u.net : r.id = u.ctl[k] => r.key = k
    BY <1>2, <2>1, <2>2
  <2>7. TripsFields \subseteq DOMAIN u
    BY <1>2
  <2> HIDE <1>2
  <2> QED BY <2>1, <2>2, <2>3, <2>4, <2>6, <2>7, <2>8, <2>9 DEF LoadsTyped
<1> QED BY <1>3, TripsAskedFor DEF u

LEMMA TripsAreOfFilters ==
    ASSUME TripsSound(ui)
    PROVE  Data!TripsOfFilters
BY DEF TripsSound, LoadsTyped, Loads, Chosen, Data!TripsOfFilters, Data!Settled

-----------------------------------------------------------------------------
(* The main map: the boundary that is drawn.                               *)

Painting(s, a) == s.do = "hide" \/ s.do = "sync" \/ (s.do = "draw" /\ s.x = a)
Repaints(todo, a) == \E i \in DOMAIN todo : Painting(todo[i], a)

(* The boundary is that of the selected area, or a handler draws it again. *)
Painted(u) == u.overlay \in {u.sel, NoArea} \/ \E h \in u.runs : Repaints(h.todo, u.sel)
PaintSound(u) == "overlay" \in DOMAIN u /\ Painted(u)

LEMMA PaintsOfEither ==
    ASSUME NEW p \in Seq(Steps), NEW q \in Seq(Steps), NEW a, Repaints(p, a) \/ Repaints(q, a)
    PROVE  Repaints(p \o q, a)
<1>1. CASE Repaints(p, a)
  <2> PICK i \in DOMAIN p : Painting(p[i], a)
    BY <1>1 DEF Repaints
  <2>1. i \in DOMAIN (p \o q) /\ (p \o q)[i] = p[i]
    OBVIOUS
  <2> QED BY <2>1 DEF Repaints
<1>2. CASE Repaints(q, a)
  <2> PICK i \in DOMAIN q : Painting(q[i], a)
    BY <1>2 DEF Repaints
  <2>1. i + Len(p) \in DOMAIN (p \o q) /\ (p \o q)[i + Len(p)] = q[i]
    OBVIOUS
  <2> QED BY <2>1 DEF Repaints
<1> QED BY <1>1, <1>2

(* Of the steps that are left, and of those put in front of them.          *)
LEMMA PaintsLeft ==
    ASSUME NEW todo \in Seq(Steps), todo # << >>, NEW a
    PROVE  /\ Repaints(todo, a) /\ ~Painting(Head(todo), a) => Repaints(Tail(todo), a)
           /\ \A s \in Steps : Repaints(Tail(todo), a) \/ Painting(s, a) => Repaints(<<s>> \o Tail(todo), a)
           /\ \A s, t \in Steps : Repaints(Tail(todo), a) \/ Painting(t, a) => Repaints(<<s, t>> \o Tail(todo), a)
<1>1. Tail(todo) \in Seq(Steps)
  BY ResetStaysAhead
<1>2. ASSUME Repaints(todo, a), ~Painting(Head(todo), a) PROVE Repaints(Tail(todo), a)
  <2> PICK i \in DOMAIN todo : Painting(todo[i], a)
    BY <1>2 DEF Repaints
  <2>1. i # 1 /\ i - 1 \in DOMAIN Tail(todo) /\ Tail(todo)[i - 1] = todo[i]
    BY <1>2
  <2> QED BY <2>1 DEF Repaints
<1>3. ASSUME NEW s \in Steps, Repaints(Tail(todo), a) \/ Painting(s, a) PROVE Repaints(<<s>> \o Tail(todo), a)
  <2>1. <<s>> \in Seq(Steps) /\ (Painting(s, a) => Repaints(<<s>>, a))
    BY DEF Repaints
  <2> QED BY <1>1, <1>3, <2>1, PaintsOfEither
<1>4. ASSUME NEW s \in Steps, NEW t \in Steps, Repaints(Tail(todo), a) \/ Painting(t, a)
      PROVE  Repaints(<<s, t>> \o Tail(todo), a)
  <2>1. <<s, t>> \in Seq(Steps) /\ (Painting(t, a) => Repaints(<<s, t>>, a))
    <3>1. 2 \in DOMAIN <<s, t>> /\ <<s, t>>[2] = t
      OBVIOUS
    <3> QED BY <3>1 DEF Repaints
  <2> QED BY <1>1, <1>4, <2>1, PaintsOfEither
<1> QED BY <1>2, <1>3, <1>4

LEMMA PaintThen ==
    ASSUME NEW v, {"sel", "overlay", "runs"} \subseteq DOMAIN v, NEW h \in v.runs, {"todo", "wait"} \subseteq DOMAIN h,
           NEW steps, NEW wait,
           \/ v.overlay \in {v.sel, NoArea}
           \/ \E g \in v.runs \ {h} : Repaints(g.todo, v.sel)
           \/ Repaints(steps, v.sel)
    PROVE  PaintSound(Data!Then(v, h, steps, wait))
<1> DEFINE g == [h EXCEPT !.todo = steps, !.wait = wait]
           left == IF steps = << >> /\ wait = {} THEN {} ELSE {g}
           rs == (v.runs \ {h}) \cup left
           w == [v EXCEPT !.runs = rs]
<1>1. Data!Then(v, h, steps, wait) = w
  BY DEF Data!Then
<1>2. g.todo = steps
  OBVIOUS
<1>3. Repaints(steps, v.sel) => g \in left
  BY DEF Repaints
<1> HIDE DEF g, left
<1>4. v.runs \ {h} \subseteq rs /\ left \subseteq rs
  OBVIOUS
<1> HIDE DEF rs
<1>5. "overlay" \in DOMAIN w /\ w.overlay = v.overlay /\ w.sel = v.sel /\ w.runs = rs
  OBVIOUS
<1> HIDE DEF w
<1>6. PaintSound(w)
  BY <1>2, <1>3, <1>4, <1>5 DEF PaintSound, Painted
<1> QED BY <1>1, <1>6

(* Another handler only adds what is still to be drawn.                    *)
LEMMA PaintHandler ==
    ASSUME NEW v, {"sel", "overlay", "runs", "crossed"} \subseteq DOMAIN v, NEW id, NEW todo, NEW wait,
           Painted(v) \/ Repaints(todo, v.sel)
    PROVE  PaintSound(Data!Handler(v, id, todo, wait))
<1> DEFINE g == [id |-> id, todo |-> todo, wait |-> wait, ok |-> TRUE]
           rs == v.runs \cup {g}
           c == v.crossed \/ v.runs # {}
           w == [v EXCEPT !.runs = rs, !.crossed = c]
<1>1. Data!Handler(v, id, todo, wait) = w
  BY DEF Data!Handler
<1>2. g.todo = todo
  OBVIOUS
<1> HIDE DEF g, c
<1>4. v.runs \subseteq rs /\ g \in rs
  OBVIOUS
<1> HIDE DEF rs
<1>5. "overlay" \in DOMAIN w /\ w.overlay = v.overlay /\ w.sel = v.sel /\ w.runs = rs
  OBVIOUS
<1> HIDE DEF w
<1>6. PaintSound(w)
  BY <1>2, <1>4, <1>5 DEF PaintSound, Painted
<1> QED BY <1>1, <1>6

LEMMA AskedOffPaint ==
    ASSUME NEW u, {"sel", "overlay", "runs", "crossed"} \subseteq DOMAIN u, NEW key, NEW area
    PROVE  LET v == Data!Fetch(u, key, area) IN
           /\ {"sel", "overlay", "runs", "crossed"} \subseteq DOMAIN v
           /\ v.sel = u.sel /\ v.overlay = u.overlay /\ v.runs = u.runs
<1> DEFINE n == {IF r.id = u.ctl[key] THEN [r EXCEPT !.dead = TRUE] ELSE r : r \in u.net}
                \cup {[id |-> u.last + 1, key |-> key, area |-> area, day |-> u.day, dead |-> FALSE]}
           c == [u.ctl EXCEPT ![key] = u.last + 1]
           v == [u EXCEPT !.last = u.last + 1, !.ctl = c, !.net = n]
<1>1. Data!Fetch(u, key, area) = v
  BY DEF Data!Fetch
<1> HIDE DEF n, c
<1> QED BY <1>1

LEMMA LoadOffPaint ==
    ASSUME NEW u, {"sel", "overlay", "runs", "crossed"} \subseteq DOMAIN u
    PROVE  LET v == Data!FetchTrips(u) IN
           /\ {"sel", "overlay", "runs", "crossed"} \subseteq DOMAIN v
           /\ v.sel = u.sel /\ v.overlay = u.overlay /\ v.runs = u.runs
<1> DEFINE v(o) == [u EXCEPT !.stale = FALSE, !.unowned = o]
<1>1. PICK o, q : Data!FetchTrips(u) \in {[v(o) EXCEPT !.queue = q], Data!Fetch(v(o), "trips", Data!Clipped(u.sel))}
  BY TripsForm
<1>2. /\ {"sel", "overlay", "runs", "crossed"} \subseteq DOMAIN v(o)
      /\ v(o).sel = u.sel /\ v(o).overlay = u.overlay /\ v(o).runs = u.runs
  OBVIOUS
<1> HIDE DEF v
<1> QED BY <1>1, <1>2, AskedOffPaint

LEMMA StreetsOffPaint ==
    ASSUME NEW u, {"sel", "overlay", "runs"} \subseteq DOMAIN u, NEW mode, NEW area
    PROVE  LET v == Data!DrawStreets(u, mode, area) IN
           DOMAIN v = DOMAIN u /\ v.sel = u.sel /\ v.overlay = u.overlay /\ v.runs = u.runs
BY DEF Data!DrawStreets

(* The order of the modes leaves none out.                                 *)
LEMMA EveryModeListed ==
    /\ \A x \in StreetModes : \E i \in DOMAIN Data!ModeOrder : Data!ModeOrder[i] = x
    /\ \A i, k \in DOMAIN Data!ModeOrder : Data!ModeOrder[i] = Data!ModeOrder[k] => i = k
<1> DEFINE n == Cardinality(StreetModes)
           order == Data!ModeOrder
<1>1. n \in Nat /\ \E s \in [1..n -> StreetModes] : \A i, k \in DOMAIN s : s[i] = s[k] => i = k
  <2>1. n \in Nat /\ ExistsBijection(1..n, StreetModes)
    BY StreetsAssumption, FS_CardinalityType
  <2> QED BY <2>1 DEF ExistsBijection, Bijection, Injection, IsInjective
<1>2. Data!Cardinality(StreetModes) = n
  BY DEF Cardinality, Data!Cardinality
<1>3. Cardinality(1..n) = n /\ IsFiniteSet(1..n)
  BY <1>1, FS_Interval
<1> HIDE DEF n
<1>4. order \in [1..n -> StreetModes] /\ \A i, k \in DOMAIN order : order[i] = order[k] => i = k
  BY <1>1, <1>2 DEF Data!ModeOrder
<1> HIDE DEF order
<1>5. order \in Injection(1..n, StreetModes)
  BY <1>4 DEF Injection, IsInjective
<1>6. order \in Surjection(1..n, StreetModes)
  BY <1>3, <1>5, StreetsAssumption, FS_Injection DEF n
<1>7. \A x \in StreetModes : \E i \in DOMAIN order : order[i] = x
  BY <1>4, <1>6 DEF Surjection
<1> QED BY <1>4, <1>7 DEF order

LEMMA HandlerRunsPaint ==
    ASSUME DataTyped(ui), PaintSound(ui), Data!HandlerRuns
    PROVE  PaintSound(ui')
<1> PICK h \in ui.runs :
        /\ h.wait = {}
        /\ IF h.todo = << >> THEN ui' = Data!Then(ui, h, << >>, {})
           ELSE LET s == Head(h.todo)  rest == Tail(h.todo) IN
                ui' = CASE s.do = "hide"    -> Data!Hide(ui, h, s.x, rest)
                        [] s.do = "show"    -> Data!Show(ui, h, s.x, rest)
                        [] s.do = "reveal"  -> Data!Reveal(ui, h, s.x, rest)
                        [] s.do = "sync"    -> Data!Sync(ui, h, rest)
                        [] s.do = "draw"    -> Data!Draw(ui, h, s.x, rest)
                        [] s.do = "reset"   -> Data!ResetStreetCache(ui, h, rest)
                        [] s.do = "refresh" -> Data!RefreshStreetLayers(ui, h, rest)
                        [] s.do = "pass"    -> Data!VisibilityPass(ui, h, rest)
  BY DEF Data!HandlerRuns
<1>1. /\ {"sel", "overlay", "runs", "crossed"} \subseteq DOMAIN ui /\ {"todo", "wait"} \subseteq DOMAIN h
      /\ h.todo \in Seq(Steps) /\ ui.sel \in Areas \cup {NoArea} /\ ui.saved \in StreetModes \cup {NoMode}
  BY DEF DataTyped, DataFields, PaintSound
<1>2. CASE h.todo = << >>
  <2>1. ~Repaints(h.todo, ui.sel)
    BY <1>2 DEF Repaints
  <2>2. ui.overlay \in {ui.sel, NoArea} \/ \E g \in ui.runs \ {h} : Repaints(g.todo, ui.sel)
    BY <2>1 DEF PaintSound, Painted
  <2> QED BY <1>1, <1>2, <2>2, PaintThen
<1>3. CASE h.todo # << >>
  <2> DEFINE s == Head(h.todo)
             rest == Tail(h.todo)
             Fields == {"sel", "overlay", "runs", "crossed"}
  <2>1. s \in Steps /\ rest \in Seq(Steps)
    BY <1>1, <1>3, ResetStaysAhead
  <2>2. /\ Repaints(h.todo, ui.sel) /\ ~Painting(s, ui.sel) => Repaints(rest, ui.sel)
        /\ \A t \in Steps : Repaints(rest, ui.sel) \/ Painting(t, ui.sel) => Repaints(<<t>> \o rest, ui.sel)
        /\ \A q, t \in Steps : Repaints(rest, ui.sel) \/ Painting(t, ui.sel) => Repaints(<<q, t>> \o rest, ui.sel)
    BY <1>1, <1>3, PaintsLeft
  <2>3. /\ Data!Do("sync", NoArea) \in Steps /\ Painting(Data!Do("sync", NoArea), ui.sel)
        /\ Data!Do("draw", ui.sel) \in Steps /\ Painting(Data!Do("draw", ui.sel), ui.sel)
        /\ \A x \in StreetModes : Data!Do("reveal", x) \in Steps /\ Data!Do("show", x) \in Steps
    BY <1>1 DEF Data!Do, Data!Step, Steps, Painting
  <2>4. ui' = CASE s.do = "hide"    -> Data!Hide(ui, h, s.x, rest)
                [] s.do = "show"    -> Data!Show(ui, h, s.x, rest)
                [] s.do = "reveal"  -> Data!Reveal(ui, h, s.x, rest)
                [] s.do = "sync"    -> Data!Sync(ui, h, rest)
                [] s.do = "draw"    -> Data!Draw(ui, h, s.x, rest)
                [] s.do = "reset"   -> Data!ResetStreetCache(ui, h, rest)
                [] s.do = "refresh" -> Data!RefreshStreetLayers(ui, h, rest)
                [] s.do = "pass"    -> Data!VisibilityPass(ui, h, rest)
    BY <1>3
  <2>5. s.do \in {"hide", "show", "reveal", "sync", "draw", "reset", "refresh", "pass"}
        /\ (s.do = "show" => s.x \in StreetModes)
    BY <2>1 DEF Steps, Data!Step
  <2> HIDE DEF s, rest
  (* a step that leaves the boundary as it is *)
  <2>6. ASSUME NEW v, Fields \subseteq DOMAIN v, v.sel = ui.sel, v.overlay = ui.overlay, v.runs = ui.runs,
               NEW steps, NEW wait,
               Repaints(steps, ui.sel) \/ (~Painting(s, ui.sel) /\ (Repaints(rest, ui.sel) => Repaints(steps, ui.sel)))
        PROVE  PaintSound(Data!Then(v, h, steps, wait))
    <3>1. \/ v.overlay \in {v.sel, NoArea} \/ \E g \in v.runs \ {h} : Repaints(g.todo, v.sel)
          \/ Repaints(h.todo, ui.sel)
      BY <2>6 DEF PaintSound, Painted
    <3>2. \/ v.overlay \in {v.sel, NoArea} \/ \E g \in v.runs \ {h} : Repaints(g.todo, v.sel)
          \/ Repaints(steps, v.sel)
      BY <2>2, <2>6, <3>1
    <3> QED BY <1>1, <2>6, <3>2, PaintThen
  <2>7. CASE s.do = "hide"
    <3> DEFINE i == [ui.info EXCEPT ![s.x].vis = FALSE]
               m == [ui.m EXCEPT ![s.x].vis = FALSE]
               v == [ui EXCEPT !.info = i, !.m = m]
               steps == <<Data!Do("sync", NoArea)>> \o rest
    <3>1. Data!Hide(ui, h, s.x, rest) = Data!Then(v, h, steps, {})
      BY DEF Data!Hide
    <3> HIDE DEF i, m
    <3>2. Fields \subseteq DOMAIN v /\ v.sel = ui.sel /\ v.overlay = ui.overlay /\ v.runs = ui.runs
      BY <1>1
    <3>3. Repaints(steps, ui.sel)
      BY <2>2, <2>3
    <3> HIDE DEF v, steps
    <3> QED BY <2>4, <2>6, <2>7, <3>1, <3>2, <3>3
  <2>8. CASE s.do = "reveal"
    <3> DEFINE m == [ui.m EXCEPT ![s.x].vis = ui.m[s.x].area # NoArea]
               v == [ui EXCEPT !.m = m]
    <3>1. Data!Reveal(ui, h, s.x, rest) = Data!Then(v, h, rest, {})
      BY DEF Data!Reveal
    <3> HIDE DEF m
    <3>2. Fields \subseteq DOMAIN v /\ v.sel = ui.sel /\ v.overlay = ui.overlay /\ v.runs = ui.runs
      BY <1>1
    <3>3. ~Painting(s, ui.sel)
      BY <2>8 DEF Painting
    <3> HIDE DEF v
    <3> QED BY <2>4, <2>6, <2>8, <3>1, <3>2, <3>3
  <2>9. CASE s.do = "pass"
    <3> DEFINE m == [x \in StreetModes |-> IF ui.info[x].area # NoArea /\ ui.m[x].area # NoArea
                                           THEN [ui.m[x] EXCEPT !.vis = ui.info[x].vis] ELSE ui.m[x]]
               v == [ui EXCEPT !.m = m]
    <3>1. Data!VisibilityPass(ui, h, rest) = Data!Then(v, h, rest, {})
      BY DEF Data!VisibilityPass
    <3> HIDE DEF m
    <3>2. Fields \subseteq DOMAIN v /\ v.sel = ui.sel /\ v.overlay = ui.overlay /\ v.runs = ui.runs
      BY <1>1
    <3>3. ~Painting(s, ui.sel)
      BY <2>9 DEF Painting
    <3> HIDE DEF v
    <3> QED BY <2>4, <2>6, <2>9, <3>1, <3>2, <3>3
  <2>10. CASE s.do = "reset"
    <3> DEFINE f == [x \in StreetModes |-> FALSE]
               i == [x \in StreetModes |-> [ui.info[x] EXCEPT !.area = NoArea]]
               v == [ui EXCEPT !.flag = f, !.info = i]
    <3>1. Data!ResetStreetCache(ui, h, rest) = Data!Then(v, h, rest, {})
      BY DEF Data!ResetStreetCache
    <3> HIDE DEF f, i
    <3>2. Fields \subseteq DOMAIN v /\ v.sel = ui.sel /\ v.overlay = ui.overlay /\ v.runs = ui.runs
      BY <1>1
    <3>3. ~Painting(s, ui.sel)
      BY <2>10 DEF Painting
    <3> HIDE DEF v
    <3> QED BY <2>4, <2>6, <2>10, <3>1, <3>2, <3>3
  <2>11. CASE s.do = "refresh"
    <3> DEFINE steps == (IF ui.saved = NoMode THEN << >> ELSE <<Data!Do("show", ui.saved)>>) \o rest
    <3>1. Data!RefreshStreetLayers(ui, h, rest) = Data!Then(ui, h, steps, {})
      BY DEF Data!RefreshStreetLayers
    <3>2. Repaints(rest, ui.sel) => Repaints(steps, ui.sel)
      <4>1. CASE ui.saved = NoMode
        <5>1. steps = rest
          BY <2>1, <4>1
        <5> QED BY <5>1
      <4>2. CASE ui.saved # NoMode
        BY <1>1, <2>2, <2>3, <4>2
      <4> QED BY <4>1, <4>2
    <3>3. ~Painting(s, ui.sel)
      BY <2>11 DEF Painting
    <3> HIDE DEF steps
    <3> QED BY <1>1, <2>4, <2>6, <2>11, <3>1, <3>2, <3>3
  <2>12. CASE s.do = "show"
    <3> DEFINE i == [ui.info EXCEPT ![s.x].vis = TRUE]
               v == [ui EXCEPT !.info = i]
               after == <<Data!Do("reveal", s.x), Data!Do("sync", NoArea)>> \o rest
               f == [v.flag EXCEPT ![s.x] = TRUE]
               w == [v EXCEPT !.flag = f, !.failed = v.failed \ {s.x}]
               z == IF Data!Kept(w, s.x, w.sel) THEN Data!DrawStreets(w, s.x, w.sel) ELSE Data!Fetch(w, s.x, w.sel)
               wait == IF Data!Kept(w, s.x, w.sel) THEN {} ELSE {w.last + 1}
    <3>1. Data!Show(ui, h, s.x, rest) =
            IF ui.sel = NoArea THEN Data!Then(ui, h, rest, {})
            ELSE IF v.flag[s.x] THEN Data!Then(v, h, after, {})
            ELSE Data!Then(z, h, after, wait)
      BY DEF Data!Show
    <3> HIDE DEF wait
    <3> HIDE DEF i
    <3>2. Fields \subseteq DOMAIN v /\ v.sel = ui.sel /\ v.overlay = ui.overlay /\ v.runs = ui.runs
      BY <1>1
    <3> HIDE DEF v, f
    <3>3. Fields \subseteq DOMAIN w /\ w.sel = ui.sel /\ w.overlay = ui.overlay /\ w.runs = ui.runs
      BY <3>2
    <3> HIDE DEF w
    <3>4. Fields \subseteq DOMAIN z /\ z.sel = ui.sel /\ z.overlay = ui.overlay /\ z.runs = ui.runs
      BY <3>3, AskedOffPaint, StreetsOffPaint
    <3>5. Repaints(after, ui.sel)
      BY <2>2, <2>3, <2>5, <2>12
    <3>6. ~Painting(s, ui.sel)
      BY <2>12 DEF Painting
    <3> HIDE DEF z, after
    <3>7. CASE ui.sel = NoArea
      <4>1. ui' = Data!Then(ui, h, rest, {})
        BY <2>4, <2>12, <3>1, <3>7
      <4> QED BY <1>1, <2>6, <3>6, <4>1
    <3>8. CASE ui.sel # NoArea /\ v.flag[s.x]
      <4>1. ui' = Data!Then(v, h, after, {})
        BY <2>4, <2>12, <3>1, <3>8
      <4> QED BY <2>6, <3>2, <3>5, <4>1
    <3>9. CASE ui.sel # NoArea /\ ~v.flag[s.x]
      <4>1. ui' = Data!Then(z, h, after, wait)
        BY <2>4, <2>12, <3>1, <3>9
      <4> QED BY <2>6, <3>4, <3>5, <4>1
    <3> QED BY <3>7, <3>8, <3>9
  <2>13. CASE s.do = "sync"
    <3> DEFINE after == <<Data!Do("draw", ui.sel)>> \o rest
    <3>1. Repaints(after, ui.sel)
      BY <2>2, <2>3
    <3>2. CASE ui.sel = NoArea
      <4> DEFINE v == [ui EXCEPT !.overlay = NoArea]
      <4>1. ui' = Data!Then(v, h, rest, {})
        BY <2>4, <2>13, <3>2 DEF Data!Sync
      <4>2. Fields \subseteq DOMAIN v /\ v.overlay = NoArea /\ v.runs = ui.runs
        BY <1>1
      <4> HIDE DEF v
      <4> QED BY <1>1, <4>1, <4>2, PaintThen
    <3>3. CASE ui.sel # NoArea /\ ui.sel \in ui.cache
      <4> DEFINE g == [h EXCEPT !.ok = TRUE]
                 rs == (ui.runs \ {h}) \cup {g}
                 v == [ui EXCEPT !.runs = rs]
      <4>1. ui' = Data!Then(v, g, after, {})
        BY <2>4, <2>13, <3>3 DEF Data!Sync
      <4>2. g \in rs /\ {"todo", "wait"} \subseteq DOMAIN g
        BY <1>1
      <4> HIDE DEF g, rs
      <4>3. Fields \subseteq DOMAIN v /\ v.sel = ui.sel /\ v.runs = rs
        BY <1>1
      <4> HIDE DEF v, after
      <4> QED BY <3>1, <4>1, <4>2, <4>3, PaintThen
    <3>4. CASE ui.sel # NoArea /\ ui.sel \notin ui.cache
      <4> DEFINE z == Data!Fetch(ui, ui.sel, ui.sel)
      <4>1. ui' = Data!Then(z, h, after, {ui.last + 1})
        BY <2>4, <2>13, <3>4 DEF Data!Sync
      <4>2. Fields \subseteq DOMAIN z /\ z.sel = ui.sel /\ z.overlay = ui.overlay /\ z.runs = ui.runs
        BY <1>1, AskedOffPaint
      <4> HIDE DEF z, after
      <4> QED BY <2>6, <3>1, <4>1, <4>2
    <3> QED BY <3>2, <3>3, <3>4
  <2>14. CASE s.do = "draw"
    <3>1. CASE ui.sel # s.x
      <4>1. ui' = Data!Then(ui, h, rest, {})
        BY <2>4, <2>14, <3>1 DEF Data!Draw
      <4>2. ~Painting(s, ui.sel)
        BY <2>14, <3>1 DEF Painting
      <4> QED BY <1>1, <2>6, <4>1, <4>2
    <3>2. CASE ui.sel = s.x
      <4> DEFINE o == IF h.ok THEN s.x ELSE NoArea
                 v == [ui EXCEPT !.overlay = o]
      <4>1. ui' = Data!Then(v, h, rest, {})
        BY <2>4, <2>14, <3>2 DEF Data!Draw
      <4>2. o \in {ui.sel, NoArea}
        BY <3>2
      <4> HIDE DEF o
      <4>3. Fields \subseteq DOMAIN v /\ v.overlay = o /\ v.runs = ui.runs /\ v.sel = ui.sel
        BY <1>1
      <4> HIDE DEF v
      <4> QED BY <1>1, <4>1, <4>2, <4>3, PaintThen
    <3> QED BY <3>1, <3>2
  <2> QED BY <2>5, <2>7, <2>8, <2>9, <2>10, <2>11, <2>12, <2>13, <2>14
<1> QED BY <1>2, <1>3

(* The handlers that are left have the steps they had.                     *)
LEMMA PaintAlike ==
    ASSUME NEW u, PaintSound(u), NEW v, {"sel", "overlay"} \subseteq DOMAIN v, v.sel = u.sel, v.overlay = u.overlay,
           \A h \in u.runs : \E g \in v.runs : g.todo = h.todo
    PROVE  PaintSound(v)
BY DEF PaintSound, Painted

LEMMA ForgottenOffPaint ==
    ASSUME DataTyped(ui), PaintSound(ui), NEW r \in ui.net
    PROVE  LET v == Data!Finally(ui, r) IN
           /\ {"sel", "overlay", "runs"} \subseteq DOMAIN v /\ v.sel = ui.sel /\ v.overlay = ui.overlay
           /\ \A h \in ui.runs : \E g \in v.runs : g.todo = h.todo
<1> DEFINE c == [ui.ctl EXCEPT ![r.key] = 0]
           Less(h) == [h EXCEPT !.wait = h.wait \ {r.id}]
           hs == {Less(h) : h \in ui.runs}
           v == [ui EXCEPT !.net = ui.net \ {r}, !.ctl = c, !.runs = hs]
<1>1. Data!Finally(ui, r) = v
  BY DEF Data!Finally
<1>2. \A h \in ui.runs : Less(h).todo = h.todo
  BY DEF DataTyped
<1>5. \A h \in ui.runs : Less(h) \in hs
  BY Zenon
<1>3. {"sel", "overlay", "runs"} \subseteq DOMAIN ui
  BY DEF DataTyped, DataFields, PaintSound
<1> HIDE DEF c, hs, Less
<1>4. {"sel", "overlay", "runs"} \subseteq DOMAIN v /\ v.sel = ui.sel /\ v.overlay = ui.overlay /\ v.runs = hs
  BY <1>3
<1> HIDE DEF v
<1> QED BY <1>1, <1>2, <1>4, <1>5

LEMMA SettlePaint ==
    ASSUME DataTyped(ui), PaintSound(ui), Data!Settle
    PROVE  PaintSound(ui')
<1> PICK r \in ui.net : \/ Data!TripsArrive(r) \/ Data!StreetsArrive(r)
                        \/ Data!BoundaryArrives(r) \/ Data!RequestEnds(r)
  BY DEF Data!Settle
<1> DEFINE v == Data!Finally(ui, r)
           Fields == {"sel", "overlay", "runs"}
           Same(w) == /\ Fields \subseteq DOMAIN w /\ w.sel = ui.sel /\ w.overlay = ui.overlay
                      /\ \A h \in ui.runs : \E g \in w.runs : g.todo = h.todo
<1>1. Same(v)
  BY ForgottenOffPaint
<1>2. \A w : Same(w) => PaintSound(w)
  BY PaintAlike
<1>3. CASE Data!TripsArrive(r)
  <2>1. PICK k, q : ui' = [[v EXCEPT !.answers = k] EXCEPT !.queue = q]
    BY <1>3 DEF Data!TripsArrive, Data!Keep
  <2> HIDE DEF v
  <2>2. Same([[v EXCEPT !.answers = k] EXCEPT !.queue = q])
    BY <1>1
  <2> QED BY <1>2, <2>1, <2>2
<1>4. CASE Data!StreetsArrive(r)
  <2> DEFINE k == v.answers \cup {[key |-> r.key, area |-> r.area, day |-> r.day]}
             x == [v EXCEPT !.answers = k]
             w == Data!DrawStreets(x, r.key, r.area)
  <2>1. ui' = w
    BY <1>4 DEF Data!StreetsArrive, Data!Keep
  <2> HIDE DEF v, k
  <2>2. Same(x)
    BY <1>1
  <2> HIDE DEF x
  <2>3. Same(w)
    BY <2>2, StreetsOffPaint
  <2> HIDE DEF w
  <2> QED BY <1>2, <2>1, <2>3
<1>5. CASE Data!BoundaryArrives(r)
  <2> DEFINE Had(h) == [h EXCEPT !.ok = IF r.id \in h.wait THEN TRUE ELSE h.ok, !.wait = h.wait \ {r.id}]
             hs == {Had(h) : h \in ui.runs}
             ch == v.cache \cup {r.area}
             w == [v EXCEPT !.cache = ch, !.runs = hs]
  <2>1. ui' = w
    BY <1>5 DEF Data!BoundaryArrives
  <2>2. \A h \in ui.runs : Had(h).todo = h.todo
    BY DEF DataTyped
  <2>5. \A h \in ui.runs : Had(h) \in hs
    BY Zenon
  <2> HIDE DEF v, Had, hs, ch
  <2>3. Fields \subseteq DOMAIN w /\ w.sel = ui.sel /\ w.overlay = ui.overlay /\ w.runs = hs
    BY <1>1
  <2> HIDE DEF w
  <2>4. Same(w)
    BY <2>2, <2>3, <2>5
  <2> QED BY <1>2, <2>1, <2>4
<1>6. CASE Data!RequestEnds(r)
  <2>1. CASE r.key \in StreetModes
    <3>1. PICK f, p : ui' = [v EXCEPT !.flag = f, !.failed = p]
      BY <1>6, <2>1 DEF Data!RequestEnds
    <3> HIDE DEF v
    <3>2. Same([v EXCEPT !.flag = f, !.failed = p])
      BY <1>1
    <3> QED BY <1>2, <3>1, <3>2
  <2>2. CASE r.key \notin StreetModes /\ r.key = "trips"
    <3>1. PICK s : ui' = [v EXCEPT !.stale = s]
      BY <1>6, <2>2 DEF Data!RequestEnds
    <3> HIDE DEF v
    <3>2. Same([v EXCEPT !.stale = s])
      BY <1>1
    <3> QED BY <1>2, <3>1, <3>2
  <2>3. CASE r.key \notin StreetModes /\ r.key # "trips"
    <3> DEFINE Had(h) == [h EXCEPT !.ok = IF r.id \in h.wait THEN FALSE ELSE h.ok, !.wait = h.wait \ {r.id}]
               hs == {Had(h) : h \in ui.runs}
               w == [v EXCEPT !.runs = hs]
    <3>1. ui' = w
      BY <1>6, <2>3 DEF Data!RequestEnds
    <3>2. \A h \in ui.runs : Had(h).todo = h.todo
      BY DEF DataTyped
    <3>5. \A h \in ui.runs : Had(h) \in hs
      BY Zenon
    <3> HIDE DEF v, Had, hs
    <3>3. Fields \subseteq DOMAIN w /\ w.sel = ui.sel /\ w.overlay = ui.overlay /\ w.runs = hs
      BY <1>1
    <3> HIDE DEF w
    <3>4. Same(w)
      BY <3>2, <3>3, <3>5
    <3> QED BY <1>2, <3>1, <3>4
  <2> QED BY <2>1, <2>2, <2>3
<1> QED BY <1>3, <1>4, <1>5, <1>6

LEMMA SelectLocationPaint ==
    ASSUME DataTyped(ui), PaintSound(ui), NEW a \in Areas \cup {NoArea}, Data!SelectLocation(a)
    PROVE  PaintSound(ui')
<1> DEFINE u == Data!Acted([ui EXCEPT !.sel = a])
           f == Data!FetchTrips(u)
           v == IF Clipping /\ a # ui.sel THEN f ELSE u
           more == (IF a # ui.sel THEN Data!HideAll \o <<Data!Do("reset", NoArea)>> ELSE << >>)
           todo == IF a = NoArea THEN Data!HideAll ELSE more \o <<Data!Do("refresh", NoArea)>>
           Fields == {"sel", "overlay", "runs", "crossed"}
<1>1. ui' = Data!Handler(v, u.steps, todo, {})
  BY DEF Data!SelectLocation
<1>2. Repaints(Data!HideAll, a)
  <2>1. PICK x : x \in StreetModes
    BY StreetsAssumption
  <2>2. PICK i \in DOMAIN Data!ModeOrder : Data!ModeOrder[i] = x
    BY <2>1, EveryModeListed
  <2>3. i \in DOMAIN Data!HideAll /\ Data!HideAll[i].do = "hide"
    BY DEF Data!HideAll, Data!Do
  <2> QED BY <2>3 DEF Repaints, Painting
<1>3. a # ui.sel \/ a = NoArea => Repaints(todo, a)
  <2> DEFINE h == Data!HideAll
             p == <<Data!Do("reset", NoArea)>>
             q == <<Data!Do("refresh", NoArea)>>
  <2>1. h \in Seq(Steps) /\ p \in Seq(Steps) /\ q \in Seq(Steps)
    <3>1. Data!Do("reset", NoArea) \in Steps /\ Data!Do("refresh", NoArea) \in Steps
      BY DEF Steps, Data!Step, Data!Do
    <3> QED BY <3>1, ModesListed
  <2> HIDE DEF h, p, q
  <2>2. Repaints(h \o p, a) /\ h \o p \in Seq(Steps)
    BY <1>2, <2>1, PaintsOfEither DEF h
  <2>3. Repaints((h \o p) \o q, a)
    BY <2>1, <2>2, PaintsOfEither
  <2> QED BY <1>2, <2>3 DEF h, p, q
<1>4. Fields \subseteq DOMAIN u /\ u.sel = a /\ u.overlay = ui.overlay /\ u.runs = ui.runs
  BY DEF DataTyped, DataFields, PaintSound, Data!Acted
<1> HIDE DEF u, todo
<1>5. Fields \subseteq DOMAIN f /\ f.sel = u.sel /\ f.overlay = u.overlay /\ f.runs = u.runs
  BY <1>4, LoadOffPaint
<1> HIDE DEF f
<1>7. Fields \subseteq DOMAIN v /\ v.sel = a /\ v.overlay = ui.overlay /\ v.runs = ui.runs
  BY <1>4, <1>5
<1> HIDE DEF v
<1>8. Painted(v) \/ Repaints(todo, v.sel)
  BY <1>3, <1>7 DEF PaintSound, Painted
<1> QED BY <1>1, <1>7, <1>8, PaintHandler

LEMMA StreetModeChangePaint ==
    ASSUME DataTyped(ui), PaintSound(ui), NEW mode, NEW hide, Data!StreetModeChange(mode, hide)
    PROVE  PaintSound(ui')
<1> DEFINE s == IF hide THEN NoMode ELSE mode
           u == Data!Acted([ui EXCEPT !.saved = s])
           Fields == {"sel", "overlay", "runs", "crossed"}
<1>1. PICK todo : ui' = Data!Handler(u, u.steps, todo, {})
  BY DEF Data!StreetModeChange
<1> HIDE DEF s
<1>2. Fields \subseteq DOMAIN u /\ u.sel = ui.sel /\ u.overlay = ui.overlay /\ u.runs = ui.runs
  BY DEF DataTyped, DataFields, PaintSound, Data!Acted
<1> HIDE DEF u
<1>3. Painted(u)
  BY <1>2 DEF PaintSound, Painted
<1> QED BY <1>1, <1>2, <1>3, PaintHandler

LEMMA FiltersAppliedPaint ==
    ASSUME DataTyped(ui), PaintSound(ui), NEW d, Data!FiltersApplied(d)
    PROVE  PaintSound(ui')
<1> DEFINE dead == {[r EXCEPT !.dead = @ \/ r.id = ui.ctl[r.key]] : r \in ui.net}
           c == [x \in Data!Keys |-> 0]
           u == Data!Acted([ui EXCEPT !.day = d, !.net = dead, !.ctl = c, !.answers = {}])
           wanted == {x \in StreetModes : u.info[x].vis /\ ~u.flag[x] /\ u.sel # NoArea}
           v == Data!FetchTrips(u)
           x == CHOOSE y \in wanted : TRUE
           f == [v.flag EXCEPT ![x] = TRUE]
           z == [v EXCEPT !.flag = f, !.failed = v.failed \ {x}]
           n == Data!Fetch(z, x, v.sel)
           w == IF wanted = {} THEN v ELSE n
           Fields == {"sel", "overlay", "runs", "crossed"}
           Same(b) == Fields \subseteq DOMAIN b /\ b.sel = ui.sel /\ b.overlay = ui.overlay /\ b.runs = ui.runs
<1>1. PICK wait : ui' = Data!Handler(w, u.steps, <<Data!Do("pass", NoArea)>>, wait)
  BY DEF Data!FiltersApplied
<1> HIDE DEF c, dead
<1>2. Same(u)
  BY DEF DataTyped, DataFields, PaintSound, Data!Acted
<1> HIDE DEF u, wanted
<1>5. Same(v)
  BY <1>2, LoadOffPaint
<1> HIDE DEF v
<1> HIDE DEF x, f
<1>6. Same(z)
  BY <1>5
<1> HIDE DEF z
<1>7. Same(n)
  BY <1>6, AskedOffPaint
<1> HIDE DEF n
<1>8. Same(w)
  BY <1>5, <1>7
<1> HIDE DEF w
<1>9. Painted(w)
  BY <1>8 DEF PaintSound, Painted
<1> QED BY <1>1, <1>8, <1>9, PaintHandler

LEMMA PaintKept ==
    ASSUME DataSound(ui), PaintSound(ui), Data!Next
    PROVE  PaintSound(ui')
<1>1. DataTyped(ui)
  BY DEF DataSound
<1>2. ASSUME Data!DecodeEnds PROVE PaintSound(ui')
  <2> DEFINE q == Tail(ui.queue)
             t == Head(ui.queue)
             w == [ui EXCEPT !.queue = q, !.trips = t]
  <2>1. ui' = w
    BY <1>2 DEF Data!DecodeEnds
  <2> HIDE DEF q, t
  <2>2. {"sel", "overlay"} \subseteq DOMAIN w /\ w.sel = ui.sel /\ w.overlay = ui.overlay /\ w.runs = ui.runs
    BY <1>1 DEF DataTyped, DataFields, PaintSound
  <2> HIDE DEF w
  <2> QED BY <2>1, <2>2, PaintAlike
<1>3. ASSUME Data!AnswerExpires PROVE PaintSound(ui')
  <2>1. PICK k : ui' = [ui EXCEPT !.answers = k]
    BY <1>3 DEF Data!AnswerExpires
  <2> DEFINE w == [ui EXCEPT !.answers = k]
  <2>2. {"sel", "overlay"} \subseteq DOMAIN w /\ w.sel = ui.sel /\ w.overlay = ui.overlay /\ w.runs = ui.runs
    BY <1>1 DEF DataTyped, DataFields, PaintSound
  <2> HIDE DEF w
  <2> QED BY <2>1, <2>2, PaintAlike DEF w
<1> QED BY <1>1, <1>2, <1>3, HandlerRunsPaint, SettlePaint, SelectLocationPaint, StreetModeChangePaint, FiltersAppliedPaint
        DEF Data!Next

LEMMA PaintStart ==
    ASSUME Data!Init
    PROVE  PaintSound(ui)
<1> PICK a \in {NoArea, CHOOSE x \in Areas : TRUE} \cap (Areas \cup {NoArea}) :
            ui = Data!FetchTrips([Data!Start EXCEPT !.sel = a, !.overlay = a, !.cache = {a} \ {NoArea}])
  BY DEF Data!Init
<1> DEFINE u == [Data!Start EXCEPT !.sel = a, !.overlay = a, !.cache = {a} \ {NoArea}]
           Fields == {"sel", "overlay", "runs", "crossed"}
<1>1. Fields \subseteq DOMAIN u /\ u.sel = a /\ u.overlay = a
  BY DEF Data!Start
<1>2. ui = Data!FetchTrips(u)
  OBVIOUS
<1> HIDE DEF u
<1>3. Fields \subseteq DOMAIN ui /\ ui.sel = a /\ ui.overlay = a
  BY <1>1, <1>2, LoadOffPaint
<1> QED BY <1>3 DEF PaintSound, Painted

LEMMA OverlayIsOfSelection ==
    ASSUME PaintSound(ui)
    PROVE  Data!OverlayOfSelection
BY DEF PaintSound, Painted, Data!OverlayOfSelection, Data!Settled

-----------------------------------------------------------------------------
(* The main map: the streets that are shown.                               *)

Doing(todo) == {todo[i] : i \in DOMAIN todo}
RefreshLast(todo) == \A i \in DOMAIN todo : todo[i].do = "refresh" => i = Len(todo)

StreetFields == {"sel", "saved", "info", "m", "net", "failed", "runs", "crossed"}
Wanted(u, x) == u.saved = x /\ u.sel # NoArea
Hides(D, x) == \E s \in D : s.do = "hide" /\ s.x = x
Shows(D, x) == \E s \in D : s.do = "refresh" \/ (s.do = "show" /\ s.x = x)
Reveals(D, x) == \E s \in D : s.do = "reveal" /\ s.x = x
InFlight(u, x) == \E r \in u.net : r.key = x

(* What a handler has before it: it shows the saved mode only, after the   *)
(* reset, and hides it only to show it again.                              *)
StepsFit(u, D) ==
    \A s \in D : /\ s.do = "show" => u.saved = s.x /\ \A t \in D : t.do # "reset"
                 /\ s.do = "reveal" => Wanted(u, s.x)
                 /\ s.do = "hide" /\ Wanted(u, s.x) => \E t \in D : t.do = "refresh"

(* A mode that is not wanted is off or about to be; the one that is wanted *)
(* has the streets of the selected area, or awaits them or what shows them.*)
ModeFits(u, D, x) ==
    /\ ~Wanted(u, x) => (~u.info[x].vis /\ ~u.m[x].vis) \/ Hides(D, x)
    /\ Wanted(u, x) => u.info[x].vis \/ Shows(D, x)
    /\ Wanted(u, x) => \/ x \in u.failed \/ InFlight(u, x) \/ Shows(D, x)
                       \/ u.m[x].area = u.sel /\ (u.m[x].vis \/ Reveals(D, x))

Fits(u, todo) ==
    /\ RefreshLast(todo) /\ StepsFit(u, Doing(todo))
    /\ \A x \in StreetModes : ModeFits(u, Doing(todo), x)

LayersTyped(u) ==
    /\ StreetFields \subseteq DOMAIN u
    /\ DOMAIN u.info = StreetModes /\ DOMAIN u.m = StreetModes
    /\ \A x \in StreetModes :
          /\ {"vis", "area"} \subseteq DOMAIN u.info[x] /\ {"vis", "area"} \subseteq DOMAIN u.m[x]
          /\ u.info[x].vis \in BOOLEAN /\ u.m[x].vis \in BOOLEAN
          /\ u.info[x].area # NoArea => u.m[x].area = u.info[x].area

StreetsSound(u) ==
    /\ LayersTyped(u)
    /\ ~u.crossed => /\ \A h \in u.runs : Fits(u, h.todo)
                     /\ u.runs = {} => Fits(u, << >>)

LEMMA DoingOfBoth ==
    ASSUME NEW p \in Seq(Steps), NEW q \in Seq(Steps)
    PROVE  /\ Doing(p \o q) = Doing(p) \cup Doing(q)
           /\ RefreshLast(q) /\ (\A s \in Doing(p) : s.do # "refresh") => RefreshLast(p \o q)
<1>1. /\ Len(p \o q) = Len(p) + Len(q) /\ Len(p) \in Nat /\ Len(q) \in Nat
      /\ DOMAIN p = 1..Len(p) /\ DOMAIN q = 1..Len(q) /\ DOMAIN (p \o q) = 1..(Len(p) + Len(q))
      /\ \A i \in 1..(Len(p) + Len(q)) : (p \o q)[i] = IF i <= Len(p) THEN p[i] ELSE q[i - Len(p)]
  OBVIOUS
<1> DEFINE r == p \o q
           n == Len(p)
           k == Len(q)
<1> HIDE DEF r, n, k
<1>2. /\ Len(r) = n + k /\ n \in Nat /\ k \in Nat /\ DOMAIN p = 1..n /\ DOMAIN q = 1..k /\ DOMAIN r = 1..(n + k)
      /\ \A i \in 1..(n + k) : r[i] = IF i <= n THEN p[i] ELSE q[i - n]
  BY <1>1 DEF r, n, k
<1>3. ASSUME NEW s \in Doing(r) PROVE s \in Doing(p) \cup Doing(q)
  <2> PICK i \in 1..(n + k) : s = r[i]
    BY <1>2 DEF Doing
  <2>1. CASE i <= n
    BY <1>2, <2>1 DEF Doing
  <2>2. CASE ~(i <= n)
    <3>1. i - n \in 1..k
      BY <1>2, <2>2
    <3> QED BY <1>2, <2>2, <3>1 DEF Doing
  <2> QED BY <2>1, <2>2
<1>4. ASSUME NEW s \in Doing(p) PROVE s \in Doing(r)
  <2> PICK i \in 1..n : s = p[i]
    BY <1>2 DEF Doing
  <2>1. i \in 1..(n + k) /\ r[i] = p[i]
    BY <1>2
  <2> QED BY <1>2, <2>1 DEF Doing
<1>5. ASSUME NEW s \in Doing(q) PROVE s \in Doing(r)
  <2> PICK i \in 1..k : s = q[i]
    BY <1>2 DEF Doing
  <2>1. i + n \in 1..(n + k) /\ r[i + n] = q[i]
    BY <1>2
  <2> QED BY <1>2, <2>1 DEF Doing
<1>6. ASSUME RefreshLast(q), \A s \in Doing(p) : s.do # "refresh", NEW i \in 1..(n + k), r[i].do = "refresh"
      PROVE  i = n + k
  <2>1. CASE i <= n
    BY <1>2, <1>6, <2>1 DEF Doing
  <2>2. CASE ~(i <= n)
    <3>1. i - n \in 1..k /\ r[i] = q[i - n]
      BY <1>2, <2>2
    <3>2. i - n = k
      BY <1>2, <1>6, <3>1 DEF RefreshLast, k
    <3> QED BY <1>2, <3>2
  <2> QED BY <2>1, <2>2
<1>7. Doing(r) = Doing(p) \cup Doing(q)
  BY <1>3, <1>4, <1>5
<1>8. RefreshLast(q) /\ (\A s \in Doing(p) : s.do # "refresh") => RefreshLast(r)
  BY <1>2, <1>6 DEF RefreshLast
<1> QED BY <1>7, <1>8 DEF r

LEMMA DoingLeft ==
    ASSUME NEW todo \in Seq(Steps), todo # << >>, RefreshLast(todo)
    PROVE  LET rest == Tail(todo) IN
           /\ Doing(todo) = {Head(todo)} \cup Doing(rest)
           /\ RefreshLast(rest) /\ (Head(todo).do = "refresh" => rest = << >>)
           /\ \A s \in Steps : /\ Doing(<<s>> \o rest) = {s} \cup Doing(rest)
                               /\ s.do # "refresh" => RefreshLast(<<s>> \o rest)
           /\ \A s, t \in Steps : /\ Doing(<<s, t>> \o rest) = {s, t} \cup Doing(rest)
                                  /\ s.do # "refresh" /\ t.do # "refresh" => RefreshLast(<<s, t>> \o rest)
<1> DEFINE rest == Tail(todo)
<1>1. /\ rest \in Seq(Steps) /\ DOMAIN todo = 1..Len(todo) /\ DOMAIN rest = 1..Len(rest) /\ Len(todo) \in Nat
      /\ Len(rest) = Len(todo) - 1 /\ Len(todo) # 0 /\ Head(todo) = todo[1] /\ Head(todo) \in Steps
      /\ \A i \in 1..Len(rest) : rest[i] = todo[i + 1]
  OBVIOUS
<1> HIDE DEF rest
<1>2. \A s \in Doing(todo) : s = Head(todo) \/ s \in Doing(rest)
  <2> TAKE s \in Doing(todo)
  <2> PICK i \in 1..Len(todo) : s = todo[i]
    BY <1>1 DEF Doing
  <2>1. CASE i = 1
    BY <1>1, <2>1
  <2>2. CASE i # 1
    <3>1. i - 1 \in 1..Len(rest) /\ rest[i - 1] = todo[i]
      BY <1>1, <2>2
    <3> QED BY <1>1, <3>1 DEF Doing
  <2> QED BY <2>1, <2>2
<1>3. \A s \in Doing(rest) : s \in Doing(todo)
  <2> TAKE s \in Doing(rest)
  <2> PICK i \in 1..Len(rest) : s = rest[i]
    BY <1>1 DEF Doing
  <2>1. i + 1 \in 1..Len(todo) /\ s = todo[i + 1]
    BY <1>1
  <2> QED BY <1>1, <2>1 DEF Doing
<1>4. Head(todo) \in Doing(todo)
  <2>1. 1 \in DOMAIN todo
    BY <1>1
  <2> QED BY <1>1, <2>1 DEF Doing
<1>5. RefreshLast(rest)
  <2> SUFFICES ASSUME NEW i \in 1..Len(rest), rest[i].do = "refresh" PROVE i = Len(rest)
    BY <1>1 DEF RefreshLast
  <2>1. i + 1 \in 1..Len(todo) /\ todo[i + 1].do = "refresh"
    BY <1>1
  <2>2. i + 1 = Len(todo)
    BY <1>1, <2>1 DEF RefreshLast
  <2>3. Len(rest) = Len(todo) - 1 /\ Len(todo) \in Nat /\ i \in Int
    BY <1>1
  <2> QED BY <2>2, <2>3
<1>6. ASSUME Head(todo).do = "refresh" PROVE rest = << >>
  <2>1. 1 = Len(todo)
    BY <1>1, <1>6 DEF RefreshLast
  <2>2. Len(rest) = 0
    BY <1>1, <2>1
  <2> QED BY <1>1, <2>2
<1>7. ASSUME NEW s \in Steps
      PROVE  /\ Doing(<<s>> \o rest) = {s} \cup Doing(rest)
             /\ s.do # "refresh" => RefreshLast(<<s>> \o rest)
  <2>1. <<s>> \in Seq(Steps) /\ Doing(<<s>>) = {s}
    BY DEF Doing
  <2> QED BY <1>1, <1>5, <2>1, DoingOfBoth
<1>8. ASSUME NEW s \in Steps, NEW t \in Steps
      PROVE  /\ Doing(<<s, t>> \o rest) = {s, t} \cup Doing(rest)
             /\ s.do # "refresh" /\ t.do # "refresh" => RefreshLast(<<s, t>> \o rest)
  <2>1. DOMAIN <<s, t>> = {1, 2} /\ <<s, t>>[1] = s /\ <<s, t>>[2] = t
    OBVIOUS
  <2>2. <<s, t>> \in Seq(Steps) /\ Doing(<<s, t>>) = {s, t}
    <3>1. Doing(<<s, t>>) = {s, t}
      BY <2>1 DEF Doing
    <3> QED BY <3>1
  <2> QED BY <1>1, <1>5, <2>2, DoingOfBoth
<1> QED BY <1>2, <1>3, <1>4, <1>5, <1>6, <1>7, <1>8 DEF rest

(* What the checks on the streets look at.                                 *)
LEMMA StreetsThen ==
    ASSUME NEW v, LayersTyped(v), NEW h \in v.runs, {"todo", "wait"} \subseteq DOMAIN h, NEW steps, NEW wait,
           ~v.crossed => (\A g \in v.runs : g = h) /\ Fits(v, steps)
    PROVE  StreetsSound(Data!Then(v, h, steps, wait))
<1> DEFINE g == [h EXCEPT !.todo = steps, !.wait = wait]
           left == IF steps = << >> /\ wait = {} THEN {} ELSE {g}
           rs == (v.runs \ {h}) \cup left
           w == [v EXCEPT !.runs = rs]
<1>1. Data!Then(v, h, steps, wait) = w
  BY DEF Data!Then
<1>2. g.todo = steps
  OBVIOUS
<1> HIDE DEF g
<1>3. ~v.crossed => rs = left
  OBVIOUS
<1>4. left = {} => steps = << >>
  OBVIOUS
<1>5. \A x \in left : x = g
  OBVIOUS
<1> HIDE DEF rs, left
<1>6. /\ StreetFields \subseteq DOMAIN w /\ w.sel = v.sel /\ w.saved = v.saved /\ w.info = v.info /\ w.m = v.m
      /\ w.net = v.net /\ w.failed = v.failed /\ w.crossed = v.crossed /\ w.runs = rs
  BY DEF LayersTyped, StreetFields
<1> HIDE DEF w
<1>7. LayersTyped(w)
  BY <1>6 DEF LayersTyped
<1>8. \A D, x : Wanted(w, x) = Wanted(v, x) /\ InFlight(w, x) = InFlight(v, x)
  BY <1>6 DEF Wanted, InFlight
<1>9. \A D : StepsFit(v, D) => StepsFit(w, D)
  BY <1>6, <1>8 DEF StepsFit
<1>10. \A D, x : ModeFits(v, D, x) => ModeFits(w, D, x)
  BY <1>6, <1>8 DEF ModeFits
<1>11. Fits(v, steps) => Fits(w, steps)
  BY <1>9, <1>10 DEF Fits
<1>12. StreetsSound(w)
  BY <1>2, <1>3, <1>4, <1>5, <1>6, <1>7, <1>11 DEF StreetsSound
<1> QED BY <1>1, <1>12

LEMMA StreetsHandler ==
    ASSUME NEW v, LayersTyped(v), NEW id, NEW todo, NEW wait, v.crossed \in BOOLEAN,
           ~v.crossed /\ v.runs = {} => Fits(v, todo)
    PROVE  StreetsSound(Data!Handler(v, id, todo, wait))
<1> DEFINE g == [id |-> id, todo |-> todo, wait |-> wait, ok |-> TRUE]
           rs == v.runs \cup {g}
           c == v.crossed \/ v.runs # {}
           w == [v EXCEPT !.runs = rs, !.crossed = c]
<1>1. Data!Handler(v, id, todo, wait) = w
  BY DEF Data!Handler
<1>2. g.todo = todo
  OBVIOUS
<1>3. ~c => ~v.crossed /\ v.runs = {}
  OBVIOUS
<1> HIDE DEF g, c
<1>4. rs # {} /\ (v.runs = {} => \A x \in rs : x = g)
  OBVIOUS
<1> HIDE DEF rs
<1>6. /\ StreetFields \subseteq DOMAIN w /\ w.sel = v.sel /\ w.saved = v.saved /\ w.info = v.info /\ w.m = v.m
      /\ w.net = v.net /\ w.failed = v.failed /\ w.crossed = c /\ w.runs = rs
  BY DEF LayersTyped, StreetFields
<1> HIDE DEF w
<1>7. LayersTyped(w)
  BY <1>6 DEF LayersTyped
<1>8. \A D, x : Wanted(w, x) = Wanted(v, x) /\ InFlight(w, x) = InFlight(v, x)
  BY <1>6 DEF Wanted, InFlight
<1>9. \A D : StepsFit(v, D) => StepsFit(w, D)
  BY <1>6, <1>8 DEF StepsFit
<1>10. \A D, x : ModeFits(v, D, x) => ModeFits(w, D, x)
  BY <1>6, <1>8 DEF ModeFits
<1>11. Fits(v, todo) => Fits(w, todo)
  BY <1>9, <1>10 DEF Fits
<1>12. StreetsSound(w)
  BY <1>2, <1>3, <1>4, <1>6, <1>7, <1>11 DEF StreetsSound
<1> QED BY <1>1, <1>12

(* A request is asked for: the others stay, dead or not.                   *)
LEMMA AskedOffStreets ==
    ASSUME NEW u, LayersTyped(u), NEW key, NEW area, \A r \in u.net : {"id", "key", "dead"} \subseteq DOMAIN r
    PROVE  LET v == Data!Fetch(u, key, area) IN
           /\ LayersTyped(v) /\ \A f \in StreetFields \ {"net"} : v[f] = u[f]
           /\ InFlight(v, key) /\ \A x : InFlight(u, x) => InFlight(v, x)
           /\ \A r \in v.net : {"id", "key", "dead"} \subseteq DOMAIN r
<1> DEFINE n == [id |-> u.last + 1, key |-> key, area |-> area, day |-> u.day, dead |-> FALSE]
           Kept(r) == IF r.id = u.ctl[key] THEN [r EXCEPT !.dead = TRUE] ELSE r
           k == {Kept(r) : r \in u.net}
           c == [u.ctl EXCEPT ![key] = u.last + 1]
           v == [u EXCEPT !.last = u.last + 1, !.ctl = c, !.net = k \cup {n}]
<1>1. Data!Fetch(u, key, area) = v
  BY DEF Data!Fetch
<1>2. n.key = key /\ {"id", "key", "dead"} \subseteq DOMAIN n
  OBVIOUS
<1>3. \A r \in u.net : Kept(r).key = r.key /\ {"id", "key", "dead"} \subseteq DOMAIN Kept(r)
  OBVIOUS
<1> HIDE DEF n, Kept, c
<1>4. \A r \in u.net : Kept(r) \in k
  OBVIOUS
<1>9. \A r \in k \cup {n} : {"id", "key", "dead"} \subseteq DOMAIN r
  BY <1>2, <1>3
<1>5. /\ StreetFields \subseteq DOMAIN v /\ v.net = k \cup {n} /\ \A f \in StreetFields \ {"net"} : v[f] = u[f]
  BY DEF LayersTyped, StreetFields
<1>6. v.info = u.info /\ v.m = u.m
  BY <1>5 DEF StreetFields
<1> HIDE DEF v, k
<1>7. LayersTyped(v)
  BY <1>5, <1>6 DEF LayersTyped
<1>8. InFlight(v, key) /\ \A x : InFlight(u, x) => InFlight(v, x)
  BY <1>2, <1>3, <1>4, <1>5 DEF InFlight
<1> QED BY <1>1, <1>5, <1>7, <1>8, <1>9

(* The same of the trips, asked for or kept.                               *)
LEMMA LoadOffStreets ==
    ASSUME NEW u, LayersTyped(u), \A r \in u.net : {"id", "key", "dead"} \subseteq DOMAIN r
    PROVE  LET v == Data!FetchTrips(u) IN
           /\ LayersTyped(v) /\ \A f \in StreetFields \ {"net"} : v[f] = u[f]
           /\ \A x : InFlight(u, x) => InFlight(v, x)
           /\ \A r \in v.net : {"id", "key", "dead"} \subseteq DOMAIN r
<1> DEFINE v(o) == [u EXCEPT !.stale = FALSE, !.unowned = o]
           w(o, q) == [v(o) EXCEPT !.queue = q]
           z(o) == Data!Fetch(v(o), "trips", Data!Clipped(u.sel))
<1>1. PICK o, q : Data!FetchTrips(u) \in {w(o, q), z(o)}
  BY TripsForm
<1>2. /\ StreetFields \subseteq DOMAIN v(o) /\ \A f \in StreetFields : v(o)[f] = u[f]
      /\ StreetFields \subseteq DOMAIN w(o, q) /\ \A f \in StreetFields : w(o, q)[f] = u[f]
  BY DEF LayersTyped, StreetFields
<1>3. v(o).net = u.net /\ w(o, q).net = u.net /\ v(o).info = u.info /\ v(o).m = u.m /\ w(o, q).info = u.info /\ w(o, q).m = u.m
  BY <1>2 DEF StreetFields
<1> HIDE DEF v, w
<1>4. LayersTyped(v(o)) /\ LayersTyped(w(o, q))
  BY <1>2, <1>3 DEF LayersTyped
<1>5. \A x : InFlight(v(o), x) = InFlight(u, x) /\ InFlight(w(o, q), x) = InFlight(u, x)
  BY <1>3 DEF InFlight
<1>6. /\ LayersTyped(z(o)) /\ \A f \in StreetFields \ {"net"} : z(o)[f] = v(o)[f]
      /\ \A x : InFlight(v(o), x) => InFlight(z(o), x)
      /\ \A r \in z(o).net : {"id", "key", "dead"} \subseteq DOMAIN r
  BY <1>3, <1>4, AskedOffStreets
<1> HIDE DEF z
<1> QED BY <1>1, <1>2, <1>3, <1>4, <1>5, <1>6

(* Streets that arrive, or that were kept, go to the layer of their mode.  *)
LEMMA DrawnStreets ==
    ASSUME NEW u, LayersTyped(u), NEW mode \in StreetModes, NEW area
    PROVE  LET v == Data!DrawStreets(u, mode, area) IN
           /\ LayersTyped(v) /\ \A f \in StreetFields \ {"info", "m"} : v[f] = u[f]
           /\ v.m[mode].area = area /\ v.m[mode].vis = u.info[mode].vis
           /\ \A x \in StreetModes : v.info[x].vis = u.info[x].vis
           /\ \A x \in StreetModes : x # mode => v.info[x] = u.info[x] /\ v.m[x] = u.m[x]
<1> DEFINE i == [u.info EXCEPT ![mode].area = area]
           l == [vis |-> u.info[mode].vis, area |-> area]
           m == [u.m EXCEPT ![mode] = l]
           v == [u EXCEPT !.info = i, !.m = m]
<1>1. Data!DrawStreets(u, mode, area) = v
  BY DEF Data!DrawStreets
<1>2. /\ DOMAIN i = StreetModes /\ i[mode].area = area
      /\ \A x \in StreetModes : /\ {"vis", "area"} \subseteq DOMAIN i[x] /\ i[x].vis = u.info[x].vis
                                /\ x # mode => i[x] = u.info[x]
  BY DEF LayersTyped
<1>3. {"vis", "area"} \subseteq DOMAIN l /\ l.vis = u.info[mode].vis /\ l.area = area
  OBVIOUS
<1> HIDE DEF i, l
<1>4. DOMAIN m = StreetModes /\ m[mode] = l /\ \A x \in StreetModes : x # mode => m[x] = u.m[x]
  BY DEF LayersTyped
<1> HIDE DEF m
<1>5. StreetFields \subseteq DOMAIN v /\ v.info = i /\ v.m = m /\ \A f \in StreetFields \ {"info", "m"} : v[f] = u[f]
  BY DEF LayersTyped, StreetFields
<1> HIDE DEF v
<1>6. \A x \in StreetModes :
         /\ {"vis", "area"} \subseteq DOMAIN u.info[x] /\ {"vis", "area"} \subseteq DOMAIN u.m[x]
         /\ u.info[x].vis \in BOOLEAN /\ u.m[x].vis \in BOOLEAN
         /\ u.info[x].area # NoArea => u.m[x].area = u.info[x].area
  BY DEF LayersTyped
<1>7. \A x \in StreetModes :
         /\ {"vis", "area"} \subseteq DOMAIN i[x] /\ {"vis", "area"} \subseteq DOMAIN m[x]
         /\ i[x].vis \in BOOLEAN /\ m[x].vis \in BOOLEAN
         /\ i[x].area # NoArea => m[x].area = i[x].area
  BY <1>2, <1>3, <1>4, <1>6
<1>8. LayersTyped(v)
  BY <1>2, <1>4, <1>5, <1>7 DEF LayersTyped
<1> QED BY <1>1, <1>2, <1>3, <1>4, <1>5, <1>8

(* A step on its own handler, as the check on the streets sees it: the     *)
(* steps before it are {s} with those that are left.                       *)
LEMMA HideFits ==
    ASSUME NEW u, NEW v, NEW E, NEW s, NEW t, s.do = "hide", t.do = "sync", StepsFit(u, {s} \cup E),
           v.sel = u.sel, v.saved = u.saved, v.net = u.net, v.failed = u.failed,
           \A x \in StreetModes : /\ x = s.x => ~v.info[x].vis /\ ~v.m[x].vis
                                  /\ x # s.x => v.info[x] = u.info[x] /\ v.m[x] = u.m[x],
           \A x \in StreetModes : ModeFits(u, {s} \cup E, x)
    PROVE  StepsFit(v, {t} \cup E) /\ \A x \in StreetModes : ModeFits(v, {t} \cup E, x)
<1>1. \A x : Wanted(v, x) = Wanted(u, x) /\ InFlight(v, x) = InFlight(u, x)
  BY DEF Wanted, InFlight
<1>2. StepsFit(v, {t} \cup E)
  BY <1>1 DEF StepsFit
<1>3. ASSUME NEW x \in StreetModes PROVE ModeFits(v, {t} \cup E, x)
  <2>1. CASE x = s.x
    <3>1. Wanted(v, x) => Shows({t} \cup E, x)
      BY <1>1, <2>1 DEF StepsFit, Shows
    <3> QED BY <2>1, <3>1 DEF ModeFits
  <2>2. CASE x # s.x
    <3>1. /\ Hides({s} \cup E, x) => Hides({t} \cup E, x)
          /\ Shows({s} \cup E, x) => Shows({t} \cup E, x)
          /\ Reveals({s} \cup E, x) => Reveals({t} \cup E, x)
      BY <2>2 DEF Hides, Shows, Reveals
    <3>2. ModeFits(u, {s} \cup E, x)
      OBVIOUS
    <3> QED BY <1>1, <2>2, <3>1, <3>2 DEF ModeFits
  <2> QED BY <2>1, <2>2
<1> QED BY <1>2, <1>3

(* A step after which the layers are as they were.                         *)
LEMMA SameFits ==
    ASSUME NEW u, NEW v, NEW E, NEW s, NEW F, StepsFit(u, {s} \cup E),
           s.do \in {"sync", "draw", "reset"} \/ (s.do = "show" /\ u.sel = NoArea),
           E \subseteq F, \A t \in F \ E : t.do = "draw",
           v.sel = u.sel, v.saved = u.saved, v.failed = u.failed,
           \A x \in StreetModes : v.info[x].vis = u.info[x].vis /\ v.m[x] = u.m[x],
           \A x : InFlight(u, x) => InFlight(v, x),
           \A x \in StreetModes : ModeFits(u, {s} \cup E, x)
    PROVE  StepsFit(v, F) /\ \A x \in StreetModes : ModeFits(v, F, x)
<1>1. \A x : Wanted(v, x) = Wanted(u, x)
  BY DEF Wanted
<1>2. StepsFit(v, F)
  <2> SUFFICES ASSUME NEW q \in F
               PROVE  /\ q.do = "show" => v.saved = q.x /\ \A t \in F : t.do # "reset"
                      /\ q.do = "reveal" => Wanted(v, q.x)
                      /\ q.do = "hide" /\ Wanted(v, q.x) => \E t \in F : t.do = "refresh"
    BY DEF StepsFit
  <2>1. CASE q \in E
    <3>1. /\ q.do = "show" => u.saved = q.x /\ \A t \in {s} \cup E : t.do # "reset"
          /\ q.do = "reveal" => Wanted(u, q.x)
          /\ q.do = "hide" /\ Wanted(u, q.x) => \E t \in {s} \cup E : t.do = "refresh"
      BY <2>1 DEF StepsFit
    <3>2. \A t \in F : t \in E \/ t.do = "draw"
      OBVIOUS
    <3>3. s.do # "refresh"
      OBVIOUS
    <3>4. (\E t \in {s} \cup E : t.do = "refresh") => \E t \in F : t.do = "refresh"
      BY <3>3
    <3> QED BY <1>1, <3>1, <3>2, <3>4
  <2>2. CASE q \notin E
    BY <2>2
  <2> QED BY <2>1, <2>2
<1>3. ASSUME NEW x \in StreetModes PROVE ModeFits(v, F, x)
  <2>1. /\ Hides({s} \cup E, x) => Hides(F, x)
        /\ Reveals({s} \cup E, x) => Reveals(F, x)
        /\ Wanted(u, x) /\ Shows({s} \cup E, x) => Shows(F, x)
    BY DEF Hides, Shows, Reveals, Wanted
  <2>2. ModeFits(u, {s} \cup E, x)
    OBVIOUS
  <2> QED BY <1>1, <2>1, <2>2 DEF ModeFits
<1> QED BY <1>2, <1>3

(* The saved mode of a selected area is shown: its streets are there, or   *)
(* were just asked for.                                                    *)
LEMMA ShowFits ==
    ASSUME NEW u, NEW v, NEW E, NEW s, NEW q, NEW t, s.do = "show", u.sel # NoArea,
           q.do = "reveal", q.x = s.x, t.do = "sync", StepsFit(u, {s} \cup E),
           v.sel = u.sel, v.saved = u.saved,
           \A x \in StreetModes : x = s.x => v.info[x].vis,
           \A x \in StreetModes : x # s.x => v.info[x] = u.info[x] /\ v.m[x] = u.m[x],
           v.m[s.x].area = u.sel \/ InFlight(v, s.x),
           \A x \in StreetModes : ModeFits(u, {s} \cup E, x)
    PROVE  StepsFit(v, {q, t} \cup E) /\ \A x \in StreetModes : ModeFits(v, {q, t} \cup E, x)
<1>1. \A x : Wanted(v, x) = Wanted(u, x)
  BY DEF Wanted
<1>2. Wanted(u, s.x) /\ \A x \in {s} \cup E : x.do # "reset"
  BY DEF StepsFit, Wanted
<1>3. StepsFit(v, {q, t} \cup E)
  <2> SUFFICES ASSUME NEW p \in {q, t} \cup E
               PROVE  /\ p.do = "show" => v.saved = p.x /\ \A r \in {q, t} \cup E : r.do # "reset"
                      /\ p.do = "reveal" => Wanted(v, p.x)
                      /\ p.do = "hide" /\ Wanted(v, p.x) => \E r \in {q, t} \cup E : r.do = "refresh"
    BY DEF StepsFit
  <2>1. CASE p \in E
    <3>1. /\ p.do = "show" => u.saved = p.x
          /\ p.do = "reveal" => Wanted(u, p.x)
          /\ p.do = "hide" /\ Wanted(u, p.x) => \E r \in {s} \cup E : r.do = "refresh"
      BY <2>1 DEF StepsFit
    <3> QED BY <1>1, <1>2, <3>1
  <2>2. CASE p \notin E
    BY <1>1, <1>2, <2>2
  <2> QED BY <2>1, <2>2
<1>4. ASSUME NEW x \in StreetModes PROVE ModeFits(v, {q, t} \cup E, x)
  <2>1. CASE x = s.x
    <3>1. Reveals({q, t} \cup E, x)
      BY <2>1 DEF Reveals
    <3> QED BY <1>1, <1>2, <2>1, <3>1 DEF ModeFits
  <2>2. CASE x # s.x
    <3>1. ~Wanted(u, x)
      BY <1>2, <2>2 DEF Wanted
    <3>2. Hides({s} \cup E, x) => Hides({q, t} \cup E, x)
      BY DEF Hides
    <3>3. ModeFits(u, {s} \cup E, x)
      OBVIOUS
    <3> QED BY <1>1, <2>2, <3>1, <3>2, <3>3 DEF ModeFits
  <2> QED BY <2>1, <2>2
<1> QED BY <1>3, <1>4

LEMMA RevealFits ==
    ASSUME NEW u, NEW v, NEW E, NEW s, s.do = "reveal", StepsFit(u, {s} \cup E),
           v.sel = u.sel, v.saved = u.saved, v.failed = u.failed, v.net = u.net, v.info = u.info,
           \A x \in StreetModes : v.m[x].area = u.m[x].area,
           \A x \in StreetModes : x = s.x => v.m[x].vis = (u.m[x].area # NoArea),
           \A x \in StreetModes : x # s.x => v.m[x].vis = u.m[x].vis,
           \A x \in StreetModes : ModeFits(u, {s} \cup E, x)
    PROVE  StepsFit(v, E) /\ \A x \in StreetModes : ModeFits(v, E, x)
<1>1. \A x : Wanted(v, x) = Wanted(u, x) /\ InFlight(v, x) = InFlight(u, x)
  BY DEF Wanted, InFlight
<1>2. Wanted(u, s.x)
  BY DEF StepsFit
<1>3. StepsFit(v, E)
  BY <1>1 DEF StepsFit
<1>4. ASSUME NEW x \in StreetModes PROVE ModeFits(v, E, x)
  <2>1. /\ Hides({s} \cup E, x) => Hides(E, x)
        /\ Shows({s} \cup E, x) => Shows(E, x)
        /\ x # s.x /\ Reveals({s} \cup E, x) => Reveals(E, x)
    BY DEF Hides, Shows, Reveals
  <2>2. ModeFits(u, {s} \cup E, x)
    OBVIOUS
  <2>3. CASE x = s.x
    <3>1. Wanted(u, x) /\ u.sel # NoArea
      BY <1>2, <2>3 DEF Wanted
    <3>2. u.m[x].area = u.sel => v.m[x].vis
      BY <2>3, <3>1
    <3> QED BY <1>1, <2>1, <2>2, <3>1, <3>2 DEF ModeFits
  <2>4. CASE x # s.x
    BY <1>1, <2>1, <2>2, <2>4 DEF ModeFits
  <2> QED BY <2>3, <2>4
<1> QED BY <1>3, <1>4

(* The last frame of an update.                                            *)
LEMMA PassFits ==
    ASSUME NEW u, NEW v, NEW E, NEW s, s.do = "pass", StepsFit(u, {s} \cup E),
           v.sel = u.sel, v.saved = u.saved, v.failed = u.failed, v.net = u.net, v.info = u.info,
           \A x \in StreetModes : v.m[x].area = u.m[x].area,
           \A x \in StreetModes : v.m[x].vis = u.m[x].vis \/ v.m[x].vis = u.info[x].vis,
           \A x \in StreetModes : ModeFits(u, {s} \cup E, x)
    PROVE  StepsFit(v, E) /\ \A x \in StreetModes : ModeFits(v, E, x)
<1>1. \A x : Wanted(v, x) = Wanted(u, x) /\ InFlight(v, x) = InFlight(u, x)
  BY DEF Wanted, InFlight
<1>3. StepsFit(v, E)
  BY <1>1 DEF StepsFit
<1>4. ASSUME NEW x \in StreetModes PROVE ModeFits(v, E, x)
  <2>1. /\ Hides({s} \cup E, x) => Hides(E, x)
        /\ Shows({s} \cup E, x) => Shows(E, x)
        /\ Reveals({s} \cup E, x) => Reveals(E, x)
    BY DEF Hides, Shows, Reveals
  <2>2. ModeFits(u, {s} \cup E, x)
    OBVIOUS
  <2> QED BY <1>1, <2>1, <2>2 DEF ModeFits
<1> QED BY <1>3, <1>4

(* The refresh is the last step: the saved mode is to be shown.            *)
LEMMA RefreshFits ==
    ASSUME NEW u, NEW s, NEW F, s.do = "refresh", u.saved \in StreetModes \cup {NoMode},
           F = IF u.saved = NoMode THEN {} ELSE {Data!Do("show", u.saved)},
           \A x \in StreetModes : ModeFits(u, {s}, x)
    PROVE  StepsFit(u, F) /\ \A x \in StreetModes : ModeFits(u, F, x)
<1>1. \A t \in F : t.do = "show" /\ t.x = u.saved
  BY DEF Data!Do
<1>2. StepsFit(u, F)
  BY <1>1 DEF StepsFit
<1>3. ASSUME NEW x \in StreetModes PROVE ModeFits(u, F, x)
  <2>1. ~Hides({s}, x)
    BY DEF Hides
  <2>2. Wanted(u, x) => Shows(F, x)
    BY <1>1, StreetsAssumption DEF Wanted, Shows
  <2>3. ModeFits(u, {s}, x)
    OBVIOUS
  <2> QED BY <2>1, <2>2, <2>3 DEF ModeFits
<1> QED BY <1>2, <1>3

LEMMA HandlerRunsStreets ==
    ASSUME DataSound(ui), StreetsSound(ui), Data!HandlerRuns
    PROVE  StreetsSound(ui')
<1> PICK h \in ui.runs :
        /\ h.wait = {}
        /\ IF h.todo = << >> THEN ui' = Data!Then(ui, h, << >>, {})
           ELSE LET s == Head(h.todo)  rest == Tail(h.todo) IN
                ui' = CASE s.do = "hide"    -> Data!Hide(ui, h, s.x, rest)
                        [] s.do = "show"    -> Data!Show(ui, h, s.x, rest)
                        [] s.do = "reveal"  -> Data!Reveal(ui, h, s.x, rest)
                        [] s.do = "sync"    -> Data!Sync(ui, h, rest)
                        [] s.do = "draw"    -> Data!Draw(ui, h, s.x, rest)
                        [] s.do = "reset"   -> Data!ResetStreetCache(ui, h, rest)
                        [] s.do = "refresh" -> Data!RefreshStreetLayers(ui, h, rest)
                        [] s.do = "pass"    -> Data!VisibilityPass(ui, h, rest)
  BY DEF Data!HandlerRuns
<1>1. /\ StreetFields \subseteq DOMAIN ui /\ {"todo", "wait"} \subseteq DOMAIN h /\ LayersTyped(ui)
      /\ h.todo \in Seq(Steps) /\ ui.sel \in Areas \cup {NoArea} /\ ui.saved \in StreetModes \cup {NoMode}
      /\ \A r \in ui.net : {"id", "key", "dead"} \subseteq DOMAIN r
  BY DEF DataSound, DataTyped, RequestFields, StreetsSound, LayersTyped
<1>2. /\ DOMAIN ui.info = StreetModes /\ DOMAIN ui.m = StreetModes
      /\ \A x \in StreetModes :
            /\ {"vis", "area"} \subseteq DOMAIN ui.info[x] /\ {"vis", "area"} \subseteq DOMAIN ui.m[x]
            /\ ui.info[x].vis \in BOOLEAN /\ ui.m[x].vis \in BOOLEAN
            /\ ui.info[x].area # NoArea => ui.m[x].area = ui.info[x].area
  BY <1>1 DEF LayersTyped
<1>3. ~ui.crossed => /\ \A g \in ui.runs : g = h
                     /\ Fits(ui, h.todo)
                     /\ \A x \in StreetModes : ui.flag[x] =>
                           ui.sel = NoArea \/ ui.info[x].area = ui.sel \/ ResetAhead(h.todo)
  BY NothingAsked DEF StreetsSound
<1>4. CASE h.todo = << >>
  BY <1>1, <1>3, <1>4, StreetsThen
<1>5. CASE h.todo # << >>
  <2> DEFINE s == Head(h.todo)
             rest == Tail(h.todo)
             E == Doing(rest)
             D == {s} \cup E
  <2>1. s \in Steps /\ rest \in Seq(Steps)
    BY <1>1, <1>5, ResetStaysAhead
  <2>2. ~ui.crossed =>
           /\ StepsFit(ui, D) /\ \A x \in StreetModes : ModeFits(ui, D, x)
           /\ Doing(h.todo) = D /\ RefreshLast(rest) /\ (s.do = "refresh" => rest = << >>)
           /\ \A t \in Steps : /\ Doing(<<t>> \o rest) = {t} \cup E
                               /\ t.do # "refresh" => RefreshLast(<<t>> \o rest)
           /\ \A q, t \in Steps : /\ Doing(<<q, t>> \o rest) = {q, t} \cup E
                                  /\ q.do # "refresh" /\ t.do # "refresh" => RefreshLast(<<q, t>> \o rest)
    <3> SUFFICES ASSUME ~ui.crossed
                 PROVE  /\ StepsFit(ui, D) /\ \A x \in StreetModes : ModeFits(ui, D, x)
                        /\ Doing(h.todo) = D /\ RefreshLast(rest) /\ (s.do = "refresh" => rest = << >>)
                        /\ \A t \in Steps : /\ Doing(<<t>> \o rest) = {t} \cup E
                                            /\ t.do # "refresh" => RefreshLast(<<t>> \o rest)
                        /\ \A q, t \in Steps : /\ Doing(<<q, t>> \o rest) = {q, t} \cup E
                                               /\ q.do # "refresh" /\ t.do # "refresh" => RefreshLast(<<q, t>> \o rest)
      OBVIOUS
    <3>1. RefreshLast(h.todo) /\ StepsFit(ui, Doing(h.todo)) /\ \A x \in StreetModes : ModeFits(ui, Doing(h.todo), x)
      BY <1>3 DEF Fits
    <3>2. /\ Doing(h.todo) = D /\ RefreshLast(rest) /\ (s.do = "refresh" => rest = << >>)
          /\ \A t \in Steps : /\ Doing(<<t>> \o rest) = {t} \cup E
                              /\ t.do # "refresh" => RefreshLast(<<t>> \o rest)
          /\ \A q, t \in Steps : /\ Doing(<<q, t>> \o rest) = {q, t} \cup E
                                 /\ q.do # "refresh" /\ t.do # "refresh" => RefreshLast(<<q, t>> \o rest)
      BY <1>1, <1>5, <3>1, DoingLeft
    <3> QED BY <3>1, <3>2
  <2>3. /\ Data!Do("sync", NoArea) \in Steps /\ Data!Do("sync", NoArea).do = "sync"
        /\ Data!Do("draw", ui.sel) \in Steps /\ Data!Do("draw", ui.sel).do = "draw"
        /\ \A x \in StreetModes : /\ Data!Do("reveal", x) \in Steps /\ Data!Do("reveal", x).do = "reveal"
                                  /\ Data!Do("reveal", x).x = x
                                  /\ Data!Do("show", x) \in Steps /\ Data!Do("show", x).do = "show"
    BY <1>1 DEF Data!Do, Data!Step, Steps
  <2>4. ui' = CASE s.do = "hide"    -> Data!Hide(ui, h, s.x, rest)
                [] s.do = "show"    -> Data!Show(ui, h, s.x, rest)
                [] s.do = "reveal"  -> Data!Reveal(ui, h, s.x, rest)
                [] s.do = "sync"    -> Data!Sync(ui, h, rest)
                [] s.do = "draw"    -> Data!Draw(ui, h, s.x, rest)
                [] s.do = "reset"   -> Data!ResetStreetCache(ui, h, rest)
                [] s.do = "refresh" -> Data!RefreshStreetLayers(ui, h, rest)
                [] s.do = "pass"    -> Data!VisibilityPass(ui, h, rest)
    BY <1>5
  <2>5. s.do \in {"hide", "show", "reveal", "sync", "draw", "reset", "refresh", "pass"}
        /\ (s.do = "show" => s.x \in StreetModes)
    BY <2>1 DEF Steps, Data!Step
  <2>6. s.do = "show" /\ ~ui.crossed => ~ResetAhead(h.todo)
    BY <2>2 DEF StepsFit, ResetAhead, Doing
  <2> HIDE DEF s, rest, E
  <2>7. CASE s.do = "hide"
    <3> DEFINE i == [ui.info EXCEPT ![s.x].vis = FALSE]
               m == [ui.m EXCEPT ![s.x].vis = FALSE]
               v == [ui EXCEPT !.info = i, !.m = m]
               t == Data!Do("sync", NoArea)
               steps == <<t>> \o rest
    <3>1. ui' = Data!Then(v, h, steps, {})
      BY <2>4, <2>7 DEF Data!Hide
    <3>2. DOMAIN i = StreetModes /\ DOMAIN m = StreetModes
      BY <1>2
    <3>3. \A x \in StreetModes :
             /\ {"vis", "area"} \subseteq DOMAIN i[x] /\ {"vis", "area"} \subseteq DOMAIN m[x]
             /\ i[x].area = ui.info[x].area /\ m[x].area = ui.m[x].area
             /\ x = s.x => i[x].vis = FALSE /\ m[x].vis = FALSE
             /\ x # s.x => i[x] = ui.info[x] /\ m[x] = ui.m[x]
      BY <1>2
    <3> HIDE DEF i, m
    <3>4. /\ StreetFields \subseteq DOMAIN v /\ v.info = i /\ v.m = m /\ v.sel = ui.sel /\ v.saved = ui.saved
          /\ v.net = ui.net /\ v.failed = ui.failed /\ v.runs = ui.runs /\ v.crossed = ui.crossed
      BY <1>1 DEF StreetFields
    <3> HIDE DEF v
    <3>5. LayersTyped(v)
      <4>1. \A x \in StreetModes : i[x].vis \in BOOLEAN /\ m[x].vis \in BOOLEAN
        BY <1>2, <3>3
      <4> QED BY <1>2, <3>2, <3>3, <3>4, <4>1 DEF LayersTyped
    <3>6. ASSUME ~ui.crossed PROVE Fits(v, steps)
      <4>0. \A x \in StreetModes : /\ x = s.x => ~v.info[x].vis /\ ~v.m[x].vis
                                   /\ x # s.x => v.info[x] = ui.info[x] /\ v.m[x] = ui.m[x]
        BY <3>3, <3>4
      <4>3. StepsFit(ui, {s} \cup E) /\ \A x \in StreetModes : ModeFits(ui, {s} \cup E, x)
        BY <2>2, <3>6
      <4>4. v.sel = ui.sel /\ v.saved = ui.saved /\ v.net = ui.net /\ v.failed = ui.failed /\ t \in Steps /\ t.do = "sync"
        BY <2>3, <3>4
      <4> HIDE DEF t
      <4>1. StepsFit(v, {t} \cup E) /\ \A x \in StreetModes : ModeFits(v, {t} \cup E, x)
        BY <2>7, <4>0, <4>3, <4>4, HideFits
      <4>2. Doing(steps) = {t} \cup E /\ RefreshLast(steps)
        BY <2>2, <3>6, <4>4
      <4> QED BY <4>1, <4>2 DEF Fits
    <3> HIDE DEF steps
    <3> QED BY <1>1, <1>3, <3>1, <3>4, <3>5, <3>6, StreetsThen
  <2>8. CASE s.do = "reveal"
    <3> DEFINE c == ui.m[s.x].area # NoArea
               m == [ui.m EXCEPT ![s.x].vis = c]
               v == [ui EXCEPT !.m = m]
    <3>1. ui' = Data!Then(v, h, rest, {})
      BY <2>4, <2>8 DEF Data!Reveal
    <3>2. c \in BOOLEAN /\ (c <=> ui.m[s.x].area # NoArea)
      OBVIOUS
    <3> HIDE DEF c
    <3>3. /\ DOMAIN m = StreetModes
          /\ \A x \in StreetModes : /\ {"vis", "area"} \subseteq DOMAIN m[x] /\ m[x].area = ui.m[x].area
                                    /\ x = s.x => m[x].vis = c
                                    /\ x # s.x => m[x].vis = ui.m[x].vis
      BY <1>2
    <3> HIDE DEF m
    <3>4. /\ StreetFields \subseteq DOMAIN v /\ v.info = ui.info /\ v.m = m /\ v.sel = ui.sel /\ v.saved = ui.saved
          /\ v.net = ui.net /\ v.failed = ui.failed /\ v.runs = ui.runs /\ v.crossed = ui.crossed
      BY <1>1 DEF StreetFields
    <3> HIDE DEF v
    <3>5. LayersTyped(v)
      BY <1>2, <3>2, <3>3, <3>4 DEF LayersTyped
    <3>6. ASSUME ~ui.crossed PROVE Fits(v, rest)
      <4>0. /\ \A x \in StreetModes : v.m[x].area = ui.m[x].area
            /\ \A x \in StreetModes : x = s.x => v.m[x].vis = (ui.m[x].area # NoArea)
            /\ \A x \in StreetModes : x # s.x => v.m[x].vis = ui.m[x].vis
        BY <3>2, <3>3, <3>4
      <4>3. StepsFit(ui, {s} \cup E) /\ \A x \in StreetModes : ModeFits(ui, {s} \cup E, x)
        BY <2>2, <3>6
      <4>4. v.sel = ui.sel /\ v.saved = ui.saved /\ v.net = ui.net /\ v.failed = ui.failed /\ v.info = ui.info
        BY <3>4
      <4>1. StepsFit(v, E) /\ \A x \in StreetModes : ModeFits(v, E, x)
        BY <2>8, <4>0, <4>3, <4>4, RevealFits
      <4> QED BY <2>2, <3>6, <4>1 DEF Fits, E
    <3> QED BY <1>1, <1>3, <3>1, <3>4, <3>5, <3>6, StreetsThen
  <2>9. CASE s.do = "pass"
    <3> DEFINE m == [x \in StreetModes |-> IF ui.info[x].area # NoArea /\ ui.m[x].area # NoArea
                                           THEN [ui.m[x] EXCEPT !.vis = ui.info[x].vis] ELSE ui.m[x]]
               v == [ui EXCEPT !.m = m]
    <3>1. ui' = Data!Then(v, h, rest, {})
      BY <2>4, <2>9 DEF Data!VisibilityPass
    <3>3. /\ DOMAIN m = StreetModes
          /\ \A x \in StreetModes : /\ {"vis", "area"} \subseteq DOMAIN m[x] /\ m[x].area = ui.m[x].area
                                    /\ m[x].vis = ui.m[x].vis \/ m[x].vis = ui.info[x].vis
      BY <1>2
    <3> HIDE DEF m
    <3>4. /\ StreetFields \subseteq DOMAIN v /\ v.info = ui.info /\ v.m = m /\ v.sel = ui.sel /\ v.saved = ui.saved
          /\ v.net = ui.net /\ v.failed = ui.failed /\ v.runs = ui.runs /\ v.crossed = ui.crossed
      BY <1>1 DEF StreetFields
    <3> HIDE DEF v
    <3>5. LayersTyped(v)
      BY <1>2, <3>3, <3>4 DEF LayersTyped
    <3>6. ASSUME ~ui.crossed PROVE Fits(v, rest)
      <4>1. StepsFit(v, E) /\ \A x \in StreetModes : ModeFits(v, E, x)
        BY <2>2, <2>9, <3>3, <3>4, <3>6, PassFits
      <4> QED BY <2>2, <3>6, <4>1 DEF Fits, E
    <3> QED BY <1>1, <1>3, <3>1, <3>4, <3>5, <3>6, StreetsThen
  <2>10. CASE s.do = "reset"
    <3> DEFINE f == [x \in StreetModes |-> FALSE]
               i == [x \in StreetModes |-> [ui.info[x] EXCEPT !.area = NoArea]]
               v == [ui EXCEPT !.flag = f, !.info = i]
    <3>1. ui' = Data!Then(v, h, rest, {})
      BY <2>4, <2>10 DEF Data!ResetStreetCache
    <3>3. /\ DOMAIN i = StreetModes
          /\ \A x \in StreetModes : /\ {"vis", "area"} \subseteq DOMAIN i[x] /\ i[x].area = NoArea
                                    /\ i[x].vis = ui.info[x].vis
      BY <1>2
    <3> HIDE DEF i, f
    <3>4. /\ StreetFields \subseteq DOMAIN v /\ v.info = i /\ v.m = ui.m /\ v.sel = ui.sel /\ v.saved = ui.saved
          /\ v.net = ui.net /\ v.failed = ui.failed /\ v.runs = ui.runs /\ v.crossed = ui.crossed
      BY <1>1 DEF StreetFields
    <3> HIDE DEF v
    <3>5. LayersTyped(v)
      BY <1>2, <3>3, <3>4 DEF LayersTyped
    <3>6. ASSUME ~ui.crossed PROVE Fits(v, rest)
      <4>0. \A x : InFlight(ui, x) => InFlight(v, x)
        BY <3>4 DEF InFlight
      <4>2. /\ v.sel = ui.sel /\ v.saved = ui.saved /\ v.failed = ui.failed
            /\ \A x \in StreetModes : v.info[x].vis = ui.info[x].vis /\ v.m[x] = ui.m[x]
        BY <3>3, <3>4
      <4>3. StepsFit(ui, {s} \cup E) /\ \A x \in StreetModes : ModeFits(ui, {s} \cup E, x)
        BY <2>2, <3>6
      <4>1. StepsFit(v, E) /\ \A x \in StreetModes : ModeFits(v, E, x)
        BY <2>10, <4>0, <4>2, <4>3, SameFits
      <4> QED BY <2>2, <3>6, <4>1 DEF Fits, E
    <3> QED BY <1>1, <1>3, <3>1, <3>4, <3>5, <3>6, StreetsThen
  <2>11. CASE s.do = "refresh"
    <3> DEFINE t == Data!Do("show", ui.saved)
               F == IF ui.saved = NoMode THEN {} ELSE {t}
               steps == (IF ui.saved = NoMode THEN << >> ELSE <<t>>) \o rest
    <3>1. ui' = Data!Then(ui, h, steps, {})
      BY <2>4, <2>11 DEF Data!RefreshStreetLayers
    <3>2. ASSUME ~ui.crossed PROVE Fits(ui, steps)
      <4>1. rest = << >> /\ E = {} /\ \A x \in StreetModes : ModeFits(ui, {s}, x)
        <5>1. rest = << >>
          BY <2>2, <2>11, <3>2
        <5>2. E = {}
          BY <5>1 DEF E, Doing
        <5> QED BY <2>2, <3>2, <5>1, <5>2
      <4>2. StepsFit(ui, F) /\ \A x \in StreetModes : ModeFits(ui, F, x)
        BY <1>1, <2>11, <4>1, RefreshFits
      <4>3. Doing(steps) = F /\ RefreshLast(steps)
        <5>1. CASE ui.saved = NoMode
          <6>1. steps = << >>
            BY <4>1, <5>1
          <6> QED BY <5>1, <6>1 DEF Doing, RefreshLast
        <5>2. CASE ui.saved # NoMode
          <6>1. t \in Steps /\ t.do = "show"
            BY <1>1, <2>3, <5>2
          <6>2. steps = <<t>> \o rest
            BY <5>2
          <6> HIDE DEF t, steps
          <6>3. Doing(steps) = {t} \cup E /\ RefreshLast(steps)
            BY <2>2, <3>2, <6>1, <6>2
          <6> QED BY <4>1, <5>2, <6>3
        <5> QED BY <5>1, <5>2
      <4> QED BY <4>2, <4>3 DEF Fits
    <3> HIDE DEF steps
    <3> QED BY <1>1, <1>3, <3>1, <3>2, StreetsThen
  <2>12. CASE s.do = "show"
    <3> DEFINE i == [ui.info EXCEPT ![s.x].vis = TRUE]
               v == [ui EXCEPT !.info = i]
               q == Data!Do("reveal", s.x)
               t == Data!Do("sync", NoArea)
               after == <<q, t>> \o rest
               f == [v.flag EXCEPT ![s.x] = TRUE]
               d == v.failed \ {s.x}
               w == [v EXCEPT !.flag = f, !.failed = d]
               draws == Data!Kept(w, s.x, w.sel)
               z == IF draws THEN Data!DrawStreets(w, s.x, w.sel) ELSE Data!Fetch(w, s.x, w.sel)
               wait == IF draws THEN {} ELSE {w.last + 1}
    <3>1. Data!Show(ui, h, s.x, rest) =
            IF ui.sel = NoArea THEN Data!Then(ui, h, rest, {})
            ELSE IF v.flag[s.x] THEN Data!Then(v, h, after, {})
            ELSE Data!Then(z, h, after, wait)
      BY DEF Data!Show
    <3>2. /\ DOMAIN i = StreetModes
          /\ \A x \in StreetModes : /\ {"vis", "area"} \subseteq DOMAIN i[x] /\ i[x].area = ui.info[x].area
                                    /\ x = s.x => i[x].vis = TRUE
                                    /\ x # s.x => i[x] = ui.info[x]
      BY <1>2
    <3> HIDE DEF i
    <3>3. /\ StreetFields \subseteq DOMAIN v /\ v.info = i /\ v.m = ui.m /\ v.sel = ui.sel /\ v.saved = ui.saved
          /\ v.net = ui.net /\ v.failed = ui.failed /\ v.runs = ui.runs /\ v.crossed = ui.crossed
          /\ v.flag = ui.flag
      BY <1>1 DEF StreetFields, DataSound, DataTyped, DataFields
    <3> HIDE DEF v, f, d
    <3>4. /\ StreetFields \subseteq DOMAIN w /\ w.info = i /\ w.m = ui.m /\ w.sel = ui.sel /\ w.saved = ui.saved
          /\ w.net = ui.net /\ w.runs = ui.runs /\ w.crossed = ui.crossed
      BY <3>3 DEF StreetFields
    <3> HIDE DEF w
    <3>5. LayersTyped(v) /\ LayersTyped(w)
      <4>1. \A x \in StreetModes : i[x].vis \in BOOLEAN
        BY <1>2, <3>2
      <4>2. LayersTyped(v)
        BY <1>2, <3>2, <3>3, <4>1 DEF LayersTyped
      <4>3. LayersTyped(w)
        BY <1>2, <3>2, <3>4, <4>1 DEF LayersTyped
      <4> QED BY <4>2, <4>3
    <3>6. /\ LayersTyped(z) /\ \A g \in StreetFields \ {"net", "info", "m"} : z[g] = w[g]
          /\ z.m[s.x].area = w.sel \/ InFlight(z, s.x)
          /\ \A x \in StreetModes : /\ z.info[x].vis = w.info[x].vis
                                    /\ x # s.x => z.info[x] = w.info[x] /\ z.m[x] = w.m[x]
      <4>1. s.x \in StreetModes
        BY <2>5, <2>12
      <4>2. CASE draws
        <5>1. z = Data!DrawStreets(w, s.x, w.sel)
          BY <4>2
        <5> HIDE DEF z, draws
        <5> QED BY <3>5, <4>1, <5>1, DrawnStreets
      <4>3. CASE ~draws
        <5>1. z = Data!Fetch(w, s.x, w.sel)
          BY <4>3
        <5> HIDE DEF z, draws
        <5>2. LayersTyped(z) /\ InFlight(z, s.x) /\ \A g \in StreetFields \ {"net"} : z[g] = w[g]
          BY <1>1, <3>4, <3>5, <5>1, AskedOffStreets
        <5>3. z.info = w.info /\ z.m = w.m
          BY <5>2 DEF StreetFields
        <5> QED BY <5>2, <5>3
      <4> QED BY <4>2, <4>3
    <3>7. z.sel = ui.sel /\ z.saved = ui.saved /\ z.runs = ui.runs /\ z.crossed = ui.crossed
      BY <3>4, <3>6 DEF StreetFields
    <3> HIDE DEF wait, draws
    <3> HIDE DEF z
    <3>8. q \in Steps /\ q.do = "reveal" /\ q.x = s.x /\ t \in Steps /\ t.do = "sync"
      BY <2>3, <2>5, <2>12
    <3> HIDE DEF q, t
    <3>9. ~ui.crossed => Doing(after) = {q, t} \cup E /\ RefreshLast(after)
      BY <2>2, <3>8
    <3> HIDE DEF after
    <3>10. CASE ui.sel = NoArea
      <4>1. ui' = Data!Then(ui, h, rest, {})
        BY <2>4, <2>12, <3>1, <3>10
      <4>2. ASSUME ~ui.crossed PROVE Fits(ui, rest)
        <5>1. StepsFit(ui, E) /\ \A x \in StreetModes : ModeFits(ui, E, x)
          BY <2>2, <2>12, <3>10, <4>2, SameFits
        <5> QED BY <2>2, <4>2, <5>1 DEF Fits, E
      <4> QED BY <1>1, <1>3, <4>1, <4>2, StreetsThen
    <3>11. CASE ui.sel # NoArea /\ v.flag[s.x]
      <4>1. ui' = Data!Then(v, h, after, {})
        BY <2>4, <2>12, <3>1, <3>11
      <4>2. ASSUME ~ui.crossed PROVE Fits(v, after)
        <5>1. ui.info[s.x].area = ui.sel
          BY <1>3, <2>5, <2>6, <2>12, <3>3, <3>11, <4>2
        <5>2. ui.m[s.x].area = ui.sel
          BY <1>2, <2>5, <2>12, <3>11, <5>1
        <5>4. /\ \A x \in StreetModes : x = s.x => v.info[x].vis
              /\ \A x \in StreetModes : x # s.x => v.info[x] = ui.info[x] /\ v.m[x] = ui.m[x]
              /\ v.sel = ui.sel /\ v.saved = ui.saved /\ v.m = ui.m
          BY <3>2, <3>3
        <5>5. StepsFit(ui, {s} \cup E) /\ \A x \in StreetModes : ModeFits(ui, {s} \cup E, x)
          BY <2>2, <4>2
        <5>6. v.m[s.x].area = ui.sel \/ InFlight(v, s.x)
          BY <5>2, <5>4
        <5>3. StepsFit(v, {q, t} \cup E) /\ \A x \in StreetModes : ModeFits(v, {q, t} \cup E, x)
          BY <2>12, <3>8, <3>11, <5>4, <5>5, <5>6, ShowFits
        <5> QED BY <3>9, <4>2, <5>3 DEF Fits
      <4> QED BY <1>1, <1>3, <3>3, <3>5, <4>1, <4>2, StreetsThen
    <3>12. CASE ui.sel # NoArea /\ ~v.flag[s.x]
      <4>1. ui' = Data!Then(z, h, after, wait)
        BY <2>4, <2>12, <3>1, <3>12
      <4>2. ASSUME ~ui.crossed PROVE Fits(z, after)
        <5>4. /\ \A x \in StreetModes : x = s.x => z.info[x].vis
              /\ \A x \in StreetModes : x # s.x => z.info[x] = ui.info[x] /\ z.m[x] = ui.m[x]
              /\ z.sel = ui.sel /\ z.saved = ui.saved
          BY <3>2, <3>4, <3>6, <3>7
        <5>5. StepsFit(ui, {s} \cup E) /\ \A x \in StreetModes : ModeFits(ui, {s} \cup E, x)
          BY <2>2, <4>2
        <5>6. z.m[s.x].area = ui.sel \/ InFlight(z, s.x)
          BY <3>4, <3>6
        <5>3. StepsFit(z, {q, t} \cup E) /\ \A x \in StreetModes : ModeFits(z, {q, t} \cup E, x)
          BY <2>12, <3>8, <3>12, <5>4, <5>5, <5>6, ShowFits
        <5> QED BY <3>9, <4>2, <5>3 DEF Fits
      <4> QED BY <1>1, <1>3, <3>6, <3>7, <4>1, <4>2, StreetsThen
    <3> QED BY <3>10, <3>11, <3>12
  <2>13. CASE s.do = "sync"
    <3> DEFINE t == Data!Do("draw", ui.sel)
               after == <<t>> \o rest
    <3>1. t \in Steps /\ t.do = "draw"
      BY <2>3
    <3> HIDE DEF t
    <3>2. ~ui.crossed => Doing(after) = {t} \cup E /\ RefreshLast(after)
      BY <2>2, <3>1
    <3> HIDE DEF after
    <3>3. ASSUME NEW v, LayersTyped(v), \A g \in {"sel", "saved", "failed", "info", "m"} : v[g] = ui[g],
                 \A x : InFlight(ui, x) => InFlight(v, x), ~ui.crossed
          PROVE  Fits(v, after) /\ Fits(v, rest)
      <4>1. v.sel = ui.sel /\ v.saved = ui.saved /\ v.failed = ui.failed /\ v.info = ui.info /\ v.m = ui.m
        BY <3>3
      <4>4. StepsFit(ui, {s} \cup E) /\ \A x \in StreetModes : ModeFits(ui, {s} \cup E, x)
        BY <2>2, <3>3
      <4>5. \A x \in StreetModes : v.info[x].vis = ui.info[x].vis /\ v.m[x] = ui.m[x]
        BY <4>1
      <4>2. StepsFit(v, E) /\ \A x \in StreetModes : ModeFits(v, E, x)
        BY <2>13, <3>3, <4>1, <4>4, <4>5, SameFits
      <4> DEFINE F == {t} \cup E
      <4>6. E \subseteq F /\ \A x \in F \ E : x.do = "draw"
        BY <3>1
      <4> HIDE DEF F
      <4>7. StepsFit(v, F) /\ \A x \in StreetModes : ModeFits(v, F, x)
        BY <2>13, <3>3, <4>1, <4>4, <4>5, <4>6, SameFits
      <4>3. StepsFit(v, {t} \cup E) /\ \A x \in StreetModes : ModeFits(v, {t} \cup E, x)
        BY <4>7 DEF F
      <4> QED BY <2>2, <3>2, <3>3, <4>2, <4>3 DEF Fits, E
    <3>4. CASE ui.sel = NoArea
      <4> DEFINE v == [ui EXCEPT !.overlay = NoArea]
      <4>1. ui' = Data!Then(v, h, rest, {})
        BY <2>4, <2>13, <3>4 DEF Data!Sync
      <4>2. StreetFields \subseteq DOMAIN v /\ \A g \in StreetFields : v[g] = ui[g]
        BY <1>1 DEF StreetFields
      <4> HIDE DEF v
      <4>3. /\ v.info = ui.info /\ v.m = ui.m /\ v.net = ui.net /\ v.runs = ui.runs /\ v.crossed = ui.crossed
            /\ \A g \in {"sel", "saved", "failed", "info", "m"} : v[g] = ui[g]
        BY <4>2 DEF StreetFields
      <4>4. LayersTyped(v) /\ \A x : InFlight(ui, x) => InFlight(v, x)
        BY <1>2, <4>2, <4>3 DEF LayersTyped, InFlight
      <4> QED BY <1>1, <1>3, <3>3, <4>1, <4>3, <4>4, StreetsThen
    <3>5. CASE ui.sel # NoArea /\ ui.sel \in ui.cache
      <4> DEFINE g == [h EXCEPT !.ok = TRUE]
                 rs == (ui.runs \ {h}) \cup {g}
                 v == [ui EXCEPT !.runs = rs]
      <4>1. ui' = Data!Then(v, g, after, {})
        BY <2>4, <2>13, <3>5 DEF Data!Sync, after, t
      <4>2. g \in rs /\ {"todo", "wait"} \subseteq DOMAIN g
        BY <1>1
      <4>3. ~ui.crossed => \A x \in rs : x = g
        BY <1>3
      <4> HIDE DEF g, rs
      <4>4. StreetFields \subseteq DOMAIN v /\ v.runs = rs /\ \A b \in StreetFields \ {"runs"} : v[b] = ui[b]
        BY <1>1 DEF StreetFields
      <4> HIDE DEF v
      <4>5. /\ v.info = ui.info /\ v.m = ui.m /\ v.net = ui.net /\ v.crossed = ui.crossed
            /\ \A b \in {"sel", "saved", "failed", "info", "m"} : v[b] = ui[b]
        BY <4>4 DEF StreetFields
      <4>6. LayersTyped(v) /\ \A x : InFlight(ui, x) => InFlight(v, x)
        BY <1>2, <4>4, <4>5 DEF LayersTyped, InFlight
      <4> QED BY <3>3, <4>1, <4>2, <4>3, <4>4, <4>5, <4>6, StreetsThen
    <3>6. CASE ui.sel # NoArea /\ ui.sel \notin ui.cache
      <4> DEFINE v == Data!Fetch(ui, ui.sel, ui.sel)
      <4>1. ui' = Data!Then(v, h, after, {ui.last + 1})
        BY <2>4, <2>13, <3>6 DEF Data!Sync, after, t
      <4>2. /\ LayersTyped(v) /\ (\A b \in StreetFields \ {"net"} : v[b] = ui[b])
            /\ \A x : InFlight(ui, x) => InFlight(v, x)
        BY <1>1, AskedOffStreets
      <4> HIDE DEF v
      <4>3. v.runs = ui.runs /\ v.crossed = ui.crossed /\ \A b \in {"sel", "saved", "failed", "info", "m"} : v[b] = ui[b]
        BY <4>2 DEF StreetFields
      <4> QED BY <1>1, <1>3, <3>3, <4>1, <4>2, <4>3, StreetsThen
    <3> QED BY <3>4, <3>5, <3>6
  <2>14. CASE s.do = "draw"
    <3> DEFINE o == IF h.ok THEN s.x ELSE NoArea
               v == IF ui.sel # s.x THEN ui ELSE [ui EXCEPT !.overlay = o]
    <3>1. ui' = Data!Then(v, h, rest, {})
      BY <2>4, <2>14 DEF Data!Draw
    <3> HIDE DEF o
    <3>2. StreetFields \subseteq DOMAIN v /\ \A g \in StreetFields : v[g] = ui[g]
      BY <1>1 DEF StreetFields
    <3> HIDE DEF v
    <3>3. /\ v.info = ui.info /\ v.m = ui.m /\ v.net = ui.net /\ v.runs = ui.runs /\ v.crossed = ui.crossed
          /\ v.sel = ui.sel /\ v.saved = ui.saved /\ v.failed = ui.failed
      BY <3>2 DEF StreetFields
    <3>4. LayersTyped(v) /\ \A x : InFlight(ui, x) => InFlight(v, x)
      BY <1>2, <3>2, <3>3 DEF LayersTyped, InFlight
    <3>5. ASSUME ~ui.crossed PROVE Fits(v, rest)
      <4>1. StepsFit(v, E) /\ \A x \in StreetModes : ModeFits(v, E, x)
        BY <2>2, <2>14, <3>3, <3>4, <3>5, SameFits
      <4> QED BY <2>2, <3>5, <4>1 DEF Fits, E
    <3> QED BY <1>1, <1>3, <3>1, <3>3, <3>4, <3>5, StreetsThen
  <2> QED BY <2>5, <2>7, <2>8, <2>9, <2>10, <2>11, <2>12, <2>13, <2>14
<1> QED BY <1>4, <1>5

(* What settles changes no handler's steps.                                *)
LEMMA StreetsSettled ==
    ASSUME StreetsSound(ui), NEW v, LayersTyped(v), v.crossed = ui.crossed, v.sel = ui.sel, v.saved = ui.saved,
           \A g \in v.runs : \E h \in ui.runs : g.todo = h.todo, v.runs = {} => ui.runs = {},
           ~ui.crossed => \A D : \A x \in StreetModes : ModeFits(ui, D, x) => ModeFits(v, D, x)
    PROVE  StreetsSound(v)
<1>1. \A D : StepsFit(ui, D) => StepsFit(v, D)
  BY DEF StepsFit, Wanted
<1>2. ~ui.crossed => \A todo : Fits(ui, todo) => Fits(v, todo)
  BY <1>1 DEF Fits
<1> QED BY <1>2 DEF StreetsSound

LEMMA ForgottenOffStreets ==
    ASSUME DataTyped(ui), StreetsSound(ui), NEW r \in ui.net
    PROVE  LET v == Data!Finally(ui, r) IN
           /\ LayersTyped(v) /\ \A f \in StreetFields \ {"net", "runs"} : v[f] = ui[f]
           /\ \A x : x # r.key /\ InFlight(ui, x) => InFlight(v, x)
           /\ \A g \in v.runs : {"todo", "wait"} \subseteq DOMAIN g /\ \E h \in ui.runs : g.todo = h.todo
           /\ v.runs = {} => ui.runs = {}
<1> DEFINE c == [ui.ctl EXCEPT ![r.key] = 0]
           Less(h) == [h EXCEPT !.wait = h.wait \ {r.id}]
           hs == {Less(h) : h \in ui.runs}
           v == [ui EXCEPT !.net = ui.net \ {r}, !.ctl = c, !.runs = hs]
<1>1. Data!Finally(ui, r) = v
  BY DEF Data!Finally
<1>2. \A h \in ui.runs : Less(h).todo = h.todo /\ {"todo", "wait"} \subseteq DOMAIN Less(h)
  BY DEF DataTyped
<1> HIDE DEF c, Less
<1>3. \A g \in hs : {"todo", "wait"} \subseteq DOMAIN g /\ \E h \in ui.runs : g.todo = h.todo
  BY <1>2
<1>4. hs = {} => ui.runs = {}
  OBVIOUS
<1> HIDE DEF hs
<1>5. /\ StreetFields \subseteq DOMAIN v /\ v.net = ui.net \ {r} /\ v.runs = hs
      /\ \A f \in StreetFields \ {"net", "runs"} : v[f] = ui[f]
  BY DEF StreetsSound, LayersTyped, StreetFields
<1>6. v.info = ui.info /\ v.m = ui.m
  BY <1>5 DEF StreetFields
<1> HIDE DEF v
<1>7. LayersTyped(v)
  BY <1>5, <1>6 DEF StreetsSound, LayersTyped
<1>8. \A x : x # r.key /\ InFlight(ui, x) => InFlight(v, x)
  BY <1>5 DEF InFlight
<1> QED BY <1>1, <1>3, <1>4, <1>5, <1>7, <1>8

LEMMA SettleStreets ==
    ASSUME DataSound(ui), StreetsSound(ui), Data!Settle
    PROVE  StreetsSound(ui')
<1> PICK r \in ui.net : \/ Data!TripsArrive(r) \/ Data!StreetsArrive(r)
                        \/ Data!BoundaryArrives(r) \/ Data!RequestEnds(r)
  BY DEF Data!Settle
<1> DEFINE v == Data!Finally(ui, r)
           k == r.key
<1>1. /\ LayersTyped(v) /\ (\A f \in StreetFields \ {"net", "runs"} : v[f] = ui[f])
      /\ \A x : x # k /\ InFlight(ui, x) => InFlight(v, x)
      /\ \A g \in v.runs : {"todo", "wait"} \subseteq DOMAIN g /\ \E h \in ui.runs : g.todo = h.todo
      /\ v.runs = {} => ui.runs = {}
  BY ForgottenOffStreets DEF DataSound
<1>2. /\ v.sel = ui.sel /\ v.saved = ui.saved /\ v.info = ui.info /\ v.m = ui.m /\ v.failed = ui.failed
      /\ v.crossed = ui.crossed
  BY <1>1 DEF StreetFields
<1> HIDE DEF v
<1>3. StreetFields \subseteq DOMAIN v
  BY <1>1 DEF LayersTyped
<1>4. LayersTyped(ui)
  BY DEF StreetsSound
(* what ends is no request for streets *)
<1>5. ASSUME k \notin StreetModes, NEW w, StreetFields \subseteq DOMAIN w,
             \A f \in StreetFields \ {"runs"} : w[f] = v[f],
             \A g \in w.runs : \E h \in ui.runs : g.todo = h.todo, w.runs = {} => ui.runs = {}
      PROVE  StreetsSound(w)
  <2>1. /\ w.sel = ui.sel /\ w.saved = ui.saved /\ w.info = ui.info /\ w.m = ui.m /\ w.failed = ui.failed
        /\ w.crossed = ui.crossed /\ w.net = v.net
    BY <1>2, <1>5 DEF StreetFields
  <2>2. LayersTyped(w)
    BY <1>4, <1>5, <2>1 DEF LayersTyped
  <2>3. \A x \in StreetModes : InFlight(ui, x) => InFlight(w, x)
    BY <1>1, <1>5, <2>1 DEF InFlight
  <2>4. \A D : \A x \in StreetModes : ModeFits(ui, D, x) => ModeFits(w, D, x)
    BY <2>1, <2>3 DEF ModeFits, Wanted
  <2> QED BY <1>5, <2>1, <2>2, <2>4, StreetsSettled
<1>6. CASE Data!TripsArrive(r)
  <2>1. PICK e, q : ui' = [[v EXCEPT !.answers = e] EXCEPT !.queue = q]
    BY <1>6 DEF Data!TripsArrive, Data!Keep, v
  <2> DEFINE w == [[v EXCEPT !.answers = e] EXCEPT !.queue = q]
  <2>2. StreetFields \subseteq DOMAIN w /\ \A f \in StreetFields : w[f] = v[f]
    BY <1>3 DEF StreetFields
  <2>3. k \notin StreetModes
    BY <1>6, StreetsAssumption DEF Data!TripsArrive
  <2> HIDE DEF w
  <2>4. w.runs = v.runs
    BY <2>2 DEF StreetFields
  <2>5. StreetsSound(w)
    BY <1>1, <1>5, <2>2, <2>3, <2>4
  <2> QED BY <2>1, <2>5 DEF w
<1>7. CASE Data!BoundaryArrives(r)
  <2> DEFINE Had(h) == [h EXCEPT !.ok = IF r.id \in h.wait THEN TRUE ELSE h.ok, !.wait = h.wait \ {r.id}]
             hs == {Had(h) : h \in ui.runs}
             ch == v.cache \cup {r.area}
             w == [v EXCEPT !.cache = ch, !.runs = hs]
  <2>1. ui' = w
    BY <1>7 DEF Data!BoundaryArrives, v
  <2>2. \A h \in ui.runs : Had(h).todo = h.todo
    BY DEF DataSound, DataTyped
  <2> HIDE DEF Had
  <2>3. (\A g \in hs : \E h \in ui.runs : g.todo = h.todo) /\ (hs = {} => ui.runs = {})
    BY <2>2
  <2>4. k \notin StreetModes
    BY <1>7, StreetsAssumption DEF Data!BoundaryArrives
  <2> HIDE DEF hs, ch
  <2>5. StreetFields \subseteq DOMAIN w /\ w.runs = hs /\ \A f \in StreetFields \ {"runs"} : w[f] = v[f]
    BY <1>3 DEF StreetFields
  <2> HIDE DEF w
  <2>6. StreetsSound(w)
    BY <1>5, <2>3, <2>4, <2>5
  <2> QED BY <2>1, <2>6
<1>8. CASE Data!StreetsArrive(r)
  <2> DEFINE b == r.area
  <2>1. PICK e : ui' = Data!DrawStreets([v EXCEPT !.answers = e], k, b)
    BY <1>8 DEF Data!StreetsArrive, Data!Keep, v
  <2> DEFINE u == [v EXCEPT !.answers = e]
             w == Data!DrawStreets(u, k, b)
  <2>2. k \in StreetModes /\ (~ui.crossed => b = ui.sel)
    BY <1>8 DEF Data!StreetsArrive, DataSound, FlagsSound, StreetsAsked
  <2>3. StreetFields \subseteq DOMAIN u /\ u.info = v.info /\ u.m = v.m /\ \A f \in StreetFields : u[f] = v[f]
    BY <1>3 DEF StreetFields
  <2> HIDE DEF u, b
  <2>4. LayersTyped(u)
    BY <1>1, <2>3 DEF LayersTyped
  <2>5. /\ LayersTyped(w) /\ \A f \in StreetFields \ {"info", "m"} : w[f] = u[f]
        /\ w.m[k].area = b /\ w.m[k].vis = ui.info[k].vis
        /\ \A x \in StreetModes : w.info[x].vis = ui.info[x].vis
        /\ \A x \in StreetModes : x # k => w.info[x] = ui.info[x] /\ w.m[x] = ui.m[x]
    BY <1>2, <2>2, <2>3, <2>4, DrawnStreets
  <2> HIDE DEF w
  <2>7. /\ w.sel = ui.sel /\ w.saved = ui.saved /\ w.failed = ui.failed /\ w.crossed = ui.crossed
        /\ w.net = v.net /\ w.runs = v.runs
    BY <1>2, <2>3, <2>5 DEF StreetFields
  <2>9. ASSUME ~ui.crossed, NEW D, NEW x \in StreetModes, ModeFits(ui, D, x) PROVE ModeFits(w, D, x)
    <3>1. Wanted(w, x) = Wanted(ui, x)
      BY <2>7 DEF Wanted
    <3>2. CASE x = k
      <4>1. w.info[x].vis = ui.info[x].vis /\ w.m[x].vis = ui.info[x].vis /\ w.m[x].area = w.sel
        BY <2>2, <2>5, <2>7, <2>9, <3>2
      <4> QED BY <2>9, <3>1, <4>1 DEF ModeFits
    <3>3. CASE x # k
      <4>1. w.info[x] = ui.info[x] /\ w.m[x] = ui.m[x]
        BY <2>5, <3>3
      <4>2. InFlight(ui, x) => InFlight(w, x)
        BY <1>1, <2>7, <3>3 DEF InFlight
      <4> QED BY <2>7, <2>9, <3>1, <4>1, <4>2 DEF ModeFits
    <3> QED BY <3>2, <3>3
  <2>10. StreetsSound(w)
    BY <1>1, <2>5, <2>7, <2>9, StreetsSettled
  <2> QED BY <2>1, <2>10 DEF u, w
<1>9. CASE Data!RequestEnds(r)
  <2>1. CASE k \in StreetModes
    <3> DEFINE f == [v.flag EXCEPT ![k] = FALSE]
               p == v.failed \cup {k}
               w == [v EXCEPT !.flag = f, !.failed = p]
    <3>1. ui' = w
      BY <1>9, <2>1 DEF Data!RequestEnds, v
    <3>2. k \in p /\ \A x \in ui.failed : x \in p
      BY <1>2
    <3> HIDE DEF f, p
    <3>3. StreetFields \subseteq DOMAIN w /\ w.failed = p /\ \A g \in StreetFields \ {"failed"} : w[g] = v[g]
      BY <1>3 DEF StreetFields
    <3>4. /\ w.sel = ui.sel /\ w.saved = ui.saved /\ w.info = ui.info /\ w.m = ui.m /\ w.crossed = ui.crossed
          /\ w.net = v.net /\ w.runs = v.runs
      BY <1>2, <3>3 DEF StreetFields
    <3> HIDE DEF w
    <3>5. LayersTyped(w)
      BY <1>4, <3>3, <3>4 DEF LayersTyped
    <3>6. \A x : x # k /\ InFlight(ui, x) => InFlight(w, x)
      BY <1>1, <3>4 DEF InFlight
    <3>7. \A D : \A x \in StreetModes : ModeFits(ui, D, x) => ModeFits(w, D, x)
      BY <3>2, <3>3, <3>4, <3>6 DEF ModeFits, Wanted
    <3>8. StreetsSound(w)
      BY <1>1, <3>4, <3>5, <3>7, StreetsSettled
    <3> QED BY <3>1, <3>8
  <2>2. CASE k \notin StreetModes /\ k = "trips"
    <3>1. PICK s : ui' = [v EXCEPT !.stale = s]
      BY <1>9, <2>2 DEF Data!RequestEnds, v
    <3> DEFINE w == [v EXCEPT !.stale = s]
    <3>2. StreetFields \subseteq DOMAIN w /\ \A f \in StreetFields : w[f] = v[f]
      BY <1>3 DEF StreetFields
    <3> HIDE DEF w
    <3>3. w.runs = v.runs
      BY <3>2 DEF StreetFields
    <3>4. StreetsSound(w)
      BY <1>1, <1>5, <2>2, <3>2, <3>3
    <3> QED BY <3>1, <3>4 DEF w
  <2>3. CASE k \notin StreetModes /\ k # "trips"
    <3> DEFINE Had(h) == [h EXCEPT !.ok = IF r.id \in h.wait THEN FALSE ELSE h.ok, !.wait = h.wait \ {r.id}]
               hs == {Had(h) : h \in ui.runs}
               w == [v EXCEPT !.runs = hs]
    <3>1. ui' = w
      BY <1>9, <2>3 DEF Data!RequestEnds, v
    <3>2. \A h \in ui.runs : Had(h).todo = h.todo
      BY DEF DataSound, DataTyped
    <3> HIDE DEF Had
    <3>3. (\A g \in hs : \E h \in ui.runs : g.todo = h.todo) /\ (hs = {} => ui.runs = {})
      BY <3>2
    <3> HIDE DEF hs
    <3>5. StreetFields \subseteq DOMAIN w /\ w.runs = hs /\ \A f \in StreetFields \ {"runs"} : w[f] = v[f]
      BY <1>3 DEF StreetFields
    <3> HIDE DEF w
    <3>6. StreetsSound(w)
      BY <1>5, <2>3, <3>3, <3>5
    <3> QED BY <3>1, <3>6
  <2> QED BY <2>1, <2>2, <2>3
<1> QED BY <1>6, <1>7, <1>8, <1>9

(* Where no handler runs, nothing is left to be done.                      *)
LEMMA QuietStreets ==
    ASSUME StreetsSound(ui), ~ui.crossed, ui.runs = {}, NEW x \in StreetModes
    PROVE  /\ ~Wanted(ui, x) => ~ui.info[x].vis /\ ~ui.m[x].vis
           /\ Wanted(ui, x) => ui.info[x].vis
           /\ Wanted(ui, x) => \/ x \in ui.failed \/ InFlight(ui, x)
                               \/ ui.m[x].area = ui.sel /\ ui.m[x].vis
<1>1. Doing(<< >>) = {}
  BY DEF Doing
<1>2. ModeFits(ui, {}, x)
  BY <1>1 DEF StreetsSound, Fits
<1> QED BY <1>2 DEF ModeFits, Hides, Shows, Reveals

LEMMA HidingAll ==
    /\ RefreshLast(Data!HideAll)
    /\ \A s \in Doing(Data!HideAll) : s.do = "hide"
    /\ \A x \in StreetModes : Hides(Doing(Data!HideAll), x)
<1>1. /\ DOMAIN Data!HideAll = DOMAIN Data!ModeOrder
      /\ \A i \in DOMAIN Data!HideAll : Data!HideAll[i].do = "hide" /\ Data!HideAll[i].x = Data!ModeOrder[i]
  BY DEF Data!HideAll, Data!Do
<1>2. \A s \in Doing(Data!HideAll) : s.do = "hide"
  BY <1>1 DEF Doing
<1>3. RefreshLast(Data!HideAll)
  BY <1>1 DEF RefreshLast
<1>4. ASSUME NEW x \in StreetModes PROVE Hides(Doing(Data!HideAll), x)
  <2> PICK i \in DOMAIN Data!ModeOrder : Data!ModeOrder[i] = x
    BY EveryModeListed
  <2> QED BY <1>1 DEF Hides, Doing
<1> QED BY <1>2, <1>3, <1>4

LEMMA DoingOne ==
    ASSUME NEW s \in Steps
    PROVE  <<s>> \in Seq(Steps) /\ Doing(<<s>>) = {s} /\ RefreshLast(<<s>>)
<1>1. <<s>> \in Seq(Steps) /\ DOMAIN <<s>> = {1} /\ <<s>>[1] = s /\ Len(<<s>>) = 1
  OBVIOUS
<1>2. Doing(<<s>>) = {s}
  BY <1>1 DEF Doing
<1>3. RefreshLast(<<s>>)
  BY <1>1 DEF RefreshLast
<1> QED BY <1>1, <1>2, <1>3

LEMMA SelectLocationStreets ==
    ASSUME DataSound(ui), StreetsSound(ui), NEW a \in Areas \cup {NoArea}, Data!SelectLocation(a)
    PROVE  StreetsSound(ui')
<1> DEFINE u == Data!Acted([ui EXCEPT !.sel = a])
           f == Data!FetchTrips(u)
           v == IF Clipping /\ a # ui.sel THEN f ELSE u
           hides == Data!HideAll
           p == Data!Do("reset", NoArea)
           q == Data!Do("refresh", NoArea)
           more == IF a # ui.sel THEN hides \o <<p>> ELSE << >>
           todo == IF a = NoArea THEN hides ELSE more \o <<q>>
<1>1. ui' = Data!Handler(v, u.steps, todo, {})
  BY DEF Data!SelectLocation
<1>2. p \in Steps /\ q \in Steps /\ p.do = "reset" /\ q.do = "refresh"
  BY DEF Steps, Data!Step, Data!Do
<1>3. /\ StreetFields \subseteq DOMAIN u /\ u.sel = a /\ u.saved = ui.saved /\ u.info = ui.info /\ u.m = ui.m
      /\ u.net = ui.net /\ u.failed = ui.failed /\ u.runs = ui.runs /\ u.crossed = ui.crossed
  BY DEF StreetsSound, LayersTyped, StreetFields, Data!Acted
<1> HIDE DEF u
<1>4. LayersTyped(u) /\ \A r \in u.net : {"id", "key", "dead"} \subseteq DOMAIN r
  BY <1>3 DEF StreetsSound, LayersTyped, DataSound, DataTyped, RequestFields
<1>5. LayersTyped(f) /\ \A g \in StreetFields \ {"net"} : f[g] = u[g]
  BY <1>4, LoadOffStreets
<1> HIDE DEF f
<1>8. /\ StreetFields \subseteq DOMAIN v /\ v.sel = a /\ v.saved = ui.saved /\ v.info = ui.info /\ v.m = ui.m
      /\ v.failed = ui.failed /\ v.runs = ui.runs /\ v.crossed = ui.crossed
  <2>1. /\ StreetFields \subseteq DOMAIN f /\ f.sel = a /\ f.saved = ui.saved /\ f.info = ui.info /\ f.m = ui.m
        /\ f.failed = ui.failed /\ f.runs = ui.runs /\ f.crossed = ui.crossed
    BY <1>3, <1>5 DEF LayersTyped, StreetFields
  <2> QED BY <1>3, <2>1
<1> HIDE DEF v
<1>9. LayersTyped(v)
  BY <1>8 DEF StreetsSound, LayersTyped
<1>10. ui.crossed \in BOOLEAN
  BY DEF DataSound, DataTyped
<1>11. ASSUME ~ui.crossed, ui.runs = {} PROVE Fits(v, todo)
  <2>1. CASE a = NoArea
    <3>1. todo = hides
      BY <2>1
    <3>2. \A x : ~Wanted(v, x)
      BY <1>8, <2>1 DEF Wanted
    <3>3. StepsFit(v, Doing(hides))
      BY <3>2, HidingAll DEF StepsFit
    <3>4. \A x \in StreetModes : ModeFits(v, Doing(hides), x)
      BY <3>2, HidingAll DEF ModeFits
    <3> QED BY <3>1, <3>3, <3>4, HidingAll DEF Fits
  <2>2. CASE a # NoArea
    <3>1. hides \in Seq(Steps) /\ RefreshLast(hides) /\ \A s \in Doing(hides) : s.do = "hide"
      BY ModesListed, HidingAll
    <3> HIDE DEF hides, p, q
    <3> DEFINE ps == <<p>>
               qs == <<q>>
    <3>2. ps \in Seq(Steps) /\ Doing(ps) = {p} /\ qs \in Seq(Steps) /\ Doing(qs) = {q} /\ RefreshLast(qs)
      BY <1>2, DoingOne
    <3>3. << >> \in Seq(Steps) /\ Doing(<< >>) = {}
      BY DEF Doing
    <3> HIDE DEF ps, qs
    <3>10. hides \o ps \in Seq(Steps)
      BY <3>1, <3>2
    <3>4. Doing(hides \o ps) = Doing(hides) \cup {p}
      BY <3>1, <3>2, DoingOfBoth
    <3>5. more \in Seq(Steps) /\ \A s \in Doing(more) : s.do \in {"hide", "reset"}
      <4>1. CASE a = ui.sel
        BY <3>3, <4>1
      <4>2. CASE a # ui.sel
        <5>1. more = hides \o ps
          BY <4>2 DEF ps
        <5> QED BY <1>2, <3>1, <3>4, <3>10, <5>1
      <4> QED BY <4>1, <4>2
    <3> HIDE DEF more
    <3>6. Doing(more \o qs) = Doing(more) \cup {q} /\ RefreshLast(more \o qs)
      BY <3>2, <3>5, DoingOfBoth
    <3>7. todo = more \o qs
      BY <2>2 DEF qs
    <3> HIDE DEF todo
    <3>8. StepsFit(v, Doing(todo))
      BY <1>2, <3>5, <3>6, <3>7 DEF StepsFit
    <3>9. ASSUME NEW x \in StreetModes PROVE ModeFits(v, Doing(todo), x)
      <4>1. Shows(Doing(todo), x)
        BY <1>2, <3>6, <3>7 DEF Shows
      <4>2. ~Wanted(v, x) => ~Wanted(ui, x)
        BY <1>8, <2>2 DEF Wanted
      <4> QED BY <1>8, <1>11, <4>1, <4>2, QuietStreets DEF ModeFits
    <3> QED BY <3>6, <3>7, <3>8, <3>9 DEF Fits
  <2> QED BY <2>1, <2>2
<1> HIDE DEF todo
<1> QED BY <1>1, <1>8, <1>9, <1>10, <1>11, StreetsHandler

LEMMA StreetModeChangeStreets ==
    ASSUME DataSound(ui), StreetsSound(ui), NEW mode \in StreetModes, NEW hide \in BOOLEAN,
           Data!StreetModeChange(mode, hide)
    PROVE  StreetsSound(ui')
<1> DEFINE sv == IF hide THEN NoMode ELSE mode
           u == Data!Acted([ui EXCEPT !.saved = sv])
           order == Data!ModeOrder
           todo == [i \in DOMAIN order |-> Data!Do(IF order[i] = mode /\ ~hide THEN "show" ELSE "hide", order[i])]
<1>1. ui' = Data!Handler(u, u.steps, todo, {})
  BY DEF Data!StreetModeChange
<1>2. NoMode \notin StreetModes /\ (hide => sv = NoMode) /\ (~hide => sv = mode)
  BY StreetsAssumption
<1> HIDE DEF sv
<1>3. /\ StreetFields \subseteq DOMAIN u /\ u.sel = ui.sel /\ u.saved = sv /\ u.info = ui.info /\ u.m = ui.m
      /\ u.net = ui.net /\ u.failed = ui.failed /\ u.runs = ui.runs /\ u.crossed = ui.crossed
  BY DEF StreetsSound, LayersTyped, StreetFields, Data!Acted
<1> HIDE DEF u
<1>4. LayersTyped(u) /\ ui.crossed \in BOOLEAN
  BY <1>3 DEF StreetsSound, LayersTyped, DataSound, DataTyped
<1>5. /\ \A i \in DOMAIN todo : /\ i \in DOMAIN order /\ todo[i].x = order[i]
                                /\ todo[i].do = IF order[i] = mode /\ ~hide THEN "show" ELSE "hide"
      /\ DOMAIN todo = DOMAIN order
  BY DEF Data!Do
<1>6. (\A x \in StreetModes : \E i \in DOMAIN order : order[i] = x) /\ \A i \in DOMAIN order : order[i] \in StreetModes
  BY EveryModeListed, ModesListed
<1> HIDE DEF todo, order
<1>7. \A s \in Doing(todo) : /\ s.x \in StreetModes
                             /\ s.do = IF s.x = mode /\ ~hide THEN "show" ELSE "hide"
  BY <1>5, <1>6 DEF Doing
<1>8. \A x \in StreetModes : \E s \in Doing(todo) : s.x = x
  BY <1>5, <1>6 DEF Doing
<1>9. ASSUME ~ui.crossed, ui.runs = {} PROVE Fits(u, todo)
  <2>1. RefreshLast(todo)
    BY <1>5 DEF RefreshLast
  <2>2. StepsFit(u, Doing(todo))
    BY <1>2, <1>3, <1>7 DEF StepsFit, Wanted
  <2>3. ASSUME NEW x \in StreetModes PROVE ModeFits(u, Doing(todo), x)
    <3> PICK s \in Doing(todo) : s.x = x
      BY <1>8
    <3>1. CASE x = mode /\ ~hide
      <4>1. Shows(Doing(todo), x)
        BY <1>7, <3>1 DEF Shows
      <4>2. ~Wanted(u, x) => ~Wanted(ui, x)
        BY <1>2, <1>3, <3>1 DEF Wanted
      <4> QED BY <1>3, <1>9, <4>1, <4>2, QuietStreets DEF ModeFits
    <3>2. CASE ~(x = mode /\ ~hide)
      <4>1. Hides(Doing(todo), x) /\ ~Wanted(u, x)
        BY <1>2, <1>3, <1>7, <3>2 DEF Hides, Wanted
      <4> QED BY <4>1 DEF ModeFits
    <3> QED BY <3>1, <3>2
  <2> QED BY <2>1, <2>2, <2>3 DEF Fits
<1> QED BY <1>1, <1>3, <1>4, <1>9, StreetsHandler

LEMMA FiltersAppliedStreets ==
    ASSUME DataSound(ui), StreetsSound(ui), NEW d, Data!FiltersApplied(d)
    PROVE  StreetsSound(ui')
<1> DEFINE Dead(r) == [r EXCEPT !.dead = r.dead \/ r.id = ui.ctl[r.key]]
           dead == {Dead(r) : r \in ui.net}
           c == [x \in Data!Keys |-> 0]
           u == Data!Acted([ui EXCEPT !.day = d, !.net = dead, !.ctl = c, !.answers = {}])
           wanted == {x \in StreetModes : u.info[x].vis /\ ~u.flag[x] /\ u.sel # NoArea}
           v == Data!FetchTrips(u)
           x == CHOOSE y \in wanted : TRUE
           f == [v.flag EXCEPT ![x] = TRUE]
           g == v.failed \ {x}
           z == [v EXCEPT !.flag = f, !.failed = g]
           n == Data!Fetch(z, x, v.sel)
           w == IF wanted = {} THEN v ELSE n
           todo == <<Data!Do("pass", NoArea)>>
           R(b) == {"id", "key", "dead"} \subseteq DOMAIN b
<1>1. PICK wait : ui' = Data!Handler(w, u.steps, todo, wait)
  BY DEF Data!FiltersApplied
<1>2. \A r \in ui.net : Dead(r).key = r.key /\ R(Dead(r))
  BY DEF DataSound, DataTyped, RequestFields
<1>3. \A r \in ui.net : Dead(r) \in dead
  OBVIOUS
<1> HIDE DEF Dead, c
<1>4. \A r \in dead : R(r)
  BY <1>2
<1> HIDE DEF dead
<1>5. /\ StreetFields \subseteq DOMAIN u /\ u.sel = ui.sel /\ u.saved = ui.saved /\ u.info = ui.info /\ u.m = ui.m
      /\ u.net = dead /\ u.failed = ui.failed /\ u.runs = ui.runs /\ u.crossed = ui.crossed
  BY DEF StreetsSound, LayersTyped, StreetFields, Data!Acted
<1> HIDE DEF u
<1>6. LayersTyped(u) /\ (\A r \in u.net : R(r)) /\ \A y : InFlight(ui, y) => InFlight(u, y)
  <2>1. LayersTyped(u)
    BY <1>5 DEF StreetsSound, LayersTyped
  <2>2. \A y : InFlight(ui, y) => InFlight(u, y)
    BY <1>2, <1>3, <1>5 DEF InFlight
  <2> QED BY <1>4, <1>5, <2>1, <2>2
<1>7. /\ LayersTyped(v) /\ (\A h \in StreetFields \ {"net"} : v[h] = u[h])
      /\ \A y : InFlight(u, y) => InFlight(v, y)
  BY <1>6, LoadOffStreets
<1>9. \A r \in v.net : R(r)
  BY <1>6, LoadOffStreets
<1>10. StreetFields \subseteq DOMAIN v
  BY <1>7 DEF LayersTyped
<1> HIDE DEF v, wanted
<1>11. /\ v.sel = ui.sel /\ v.saved = ui.saved /\ v.info = ui.info /\ v.m = ui.m /\ v.failed = ui.failed
       /\ v.runs = ui.runs /\ v.crossed = ui.crossed
  BY <1>5, <1>7 DEF StreetFields
<1>12. LayersTyped(v) /\ \A y : InFlight(ui, y) => InFlight(v, y)
  BY <1>6, <1>7
<1>13. ui.crossed \in BOOLEAN /\ Doing(todo) = {Data!Do("pass", NoArea)} /\ Data!Do("pass", NoArea).do = "pass"
       /\ RefreshLast(todo)
  BY DEF DataSound, DataTyped, Doing, Data!Do, RefreshLast
<1> HIDE DEF todo
(* what is asked for again has not failed yet *)
<1>14. ASSUME NEW b, LayersTyped(b), b.sel = ui.sel, b.saved = ui.saved, b.info = ui.info, b.m = ui.m,
              \A y \in StreetModes : y \in ui.failed => y \in b.failed \/ InFlight(b, y),
              \A y : InFlight(ui, y) => InFlight(b, y), ~ui.crossed, ui.runs = {}
       PROVE  Fits(b, todo)
  <2>1. StepsFit(b, Doing(todo))
    BY <1>13 DEF StepsFit
  <2>2. ASSUME NEW y \in StreetModes PROVE ModeFits(b, Doing(todo), y)
    <3>1. Wanted(b, y) = Wanted(ui, y)
      BY <1>14 DEF Wanted
    <3> QED BY <1>14, <3>1, QuietStreets DEF ModeFits
  <2> QED BY <1>13, <2>1, <2>2 DEF Fits
<1>15. CASE wanted = {}
  <2>1. w = v
    BY <1>15
  <2> HIDE DEF w
  <2>2. ASSUME ~v.crossed, v.runs = {} PROVE Fits(v, todo)
    BY <1>11, <1>12, <1>14, <2>2
  <2> QED BY <1>1, <1>11, <1>12, <1>13, <2>1, <2>2, StreetsHandler
<1>16. CASE wanted # {}
  <2>1. w = n
    BY <1>16
  <2>2. \A y \in ui.failed : y = x \/ y \in g
    BY <1>11
  <2> HIDE DEF w, x, f, g
  <2>3. StreetFields \subseteq DOMAIN z /\ z.failed = g /\ \A h \in StreetFields \ {"failed"} : z[h] = v[h]
    BY <1>10 DEF StreetFields
  <2>4. /\ z.sel = ui.sel /\ z.saved = ui.saved /\ z.info = ui.info /\ z.m = ui.m /\ z.failed = g
        /\ z.runs = ui.runs /\ z.crossed = ui.crossed /\ z.net = v.net
    BY <1>11, <2>3 DEF StreetFields
  <2> HIDE DEF z
  <2>5. LayersTyped(z) /\ (\A r \in z.net : R(r)) /\ \A y : InFlight(ui, y) => InFlight(z, y)
    <3>1. LayersTyped(z)
      BY <2>3, <2>4 DEF StreetsSound, LayersTyped
    <3>2. \A r \in z.net : R(r)
      BY <1>9, <2>4
    <3>3. \A y : InFlight(ui, y) => InFlight(z, y)
      BY <1>12, <2>4 DEF InFlight
    <3> QED BY <3>1, <3>2, <3>3
  <2>6. /\ LayersTyped(n) /\ (\A h \in StreetFields \ {"net"} : n[h] = z[h])
        /\ InFlight(n, x) /\ \A y : InFlight(z, y) => InFlight(n, y)
    BY <2>5, AskedOffStreets
  <2> HIDE DEF n
  <2>7. /\ n.sel = ui.sel /\ n.saved = ui.saved /\ n.info = ui.info /\ n.m = ui.m /\ n.failed = g
        /\ n.runs = ui.runs /\ n.crossed = ui.crossed
    BY <2>4, <2>6 DEF StreetFields
  <2>8. ASSUME ~n.crossed, n.runs = {} PROVE Fits(n, todo)
    BY <1>14, <2>2, <2>5, <2>6, <2>7, <2>8
  <2> QED BY <1>1, <1>13, <2>1, <2>6, <2>7, <2>8, StreetsHandler
<1> QED BY <1>15, <1>16

LEMMA StreetsKept ==
    ASSUME DataSound(ui), StreetsSound(ui), Data!Next
    PROVE  StreetsSound(ui')
<1>1. ASSUME Data!DecodeEnds PROVE StreetsSound(ui')
  <2> DEFINE q == Tail(ui.queue)
             t == Head(ui.queue)
             w == [ui EXCEPT !.queue = q, !.trips = t]
  <2>1. ui' = w
    BY <1>1 DEF Data!DecodeEnds
  <2> HIDE DEF q, t
  <2>2. StreetFields \subseteq DOMAIN w /\ \A f \in StreetFields : w[f] = ui[f]
    BY DEF StreetsSound, LayersTyped, StreetFields
  <2> HIDE DEF w
  <2>3. /\ w.sel = ui.sel /\ w.saved = ui.saved /\ w.info = ui.info /\ w.m = ui.m /\ w.failed = ui.failed
        /\ w.runs = ui.runs /\ w.crossed = ui.crossed /\ w.net = ui.net
    BY <2>2 DEF StreetFields
  <2>4. LayersTyped(w)
    BY <2>2, <2>3 DEF StreetsSound, LayersTyped
  <2>5. \A D : \A x \in StreetModes : ModeFits(ui, D, x) => ModeFits(w, D, x)
    BY <2>3 DEF ModeFits, Wanted, InFlight
  <2>6. StreetsSound(w)
    BY <2>3, <2>4, <2>5, StreetsSettled
  <2> QED BY <2>1, <2>6
<1>2. ASSUME Data!AnswerExpires PROVE StreetsSound(ui')
  <2>1. PICK k : ui' = [ui EXCEPT !.answers = k]
    BY <1>2 DEF Data!AnswerExpires
  <2> DEFINE w == [ui EXCEPT !.answers = k]
  <2>2. StreetFields \subseteq DOMAIN w /\ \A f \in StreetFields : w[f] = ui[f]
    BY DEF StreetsSound, LayersTyped, StreetFields
  <2> HIDE DEF w
  <2>3. /\ w.sel = ui.sel /\ w.saved = ui.saved /\ w.info = ui.info /\ w.m = ui.m /\ w.failed = ui.failed
        /\ w.runs = ui.runs /\ w.crossed = ui.crossed /\ w.net = ui.net
    BY <2>2 DEF StreetFields
  <2>4. LayersTyped(w)
    BY <2>2, <2>3 DEF StreetsSound, LayersTyped
  <2>5. \A D : \A x \in StreetModes : ModeFits(ui, D, x) => ModeFits(w, D, x)
    BY <2>3 DEF ModeFits, Wanted, InFlight
  <2>6. StreetsSound(w)
    BY <2>3, <2>4, <2>5, StreetsSettled
  <2> QED BY <2>1, <2>6 DEF w
<1> QED BY <1>1, <1>2, HandlerRunsStreets, SettleStreets, SelectLocationStreets, StreetModeChangeStreets,
           FiltersAppliedStreets DEF Data!Next

LEMMA StreetsStart ==
    ASSUME Data!Init
    PROVE  StreetsSound(ui)
<1> PICK a \in {NoArea, CHOOSE x \in Areas : TRUE} \cap (Areas \cup {NoArea}) :
            ui = Data!FetchTrips([Data!Start EXCEPT !.sel = a, !.overlay = a, !.cache = {a} \ {NoArea}])
  BY DEF Data!Init
<1> DEFINE u == [Data!Start EXCEPT !.sel = a, !.overlay = a, !.cache = {a} \ {NoArea}]
           off == [vis |-> FALSE, area |-> NoArea]
           layers == [x \in StreetModes |-> off]
<1>1. /\ StreetFields \subseteq DOMAIN u /\ u.info = layers /\ u.m = layers
      /\ u.saved = NoMode /\ u.net = {} /\ u.runs = {}
  BY DEF Data!Start, StreetFields
<1>2. off.vis = FALSE /\ off.area = NoArea /\ {"vis", "area"} \subseteq DOMAIN off
  OBVIOUS
<1>5. ui = Data!FetchTrips(u)
  OBVIOUS
<1> HIDE DEF u, off
<1>3. LayersTyped(u) /\ \A r \in u.net : FALSE
  BY <1>1, <1>2 DEF LayersTyped
<1>4. LayersTyped(ui) /\ \A f \in StreetFields \ {"net"} : ui[f] = u[f]
  BY <1>3, <1>5, LoadOffStreets
<1>7. ui.info = layers /\ ui.m = layers /\ ui.saved = NoMode /\ ui.runs = {}
  BY <1>1, <1>4 DEF StreetFields
<1>9. Doing(<< >>) = {} /\ RefreshLast(<< >>)
  BY DEF Doing, RefreshLast
<1>10. \A x \in StreetModes : ~Wanted(ui, x)
  BY <1>7, StreetsAssumption DEF Wanted
<1>11. Fits(ui, << >>)
  BY <1>2, <1>7, <1>9, <1>10 DEF Fits, StepsFit, ModeFits
<1> QED BY <1>4, <1>7, <1>11 DEF StreetsSound

LEMMA StreetsAreOfSelection ==
    ASSUME StreetsSound(ui)
    PROVE  Data!StreetsOfSelection
<1> SUFFICES ASSUME Data!Settled, ~ui.crossed, NEW x \in StreetModes, x \notin ui.failed
             PROVE  /\ ui.m[x].vis = (ui.saved = x /\ ui.sel # NoArea)
                    /\ ui.m[x].vis => ui.m[x].area = ui.sel
  BY DEF Data!StreetsOfSelection
<1>1. ui.runs = {} /\ ~InFlight(ui, x)
  BY DEF Data!Settled, InFlight
<1>2. ui.m[x].vis \in BOOLEAN
  BY DEF StreetsSound, LayersTyped
<1>3. /\ ~Wanted(ui, x) => ~ui.m[x].vis
      /\ Wanted(ui, x) => ui.m[x].area = ui.sel /\ ui.m[x].vis
  BY <1>1, QuietStreets
<1> QED BY <1>2, <1>3 DEF Wanted

-----------------------------------------------------------------------------
(* The answers together.                                                   *)

AnswersInv ==
    /\ page = "data" => DataSound(ui) /\ TripsSound(ui) /\ PaintSound(ui) /\ StreetsSound(ui)
    /\ page = "dashboard" => OpenSound(ui)
    /\ page = "journal" => StorySound(ui)
    /\ page = "navigation" => LedSound(ui)
    /\ page = "route" => RouteSound(ui)
    /\ page = "drive" => PlanSound(ui) /\ StatsSound(ui)
    /\ page = "scene" => ListSound(ui)

LEMMA AnswersInvariance == WebSpec => []AnswersInv
<1>1. WebInit => AnswersInv
  BY FlagsStart, TripsStart, PaintStart, StreetsStart, OpenStart, StoryStart, LedStart, RouteStart,
     PlanStart, StatsStart, ListStart DEF WebInit, AnswersInv
<1>2. AnswersInv /\ [WebNext]_<<vars, page, ui>> => AnswersInv'
  <2> SUFFICES ASSUME AnswersInv, [WebNext]_<<vars, page, ui>> PROVE AnswersInv'
    OBVIOUS
  <2>1. CASE UNCHANGED <<vars, page, ui>>
    BY <2>1 DEF AnswersInv
  <2>2. CASE WebNext
    <3>1. page' = page
      BY <2>2 DEF WebNext
    <3>2. ASSUME page = "data" PROVE DataSound(ui') /\ TripsSound(ui') /\ PaintSound(ui') /\ StreetsSound(ui')
      BY <2>2, <3>2, FlagsKept, TripsKept, PaintKept, StreetsKept DEF WebNext, AnswersInv
    <3>3. ASSUME page = "dashboard" PROVE OpenSound(ui')
      BY <2>2, <3>3, OpenKept DEF WebNext, AnswersInv
    <3>4. ASSUME page = "journal" PROVE StorySound(ui')
      BY <2>2, <3>4, StoryKept DEF WebNext, AnswersInv
    <3>5. ASSUME page = "navigation" PROVE LedSound(ui')
      BY <2>2, <3>5, LedKept DEF WebNext, AnswersInv
    <3>6. ASSUME page = "route" PROVE RouteSound(ui')
      BY <2>2, <3>6, RouteKept DEF WebNext, AnswersInv
    <3>7. ASSUME page = "drive" PROVE PlanSound(ui') /\ StatsSound(ui')
      BY <2>2, <3>7, PlanKept, StatsKept DEF WebNext, AnswersInv
    <3>8. ASSUME page = "scene" PROVE ListSound(ui')
      BY <2>2, <3>8, ListKept DEF WebNext, AnswersInv
    <3> QED BY <3>1, <3>2, <3>3, <3>4, <3>5, <3>6, <3>7, <3>8 DEF AnswersInv
  <2> QED BY <2>1, <2>2
<1>3. QED
  BY <1>1, <1>2, PTL DEF WebSpec

(* Whatever the order in which the answers come back, fail or are aborted: *)
(* what a page shows is the answer to its last question, the period, area, *)
(* range or segments selected now (data-manager.js, app-controller.js,     *)
(* coverage-management, coverage-journal, live-navigation, optimal-route,  *)
(* driving-navigation, the lens scenes). Where a model records that a load *)
(* failed or that two of them overlapped, the property does not speak.     *)
THEOREM AnswersAreOfSelection == WebSpec => []AnswersOfSelection
<1>1. AnswersInv => AnswersOfSelection
  BY TripsAreOfFilters, StreetsAreOfSelection, OverlayIsOfSelection, OpenIsOne, StoryTold, LedToArea,
     RouteIsOfSelection, PlanIsOfArea, StatsAreOfSelection, ListIsOfNow DEF AnswersInv, AnswersOfSelection
<1>2. QED
  BY <1>1, AnswersInvariance, PTL
=============================================================================
