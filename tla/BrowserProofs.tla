---------------------------- MODULE BrowserProofs ----------------------------
(***************************************************************************)
(* What holds of parts of the browser for every set of pages, filters,     *)
(* layers, areas, popups and streets and for every bound, where the run    *)
(* web_map checks one instance: the application shell, whose URL, visit,   *)
(* content and page modules stay in step; the saving of the segments       *)
(* driven in live navigation; what there is one of, or what has an owner:  *)
(* map, popup, style change, view, scene, replay, watch; and that what a   *)
(* page waits for has something on its way that ends it. Each part         *)
(* has one inductive invariant (ShellSound, DrivenSound, ProxySound and    *)
(* so on), a predicate of the page's record: a helper of the model is      *)
(* shown to preserve it once, for any record, and an action is a           *)
(* composition of helpers and of changes to fields the invariant does not  *)
(* speak of.                                                               *)
(***************************************************************************)
EXTENDS BrowserMapPages, FiniteSetTheorems, TLAPS

Marks == Filters \cup {NoFilter}
Bound(u) == {p \in Pages : u.mods[p] = "bound"}

(* Only pages whose module has registered itself run, and none before the  *)
(* application is ready.                                                   *)
RunsBound(u) ==
    /\ u.due \subseteq Bound(u) /\ u.waiting \subseteq Bound(u) /\ u.active \subseteq Bound(u)
    /\ ~u.ready => u.active = {}

LEMMA EnsuredKeeps ==
    ASSUME NEW u \in Shell!States, NEW p \in Pages, RunsBound(u)
    PROVE  /\ Shell!Ensured(u, p) \in Shell!States /\ RunsBound(Shell!Ensured(u, p))
           /\ \A f \in {"hist", "at", "rendered", "location", "crumb", "visit", "filters", "told",
                        "due", "waiting", "active", "late", "drift", "ready", "steps"} :
                  Shell!Ensured(u, p)[f] = u[f]
<1> DEFINE v == Shell!Ensured(u, p)
           kept == {"hist", "at", "rendered", "location", "crumb", "visit", "filters", "told",
                    "due", "waiting", "active", "late", "drift", "ready", "steps"}
<1>1. CASE u.mods[p] # "absent"
  <2>1. v = u
    BY <1>1 DEF Shell!Ensured
  <2> QED BY <2>1
<1>2. CASE u.mods[p] = "absent" /\ p \in MapPages /\ u.script # "ready"
  <2> DEFINE m == [u.mods EXCEPT ![p] = "library"]
             sc == IF u.script = "none" THEN "loading" ELSE u.script
  <2>1. v = [u EXCEPT !.mods = m, !.pending = TRUE, !.script = sc]
    BY <1>2 DEF Shell!Ensured
  <2>2. v \in Shell!States
    <3>1. m \in [Pages -> {"absent", "library", "importing", "bound"}]
      BY DEF Shell!States
    <3>2. sc \in {"none", "loading", "failed", "ready"}
      BY DEF Shell!States
    <3> HIDE DEF m, sc, v
    <3> QED BY <2>1, <3>1, <3>2 DEF Shell!States
  <2>3. \A f \in kept : v[f] = u[f]
    BY <2>1, ZenonT(60) DEF Shell!States
  <2>4. \A x \in Pages : u.mods[x] = "bound" => v.mods[x] = "bound"
    BY <1>2, <2>1 DEF Shell!States
  <2> QED BY <2>2, <2>3, <2>4 DEF RunsBound, Bound
<1>3. CASE u.mods[p] = "absent" /\ ~(p \in MapPages /\ u.script # "ready")
  <2> DEFINE m == [u.mods EXCEPT ![p] = "importing"]
  <2>1. v = [u EXCEPT !.mods = m]
    BY <1>3 DEF Shell!Ensured
  <2>2. v \in Shell!States
    <3>1. m \in [Pages -> {"absent", "library", "importing", "bound"}]
      BY DEF Shell!States
    <3> HIDE DEF m, v
    <3> QED BY <2>1, <3>1 DEF Shell!States
  <2>3. \A f \in kept : v[f] = u[f]
    BY <2>1 DEF Shell!States
  <2>4. \A x \in Pages : u.mods[x] = "bound" => v.mods[x] = "bound"
    BY <1>3, <2>1 DEF Shell!States
  <2> QED BY <2>2, <2>3, <2>4 DEF RunsBound, Bound
<1>4. QED
  BY <1>1, <1>2, <1>3

LEMMA StartedKeeps ==
    ASSUME NEW u \in Shell!States, RunsBound(u), u.steps < ShellSteps, NEW to \in Pages, NEW q \in Marks
    PROVE  LET v == Shell!Started(u, to, q) IN
           /\ v \in Shell!States /\ RunsBound(v)
           /\ v.hist = u.hist /\ v.at = u.at /\ v.told = u.told /\ v.filters = u.filters
           /\ v.drift = u.drift /\ v.location = to /\ v.visit.to = to /\ v.visit.phase = "fetching"
           /\ v.active \ v.late \subseteq (u.active \ u.late) \ {u.location}
<1> DEFINE w == Shell!Ensured(u, to)
           from == u.location
           act == IF w.mods[from] = "bound" THEN w.active \ {from} ELSE w.active
           lt == w.late \ {from}
           vis == [to |-> to, q |-> q, phase |-> "fetching"]
           v == Shell!Started(u, to, q)
<1>1. /\ w \in Shell!States /\ RunsBound(w)
      /\ w.hist = u.hist /\ w.at = u.at /\ w.told = u.told /\ w.filters = u.filters
      /\ w.drift = u.drift /\ w.steps = u.steps /\ w.active = u.active /\ w.late = u.late
  BY EnsuredKeeps
<1>2. from \in Pages /\ u.steps \in Nat /\ w.steps + 1 \in 0..ShellSteps
  BY <1>1, ShellAssumption DEF Shell!States
<1>3. v = [[w EXCEPT !.active = act, !.late = lt] EXCEPT
               !.location = to, !.visit = vis, !.steps = @ + 1]
  BY DEF Shell!Started, Shell!Unloaded
<1>4. act \in SUBSET Pages /\ lt \in SUBSET Pages /\ act \subseteq w.active
  BY <1>1 DEF Shell!States
<1>5. act \ lt \subseteq (w.active \ w.late) \ {from}
  BY <1>1 DEF RunsBound, Bound
<1>6. vis \in [to : Pages, q : Filters \cup {NoFilter}, phase : {"none", "fetching", "replaced"}]
      /\ vis.to = to /\ vis.phase = "fetching"
  BY DEF Marks
<1> HIDE DEF w, from, act, lt, vis, v
<1>7. /\ v.hist = w.hist /\ v.at = w.at /\ v.told = w.told /\ v.filters = w.filters
      /\ v.drift = w.drift /\ v.location = to /\ v.visit = vis /\ v.active = act /\ v.late = lt
      /\ v.due = w.due /\ v.waiting = w.waiting /\ v.mods = w.mods /\ v.ready = w.ready
  BY <1>1, <1>3 DEF Shell!States
<1>8. v \in Shell!States
  BY <1>1, <1>2, <1>3, <1>4, <1>6, ZenonT(60) DEF Shell!States
<1>9. RunsBound(v)
  BY <1>1, <1>4, <1>7 DEF RunsBound, Bound
<1>10. QED
  BY <1>1, <1>5, <1>6, <1>7, <1>8, <1>9 DEF v, from

(* Run initialises no page but the rendered one.                           *)
LEMMA RunKeeps ==
    ASSUME NEW u \in Shell!States, RunsBound(u), NEW ps \in SUBSET Bound(u)
    PROVE  LET v == Shell!Run(u, ps) IN
           /\ v \in Shell!States /\ RunsBound(v)
           /\ \A f \in {"hist", "at", "rendered", "location", "crumb", "visit", "filters", "told",
                        "drift", "ready"} : v[f] = u[f]
           /\ v.active \ v.late \subseteq (u.active \ u.late) \cup {u.rendered}
           /\ u.visit.phase = "fetching" => v.active \ v.late \subseteq u.active \ u.late
<1> DEFINE here == {p \in ps : p = u.rendered}
           wt == u.waiting \cup here
           act == u.active \cup here
           lt == IF u.visit.phase = "fetching" THEN u.late \cup here ELSE u.late \ here
           v == Shell!Run(u, ps)
<1>1. here \in SUBSET Pages /\ here \subseteq {u.rendered} /\ here \subseteq Bound(u)
  BY DEF Bound
<1>2. CASE ~u.ready
  <2>1. v = [u EXCEPT !.waiting = wt]
    BY <1>2 DEF Shell!Run
  <2>2. wt \in SUBSET Pages /\ wt \subseteq Bound(u)
    BY <1>1 DEF Shell!States, RunsBound
  <2> HIDE DEF wt, v
  <2>3. v \in Shell!States /\ v.waiting = wt
    BY <2>1, <2>2 DEF Shell!States
  <2>4. \A f \in {"hist", "at", "rendered", "location", "crumb", "visit", "filters", "told",
                  "drift", "ready", "mods", "due", "active", "late"} : v[f] = u[f]
    BY <2>1 DEF Shell!States
  <2>5. RunsBound(v)
    BY <2>2, <2>3, <2>4 DEF RunsBound, Bound
  <2> QED BY <2>3, <2>4, <2>5 DEF v
<1>3. CASE u.ready
  <2>1. v = [u EXCEPT !.active = act, !.late = lt]
    BY <1>3 DEF Shell!Run
  <2>2. act \in SUBSET Pages /\ act \subseteq Bound(u) /\ lt \in SUBSET Pages
    BY <1>1 DEF Shell!States, RunsBound
  <2>3. /\ act \ lt \subseteq (u.active \ u.late) \cup {u.rendered}
        /\ u.visit.phase = "fetching" => act \ lt \subseteq u.active \ u.late
    BY <1>1
  <2> HIDE DEF act, lt, v
  <2>4. v \in Shell!States /\ v.active = act /\ v.late = lt
    BY <2>1, <2>2 DEF Shell!States
  <2>5. \A f \in {"hist", "at", "rendered", "location", "crumb", "visit", "filters", "told",
                  "drift", "ready", "mods", "due", "waiting"} : v[f] = u[f]
    BY <2>1 DEF Shell!States
  <2>6. RunsBound(v)
    BY <1>3, <2>2, <2>4, <2>5 DEF RunsBound, Bound
  <2> QED BY <2>3, <2>4, <2>5, <2>6 DEF v
<1>4. QED
  BY <1>2, <1>3 DEF Shell!States

-----------------------------------------------------------------------------
(* The shell's inductive invariant: where the URL, a visit and the content *)
(* are between the steps of a visit. `drift' suspends all of it.           *)

UrlOf(u) == u.hist[u.at].path

InStep(u) ==
    /\ u.location = UrlOf(u)
    /\ u.visit.phase = "none" => u.rendered = UrlOf(u) /\ u.crumb = UrlOf(u)
    /\ u.visit.phase # "none" => u.visit.to = UrlOf(u)
    /\ u.visit.phase = "replaced" => u.rendered = UrlOf(u)
    /\ u.active \ u.late \subseteq IF u.visit.phase = "fetching" THEN {} ELSE {u.rendered}

ShellSound(u) ==
    /\ u \in Shell!States
    /\ u.at \in 1..Len(u.hist)
    /\ u.told = u.filters
    /\ RunsBound(u)
    /\ ~u.drift => InStep(u)

(* Loading modules and libraries concerns only what may run.               *)
LEMMA LoadingSound ==
    ASSUME NEW u, ShellSound(u), NEW v \in Shell!States,
           \A f \in {"hist", "at", "rendered", "location", "crumb", "visit", "filters", "told",
                     "waiting", "active", "late", "drift", "ready"} : v[f] = u[f],
           Bound(u) \subseteq Bound(v), v.due \subseteq Bound(v)
    PROVE  ShellSound(v)
<1>1. RunsBound(v)
  BY DEF ShellSound, RunsBound
<1>2. InStep(u) => InStep(v)
  BY DEF InStep, UrlOf
<1>3. QED
  BY <1>1, <1>2 DEF ShellSound

Modules == [Pages -> {"absent", "library", "importing", "bound"}]

(* A change of the modules, and of the script's state beside it.           *)
LEMMA ModulesSound ==
    ASSUME ShellSound(ui), NEW m \in Modules, NEW sc \in {"none", "loading", "failed", "ready"},
           NEW pd \in BOOLEAN, NEW d \in SUBSET Pages,
           ui' = [ui EXCEPT !.mods = m, !.script = sc, !.pending = pd, !.due = d],
           \A p \in Pages : ui.mods[p] = "bound" => m[p] = "bound",
           \A p \in d : p \in ui.due \/ m[p] = "bound"
    PROVE  ShellSound(ui')
<1>1. ui \in Shell!States /\ ui.due \subseteq Bound(ui)
  BY DEF ShellSound, RunsBound
<1>2. ui' \in Shell!States
  BY <1>1, ZenonT(60) DEF Shell!States, Modules
<1>3. /\ \A f \in {"hist", "at", "rendered", "location", "crumb", "visit", "filters", "told",
                   "waiting", "active", "late", "drift", "ready"} : ui'[f] = ui[f]
      /\ ui'.mods = m /\ ui'.due = d
  BY <1>1 DEF Shell!States
<1>4. Bound(ui) \subseteq Bound(ui')
  BY <1>3 DEF Bound
<1>5. ui'.due \subseteq Bound(ui')
  BY <1>1, <1>3 DEF Bound
<1>6. QED
  BY <1>2, <1>3, <1>4, <1>5, LoadingSound, ZenonT(60)

(* The callbacks of libraries and modules are of that form.            *)
LEMMA LoadsSound ==
    ASSUME ShellSound(ui),
           \/ Shell!LibraryLoads \/ Shell!LibraryFails \/ Shell!LibraryTimesOut
           \/ \E p \in Pages : Shell!ModuleArrives(p) \/ Shell!ModuleFails(p)
    PROVE  ShellSound(ui')
<1> DEFINE changed(m, sc, pd, d) == ui' = [ui EXCEPT !.mods = m, !.script = sc, !.pending = pd, !.due = d]
           to(x) == [p \in Pages |-> IF ui.mods[p] = "library" THEN x ELSE ui.mods[p]]
<1>1. /\ ui \in Shell!States /\ ui.mods \in Modules /\ ui.due \in SUBSET Pages
      /\ ui.script \in {"none", "loading", "failed", "ready"} /\ ui.pending \in BOOLEAN
  BY DEF ShellSound, Shell!States, Modules
<1>3. \A x \in {"absent", "importing"} :
          to(x) \in Modules /\ \A p \in Pages : ui.mods[p] = "bound" => to(x)[p] = "bound"
  BY <1>1 DEF Modules
<1>4. CASE Shell!LibraryLoads
  <2>1. changed(to("importing"), "ready", FALSE, ui.due)
    BY <1>1, <1>4 DEF Shell!LibraryLoads, Shell!States
  <2> HIDE DEF to
  <2> QED BY <1>1, <1>3, <2>1, ModulesSound
<1>5. CASE Shell!LibraryFails
  <2>1. changed(to("absent"), "failed", FALSE, ui.due)
    BY <1>1, <1>5 DEF Shell!LibraryFails, Shell!Rejected, Shell!States
  <2> HIDE DEF to
  <2> QED BY <1>1, <1>3, <2>1, ModulesSound
<1>6. CASE Shell!LibraryTimesOut
  <2>1. changed(to("absent"), ui.script, FALSE, ui.due)
    BY <1>1, <1>6 DEF Shell!LibraryTimesOut, Shell!Rejected, Shell!States
  <2> HIDE DEF to
  <2> QED BY <1>1, <1>3, <2>1, ModulesSound
<1>7. ASSUME NEW p \in Pages, Shell!ModuleArrives(p) PROVE ShellSound(ui')
  <2> DEFINE m == [ui.mods EXCEPT ![p] = "bound"]
             d == ui.due \cup {p}
  <2>1. changed(m, ui.script, ui.pending, d)
    BY <1>1, <1>7 DEF Shell!ModuleArrives, Shell!States
  <2>2. /\ m \in Modules /\ d \in SUBSET Pages
        /\ \A x \in Pages : ui.mods[x] = "bound" => m[x] = "bound"
        /\ \A x \in d : x \in ui.due \/ m[x] = "bound"
    BY <1>1 DEF Modules
  <2> HIDE DEF m, d
  <2> QED BY <1>1, <2>1, <2>2, ModulesSound, ZenonT(60)
<1>8. ASSUME NEW p \in Pages, Shell!ModuleFails(p) PROVE ShellSound(ui')
  <2> DEFINE m == [ui.mods EXCEPT ![p] = "absent"]
  <2>1. changed(m, ui.script, ui.pending, ui.due)
    BY <1>1, <1>8 DEF Shell!ModuleFails, Shell!States
  <2>2. m \in Modules /\ \A x \in Pages : ui.mods[x] = "bound" => m[x] = "bound"
    BY <1>1, <1>8 DEF Modules, Shell!ModuleFails
  <2> HIDE DEF m
  <2> QED BY <1>1, <2>1, <2>2, ModulesSound
<1>9. QED
  BY <1>4, <1>5, <1>6, <1>7, <1>8

LEMMA RunDueSound ==
    ASSUME ShellSound(ui), NEW p \in Pages, Shell!RunDue(p)
    PROVE  ShellSound(ui')
<1> DEFINE d == ui.due \ {p}
           u == [ui EXCEPT !.due = d]
<1>1. ui \in Shell!States /\ RunsBound(ui) /\ p \in Bound(ui) /\ d \in SUBSET Pages
  BY DEF ShellSound, RunsBound, Shell!RunDue, Bound
<1>2. u \in Shell!States /\ u.due = d
  BY <1>1 DEF Shell!States
<1>3. \A f \in {"hist", "at", "rendered", "location", "crumb", "visit", "filters", "told",
                "waiting", "active", "late", "drift", "ready", "mods"} : u[f] = ui[f]
  BY <1>1 DEF Shell!States
<1>4. ui' = Shell!Run(u, {p})
  BY DEF Shell!RunDue
<1> HIDE DEF u
<1>5. RunsBound(u) /\ {p} \in SUBSET Bound(u)
  BY <1>1, <1>2, <1>3 DEF RunsBound, Bound
<1>6. /\ ui' \in Shell!States /\ RunsBound(ui')
      /\ \A f \in {"hist", "at", "rendered", "location", "crumb", "visit", "filters", "told",
                   "drift", "ready"} : ui'[f] = u[f]
      /\ ui'.active \ ui'.late \subseteq (u.active \ u.late) \cup {u.rendered}
      /\ u.visit.phase = "fetching" => ui'.active \ ui'.late \subseteq u.active \ u.late
  BY <1>2, <1>4, <1>5, RunKeeps
<1>7. InStep(ui) => InStep(ui')
  BY <1>3, <1>6 DEF InStep, UrlOf
<1>8. QED
  BY <1>3, <1>6, <1>7 DEF ShellSound

(* The session history.                                                    *)
Entries == [path : Pages, q : Filters \cup {NoFilter}, src : {"swup", "es-store"}]

LEMMA PushedOnto ==
    ASSUME NEW E, NEW s \in Seq(E), NEW n \in 1..Len(s), NEW e \in E
    PROVE  LET h == Append(SubSeq(s, 1, n), e) IN h \in Seq(E) /\ Len(h) = n + 1 /\ h[n + 1] = e
<1> DEFINE t == SubSeq(s, 1, n)
<1>1. t \in Seq(E) /\ Len(t) = n /\ n \in Nat
  OBVIOUS
<1> HIDE DEF t
<1>2. LET h == Append(t, e) IN h \in Seq(E) /\ Len(h) = n + 1 /\ h[n + 1] = e
  BY <1>1
<1>3. QED
  BY <1>2 DEF t

LEMMA ReplacedAt ==
    ASSUME NEW E, NEW s \in Seq(E), NEW n \in 1..Len(s), NEW e \in E
    PROVE  LET h == [s EXCEPT ![n] = e] IN h \in Seq(E) /\ Len(h) = Len(s) /\ h[n] = e
OBVIOUS

LEMMA HistoryTypes ==
    ASSUME NEW u, ShellSound(u)
    PROVE  /\ u \in Shell!States /\ u.hist \in Seq(Entries)
           /\ u.at \in Nat /\ u.at \in 1..Len(u.hist) /\ u.at \in 1..MaxEntries
           /\ u.hist[u.at] \in Entries /\ u.steps \in Nat
           /\ MaxEntries \in Nat /\ ShellSteps \in Nat
<1>1. u \in Shell!States /\ u.at \in 1..Len(u.hist)
  BY DEF ShellSound
<1>2. u.hist \in Seq(Entries) /\ u.at \in 1..MaxEntries /\ u.steps \in 0..ShellSteps
  BY <1>1 DEF Shell!States, Entries
<1>3. QED
  BY <1>1, <1>2, ShellAssumption

(* A history entry of the store's own keeps the path it is pushed on.      *)
LEMMA UpdateFiltersSound ==
    ASSUME ShellSound(ui), NEW q \in Marks, NEW push \in BOOLEAN, Shell!UpdateFilters(q, push)
    PROVE  ShellSound(ui')
<1> DEFINE u == [ui EXCEPT !.filters = q, !.told = q, !.steps = ui.steps + 1]
           here == ui.hist[ui.at]
           e == IF push THEN [here EXCEPT !.q = q, !.src = "es-store"] ELSE [here EXCEPT !.q = q]
           h == IF push THEN Append(SubSeq(ui.hist, 1, ui.at), e) ELSE [ui.hist EXCEPT ![ui.at] = e]
           a == IF push THEN ui.at + 1 ELSE ui.at
<1>1. /\ ui \in Shell!States /\ ui.hist \in Seq(Entries)
      /\ ui.at \in Nat /\ ui.at \in 1..Len(ui.hist) /\ ui.at \in 1..MaxEntries
      /\ here \in Entries /\ ui.steps \in Nat /\ MaxEntries \in Nat /\ ShellSteps \in Nat
  BY HistoryTypes
<1>2. ui.steps + 1 \in 0..ShellSteps /\ (push => ui.at < MaxEntries)
  BY <1>1 DEF Shell!UpdateFilters, Shell!User
<1>3. u \in Shell!States
  BY <1>1, <1>2 DEF Shell!States, Marks
<1>4. ui' = [u EXCEPT !.hist = h, !.at = a]
  BY <1>1 DEF Shell!UpdateFilters, Shell!Synced, Shell!States
<1>5. e \in Entries /\ e.path = here.path
  BY <1>1 DEF Entries, Marks
<1> HIDE DEF e
<1>6. h \in Seq(Entries) /\ a \in 1..Len(h) /\ h[a] = e /\ a \in 1..MaxEntries
  <2>1. CASE push
    BY <1>1, <1>2, <1>5, <2>1, PushedOnto
  <2>2. CASE ~push
    BY <1>1, <1>5, <2>2, ReplacedAt
  <2> QED BY <2>1, <2>2
<1> HIDE DEF h, a
<1>7. ui' \in Shell!States /\ ui'.hist = h /\ ui'.at = a /\ ui'.filters = q /\ ui'.told = q
  BY <1>1, <1>3, <1>4, <1>6, ZenonT(60) DEF Shell!States, Entries
<1>8. \A f \in {"rendered", "location", "crumb", "visit", "due", "waiting", "active", "late",
                "drift", "ready", "mods"} : ui'[f] = ui[f]
  BY <1>1, <1>4 DEF Shell!States
<1>9. RunsBound(ui')
  BY <1>8 DEF ShellSound, RunsBound, Bound
<1>10. UrlOf(ui') = UrlOf(ui)
  BY <1>5, <1>6, <1>7 DEF UrlOf
<1>11. InStep(ui) => InStep(ui')
  BY <1>8, <1>10 DEF InStep
<1>12. QED
  BY <1>6, <1>7, <1>8, <1>9, <1>11 DEF ShellSound

(* The default date changes the filters and not the history.               *)
LEMMA DefaultDateSound ==
    ASSUME ShellSound(ui), NEW q \in Filters, Shell!ApplyDefaultDateRange(q)
    PROVE  ShellSound(ui')
<1>1. ui \in Shell!States /\ ui.steps \in Nat /\ ShellSteps \in Nat
  BY HistoryTypes
<1>2. ui' = [ui EXCEPT !.filters = q, !.told = q, !.steps = ui.steps + 1] /\ ui.steps + 1 \in 0..ShellSteps
  BY <1>1 DEF Shell!ApplyDefaultDateRange, Shell!User
<1>3. ui' \in Shell!States /\ ui'.told = ui'.filters
  BY <1>1, <1>2 DEF Shell!States, Marks
<1>4. \A f \in {"hist", "at", "rendered", "location", "crumb", "visit", "due", "waiting", "active", "late",
                "drift", "ready", "mods"} : ui'[f] = ui[f]
  BY <1>1, <1>2 DEF Shell!States
<1>5. RunsBound(ui') /\ (InStep(ui) => InStep(ui')) /\ ui'.at \in 1..Len(ui'.hist) /\ (~ui'.drift => InStep(ui))
  BY <1>4 DEF ShellSound, RunsBound, Bound, InStep, UrlOf
<1> QED BY <1>3, <1>5 DEF ShellSound

LEMMA NavigateSound ==
    ASSUME ShellSound(ui), NEW p \in Pages, Shell!Navigate(p)
    PROVE  ShellSound(ui')
<1> DEFINE u == Shell!Started(ui, p, NoFilter)
           e == [path |-> p, q |-> NoFilter, src |-> "swup"]
           h == Append(SubSeq(u.hist, 1, u.at), e)
<1>1. /\ ui \in Shell!States /\ RunsBound(ui) /\ ui.steps < ShellSteps /\ NoFilter \in Marks
      /\ ui.at < MaxEntries /\ ui.visit.phase # "replaced"
  BY DEF ShellSound, Shell!Navigate, Shell!User, Marks
<1>2. /\ u \in Shell!States /\ RunsBound(u)
      /\ u.hist = ui.hist /\ u.at = ui.at /\ u.told = ui.told /\ u.filters = ui.filters
      /\ u.drift = ui.drift /\ u.location = p /\ u.visit.to = p /\ u.visit.phase = "fetching"
      /\ u.active \ u.late \subseteq (ui.active \ ui.late) \ {ui.location}
  BY <1>1, StartedKeeps
<1>3. ui' = [u EXCEPT !.hist = h, !.at = u.at + 1]
  BY <1>2 DEF Shell!Navigate, Shell!States
<1> HIDE DEF u
<1>4. /\ u.hist \in Seq(Entries) /\ u.at \in 1..Len(u.hist) /\ u.at \in Nat
      /\ u.at + 1 \in 1..MaxEntries /\ e \in Entries
  <2>1. e \in Entries
    BY DEF Entries
  <2> HIDE DEF e
  <2> QED BY <1>1, <1>2, <2>1, HistoryTypes
<1>5. h \in Seq(Entries) /\ Len(h) = u.at + 1 /\ h[u.at + 1].path = p
  <2>1. e.path = p
    OBVIOUS
  <2> HIDE DEF e
  <2> QED BY <1>4, <2>1, PushedOnto
<1> HIDE DEF h
<1>6. ui' \in Shell!States /\ ui'.hist = h /\ ui'.at = u.at + 1
  BY <1>2, <1>3, <1>4, <1>5 DEF Shell!States, Entries
<1>7. \A f \in {"rendered", "location", "crumb", "visit", "due", "waiting", "active", "late",
                "drift", "ready", "mods", "filters", "told"} : ui'[f] = u[f]
  BY <1>2, <1>3 DEF Shell!States
<1>8. RunsBound(ui')
  BY <1>2, <1>7 DEF RunsBound, Bound
<1>9. UrlOf(ui') = p
  BY <1>5, <1>6 DEF UrlOf
<1>10. InStep(ui) => u.active \ u.late = {}
  <2>1. ui.visit.phase \in {"none", "fetching"}
    BY <1>1 DEF Shell!States
  <2> QED BY <1>2, <2>1 DEF InStep
<1>11. InStep(ui) => InStep(ui')
  BY <1>2, <1>7, <1>9, <1>10 DEF InStep
<1>12. QED
  BY <1>2, <1>4, <1>5, <1>6, <1>7, <1>8, <1>11 DEF ShellSound

LEMMA AppliedKeeps ==
    ASSUME NEW u \in Shell!States, u.told = u.filters, RunsBound(u), NEW q \in Marks
    PROVE  LET v == Shell!Applied(u, q) IN
           /\ v \in Shell!States /\ v.told = v.filters /\ RunsBound(v)
           /\ \A f \in {"hist", "at", "rendered", "location", "crumb", "visit", "mods", "due", "waiting",
                        "active", "late", "drift", "ready", "steps"} : v[f] = u[f]
<1> DEFINE v == Shell!Applied(u, q)
<1>1. CASE q \in {NoFilter, u.filters}
  <2>1. v = u
    BY <1>1 DEF Shell!Applied
  <2> QED BY <2>1
<1>2. CASE q \notin {NoFilter, u.filters}
  <2>1. v = [u EXCEPT !.filters = q, !.told = q]
    BY <1>2 DEF Shell!Applied
  <2> HIDE DEF v
  <2>2. v \in Shell!States /\ v.told = v.filters
    BY <2>1 DEF Shell!States, Marks
  <2>3. \A f \in {"hist", "at", "rendered", "location", "crumb", "visit", "mods", "due", "waiting",
                  "active", "late", "drift", "ready", "steps"} : v[f] = u[f]
    BY <2>1 DEF Shell!States
  <2>4. RunsBound(v)
    BY <2>3 DEF RunsBound, Bound
  <2> QED BY <2>2, <2>3, <2>4 DEF v
<1>3. QED
  BY <1>1, <1>2

(* Back and forward: an entry that is skipped is of the rendered route, or *)
(* a visit is under way and the drift is noted.                            *)
LEMMA PopStateSound ==
    ASSUME ShellSound(ui), NEW i \in 1..MaxEntries, Shell!PopState(i)
    PROVE  ShellSound(ui')
<1> DEFINE e == ui.hist[i]
           u == [ui EXCEPT !.at = i]
<1>1. /\ ui \in Shell!States /\ ui.hist \in Seq(Entries) /\ i \in 1..Len(ui.hist) /\ e \in Entries
      /\ ui.steps \in Nat /\ ui.steps < ShellSteps /\ ShellSteps \in Nat
      /\ ui.visit.phase \in {"none", "fetching"} /\ ui.drift \in BOOLEAN
  <2>1. i \in 1..Len(ui.hist) /\ ui.steps < ShellSteps /\ ui.visit.phase # "replaced"
    BY DEF Shell!PopState, Shell!User
  <2>2. ui \in Shell!States /\ ui.hist \in Seq(Entries) /\ ui.steps \in Nat /\ ShellSteps \in Nat
    BY HistoryTypes
  <2>3. e \in Entries
    BY <2>1, <2>2
  <2>4. ui.visit.phase \in {"none", "fetching", "replaced"} /\ ui.drift \in BOOLEAN
    BY <2>2 DEF Shell!States
  <2> QED BY <2>1, <2>2, <2>3, <2>4
<1>2. e.path \in Pages /\ e.q \in Marks
  BY <1>1 DEF Entries, Marks
<1>3. u \in Shell!States /\ u.at = i
  BY <1>1 DEF Shell!States
<1>4. \A f \in {"hist", "rendered", "location", "crumb", "visit", "filters", "told", "due", "waiting",
                "active", "late", "drift", "ready", "mods", "steps"} : u[f] = ui[f]
  BY <1>1 DEF Shell!States
<1>5. ui' = IF Shell!SkipPopState(e)
            THEN [Shell!StorePopState(u, e) EXCEPT !.steps = @ + 1,
                                                   !.drift = @ \/ ui.visit.phase = "fetching"]
            ELSE Shell!Started(u, e.path, e.q)
  BY DEF Shell!PopState
<1> HIDE DEF e, u
<1>6. RunsBound(u)
  BY <1>4 DEF ShellSound, RunsBound, Bound
<1>7. CASE Shell!SkipPopState(e)
  <2> DEFINE v == Shell!Applied(u, e.q)
             dr == v.drift \/ ui.visit.phase = "fetching"
  <2>1. e.path = ui.rendered /\ Shell!StorePopState(u, e) = v
    BY <1>7 DEF Shell!SkipPopState, Shell!StorePopState
  <2>2. /\ v \in Shell!States /\ v.told = v.filters /\ RunsBound(v)
        /\ \A f \in {"hist", "at", "rendered", "location", "crumb", "visit", "mods", "due", "waiting",
                     "active", "late", "drift", "ready", "steps"} : v[f] = u[f]
    BY <1>2, <1>3, <1>4, <1>6, AppliedKeeps DEF ShellSound
  <2> HIDE DEF v
  <2>3. ui' = [v EXCEPT !.steps = v.steps + 1, !.drift = dr]
    BY <1>5, <1>7, <2>1
  <2>4. v.steps + 1 \in 0..ShellSteps /\ dr \in BOOLEAN
    BY <1>1, <1>4, <2>2
  <2>5. dr <=> ui.drift \/ ui.visit.phase = "fetching"
    BY <1>4, <2>2
  <2> HIDE DEF dr
  <2>6. ui' \in Shell!States /\ ui'.drift = dr
    BY <2>2, <2>3, <2>4 DEF Shell!States
  <2>7. \A f \in {"hist", "at", "rendered", "location", "crumb", "visit", "mods", "due", "waiting",
                  "active", "late", "ready", "told", "filters"} : ui'[f] = v[f]
    BY <2>2, <2>3 DEF Shell!States
  <2>8. RunsBound(ui')
    BY <2>2, <2>7 DEF RunsBound, Bound
  <2>9. UrlOf(ui') = ui.rendered
    BY <1>3, <1>4, <2>1, <2>2, <2>7 DEF UrlOf, e
  <2>10. ~ui'.drift => InStep(ui')
    <3>1. ~ui'.drift => ~ui.drift /\ ui.visit.phase = "none"
      BY <1>1, <2>5, <2>6
    <3>2. ~ui.drift => InStep(ui)
      BY DEF ShellSound
    <3>3. /\ ui'.rendered = ui.rendered /\ ui'.location = ui.location /\ ui'.crumb = ui.crumb
          /\ ui'.visit = ui.visit /\ ui'.active = ui.active /\ ui'.late = ui.late
      BY <1>4, <2>2, <2>7
    <3> QED BY <2>9, <3>1, <3>2, <3>3 DEF InStep
  <2> QED BY <1>1, <1>3, <1>4, <2>2, <2>6, <2>7, <2>8, <2>10 DEF ShellSound
<1>8. CASE ~Shell!SkipPopState(e)
  <2>1. ui' = Shell!Started(u, e.path, e.q) /\ u.steps < ShellSteps
    BY <1>1, <1>4, <1>5, <1>8
  <2>2. /\ ui' \in Shell!States /\ RunsBound(ui')
        /\ ui'.hist = u.hist /\ ui'.at = u.at /\ ui'.told = u.told /\ ui'.filters = u.filters
        /\ ui'.drift = u.drift /\ ui'.location = e.path /\ ui'.visit.to = e.path
        /\ ui'.visit.phase = "fetching"
        /\ ui'.active \ ui'.late \subseteq (u.active \ u.late) \ {u.location}
    BY <1>2, <1>3, <1>6, <2>1, StartedKeeps
  <2>3. UrlOf(ui') = e.path
    BY <1>3, <1>4, <2>2 DEF UrlOf, e
  <2>4. InStep(ui) => ui'.active \ ui'.late = {}
    BY <1>1, <1>4, <2>2 DEF InStep
  <2>5. InStep(ui) => InStep(ui')
    BY <2>2, <2>3, <2>4 DEF InStep
  <2> QED BY <1>1, <1>3, <1>4, <2>2, <2>5 DEF ShellSound
<1>9. QED
  BY <1>7, <1>8

LEMMA ContentReplaceSound ==
    ASSUME ShellSound(ui), Shell!ContentReplace
    PROVE  ShellSound(ui')
<1> DEFINE to == ui.visit.to
           vis == [ui.visit EXCEPT !.phase = "replaced"]
<1>1. ui \in Shell!States /\ ui.visit.phase = "fetching"
  BY DEF ShellSound, Shell!ContentReplace
<1>2. /\ to \in Pages /\ vis.to = to /\ vis.phase = "replaced"
      /\ vis \in [to : Pages, q : Filters \cup {NoFilter}, phase : {"none", "fetching", "replaced"}]
  BY <1>1 DEF Shell!States
<1>3. ui' = [ui EXCEPT !.rendered = to, !.visit = vis]
  BY <1>1 DEF Shell!ContentReplace, Shell!States
<1> HIDE DEF vis
<1>4. ui' \in Shell!States /\ ui'.rendered = to /\ ui'.visit = vis
  BY <1>1, <1>2, <1>3 DEF Shell!States
<1>5. \A f \in {"hist", "at", "location", "crumb", "filters", "told", "mods", "due", "waiting",
                "active", "late", "drift", "ready"} : ui'[f] = ui[f]
  BY <1>1, <1>3 DEF Shell!States
<1>6. RunsBound(ui')
  BY <1>5 DEF ShellSound, RunsBound, Bound
<1>7. InStep(ui) => InStep(ui')
  BY <1>1, <1>2, <1>4, <1>5 DEF InStep, UrlOf
<1>8. QED
  BY <1>4, <1>5, <1>6, <1>7 DEF ShellSound

LEMMA PageViewSound ==
    ASSUME ShellSound(ui), Shell!PageView
    PROVE  ShellSound(ui')
<1> DEFINE u == [ui EXCEPT !.visit = Shell!NoVisit, !.crumb = Shell!Url.path]
           w == Shell!Applied(u, ui.visit.q)
           ps == {p \in Pages : w.mods[p] = "bound"}
<1>1. /\ ui \in Shell!States /\ ui.visit.phase = "replaced" /\ ui.visit.q \in Marks
      /\ Shell!Url = ui.hist[ui.at] /\ Shell!Url.path \in Pages
  <2>1. ui.hist[ui.at] \in Entries
    BY HistoryTypes
  <2> QED BY <2>1 DEF ShellSound, Shell!States, Shell!PageView, Shell!Url, Marks, Entries
<1>2. Shell!NoVisit.phase = "none"
      /\ Shell!NoVisit \in [to : Pages, q : Filters \cup {NoFilter}, phase : {"none", "fetching", "replaced"}]
  BY ShellAssumption DEF Shell!NoVisit
<1>3. /\ u \in Shell!States /\ u.visit.phase = "none" /\ u.crumb = Shell!Url.path
      /\ \A f \in {"hist", "at", "rendered", "location", "filters", "told", "mods", "due", "waiting",
                   "active", "late", "drift", "ready"} : u[f] = ui[f]
  BY <1>1, <1>2, ZenonT(60) DEF Shell!States
<1> HIDE DEF u
<1>4. RunsBound(u) /\ u.told = u.filters
  BY <1>3 DEF ShellSound, RunsBound, Bound
<1>5. /\ w \in Shell!States /\ w.told = w.filters /\ RunsBound(w)
      /\ \A f \in {"hist", "at", "rendered", "location", "crumb", "visit", "mods", "due", "waiting",
                   "active", "late", "drift", "ready", "steps"} : w[f] = u[f]
  BY <1>1, <1>3, <1>4, AppliedKeeps
<1>6. ui' = IF ui.ready THEN Shell!Run(w, ps) ELSE w
  BY DEF Shell!PageView, u
<1>7. ps \in SUBSET Bound(w)
  BY DEF Bound
<1> HIDE DEF w, ps
<1>8. /\ ui' \in Shell!States /\ RunsBound(ui')
      /\ \A f \in {"hist", "at", "rendered", "location", "crumb", "visit", "filters", "told",
                   "drift"} : ui'[f] = w[f]
      /\ ui'.active \ ui'.late \subseteq (w.active \ w.late) \cup {w.rendered}
  BY <1>5, <1>6, <1>7, RunKeeps
<1>9. InStep(ui) => InStep(ui')
  BY <1>1, <1>3, <1>5, <1>8 DEF InStep, UrlOf
<1>10. QED
  BY <1>3, <1>5, <1>8, <1>9 DEF ShellSound

LEMMA AppReadySound ==
    ASSUME ShellSound(ui), Shell!AppReady
    PROVE  ShellSound(ui')
<1> DEFINE u == [ui EXCEPT !.ready = TRUE, !.waiting = {}, !.rendered = Shell!Url.path,
                           !.crumb = Shell!Url.path]
<1>1. /\ ui \in Shell!States /\ ~ui.ready /\ RunsBound(ui)
      /\ Shell!Url = ui.hist[ui.at] /\ Shell!Url.path \in Pages
  <2>1. ui.hist[ui.at] \in Entries
    BY HistoryTypes
  <2> QED BY <2>1 DEF ShellSound, Shell!AppReady, Shell!Url, Entries
<1>2. /\ u \in Shell!States /\ u.rendered = Shell!Url.path /\ u.crumb = Shell!Url.path
      /\ u.ready = TRUE /\ u.waiting = {}
      /\ \A f \in {"hist", "at", "location", "visit", "filters", "told", "mods", "due",
                   "active", "late", "drift"} : u[f] = ui[f]
  BY <1>1, ZenonT(60) DEF Shell!States
<1>3. ui' = Shell!Run(u, ui.waiting)
  BY DEF Shell!AppReady
<1> HIDE DEF u
<1>4. RunsBound(u) /\ ui.waiting \in SUBSET Bound(u) /\ u.active = {}
  BY <1>1, <1>2 DEF RunsBound, Bound
<1>5. /\ ui' \in Shell!States /\ RunsBound(ui')
      /\ \A f \in {"hist", "at", "rendered", "location", "crumb", "visit", "filters", "told",
                   "drift", "ready"} : ui'[f] = u[f]
      /\ ui'.active \ ui'.late \subseteq (u.active \ u.late) \cup {u.rendered}
      /\ u.visit.phase = "fetching" => ui'.active \ ui'.late \subseteq u.active \ u.late
  BY <1>2, <1>3, <1>4, RunKeeps
<1>6. InStep(ui) => InStep(ui')
  BY <1>1, <1>2, <1>4, <1>5 DEF InStep, UrlOf
<1>7. QED
  BY <1>2, <1>5, <1>6 DEF ShellSound

LEMMA ShellStep ==
    ASSUME ShellSound(ui), Shell!Next
    PROVE  ShellSound(ui')
<1>1. ASSUME NEW q \in Filters \cup {NoFilter}, NEW push \in BOOLEAN, Shell!UpdateFilters(q, push)
      PROVE  ShellSound(ui')
  BY <1>1, UpdateFiltersSound DEF Marks
<1>2. QED
  BY <1>1, LoadsSound, RunDueSound, NavigateSound, PopStateSound, ContentReplaceSound,
     PageViewSound, AppReadySound, DefaultDateSound DEF Shell!Next

LEMMA ShellStart ==
    ASSUME Shell!Init
    PROVE  ShellSound(ui)
<1>1. PICK q \in Filters \cup {NoFilter} : ui = Shell!Booted(Home, q)
  BY DEF Shell!Init
<1> DEFINE e == [path |-> Home, q |-> q, src |-> "swup"]
           mods == [p \in Pages |-> "absent"]
           u == [ hist |-> <<e>>, at |-> 1,
                  rendered |-> Home, location |-> Home, crumb |-> Home, visit |-> Shell!NoVisit,
                  filters |-> q, told |-> q, script |-> "none", pending |-> FALSE,
                  mods |-> mods, due |-> {}, waiting |-> {},
                  active |-> {}, late |-> {}, drift |-> FALSE, ready |-> FALSE, steps |-> 0 ]
<1>2. ui = Shell!Ensured(u, Home)
  BY <1>1 DEF Shell!Booted
<1>3. e \in Entries /\ e.path = Home
  BY ShellAssumption DEF Entries
<1> HIDE DEF e
<1>4. <<e>> \in Seq(Entries) /\ Len(<<e>>) = 1 /\ <<e>>[1] = e
  BY <1>3
<1>5. mods \in [Pages -> {"absent", "library", "importing", "bound"}]
  OBVIOUS
<1>6. Shell!NoVisit.phase = "none"
      /\ Shell!NoVisit \in [to : Pages, q : Filters \cup {NoFilter}, phase : {"none", "fetching", "replaced"}]
  BY ShellAssumption DEF Shell!NoVisit
<1> HIDE DEF mods
<1>7. u \in Shell!States
  BY <1>4, <1>5, <1>6, ShellAssumption DEF Shell!States, Entries
<1>8. RunsBound(u)
  BY DEF RunsBound
<1>9. /\ u.hist = <<e>> /\ u.at = 1 /\ u.told = u.filters /\ u.visit = Shell!NoVisit
      /\ u.rendered = Home /\ u.crumb = Home /\ u.location = Home /\ u.active = {} /\ u.late = {}
  OBVIOUS
<1> HIDE DEF u
<1>10. /\ ui \in Shell!States /\ RunsBound(ui)
       /\ \A f \in {"hist", "at", "rendered", "location", "crumb", "visit", "filters", "told",
                    "due", "waiting", "active", "late", "drift", "ready", "steps"} : ui[f] = u[f]
  BY <1>2, <1>7, <1>8, EnsuredKeeps, ShellAssumption
<1>11. InStep(ui)
  BY <1>3, <1>4, <1>6, <1>9, <1>10 DEF InStep, UrlOf
<1>12. ui.told = ui.filters
  BY <1>9, <1>10
<1>13. ui.at \in 1..Len(ui.hist)
  <2>1. ui.at = 1 /\ ui.hist = <<e>>
    BY <1>9, <1>10
  <2> QED BY <1>4, <2>1
<1>14. QED
  BY <1>10, <1>11, <1>12, <1>13 DEF ShellSound

ShellInv == page = "shell" => ShellSound(ui)

LEMMA ShellInvariance == WebSpec => []ShellInv
<1>1. WebInit => ShellInv
  BY ShellStart DEF WebInit, ShellInv
<1>2. ShellInv /\ [WebNext]_<<vars, page, ui>> => ShellInv'
  <2> SUFFICES ASSUME ShellInv, [WebNext]_<<vars, page, ui>>, page' = "shell" PROVE ShellSound(ui')
    BY DEF ShellInv
  <2>1. CASE UNCHANGED <<vars, page, ui>>
    BY <2>1 DEF ShellInv
  <2>2. CASE WebNext
    <3>1. page = "shell" /\ (Shell!Next \/ UNCHANGED ui)
      BY <2>2 DEF WebNext
    <3>2. ShellSound(ui)
      BY <3>1 DEF ShellInv
    <3> QED BY <3>1, <3>2, ShellStep
  <2> QED BY <2>1, <2>2
<1>3. QED
  BY <1>1, <1>2, PTL DEF WebSpec

(* The shell's record keeps its shape: the history is a sequence of entries *)
(* within its bound, the phases of a visit and of the page modules are the *)
(* ones the code has (navigation.js, route-loader.js, store.js).           *)
THEOREM ShellTypes == WebSpec => [](page = "shell" => Shell!TypeOK)
<1>1. ShellInv => (page = "shell" => Shell!TypeOK)
  BY DEF ShellInv, ShellSound, Shell!TypeOK
<1>2. QED
  BY <1>1, ShellInvariance, PTL

(* At rest the address bar, the content and the breadcrumb agree, only the *)
(* rendered page is alive and the pages work on the filter of the store,   *)
(* through any mix of Swup visits, entries of the store, late and failing  *)
(* modules (navigation.js, route-loader.js, store.js, utils/dom.js).       *)
THEOREM ShellMatchesUrl == WebSpec => []PageMatchesUrl
<1>1. ASSUME ShellSound(ui)
      PROVE  Shell!RouteMatchesUrl /\ Shell!OnePageAlive /\ Shell!PagesKnowFilter
  BY <1>1 DEF ShellSound, InStep, UrlOf, Shell!Url, Shell!RouteMatchesUrl, Shell!OnePageAlive,
              Shell!PagesKnowFilter
<1>2. ShellInv => PageMatchesUrl
  BY <1>1 DEF ShellInv, PageMatchesUrl
<1>3. QED
  BY <1>2, ShellInvariance, PTL

-----------------------------------------------------------------------------
(* Live navigation: where a driven segment is until it is saved.           *)

SaveFields == {"marked", "kept", "cov", "dropped", "puts", "stranded"}
CovFields  == {"area", "und", "pend", "debounce", "retry", "fails"}

Held(u, x) ==
    x \in u.kept \/ x \in u.cov.pend \/ x \in u.dropped \/ \E q \in u.puts : x \in q.segs

NotLost(u) ==
    /\ SaveFields \subseteq DOMAIN u /\ CovFields \subseteq DOMAIN u.cov
    /\ u.cov.fails \in 0..MaxPersistRetries
    /\ \A x \in u.marked : Held(u, x)

Retried(u) ==
    u.cov.pend # {} /\ ~u.stranded =>
        u.cov.debounce \/ u.cov.retry \/ u.cov.fails = MaxPersistRetries

DrivenSound(u) == NotLost(u) /\ Retried(u)

(* Whatever else changes, this concerns the saving only.                   *)
LEMMA Unconcerned ==
    ASSUME NEW u, DrivenSound(u), NEW v, DOMAIN v = DOMAIN u, \A f \in SaveFields : v[f] = u[f]
    PROVE  DrivenSound(v)
<1>1. /\ v.marked = u.marked /\ v.kept = u.kept /\ v.cov = u.cov /\ v.dropped = u.dropped
      /\ v.puts = u.puts /\ v.stranded = u.stranded
  BY DEF SaveFields
<1>2. QED
  BY <1>1 DEF DrivenSound, NotLost, Retried, Held

LEMMA ResetCoverageSound ==
    ASSUME NEW u, NotLost(u)
    PROVE  DrivenSound(Navigation!ResetCoverage(u))
<1> DEFINE c == [u.cov EXCEPT !.und = {}, !.pend = {}, !.debounce = FALSE, !.retry = FALSE, !.fails = 0]
           d == u.dropped \cup u.cov.pend
           v == Navigation!ResetCoverage(u)
<1>1. v = [u EXCEPT !.dropped = d, !.cov = c]
  BY DEF Navigation!ResetCoverage
<1>2. CovFields \subseteq DOMAIN c /\ c.pend = {} /\ c.fails = 0
  BY DEF NotLost, CovFields
<1> HIDE DEF c, v
<1>3. /\ DOMAIN v = DOMAIN u /\ v.cov = c /\ v.dropped = d
      /\ v.marked = u.marked /\ v.kept = u.kept /\ v.puts = u.puts
  BY <1>1 DEF NotLost, SaveFields
<1>4. \A x \in v.marked : Held(v, x)
  BY <1>3 DEF NotLost, Held
<1>5. 0 \in 0..MaxPersistRetries
  BY NavigationAssumption
<1>6. QED
  BY <1>2, <1>3, <1>4, <1>5 DEF DrivenSound, NotLost, Retried, v

LEMMA PersistSound ==
    ASSUME NEW u, NotLost(u)
    PROVE  DrivenSound(Navigation!PersistDrivenSegments(u))
<1> DEFINE v == Navigation!PersistDrivenSegments(u)
           q == [id |-> u.steps, segs |-> u.cov.pend, area |-> u.cov.area]
           mv == u.moved \/ \E s \in u.cov.pend : s[1] # u.cov.area
           c == [u.cov EXCEPT !.pend = {}]
<1>1. CASE u.cov.pend = {}
  BY <1>1 DEF Navigation!PersistDrivenSegments, DrivenSound, Retried
<1>2. CASE u.cov.pend # {}
  <2>1. v = [u EXCEPT !.cov = c, !.puts = u.puts \cup {q}, !.moved = mv]
    BY <1>2 DEF Navigation!PersistDrivenSegments
  <2>2. q.segs = u.cov.pend
    OBVIOUS
  <2>3. CovFields \subseteq DOMAIN c /\ c.pend = {} /\ c.fails = u.cov.fails
    BY DEF NotLost, CovFields
  <2> HIDE DEF v, q, mv, c
  <2>4. /\ DOMAIN v = DOMAIN u /\ v.cov = c /\ v.puts = u.puts \cup {q}
        /\ v.marked = u.marked /\ v.kept = u.kept /\ v.dropped = u.dropped
    BY <2>1 DEF NotLost, SaveFields
  <2>5. \A x \in v.marked : Held(v, x)
    BY <2>2, <2>4 DEF NotLost, Held
  <2> QED BY <2>3, <2>4, <2>5 DEF DrivenSound, NotLost, Retried, v
<1>3. QED
  BY <1>1, <1>2

LEMMA MarkSound ==
    ASSUME NEW u, DrivenSound(u), NEW segs
    PROVE  DrivenSound(Navigation!MarkSegmentsDriven(u, segs))
<1> DEFINE v == Navigation!MarkSegmentsDriven(u, segs)
           c == [[u.cov EXCEPT !.und = @ \ segs] EXCEPT !.pend = @ \cup segs, !.retry = FALSE, !.debounce = TRUE]
           w == [u EXCEPT !.cov.und = @ \ segs, !.marked = @ \cup segs]
<1>1. CASE segs = {}
  BY <1>1 DEF Navigation!MarkSegmentsDriven
<1>2. CASE segs # {}
  <2>1. /\ DOMAIN w = DOMAIN u /\ w.cov = [u.cov EXCEPT !.und = @ \ segs]
        /\ w.marked = u.marked \cup segs /\ w.kept = u.kept /\ w.puts = u.puts
        /\ w.dropped = u.dropped
    BY DEF DrivenSound, NotLost, SaveFields
  <2>2. v = [w EXCEPT !.cov.pend = @ \cup segs, !.cov.retry = FALSE, !.cov.debounce = TRUE]
    BY <1>2 DEF Navigation!MarkSegmentsDriven, Navigation!QueueSegmentPersistence
  <2> HIDE DEF w, v
  <2>3. /\ DOMAIN v = DOMAIN u /\ v.cov = c /\ v.marked = u.marked \cup segs
        /\ v.kept = u.kept /\ v.puts = u.puts /\ v.dropped = u.dropped
    BY <2>1, <2>2 DEF DrivenSound, NotLost, SaveFields
  <2>4. CovFields \subseteq DOMAIN c /\ c.pend = u.cov.pend \cup segs /\ c.debounce
        /\ c.fails = u.cov.fails
    BY DEF DrivenSound, NotLost, CovFields
  <2> HIDE DEF c
  <2>5. \A x \in v.marked : Held(v, x)
    BY <2>3, <2>4 DEF DrivenSound, NotLost, Held
  <2> QED BY <2>3, <2>4, <2>5 DEF DrivenSound, NotLost, Retried, v
<1>3. QED
  BY <1>1, <1>2

(* The helpers that move the state machine, load a route or follow a task. *)
LEMMA TransitionSound ==
    ASSUME NEW u, DrivenSound(u), NEW st
    PROVE  DrivenSound(Navigation!TransitionTo(u, st))
<1> DEFINE v == Navigation!TransitionTo(u, st)
<1>1. DOMAIN v = DOMAIN u /\ \A f \in SaveFields : v[f] = u[f]
  BY DEF DrivenSound, NotLost, SaveFields, Navigation!TransitionTo
<1> HIDE DEF v
<1>2. DrivenSound(v)
  BY <1>1, Unconcerned
<1>3. QED
  BY <1>2 DEF v

LEMMA LoadRouteSound ==
    ASSUME NEW u, DrivenSound(u)
    PROVE  DrivenSound(Navigation!LoadRoute(u)) /\ DrivenSound(Navigation!AutoGenerateRoute(u))
<1> DEFINE v == Navigation!LoadRoute(u)
           w == Navigation!AutoGenerateRoute(u)
<1>1. DOMAIN v = DOMAIN u /\ \A f \in SaveFields : v[f] = u[f]
  BY DEF DrivenSound, NotLost, SaveFields, Navigation!LoadRoute
<1>2. DOMAIN w = DOMAIN u /\ \A f \in SaveFields : w[f] = u[f]
  BY DEF DrivenSound, NotLost, SaveFields, Navigation!AutoGenerateRoute
<1> HIDE DEF v, w
<1>3. DrivenSound(v) /\ DrivenSound(w)
  BY <1>1, <1>2, Unconcerned
<1>4. QED
  BY <1>3 DEF v, w

LEMMA ListenSound ==
    ASSUME NEW u, DrivenSound(u), NEW t
    PROVE  DrivenSound(Navigation!Listen(u, t)) /\ DrivenSound(Navigation!Closed(u, t))
<1> DEFINE v == Navigation!Listen(u, t)
           w == Navigation!Closed(u, t)
<1>1. DOMAIN v = DOMAIN u /\ \A f \in SaveFields : v[f] = u[f]
  BY DEF DrivenSound, NotLost, SaveFields, Navigation!Listen
<1>2. DOMAIN w = DOMAIN u /\ \A f \in SaveFields : w[f] = u[f]
  BY DEF DrivenSound, NotLost, SaveFields, Navigation!Closed
<1> HIDE DEF v, w
<1>3. DrivenSound(v) /\ DrivenSound(w)
  BY <1>1, <1>2, Unconcerned
<1>4. QED
  BY <1>3 DEF v, w

LEMMA ResetSound ==
    ASSUME NEW u, NotLost(u)
    PROVE  DrivenSound(Navigation!ResetRouteState(u))
<1> DEFINE w == Navigation!ResetCoverage(u)
           v == Navigation!ResetRouteState(u)
<1>1. DrivenSound(w)
  BY ResetCoverageSound
<1>2. v = [w EXCEPT
        !.st = "setup", !.silent = @ \/ u.panel # "setup", !.loaded = FALSE, !.route = NoArea, !.line = NoArea,
        !.watch = FALSE, !.prev = "none", !.smart = NoArea, !.resume = FALSE, !.way = NoArea,
        !.nav = FALSE]
  BY DEF Navigation!ResetRouteState
<1> HIDE DEF w, v
<1>3. DOMAIN v = DOMAIN w /\ \A f \in SaveFields : v[f] = w[f]
  BY <1>1, <1>2 DEF DrivenSound, NotLost, SaveFields
<1>4. DrivenSound(v)
  BY <1>1, <1>3, Unconcerned
<1>5. QED
  BY <1>4 DEF v

LEMMA CancelSound ==
    ASSUME NEW u, DrivenSound(u), NEW change, NEW to
    PROVE  /\ DrivenSound(Navigation!AfterCancel(u, change, to))
           /\ DrivenSound(Navigation!CancelGeneration(u, change, to))
<1>1. ASSUME NEW x, DrivenSound(x) PROVE DrivenSound(Navigation!AfterCancel(x, change, to))
  <2> DEFINE v == IF x.st = "generating" THEN Navigation!TransitionTo(x, "setup") ELSE x
             r == Navigation!ResetRouteState(v)
             w == [r EXCEPT !.area = to]
  <2>1. Navigation!AfterCancel(x, change, to) = IF change THEN Navigation!LoadRoute(w) ELSE v
    BY DEF Navigation!AfterCancel
  <2>2. DrivenSound(v)
    BY <1>1, TransitionSound
  <2> HIDE DEF v
  <2>3. DrivenSound(r)
    BY <2>2, ResetSound DEF DrivenSound
  <2> HIDE DEF r
  <2>4. DOMAIN w = DOMAIN r /\ \A f \in SaveFields : w[f] = r[f]
    BY <2>3 DEF DrivenSound, NotLost, SaveFields
  <2> HIDE DEF w
  <2>5. DrivenSound(w)
    BY <2>3, <2>4, Unconcerned
  <2>6. DrivenSound(Navigation!LoadRoute(w))
    BY <2>5, LoadRouteSound
  <2> QED BY <2>1, <2>2, <2>6
<1>2. DrivenSound(Navigation!CancelGeneration(u, change, to))
  <2> DEFINE x == Navigation!Closed(u, u.source)
             v == [x EXCEPT !.source = 0]
             w == [v EXCEPT !.cancels = @ \cup {[id |-> u.steps, task |-> v.task, change |-> change, to |-> to]}]
  <2>1. Navigation!CancelGeneration(u, change, to)
            = IF v.task = 0 THEN Navigation!AfterCancel(v, change, to) ELSE w
    BY DEF Navigation!CancelGeneration
  <2>2. DrivenSound(x)
    BY ListenSound
  <2> HIDE DEF x
  <2>3. DOMAIN v = DOMAIN x /\ \A f \in SaveFields : v[f] = x[f]
    BY <2>2 DEF DrivenSound, NotLost, SaveFields
  <2> HIDE DEF v
  <2>4. DrivenSound(v)
    BY <2>2, <2>3, Unconcerned
  <2>5. DOMAIN w = DOMAIN v /\ \A f \in SaveFields : w[f] = v[f]
    BY <2>4 DEF DrivenSound, NotLost, SaveFields
  <2> HIDE DEF w
  <2>6. DrivenSound(w)
    BY <2>4, <2>5, Unconcerned
  <2> QED BY <1>1, <2>1, <2>4, <2>6
<1>3. QED
  BY <1>1, <1>2

-----------------------------------------------------------------------------
(* The steps that save.                                                    *)

LEMMA SavingSound ==
    ASSUME DrivenSound(ui), Navigation!Saving
    PROVE  DrivenSound(ui')
<1>1. CASE Navigation!DebounceEnds
  <2> DEFINE u == [ui EXCEPT !.cov.debounce = FALSE]
  <2>1. u.cov = [ui.cov EXCEPT !.debounce = FALSE] /\ DOMAIN u = DOMAIN ui
        /\ \A f \in SaveFields \ {"cov"} : u[f] = ui[f]
    BY DEF DrivenSound, NotLost, SaveFields
  <2>2. ui' = Navigation!PersistDrivenSegments(u)
    BY <1>1 DEF Navigation!DebounceEnds
  <2> HIDE DEF u
  <2>3. NotLost(u)
    BY <2>1 DEF DrivenSound, NotLost, Held, SaveFields, CovFields
  <2> QED BY <2>2, <2>3, PersistSound
<1>2. CASE Navigation!RetryTimer
  <2> DEFINE u == [ui EXCEPT !.cov.retry = FALSE]
  <2>1. u.cov = [ui.cov EXCEPT !.retry = FALSE] /\ DOMAIN u = DOMAIN ui
        /\ \A f \in SaveFields \ {"cov"} : u[f] = ui[f]
    BY DEF DrivenSound, NotLost, SaveFields
  <2>2. ui' = Navigation!PersistDrivenSegments(u)
    BY <1>2 DEF Navigation!RetryTimer
  <2> HIDE DEF u
  <2>3. NotLost(u)
    BY <2>1 DEF DrivenSound, NotLost, Held, SaveFields, CovFields
  <2> QED BY <2>2, <2>3, PersistSound
<1>3. ASSUME NEW p \in ui.puts, Navigation!PersistDone(p) PROVE DrivenSound(ui')
  <2> DEFINE c == [ui.cov EXCEPT !.fails = 0, !.retry = FALSE]
             sd == ui.stranded \/ (ui.cov.pend # {} /\ ~ui.cov.debounce)
  <2>1. ui' = [ui EXCEPT !.puts = @ \ {p}, !.kept = @ \cup p.segs, !.cov = c, !.stranded = sd]
    BY <1>3 DEF Navigation!PersistDone
  <2>2. CovFields \subseteq DOMAIN c /\ c.pend = ui.cov.pend /\ c.debounce = ui.cov.debounce /\ c.fails = 0
    BY DEF DrivenSound, NotLost, CovFields
  <2>3. sd \/ ui.cov.pend = {} \/ ui.cov.debounce
    OBVIOUS
  <2> HIDE DEF c, sd
  <2>4. /\ DOMAIN ui' = DOMAIN ui /\ ui'.puts = ui.puts \ {p} /\ ui'.kept = ui.kept \cup p.segs
        /\ ui'.cov = c /\ ui'.stranded = sd /\ ui'.marked = ui.marked /\ ui'.dropped = ui.dropped
    BY <2>1 DEF DrivenSound, NotLost, SaveFields
  <2>5. \A x \in ui'.marked : Held(ui', x)
    BY <2>2, <2>4 DEF DrivenSound, NotLost, Held
  <2>6. 0 \in 0..MaxPersistRetries
    BY NavigationAssumption
  <2> QED BY <2>2, <2>3, <2>4, <2>5, <2>6 DEF DrivenSound, NotLost, Retried
<1>4. ASSUME NEW p \in ui.puts, Navigation!PersistFails(p) PROVE DrivenSound(ui')
  <2> DEFINE n == ui.cov.fails + 1
             again == n < MaxPersistRetries
             k == IF n > MaxPersistRetries THEN ui.cov.fails ELSE n
             c == [ui.cov EXCEPT !.pend = @ \cup p.segs, !.fails = k, !.retry = again]
             u == [ui EXCEPT !.puts = @ \ {p}, !.cov.pend = @ \cup p.segs, !.dropped = @ \ p.segs,
                             !.cov.fails = k]
  <2>1. ui.cov.fails \in Nat /\ ui.cov.fails <= MaxPersistRetries /\ MaxPersistRetries \in Nat
    BY NavigationAssumption DEF DrivenSound, NotLost
  <2>2. k \in 0..MaxPersistRetries /\ (again \/ k = MaxPersistRetries) /\ again \in BOOLEAN
        /\ (again <=> ~(n >= MaxPersistRetries))
    BY <2>1
  <2>3. ui' = IF n >= MaxPersistRetries THEN [u EXCEPT !.cov.retry = FALSE] ELSE [u EXCEPT !.cov.retry = TRUE]
    BY <1>4 DEF Navigation!PersistFails
  <2>4. /\ DOMAIN u = DOMAIN ui /\ u.puts = ui.puts \ {p} /\ u.dropped = ui.dropped \ p.segs
        /\ u.cov = [ui.cov EXCEPT !.pend = @ \cup p.segs, !.fails = k]
        /\ u.marked = ui.marked /\ u.kept = ui.kept /\ u.stranded = ui.stranded
    BY DEF DrivenSound, NotLost, SaveFields, CovFields
  <2>5. CovFields \subseteq DOMAIN c /\ c.pend = ui.cov.pend \cup p.segs /\ c.fails = k /\ c.retry = again
    BY DEF DrivenSound, NotLost, CovFields
  <2>6. c = [u.cov EXCEPT !.retry = again]
    BY <2>4 DEF DrivenSound, NotLost, CovFields
  <2>7. ui' = [u EXCEPT !.cov = c]
    <3>1. CASE again
      BY <2>2, <2>3, <2>6, <3>1
    <3>2. CASE ~again
      BY <2>2, <2>3, <2>6, <3>2
    <3> QED BY <3>1, <3>2
  <2> HIDE DEF u, c, k, n, again
  <2>8. /\ DOMAIN ui' = DOMAIN ui /\ ui'.puts = ui.puts \ {p} /\ ui'.dropped = ui.dropped \ p.segs
        /\ ui'.cov = c /\ ui'.marked = ui.marked /\ ui'.kept = ui.kept
    BY <2>4, <2>7 DEF DrivenSound, NotLost, SaveFields
  <2>9. \A x \in ui'.marked : Held(ui', x)
    BY <2>5, <2>8 DEF DrivenSound, NotLost, Held
  <2> QED BY <2>2, <2>5, <2>8, <2>9 DEF DrivenSound, NotLost, Retried
<1>5. QED
  BY <1>1, <1>2, <1>3, <1>4 DEF Navigation!Saving

-----------------------------------------------------------------------------
(* The steps that do not: each changes other fields of ui and applies the  *)
(* helpers above.                                                          *)

Aside(v) == DOMAIN v = DOMAIN ui /\ \A f \in SaveFields : v[f] = ui[f]

LEMMA AsideSound ==
    ASSUME DrivenSound(ui), NEW v, Aside(v)
    PROVE  DrivenSound(v)
BY Unconcerned DEF Aside

LEMMA GeneratingSound ==
    ASSUME DrivenSound(ui), Navigation!Generating
    PROVE  DrivenSound(ui')
<1> USE DEF DrivenSound, NotLost, SaveFields
<1>1. ASSUME NEW r \in ui.starts, Navigation!GenerationRefused(r) PROVE DrivenSound(ui')
  <2> DEFINE u == [ui EXCEPT !.starts = @ \ {r}]
  <2>1. ui' = Navigation!TransitionTo(u, "setup") /\ Aside(u)
    BY <1>1 DEF Navigation!GenerationRefused, Aside
  <2> HIDE DEF u, DrivenSound
  <2> QED BY <2>1, AsideSound, TransitionSound
<1>2. ASSUME NEW r \in ui.starts, NEW t \in Navigation!Tasks, Navigation!GenerationStarted(r, t)
      PROVE  DrivenSound(ui')
  <2> DEFINE u == [ui EXCEPT !.starts = @ \ {r}, !.made[t] = r.of,
                             !.crossed = @ \/ ui.source # 0 \/ ui.area # r.of, !.late = @ \/ ui.left]
  <2>1. ui' = Navigation!TransitionTo(Navigation!Listen(u, t), "generating") /\ Aside(u)
    BY <1>2 DEF Navigation!GenerationStarted, Aside
  <2> HIDE DEF u, DrivenSound
  <2> QED BY <2>1, AsideSound, ListenSound, TransitionSound
<1>3. ASSUME NEW t \in Navigation!Tasks, Navigation!ConnectionLost(t) PROVE DrivenSound(ui')
  <2>1. Aside(ui')
    BY <1>3 DEF Navigation!ConnectionLost, Aside
  <2> QED BY <2>1, AsideSound
<1>4. ASSUME NEW t \in Navigation!Tasks, Navigation!GenerationComplete(t) \/ Navigation!GenerationError(t)
      PROVE  DrivenSound(ui')
  <2> DEFINE x == Navigation!Closed(ui, t)
             u == [x EXCEPT !.task = 0, !.source = 0]
  <2>1. ui' = Navigation!LoadRoute(u) \/ ui' = Navigation!TransitionTo(u, "setup")
    BY <1>4 DEF Navigation!GenerationComplete, Navigation!GenerationError
  <2> HIDE DEF x
  <2>2. DrivenSound(x)
    <3> HIDE DEF DrivenSound
    <3> QED BY ListenSound DEF x
  <2>3. DOMAIN u = DOMAIN x /\ \A f \in SaveFields : u[f] = x[f]
    BY <2>2
  <2> HIDE DEF u, DrivenSound
  <2> QED BY <2>1, <2>2, <2>3, Unconcerned, LoadRouteSound, TransitionSound
<1>5. ASSUME NEW c \in ui.cancels, Navigation!Cancelled(c) PROVE DrivenSound(ui')
  <2> DEFINE u == [ui EXCEPT !.cancels = @ \ {c}, !.task = 0,
                             !.crossed = @ \/ ui.task # c.task \/ ui.source # 0]
  <2>1. ui' = Navigation!AfterCancel(u, c.change, c.to) /\ Aside(u)
    BY <1>5 DEF Navigation!Cancelled, Aside
  <2> HIDE DEF u, DrivenSound
  <2> QED BY <1>5, <2>1, AsideSound, CancelSound
<1>6. QED
  BY <1>1, <1>2, <1>3, <1>4, <1>5 DEF Navigation!Generating

LEMMA OnSound ==
    ASSUME NEW u, DrivenSound(u), NEW l, NEW at
    PROVE  DrivenSound(Navigation!On(l, at, u))
<1> DEFINE v == Navigation!On(l, at, u)
<1>1. DOMAIN v = DOMAIN u /\ \A f \in SaveFields : v[f] = u[f]
  BY DEF DrivenSound, NotLost, SaveFields, Navigation!On
<1> HIDE DEF v
<1>2. DrivenSound(v)
  BY <1>1, Unconcerned
<1>3. QED
  BY <1>2 DEF v

(* The area and the streets left in the record of the saving do not matter *)
(* to what is being saved.                                                 *)
LEMMA CovSound ==
    ASSUME NEW u, DrivenSound(u), NEW v, DOMAIN v = DOMAIN u,
           \A f \in SaveFields \ {"cov"} : v[f] = u[f],
           DOMAIN v.cov = DOMAIN u.cov,
           \A f \in {"pend", "debounce", "retry", "fails"} : v.cov[f] = u.cov[f]
    PROVE  DrivenSound(v)
<1>1. /\ v.marked = u.marked /\ v.kept = u.kept /\ v.dropped = u.dropped
      /\ v.puts = u.puts /\ v.stranded = u.stranded
      /\ v.cov.pend = u.cov.pend /\ v.cov.debounce = u.cov.debounce
      /\ v.cov.retry = u.cov.retry /\ v.cov.fails = u.cov.fails
  BY DEF SaveFields
<1>2. QED
  BY <1>1 DEF DrivenSound, NotLost, Retried, Held

LEMMA LoadsOfRouteSound ==
    ASSUME DrivenSound(ui), NEW l \in ui.loads,
           \/ Navigation!AreaArrives(l) \/ Navigation!RouteArrives(l) \/ Navigation!SegmentsSettled(l)
           \/ Navigation!EtaArrives(l) \/ Navigation!LoadFails(l)
    PROVE  DrivenSound(ui')
<1> USE DEF DrivenSound, NotLost, SaveFields
<1>1. CASE Navigation!AreaArrives(l)
  <2> DEFINE u == [ui EXCEPT !.loads = @ \ {l}]
  <2>1. /\ Aside(u)
        /\ \/ ui' = Navigation!On([l EXCEPT !.base = l.of], "route", u)
           \/ ui' = Navigation!AutoGenerateRoute(u)
    BY <1>1 DEF Navigation!AreaArrives, Aside
  <2> HIDE DEF u, DrivenSound
  <2> QED BY <2>1, AsideSound, OnSound, LoadRouteSound
<1>2. CASE Navigation!RouteArrives(l)
  <2> DEFINE u == [ui EXCEPT !.route = l.of, !.base = l.base, !.loaded = TRUE, !.line = l.of]
             v == [u EXCEPT !.cov.area = u.area]
  <2>1. ui' = Navigation!On(l, "segments", Navigation!ResetCoverage(v)) /\ Aside(u)
    BY <1>2 DEF Navigation!RouteArrives, Aside
  <2> HIDE DEF u
  <2>2. DrivenSound(u)
    <3> HIDE DEF DrivenSound
    <3> QED BY <2>1, AsideSound
  <2>3. /\ DOMAIN v = DOMAIN u /\ \A f \in SaveFields \ {"cov"} : v[f] = u[f]
        /\ v.cov = [u.cov EXCEPT !.area = u.area]
    BY <2>2
  <2>4. DOMAIN v.cov = DOMAIN u.cov
        /\ \A f \in {"pend", "debounce", "retry", "fails"} : v.cov[f] = u.cov[f]
    BY <2>2, <2>3 DEF CovFields
  <2> HIDE DEF v, DrivenSound
  <2>5. DrivenSound(v)
    BY <2>2, <2>3, <2>4, CovSound
  <2>6. DrivenSound(Navigation!ResetCoverage(v))
    BY <2>5, ResetCoverageSound DEF DrivenSound
  <2> QED BY <2>1, <2>6, OnSound
<1>3. CASE Navigation!SegmentsSettled(l)
  <2>1. PICK segs : ui' = Navigation!On(l, "eta", [ui EXCEPT !.cov.und = @ \cup segs])
    BY <1>3 DEF Navigation!SegmentsSettled
  <2> DEFINE v == [ui EXCEPT !.cov.und = @ \cup segs]
  <2>2. /\ DOMAIN v = DOMAIN ui /\ \A f \in SaveFields \ {"cov"} : v[f] = ui[f]
        /\ v.cov = [ui.cov EXCEPT !.und = @ \cup segs]
    OBVIOUS
  <2>3. DOMAIN v.cov = DOMAIN ui.cov
        /\ \A f \in {"pend", "debounce", "retry", "fails"} : v.cov[f] = ui.cov[f]
    BY <2>2 DEF CovFields
  <2>4. ui' = Navigation!On(l, "eta", v)
    BY <2>1
  <2> HIDE DEF v, DrivenSound
  <2>5. DrivenSound(v)
    BY <2>2, <2>3, CovSound
  <2> QED BY <2>4, <2>5, OnSound
<1>4. CASE Navigation!EtaArrives(l)
  <2> DEFINE u == [ui EXCEPT !.loads = @ \ {l}, !.late = @ \/ ui.left]
  <2>1. ui' = Navigation!TransitionTo(u, "preview") /\ Aside(u)
    BY <1>4 DEF Navigation!EtaArrives, Aside
  <2> HIDE DEF u, DrivenSound
  <2> QED BY <2>1, AsideSound, TransitionSound
<1>5. CASE Navigation!LoadFails(l)
  <2> DEFINE u == [ui EXCEPT !.loads = @ \ {l}, !.loaded = FALSE, !.line = NoArea]
             a == [u EXCEPT !.stuck = @ \/ u.st = "generating"]
             b == [u EXCEPT !.area = NoArea]
  <2>1. /\ Aside(u) /\ Aside(a) /\ Aside(b)
        /\ \/ ui' = a \/ ui' = Navigation!ResetRouteState(b) \/ ui' = Navigation!AutoGenerateRoute(u)
    BY <1>5 DEF Navigation!LoadFails, Navigation!InvalidateSelectedArea, Aside
  <2> HIDE DEF u, a, b
  <2>2. DrivenSound(u) /\ DrivenSound(a) /\ DrivenSound(b)
    <3> HIDE DEF DrivenSound
    <3> QED BY <2>1, AsideSound
  <2>3. NotLost(b)
    BY <2>2
  <2> HIDE DEF DrivenSound
  <2> QED BY <2>1, <2>2, <2>3, LoadRouteSound, ResetSound
<1>6. QED
  BY <1>1, <1>2, <1>3, <1>4, <1>5

LEMMA LeadSound ==
    ASSUME NEW u, DrivenSound(u)
    PROVE  /\ DrivenSound(Navigation!LeadToStart(u)) /\ DrivenSound(Navigation!StartNavigation(u))
           /\ DrivenSound(Navigation!StartGeolocation(u)) /\ DrivenSound(Navigation!OfferResumeFromAhead(u))
<1>1. ASSUME NEW x, DrivenSound(x)
      PROVE  DrivenSound(Navigation!StartGeolocation(x)) /\ DrivenSound(Navigation!StartNavigation(x))
             /\ DrivenSound([x EXCEPT !.nav = TRUE]) /\ DrivenSound([x EXCEPT !.offers = @ + 1])
  <2> DEFINE a == Navigation!StartGeolocation(x)
             b == Navigation!StartNavigation(x)
             c == [x EXCEPT !.nav = TRUE]
             d == [x EXCEPT !.offers = @ + 1]
  <2>1. /\ DOMAIN a = DOMAIN x /\ \A f \in SaveFields : a[f] = x[f]
        /\ DOMAIN b = DOMAIN x /\ \A f \in SaveFields : b[f] = x[f]
        /\ DOMAIN c = DOMAIN x /\ \A f \in SaveFields : c[f] = x[f]
        /\ DOMAIN d = DOMAIN x /\ \A f \in SaveFields : d[f] = x[f]
    BY <1>1 DEF DrivenSound, NotLost, SaveFields, Navigation!StartGeolocation, Navigation!StartNavigation
  <2> HIDE DEF a, b, c, d
  <2>2. DrivenSound(a) /\ DrivenSound(b) /\ DrivenSound(c) /\ DrivenSound(d)
    BY <1>1, <2>1, Unconcerned
  <2> QED BY <2>2 DEF a, b, c, d
<1>2. DrivenSound(Navigation!LeadToStart(u))
  BY <1>1, TransitionSound DEF Navigation!LeadToStart
<1>3. DrivenSound(Navigation!OfferResumeFromAhead(u))
  BY <1>1, TransitionSound DEF Navigation!OfferResumeFromAhead
<1>4. QED
  BY <1>1, <1>2, <1>3

LEMMA AnswersSound ==
    ASSUME DrivenSound(ui), Navigation!Loading
    PROVE  DrivenSound(ui')
<1> USE DEF DrivenSound, NotLost, SaveFields
<1>1. ASSUME NEW c \in ui.checks,
             \/ Navigation!PositionUnknown(c) \/ Navigation!WayArrives(c)
             \/ \E b \in BOOLEAN : Navigation!PositionKnown(c, b)
      PROVE  DrivenSound(ui')
  <2>1. Aside(ui')
    <3>1. CASE Navigation!PositionUnknown(c)
      BY <3>1 DEF Navigation!PositionUnknown, Aside
    <3>2. CASE Navigation!WayArrives(c)
      BY <3>2 DEF Navigation!WayArrives, Aside
    <3>3. ASSUME NEW b \in BOOLEAN, Navigation!PositionKnown(c, b) PROVE Aside(ui')
      <4> DEFINE u == [ui EXCEPT !.checks = @ \ {c}, !.prev = IF b THEN "on" ELSE "far", !.smart = ui.route]
                 v == [u EXCEPT !.checks = @ \cup {[c EXCEPT !.at = "way"]}]
      <4>1. Aside(u) /\ Aside(v)
        BY DEF Aside
      <4>2. ui' = IF b THEN u ELSE v
        BY <3>3 DEF Navigation!PositionKnown
      <4> QED BY <4>1, <4>2 DEF Aside
    <3> QED BY <1>1, <3>1, <3>2, <3>3
  <2> QED BY <2>1, AsideSound
<1>2. ASSUME NEW e \in ui.ends, Navigation!EndSaved(e) \/ Navigation!EndRefreshed(e)
      PROVE  DrivenSound(ui')
  <2>1. Aside(ui')
    <3>1. CASE Navigation!EndSaved(e)
      BY <3>1 DEF Navigation!EndSaved, Aside
    <3>2. CASE Navigation!EndRefreshed(e)
      BY <3>2 DEF Navigation!EndRefreshed, Aside
    <3> QED BY <1>2, <3>1, <3>2
  <2> QED BY <2>1, AsideSound
<1>3. CASE Navigation!WayToStartArrives
  <2> DEFINE u == [ui EXCEPT !.leads = @ - 1, !.late = @ \/ ui.left \/ ~ui.loaded]
  <2>1. ui' = Navigation!LeadToStart(u) /\ Aside(u)
    BY <1>3 DEF Navigation!WayToStartArrives, Aside
  <2> HIDE DEF u, DrivenSound
  <2> QED BY <2>1, AsideSound, LeadSound
<1>4. CASE Navigation!OfferAnswered
  <2> DEFINE u == [ui EXCEPT !.offers = @ - 1, !.late = @ \/ ~ui.nav]
             v == [u EXCEPT !.resume = TRUE]
  <2>1. /\ Aside(u) /\ Aside(v)
        /\ ui' = Navigation!TransitionTo(v, "ahead") \/ ui' = Navigation!TransitionTo(u, "off_route")
    BY <1>4 DEF Navigation!OfferAnswered, Aside
  <2> HIDE DEF u, v, DrivenSound
  <2> QED BY <2>1, AsideSound, TransitionSound
<1>5. CASE Navigation!StartTimer
  <2> DEFINE u == [ui EXCEPT !.timer = FALSE]
  <2>1. Aside(u) /\ ui' = IF u.st = "at_start" THEN Navigation!TransitionTo(u, "active") ELSE u
    BY <1>5 DEF Navigation!StartTimer, Aside
  <2> HIDE DEF u, DrivenSound
  <2> QED BY <2>1, AsideSound, TransitionSound
<1>6. CASE Navigation!HandleGeolocationError
  <2>1. Aside(ui')
    BY <1>6 DEF Navigation!HandleGeolocationError, Aside
  <2> QED BY <2>1, AsideSound
<1>7. QED
  BY <1>1, <1>2, <1>3, <1>4, <1>5, <1>6, LoadsOfRouteSound DEF Navigation!Loading

(* What the driver or the page does.                                       *)

LEMMA ActedSound ==
    ASSUME NEW u, DrivenSound(u)
    PROVE  DrivenSound(Navigation!Acted(u))
<1> DEFINE v == Navigation!Acted(u)
<1>1. DOMAIN v = DOMAIN u /\ \A f \in SaveFields : v[f] = u[f]
  BY DEF DrivenSound, NotLost, SaveFields, Navigation!Acted
<1> HIDE DEF v
<1>2. DrivenSound(v)
  BY <1>1, Unconcerned
<1>3. QED
  BY <1>2 DEF v

(* A position moves the state machine after the segments it drove are      *)
(* queued to be saved.                                                     *)
LEMMA UpdateNavigationSound ==
    ASSUME DrivenSound(ui), NEW f, NEW segs, Navigation!UpdateNavigation(f, segs)
    PROVE  DrivenSound(ui')
<1> DEFINE u == Navigation!MarkSegmentsDriven(Navigation!Acted(ui), segs)
           s == Navigation!TransitionTo(u, "at_start")
           h == Navigation!HandleNavigationStateTransitions(u, f)
           a == [s EXCEPT !.timer = TRUE]
           b == [h EXCEPT !.prev = f]
<1>1. ui' = IF ui.st = "to_start" THEN IF f = "on" THEN a ELSE u ELSE b
  BY DEF Navigation!UpdateNavigation
<1>2. DrivenSound(u)
  BY ActedSound, MarkSound
<1> HIDE DEF u
<1>3. DrivenSound(s)
  BY <1>2, TransitionSound
<1>4. DrivenSound(h)
  BY <1>2, TransitionSound, LeadSound DEF Navigation!HandleNavigationStateTransitions
<1> HIDE DEF s, h
<1>5. DOMAIN a = DOMAIN s /\ \A g \in SaveFields : a[g] = s[g]
  BY <1>3 DEF DrivenSound, NotLost, SaveFields
<1>6. DOMAIN b = DOMAIN h /\ \A g \in SaveFields : b[g] = h[g]
  BY <1>4 DEF DrivenSound, NotLost, SaveFields
<1> HIDE DEF a, b
<1>7. DrivenSound(a) /\ DrivenSound(b)
  BY <1>3, <1>4, <1>5, <1>6, Unconcerned
<1>8. QED
  BY <1>1, <1>2, <1>7

(* The end of a drive and of the page save what waits first; the reset of  *)
(* the route after that finds nothing to drop.                             *)
LEMMA EndingSound ==
    ASSUME DrivenSound(ui), Navigation!EndNavigation \/ Navigation!Leave
    PROVE  DrivenSound(ui')
<1>1. CASE Navigation!EndNavigation
  <2> DEFINE x == [ui EXCEPT !.nav = FALSE, !.watch = FALSE]
             u == Navigation!PersistDrivenSegments(Navigation!TransitionTo(x, "setup"))
             v == [u EXCEPT !.ends = @ \cup {[id |-> u.steps, at |-> "save", of |-> NoArea]}]
  <2>1. Aside(x)
    BY DEF Aside, DrivenSound, NotLost, SaveFields
  <2>2. ui' = Navigation!Acted(v)
    BY <1>1 DEF Navigation!EndNavigation
  <2> HIDE DEF x
  <2>3. DrivenSound(u)
    BY <2>1, AsideSound, TransitionSound, PersistSound DEF DrivenSound
  <2> HIDE DEF u
  <2>4. DOMAIN v = DOMAIN u /\ \A g \in SaveFields : v[g] = u[g]
    BY <2>3 DEF DrivenSound, NotLost, SaveFields
  <2> HIDE DEF v
  <2> QED BY <2>2, <2>3, <2>4, Unconcerned, ActedSound
<1>2. CASE Navigation!Leave
  <2> DEFINE x == Navigation!CancelGeneration(ui, FALSE, NoArea)
             u == [x EXCEPT !.left = TRUE]
  <2>1. ui' = Navigation!ResetRouteState(Navigation!PersistDrivenSegments(u))
    BY <1>2 DEF Navigation!Leave
  <2>2. DrivenSound(x)
    BY CancelSound
  <2> HIDE DEF x
  <2>3. DOMAIN u = DOMAIN x /\ \A g \in SaveFields : u[g] = x[g]
    BY <2>2 DEF DrivenSound, NotLost, SaveFields
  <2> HIDE DEF u
  <2>4. DrivenSound(u)
    BY <2>2, <2>3, Unconcerned
  <2>5. DrivenSound(Navigation!PersistDrivenSegments(u))
    BY <2>4, PersistSound DEF DrivenSound
  <2> QED BY <2>1, <2>5, ResetSound DEF DrivenSound
<1>3. QED
  BY <1>1, <1>2

LEMMA ActsSound ==
    ASSUME DrivenSound(ui), Navigation!Acts
    PROVE  DrivenSound(ui')
<1>1. CASE Navigation!ClickLoad
  BY <1>1, LoadRouteSound, ActedSound DEF Navigation!ClickLoad
<1>2. CASE Navigation!ClickCancel
  BY <1>2, CancelSound, ActedSound DEF Navigation!ClickCancel
<1>3. CASE Navigation!RegenerateRoute
  BY <1>3, ResetSound, LoadRouteSound, ActedSound DEF Navigation!RegenerateRoute, DrivenSound
<1>4. CASE Navigation!StartNavigatingToStart
  <2> DEFINE u == [ui EXCEPT !.leads = @ + 1]
  <2>1. Aside(u)
    BY DEF Aside, DrivenSound, NotLost, SaveFields
  <2>2. ui' = Navigation!Acted(IF ui.way # NoArea THEN Navigation!LeadToStart(ui) ELSE u)
    BY <1>4 DEF Navigation!StartNavigatingToStart
  <2> HIDE DEF u
  <2> QED BY <2>1, <2>2, AsideSound, LeadSound, ActedSound
<1>5. ASSUME NEW a, Navigation!HandleAreaChange(a) PROVE DrivenSound(ui')
  <2> DEFINE u == [ui EXCEPT !.crossed = @ \/ ui.cancels # {}]
  <2>1. Aside(u)
    BY DEF Aside, DrivenSound, NotLost, SaveFields
  <2>2. ui' = Navigation!Acted(Navigation!CancelGeneration(u, TRUE, a))
    BY <1>5 DEF Navigation!HandleAreaChange
  <2> HIDE DEF u
  <2> QED BY <2>1, <2>2, AsideSound, CancelSound, ActedSound
<1>6. ASSUME NEW b, Navigation!BeginNavigation(b) PROVE DrivenSound(ui')
  <2> DEFINE u == Navigation!StartNavigation(Navigation!TransitionTo(ui, "active"))
  <2>1. ui' = Navigation!Acted(IF u.loaded /\ b THEN Navigation!StartGeolocation(u) ELSE u)
    BY <1>6 DEF Navigation!BeginNavigation
  <2>2. DrivenSound(u)
    BY TransitionSound, LeadSound
  <2> HIDE DEF u
  <2> QED BY <2>1, <2>2, LeadSound, ActedSound
<1>7. CASE Navigation!ResumeFromAhead \/ Navigation!DismissResumePrompt
  <2> DEFINE u == [ui EXCEPT !.resume = FALSE]
  <2>1. Aside(u)
    BY DEF Aside, DrivenSound, NotLost, SaveFields
  <2>2. \/ ui' = Navigation!Acted(Navigation!TransitionTo(u, "active"))
        \/ ui' = Navigation!Acted(Navigation!TransitionTo(u, "off_route"))
    BY <1>7 DEF Navigation!ResumeFromAhead, Navigation!DismissResumePrompt
  <2> HIDE DEF u
  <2> QED BY <2>1, <2>2, AsideSound, TransitionSound, ActedSound
<1>8. CASE Navigation!ThemeChanges
  <2> DEFINE u == [ui EXCEPT !.line = NoArea]
  <2>1. Aside(u)
    BY DEF Aside, DrivenSound, NotLost, SaveFields
  <2>2. ui' = Navigation!Acted(u)
    BY <1>8 DEF Navigation!ThemeChanges
  <2> HIDE DEF u
  <2> QED BY <2>1, <2>2, AsideSound, ActedSound
<1>9. CASE Navigation!ShowSetup
  <2> DEFINE u == Navigation!TransitionTo(ui, "setup")
  <2>1. DrivenSound(u)
    BY TransitionSound
  <2>2. ui' = Navigation!Acted(u)
    BY <1>9 DEF Navigation!ShowSetup
  <2> HIDE DEF u
  <2> QED BY <2>1, <2>2, ActedSound
<1>10. QED
  BY <1>1, <1>2, <1>3, <1>4, <1>5, <1>6, <1>7, <1>8, <1>9, UpdateNavigationSound, EndingSound DEF Navigation!Acts

(* A drive starts with nothing driven and nothing to save.                 *)
LEMMA DrivingStart ==
    ASSUME Navigation!Init
    PROVE  DrivenSound(ui)
<1> DEFINE z == Navigation!Fresh
           a == CHOOSE x \in Areas : TRUE
           u == [z EXCEPT !.area = a]
           w == [u EXCEPT !.made[1] = a]
           d(s) == Navigation!Driving(a, s)
<1>1. \/ ui = z \/ ui = Navigation!LoadRoute(u)
      \/ ui = Navigation!TransitionTo(Navigation!Listen(w, 1), "generating")
      \/ ui = d("active") \/ ui = d("to_start")
  BY DEF Navigation!Init
<1>2. 0 \in 0..MaxPersistRetries
  BY NavigationAssumption
<1>3. SaveFields \subseteq DOMAIN z /\ CovFields \subseteq DOMAIN z.cov /\ z.cov.fails = 0
      /\ z.marked = {} /\ z.cov.pend = {}
  BY DEF Navigation!Fresh, SaveFields, CovFields
<1>4. \A s : SaveFields \subseteq DOMAIN d(s) /\ CovFields \subseteq DOMAIN d(s).cov
             /\ d(s).cov.fails = 0 /\ d(s).marked = {} /\ d(s).cov.pend = {}
  BY <1>3, ZenonT(60) DEF Navigation!Driving, SaveFields, CovFields
<1> HIDE DEF z, d
<1>5. DrivenSound(z) /\ \A s : DrivenSound(d(s))
  BY <1>2, <1>3, <1>4 DEF DrivenSound, NotLost, Retried
<1>6. DOMAIN u = DOMAIN z /\ \A g \in SaveFields : u[g] = z[g]
  BY <1>5 DEF DrivenSound, NotLost, SaveFields
<1> HIDE DEF u
<1>7. DrivenSound(u)
  BY <1>5, <1>6, Unconcerned
<1>8. DOMAIN w = DOMAIN u /\ \A g \in SaveFields : w[g] = u[g]
  BY <1>7 DEF DrivenSound, NotLost, SaveFields
<1> HIDE DEF w
<1>9. DrivenSound(w)
  BY <1>7, <1>8, Unconcerned
<1>10. QED
  BY <1>1, <1>5, <1>7, <1>9, LoadRouteSound, ListenSound, TransitionSound

DrivenInv == page = "navigation" => DrivenSound(ui)

LEMMA DrivenInvariance == WebSpec => []DrivenInv
<1>1. WebInit => DrivenInv
  BY DrivingStart DEF WebInit, DrivenInv
<1>2. DrivenInv /\ [WebNext]_<<vars, page, ui>> => DrivenInv'
  <2> SUFFICES ASSUME DrivenInv, [WebNext]_<<vars, page, ui>>, page' = "navigation" PROVE DrivenSound(ui')
    BY DEF DrivenInv
  <2>1. CASE UNCHANGED <<vars, page, ui>>
    BY <2>1 DEF DrivenInv
  <2>2. CASE WebNext
    <3>1. page = "navigation" /\ (Navigation!Next \/ UNCHANGED ui)
      BY <2>2 DEF WebNext
    <3>2. DrivenSound(ui)
      BY <3>1 DEF DrivenInv
    <3> QED BY <3>1, <3>2, SavingSound, GeneratingSound, AnswersSound, ActsSound DEF Navigation!Next
  <2> QED BY <2>1, <2>2
<1>3. QED
  BY <1>1, <1>2, PTL DEF WebSpec

(* A segment that was driven is saved, on its way, waiting or was dropped  *)
(* by a reset of its route, through any crossing of positions, saves that  *)
(* fail, retries, changes of the area and leaving the page; and what waits *)
(* has a timer, but where the retries are used up or a later save stopped  *)
(* the retry (live-navigation-coverage.js, live-navigation-navigator.js).  *)
THEOREM DrivenIsKept == WebSpec => []DrivenIsSaved
<1>1. ASSUME DrivenSound(ui)
      PROVE  Navigation!DrivenNotLost /\ Navigation!RetryScheduled
  <2>1. ASSUME NEW x \in ui.marked
        PROVE  x \in ui.kept \cup ui.cov.pend \cup ui.dropped \cup UNION {p.segs : p \in ui.puts}
    BY <1>1, <2>1 DEF DrivenSound, NotLost, Held
  <2>2. Navigation!DrivenNotLost
    BY <2>1 DEF Navigation!DrivenNotLost
  <2>3. Navigation!RetryScheduled
    BY <1>1 DEF DrivenSound, Retried, Navigation!RetryScheduled
  <2> QED BY <2>2, <2>3
<1>2. DrivenInv => DrivenIsSaved
  BY <1>1 DEF DrivenInv, DrivenIsSaved
<1>3. QED
  BY <1>2, DrivenInvariance, PTL

-----------------------------------------------------------------------------
(* The main map: one initialisation, one style change at a time.           *)

LayerFields == {"map", "made", "told", "callbacks", "pref", "style", "loaded", "change", "m"}

LayersSound(u) ==
    /\ LayerFields \subseteq DOMAIN u
    /\ DOMAIN u.m = Layers /\ \A l \in Layers : "on" \in DOMAIN u.m[l]
    /\ u.made \in Nat /\ u.told \in Nat /\ u.callbacks \in Nat
    /\ u.made <= 1 /\ (u.map \in {"none", "library"} => u.made = 0)
    /\ u.map # "ready" => u.told = 0
    /\ u.map = "ready" => u.callbacks = 0
    /\ u.pref = u.style
    /\ ~u.loaded => u.change = "loading" /\ \A l \in Layers : ~u.m[l].on

(* What only concerns the queue of a layer, its data or its fades.         *)
LEMMA LayerHelpersSound ==
    ASSUME NEW u, LayersSound(u), NEW l, NEW d
    PROVE  /\ LayersSound(Layer!Acted(u)) /\ LayersSound(Layer!UpdateMapLayer(u, l, d))
           /\ LayersSound(Layer!Ended(u, l)) /\ LayersSound(Layer!Kept(u, l, d))
<1>1. LayersSound(Layer!Acted(u))
  BY DEF Layer!Acted, LayersSound, LayerFields
<1>2. LayersSound(Layer!UpdateMapLayer(u, l, d))
  BY DEF Layer!UpdateMapLayer, LayersSound, LayerFields
<1>3. LayersSound(Layer!Ended(u, l))
  BY DEF Layer!Ended, LayersSound, LayerFields
<1>4. LayersSound(Layer!Kept(u, l, d))
  BY DEF Layer!Kept, LayersSound, LayerFields
<1>5. QED
  BY <1>1, <1>2, <1>3, <1>4

(* The library, the map and those who wait for them.                       *)
LEMMA StartingSound ==
    ASSUME LayersSound(ui),
           Layer!Initialize \/ Layer!LibraryReady \/ Layer!MapLoads \/ Layer!InitFails \/ Layer!OnReady
    PROVE  LayersSound(ui')
<1>1. CASE Layer!Initialize
  BY <1>1 DEF Layer!Initialize, Layer!Acted, LayersSound, LayerFields
<1>2. CASE Layer!LibraryReady
  BY <1>2 DEF Layer!LibraryReady, LayersSound, LayerFields
<1>3. CASE Layer!MapLoads
  BY <1>3 DEF Layer!MapLoads, LayersSound, LayerFields
<1>4. CASE Layer!InitFails
  BY <1>4 DEF Layer!InitFails, LayersSound, LayerFields
<1>5. CASE Layer!OnReady
  BY <1>5 DEF Layer!OnReady, Layer!Acted, LayersSound, LayerFields
<1>6. QED
  BY <1>1, <1>2, <1>3, <1>4, <1>5

LEMMA StylingSound ==
    ASSUME LayersSound(ui),
           Layer!StyleStarts \/ Layer!StyleLoads \/ Layer!StyleEnds \/ \E s \in Styles : Layer!SetStyle(s)
    PROVE  LayersSound(ui')
<1>1. CASE Layer!StyleStarts
  BY <1>1 DEF Layer!StyleStarts, Layer!Gone, LayersSound, LayerFields
<1>2. CASE Layer!StyleLoads
  BY <1>2 DEF Layer!StyleLoads, LayersSound, LayerFields
<1>3. CASE Layer!StyleEnds
  BY <1>3 DEF Layer!StyleEnds, LayersSound, LayerFields
<1>4. CASE \E s \in Styles : Layer!SetStyle(s)
  <2>1. PICK s \in Styles : ui' = Layer!Acted([ui EXCEPT !.sq = Append(@, s)])
    BY <1>4 DEF Layer!SetStyle
  <2>2. LayersSound([ui EXCEPT !.sq = Append(@, s)])
    BY DEF LayersSound, LayerFields
  <2> QED BY <2>1, <2>2, LayerHelpersSound
<1>5. QED
  BY <1>1, <1>2, <1>3, <1>4

(* Layers are put on the map, or their data is replaced, once the style    *)
(* has loaded.                                                             *)
LEMMA DrawingSound ==
    ASSUME LayersSound(ui), NEW l \in Layers,
           Layer!UpdateStarts(l) \/ Layer!StyleWaitEnds(l) \/ Layer!FrameRuns(l) \/ Layer!PutBack(l)
    PROVE  LayersSound(ui')
<1> DEFINE d == Head(ui.q[l]).data
           u == [ui EXCEPT !.m[l] = [on |-> TRUE, data |-> d, vis |-> ui.info[l].vis, clear |-> FALSE]]
<1>1. ASSUME ui.loaded PROVE LayersSound(Layer!Ended(Layer!Kept(u, l, d), l))
  <2>1. LayersSound(u)
    BY <1>1 DEF LayersSound, LayerFields
  <2> HIDE DEF u
  <2> QED BY <2>1, LayerHelpersSound
<1>f. LayersSound([ui EXCEPT !.q[l][1].frame = TRUE])
  BY DEF LayersSound, LayerFields
<1>2. CASE Layer!UpdateStarts(l)
  <2>1. ui.loaded /\ \/ ui' = Layer!Ended(Layer!Kept(u, l, d), l)
                     \/ ui' = [ui EXCEPT !.q[l][1].frame = TRUE]
    BY <1>2 DEF Layer!UpdateStarts
  <2> QED BY <1>1, <1>f, <2>1
<1>3. CASE Layer!StyleWaitEnds(l)
  BY <1>f, <1>3 DEF Layer!StyleWaitEnds
<1>4. CASE Layer!FrameRuns(l)
  <2>1. \/ ui' = Layer!Ended(ui, l)
        \/ ui.loaded /\ ui' = Layer!Ended(Layer!Kept(u, l, d), l)
    BY <1>4 DEF Layer!FrameRuns
  <2> QED BY <1>1, <2>1, LayerHelpersSound
<1>5. CASE Layer!PutBack(l)
  <2>1. LayersSound([ui EXCEPT !.todo = @ \ {l}])
    BY DEF LayersSound, LayerFields
  <2>2. \/ ui' = [ui EXCEPT !.todo = @ \ {l}]
        \/ \E e : ui' = Layer!UpdateMapLayer([ui EXCEPT !.todo = @ \ {l}], l, e)
    BY <1>5 DEF Layer!PutBack
  <2> QED BY <2>1, <2>2, LayerHelpersSound
<1>6. QED
  BY <1>2, <1>3, <1>4, <1>5

(* The switches and the data of a layer; a fade hides what is on the map.  *)
LEMMA SwitchingSound ==
    ASSUME LayersSound(ui), NEW l \in Layers,
           \/ Layer!FadeEnds(l) \/ Layer!DataArrives(l) \/ Layer!DataFails(l) \/ Layer!Reload(l)
           \/ \E v \in BOOLEAN : Layer!ToggleLayer(l, v)
    PROVE  LayersSound(ui')
<1>1. CASE Layer!FadeEnds(l)
  BY <1>1 DEF Layer!FadeEnds, LayersSound, LayerFields
<1>2. CASE Layer!DataArrives(l)
  <2> DEFINE u == [ui EXCEPT !.need = @ \ {l}, !.loads = ui.loads + 1, !.info[l].data = ui.loads + 1]
  <2>1. LayersSound(u)
    BY DEF LayersSound, LayerFields
  <2>2. ui' = Layer!UpdateMapLayer(u, l, ui.loads + 1)
    BY <1>2 DEF Layer!DataArrives
  <2> HIDE DEF u
  <2> QED BY <2>1, <2>2, LayerHelpersSound
<1>3. CASE Layer!DataFails(l)
  BY <1>3 DEF Layer!DataFails, LayersSound, LayerFields
<1>4. CASE Layer!Reload(l)
  <2>1. LayersSound([ui EXCEPT !.need = @ \cup {l}])
    BY DEF LayersSound, LayerFields
  <2> QED BY <1>4, <2>1, LayerHelpersSound DEF Layer!Reload
<1>5. ASSUME NEW v \in BOOLEAN, Layer!ToggleLayer(l, v) PROVE LayersSound(ui')
  <2> DEFINE u == [ui EXCEPT !.info[l].vis = v]
  <2>1. LayersSound(u)
    BY DEF LayersSound, LayerFields
  <2>2. LayersSound([u EXCEPT !.need = @ \cup {l}])
    BY <2>1 DEF LayersSound, LayerFields
  <2>3. LayersSound(Layer!FadeLayer(u, l, v))
    <3> HIDE DEF u
    <3> QED BY <2>1, SMTT(30) DEF Layer!FadeLayer, LayersSound, LayerFields
  <2>4. \/ ui' = Layer!Acted([u EXCEPT !.need = @ \cup {l}]) \/ ui' = Layer!Acted(Layer!FadeLayer(u, l, v))
        \/ ui' = Layer!Acted(Layer!UpdateMapLayer(u, l, u.info[l].data)) \/ ui' = Layer!Acted(u)
    BY <1>5 DEF Layer!ToggleLayer
  <2> HIDE DEF u
  <2> QED BY <2>1, <2>2, <2>3, <2>4, LayerHelpersSound
<1>6. QED
  BY <1>1, <1>2, <1>3, <1>4, <1>5

LEMMA LayersKept ==
    ASSUME LayersSound(ui), Layer!Next
    PROVE  LayersSound(ui')
BY StartingSound, StylingSound, DrawingSound, SwitchingSound DEF Layer!Next

LEMMA LayersStart ==
    ASSUME Layer!Init
    PROVE  LayersSound(ui)
<1> DEFINE z == Layer!Start
<1>1. LayersSound(z)
  BY DEF Layer!Start, Layer!Gone, LayersSound, LayerFields
<1> HIDE DEF z
<1>2. LayersSound([z EXCEPT !.map = "library"])
  <2>1. z.map = "none"
    BY DEF z, Layer!Start
  <2> QED BY <1>1, <2>1 DEF LayersSound, LayerFields
<1>3. LayersSound([[z EXCEPT !.map = "library"] EXCEPT !.calls = 1])
  <2> DEFINE y == [z EXCEPT !.map = "library"]
  <2> HIDE DEF y
  <2>1. LayersSound([y EXCEPT !.calls = 1])
    BY <1>2 DEF LayersSound, LayerFields, y
  <2> QED BY <2>1 DEF y
<1>4. QED
  BY <1>3 DEF Layer!Init, z

LEMMA LayersOwned ==
    ASSUME LayersSound(ui)
    PROVE  Layer!OneMapReady /\ Layer!StylesInTurn
BY DEF LayersSound, Layer!OneMapReady, Layer!StylesInTurn

-----------------------------------------------------------------------------
(* The field journal: who has the map.                                     *)

JournalFields == {"range", "geo", "mode", "pinned", "picked", "net"}

JournalSound(u) ==
    /\ JournalFields \subseteq DOMAIN u
    /\ u.range # NoRange /\ \A r \in u.net : r.r # NoRange
    /\ u.pinned \in BOOLEAN /\ u.picked \in BOOLEAN /\ (u.pinned <=> u.picked)
    /\ u.pinned => u.geo # NoRange /\ u.mode \in {"frontier", "selection"}

(* A request is for the range of now; the map changes hands only where     *)
(* there are streets to colour, and a choice of streets is taken back      *)
(* before the map shows a day.                                             *)
LEMMA JournalHelpersSound ==
    ASSUME NEW u, JournalSound(u), NEW x, NEW y, NEW z, NEW b \in BOOLEAN
    PROVE  /\ JournalSound(Journal!Acted(u)) /\ JournalSound(Journal!Got(u, x))
           /\ JournalSound(Journal!Sent(u, x, y, z)) /\ JournalSound(Journal!SyncUrl(u))
           /\ JournalSound(Journal!Listed(u, x))
           /\ JournalSound(Journal!SetFrequencyMap(u)) /\ JournalSound(Journal!SetFrontierMap(u, b))
           /\ JournalSound(Journal!HighlightSegments(u)) /\ JournalSound(Journal!SelectMilestone(u, x))
           /\ JournalSound(Journal!UpdateTimelineCursor(u, x, b))
<1>1. JournalSound(Journal!Acted(u)) /\ JournalSound(Journal!Got(u, x))
  BY DEF Journal!Acted, Journal!Got, JournalSound, JournalFields
<1>2. JournalSound(Journal!Sent(u, x, y, z))
  BY DEF Journal!Sent, JournalSound, JournalFields
<1>3. JournalSound(Journal!SyncUrl(u)) /\ JournalSound(Journal!Listed(u, x))
  BY DEF Journal!SyncUrl, Journal!Listed, JournalSound, JournalFields
<1>4. JournalSound(Journal!SetFrequencyMap(u))
  BY DEF Journal!SetFrequencyMap, JournalSound, JournalFields
<1>5. JournalSound(Journal!SetFrontierMap(u, b)) /\ JournalSound(Journal!HighlightSegments(u))
  BY DEF Journal!SetFrontierMap, Journal!HighlightSegments, JournalSound, JournalFields
<1>6. ASSUME NEW w, JournalSound(w), NEW ms
      PROVE  JournalSound(Journal!SetProgressMap([w EXCEPT !.pinned = FALSE], x, ms))
  BY <1>6 DEF Journal!SetProgressMap, JournalSound, JournalFields
<1>7. JournalSound([u EXCEPT !.chapter = x]) /\ JournalSound([u EXCEPT !.asOf = x])
  BY DEF JournalSound, JournalFields
<1>8. JournalSound(Journal!SelectMilestone(u, x))
  BY <1>6, <1>7 DEF Journal!SelectMilestone
<1>9. JournalSound(Journal!UpdateTimelineCursor(u, x, b))
  BY <1>6, <1>7 DEF Journal!UpdateTimelineCursor
<1>10. QED
  BY <1>1, <1>2, <1>3, <1>4, <1>5, <1>8, <1>9

(* Answers: what they bring is of a range.                                 *)
LEMMA JournalAnswersSound ==
    ASSUME JournalSound(ui), NEW r \in ui.net,
           \/ Journal!MetaArrives(r) \/ Journal!SegmentsArrive(r) \/ Journal!ListArrives(r)
           \/ Journal!LoadFails(r) \/ Journal!SourceArrives(r) \/ Journal!AppendArrives(r)
           \/ Journal!GoalArrives(r) \/ Journal!OutlookArrives(r) \/ Journal!MinorFails(r)
    PROVE  JournalSound(ui')
<1> DEFINE u == Journal!Got(ui, r)
<1>u. JournalSound(u)
  BY JournalHelpersSound, TRUE \in BOOLEAN
<1>11. r.r # NoRange
  BY DEF JournalSound
<1>1. CASE Journal!MetaArrives(r)
  <2>1. JournalSound([u EXCEPT !.meta = r.r])
    BY <1>u DEF JournalSound, JournalFields
  <2> QED BY <1>1, <2>1, JournalHelpersSound, TRUE \in BOOLEAN DEF Journal!MetaArrives
<1>2. CASE Journal!SegmentsArrive(r)
  <2>1. JournalSound([u EXCEPT !.geo = r.r, !.list = << >>, !.more = 0])
    BY <1>u, <1>11 DEF JournalSound, JournalFields
  <2> QED BY <1>2, <2>1, JournalHelpersSound, TRUE \in BOOLEAN DEF Journal!SegmentsArrive
<1>3. CASE Journal!ListArrives(r)
  <2> DEFINE v == Journal!Listed([u EXCEPT !.page = "ready"], r)
  <2>1. JournalSound([u EXCEPT !.page = "ready"])
    BY <1>u DEF JournalSound, JournalFields
  <2>2. JournalSound(v)
    BY <2>1, JournalHelpersSound, TRUE \in BOOLEAN
  <2>3. ui' = [v EXCEPT !.map = "loading"] \/ ui' = Journal!SyncUrl(Journal!SetFrequencyMap(v))
    BY <1>3 DEF Journal!ListArrives
  <2> HIDE DEF v
  <2>4. JournalSound([v EXCEPT !.map = "loading"])
    BY <2>2 DEF JournalSound, JournalFields
  <2> QED BY <2>2, <2>3, <2>4, JournalHelpersSound, TRUE \in BOOLEAN
<1>4. CASE Journal!LoadFails(r) \/ Journal!OutlookArrives(r)
  BY <1>u, <1>4 DEF Journal!LoadFails, Journal!OutlookArrives, JournalSound, JournalFields
<1>5. CASE Journal!SourceArrives(r)
  BY <1>u, <1>5, JournalHelpersSound, TRUE \in BOOLEAN DEF Journal!SourceArrives
<1>6. CASE Journal!AppendArrives(r)
  BY <1>u, <1>6 DEF Journal!AppendArrives, JournalSound, JournalFields
<1>7. CASE Journal!GoalArrives(r)
  <2>1. JournalSound([u EXCEPT !.goal = r.n])
    BY <1>u DEF JournalSound, JournalFields
  <2> QED BY <1>7, <2>1, JournalHelpersSound, TRUE \in BOOLEAN DEF Journal!GoalArrives
<1>8. CASE Journal!MinorFails(r)
  BY <1>u, <1>8 DEF Journal!MinorFails
<1>9. QED
  BY <1>1, <1>2, <1>3, <1>4, <1>5, <1>6, <1>7, <1>8

(* What the reader chooses, drags, scrolls to and asks for.                *)
LEMMA JournalActsSound ==
    ASSUME JournalSound(ui),
           \/ Journal!MapLoads \/ Journal!LoadMore \/ Journal!ShowStreet \/ Journal!ShowFrontierStreet
           \/ Journal!ScrubCancel \/ Journal!SaveGoal
           \/ \E x \in Ranges : Journal!ChooseRange(x)
           \/ \E x \in Feeds : Journal!ChooseSource(x)
           \/ \E l \in {"street", "segment"} : Journal!ChooseLevel(l)
           \/ \E s \in {"known", "frontier", "pace"} : Journal!ScrollTo(s)
           \/ \E d \in Journal!Days : \/ Journal!ChooseMilestone(d) \/ Journal!MoveCursor(d)
                                      \/ Journal!ScrubStart(d) \/ Journal!ScrubEnd(d)
    PROVE  JournalSound(ui')
<1>b. TRUE \in BOOLEAN /\ FALSE \in BOOLEAN
  OBVIOUS
<1>1. CASE Journal!MapLoads
  <2>1. JournalSound([ui EXCEPT !.map = "ready"])
    BY DEF JournalSound, JournalFields
  <2>2. PICK d : ui' = Journal!SyncUrl(Journal!SelectMilestone([ui EXCEPT !.map = "ready"], d))
    BY <1>1 DEF Journal!MapLoads
  <2> QED BY <1>b, <2>1, <2>2, JournalHelpersSound
<1>2. CASE Journal!LoadMore \/ Journal!SaveGoal \/ Journal!ShowStreet \/ Journal!ShowFrontierStreet
  BY <1>b, <1>2, JournalHelpersSound
     DEF Journal!LoadMore, Journal!SaveGoal, Journal!ShowStreet, Journal!ShowFrontierStreet
<1>3. CASE Journal!ScrubCancel
  <2>1. JournalSound([ui EXCEPT !.scrub = FALSE])
    BY DEF JournalSound, JournalFields
  <2> QED BY <1>b, <1>3, <2>1, JournalHelpersSound DEF Journal!ScrubCancel
<1>4. ASSUME NEW x \in Ranges, Journal!ChooseRange(x) PROVE JournalSound(ui')
  <2>1. JournalSound([ui EXCEPT !.range = x, !.asOf = 0])
    BY AbsenceAssumption DEF JournalSound, JournalFields
  <2> QED BY <1>b, <1>4, <2>1, JournalHelpersSound DEF Journal!ChooseRange
<1>5. ASSUME NEW x \in Feeds, Journal!ChooseSource(x) PROVE JournalSound(ui')
  <2>1. JournalSound([ui EXCEPT !.source = x])
    BY DEF JournalSound, JournalFields
  <2> QED BY <1>b, <1>5, <2>1, JournalHelpersSound DEF Journal!ChooseSource
<1>6. ASSUME NEW l, Journal!ChooseLevel(l) PROVE JournalSound(ui')
  <2>1. JournalSound([ui EXCEPT !.level = l])
    BY DEF JournalSound, JournalFields
  <2> QED BY <1>b, <1>6, <2>1, JournalHelpersSound DEF Journal!ChooseLevel
<1>7. ASSUME NEW s, Journal!ScrollTo(s) PROVE JournalSound(ui')
  <2>1. JournalSound([ui EXCEPT !.mixed = @ \/ ui.scrub])
    BY DEF JournalSound, JournalFields
  <2>2. \/ ui' = Journal!Acted(Journal!SetFrequencyMap(ui)) \/ ui' = Journal!Acted(Journal!SetFrontierMap(ui, FALSE))
        \/ \E d : ui' = Journal!Acted(Journal!UpdateTimelineCursor([ui EXCEPT !.mixed = @ \/ ui.scrub], d, TRUE))
    BY <1>7 DEF Journal!ScrollTo
  <2> QED BY <1>b, <2>1, <2>2, JournalHelpersSound
<1>8. ASSUME NEW d, Journal!ChooseMilestone(d) \/ Journal!MoveCursor(d) PROVE JournalSound(ui')
  BY <1>b, <1>8, JournalHelpersSound DEF Journal!ChooseMilestone, Journal!MoveCursor
<1>9. ASSUME NEW d, Journal!ScrubStart(d) PROVE JournalSound(ui')
  <2>1. PICK e : ui' = Journal!Acted(Journal!UpdateTimelineCursor([ui EXCEPT !.scrub = TRUE, !.from = e], d, FALSE))
    BY <1>9 DEF Journal!ScrubStart
  <2>2. JournalSound([ui EXCEPT !.scrub = TRUE, !.from = e])
    BY DEF JournalSound, JournalFields
  <2> QED BY <1>b, <2>1, <2>2, JournalHelpersSound
<1>10. ASSUME NEW d, Journal!ScrubEnd(d) PROVE JournalSound(ui')
  <2>1. JournalSound([ui EXCEPT !.scrub = FALSE])
    BY DEF JournalSound, JournalFields
  <2> QED BY <1>b, <1>10, <2>1, JournalHelpersSound DEF Journal!ScrubEnd
<1>11. QED
  BY <1>1, <1>2, <1>3, <1>4, <1>5, <1>6, <1>7, <1>8, <1>9, <1>10

LEMMA JournalKept ==
    ASSUME JournalSound(ui), Journal!Next
    PROVE  JournalSound(ui')
BY JournalAnswersSound, JournalActsSound DEF Journal!Next

LEMMA JournalStart ==
    ASSUME Journal!Init
    PROVE  JournalSound(ui)
<1>1. (CHOOSE x \in Ranges : TRUE) # NoRange
  BY AbsenceAssumption
<1>2. JournalSound(Journal!Start)
  BY <1>1 DEF Journal!Start, JournalSound, JournalFields
<1>3. QED
  BY <1>2, JournalHelpersSound, TRUE \in BOOLEAN DEF Journal!Init

LEMMA JournalOwned ==
    ASSUME JournalSound(ui)
    PROVE  Journal!PinnedWhileChosen
BY DEF JournalSound, Journal!PinnedWhileChosen

-----------------------------------------------------------------------------
(* The trips on the map: whose replay runs.                                *)

ReplayFields == {"play", "draw", "control", "left"}

ReplaySound(u) ==
    /\ ReplayFields \subseteq DOMAIN u
    /\ u.play \in {u.control, NoTrip} /\ u.draw \in {u.control, NoTrip}
    /\ u.left => u.play = NoTrip /\ u.draw = NoTrip

(* Drawing, selecting and popups do not touch it.                          *)
LEMMA RenderKeepsReplay ==
    ASSUME NEW u, ReplaySound(u)
    PROVE  ReplaySound(Rendering!Render(u))
<1> DEFINE v == [u EXCEPT !.lost = FALSE]
           s == [v EXCEPT !.dk = Rendering!Nothing, !.dsel = NoTrip]
<1>1. ReplaySound(v)
  BY DEF ReplaySound, ReplayFields
<1>2. ASSUME NEW w, ReplaySound(w) PROVE ReplaySound(Rendering!ClearNativeLayers(w))
  BY <1>2 DEF Rendering!ClearNativeLayers, ReplaySound, ReplayFields
<1>3. ASSUME NEW w, ReplaySound(w) PROVE ReplaySound(Rendering!RenderNative(w))
  BY <1>3 DEF Rendering!RenderNative, ReplaySound, ReplayFields
<1>4. ASSUME NEW w, ReplaySound(w) PROVE ReplaySound(Rendering!RenderDeck(w))
  BY <1>4 DEF Rendering!RenderDeck, ReplaySound, ReplayFields
<1> HIDE DEF v
<1>5. ReplaySound(s)
  BY <1>1 DEF ReplaySound, ReplayFields
<1> HIDE DEF s
<1>6. Rendering!Render(u) \in {Rendering!ClearNativeLayers(s), Rendering!RenderNative(v), Rendering!RenderDeck(v),
                               Rendering!RenderDeck(Rendering!ClearNativeLayers(v))}
  BY DEF Rendering!Render, v, s
<1>7. QED
  BY <1>1, <1>2, <1>3, <1>4, <1>5, <1>6

LEMMA RenderingHelpersSound ==
    ASSUME NEW u, ReplaySound(u), NEW t, NEW l, NEW b \in BOOLEAN
    PROVE  /\ ReplaySound(Rendering!Acted(u)) /\ ReplaySound(Rendering!RefreshTripStyles(u))
           /\ ReplaySound(Rendering!ClosedByClick(u)) /\ ReplaySound(Rendering!PopupRemoved(u, t))
           /\ ReplaySound(Rendering!HandleTripClick(u, t, l, b))
<1>1. ReplaySound(Rendering!Acted(u)) /\ ReplaySound(Rendering!ClosedByClick(u)) /\ ReplaySound(Rendering!PopupRemoved(u, t))
  BY DEF Rendering!Acted, Rendering!ClosedByClick, Rendering!PopupRemoved, ReplaySound, ReplayFields
<1>2. ASSUME NEW w, ReplaySound(w) PROVE ReplaySound(Rendering!RefreshTripStyles(w))
  BY <1>2 DEF Rendering!RefreshTripStyles, ReplaySound, ReplayFields
<1>3. ReplaySound([u EXCEPT !.sel = [trip |-> t, layer |-> l],
                            !.pop = @ \cup {[id |-> u.steps + 1, trip |-> t, defer |-> b, armed |-> ~b]}])
  BY DEF ReplaySound, ReplayFields
<1>4. QED
  BY <1>1, <1>2, <1>3 DEF Rendering!HandleTripClick

(* Replays start and end with the controls of their trip.                  *)
LEMMA ReplayingSound ==
    ASSUME ReplaySound(ui),
           \/ Rendering!SyncSelection \/ Rendering!DrawEnds \/ Rendering!ClickReplay
           \/ Rendering!ReplayEnds \/ Rendering!Leave
    PROVE  ReplaySound(ui')
<1> DEFINE z == Rendering!Stopped(ui)
<1>1. /\ ReplayFields \subseteq DOMAIN z /\ z.left = ui.left
      /\ z.play = NoTrip /\ z.draw = NoTrip /\ z.control = NoTrip
  BY DEF Rendering!Stopped, ReplaySound, ReplayFields
<1>2. CASE Rendering!SyncSelection
  <2>1. ~ui.left
    BY <1>2 DEF Rendering!SyncSelection
  <2>2. ui' = [z EXCEPT !.act = NoTrip] \/ \E t : ui' = [z EXCEPT !.act = t, !.draw = t, !.control = t]
    BY <1>2 DEF Rendering!SyncSelection
  <2> HIDE DEF z
  <2> QED BY <1>1, <2>1, <2>2 DEF ReplaySound, ReplayFields
<1>3. CASE Rendering!DrawEnds \/ Rendering!ReplayEnds
  BY <1>3 DEF Rendering!DrawEnds, Rendering!ReplayEnds, ReplaySound, ReplayFields
<1>4. CASE Rendering!ClickReplay
  BY <1>4 DEF Rendering!ClickReplay, Rendering!User, Rendering!Acted, ReplaySound, ReplayFields
<1>5. CASE Rendering!Leave
  <2>1. ui' = Rendering!Acted([z EXCEPT !.left = TRUE])
    BY <1>5 DEF Rendering!Leave
  <2> HIDE DEF z
  <2>2. ReplaySound([z EXCEPT !.left = TRUE])
    BY <1>1 DEF ReplaySound, ReplayFields
  <2> QED BY <2>1, <2>2, RenderingHelpersSound, TRUE \in BOOLEAN
<1>6. QED
  BY <1>2, <1>3, <1>4, <1>5

(* Bundles, layers, scenes, styles and the terrain.                        *)
LEMMA DrawingKeepsReplay ==
    ASSUME ReplaySound(ui),
           \/ Rendering!ThrottleEnds \/ Rendering!RefreshSelection \/ Rendering!Decoded \/ Rendering!DecodeFails
           \/ Rendering!StyleChanges \/ Rendering!ReliefToggled \/ Rendering!MapIdle
           \/ \E l \in Layers, b \in Bundles : Rendering!BundleArrives(l, b)
           \/ \E l \in Layers, v \in BOOLEAN : Rendering!SetLayerVisibility(l, v)
           \/ \E h \in BOOLEAN : Rendering!SetUseHeatmap(h)
           \/ \E x \in Reasons : Rendering!SuppressTripLayers(x) \/ Rendering!RestoreTripLayers(x)
    PROVE  ReplaySound(ui')
<1>h. ASSUME NEW u, ReplaySound(u)
      PROVE  /\ ReplaySound(Rendering!Acted(u)) /\ ReplaySound(Rendering!RefreshTripStyles(u))
             /\ ReplaySound(Rendering!Render(u))
  BY <1>h, RenderingHelpersSound, RenderKeepsReplay, TRUE \in BOOLEAN
<1>1. CASE Rendering!ThrottleEnds \/ Rendering!DecodeFails
  BY <1>1 DEF Rendering!ThrottleEnds, Rendering!DecodeFails, ReplaySound, ReplayFields
<1>2. CASE Rendering!RefreshSelection
  <2>1. ReplaySound([ui EXCEPT !.soon = @ - 1])
    BY DEF ReplaySound, ReplayFields
  <2> QED BY <1>h, <1>2, <2>1 DEF Rendering!RefreshSelection
<1>3. CASE Rendering!Decoded
  <2> DEFINE job == Head(ui.jobs)
             u == [ui EXCEPT !.jobs = Tail(@), !.dat[job.layer] = job.bundle, !.drape[job.layer] = "none"]
  <2>1. ReplaySound(u)
    BY DEF ReplaySound, ReplayFields
  <2>2. ui' = Rendering!RefreshTripStyles(Rendering!Render(u))
    BY <1>3 DEF Rendering!Decoded
  <2> HIDE DEF u
  <2> QED BY <1>h, <2>1, <2>2
<1>4. CASE Rendering!StyleChanges
  <2>1. PICK jobs, putback :
            ui' = Rendering!Acted([ui EXCEPT !.nat = Rendering!Nothing, !.nsel = NoTrip, !.lost = TRUE,
                                             !.jobs = jobs, !.putback = putback])
    BY <1>4, ZenonT(60) DEF Rendering!StyleChanges
  <2>2. ReplaySound([ui EXCEPT !.nat = Rendering!Nothing, !.nsel = NoTrip, !.lost = TRUE,
                               !.jobs = jobs, !.putback = putback])
    BY SMTT(30) DEF ReplaySound, ReplayFields
  <2> QED BY <1>h, <2>1, <2>2
<1>5. CASE Rendering!ReliefToggled
  <2> DEFINE u == [ui EXCEPT !.relief = ~@]
             v == [u EXCEPT !.terrain = u.relief]
  <2>1. ReplaySound(u)
    BY DEF ReplaySound, ReplayFields
  <2>2. ui' = Rendering!Acted(u) \/ ui' = Rendering!Acted(Rendering!Render(v))
    BY <1>5 DEF Rendering!ReliefToggled
  <2> HIDE DEF u
  <2>3. ReplaySound(v)
    BY <2>1 DEF ReplaySound, ReplayFields
  <2> QED BY <1>h, <2>1, <2>2, <2>3
<1>6. CASE Rendering!MapIdle
  <2>1. PICK drape : ui' = Rendering!Render([ui EXCEPT !.drape = drape])
    BY <1>6 DEF Rendering!MapIdle
  <2>2. ReplaySound([ui EXCEPT !.drape = drape])
    BY DEF ReplaySound, ReplayFields
  <2> QED BY <1>h, <2>1, <2>2
<1>7. ASSUME NEW l \in Layers, NEW b \in Bundles, Rendering!BundleArrives(l, b) PROVE ReplaySound(ui')
  <2>1. ReplaySound([ui EXCEPT !.jobs = Append(@, [layer |-> l, bundle |-> b]), !.latest[l] = b])
    BY DEF ReplaySound, ReplayFields
  <2> QED BY <1>h, <1>7, <2>1 DEF Rendering!BundleArrives
<1>8. ASSUME NEW l \in Layers, NEW v \in BOOLEAN, Rendering!SetLayerVisibility(l, v) PROVE ReplaySound(ui')
  <2>1. ReplaySound([ui EXCEPT !.info[l].vis = v])
    BY DEF ReplaySound, ReplayFields
  <2> QED BY <1>h, <1>8, <2>1 DEF Rendering!SetLayerVisibility
<1>9. ASSUME NEW h \in BOOLEAN, Rendering!SetUseHeatmap(h) PROVE ReplaySound(ui')
  <2>1. PICK info : ui' = Rendering!Acted(Rendering!Render([ui EXCEPT !.info = info]))
    BY <1>9 DEF Rendering!SetUseHeatmap
  <2>2. ReplaySound([ui EXCEPT !.info = info])
    BY DEF ReplaySound, ReplayFields
  <2> QED BY <1>h, <2>1, <2>2
<1>10. ASSUME NEW x \in Reasons, Rendering!SuppressTripLayers(x) \/ Rendering!RestoreTripLayers(x)
       PROVE  ReplaySound(ui')
  <2> DEFINE u == [ui EXCEPT !.sup = @ \cup {x}]
             v == [ui EXCEPT !.sup = @ \ {x}]
  <2>1. ReplaySound(u) /\ ReplaySound(v)
    BY DEF ReplaySound, ReplayFields
  <2>2. ui' \in {Rendering!Acted(u), Rendering!Acted(Rendering!Render(u)),
                 Rendering!Acted(v), Rendering!Acted(Rendering!Render(v))}
    BY <1>10 DEF Rendering!SuppressTripLayers, Rendering!RestoreTripLayers
  <2> HIDE DEF u, v
  <2> QED BY <1>h, <2>1, <2>2
<1>11. QED
  BY <1>1, <1>2, <1>3, <1>4, <1>5, <1>6, <1>7, <1>8, <1>9, <1>10

(* Clicks, popups and what is done from them.                              *)
LEMMA ClicksKeepReplay ==
    ASSUME ReplaySound(ui),
           \/ Rendering!ClickNothing \/ Rendering!Decline \/ Rendering!Confirm
           \/ \E l \in Layers, t \in Trips : Rendering!ClickDeck(l, t) \/ Rendering!ClickNative(l, t)
           \/ \E t \in Trips : Rendering!ZoomToTrip(t) \/ Rendering!ActionDone(t) \/ Rendering!ActionFails(t)
           \/ \E p \in ui.pop : Rendering!ArmPopup(p) \/ Rendering!ClosePopup(p) \/ Rendering!AskAction(p)
    PROVE  ReplaySound(ui')
<1>b. TRUE \in BOOLEAN /\ FALSE \in BOOLEAN
  OBVIOUS
<1>1. CASE Rendering!ClickNothing
  <2> DEFINE u == Rendering!ClosedByClick(ui)
  <2>1. ReplaySound(u)
    BY <1>b, RenderingHelpersSound
  <2>2. \/ ui' = Rendering!Acted(u)
        \/ ui' = Rendering!Acted(Rendering!RefreshTripStyles([u EXCEPT !.sel = Rendering!Nobody]))
    BY <1>1 DEF Rendering!ClickNothing
  <2> HIDE DEF u
  <2>3. ReplaySound([u EXCEPT !.sel = Rendering!Nobody])
    BY <2>1 DEF ReplaySound, ReplayFields
  <2> QED BY <1>b, <2>1, <2>2, <2>3, RenderingHelpersSound
<1>2. CASE Rendering!Decline \/ Rendering!Confirm
  BY <1>2 DEF Rendering!Decline, Rendering!Confirm, ReplaySound, ReplayFields
<1>3. ASSUME NEW l \in Layers, NEW t \in Trips, Rendering!ClickDeck(l, t) \/ Rendering!ClickNative(l, t)
      PROVE  ReplaySound(ui')
  <2> DEFINE u == Rendering!ClosedByClick(ui)
  <2>1. \/ ui' = Rendering!Acted(Rendering!Render(Rendering!HandleTripClick(u, t, l, TRUE)))
        \/ ui' = Rendering!Acted(Rendering!HandleTripClick(u, t, l, FALSE))
    BY <1>3 DEF Rendering!ClickDeck, Rendering!ClickNative
  <2>2. ReplaySound(u)
    BY <1>b, RenderingHelpersSound
  <2> HIDE DEF u
  <2> QED BY <1>b, <2>1, <2>2, RenderingHelpersSound, RenderKeepsReplay
<1>4. ASSUME NEW t \in Trips, Rendering!ZoomToTrip(t) PROVE ReplaySound(ui')
  <2>1. PICK sel : ui' = Rendering!Acted(Rendering!RefreshTripStyles([ui EXCEPT !.sel = sel]))
    BY <1>4 DEF Rendering!ZoomToTrip
  <2>2. ReplaySound([ui EXCEPT !.sel = sel])
    BY DEF ReplaySound, ReplayFields
  <2> QED BY <1>b, <2>1, <2>2, RenderingHelpersSound
<1>5. ASSUME NEW t \in Trips, Rendering!ActionDone(t) \/ Rendering!ActionFails(t) PROVE ReplaySound(ui')
  BY <1>5 DEF Rendering!ActionDone, Rendering!ActionFails, ReplaySound, ReplayFields
<1>6. ASSUME NEW p \in ui.pop, Rendering!ArmPopup(p) PROVE ReplaySound(ui')
  BY <1>6 DEF Rendering!ArmPopup, ReplaySound, ReplayFields
<1>7. ASSUME NEW p \in ui.pop, Rendering!ClosePopup(p) PROVE ReplaySound(ui')
  BY <1>b, <1>7, RenderingHelpersSound DEF Rendering!ClosePopup
<1>8. ASSUME NEW p \in ui.pop, Rendering!AskAction(p) PROVE ReplaySound(ui')
  <2>1. ReplaySound([ui EXCEPT !.ask = p.trip])
    BY DEF ReplaySound, ReplayFields
  <2> QED BY <1>b, <1>8, <2>1, RenderingHelpersSound DEF Rendering!AskAction
<1>9. QED
  BY <1>1, <1>2, <1>3, <1>4, <1>5, <1>6, <1>7, <1>8

LEMMA ReplayKept ==
    ASSUME ReplaySound(ui), Rendering!Next
    PROVE  ReplaySound(ui')
BY ReplayingSound, DrawingKeepsReplay, ClicksKeepReplay DEF Rendering!Next

LEMMA ReplayStart ==
    ASSUME Rendering!Init
    PROVE  ReplaySound(ui)
<1> DEFINE z == Rendering!Start
<1>1. ReplaySound(z)
  BY DEF Rendering!Start, ReplaySound, ReplayFields
<1>2. PICK d \in BOOLEAN, b \in Bundles, l \in Layers :
          ui = [z EXCEPT !.deck = d, !.jobs = <<[layer |-> l, bundle |-> b]>>, !.latest[l] = b]
  BY DEF Rendering!Init
<1> HIDE DEF z
<1>3. QED
  BY <1>1, <1>2 DEF ReplaySound, ReplayFields

LEMMA ReplayIsOwned ==
    ASSUME ReplaySound(ui)
    PROVE  Rendering!ReplayOwned
BY DEF ReplaySound, Rendering!ReplayOwned

-----------------------------------------------------------------------------
(* Live navigation: whose the watched position is.                         *)

WatchFields == {"watch", "nav", "late", "left"}

WatchSound(u) ==
    /\ WatchFields \subseteq DOMAIN u
    /\ u.watch \in BOOLEAN /\ u.nav \in BOOLEAN /\ u.late \in BOOLEAN /\ u.left \in BOOLEAN
    /\ u.watch /\ ~u.late => u.nav /\ ~u.left

(* What leaves the watch, the driving and the page as they are.            *)
LEMMA WatchApart ==
    ASSUME NEW u, WatchSound(u), NEW a, NEW b, NEW c
    PROVE  /\ WatchSound(Navigation!Acted(u)) /\ WatchSound(Navigation!TransitionTo(u, a))
           /\ WatchSound(Navigation!ResetCoverage(u)) /\ WatchSound(Navigation!PersistDrivenSegments(u))
           /\ WatchSound(Navigation!MarkSegmentsDriven(u, a)) /\ WatchSound(Navigation!AutoGenerateRoute(u))
           /\ WatchSound(Navigation!Listen(u, a)) /\ WatchSound(Navigation!Closed(u, a))
           /\ WatchSound(Navigation!LoadRoute(u)) /\ WatchSound(Navigation!On(b, a, u))
<1> USE DEF WatchSound, WatchFields
<1>1. WatchSound(Navigation!Acted(u))
  BY DEF Navigation!Acted
<1>2. WatchSound(Navigation!TransitionTo(u, a))
  BY DEF Navigation!TransitionTo
<1>3. WatchSound(Navigation!ResetCoverage(u))
  BY DEF Navigation!ResetCoverage
<1>4. WatchSound(Navigation!PersistDrivenSegments(u))
  BY DEF Navigation!PersistDrivenSegments
<1>5. WatchSound(Navigation!MarkSegmentsDriven(u, a))
  BY DEF Navigation!MarkSegmentsDriven, Navigation!QueueSegmentPersistence
<1>6. WatchSound(Navigation!AutoGenerateRoute(u))
  BY DEF Navigation!AutoGenerateRoute
<1>7. WatchSound(Navigation!Listen(u, a)) /\ WatchSound(Navigation!Closed(u, a))
  BY DEF Navigation!Listen, Navigation!Closed
<1>8. WatchSound(Navigation!LoadRoute(u))
  BY DEF Navigation!LoadRoute
<1>9. WatchSound(Navigation!On(b, a, u))
  BY DEF Navigation!On
<1>10. QED
  BY <1>1, <1>2, <1>3, <1>4, <1>5, <1>6, <1>7, <1>8, <1>9

(* A reset of the route ends the watch; a watch starts with the driving.   *)
LEMMA WatchMoves ==
    ASSUME NEW u, WatchSound(u), NEW a, NEW b
    PROVE  /\ WatchSound(Navigation!ResetRouteState(u)) /\ ~Navigation!ResetRouteState(u).watch
           /\ WatchSound(Navigation!StartNavigation(u))
           /\ ~u.left \/ u.late => WatchSound(Navigation!LeadToStart(u))
           /\ WatchSound(Navigation!OfferResumeFromAhead(u))
           /\ WatchSound(Navigation!HandleNavigationStateTransitions(u, a))
<1>1. WatchSound(Navigation!ResetRouteState(u)) /\ ~Navigation!ResetRouteState(u).watch
  <2> DEFINE v == Navigation!ResetCoverage(u)
  <2>1. WatchSound(v)
    BY WatchApart
  <2>2. Navigation!ResetRouteState(u) =
          [v EXCEPT !.st = "setup", !.silent = @ \/ u.panel # "setup", !.loaded = FALSE, !.route = NoArea,
                    !.line = NoArea, !.watch = FALSE, !.prev = "none", !.smart = NoArea, !.resume = FALSE,
                    !.way = NoArea, !.nav = FALSE]
    BY DEF Navigation!ResetRouteState
  <2> HIDE DEF v
  <2> QED BY <2>1, <2>2 DEF WatchSound, WatchFields
<1>2. WatchSound(Navigation!StartNavigation(u))
  BY DEF Navigation!StartNavigation, WatchSound, WatchFields
<1>3. ASSUME ~u.left \/ u.late PROVE WatchSound(Navigation!LeadToStart(u))
  <2> DEFINE v == Navigation!TransitionTo(u, "to_start")
  <2>1. WatchSound(v) /\ v.left = u.left /\ v.late = u.late
    BY WatchApart DEF Navigation!TransitionTo, WatchSound, WatchFields
  <2>2. Navigation!LeadToStart(u) = [[v EXCEPT !.nav = TRUE] EXCEPT !.watch = TRUE]
    BY DEF Navigation!LeadToStart, Navigation!StartGeolocation
  <2> HIDE DEF v
  <2> QED BY <1>3, <2>1, <2>2 DEF WatchSound, WatchFields
<1>4. WatchSound(Navigation!OfferResumeFromAhead(u))
  <2>1. WatchSound([u EXCEPT !.offers = @ + 1])
    BY DEF WatchSound, WatchFields
  <2> QED BY <2>1, WatchApart DEF Navigation!OfferResumeFromAhead
<1>5. WatchSound(Navigation!HandleNavigationStateTransitions(u, a))
  BY <1>4, WatchApart DEF Navigation!HandleNavigationStateTransitions
<1>6. QED
  BY <1>1, <1>2, <1>3, <1>4, <1>5

LEMMA WatchCancelled ==
    ASSUME NEW u, WatchSound(u), NEW change, NEW to
    PROVE  /\ WatchSound(Navigation!AfterCancel(u, change, to))
           /\ WatchSound(Navigation!CancelGeneration(u, change, to))
<1>1. ASSUME NEW x, WatchSound(x) PROVE WatchSound(Navigation!AfterCancel(x, change, to))
  <2> DEFINE v == IF x.st = "generating" THEN Navigation!TransitionTo(x, "setup") ELSE x
             w == Navigation!ResetRouteState(v)
             y == [w EXCEPT !.area = to]
  <2>1. WatchSound(v)
    BY <1>1, WatchApart
  <2>2. Navigation!AfterCancel(x, change, to) = IF change THEN Navigation!LoadRoute(y) ELSE v
    BY DEF Navigation!AfterCancel
  <2> HIDE DEF v
  <2>3. WatchSound(w)
    BY <2>1, WatchMoves
  <2> HIDE DEF w
  <2>4. WatchSound(y)
    BY <2>3 DEF WatchSound, WatchFields
  <2> HIDE DEF y
  <2> QED BY <2>1, <2>2, <2>4, WatchApart
<1>2. WatchSound(Navigation!CancelGeneration(u, change, to))
  <2> DEFINE v == Navigation!Closed(u, u.source)
             w == [v EXCEPT !.source = 0]
             y == [w EXCEPT !.cancels = @ \cup {[id |-> u.steps, task |-> w.task, change |-> change, to |-> to]}]
  <2>1. WatchSound(v)
    BY WatchApart
  <2>2. \/ Navigation!CancelGeneration(u, change, to) = Navigation!AfterCancel(w, change, to)
        \/ Navigation!CancelGeneration(u, change, to) = y
    BY DEF Navigation!CancelGeneration
  <2> HIDE DEF v
  <2>3. WatchSound(w)
    BY <2>1 DEF WatchSound, WatchFields
  <2> HIDE DEF w
  <2>4. WatchSound(y)
    BY <2>3 DEF WatchSound, WatchFields
  <2> HIDE DEF y
  <2> QED BY <1>1, <2>2, <2>3, <2>4
<1>3. QED
  BY <1>1, <1>2

LEMMA WatchSaved ==
    ASSUME WatchSound(ui), Navigation!Saving
    PROVE  WatchSound(ui')
<1> USE DEF WatchSound, WatchFields
<1>1. CASE Navigation!DebounceEnds \/ Navigation!RetryTimer
  <2>1. WatchSound([ui EXCEPT !.cov.debounce = FALSE]) /\ WatchSound([ui EXCEPT !.cov.retry = FALSE])
    OBVIOUS
  <2> HIDE DEF WatchSound
  <2> QED BY <1>1, <2>1, WatchApart DEF Navigation!DebounceEnds, Navigation!RetryTimer
<1>2. ASSUME NEW p \in ui.puts, Navigation!PersistDone(p) PROVE WatchSound(ui')
  BY <1>2 DEF Navigation!PersistDone
<1>3. ASSUME NEW p \in ui.puts, Navigation!PersistFails(p) PROVE WatchSound(ui')
  <2> DEFINE n == ui.cov.fails + 1
             u == [ui EXCEPT !.puts = @ \ {p}, !.cov.pend = @ \cup p.segs, !.dropped = @ \ p.segs,
                             !.cov.fails = IF n > MaxPersistRetries THEN @ ELSE n]
  <2>1. ui' = [u EXCEPT !.cov.retry = FALSE] \/ ui' = [u EXCEPT !.cov.retry = TRUE]
    BY <1>3 DEF Navigation!PersistFails
  <2>2. WatchSound(u)
    OBVIOUS
  <2> HIDE DEF u
  <2> QED BY <2>1, <2>2
<1>4. QED
  BY <1>1, <1>2, <1>3 DEF Navigation!Saving

LEMMA WatchGenerating ==
    ASSUME WatchSound(ui), Navigation!Generating
    PROVE  WatchSound(ui')
<1> USE DEF WatchSound, WatchFields
<1>1. ASSUME NEW r \in ui.starts, Navigation!GenerationRefused(r) PROVE WatchSound(ui')
  <2>1. WatchSound([ui EXCEPT !.starts = @ \ {r}])
    OBVIOUS
  <2> HIDE DEF WatchSound
  <2> QED BY <1>1, <2>1, WatchApart DEF Navigation!GenerationRefused
<1>2. ASSUME NEW r \in ui.starts, NEW t \in Navigation!Tasks, Navigation!GenerationStarted(r, t)
      PROVE  WatchSound(ui')
  <2> DEFINE u == [ui EXCEPT !.starts = @ \ {r}, !.made[t] = r.of,
                             !.crossed = @ \/ ui.source # 0 \/ ui.area # r.of, !.late = @ \/ ui.left]
  <2>1. ui' = Navigation!TransitionTo(Navigation!Listen(u, t), "generating") /\ WatchSound(u)
    BY <1>2 DEF Navigation!GenerationStarted
  <2> HIDE DEF u, WatchSound
  <2> QED BY <2>1, WatchApart
<1>3. ASSUME NEW t \in Navigation!Tasks, Navigation!ConnectionLost(t) PROVE WatchSound(ui')
  BY <1>3 DEF Navigation!ConnectionLost
<1>4. ASSUME NEW t \in Navigation!Tasks, Navigation!GenerationComplete(t) \/ Navigation!GenerationError(t)
      PROVE  WatchSound(ui')
  <2> DEFINE x == Navigation!Closed(ui, t)
             u == [x EXCEPT !.task = 0, !.source = 0]
  <2>1. ui' = Navigation!LoadRoute(u) \/ ui' = Navigation!TransitionTo(u, "setup")
    BY <1>4 DEF Navigation!GenerationComplete, Navigation!GenerationError
  <2> HIDE DEF x
  <2>2. WatchSound(x)
    <3> HIDE DEF WatchSound
    <3> QED BY WatchApart DEF x
  <2>3. WatchSound(u)
    BY <2>2
  <2> HIDE DEF u, WatchSound
  <2> QED BY <2>1, <2>3, WatchApart
<1>5. ASSUME NEW c \in ui.cancels, Navigation!Cancelled(c) PROVE WatchSound(ui')
  <2> DEFINE u == [ui EXCEPT !.cancels = @ \ {c}, !.task = 0,
                             !.crossed = @ \/ ui.task # c.task \/ ui.source # 0]
  <2>1. ui' = Navigation!AfterCancel(u, c.change, c.to) /\ WatchSound(u)
    BY <1>5 DEF Navigation!Cancelled
  <2> HIDE DEF u, WatchSound
  <2> QED BY <2>1, WatchCancelled
<1>6. QED
  BY <1>1, <1>2, <1>3, <1>4, <1>5 DEF Navigation!Generating

LEMMA WatchLoading ==
    ASSUME WatchSound(ui), Navigation!Loading
    PROVE  WatchSound(ui')
<1> USE DEF WatchSound, WatchFields
<1>1. ASSUME NEW l \in ui.loads,
             \/ Navigation!AreaArrives(l) \/ Navigation!RouteArrives(l) \/ Navigation!SegmentsSettled(l)
             \/ Navigation!EtaArrives(l) \/ Navigation!LoadFails(l)
      PROVE  WatchSound(ui')
  <2>1. CASE Navigation!AreaArrives(l)
    <3>1. WatchSound([ui EXCEPT !.loads = @ \ {l}])
      OBVIOUS
    <3> HIDE DEF WatchSound
    <3> QED BY <2>1, <3>1, WatchApart DEF Navigation!AreaArrives
  <2>2. CASE Navigation!RouteArrives(l)
    <3> DEFINE u == [ui EXCEPT !.route = l.of, !.base = l.base, !.loaded = TRUE, !.line = l.of]
               v == [u EXCEPT !.cov.area = u.area]
    <3>1. ui' = Navigation!On(l, "segments", Navigation!ResetCoverage(v))
      BY <2>2 DEF Navigation!RouteArrives
    <3>2. WatchSound(u)
      OBVIOUS
    <3> HIDE DEF u
    <3>3. WatchSound(v)
      BY <3>2
    <3> HIDE DEF v, WatchSound
    <3> QED BY <3>1, <3>3, WatchApart
  <2>3. CASE Navigation!SegmentsSettled(l)
    <3>1. PICK segs : ui' = Navigation!On(l, "eta", [ui EXCEPT !.cov.und = @ \cup segs])
      BY <2>3 DEF Navigation!SegmentsSettled
    <3>2. WatchSound([ui EXCEPT !.cov.und = @ \cup segs])
      OBVIOUS
    <3> HIDE DEF WatchSound
    <3> QED BY <3>1, <3>2, WatchApart
  <2>4. CASE Navigation!EtaArrives(l)
    <3>1. WatchSound([ui EXCEPT !.loads = @ \ {l}, !.late = @ \/ ui.left])
      OBVIOUS
    <3> HIDE DEF WatchSound
    <3> QED BY <2>4, <3>1, WatchApart DEF Navigation!EtaArrives
  <2>5. CASE Navigation!LoadFails(l)
    <3> DEFINE u == [ui EXCEPT !.loads = @ \ {l}, !.loaded = FALSE, !.line = NoArea]
               a == [u EXCEPT !.stuck = @ \/ u.st = "generating"]
               b == [u EXCEPT !.area = NoArea]
    <3>1. ui' = a \/ ui' = Navigation!ResetRouteState(b) \/ ui' = Navigation!AutoGenerateRoute(u)
      BY <2>5 DEF Navigation!LoadFails, Navigation!InvalidateSelectedArea
    <3>2. WatchSound(u)
      OBVIOUS
    <3> HIDE DEF u
    <3>3. WatchSound(a) /\ WatchSound(b)
      BY <3>2
    <3> HIDE DEF a, b, WatchSound
    <3> QED BY <3>1, <3>2, <3>3, WatchApart, WatchMoves
  <2> QED BY <1>1, <2>1, <2>2, <2>3, <2>4, <2>5
<1>2. ASSUME NEW c \in ui.checks,
             \/ Navigation!PositionUnknown(c) \/ Navigation!WayArrives(c)
             \/ \E b \in BOOLEAN : Navigation!PositionKnown(c, b)
      PROVE  WatchSound(ui')
  BY <1>2 DEF Navigation!PositionUnknown, Navigation!WayArrives, Navigation!PositionKnown
<1>3. ASSUME NEW e \in ui.ends, Navigation!EndSaved(e) \/ Navigation!EndRefreshed(e)
      PROVE  WatchSound(ui')
  BY <1>3 DEF Navigation!EndSaved, Navigation!EndRefreshed
<1>4. CASE Navigation!WayToStartArrives
  <2> DEFINE u == [ui EXCEPT !.leads = @ - 1, !.late = @ \/ ui.left \/ ~ui.loaded]
  <2>1. ui' = Navigation!LeadToStart(u)
    BY <1>4 DEF Navigation!WayToStartArrives
  <2>2. ~u.left \/ u.late
    OBVIOUS
  <2>3. WatchSound(u)
    OBVIOUS
  <2> HIDE DEF u, WatchSound
  <2> QED BY <2>1, <2>2, <2>3, WatchMoves
<1>5. CASE Navigation!OfferAnswered
  <2> DEFINE u == [ui EXCEPT !.offers = @ - 1, !.late = @ \/ ~ui.nav]
             v == [u EXCEPT !.resume = TRUE]
  <2>1. ui' = Navigation!TransitionTo(v, "ahead") \/ ui' = Navigation!TransitionTo(u, "off_route")
    BY <1>5 DEF Navigation!OfferAnswered
  <2>2. WatchSound(u)
    OBVIOUS
  <2> HIDE DEF u
  <2>3. WatchSound(v)
    BY <2>2
  <2> HIDE DEF v, WatchSound
  <2> QED BY <2>1, <2>2, <2>3, WatchApart
<1>6. CASE Navigation!StartTimer
  <2>1. WatchSound([ui EXCEPT !.timer = FALSE])
    OBVIOUS
  <2> HIDE DEF WatchSound
  <2> QED BY <1>6, <2>1, WatchApart DEF Navigation!StartTimer
<1>7. CASE Navigation!HandleGeolocationError
  BY <1>7 DEF Navigation!HandleGeolocationError
<1>8. QED
  BY <1>1, <1>2, <1>3, <1>4, <1>5, <1>6, <1>7 DEF Navigation!Loading

(* A point moves the state only; leaving stops the watch with the route.   *)
LEMMA WatchActs ==
    ASSUME WatchSound(ui), Navigation!Acts
    PROVE  WatchSound(ui')
<1>1. ASSUME NEW f, NEW segs, Navigation!UpdateNavigation(f, segs) PROVE WatchSound(ui')
  <2> DEFINE u == Navigation!MarkSegmentsDriven(Navigation!Acted(ui), segs)
             s == Navigation!TransitionTo(u, "at_start")
             h == Navigation!HandleNavigationStateTransitions(u, f)
             a == [s EXCEPT !.timer = TRUE]
             b == [h EXCEPT !.prev = f]
  <2>1. ui' = IF ui.st = "to_start" THEN IF f = "on" THEN a ELSE u ELSE b
    BY <1>1 DEF Navigation!UpdateNavigation
  <2>2. WatchSound(u)
    BY WatchApart
  <2> HIDE DEF u
  <2>3. WatchSound(s) /\ WatchSound(h)
    BY <2>2, WatchApart, WatchMoves
  <2> HIDE DEF s, h
  <2>4. WatchSound(a) /\ WatchSound(b)
    BY <2>3 DEF WatchSound, WatchFields
  <2> QED BY <2>1, <2>2, <2>4
<1>2. ASSUME NEW b \in BOOLEAN, Navigation!BeginNavigation(b) PROVE WatchSound(ui')
  <2> DEFINE x == Navigation!TransitionTo(ui, "active")
             u == Navigation!StartNavigation(x)
             v == IF u.loaded /\ b THEN Navigation!StartGeolocation(u) ELSE u
  <2>1. ui' = Navigation!Acted(v) /\ ~ui.left
    BY <1>2 DEF Navigation!BeginNavigation, Navigation!User
  <2>2. WatchSound(x) /\ ~x.left
    BY <2>1, WatchApart DEF Navigation!TransitionTo, WatchSound, WatchFields
  <2> HIDE DEF x
  <2>3. WatchSound(u) /\ ~u.left /\ (u.loaded => u.nav)
    BY <2>2, WatchMoves DEF Navigation!StartNavigation, WatchSound, WatchFields
  <2> HIDE DEF u
  <2>4. WatchSound(v)
    BY <2>3 DEF Navigation!StartGeolocation, WatchSound, WatchFields
  <2> QED BY <2>1, <2>4, WatchApart
<1>3. CASE Navigation!StartNavigatingToStart
  <2> DEFINE x == [ui EXCEPT !.leads = @ + 1]
  <2>1. ~ui.left /\ (ui' = Navigation!Acted(Navigation!LeadToStart(ui)) \/ ui' = Navigation!Acted(x))
    BY <1>3 DEF Navigation!StartNavigatingToStart, Navigation!User
  <2>2. WatchSound(x)
    BY DEF WatchSound, WatchFields
  <2> HIDE DEF x
  <2> QED BY <2>1, <2>2, WatchApart, WatchMoves
<1>4. CASE Navigation!EndNavigation
  <2> DEFINE x == [ui EXCEPT !.nav = FALSE, !.watch = FALSE]
             y == Navigation!TransitionTo(x, "setup")
             u == Navigation!PersistDrivenSegments(y)
             v == [u EXCEPT !.ends = @ \cup {[id |-> u.steps, at |-> "save", of |-> NoArea]}]
  <2>1. ui' = Navigation!Acted(v)
    BY <1>4 DEF Navigation!EndNavigation
  <2>2. WatchSound(x)
    BY DEF WatchSound, WatchFields
  <2> HIDE DEF x
  <2>3. WatchSound(y)
    BY <2>2, WatchApart
  <2> HIDE DEF y
  <2>4. WatchSound(u)
    BY <2>3, WatchApart
  <2> HIDE DEF u
  <2>5. WatchSound(v)
    BY <2>4 DEF WatchSound, WatchFields
  <2> QED BY <2>1, <2>5, WatchApart
<1>5. CASE Navigation!Leave
  <2> DEFINE x == Navigation!CancelGeneration(ui, FALSE, NoArea)
             y == [x EXCEPT !.left = TRUE]
             u == Navigation!PersistDrivenSegments(y)
             v == Navigation!ResetCoverage(u)
             typed(w) == /\ WatchFields \subseteq DOMAIN w
                         /\ w.watch \in BOOLEAN /\ w.nav \in BOOLEAN /\ w.late \in BOOLEAN /\ w.left \in BOOLEAN
  <2>1. ui' = Navigation!ResetRouteState(u)
    BY <1>5 DEF Navigation!Leave
  <2>2. typed(x)
    BY WatchCancelled DEF WatchSound
  <2> HIDE DEF x
  <2>3. typed(y)
    BY <2>2 DEF WatchFields
  <2> HIDE DEF y
  <2>4. typed(u)
    BY <2>3 DEF WatchFields, Navigation!PersistDrivenSegments
  <2> HIDE DEF u
  <2>5. typed(v)
    BY <2>4 DEF WatchFields, Navigation!ResetCoverage
  <2>6. ui' = [v EXCEPT !.st = "setup", !.silent = @ \/ u.panel # "setup", !.loaded = FALSE, !.route = NoArea,
                        !.line = NoArea, !.watch = FALSE, !.prev = "none", !.smart = NoArea, !.resume = FALSE,
                        !.way = NoArea, !.nav = FALSE]
    BY <2>1 DEF Navigation!ResetRouteState
  <2> HIDE DEF v
  <2> QED BY <2>5, <2>6 DEF WatchSound, WatchFields
<1>6. CASE Navigation!RegenerateRoute
  <2> DEFINE x == Navigation!ResetRouteState(ui)
  <2>1. ui' = Navigation!Acted(Navigation!AutoGenerateRoute(x)) /\ WatchSound(x)
    BY <1>6, WatchMoves DEF Navigation!RegenerateRoute
  <2> HIDE DEF x
  <2> QED BY <2>1, WatchApart
<1>7. ASSUME NEW a, Navigation!HandleAreaChange(a) PROVE WatchSound(ui')
  <2> DEFINE u == [ui EXCEPT !.crossed = @ \/ ui.cancels # {}]
  <2>1. ui' = Navigation!Acted(Navigation!CancelGeneration(u, TRUE, a))
    BY <1>7 DEF Navigation!HandleAreaChange
  <2>2. WatchSound(u)
    BY DEF WatchSound, WatchFields
  <2> HIDE DEF u
  <2> QED BY <2>1, <2>2, WatchCancelled, WatchApart
<1>8. CASE Navigation!ClickLoad \/ Navigation!ClickCancel
  BY <1>8, WatchApart, WatchCancelled DEF Navigation!ClickLoad, Navigation!ClickCancel
<1>9. CASE Navigation!ResumeFromAhead \/ Navigation!DismissResumePrompt
  <2>1. WatchSound([ui EXCEPT !.resume = FALSE])
    BY DEF WatchSound, WatchFields
  <2> QED BY <1>9, <2>1, WatchApart DEF Navigation!ResumeFromAhead, Navigation!DismissResumePrompt
<1>10. CASE Navigation!ThemeChanges
  <2>1. WatchSound([ui EXCEPT !.line = NoArea])
    BY DEF WatchSound, WatchFields
  <2> QED BY <1>10, <2>1, WatchApart DEF Navigation!ThemeChanges
<1>11. CASE Navigation!ShowSetup
  BY <1>11, WatchApart DEF Navigation!ShowSetup
<1>12. QED
  BY <1>1, <1>2, <1>3, <1>4, <1>5, <1>6, <1>7, <1>8, <1>9, <1>10, <1>11 DEF Navigation!Acts

LEMMA WatchKept ==
    ASSUME WatchSound(ui), Navigation!Next
    PROVE  WatchSound(ui')
BY WatchSaved, WatchGenerating, WatchLoading, WatchActs DEF Navigation!Next

LEMMA WatchStart ==
    ASSUME Navigation!Init
    PROVE  WatchSound(ui)
<1> DEFINE z == Navigation!Fresh
           a == CHOOSE x \in Areas : TRUE
           u == [z EXCEPT !.area = a]
           w == [u EXCEPT !.made[1] = a]
           d(s) == Navigation!Driving(a, s)
<1>1. \/ ui = z \/ ui = Navigation!LoadRoute(u)
      \/ ui = Navigation!TransitionTo(Navigation!Listen(w, 1), "generating")
      \/ ui = d("active") \/ ui = d("to_start")
  BY DEF Navigation!Init
<1>2. WatchSound(z) /\ ~z.left
  BY DEF Navigation!Fresh, WatchSound, WatchFields
<1>3. WatchFields \subseteq DOMAIN z /\ z.late = FALSE /\ z.left = FALSE
  BY DEF Navigation!Fresh, WatchFields
<1>4. \A s : /\ WatchFields \subseteq DOMAIN d(s) /\ d(s).watch = TRUE /\ d(s).nav = TRUE
             /\ d(s).late = FALSE /\ d(s).left = FALSE
  BY <1>3, ZenonT(60) DEF Navigation!Driving, WatchFields
<1> HIDE DEF z, d
<1>5. WatchSound(u) /\ \A s : WatchSound(d(s))
  BY <1>2, <1>4 DEF WatchSound, WatchFields
<1> HIDE DEF u
<1>6. WatchSound(w)
  BY <1>5 DEF WatchSound, WatchFields
<1> HIDE DEF w
<1>7. QED
  BY <1>1, <1>2, <1>5, <1>6, WatchApart

LEMMA WatchIsOwned ==
    ASSUME WatchSound(ui)
    PROVE  Navigation!WatchOwned
BY DEF WatchSound, Navigation!WatchOwned

-----------------------------------------------------------------------------
(* The coverage dashboard: one view on the screen.                         *)

ViewFields == {"moves", "shown", "view", "tangled"}

(* A transition at most, which hides the current view, then brings in the  *)
(* next.                                                                   *)
OneMove(moves, shown, view) ==
    \/ moves = {} /\ shown = {view}
    \/ \E m : /\ moves = {m} /\ {"stage", "to"} \subseteq DOMAIN m
              /\ \/ m.stage = 1 /\ m.from = view /\ shown = {view}
                 \/ m.stage = 2 /\ shown = {m.to}

ViewSound(u) ==
    /\ ViewFields \subseteq DOMAIN u
    /\ u.tangled \/ OneMove(u.moves, u.shown, u.view)

(* What is loaded, drawn, asked for and selected does not move the views.  *)
LEMMA ViewHelpersSound ==
    ASSUME NEW u, ViewSound(u), NEW a, NEW b, NEW c, NEW d
    PROVE  /\ ViewSound(Dashboard!Acted(u)) /\ ViewSound(Dashboard!Got(u, a))
           /\ ViewSound(Dashboard!Sent(u, a, b, c, d)) /\ ViewSound(Dashboard!RefreshDashboardStats(u, a))
           /\ ViewSound(Dashboard!CloseStreetDetailPanel(u)) /\ ViewSound(Dashboard!UpdateStreetStatus(u))
           /\ ViewSound(Dashboard!Drawn(u, a)) /\ ViewSound(Dashboard!LoadStreets(u, a, b))
<1> USE DEF ViewSound, ViewFields
<1>1. ViewSound(Dashboard!Acted(u)) /\ ViewSound(Dashboard!Got(u, a))
  BY DEF Dashboard!Acted, Dashboard!Got
<1>2. ViewSound(Dashboard!CloseStreetDetailPanel(u)) /\ ViewSound(Dashboard!UpdateStreetStatus(u))
  BY DEF Dashboard!CloseStreetDetailPanel, Dashboard!UpdateStreetStatus
<1>3. ASSUME NEW x, ViewSound(x), NEW p, NEW q, NEW r, NEW s PROVE ViewSound(Dashboard!Sent(x, p, q, r, s))
  BY <1>3 DEF Dashboard!Sent
<1>4. ASSUME NEW x, ViewSound(x), NEW k PROVE ViewSound(Dashboard!Drawn(x, k))
  BY <1>4 DEF Dashboard!Drawn
<1>5. ViewSound(Dashboard!LoadStreets(u, a, b))
  <2> DEFINE w == [u EXCEPT !.loads = @ + 1]
             k == [a |-> a, v |-> b]
  <2>1. ViewSound(w)
    OBVIOUS
  <2>2. \/ Dashboard!LoadStreets(u, a, b) = w
        \/ Dashboard!LoadStreets(u, a, b) = Dashboard!Drawn(w, k)
        \/ Dashboard!LoadStreets(u, a, b) = Dashboard!Sent(w, "streets", a, u.loads + 1, b)
    BY DEF Dashboard!LoadStreets
  <2> HIDE DEF w, k, ViewSound
  <2> QED BY <1>3, <1>4, <2>1, <2>2
<1>6. ViewSound(Dashboard!RefreshDashboardStats(u, a))
  BY <1>3 DEF Dashboard!RefreshDashboardStats
<1>7. QED
  BY <1>1, <1>2, <1>3, <1>4, <1>5, <1>6

(* The transitions.                                                        *)
LEMMA ViewMoves ==
    ASSUME ViewSound(ui),
           \/ Dashboard!BackToList \/ \E a \in Areas : Dashboard!ViewArea(a)
           \/ \E m \in ui.moves : Dashboard!Exited(m) \/ Dashboard!Entered(m)
    PROVE  ViewSound(ui')
<1>1. ASSUME NEW u, ViewSound(u), NEW to, NEW n, NEW a PROVE ViewSound(Dashboard!SwitchView(u, to, n, a))
  <2> DEFINE m == [from |-> u.view, to |-> to, stage |-> 1, n |-> n, area |-> a]
             v == Dashboard!SwitchView(u, to, n, a)
  <2>1. /\ ViewFields \subseteq DOMAIN v /\ v.shown = u.shown /\ v.view = u.view
        /\ v.moves = u.moves \cup {m} /\ v.tangled = (u.tangled \/ u.moves # {})
    BY <1>1 DEF Dashboard!SwitchView, ViewSound, ViewFields
  <2> HIDE DEF v
  <2>2. ASSUME u.tangled \/ u.moves # {} PROVE ViewSound(v)
    BY <2>1, <2>2 DEF ViewSound
  <2>3. ASSUME ~u.tangled, u.moves = {} PROVE ViewSound(v)
    <3>1. u.shown = {u.view}
      BY <1>1, <2>3 DEF ViewSound, OneMove
    <3>2. v.moves = {m} /\ {"stage", "to"} \subseteq DOMAIN m /\ m.stage = 1 /\ m.from = v.view
      BY <2>1, <2>3
    <3>3. OneMove(v.moves, v.shown, v.view)
      <4> HIDE DEF m
      <4> QED BY <2>1, <3>1, <3>2 DEF OneMove
    <3> QED BY <2>1, <3>3 DEF ViewSound
  <2> QED BY <2>2, <2>3 DEF v
<1>2. CASE Dashboard!BackToList
  <2> DEFINE u == [Dashboard!CloseStreetDetailPanel(ui) EXCEPT
                     !.req = @ + 1, !.area = NoArea, !.data = NoArea, !.token = 0]
  <2>1. ui' = Dashboard!Acted(Dashboard!SwitchView(u, "list", ui.req + 1, NoArea))
    BY <1>2 DEF Dashboard!BackToList
  <2>2. ViewSound(u)
    BY DEF Dashboard!CloseStreetDetailPanel, ViewSound, ViewFields
  <2> HIDE DEF u
  <2> QED BY <1>1, <2>1, <2>2, ViewHelpersSound
<1>3. ASSUME NEW a \in Areas, Dashboard!ViewArea(a) PROVE ViewSound(ui')
  <2> DEFINE u == [ui EXCEPT !.req = @ + 1, !.area = a, !.mixed = @ \/ ui.data # NoArea]
  <2>1. ui' = Dashboard!Acted(Dashboard!SwitchView(Dashboard!CloseStreetDetailPanel(u), "area", ui.req + 1, a))
    BY <1>3 DEF Dashboard!ViewArea
  <2>2. ViewSound(u)
    BY DEF ViewSound, ViewFields
  <2> HIDE DEF u
  <2>3. ViewSound(Dashboard!CloseStreetDetailPanel(u))
    BY <2>2, ViewHelpersSound
  <2> QED BY <1>1, <2>1, <2>3, ViewHelpersSound
<1>4. ASSUME NEW m \in ui.moves, Dashboard!Exited(m) PROVE ViewSound(ui')
  <2> DEFINE s == [m EXCEPT !.stage = 2]
             sh == (ui.shown \ {m.from}) \cup {m.to}
             mv == (ui.moves \ {m}) \cup {s}
  <2>1. m.stage = 1 /\ ui' = [ui EXCEPT !.shown = sh, !.moves = mv]
    BY <1>4 DEF Dashboard!Exited
  <2>2. OneMove(ui.moves, ui.shown, ui.view) => OneMove(mv, sh, ui.view)
    <3>1. SUFFICES ASSUME OneMove(ui.moves, ui.shown, ui.view) PROVE OneMove(mv, sh, ui.view)
      OBVIOUS
    <3>2. ui.moves = {m} /\ {"stage", "to"} \subseteq DOMAIN m /\ ui.shown = {m.from}
      BY <2>1, <3>1 DEF OneMove
    <3>3. {"stage", "to"} \subseteq DOMAIN s /\ s.stage = 2 /\ s.to = m.to
      BY <3>2
    <3>4. mv = {s} /\ sh = {s.to}
      BY <3>2, <3>3
    <3> HIDE DEF s, mv, sh
    <3> QED BY <3>3, <3>4 DEF OneMove
  <2> HIDE DEF sh, mv
  <2> QED BY <2>1, <2>2 DEF ViewSound, ViewFields
<1>5. ASSUME NEW m \in ui.moves, Dashboard!Entered(m) PROVE ViewSound(ui')
  <2> DEFINE mv == ui.moves \ {m}
             u == [ui EXCEPT !.view = m.to, !.moves = mv]
  <2>1. m.stage = 2 /\ (ui' = u \/ ui' = Dashboard!Sent(u, "view", m.area, m.n, ui.sync[m.area]))
    BY <1>5 DEF Dashboard!Entered
  <2>2. OneMove(ui.moves, ui.shown, ui.view) => OneMove(mv, ui.shown, m.to)
    BY <2>1 DEF OneMove
  <2> HIDE DEF mv
  <2>3. ViewSound(u)
    BY <2>2 DEF ViewSound, ViewFields
  <2> HIDE DEF u
  <2> QED BY <2>1, <2>3, ViewHelpersSound
<1>6. QED
  BY <1>2, <1>3, <1>4, <1>5

LEMMA ViewKept ==
    ASSUME ViewSound(ui), Dashboard!Next
    PROVE  ViewSound(ui')
<1> USE DEF ViewSound, ViewFields
<1>1. CASE Dashboard!MapReady
  <2> DEFINE u == [ui EXCEPT !.map = "ready"]
  <2>1. ui' = u \/ ui' = Dashboard!LoadStreets(u, ui.area, ui.token)
    BY <1>1 DEF Dashboard!MapReady
  <2>2. ViewSound(u)
    OBVIOUS
  <2> HIDE DEF u, ViewSound
  <2> QED BY <2>1, <2>2, ViewHelpersSound
<1>2. CASE Dashboard!OpenHistory
  <2> DEFINE u == [ui EXCEPT !.activity = NoArea, !.jobs = NoArea]
  <2>1. ui' = Dashboard!Acted(Dashboard!Sent(Dashboard!Sent(u, "activity", ui.area, 0, 0), "jobs", ui.area, 0, 0))
    BY <1>2 DEF Dashboard!OpenHistory
  <2>2. ViewSound(u)
    OBVIOUS
  <2> HIDE DEF u, ViewSound
  <2> QED BY <2>1, <2>2, ViewHelpersSound
<1>3. CASE Dashboard!OpenStreetDetailPanel
  <2>1. ViewSound([ui EXCEPT !.segment = ui.drawn, !.lit = ui.drawn])
    OBVIOUS
  <2> HIDE DEF ViewSound
  <2> QED BY <1>3, <2>1, ViewHelpersSound DEF Dashboard!OpenStreetDetailPanel
<1>4. ASSUME Dashboard!ClosePanel PROVE ViewSound(ui')
  BY <1>4, ViewHelpersSound DEF Dashboard!ClosePanel
<1>5. CASE Dashboard!MarkSegment
  <2>1. ViewSound([ui EXCEPT !.misfiled = @ \/ ui.segment # ui.area])
    OBVIOUS
  <2> HIDE DEF ViewSound
  <2> QED BY <1>5, <2>1, ViewHelpersSound DEF Dashboard!MarkSegment
<1>6. CASE Dashboard!Escape
  BY <1>4, <1>6, ViewMoves DEF Dashboard!Escape
<1>7. ASSUME NEW a \in Areas, Dashboard!ServerSyncs(a) PROVE ViewSound(ui')
  BY <1>7 DEF Dashboard!ServerSyncs
<1>8. ASSUME NEW f, Dashboard!ApplyMapFilter(f) PROVE ViewSound(ui')
  <2> DEFINE g == IF f = {} THEN {} ELSE (ui.filter \ f) \cup (f \ ui.filter)
             u == [ui EXCEPT !.filter = g, !.lit = ui.segment]
             v == [u EXCEPT !.layers = Dashboard!LayersShown(u), !.fresh = TRUE]
  <2>1. ui' = Dashboard!Acted(IF ui.drawn = NoArea THEN u ELSE v)
    BY <1>8 DEF Dashboard!ApplyMapFilter
  <2>2. ViewSound(u)
    OBVIOUS
  <2> HIDE DEF u
  <2>3. ViewSound(v)
    BY <2>2
  <2> HIDE DEF v, ViewSound
  <2> QED BY <2>1, <2>2, <2>3, ViewHelpersSound
<1>9. ASSUME NEW r \in ui.net, Dashboard!AreaArrives(r) PROVE ViewSound(ui')
  <2> DEFINE g == Dashboard!Got(ui, r)
             u == [g EXCEPT !.data = r.of, !.token = r.v]
             v == [u EXCEPT !.map = "starting"]
  <2>1. ui' = g \/ ui' = v \/ ui' = Dashboard!LoadStreets(u, r.of, r.v)
    BY <1>9 DEF Dashboard!AreaArrives
  <2>2. ViewSound(g)
    BY ViewHelpersSound
  <2> HIDE DEF g
  <2>3. ViewSound(u)
    BY <2>2
  <2> HIDE DEF u
  <2>4. ViewSound(v)
    BY <2>3
  <2> HIDE DEF v, ViewSound
  <2> QED BY <2>1, <2>2, <2>3, <2>4, ViewHelpersSound
<1>10. ASSUME NEW r \in ui.net, Dashboard!StreetsArrive(r) PROVE ViewSound(ui')
  <2> DEFINE g == Dashboard!Got(ui, r)
             k == [a |-> r.of, v |-> r.v]
             u == [g EXCEPT !.cache = k]
  <2>1. ui' = Dashboard!Drawn(u, k) \/ ui' = u
    BY <1>10 DEF Dashboard!StreetsArrive
  <2>2. ViewSound(g)
    BY ViewHelpersSound
  <2> HIDE DEF g, k
  <2>3. ViewSound(u)
    BY <2>2
  <2> HIDE DEF u, ViewSound
  <2> QED BY <2>1, <2>3, ViewHelpersSound
<1>11. ASSUME NEW r \in ui.net,
              Dashboard!RefreshArrives(r) \/ Dashboard!RequestFails(r) \/ Dashboard!ActivityArrives(r) \/ Dashboard!JobsArrive(r)
       PROVE  ViewSound(ui')
  <2> DEFINE g == Dashboard!Got(ui, r)
  <2>1. ui' \in {g, [g EXCEPT !.activity = r.of], [g EXCEPT !.jobs = r.of]}
    BY <1>11 DEF Dashboard!RefreshArrives, Dashboard!RequestFails, Dashboard!ActivityArrives, Dashboard!JobsArrive
  <2>2. ViewSound(g)
    BY ViewHelpersSound
  <2> HIDE DEF g
  <2> QED BY <2>1, <2>2
<1>12. ASSUME NEW r \in ui.net, Dashboard!MarkArrives(r) PROVE ViewSound(ui')
  <2> HIDE DEF ViewSound
  <2> QED BY <1>12, ViewHelpersSound DEF Dashboard!MarkArrives
<1>13. QED
  BY <1>1, <1>2, <1>3, <1>4, <1>5, <1>6, <1>7, <1>8, <1>9, <1>10, <1>11, <1>12, ViewMoves DEF Dashboard!Next

LEMMA ViewStart ==
    ASSUME Dashboard!Init
    PROVE  ViewSound(ui)
BY DEF Dashboard!Init, Dashboard!Start, ViewSound, ViewFields, OneMove

LEMMA ViewIsOne ==
    ASSUME ViewSound(ui)
    PROVE  Dashboard!OneViewShown
BY DEF ViewSound, OneMove, Dashboard!OneViewShown

-----------------------------------------------------------------------------
(* The scenes of the map and the phone's sheet.                            *)

SceneFields == {"lens", "saved", "still", "scene", "sup", "soon", "dat", "late", "sheet", "half", "drag", "locked"}
CanvasFields == {"on", "out", "canvas", "heard", "dat"}

ScenesTyped(u) ==
    /\ SceneFields \subseteq DOMAIN u
    /\ DOMAIN u.scene = Scene!Scenes /\ u.soon \in [Scene!Scenes -> Nat]
    /\ u.late \in BOOLEAN /\ u.still \in BOOLEAN
    /\ \A s \in Scene!Scenes :
        /\ CanvasFields \subseteq DOMAIN u.scene[s]
        /\ u.scene[s].on \in BOOLEAN /\ u.scene[s].out \in BOOLEAN /\ u.scene[s].canvas \in BOOLEAN
        /\ u.scene[s].heard \in Nat

(* A scene, its canvas, its listeners and its data, and the trips it keeps *)
(* off the map.                                                            *)
ScenesShaped(u) ==
    /\ \A s \in Scene!Scenes : LET x == u.scene[s] IN
        /\ x.out => ~x.on
        /\ x.out /\ ~u.still => x.canvas
        /\ x.canvas => x.on \/ x.out
        /\ x.on /\ ~u.still => x.canvas /\ x.heard > 0
    /\ u.sup \subseteq Scene!Scenes /\ \A s \in u.sup : u.scene[s].on \/ u.scene[s].out

SceneFed(u, s) ==
    u.scene[s].on /\ u.scene[s].canvas => u.scene[s].dat = u.dat \/ u.soon[s] > 0 \/ u.late

ScenesFit(u) == ScenesShaped(u) /\ \A s \in Scene!Scenes : SceneFed(u, s)

OnAir(u) == {s \in Scene!Scenes : u.scene[s].on}

SheetSound(lens, saved, sheet, half, drag, locked) ==
    /\ saved \in Scene!Lenses
    /\ locked \in BOOLEAN /\ drag \in BOOLEAN
    /\ IF lens = "none" THEN ~locked /\ ~drag
       ELSE /\ sheet \in Scene!SheetStates /\ (sheet = "half" => half)
            /\ locked <=> sheet # "collapsed"

SceneSound(u) ==
    /\ ScenesTyped(u) /\ ScenesFit(u)
    /\ \A s, o \in OnAir(u) : s = o
    /\ u.lens = "none" => OnAir(u) = {}
    /\ SheetSound(u.lens, u.saved, u.sheet, u.half, u.drag, u.locked)

(* v is u but for its scenes, the trips they keep off the map and whatever *)
(* none of this is about.                                                  *)
ScenesOnly(u, v) ==
    \A f \in SceneFields \ {"scene", "sup"} : v[f] = u[f]

(* A canvas is taken down: of a scene that is off, or not moving.          *)
LEMMA FinalizeSound ==
    ASSUME NEW u, ScenesTyped(u), ScenesFit(u), NEW s \in Scene!Scenes
    PROVE  LET v == Scene!FinalizeDeactivate(u, s)
               w == Scene!DestroyScene(u, s) IN
           /\ ScenesOnly(u, v) /\ ScenesTyped(v) /\ OnAir(v) = OnAir(u)
           /\ ~u.scene[s].on \/ u.still => ScenesFit(v)
           /\ ScenesOnly(u, w) /\ ScenesTyped(w) /\ ScenesFit(w) /\ OnAir(w) = OnAir(u) \ {s}
<1>1. ASSUME NEW x, ScenesTyped(x)
      PROVE  LET v == Scene!FinalizeDeactivate(x, s) IN
             /\ ScenesTyped(v) /\ ScenesOnly(x, v)
             /\ v.scene[s].on = x.scene[s].on /\ v.scene[s].canvas = FALSE /\ v.scene[s].out = FALSE
             /\ \A o \in Scene!Scenes \ {s} : v.scene[o] = x.scene[o]
             /\ v.sup = x.sup \ {s}
  <2> DEFINE v == Scene!FinalizeDeactivate(x, s)
             r == [x.scene[s] EXCEPT !.canvas = FALSE, !.out = FALSE, !.heard = IF @ = 0 THEN 0 ELSE @ - 1]
             p == IF s = "bloom" THEN FALSE ELSE x.pin
  <2>1. v = [x EXCEPT !.sup = @ \ {s}, !.pin = p, !.scene[s] = r]
    BY DEF Scene!FinalizeDeactivate
  <2>2. /\ CanvasFields \subseteq DOMAIN r /\ r.on = x.scene[s].on
        /\ r.canvas = FALSE /\ r.out = FALSE /\ r.heard \in Nat
    BY <1>1 DEF ScenesTyped, CanvasFields
  <2> HIDE DEF v, r, p
  <2>3. ScenesOnly(x, v) /\ SceneFields \subseteq DOMAIN v
    BY <1>1, <2>1 DEF ScenesTyped, ScenesOnly, SceneFields
  <2>4. v.sup = x.sup \ {s} /\ v.scene = [x.scene EXCEPT ![s] = r]
    BY <1>1, <2>1 DEF ScenesTyped, SceneFields
  <2>5. v.scene[s] = r /\ \A o \in Scene!Scenes \ {s} : v.scene[o] = x.scene[o]
    BY <1>1, <2>4 DEF ScenesTyped
  <2>6. v.soon = x.soon /\ v.late = x.late /\ v.still = x.still
    BY <2>3 DEF ScenesOnly, SceneFields
  <2>7. ScenesTyped(v)
    BY <1>1, <2>2, <2>3, <2>4, <2>5, <2>6 DEF ScenesTyped
  <2> QED BY <2>2, <2>3, <2>4, <2>5, <2>7 DEF v
<1> DEFINE v == Scene!FinalizeDeactivate(u, s)
           y == [u EXCEPT !.scene[s].on = FALSE]
           w == Scene!FinalizeDeactivate(y, s)
<1>2. /\ ScenesTyped(y) /\ ScenesOnly(u, y) /\ y.scene[s].on = FALSE /\ y.sup = u.sup
      /\ \A o \in Scene!Scenes \ {s} : y.scene[o] = u.scene[o]
  BY DEF ScenesTyped, ScenesOnly, SceneFields, CanvasFields
<1>3. w = Scene!DestroyScene(u, s)
  BY DEF Scene!DestroyScene
<1> HIDE DEF y
<1>4. /\ ScenesTyped(v) /\ ScenesOnly(u, v)
      /\ v.scene[s].on = u.scene[s].on /\ v.scene[s].canvas = FALSE /\ v.scene[s].out = FALSE
      /\ \A o \in Scene!Scenes \ {s} : v.scene[o] = u.scene[o]
      /\ v.sup = u.sup \ {s}
  BY <1>1
<1>5. /\ ScenesTyped(w) /\ ScenesOnly(y, w)
      /\ w.scene[s].on = FALSE /\ w.scene[s].canvas = FALSE /\ w.scene[s].out = FALSE
      /\ \A o \in Scene!Scenes \ {s} : w.scene[o] = u.scene[o]
      /\ w.sup = u.sup \ {s}
  BY <1>1, <1>2
<1> HIDE DEF v, w
<1>6. ScenesOnly(u, w)
  BY <1>2, <1>5 DEF ScenesOnly
<1>7. OnAir(v) = OnAir(u) /\ OnAir(w) = OnAir(u) \ {s}
  BY <1>4, <1>5 DEF OnAir
<1>8. /\ v.still = u.still /\ v.dat = u.dat /\ v.soon = u.soon /\ v.late = u.late
      /\ w.still = u.still /\ w.dat = u.dat /\ w.soon = u.soon /\ w.late = u.late
  BY <1>4, <1>6 DEF ScenesOnly, SceneFields
<1>9. ~u.scene[s].on \/ u.still => ScenesFit(v)
  BY <1>4, <1>8 DEF ScenesFit, ScenesShaped, SceneFed, ScenesTyped
<1>10. ScenesFit(w)
  BY <1>5, <1>8 DEF ScenesFit, ScenesShaped, SceneFed, ScenesTyped
<1>11. QED
  BY <1>3, <1>4, <1>5, <1>6, <1>7, <1>9, <1>10 DEF v

LEMMA HideSound ==
    ASSUME NEW u, ScenesTyped(u), ScenesFit(u), NEW s \in Scene!Scenes
    PROVE  LET w == Scene!HideTripLayers(u, s) IN
           /\ ScenesOnly(u, w) /\ ScenesTyped(w) /\ OnAir(w) = OnAir(u)
           /\ u.scene[s].on => ScenesFit(w)
<1> DEFINE w == Scene!HideTripLayers(u, s)
<1>1. /\ ScenesOnly(u, w) /\ SceneFields \subseteq DOMAIN w /\ w.scene = u.scene /\ w.sup = u.sup \cup {s}
  BY DEF Scene!HideTripLayers, ScenesTyped, ScenesOnly, SceneFields
<1> HIDE DEF w
<1>2. w.still = u.still /\ w.dat = u.dat /\ w.soon = u.soon /\ w.late = u.late
  BY <1>1 DEF ScenesOnly, SceneFields
<1>3. ScenesTyped(w)
  BY <1>1, <1>2 DEF ScenesTyped
<1>4. OnAir(w) = OnAir(u)
  BY <1>1 DEF OnAir
<1>5. u.scene[s].on => ScenesFit(w)
  BY <1>1, <1>2 DEF ScenesFit, ScenesShaped, SceneFed
<1>6. QED
  BY <1>1, <1>3, <1>4, <1>5 DEF w

(* The trips make room for a scene that is on, which gets the data of now. *)
LEMMA RefreshSound ==
    ASSUME NEW u, ScenesTyped(u), ScenesShaped(u), NEW s \in Scene!Scenes,
           \A o \in Scene!Scenes : SceneFed(u, o) \/ (o = s /\ u.scene[s].on)
    PROVE  LET v == Scene!Refresh(u, s) IN
           ScenesOnly(u, v) /\ ScenesTyped(v) /\ ScenesFit(v) /\ OnAir(v) = OnAir(u)
<1> DEFINE y == [u EXCEPT !.scene[s].dat = u.dat]
           w == Scene!HideTripLayers(y, s)
<1>1. /\ ScenesTyped(y) /\ ScenesOnly(u, y) /\ y.sup = u.sup
      /\ \A o \in Scene!Scenes \ {s} : y.scene[o] = u.scene[o]
      /\ \A f \in CanvasFields \ {"dat"} : y.scene[s][f] = u.scene[s][f]
      /\ y.scene[s].dat = u.dat
  BY DEF ScenesTyped, ScenesOnly, SceneFields, CanvasFields
<1>2. Scene!Refresh(u, s) = IF u.scene[s].on THEN w ELSE u
  BY DEF Scene!Refresh
<1> HIDE DEF y
<1>3. /\ y.scene[s].on = u.scene[s].on /\ y.scene[s].out = u.scene[s].out
      /\ y.scene[s].canvas = u.scene[s].canvas /\ y.scene[s].heard = u.scene[s].heard
      /\ y.still = u.still /\ y.dat = u.dat /\ y.soon = u.soon /\ y.late = u.late
  BY <1>1 DEF ScenesOnly, SceneFields, CanvasFields
<1>4. OnAir(y) = OnAir(u)
  BY <1>1, <1>3 DEF OnAir
<1>5. ScenesFit(y)
  <2>1. ScenesShaped(y)
    BY <1>1, <1>3 DEF ScenesShaped
  <2>2. ASSUME NEW o \in Scene!Scenes PROVE SceneFed(y, o)
    BY <1>1, <1>3 DEF SceneFed
  <2> QED BY <2>1, <2>2 DEF ScenesFit
<1>6. ScenesOnly(y, w) /\ ScenesTyped(w) /\ OnAir(w) = OnAir(y) /\ (y.scene[s].on => ScenesFit(w))
  BY <1>1, <1>5, HideSound
<1> HIDE DEF w
<1>7. ScenesOnly(u, w) /\ ScenesOnly(u, u)
  BY <1>1, <1>6 DEF ScenesOnly
<1>8. ~u.scene[s].on => ScenesFit(u)
  BY DEF ScenesFit
<1>9. QED
  BY <1>2, <1>3, <1>4, <1>6, <1>7, <1>8

(* The guard lets one scene live.                                          *)
LEMMA RepairSound ==
    ASSUME NEW u, ScenesTyped(u), ScenesFit(u), NEW s \in Scene!Scenes, u.scene[s].on
    PROVE  LET v == Scene!RepairExclusiveSceneMode(u, s) IN
           ScenesOnly(u, v) /\ ScenesTyped(v) /\ ScenesFit(v) /\ OnAir(v) = {s}
<1> DEFINE o == CHOOSE x \in Scene!Scenes : x # s
           d == Scene!DestroyScene(u, o)
           w == IF u.scene[o].on THEN d ELSE u
           v == Scene!HideTripLayers(w, s)
<1>1. \E x \in Scene!Scenes : x # s
  BY DEF Scene!Scenes
<1>2. o \in Scene!Scenes /\ o # s
  BY <1>1
<1>3. Scene!Scenes = {s, o}
  BY <1>2 DEF Scene!Scenes
<1>4. v = Scene!RepairExclusiveSceneMode(u, s)
  BY DEF Scene!RepairExclusiveSceneMode
<1> HIDE DEF o
<1>5. ScenesOnly(u, d) /\ ScenesTyped(d) /\ ScenesFit(d) /\ OnAir(d) = OnAir(u) \ {o}
  BY <1>2, FinalizeSound
<1>6. s \in OnAir(u) /\ (o \in OnAir(u) <=> u.scene[o].on) /\ OnAir(u) \subseteq {s, o}
  BY <1>2, <1>3 DEF OnAir
<1> HIDE DEF d
<1>7. ScenesOnly(u, w) /\ ScenesTyped(w) /\ ScenesFit(w) /\ OnAir(w) = {s}
  BY <1>2, <1>5, <1>6 DEF ScenesOnly
<1> HIDE DEF w
<1>8. w.scene[s].on
  BY <1>7 DEF OnAir
<1>9. ScenesOnly(w, v) /\ ScenesTyped(v) /\ OnAir(v) = OnAir(w) /\ ScenesFit(v)
  BY <1>7, <1>8, HideSound
<1> HIDE DEF v
<1>10. ScenesOnly(u, v)
  BY <1>7, <1>9 DEF ScenesOnly
<1>11. QED
  BY <1>4, <1>7, <1>9, <1>10

(* A scene starts: its fade-out is stopped, the other one ends.            *)
LEMMA ActivateSound ==
    ASSUME NEW u, ScenesTyped(u), ScenesFit(u), NEW s \in Scene!Scenes
    PROVE  LET v == Scene!ActivateScene(u, s) IN
           /\ ScenesOnly(u, v) /\ ScenesTyped(v) /\ ScenesFit(v)
           /\ OnAir(v) = IF s \in OnAir(u) THEN OnAir(u) ELSE {s}
<1> DEFINE r == [u.scene[s] EXCEPT !.on = TRUE, !.out = FALSE, !.canvas = TRUE, !.heard = @ + 1]
           y == [u EXCEPT !.scene[s] = r, !.leaked = @ \/ u.scene[s].heard > 0]
           w == Scene!Refresh(y, s)
           v == Scene!RepairExclusiveSceneMode(w, s)
<1>1. Scene!ActivateScene(u, s) = IF u.scene[s].on THEN u ELSE v
  BY DEF Scene!ActivateScene
<1>2. u.scene[s].on <=> s \in OnAir(u)
  BY DEF OnAir
<1>2a. /\ CanvasFields \subseteq DOMAIN r /\ r.on = TRUE /\ r.out = FALSE
      /\ r.canvas = TRUE /\ r.heard \in Nat /\ r.heard > 0
  BY DEF ScenesTyped, CanvasFields
<1> HIDE DEF r
<1>3. /\ ScenesTyped(y) /\ ScenesOnly(u, y) /\ y.sup = u.sup
      /\ \A o \in Scene!Scenes \ {s} : y.scene[o] = u.scene[o]
      /\ y.scene[s].on /\ ~y.scene[s].out /\ y.scene[s].canvas /\ y.scene[s].heard > 0
  <2>1. ScenesOnly(u, y) /\ y.sup = u.sup /\ y.scene = [u.scene EXCEPT ![s] = r] /\ SceneFields \subseteq DOMAIN y
    BY DEF ScenesTyped, ScenesOnly, SceneFields
  <2> HIDE DEF y
  <2>2. y.scene[s] = r /\ \A o \in Scene!Scenes \ {s} : y.scene[o] = u.scene[o]
    BY <2>1 DEF ScenesTyped
  <2>3. y.soon = u.soon /\ y.late = u.late /\ y.still = u.still
    BY <2>1 DEF ScenesOnly, SceneFields
  <2>4. ScenesTyped(y)
    BY <1>2a, <2>1, <2>2, <2>3 DEF ScenesTyped
  <2> QED BY <1>2a, <2>1, <2>2, <2>4
<1> HIDE DEF y
<1>4. /\ y.still = u.still /\ y.dat = u.dat /\ y.soon = u.soon /\ y.late = u.late
  BY <1>3 DEF ScenesOnly, SceneFields
<1>5. ScenesShaped(y) /\ \A o \in Scene!Scenes : SceneFed(y, o) \/ (o = s /\ y.scene[s].on)
  BY <1>3, <1>4 DEF ScenesFit, ScenesShaped, SceneFed
<1>6. ScenesOnly(y, w) /\ ScenesTyped(w) /\ ScenesFit(w) /\ OnAir(w) = OnAir(y)
  BY <1>3, <1>5, RefreshSound
<1> HIDE DEF w
<1>7. w.scene[s].on
  BY <1>3, <1>6 DEF OnAir
<1>8. ScenesOnly(w, v) /\ ScenesTyped(v) /\ ScenesFit(v) /\ OnAir(v) = {s}
  BY <1>6, <1>7, RepairSound
<1> HIDE DEF v
<1>9. ScenesOnly(u, v) /\ ScenesOnly(u, u)
  BY <1>3, <1>6, <1>8 DEF ScenesOnly
<1>10. QED
  BY <1>1, <1>2, <1>8, <1>9

LEMMA DeactivateSound ==
    ASSUME NEW u, ScenesTyped(u), ScenesFit(u), NEW s \in Scene!Scenes
    PROVE  LET v == Scene!DeactivateScene(u, s) IN
           /\ ScenesOnly(u, v) /\ ScenesTyped(v) /\ ScenesFit(v)
           /\ OnAir(v) \subseteq OnAir(u)
<1> DEFINE y == [u EXCEPT !.scene[s].on = FALSE, !.scene[s].out = TRUE]
           f == Scene!FinalizeDeactivate(u, s)
<1>1. \/ Scene!DeactivateScene(u, s) = u
      \/ Scene!DeactivateScene(u, s) = f /\ u.still
      \/ Scene!DeactivateScene(u, s) = y /\ u.scene[s].on
  BY DEF Scene!DeactivateScene
<1>2. ScenesOnly(u, f) /\ ScenesTyped(f) /\ OnAir(f) = OnAir(u) /\ (u.still => ScenesFit(f))
  BY FinalizeSound
<1>3. /\ ScenesTyped(y) /\ ScenesOnly(u, y) /\ y.sup = u.sup
      /\ \A o \in Scene!Scenes \ {s} : y.scene[o] = u.scene[o]
      /\ y.scene[s].on = FALSE /\ y.scene[s].out = TRUE /\ y.scene[s].canvas = u.scene[s].canvas
  BY DEF ScenesTyped, ScenesOnly, SceneFields, CanvasFields
<1> HIDE DEF y, f
<1>4. /\ y.still = u.still /\ y.dat = u.dat /\ y.soon = u.soon /\ y.late = u.late
  BY <1>3 DEF ScenesOnly, SceneFields
<1>5. ASSUME u.scene[s].on PROVE ScenesFit(y) /\ OnAir(y) \subseteq OnAir(u)
  BY <1>3, <1>4, <1>5 DEF ScenesFit, ScenesShaped, SceneFed, OnAir
<1>6. ScenesOnly(u, u)
  BY DEF ScenesOnly
<1>7. QED
  BY <1>1, <1>2, <1>3, <1>5, <1>6

(* What is beside the scenes, the trips, the lens and the sheet.           *)
Beside(u, v) == SceneFields \subseteq DOMAIN v /\ \A f \in SceneFields : v[f] = u[f]

LEMMA SceneApart ==
    ASSUME NEW u, SceneSound(u), NEW v, Beside(u, v)
    PROVE  SceneSound(v)
<1>1. /\ v.lens = u.lens /\ v.saved = u.saved /\ v.still = u.still /\ v.scene = u.scene /\ v.sup = u.sup
      /\ v.soon = u.soon /\ v.dat = u.dat /\ v.late = u.late /\ v.sheet = u.sheet /\ v.half = u.half
      /\ v.drag = u.drag /\ v.locked = u.locked /\ SceneFields \subseteq DOMAIN v
  BY DEF Beside, SceneFields
<1>2. ScenesTyped(v)
  BY <1>1 DEF SceneSound, ScenesTyped
<1>3. ScenesFit(v)
  BY <1>1 DEF SceneSound, ScenesFit, ScenesShaped, SceneFed
<1>4. OnAir(v) = OnAir(u)
  BY <1>1 DEF OnAir
<1>5. QED
  BY <1>1, <1>2, <1>3, <1>4 DEF SceneSound

(* The scenes alone change, in favour of one of them.                      *)
LEMMA SceneStaged ==
    ASSUME NEW u, SceneSound(u), NEW v, ScenesOnly(u, v), ScenesTyped(v), ScenesFit(v),
           \A s, o \in OnAir(v) : s = o, OnAir(v) = {} \/ OnAir(u) # {} \/ u.lens # "none"
    PROVE  SceneSound(v)
<1>1. /\ v.lens = u.lens /\ v.saved = u.saved /\ v.sheet = u.sheet /\ v.half = u.half
      /\ v.drag = u.drag /\ v.locked = u.locked
  BY DEF ScenesOnly, SceneFields
<1>2. QED
  BY <1>1 DEF SceneSound

LEMMA BesideSound ==
    ASSUME NEW u, SceneFields \subseteq DOMAIN u, NEW a, NEW b
    PROVE  /\ Beside(u, Scene!Acted(u)) /\ Beside(u, Scene!RenderPlaces(u)) /\ Beside(u, Scene!RenderSuggestions(u))
           /\ Beside(u, Scene!DispatchStreetMode(u, a)) /\ Beside(u, Scene!SyncControlAvailability(u))
           /\ Beside(u, Scene!EnsureTerrainRelief(u)) /\ Beside(u, Scene!TerrainFails(u))
           /\ Beside(u, Scene!EnsureBuildingsLayer(u)) /\ Beside(u, Scene!DeactivateCoverage(u))
<1> USE DEF Beside, SceneFields
<1>1. Beside(u, Scene!Acted(u))
  BY DEF Scene!Acted
<1>2. Beside(u, Scene!RenderPlaces(u))
  BY DEF Scene!RenderPlaces
<1>3. Beside(u, Scene!RenderSuggestions(u))
  BY DEF Scene!RenderSuggestions
<1>4. Beside(u, Scene!DispatchStreetMode(u, a)) /\ Beside(u, Scene!SyncControlAvailability(u))
  BY DEF Scene!DispatchStreetMode, Scene!SyncControlAvailability
<1>5. Beside(u, Scene!EnsureTerrainRelief(u)) /\ Beside(u, Scene!TerrainFails(u))
  BY DEF Scene!EnsureTerrainRelief, Scene!TerrainFails
<1>6. Beside(u, Scene!EnsureBuildingsLayer(u))
  BY DEF Scene!EnsureBuildingsLayer
<1>7. Beside(u, Scene!DeactivateCoverage(u))
  BY DEF Scene!DeactivateCoverage, Scene!DispatchStreetMode
<1>8. QED
  BY <1>1, <1>2, <1>3, <1>4, <1>5, <1>6, <1>7

LEMMA SceneHelpersSound ==
    ASSUME NEW u, SceneSound(u), NEW a
    PROVE  /\ SceneSound(Scene!Acted(u)) /\ SceneSound(Scene!RenderPlaces(u)) /\ SceneSound(Scene!RenderSuggestions(u))
           /\ SceneSound(Scene!DispatchStreetMode(u, a)) /\ SceneSound(Scene!SyncControlAvailability(u))
           /\ SceneSound(Scene!EnsureTerrainRelief(u)) /\ SceneSound(Scene!TerrainFails(u))
           /\ SceneSound(Scene!EnsureBuildingsLayer(u)) /\ SceneSound(Scene!DeactivateCoverage(u))
<1>1. SceneFields \subseteq DOMAIN u
  BY DEF SceneSound, ScenesTyped
<1>2. QED
  BY <1>1, BesideSound, SceneApart

(* A lens is taken off or put on; none is put on once the page was left.   *)
LEMMA LensOff ==
    ASSUME NEW u, SceneSound(u), NEW l
    PROVE  /\ SceneSound(Scene!Deactivated(u, l)) /\ Scene!Deactivated(u, l).lens = u.lens
           /\ OnAir(Scene!Deactivated(u, l)) \subseteq OnAir(u)
<1>1. ASSUME NEW s \in Scene!Scenes
      PROVE  LET v == Scene!DeactivateScene(u, s) IN SceneSound(v) /\ v.lens = u.lens /\ OnAir(v) \subseteq OnAir(u)
  <2> DEFINE v == Scene!DeactivateScene(u, s)
  <2>1. ScenesOnly(u, v) /\ ScenesTyped(v) /\ ScenesFit(v) /\ OnAir(v) \subseteq OnAir(u)
    BY DeactivateSound DEF SceneSound
  <2> HIDE DEF v
  <2>2. /\ \A p, o \in OnAir(v) : p = o
        /\ OnAir(v) = {} \/ OnAir(u) # {}
    BY <2>1 DEF SceneSound
  <2>3. SceneSound(v)
    BY <2>1, <2>2, SceneStaged
  <2>4. v.lens = u.lens
    BY <2>1 DEF ScenesOnly, SceneFields
  <2> QED BY <2>1, <2>3, <2>4 DEF v
<1>2. Beside(u, Scene!DeactivateCoverage(u))
  BY BesideSound DEF SceneSound, ScenesTyped
<1>3. LET v == Scene!DeactivateCoverage(u) IN SceneSound(v) /\ v.lens = u.lens /\ OnAir(v) \subseteq OnAir(u)
  <2> DEFINE v == Scene!DeactivateCoverage(u)
  <2> HIDE DEF v
  <2>1. Beside(u, v)
    BY <1>2 DEF v
  <2>2. v.lens = u.lens /\ v.scene = u.scene
    BY <2>1 DEF Beside, SceneFields
  <2>3. SceneSound(v) /\ OnAir(v) = OnAir(u)
    BY <2>1, <2>2, SceneApart DEF OnAir
  <2> QED BY <2>2, <2>3 DEF v
<1>4. {"flow", "bloom"} = Scene!Scenes
  BY DEF Scene!Scenes
<1>5. \/ Scene!Deactivated(u, l) = Scene!DeactivateScene(u, "flow")
      \/ Scene!Deactivated(u, l) = Scene!DeactivateScene(u, "bloom")
      \/ Scene!Deactivated(u, l) = Scene!DeactivateCoverage(u)
      \/ Scene!Deactivated(u, l) = u
  BY DEF Scene!Deactivated
<1>6. QED
  BY <1>1, <1>3, <1>4, <1>5

LEMMA LensOn ==
    ASSUME NEW u, SceneSound(u), u.lens # "none", NEW l
    PROVE  SceneSound(Scene!Activated(u, l))
<1>1. ASSUME NEW x, SceneSound(x), x.lens # "none", NEW s \in Scene!Scenes
      PROVE  SceneSound(Scene!ActivateScene(x, s))
  <2> DEFINE v == Scene!ActivateScene(x, s)
  <2>1. /\ ScenesOnly(x, v) /\ ScenesTyped(v) /\ ScenesFit(v)
        /\ OnAir(v) = IF s \in OnAir(x) THEN OnAir(x) ELSE {s}
    BY <1>1, ActivateSound DEF SceneSound
  <2> HIDE DEF v
  <2>2. \A p, o \in OnAir(v) : p = o
    BY <1>1, <2>1 DEF SceneSound
  <2>3. SceneSound(v)
    BY <1>1, <2>1, <2>2, SceneStaged
  <2> QED BY <2>3 DEF v
<1>2. SceneSound(Scene!RenderPlaces(u)) /\ Scene!RenderPlaces(u).lens = u.lens
  BY SceneHelpersSound, BesideSound DEF SceneSound, ScenesTyped, Beside, SceneFields
<1>3. SceneSound(Scene!ActivateCoverage(u))
  <2> DEFINE v == Scene!SyncControlAvailability(u)
             a == [v EXCEPT !.last = v.stored, !.chip = v.stored]
             b == [v EXCEPT !.chip = v.last]
             w == Scene!ActivateCoverage(u)
  <2>1. \/ w = v \/ w = Scene!RenderSuggestions(a) \/ w = Scene!RenderSuggestions(v)
        \/ w = Scene!RenderSuggestions(Scene!DispatchStreetMode(b, v.last))
    BY DEF Scene!ActivateCoverage
  <2>2. SceneSound(v)
    BY SceneHelpersSound
  <2> HIDE DEF v
  <2>3. Beside(v, a) /\ Beside(v, b)
    BY <2>2 DEF Beside, SceneFields, SceneSound, ScenesTyped
  <2> HIDE DEF a, b, w
  <2>4. SceneSound(a) /\ SceneSound(b)
    BY <2>2, <2>3, SceneApart
  <2>5. SceneSound(w)
    BY <2>1, <2>2, <2>4, SceneHelpersSound
  <2> QED BY <2>5 DEF w
<1>4. {"flow", "bloom"} = Scene!Scenes
  BY DEF Scene!Scenes
<1>5. \/ Scene!Activated(u, l) = Scene!ActivateScene(u, "flow")
      \/ Scene!Activated(u, l) = Scene!ActivateScene(Scene!RenderPlaces(u), "bloom")
      \/ Scene!Activated(u, l) = Scene!ActivateCoverage(u)
      \/ Scene!Activated(u, l) = u
  BY DEF Scene!Activated
<1>6. QED
  BY <1>1, <1>2, <1>3, <1>4, <1>5

(* The guard changes nothing but the scene that must go.                   *)
LEMMA RepairSceneSound ==
    ASSUME NEW u, SceneSound(u)
    PROVE  SceneSound(Scene!RepairScene(u)) /\ Scene!RepairScene(u).lens = u.lens
<1> DEFINE v == Scene!RepairScene(u)
<1>1. ASSUME NEW s \in Scene!Scenes, u.scene[s].on
      PROVE  SceneSound(Scene!RepairExclusiveSceneMode(u, s)) /\ Scene!RepairExclusiveSceneMode(u, s).lens = u.lens
  <2> DEFINE x == Scene!RepairExclusiveSceneMode(u, s)
  <2>1. ScenesOnly(u, x) /\ ScenesTyped(x) /\ ScenesFit(x) /\ OnAir(x) = {s}
    BY <1>1, RepairSound DEF SceneSound
  <2> HIDE DEF x
  <2>2. SceneSound(x) /\ x.lens = u.lens
    <3>1. s \in OnAir(u) /\ \A p, o \in OnAir(x) : p = o
      BY <1>1, <2>1 DEF OnAir
    <3> QED BY <2>1, <3>1, SceneStaged DEF ScenesOnly, SceneFields
  <2> QED BY <2>2 DEF x
<1>2. SceneSound(v) /\ v.lens = u.lens
  <2>1. "flow" \in Scene!Scenes /\ "bloom" \in Scene!Scenes
    BY DEF Scene!Scenes
  <2>2. \/ v = u
        \/ v = Scene!RepairExclusiveSceneMode(u, "bloom") /\ u.scene["bloom"].on
        \/ v = Scene!RepairExclusiveSceneMode(u, "flow") /\ u.scene["flow"].on
    BY DEF Scene!RepairScene
  <2> QED BY <1>1, <2>1, <2>2
<1>3. QED
  BY <1>2

(* Data, and what repairs the scenes when it arrives.                      *)
LEMMA DataEventSound ==
    ASSUME NEW u, SceneSound(u)
    PROVE  SceneSound(Scene!DataEvent(u))
<1> DEFINE v == Scene!RepairScene(u)
           Fed(s) == u.lens = (IF s = "flow" THEN "flow" ELSE "places") /\ v.scene[s].on
           n == [s \in Scene!Scenes |-> v.soon[s] + (IF Fed(s) THEN 1 ELSE 0)]
           w == [v EXCEPT !.soon = n]
<1>1. Scene!DataEvent(u) = w
  BY DEF Scene!DataEvent
<1>2. SceneSound(v) /\ v.lens = u.lens
  BY RepairSceneSound
<1> HIDE DEF v
<1>3. n \in [Scene!Scenes -> Nat] /\ \A s \in Scene!Scenes : n[s] >= v.soon[s]
  BY <1>2 DEF SceneSound, ScenesTyped
<1> HIDE DEF n
<1>4. /\ w.lens = v.lens /\ w.saved = v.saved /\ w.still = v.still /\ w.scene = v.scene /\ w.sup = v.sup
      /\ w.soon = n /\ w.dat = v.dat /\ w.late = v.late /\ w.sheet = v.sheet /\ w.half = v.half
      /\ w.drag = v.drag /\ w.locked = v.locked /\ SceneFields \subseteq DOMAIN w
  BY <1>2 DEF SceneSound, ScenesTyped, SceneFields
<1> HIDE DEF w
<1>5. ScenesTyped(w)
  BY <1>2, <1>3, <1>4 DEF SceneSound, ScenesTyped
<1>6. ScenesShaped(w)
  BY <1>2, <1>4 DEF SceneSound, ScenesFit, ScenesShaped
<1>7. ASSUME NEW s \in Scene!Scenes PROVE SceneFed(w, s)
  <2>1. SceneFed(v, s) /\ n[s] >= v.soon[s] /\ v.soon[s] \in Nat /\ n[s] \in Nat
    BY <1>2, <1>3 DEF SceneSound, ScenesFit, ScenesTyped
  <2> QED BY <1>4, <2>1 DEF SceneFed
<1>8. OnAir(w) = OnAir(v)
  BY <1>4 DEF OnAir
<1>9. SceneSound(w)
  BY <1>2, <1>4, <1>5, <1>6, <1>7, <1>8 DEF SceneSound, ScenesFit
<1>10. QED
  BY <1>1, <1>9

LEMMA SceneTimers ==
    ASSUME SceneSound(ui), Scene!Timers
    PROVE  SceneSound(ui')
<1>1. ASSUME NEW s \in Scene!Scenes, Scene!FadedOut(s) PROVE SceneSound(ui')
  <2>1. ui' = Scene!FinalizeDeactivate(ui, s) /\ ~ui.scene[s].on
    BY <1>1 DEF Scene!FadedOut, SceneSound, ScenesFit, ScenesShaped
  <2>2. ScenesOnly(ui, ui') /\ ScenesTyped(ui') /\ ScenesFit(ui') /\ OnAir(ui') = OnAir(ui)
    BY <2>1, FinalizeSound DEF SceneSound
  <2>3. \A p, o \in OnAir(ui') : p = o
    BY <2>2 DEF SceneSound
  <2> QED BY <2>2, <2>3, SceneStaged
<1>2. ASSUME NEW s \in Scene!Scenes, Scene!RefreshTimer(s) PROVE SceneSound(ui')
  <2> DEFINE n == ui.soon[s] - 1
             y == [ui EXCEPT !.soon[s] = n]
  <2>1. ui' = Scene!Refresh(y, s)
    BY <1>2 DEF Scene!RefreshTimer
  <2>2. n \in Nat
    BY <1>2 DEF Scene!RefreshTimer, SceneSound, ScenesTyped
  <2> HIDE DEF n
  <2>3. /\ y.lens = ui.lens /\ y.saved = ui.saved /\ y.still = ui.still /\ y.scene = ui.scene /\ y.sup = ui.sup
        /\ y.soon = [ui.soon EXCEPT ![s] = n] /\ y.dat = ui.dat /\ y.late = ui.late /\ y.sheet = ui.sheet
        /\ y.half = ui.half /\ y.drag = ui.drag /\ y.locked = ui.locked /\ SceneFields \subseteq DOMAIN y
    BY DEF SceneSound, ScenesTyped, SceneFields
  <2> HIDE DEF y
  <2>4. ScenesTyped(y) /\ ScenesShaped(y)
    BY <2>2, <2>3 DEF SceneSound, ScenesTyped, ScenesFit, ScenesShaped
  <2>5. \A o \in Scene!Scenes : SceneFed(y, o) \/ (o = s /\ y.scene[s].on)
    BY <2>3 DEF SceneSound, ScenesTyped, ScenesFit, SceneFed
  <2>6. ScenesOnly(y, ui') /\ ScenesTyped(ui') /\ ScenesFit(ui') /\ OnAir(ui') = OnAir(y)
    BY <2>1, <2>4, <2>5, RefreshSound
  <2>7. OnAir(y) = OnAir(ui)
    BY <2>3 DEF OnAir
  <2>8. /\ ui'.lens = ui.lens /\ ui'.saved = ui.saved /\ ui'.sheet = ui.sheet /\ ui'.half = ui.half
        /\ ui'.drag = ui.drag /\ ui'.locked = ui.locked
    BY <2>3, <2>6 DEF ScenesOnly, SceneFields
  <2> QED BY <2>6, <2>7, <2>8 DEF SceneSound
<1>3. QED
  BY <1>1, <1>2 DEF Scene!Timers

LEMMA SceneAnswers ==
    ASSUME SceneSound(ui), Scene!Answers
    PROVE  SceneSound(ui')
<1> USE DEF Beside, SceneFields
<1>0. SceneFields \subseteq DOMAIN ui
  BY DEF SceneSound, ScenesTyped
<1>1. ASSUME NEW r, Scene!PlacesArrive(r) \/ Scene!PlacesFail(r) PROVE SceneSound(ui')
  <2>1. Beside(ui, ui')
    BY <1>0, <1>1 DEF Scene!PlacesArrive, Scene!PlacesFail
  <2> QED BY <2>1, SceneApart
<1>2. ASSUME NEW r, Scene!SuggestionsArrive(r) \/ Scene!SuggestionsFail(r) PROVE SceneSound(ui')
  <2>1. Beside(ui, ui')
    BY <1>0, <1>2 DEF Scene!SuggestionsArrive, Scene!SuggestionsFail
  <2> QED BY <2>1, SceneApart
<1>3. CASE Scene!PlaceSaved
  <2> DEFINE u == [ui EXCEPT !.places = @ + 1, !.naming = "reload",
                             !.loaded = IF ui.lens = "none" THEN @ ELSE FALSE]
  <2>1. ui' = u \/ ui' = Scene!RenderPlaces(u)
    BY <1>3 DEF Scene!PlaceSaved
  <2>2. Beside(ui, u)
    BY <1>0
  <2> HIDE DEF u
  <2> QED BY <2>1, <2>2, SceneApart, SceneHelpersSound
<1>4. CASE Scene!PlaceFails
  <2>1. Beside(ui, ui')
    BY <1>0, <1>4 DEF Scene!PlaceFails
  <2> QED BY <2>1, SceneApart
<1>5. CASE Scene!Reloaded
  <2> DEFINE u == [ui EXCEPT !.naming = "no"]
  <2>1. ui' = Scene!Refresh(u, "bloom")
    BY <1>5 DEF Scene!Reloaded
  <2>2. Beside(ui, u)
    BY <1>0
  <2> HIDE DEF u, Beside, SceneFields
  <2>3. SceneSound(u)
    BY <2>2, SceneApart
  <2>4. "bloom" \in Scene!Scenes
    BY DEF Scene!Scenes
  <2>5. ScenesOnly(u, ui') /\ ScenesTyped(ui') /\ ScenesFit(ui') /\ OnAir(ui') = OnAir(u)
    BY <2>1, <2>3, <2>4, RefreshSound DEF SceneSound, ScenesFit
  <2>6. \A p, o \in OnAir(ui') : p = o
    BY <2>3, <2>5 DEF SceneSound
  <2> QED BY <2>3, <2>5, <2>6, SceneStaged
<1>6. CASE Scene!Decoded
  <2> DEFINE b == ui.late \/ \E s \in Scene!Scenes : ui.scene[s].on /\ ui.soon[s] = 0
  <2>1. ui' = [ui EXCEPT !.dat = ui.told, !.late = b]
    BY <1>6 DEF Scene!Decoded
  <2>2. b \in BOOLEAN /\ (ui.late => b) /\ (~b => \A s \in Scene!Scenes : ui.scene[s].on => ui.soon[s] # 0)
    BY DEF SceneSound, ScenesTyped
  <2> HIDE DEF b
  <2>3. /\ ui'.lens = ui.lens /\ ui'.saved = ui.saved /\ ui'.still = ui.still /\ ui'.scene = ui.scene
        /\ ui'.sup = ui.sup /\ ui'.soon = ui.soon /\ ui'.late = b /\ ui'.sheet = ui.sheet
        /\ ui'.half = ui.half /\ ui'.drag = ui.drag /\ ui'.locked = ui.locked /\ SceneFields \subseteq DOMAIN ui'
    BY <1>0, <2>1
  <2>4. ScenesTyped(ui') /\ ScenesShaped(ui')
    BY <2>2, <2>3 DEF SceneSound, ScenesTyped, ScenesFit, ScenesShaped
  <2>5. \A s \in Scene!Scenes : SceneFed(ui', s)
    BY <2>2, <2>3 DEF SceneSound, ScenesTyped, ScenesFit, SceneFed
  <2>6. OnAir(ui') = OnAir(ui)
    BY <2>3 DEF OnAir
  <2> QED BY <2>3, <2>4, <2>5, <2>6 DEF SceneSound, ScenesFit
<1>7. QED
  BY <1>1, <1>2, <1>3, <1>4, <1>5, <1>6 DEF Scene!Answers

(* The lens is changed, the page is left and come back to.                 *)
LEMMA LensSound ==
    ASSUME SceneSound(ui), Scene!Leave \/ Scene!Return \/ \E l \in Scene!Lenses : Scene!SetLens(l)
    PROVE  SceneSound(ui')
<1> USE DEF SceneFields
<1>1. ASSUME NEW l \in Scene!Lenses, Scene!SetLens(l) PROVE SceneSound(ui')
  <2> DEFINE d == Scene!Deactivated(ui, ui.lens)
             e == [d EXCEPT !.lens = l, !.saved = l]
  <2>1. ui' = Scene!Acted(Scene!Activated(e, l)) /\ ui.lens # "none" /\ l # "none"
    BY <1>1 DEF Scene!SetLens, Scene!User, Scene!Lenses
  <2>2. SceneSound(d) /\ d.lens # "none"
    BY <2>1, LensOff
  <2> HIDE DEF d
  <2>3. /\ e.lens = l /\ e.saved = l /\ e.still = d.still /\ e.scene = d.scene /\ e.sup = d.sup
        /\ e.soon = d.soon /\ e.dat = d.dat /\ e.late = d.late /\ e.sheet = d.sheet /\ e.half = d.half
        /\ e.drag = d.drag /\ e.locked = d.locked /\ SceneFields \subseteq DOMAIN e
    BY <2>2 DEF SceneSound, ScenesTyped
  <2> HIDE DEF e
  <2>4. ScenesTyped(e) /\ ScenesFit(e) /\ OnAir(e) = OnAir(d)
    BY <2>2, <2>3 DEF SceneSound, ScenesTyped, ScenesFit, ScenesShaped, SceneFed, OnAir
  <2>5. SheetSound(e.lens, e.saved, e.sheet, e.half, e.drag, e.locked)
    BY <2>1, <2>2, <2>3 DEF SceneSound, SheetSound
  <2>6. SceneSound(e)
    BY <2>1, <2>2, <2>3, <2>4, <2>5 DEF SceneSound
  <2> QED BY <2>1, <2>3, <2>6, LensOn, SceneHelpersSound
<1>2. CASE Scene!Leave
  <2> DEFINE u == Scene!DestroyScene(ui, "flow")
             w == Scene!DestroyScene(u, "bloom")
             v == IF u.scene["bloom"].on THEN w ELSE u
             d == Scene!Deactivated(v, v.lens)
  <2>1. ui' = [d EXCEPT !.lens = "none", !.locked = FALSE, !.drag = FALSE, !.pnet = {}, !.net = {}]
    BY <1>2 DEF Scene!Leave
  <2>2. Scene!Scenes = {"flow", "bloom"}
    BY DEF Scene!Scenes
  <2>3. ASSUME NEW x, SceneSound(x), NEW s \in Scene!Scenes
        PROVE  SceneSound(Scene!DestroyScene(x, s)) /\ OnAir(Scene!DestroyScene(x, s)) = OnAir(x) \ {s}
    <3> DEFINE y == Scene!DestroyScene(x, s)
    <3>1. ScenesOnly(x, y) /\ ScenesTyped(y) /\ ScenesFit(y) /\ OnAir(y) = OnAir(x) \ {s}
      BY <2>3, FinalizeSound DEF SceneSound
    <3> HIDE DEF y
    <3>2. (\A p, o \in OnAir(y) : p = o) /\ (OnAir(y) = {} \/ OnAir(x) # {})
      BY <2>3, <3>1 DEF SceneSound
    <3>3. SceneSound(y)
      BY <2>3, <3>1, <3>2, SceneStaged
    <3> QED BY <3>1, <3>3 DEF y
  <2>4. SceneSound(u) /\ OnAir(u) = OnAir(ui) \ {"flow"}
    BY <2>2, <2>3
  <2> HIDE DEF u
  <2>5. SceneSound(w) /\ OnAir(w) = OnAir(u) \ {"bloom"}
    BY <2>2, <2>3, <2>4
  <2> HIDE DEF w
  <2>6. SceneSound(v) /\ OnAir(v) = {}
    BY <2>2, <2>4, <2>5 DEF OnAir
  <2> HIDE DEF v
  <2>7. SceneSound(d) /\ OnAir(d) = {}
    BY <2>6, LensOff
  <2> HIDE DEF d
  <2>8. /\ ui'.lens = "none" /\ ui'.saved = d.saved /\ ui'.still = d.still /\ ui'.scene = d.scene /\ ui'.sup = d.sup
        /\ ui'.soon = d.soon /\ ui'.dat = d.dat /\ ui'.late = d.late
        /\ ui'.drag = FALSE /\ ui'.locked = FALSE /\ SceneFields \subseteq DOMAIN ui'
    BY <2>1, <2>7 DEF SceneSound, ScenesTyped
  <2>9. ScenesTyped(ui') /\ ScenesFit(ui') /\ OnAir(ui') = {}
    BY <2>7, <2>8 DEF SceneSound, ScenesTyped, ScenesFit, ScenesShaped, SceneFed, OnAir
  <2>10. SheetSound(ui'.lens, ui'.saved, ui'.sheet, ui'.half, ui'.drag, ui'.locked)
    BY <2>7, <2>8 DEF SceneSound, SheetSound
  <2> QED BY <2>9, <2>10 DEF SceneSound
<1>3. CASE Scene!Return
  <2> DEFINE k == CHOOSE m \in Modes : TRUE
             u == [ui EXCEPT !.lens = ui.saved, !.loaded = FALSE, !.last = k,
                             !.hint = "none", !.list = NoArea, !.sheet = "collapsed"]
             t == Scene!EnsureTerrainRelief(u)
             b == Scene!EnsureBuildingsLayer(t)
  <2>1. ui' = Scene!Acted(Scene!RepairScene(Scene!Activated(b, u.saved))) /\ ui.lens = "none"
    BY <1>3 DEF Scene!Return
  <2> HIDE DEF k
  <2>2. /\ u.lens = ui.saved /\ u.saved = ui.saved /\ u.still = ui.still /\ u.scene = ui.scene /\ u.sup = ui.sup
        /\ u.soon = ui.soon /\ u.dat = ui.dat /\ u.late = ui.late /\ u.sheet = "collapsed" /\ u.half = ui.half
        /\ u.drag = ui.drag /\ u.locked = ui.locked /\ SceneFields \subseteq DOMAIN u
    BY DEF SceneSound, ScenesTyped
  <2> HIDE DEF u
  <2>3. ScenesTyped(u) /\ ScenesFit(u) /\ OnAir(u) = {}
    BY <2>1, <2>2 DEF SceneSound, ScenesTyped, ScenesFit, ScenesShaped, SceneFed, OnAir
  <2>4. /\ SheetSound(u.lens, u.saved, u.sheet, u.half, u.drag, u.locked) /\ u.lens # "none"
    BY <2>1, <2>2 DEF SceneSound, SheetSound, Scene!SheetStates, Scene!Lenses
  <2>5. SceneSound(u)
    BY <2>3, <2>4 DEF SceneSound
  <2>6. SceneSound(t) /\ t.lens # "none"
    BY <2>2, <2>4, <2>5, SceneHelpersSound, BesideSound DEF Beside
  <2> HIDE DEF t
  <2>7. SceneSound(b) /\ b.lens # "none"
    BY <2>6, SceneHelpersSound, BesideSound, ZenonT(30) DEF Beside, SceneSound, ScenesTyped
  <2> HIDE DEF b
  <2>8. SceneSound(Scene!Activated(b, u.saved))
    BY <2>7, LensOn
  <2> QED BY <2>1, <2>8, RepairSceneSound, SceneHelpersSound
<1>4. QED
  BY <1>1, <1>2, <1>3

(* The sheet, which only moves while the page is there.                    *)
LEMMA SheetMoves ==
    ASSUME SceneSound(ui),
           \/ Scene!TouchStart \/ \E s \in Scene!SheetStates : Scene!TouchEnd(s)
           \/ \E b \in BOOLEAN : Scene!RecomputeLayout(b)
    PROVE  SceneSound(ui')
<1> DEFINE Sheeted(u, v) == /\ SceneFields \subseteq DOMAIN v
                            /\ v.lens = u.lens /\ v.saved = u.saved /\ v.still = u.still /\ v.scene = u.scene
                            /\ v.sup = u.sup /\ v.soon = u.soon /\ v.dat = u.dat /\ v.late = u.late
<1>1. ASSUME NEW v, Sheeted(ui, v), ui.lens # "none", v.drag \in BOOLEAN, v.locked \in BOOLEAN,
             v.sheet \in Scene!SheetPositions(v), v.locked <=> v.sheet # "collapsed"
      PROVE  SceneSound(v)
  <2>1. ScenesTyped(v) /\ ScenesFit(v) /\ OnAir(v) = OnAir(ui)
    BY <1>1 DEF SceneSound, ScenesTyped, ScenesFit, ScenesShaped, SceneFed, OnAir
  <2>2. SheetSound(v.lens, v.saved, v.sheet, v.half, v.drag, v.locked)
    BY <1>1 DEF SceneSound, SheetSound, Scene!SheetPositions
  <2> QED BY <1>1, <2>1, <2>2 DEF SceneSound
<1>2. ASSUME NEW u, Sheeted(ui, u), ui.lens # "none", u.drag \in BOOLEAN, NEW s
      PROVE  SceneSound(Scene!SetState(u, s))
  <2> DEFINE p == IF s \in Scene!SheetPositions(u) THEN s ELSE "collapsed"
             v == [u EXCEPT !.sheet = p, !.locked = p # "collapsed"]
  <2>1. v = Scene!SetState(u, s)
    BY DEF Scene!SetState
  <2>2. p \in Scene!SheetPositions(u)
    BY DEF Scene!SheetPositions, Scene!SheetStates
  <2> HIDE DEF p
  <2>3. /\ Sheeted(ui, v) /\ v.drag \in BOOLEAN /\ v.half = u.half
        /\ v.sheet = p /\ v.locked = (p # "collapsed")
    BY <1>2 DEF SceneFields
  <2>4. Scene!SheetPositions(v) = Scene!SheetPositions(u)
    BY <2>3 DEF Scene!SheetPositions
  <2> HIDE DEF v
  <2> QED BY <1>1, <1>2, <2>1, <2>2, <2>3, <2>4
<1>3. CASE Scene!TouchStart
  <2> DEFINE u == [ui EXCEPT !.drag = TRUE]
  <2>1. ui' = Scene!Acted(u) /\ ui.lens # "none"
    BY <1>3 DEF Scene!TouchStart, Scene!User
  <2>2. Sheeted(ui, u) /\ u.drag = TRUE /\ u.sheet = ui.sheet /\ u.half = ui.half /\ u.locked = ui.locked
    BY DEF SceneSound, ScenesTyped, SceneFields
  <2> HIDE DEF u
  <2>3. u.sheet \in Scene!SheetPositions(u) /\ u.locked \in BOOLEAN /\ (u.locked <=> u.sheet # "collapsed")
    BY <2>1, <2>2 DEF SceneSound, SheetSound, Scene!SheetPositions
  <2>4. SceneSound(u)
    BY <1>1, <2>1, <2>2, <2>3
  <2> QED BY <2>1, <2>4, SceneHelpersSound
<1>4. ASSUME NEW s, Scene!TouchEnd(s) PROVE SceneSound(ui')
  <2> DEFINE u == [ui EXCEPT !.drag = FALSE]
  <2>1. ui' = Scene!SetState(u, s) /\ ui.lens # "none"
    BY <1>4 DEF Scene!TouchEnd, SceneSound, SheetSound
  <2>2. Sheeted(ui, u) /\ u.drag = FALSE
    BY DEF SceneSound, ScenesTyped, SceneFields
  <2> HIDE DEF u
  <2> QED BY <1>2, <2>1, <2>2
<1>5. ASSUME NEW b \in BOOLEAN, Scene!RecomputeLayout(b) PROVE SceneSound(ui')
  <2> DEFINE u == [ui EXCEPT !.half = b]
  <2>1. ui' = Scene!Acted(Scene!SetState(u, u.sheet)) /\ ui.lens # "none"
    BY <1>5 DEF Scene!RecomputeLayout, Scene!User
  <2>2. Sheeted(ui, u) /\ u.drag = ui.drag /\ ui.drag \in BOOLEAN
    BY DEF SceneSound, ScenesTyped, SceneFields, SheetSound
  <2> HIDE DEF u
  <2> QED BY <1>2, <2>1, <2>2, SceneHelpersSound
<1>6. QED
  BY <1>3, <1>4, <1>5

LEMMA SceneActs ==
    ASSUME SceneSound(ui), Scene!Acts
    PROVE  SceneSound(ui')
<1>0. SceneFields \subseteq DOMAIN ui
  BY DEF SceneSound, ScenesTyped
<1>1. CASE Scene!TripsDataLoaded
  <2> DEFINE u == [ui EXCEPT !.told = @ + 1]
  <2>1. ui' = Scene!Acted(Scene!DataEvent(u))
    BY <1>1 DEF Scene!TripsDataLoaded
  <2>2. Beside(ui, u)
    BY <1>0 DEF Beside, SceneFields
  <2> HIDE DEF u
  <2> QED BY <2>1, <2>2, SceneApart, DataEventSound, SceneHelpersSound
<1>2. CASE Scene!StyleChanges
  BY <1>2, DataEventSound, SceneHelpersSound DEF Scene!StyleChanges
<1>3. ASSUME NEW b \in BOOLEAN, Scene!SetTerrainRelief(b) \/ Scene!SetBuildings(b) PROVE SceneSound(ui')
  <2> DEFINE u == [ui EXCEPT !.relief.pref = b]
             w == [ui EXCEPT !.tall.pref = b]
  <2>1. \/ ui' = Scene!Acted(Scene!EnsureTerrainRelief(u)) \/ ui' = Scene!Acted(Scene!TerrainFails(u))
        \/ ui' = Scene!Acted(Scene!EnsureBuildingsLayer(w))
    BY <1>3 DEF Scene!SetTerrainRelief, Scene!SetBuildings
  <2>2. Beside(ui, u) /\ Beside(ui, w)
    BY <1>0 DEF Beside, SceneFields
  <2> HIDE DEF u, w
  <2> QED BY <2>1, <2>2, SceneApart, SceneHelpersSound
<1>4. CASE Scene!PinCluster \/ Scene!NameClusterAsPlace \/ Scene!NamingCancelled \/ Scene!NamingConfirmed
  <2>1. Beside(ui, ui')
    BY <1>0, <1>4 DEF Beside, SceneFields, Scene!PinCluster, Scene!NameClusterAsPlace, Scene!NamingCancelled,
                     Scene!NamingConfirmed, Scene!Acted
  <2> QED BY <2>1, SceneApart
<1>5. ASSUME NEW a, Scene!SelectArea(a) PROVE SceneSound(ui')
  <2> DEFINE x == [ui EXCEPT !.area = a]
             u == Scene!SyncControlAvailability(x)
  <2>1. ui' = Scene!Acted(Scene!RenderSuggestions(u)) \/ ui' = Scene!Acted(u)
    BY <1>5 DEF Scene!SelectArea
  <2>2. Beside(ui, x)
    BY <1>0 DEF Beside, SceneFields
  <2> HIDE DEF x
  <2>3. SceneSound(u)
    BY <2>2, SceneApart, SceneHelpersSound
  <2> HIDE DEF u
  <2> QED BY <2>1, <2>3, SceneHelpersSound
<1>6. ASSUME NEW m, Scene!ClickChip(m) PROVE SceneSound(ui')
  <2> DEFINE n == IF ui.chip = m THEN NoMode ELSE m
             u == [ui EXCEPT !.chip = n, !.last = n]
  <2>1. ui' = Scene!Acted(Scene!DispatchStreetMode(u, n))
    BY <1>6 DEF Scene!ClickChip
  <2> HIDE DEF n
  <2>2. Beside(ui, u)
    BY <1>0 DEF Beside, SceneFields
  <2> HIDE DEF u
  <2> QED BY <2>1, <2>2, SceneApart, SceneHelpersSound
<1>7. QED
  BY <1>1, <1>2, <1>3, <1>4, <1>5, <1>6, LensSound, SheetMoves DEF Scene!Acts

LEMMA ScenesKept ==
    ASSUME SceneSound(ui), Scene!Next
    PROVE  SceneSound(ui')
BY SceneTimers, SceneAnswers, SceneActs DEF Scene!Next

LEMMA ScenesStart ==
    ASSUME Scene!Init
    PROVE  SceneSound(ui)
<1>1. PICK b \in BOOLEAN : ui = Scene!Fresh(b)
  BY DEF Scene!Init
<1>2. ScenesTyped(ui) /\ OnAir(ui) = {}
  BY <1>1 DEF Scene!Fresh, Scene!Idle, ScenesTyped, SceneFields, CanvasFields, OnAir
<1>3. ScenesFit(ui)
  BY <1>1 DEF Scene!Fresh, Scene!Idle, ScenesFit, ScenesShaped, SceneFed
<1>4. SheetSound(ui.lens, ui.saved, ui.sheet, ui.half, ui.drag, ui.locked)
  BY <1>1 DEF Scene!Fresh, SheetSound, Scene!SheetStates, Scene!Lenses
<1>5. QED
  BY <1>2, <1>3, <1>4 DEF SceneSound

LEMMA ScenesOwned ==
    ASSUME SceneSound(ui)
    PROVE  Scene!SceneOwned /\ Scene!NothingOutlivesPage /\ Scene!SheetFits /\ Scene!TripsComeBack
<1>1. "flow" \in Scene!Scenes /\ "bloom" \in Scene!Scenes
  BY DEF Scene!Scenes
<1>2. Scene!SceneOwned
  BY <1>1 DEF SceneSound, ScenesFit, ScenesShaped, SceneFed, OnAir, Scene!SceneOwned
<1>3. Scene!NothingOutlivesPage
  BY DEF SceneSound, ScenesFit, ScenesShaped, OnAir, Scene!NothingOutlivesPage
<1>4. Scene!SheetFits
  BY DEF SceneSound, SheetSound, Scene!SheetFits, Scene!SheetPositions
<1>5. Scene!TripsComeBack
  BY DEF SceneSound, ScenesFit, ScenesShaped, Scene!TripsComeBack
<1>6. QED
  BY <1>2, <1>3, <1>4, <1>5

-----------------------------------------------------------------------------
(* The map provider's proxy: its map, its popups and its listeners.        *)

ProxyFields == {"map", "made", "layer", "ears", "gen", "active", "open", "timers", "ear", "clicks", "raced", "bound"}
DrawnFields == {"on", "drawn", "gen"}

(* One popup, the active one, and the click that closes it.                *)
PopupsFit(active, open, timers, ear, clicks, raced) ==
    /\ active \in Popups \cup {NoPopup}
    /\ open \subseteq {active} \cap Popups
    /\ timers \in [Popups -> Nat] /\ ear \in [Popups -> Nat]
    /\ raced \in BOOLEAN
    /\ ~raced =>
        /\ \A c \in clicks : c.p \in Popups /\ c.p = active /\ c.id = ear[active] /\ c.id > 0
        /\ \A p \in Popups : timers[p] > 0 => p = active /\ timers[p] = 1 /\ ear[p] = 0 /\ clicks = {}

(* What is drawn of a layer is of its last drawing, and so are its ears.   *)
LayersBound(layer, ears) ==
    /\ DOMAIN layer = Layers
    /\ \A l \in Layers : /\ DrawnFields \subseteq DOMAIN layer[l] /\ layer[l].on \in BOOLEAN
                         /\ \A o \in layer[l].drawn : o.gen = layer[l].gen
    /\ \A e \in ears : /\ e.l \in Layers
                       /\ layer[e.l].on /\ layer[e.l].drawn # {} => e.gen = layer[e.l].gen

ProxySound(u) ==
    /\ ProxyFields \subseteq DOMAIN u
    /\ u.made \in Nat /\ u.made <= 1 /\ (u.map = "none" => u.made = 0)
    /\ u.gen \in Nat /\ u.bound \in Popups \cup {NoPopup}
    /\ PopupsFit(u.active, u.open, u.timers, u.ear, u.clicks, u.raced)
    /\ LayersBound(u.layer, u.ears)

LEMMA PopupsRemovedSound ==
    ASSUME NEW u, ProxySound(u), NEW ps
    PROVE  LET v == Proxy!PopupsRemoved(u, ps) IN
           /\ ProxySound(v) /\ v.gen = u.gen /\ v.timers = u.timers
           /\ v.active = IF u.active \in ps THEN NoPopup ELSE u.active
           /\ v.open = u.open \ ps
<1> DEFINE ck == {c \in u.clicks : \A p \in ps : c.id # u.ear[p]}
           er == [p \in Popups |-> IF p \in ps THEN 0 ELSE u.ear[p]]
           op == u.open \ ps
           ac == IF u.active \in ps THEN NoPopup ELSE u.active
           ra == u.raced \/ \E p \in ps : u.timers[p] > 0
           v == [u EXCEPT !.clicks = ck, !.ear = er, !.open = op, !.active = ac, !.raced = ra]
<1>1. Proxy!PopupsRemoved(u, ps) = v
  BY DEF Proxy!PopupsRemoved
<1>2. PopupsFit(u.active, u.open, u.timers, u.ear, u.clicks, u.raced)
  BY DEF ProxySound
<1>3. PopupsFit(ac, op, u.timers, er, ck, ra)
  <2>1. ac \in Popups \cup {NoPopup} /\ op \subseteq {ac} \cap Popups /\ er \in [Popups -> Nat] /\ ra \in BOOLEAN
    BY <1>2 DEF PopupsFit
  <2>2. ASSUME ~ra, NEW c \in ck PROVE c.p \in Popups /\ c.p = ac /\ c.id = er[ac] /\ c.id > 0
    BY <1>2, <2>2 DEF PopupsFit
  <2>3. ASSUME ~ra, NEW p \in Popups, u.timers[p] > 0
        PROVE  p = ac /\ u.timers[p] = 1 /\ er[p] = 0 /\ ck = {}
    BY <1>2, <2>3 DEF PopupsFit
  <2> HIDE DEF ck, er, op, ac, ra
  <2> QED BY <1>2, <2>1, <2>2, <2>3 DEF PopupsFit
<1> HIDE DEF ck, er, op, ac, ra
<1>4. ProxySound(v) /\ v.gen = u.gen /\ v.timers = u.timers /\ v.active = ac /\ v.open = op
  BY <1>3 DEF ProxySound, ProxyFields
<1>5. QED
  BY <1>1, <1>4 DEF ac, op

(* Another popup takes the place of the active one.                        *)
LEMMA OpenedSound ==
    ASSUME NEW u, ProxySound(u), NEW p \in Popups
    PROVE  ProxySound(Proxy!Opened(u, p))
<1> DEFINE w == IF u.active \notin {p, NoPopup} THEN Proxy!PopupRemoved(u, u.active) ELSE u
           tm == [w.timers EXCEPT ![p] = @ + 1]
           op == w.open \cup {p}
           ra == w.raced \/ w.ear[p] # 0 \/ w.timers[p] > 0
           v == [w EXCEPT !.active = p, !.open = op, !.timers = tm, !.raced = ra]
<1>1. ProxySound(w) /\ w.active \in {p, NoPopup}
  BY PopupsRemovedSound DEF Proxy!PopupRemoved
<1>2. Proxy!Opened(u, p) = [w EXCEPT !.active = p, !.open = @ \cup {p}, !.timers[p] = @ + 1, !.raced = ra]
  BY DEF Proxy!Opened
<1> HIDE DEF w
<1>3. Proxy!Opened(u, p) = v
  BY <1>1, <1>2 DEF ProxySound, ProxyFields
<1>4. PopupsFit(w.active, w.open, w.timers, w.ear, w.clicks, w.raced) /\ NoPopup \notin Popups
  BY <1>1, AbsenceAssumption DEF ProxySound
<1>5. PopupsFit(p, op, tm, w.ear, w.clicks, ra)
  <2>1. op \subseteq {p} \cap Popups /\ tm \in [Popups -> Nat] /\ ra \in BOOLEAN /\ w.ear \in [Popups -> Nat]
    BY <1>1, <1>4 DEF PopupsFit
  <2>2. ASSUME ~ra PROVE w.clicks = {} /\ \A q \in Popups : w.timers[q] = 0
    BY <1>1, <1>4, <2>2 DEF PopupsFit
  <2>3. ASSUME ~ra, NEW q \in Popups, tm[q] > 0 PROVE q = p /\ tm[q] = 1 /\ w.ear[q] = 0 /\ w.clicks = {}
    BY <1>4, <2>2, <2>3 DEF PopupsFit
  <2> HIDE DEF op, tm, ra
  <2> QED BY <2>1, <2>2, <2>3 DEF PopupsFit
<1> HIDE DEF op, tm, ra
<1>6. ProxySound(v)
  BY <1>1, <1>5 DEF ProxySound, ProxyFields
<1>7. QED
  BY <1>3, <1>6

LEMMA ListenForClickSound ==
    ASSUME ProxySound(ui), NEW p \in Popups, Proxy!ListenForClick(p)
    PROVE  ProxySound(ui')
<1> DEFINE tm == [ui.timers EXCEPT ![p] = @ - 1]
           er == [ui.ear EXCEPT ![p] = ui.gen + 1]
           ck == ui.clicks \cup {[p |-> p, id |-> ui.gen + 1]}
<1>1. ui.timers[p] > 0 /\ ui' = [ui EXCEPT !.timers = tm, !.gen = @ + 1, !.ear = er, !.clicks = ck]
  BY DEF Proxy!ListenForClick, ProxySound, ProxyFields
<1>2. PopupsFit(ui.active, ui.open, ui.timers, ui.ear, ui.clicks, ui.raced) /\ ui.gen \in Nat
  BY DEF ProxySound
<1>3. PopupsFit(ui.active, ui.open, tm, er, ck, ui.raced)
  <2>1. tm \in [Popups -> Nat] /\ er \in [Popups -> Nat]
    BY <1>1, <1>2 DEF PopupsFit
  <2>2. ASSUME ~ui.raced
        PROVE  /\ p = ui.active /\ er[p] = ui.gen + 1 /\ ck = {[p |-> p, id |-> ui.gen + 1]}
               /\ \A q \in Popups : tm[q] = 0
    BY <1>1, <1>2, <2>2 DEF PopupsFit
  <2>3. ASSUME ~ui.raced, NEW c \in ck
        PROVE  c.p \in Popups /\ c.p = ui.active /\ c.id = er[ui.active] /\ c.id > 0
    BY <1>2, <2>2, <2>3
  <2> HIDE DEF tm, er, ck
  <2> QED BY <1>2, <2>1, <2>2, <2>3 DEF PopupsFit
<1> HIDE DEF tm, er, ck
<1>4. QED
  BY <1>1, <1>3 DEF ProxySound, ProxyFields

(* The style of the overlays, their order and the zoom bind nothing.       *)
LEMMA StyleHelpersSound ==
    ASSUME NEW u, ProxySound(u), NEW l
    PROVE  /\ ProxySound(Proxy!Acted(u)) /\ ProxySound(Proxy!ApplyLayerStyle(u, l))
           /\ ProxySound(Proxy!UpdateAllLayerZIndices(u)) /\ ProxySound(Proxy!ApplyLayerVisibility(u, l))
<1> USE DEF ProxySound, ProxyFields
<1>1. ProxySound(Proxy!Acted(u))
  BY DEF Proxy!Acted
<1>2. ProxySound(Proxy!ApplyLayerStyle(u, l))
  BY DEF Proxy!ApplyLayerStyle
<1>3. ProxySound(Proxy!UpdateAllLayerZIndices(u))
  BY DEF Proxy!UpdateAllLayerZIndices
<1>4. ProxySound(Proxy!ApplyLayerVisibility(u, l))
  BY DEF Proxy!ApplyLayerVisibility
<1>5. QED
  BY <1>1, <1>2, <1>3, <1>4

(* Layers without overlays, and with new ones their listeners follow to.   *)
LEMMA ClearedSound ==
    ASSUME NEW u, ProxySound(u), NEW ls
    PROVE  LET v == Proxy!ClearLayerOverlays(u, ls) IN
           /\ ProxySound(v) /\ DOMAIN v = DOMAIN u /\ v.ears = u.ears
           /\ v.layer = [l \in Layers |-> IF l \in ls THEN [u.layer[l] EXCEPT !.drawn = {}] ELSE u.layer[l]]
<1> DEFINE ly == [l \in Layers |-> IF l \in ls THEN [u.layer[l] EXCEPT !.drawn = {}] ELSE u.layer[l]]
           om == {o \in u.onMap : o.l \notin ls}
           v == [u EXCEPT !.layer = ly, !.onMap = om]
<1>1. Proxy!ClearLayerOverlays(u, ls) = v
  BY DEF Proxy!ClearLayerOverlays
<1>2. LayersBound(u.layer, u.ears)
  BY DEF ProxySound
<1>3. \A l \in Layers : /\ DrawnFields \subseteq DOMAIN ly[l] /\ ly[l].on = u.layer[l].on /\ ly[l].gen = u.layer[l].gen
                        /\ ly[l].drawn = (IF l \in ls THEN {} ELSE u.layer[l].drawn)
  BY <1>2 DEF LayersBound, DrawnFields
<1>4. LayersBound(ly, u.ears)
  <2>1. DOMAIN ly = Layers
    OBVIOUS
  <2> HIDE DEF ly
  <2> QED BY <1>2, <1>3, <2>1 DEF LayersBound
<1> HIDE DEF om
<1>5. v.layer = ly /\ v.ears = u.ears /\ DOMAIN v = DOMAIN u
  <2> HIDE DEF ly
  <2> QED BY DEF ProxySound, ProxyFields
<1>6. ProxySound(v)
  <2> HIDE DEF ly
  <2> QED BY <1>4 DEF ProxySound, ProxyFields
<1>7. QED
  BY <1>1, <1>5, <1>6

LEMMA RerenderSound ==
    ASSUME NEW u, ProxySound(u), NEW ls
    PROVE  ProxySound(Proxy!RerenderLayers(u, ls))
<1> DEFINE there == {l \in ls : u.layer[l].on}
           drawing == {l \in there : u.src[u.layer[l].source].on}
           g == u.gen + 1
           Fresh(l) == Proxy!CollectFeatures(u, l, g)
           w == Proxy!ClearLayerOverlays(u, there)
           gn == IF drawing = {} THEN w.gen ELSE g
           ly == [l \in Layers |-> IF l \in drawing THEN [w.layer[l] EXCEPT !.drawn = Fresh(l), !.gen = g]
                                   ELSE w.layer[l]]
           st == [l \in Layers |-> IF l \in drawing THEN Proxy!ApplyLayerStyle(w, l).style[l] ELSE w.style[l]]
           om == w.onMap \cup UNION {Fresh(l) : l \in {x \in drawing : u.layer[x].vis}}
           x == [w EXCEPT !.gen = gn, !.layer = ly, !.style = st, !.onMap = om]
           es == {IF e.l \in drawing THEN [l |-> e.l, gen |-> x.layer[e.l].gen] ELSE e : e \in x.ears}
           v == [x EXCEPT !.ears = es]
<1>1. Proxy!RerenderLayers(u, ls) = v
  BY DEF Proxy!RerenderLayers, Proxy!BindLayerListenerRecord
<1>2. ProxySound(w)
  BY ClearedSound
<1>3. \A l : \A o \in Fresh(l) : o.gen = g
  BY DEF Proxy!CollectFeatures
<1>4. gn \in Nat
  BY <1>2 DEF ProxySound
<1> HIDE DEF drawing, w, gn, st, om, g
<1>5. LayersBound(w.layer, w.ears)
  BY <1>2 DEF ProxySound
<1>6. /\ DOMAIN ly = Layers
      /\ \A l \in Layers : DrawnFields \subseteq DOMAIN ly[l] /\ ly[l].on = w.layer[l].on
      /\ \A l \in drawing \cap Layers : ly[l].drawn = Fresh(l) /\ ly[l].gen = g
      /\ \A l \in Layers \ drawing : ly[l] = w.layer[l]
  BY <1>5 DEF LayersBound, DrawnFields
<1> HIDE DEF ly
<1>7. /\ ProxyFields \subseteq DOMAIN x /\ x.layer = ly /\ x.ears = w.ears /\ x.gen = gn /\ x.made = w.made
      /\ x.map = w.map /\ x.bound = w.bound /\ x.active = w.active /\ x.open = w.open /\ x.timers = w.timers
      /\ x.ear = w.ear /\ x.clicks = w.clicks /\ x.raced = w.raced
  BY <1>2 DEF ProxySound, ProxyFields
<1> HIDE DEF x
<1>8. LayersBound(ly, es)
  <2>1. \A l \in Layers : \A o \in ly[l].drawn : o.gen = ly[l].gen
    BY <1>3, <1>5, <1>6 DEF LayersBound
  <2>2. ASSUME NEW e \in es
        PROVE  e.l \in Layers /\ (ly[e.l].on /\ ly[e.l].drawn # {} => e.gen = ly[e.l].gen)
    <3>1. PICK d \in w.ears : e = IF d.l \in drawing THEN [l |-> d.l, gen |-> ly[d.l].gen] ELSE d
      BY <1>7
    <3> QED BY <1>5, <1>6, <3>1 DEF LayersBound
  <2>3. \A l \in Layers : ly[l].on \in BOOLEAN
    BY <1>5, <1>6 DEF LayersBound
  <2> HIDE DEF es, Fresh
  <2> QED BY <1>6, <2>1, <2>2, <2>3 DEF LayersBound
<1> HIDE DEF es
<1>9. ProxySound(v)
  BY <1>2, <1>4, <1>7, <1>8 DEF ProxySound, ProxyFields
<1>10. QED
  BY <1>1, <1>9

LEMMA LayerRemovedSound ==
    ASSUME NEW u, ProxySound(u), NEW l \in Layers
    PROVE  ProxySound(Proxy!LayerRemoved(u, l))
<1> DEFINE w == Proxy!ClearLayerOverlays(u, {l})
           s == u.layer[l].source
           ly == [w.layer EXCEPT ![l].on = FALSE]
           es == {e \in w.ears : e.l # l}
           q == Proxy!RemoveFirst(w.order, l)
           x == [w EXCEPT !.src[s].layers = @ \ {l}, !.layer = ly, !.order = q, !.ears = es]
<1>1. ProxySound(w)
  BY ClearedSound
<1>2. Proxy!LayerRemoved(u, l) = u \/ Proxy!LayerRemoved(u, l) = Proxy!UpdateAllLayerZIndices(
        [w EXCEPT !.src[s].layers = @ \ {l}, !.layer[l].on = FALSE, !.order = Proxy!RemoveFirst(@, l),
                  !.ears = {e \in @ : e.l # l}])
  BY DEF Proxy!LayerRemoved
<1> HIDE DEF w, s
<1>3. [w EXCEPT !.src[s].layers = @ \ {l}, !.layer[l].on = FALSE, !.order = Proxy!RemoveFirst(@, l),
                !.ears = {e \in @ : e.l # l}] = x
  BY <1>1 DEF ProxySound, ProxyFields
<1>4. LayersBound(w.layer, w.ears)
  BY <1>1 DEF ProxySound
<1>5. LayersBound(ly, es)
  <2>1. /\ DOMAIN ly = Layers
        /\ \A k \in Layers : /\ DrawnFields \subseteq DOMAIN ly[k] /\ ly[k].on \in BOOLEAN
                             /\ ly[k].drawn = w.layer[k].drawn /\ ly[k].gen = w.layer[k].gen
                             /\ k # l => ly[k].on = w.layer[k].on
    BY <1>4 DEF LayersBound, DrawnFields
  <2> HIDE DEF ly
  <2> QED BY <1>4, <2>1 DEF LayersBound
<1> HIDE DEF ly, es, q
<1>6. ProxySound(x)
  BY <1>1, <1>5 DEF ProxySound, ProxyFields
<1> HIDE DEF x
<1>7. QED
  BY <1>2, <1>3, <1>6, StyleHelpersSound

(* The map, its zoom, its markers.                                         *)
LEMMA ProxyMapKept ==
    ASSUME ProxySound(ui),
           \/ Proxy!Initialize \/ Proxy!LibraryReady \/ Proxy!LibraryTimesOut \/ Proxy!Idle
           \/ Proxy!AddMarker \/ Proxy!RemoveMarker \/ Proxy!RemoveMap
           \/ \E z \in Zooms : Proxy!ZoomTo(z) \/ \E m \in Zooms : Proxy!FitBounds(z, m)
    PROVE  ProxySound(ui')
<1> USE DEF ProxySound, ProxyFields
<1>1. CASE Proxy!Initialize \/ Proxy!LibraryReady \/ Proxy!LibraryTimesOut
  <2>1. CASE Proxy!Initialize
    BY <2>1 DEF Proxy!Initialize, Proxy!Acted
  <2>2. CASE Proxy!LibraryReady
    BY <2>2 DEF Proxy!LibraryReady
  <2>3. CASE Proxy!LibraryTimesOut
    BY <2>3 DEF Proxy!LibraryTimesOut
  <2> QED BY <1>1, <2>1, <2>2, <2>3
<1>2. ASSUME NEW z, NEW c PROVE ProxySound([ui EXCEPT !.zoom = z, !.clamp = c]) /\ ProxySound([ui EXCEPT !.zoom = z])
  OBVIOUS
<1>3. CASE Proxy!Idle
  <2>1. PICK z : ui' = Proxy!UpdateAllLayerZIndices([ui EXCEPT !.zoom = z, !.clamp = {}])
    BY <1>3 DEF Proxy!Idle
  <2> HIDE DEF ProxySound
  <2> QED BY <1>2, <2>1, StyleHelpersSound
<1>4. CASE Proxy!AddMarker
  <2> DEFINE k == IF ui.marker = 0 THEN ui.leaked ELSE ui.leaked + 1
             u == [ui EXCEPT !.marker = ui.gen + 1, !.gen = @ + 1, !.leaked = k]
  <2>1. ui' = Proxy!Acted(u)
    BY <1>4 DEF Proxy!AddMarker
  <2> HIDE DEF k
  <2>2. ProxySound(u)
    OBVIOUS
  <2> HIDE DEF u, ProxySound
  <2> QED BY <2>1, <2>2, StyleHelpersSound
<1>5. CASE Proxy!RemoveMarker
  <2>1. ProxySound([ui EXCEPT !.marker = 0])
    OBVIOUS
  <2> HIDE DEF ProxySound
  <2> QED BY <1>5, <2>1, StyleHelpersSound DEF Proxy!RemoveMarker
<1>6. CASE Proxy!RemoveMap
  <2> DEFINE ly == [l \in Layers |-> Proxy!NoLayer]
             sr == [s \in Sources |-> Proxy!NoSource]
             ht == [s \in Sources |-> {}]
             u == [ui EXCEPT !.map = "removed", !.src = sr, !.hot = ht, !.layer = ly,
                             !.order = << >>, !.ears = {}, !.onMap = {}]
  <2>1. ui' = Proxy!Acted(u)
    BY <1>6 DEF Proxy!RemoveMap
  <2>2. LayersBound(ly, {})
    BY DEF LayersBound, DrawnFields, Proxy!NoLayer
  <2> HIDE DEF ly, sr, ht
  <2>3. ProxySound(u)
    BY <2>2
  <2> HIDE DEF u, ProxySound
  <2> QED BY <2>1, <2>3, StyleHelpersSound
<1>7. ASSUME NEW z, NEW m, Proxy!ZoomTo(z) \/ Proxy!FitBounds(z, m) PROVE ProxySound(ui')
  <2>1. \/ ui' = Proxy!Acted(Proxy!UpdateAllLayerZIndices([ui EXCEPT !.zoom = z]))
        \/ ui' = Proxy!Acted(Proxy!UpdateAllLayerZIndices([ui EXCEPT !.zoom = z, !.clamp = @ \cup {m}]))
    BY <1>7 DEF Proxy!ZoomTo, Proxy!FitBounds
  <2>2. ProxySound([ui EXCEPT !.zoom = z]) /\ ProxySound([ui EXCEPT !.zoom = z, !.clamp = @ \cup {m}])
    OBVIOUS
  <2> HIDE DEF ProxySound
  <2> QED BY <2>1, <2>2, StyleHelpersSound
<1>8. QED
  BY <1>1, <1>3, <1>4, <1>5, <1>6, <1>7

LEMMA PopupsKept ==
    ASSUME ProxySound(ui),
           \/ Proxy!ClickMap \/ Proxy!ClickMarker
           \/ \E p \in Popups : \/ Proxy!OpenPopup(p) \/ Proxy!ListenForClick(p) \/ Proxy!RemovePopup(p)
                                \/ Proxy!CloseButton(p) \/ Proxy!SetPopup(p)
    PROVE  ProxySound(ui')
<1>1. CASE Proxy!ClickMap
  BY <1>1, PopupsRemovedSound, StyleHelpersSound DEF Proxy!ClickMap
<1>2. CASE Proxy!ClickMarker
  <2>1. ui.bound \in Popups /\ ui' = Proxy!Acted(Proxy!Opened(ui, ui.bound))
    BY <1>2 DEF Proxy!ClickMarker, ProxySound
  <2> QED BY <2>1, OpenedSound, StyleHelpersSound
<1>3. ASSUME NEW p \in Popups, Proxy!OpenPopup(p) PROVE ProxySound(ui')
  BY <1>3, OpenedSound, StyleHelpersSound DEF Proxy!OpenPopup
<1>4. ASSUME NEW p \in Popups, Proxy!RemovePopup(p) PROVE ProxySound(ui')
  BY <1>4, PopupsRemovedSound, StyleHelpersSound DEF Proxy!RemovePopup, Proxy!PopupRemoved
<1>5. ASSUME NEW p \in Popups, Proxy!CloseButton(p) \/ Proxy!SetPopup(p) PROVE ProxySound(ui')
  <2> DEFINE u == [ui EXCEPT !.open = @ \ {p}]
             v == [ui EXCEPT !.bound = p]
  <2>1. ui' = Proxy!Acted(u) \/ ui' = Proxy!Acted(v)
    BY <1>5 DEF Proxy!CloseButton, Proxy!SetPopup
  <2>2. PopupsFit(ui.active, ui.open \ {p}, ui.timers, ui.ear, ui.clicks, ui.raced)
    BY DEF ProxySound, PopupsFit
  <2>3. ProxySound(u) /\ ProxySound(v)
    BY <2>2 DEF ProxySound, ProxyFields
  <2> HIDE DEF u, v
  <2> QED BY <2>1, <2>3, StyleHelpersSound
<1>6. QED
  BY <1>1, <1>2, <1>3, <1>4, <1>5, ListenForClickSound

LEMMA SourcesSound ==
    ASSUME ProxySound(ui), NEW s \in Sources,
           \/ Proxy!RemoveSource(s) \/ \E f \in Features : Proxy!SetFeatureState(s, f)
           \/ \E d \in SUBSET Features : \/ Proxy!AddSource(s, d) \/ Proxy!SetData(s, d)
                                         \/ Proxy!RemoveFeatureState(s, d)
    PROVE  ProxySound(ui')
<1> USE DEF ProxySound, ProxyFields
<1>1. CASE Proxy!RemoveSource(s)
  <2> DEFINE u == Proxy!ClearLayerOverlays(ui, ui.src[s].layers)
             v == [u EXCEPT !.src[s] = [on |-> FALSE, data |-> {}, layers |-> {}], !.hot[s] = {}]
  <2>1. ui' = Proxy!Acted(v)
    BY <1>1 DEF Proxy!RemoveSource
  <2>2. ProxySound(u)
    <3> HIDE DEF ProxySound
    <3> QED BY ClearedSound
  <2> HIDE DEF u
  <2>3. ProxySound(v)
    BY <2>2
  <2> HIDE DEF v, ProxySound
  <2> QED BY <2>1, <2>3, StyleHelpersSound
<1>2. ASSUME NEW f, Proxy!SetFeatureState(s, f) PROVE ProxySound(ui')
  <2>1. ProxySound([ui EXCEPT !.hot[s] = @ \cup {f}])
    OBVIOUS
  <2> HIDE DEF ProxySound
  <2> QED BY <1>2, <2>1, RerenderSound, StyleHelpersSound
          DEF Proxy!SetFeatureState, Proxy!RerenderSourceLayers
<1>3. ASSUME NEW d, Proxy!AddSource(s, d) PROVE ProxySound(ui')
  <2>1. ProxySound([ui EXCEPT !.src[s] = [on |-> TRUE, data |-> d, layers |-> {}], !.hot[s] = {}])
    OBVIOUS
  <2> HIDE DEF ProxySound
  <2> QED BY <1>3, <2>1, StyleHelpersSound DEF Proxy!AddSource
<1>4. ASSUME NEW d, Proxy!SetData(s, d) \/ Proxy!RemoveFeatureState(s, d) PROVE ProxySound(ui')
  <2>1. ProxySound([ui EXCEPT !.src[s].data = d]) /\ ProxySound([ui EXCEPT !.hot[s] = @ \ d])
    OBVIOUS
  <2> HIDE DEF ProxySound
  <2> QED BY <1>4, <2>1, RerenderSound, StyleHelpersSound
          DEF Proxy!SetData, Proxy!RemoveFeatureState, Proxy!RerenderSourceLayers
<1>5. QED
  BY <1>1, <1>2, <1>3, <1>4

LEMMA ProxyLayersSound ==
    ASSUME ProxySound(ui), NEW l \in Layers,
           \/ Proxy!RemoveLayer(l) \/ Proxy!OnLayer(l) \/ Proxy!OffLayer(l)
           \/ \E v \in BOOLEAN : Proxy!SetVisibility(l, v)
           \/ \E p \in Paints : Proxy!SetPaintProperty(l, p)
           \/ \E fs \in SUBSET Features : Proxy!SetFilter(l, fs)
           \/ \E b \in Layers : Proxy!MoveLayer(l, b) \/ \E s \in Sources, p \in Paints : Proxy!AddLayer(l, s, p, b)
    PROVE  ProxySound(ui')
<1> USE DEF ProxyFields
<1>1. CASE Proxy!RemoveLayer(l)
  BY <1>1, LayerRemovedSound, StyleHelpersSound DEF Proxy!RemoveLayer
<1>2. CASE Proxy!OnLayer(l) \/ Proxy!OffLayer(l)
  <2> DEFINE es == ui.ears \cup {[l |-> l, gen |-> ui.layer[l].gen]}
             fs == {e \in ui.ears : e.l # l}
             u == [ui EXCEPT !.ears = es]
             v == [ui EXCEPT !.ears = fs]
  <2>1. ui' = Proxy!Acted(u) \/ ui' = Proxy!Acted(v)
    BY <1>2 DEF Proxy!OnLayer, Proxy!OffLayer
  <2>2. LayersBound(ui.layer, es) /\ LayersBound(ui.layer, fs)
    BY DEF ProxySound, LayersBound
  <2> HIDE DEF es, fs
  <2>3. ProxySound(u) /\ ProxySound(v)
    BY <2>2 DEF ProxySound
  <2> HIDE DEF u, v
  <2> QED BY <2>1, <2>3, StyleHelpersSound
(* What is drawn of a layer, its drawing and whether it is there stay.     *)
<1>3. ASSUME NEW r, DrawnFields \subseteq DOMAIN r, \A f \in DrawnFields : r[f] = ui.layer[l][f]
      PROVE  ProxySound([ui EXCEPT !.layer = [ui.layer EXCEPT ![l] = r]])
  <2> DEFINE ly == [ui.layer EXCEPT ![l] = r]
  <2>1. r.on = ui.layer[l].on /\ r.drawn = ui.layer[l].drawn /\ r.gen = ui.layer[l].gen
    BY <1>3 DEF DrawnFields
  <2>2. LayersBound(ly, ui.ears)
    BY <1>3, <2>1 DEF ProxySound, LayersBound
  <2> HIDE DEF ly
  <2>3. ProxySound([ui EXCEPT !.layer = ly])
    BY <2>2 DEF ProxySound
  <2> QED BY <2>3 DEF ly
<1>4. ASSUME NEW v, Proxy!SetVisibility(l, v) PROVE ProxySound(ui')
  <2> DEFINE r == [ui.layer[l] EXCEPT !.vis = v]
             u == [ui EXCEPT !.layer[l].vis = v]
  <2>1. DrawnFields \subseteq DOMAIN r /\ \A f \in DrawnFields : r[f] = ui.layer[l][f]
    BY DEF ProxySound, LayersBound, DrawnFields
  <2>2. u = [ui EXCEPT !.layer = [ui.layer EXCEPT ![l] = r]]
    OBVIOUS
  <2>3. ui' = Proxy!Acted(Proxy!ApplyLayerVisibility(u, l))
    BY <1>4 DEF Proxy!SetVisibility
  <2> HIDE DEF r, u
  <2> QED BY <1>3, <2>1, <2>2, <2>3, StyleHelpersSound
<1>5. ASSUME NEW p, Proxy!SetPaintProperty(l, p) PROVE ProxySound(ui')
  <2> DEFINE r == [ui.layer[l] EXCEPT !.paint = p]
             u == [ui EXCEPT !.layer[l].paint = p]
  <2>1. DrawnFields \subseteq DOMAIN r /\ \A f \in DrawnFields : r[f] = ui.layer[l][f]
    BY DEF ProxySound, LayersBound, DrawnFields
  <2>2. u = [ui EXCEPT !.layer = [ui.layer EXCEPT ![l] = r]]
    OBVIOUS
  <2>3. ui' = Proxy!Acted(Proxy!ApplyLayerStyle(u, l))
    BY <1>5 DEF Proxy!SetPaintProperty
  <2> HIDE DEF r, u
  <2> QED BY <1>3, <2>1, <2>2, <2>3, StyleHelpersSound
<1>6. ASSUME NEW fs, Proxy!SetFilter(l, fs) PROVE ProxySound(ui')
  <2> DEFINE r == [ui.layer[l] EXCEPT !.filter = fs]
             u == [ui EXCEPT !.layer[l].filter = fs]
  <2>1. DrawnFields \subseteq DOMAIN r /\ \A f \in DrawnFields : r[f] = ui.layer[l][f]
    BY DEF ProxySound, LayersBound, DrawnFields
  <2>2. u = [ui EXCEPT !.layer = [ui.layer EXCEPT ![l] = r]]
    OBVIOUS
  <2>3. ui' = Proxy!Acted(Proxy!RerenderLayers(u, {l}))
    BY <1>6 DEF Proxy!SetFilter, Proxy!RerenderLayer
  <2> HIDE DEF r, u
  <2> QED BY <1>3, <2>1, <2>2, <2>3, RerenderSound, StyleHelpersSound
<1>7. ASSUME NEW b, Proxy!MoveLayer(l, b) PROVE ProxySound(ui')
  <2>1. PICK q : ui' = Proxy!Acted(Proxy!UpdateAllLayerZIndices([ui EXCEPT !.order = q]))
    BY <1>7 DEF Proxy!MoveLayer
  <2>2. ProxySound([ui EXCEPT !.order = q])
    BY DEF ProxySound
  <2> QED BY <2>1, <2>2, StyleHelpersSound
<1>8. ASSUME NEW s \in Sources, NEW p, NEW b, Proxy!AddLayer(l, s, p, b) PROVE ProxySound(ui')
  <2> DEFINE u == Proxy!LayerRemoved(ui, l)
             r == [on |-> TRUE, source |-> s, filter |-> Features, vis |-> TRUE, paint |-> p, gen |-> 0, drawn |-> {}]
             ly == [u.layer EXCEPT ![l] = r]
  <2>1. PICK sr, q :
          ui' = Proxy!Acted(Proxy!UpdateAllLayerZIndices(Proxy!RerenderLayers(
                    [u EXCEPT !.layer = ly, !.src[s].layers = sr, !.order = q], {l})))
    BY <1>8 DEF Proxy!AddLayer, Proxy!RerenderLayer
  <2> DEFINE w == [u EXCEPT !.layer = ly, !.src[s].layers = sr, !.order = q]
  <2>2. ProxySound(u)
    BY LayerRemovedSound
  <2> HIDE DEF u
  <2>3. LayersBound(ly, u.ears)
    BY <2>2 DEF ProxySound, LayersBound, DrawnFields
  <2> HIDE DEF ly
  <2>4. ProxySound(w)
    BY <2>2, <2>3 DEF ProxySound
  <2> HIDE DEF w
  <2> QED BY <2>1, <2>4, RerenderSound, StyleHelpersSound DEF w
<1>9. QED
  BY <1>1, <1>2, <1>4, <1>5, <1>6, <1>7, <1>8

LEMMA ProxyKept ==
    ASSUME ProxySound(ui), Proxy!Next
    PROVE  ProxySound(ui')
BY ProxyMapKept, PopupsKept, SourcesSound, ProxyLayersSound DEF Proxy!Next

LEMMA ProxyStart ==
    ASSUME Proxy!Init
    PROVE  ProxySound(ui)
<1> DEFINE z == Proxy!Start
<1>1. PopupsFit(z.active, z.open, z.timers, z.ear, z.clicks, z.raced)
  BY DEF Proxy!Start, PopupsFit
<1>2. LayersBound(z.layer, z.ears)
  BY DEF Proxy!Start, Proxy!NoLayer, LayersBound, DrawnFields
<1>3. /\ ProxyFields \subseteq DOMAIN z /\ z.made = 0 /\ z.map = "none" /\ z.gen = 0 /\ z.bound = NoPopup
  BY DEF Proxy!Start, ProxyFields
<1>4. ui = [z EXCEPT !.waiting = 1]
  BY DEF Proxy!Init
<1> HIDE DEF z
<1>5. QED
  BY <1>1, <1>2, <1>3, <1>4 DEF ProxySound, ProxyFields

LEMMA ProxyOwned ==
    ASSUME ProxySound(ui)
    PROVE  Proxy!OneMap /\ Proxy!OnePopup /\ Proxy!ListenersBound
<1>1. Proxy!OneMap
  BY DEF ProxySound, Proxy!OneMap
<1>2. Proxy!OnePopup
  BY DEF ProxySound, PopupsFit, Proxy!OnePopup
<1>3. Proxy!ListenersBound
  BY DEF ProxySound, LayersBound, Proxy!ListenersBound
<1>4. QED
  BY <1>1, <1>2, <1>3

-----------------------------------------------------------------------------
(* The parts together.                                                     *)

OwnedInv ==
    /\ page = "proxy" => ProxySound(ui)
    /\ page = "layers" => LayersSound(ui)
    /\ page = "dashboard" => ViewSound(ui)
    /\ page = "journal" => JournalSound(ui)
    /\ page = "rendering" => ReplaySound(ui)
    /\ page = "scene" => SceneSound(ui)
    /\ page = "navigation" => WatchSound(ui)

LEMMA OwnedInvariance == WebSpec => []OwnedInv
<1>1. WebInit => OwnedInv
  BY ProxyStart, LayersStart, ViewStart, JournalStart, ReplayStart, ScenesStart, WatchStart DEF WebInit, OwnedInv
<1>2. OwnedInv /\ [WebNext]_<<vars, page, ui>> => OwnedInv'
  <2> SUFFICES ASSUME OwnedInv, [WebNext]_<<vars, page, ui>> PROVE OwnedInv'
    OBVIOUS
  <2>1. CASE UNCHANGED <<vars, page, ui>>
    BY <2>1 DEF OwnedInv, ProxySound, LayersSound, ViewSound, JournalSound, ReplaySound, SceneSound, WatchSound
  <2>2. CASE WebNext
    <3>1. page' = page
      BY <2>2 DEF WebNext
    <3>2. ASSUME page = "proxy" PROVE ProxySound(ui')
      BY <2>2, <3>2, ProxyKept DEF WebNext, OwnedInv
    <3>3. ASSUME page = "layers" PROVE LayersSound(ui')
      BY <2>2, <3>3, LayersKept DEF WebNext, OwnedInv
    <3>4. ASSUME page = "dashboard" PROVE ViewSound(ui')
      BY <2>2, <3>4, ViewKept DEF WebNext, OwnedInv
    <3>5. ASSUME page = "journal" PROVE JournalSound(ui')
      BY <2>2, <3>5, JournalKept DEF WebNext, OwnedInv
    <3>6. ASSUME page = "rendering" PROVE ReplaySound(ui')
      BY <2>2, <3>6, ReplayKept DEF WebNext, OwnedInv
    <3>7. ASSUME page = "scene" PROVE SceneSound(ui')
      BY <2>2, <3>7, ScenesKept DEF WebNext, OwnedInv
    <3>8. ASSUME page = "navigation" PROVE WatchSound(ui')
      BY <2>2, <3>8, WatchKept DEF WebNext, OwnedInv
    <3> QED BY <3>1, <3>2, <3>3, <3>4, <3>5, <3>6, <3>7, <3>8 DEF OwnedInv
  <2> QED BY <2>1, <2>2
<1>3. QED
  BY <1>1, <1>2, PTL DEF WebSpec

(* However callers, answers, frames, timers and transitions cross: there   *)
(* is one map, one open popup with its own click listener, listeners bound *)
(* to what is drawn now, one style change, one view, one scene with its    *)
(* canvas and data; a chosen day or source keeps the journal's map, a      *)
(* replay its trip, the sheet its lock; and no scene, replay or watched    *)
(* position outlives what it is for (google_map.js, layer-manager.js,      *)
(* coverage-management, coverage-journal, trip-layer-renderer.js, the lens *)
(* scenes, live-navigation).                                               *)
THEOREM OneOfEach == WebSpec => []OneAndOwned
<1>1. OwnedInv => OneAndOwned
  BY ProxyOwned, LayersOwned, ViewIsOne, JournalOwned, ReplayIsOwned, ScenesOwned, WatchIsOwned
     DEF OwnedInv, OneAndOwned
<1>2. QED
  BY <1>1, OwnedInvariance, PTL

-----------------------------------------------------------------------------
(* The route planner: who follows the generation on show.                  *)

FollowFields == {"view", "timer", "button", "task", "following", "stream", "poll", "polling", "net", "crossed", "unfollowed"}
Calm(u) == ~u.crossed /\ ~u.unfollowed

(* The clock runs while the progress is on show.                           *)
ClockSound(u) ==
    /\ FollowFields \subseteq DOMAIN u
    /\ u.crossed \in BOOLEAN /\ u.unfollowed \in BOOLEAN
    /\ u.timer = (u.view = "progress")
    /\ \A q \in u.net : q.kind = "poll" => q.t # Route!NoTask

(* While nothing has crossed, one start is on its way at most, with its    *)
(* progress on show and no task yet; a task on show is listened to, by its *)
(* stream or by polling, until it is asked to be cancelled.                *)
FollowSound(u) ==
    /\ ClockSound(u)
    /\ Calm(u) =>
        /\ \A q, r \in u.net : q.kind \in {"worker", "start"} /\ r.kind \in {"worker", "start"} => q = r
        /\ Route!Starting(u) => u.task = Route!NoTask /\ u.view = "progress" /\ ~u.button
        /\ u.task # Route!NoTask /\ (\A q \in u.net : q.kind # "cancel") =>
            /\ u.following = u.task /\ {u.stream, u.poll} = {Route!NoTask, u.task} /\ u.view = "progress"

(* Nothing is followed, and nothing is about to be.                        *)
Idle(u) == Calm(u) => u.task = Route!NoTask /\ ~Route!Starting(u)

LEMMA PanelsSound ==
    ASSUME NEW u, FollowSound(u), Idle(u), NEW b \in BOOLEAN
    PROVE  /\ FollowSound(Route!ShowResults(u)) /\ FollowSound(Route!ShowError(u)) /\ FollowSound(Route!HideProgress(u))
           /\ FollowSound(Route!ClearRouteDisplay(u)) /\ FollowSound([u EXCEPT !.button = b])
           /\ Idle(Route!ShowResults(u)) /\ Idle(Route!ClearRouteDisplay(u))
<1> USE DEF FollowSound, ClockSound, FollowFields, Idle, Calm, Route!Starting
<1>1. FollowSound(Route!ShowResults(u)) /\ Idle(Route!ShowResults(u))
  BY DEF Route!ShowResults
<1>2. FollowSound(Route!ShowError(u))
  BY DEF Route!ShowError
<1>3. FollowSound(Route!HideProgress(u))
  BY DEF Route!HideProgress
<1>4. FollowSound(Route!ClearRouteDisplay(u)) /\ Idle(Route!ClearRouteDisplay(u))
  BY DEF Route!ClearRouteDisplay, Route!ClearRoute
<1>5. FollowSound([u EXCEPT !.button = b])
  OBVIOUS
<1> QED BY <1>1, <1>2, <1>3, <1>4, <1>5

(* What neither shows nor follows: other fields, answers, other questions. *)
LEMMA FollowApart ==
    ASSUME NEW u, FollowSound(u), NEW v, FollowFields \subseteq DOMAIN v,
           \A f \in FollowFields \ {"net", "crossed", "unfollowed"} : v[f] = u[f],
           v.crossed \in BOOLEAN, v.unfollowed \in BOOLEAN, u.crossed => v.crossed, u.unfollowed => v.unfollowed,
           \A q \in v.net : q \in u.net \/ q.kind \notin {"worker", "start", "poll"},
           \A q \in u.net : q.kind = "cancel" => q \in v.net
    PROVE  FollowSound(v) /\ (Idle(u) => Idle(v))
<1>1. \A f \in {"view", "timer", "button", "task", "following", "stream", "poll", "polling"} : v[f] = u[f]
  BY DEF FollowFields
<1>2. /\ v.view = u.view /\ v.timer = u.timer /\ v.button = u.button /\ v.task = u.task
      /\ v.following = u.following /\ v.stream = u.stream /\ v.poll = u.poll
  BY <1>1
<1> QED BY <1>2 DEF FollowSound, ClockSound, Idle, Calm, Route!Starting

LEMMA AskedApart ==
    ASSUME NEW u, FollowSound(u), NEW kind, NEW a, NEW t, NEW b, kind \notin {"worker", "start", "poll"}
    PROVE  FollowSound(Route!Asked(u, kind, a, t, b)) /\ (Idle(u) => Idle(Route!Asked(u, kind, a, t, b)))
BY DEF FollowSound, ClockSound, FollowFields, Idle, Calm, Route!Starting, Route!Asked

(* A start is asked for while nothing else is on show.                     *)
LEMMA AskedToStart ==
    ASSUME NEW u, FollowSound(u), NEW kind \in {"worker", "start"}, NEW a, NEW t, NEW b,
           Calm(u) => Idle(u) /\ u.view = "progress" /\ ~u.button
    PROVE  FollowSound(Route!Asked(u, kind, a, t, b))
BY DEF FollowSound, ClockSound, FollowFields, Idle, Calm, Route!Starting, Route!Asked

LEMMA ProgressShown ==
    ASSUME NEW u, FollowSound(u)
    PROVE  LET v == Route!ShowProgressSection(u) IN
           /\ FollowSound(v) /\ v.view = "progress" /\ ~v.button /\ (Idle(u) => Idle(v)) /\ (Calm(v) => Calm(u))
BY DEF FollowSound, ClockSound, FollowFields, Idle, Calm, Route!Starting, Route!ShowProgressSection

(* A task that is listened to, with its progress on show.                  *)
LEMMA ConnectedSound ==
    ASSUME NEW u, ClockSound(u), NEW t, t # Route!NoTask, u.task = t,
           Calm(u) => u.view = "progress" /\ ~Route!Starting(u)
    PROVE  FollowSound(Route!ConnectSSE(u, t))
BY DEF FollowSound, ClockSound, FollowFields, Calm, Route!Starting, Route!ConnectSSE, Route!DisconnectSSE

(* Following ends with the task: no start is on its way beside it.         *)
LEMMA EndsSound ==
    ASSUME NEW u, ClockSound(u), Calm(u) => ~Route!Starting(u)
    PROVE  /\ FollowSound(Route!OnError(Route!DisconnectSSE(u))) /\ FollowSound(Route!OnError(u))
           /\ FollowSound(Route!OnCancelled(Route!DisconnectSSE(u))) /\ FollowSound(Route!OnCancelled(u))
           /\ FollowSound(Route!OnGenerationComplete(Route!DisconnectSSE(u)))
<1> USE DEF FollowSound, ClockSound, FollowFields, Calm, Route!Starting
<1>1. FollowSound(Route!OnError(Route!DisconnectSSE(u))) /\ FollowSound(Route!OnError(u))
  BY ZenonT(30) DEF Route!OnError, Route!DisconnectSSE, Route!ShowError
<1>2. FollowSound(Route!OnCancelled(Route!DisconnectSSE(u))) /\ FollowSound(Route!OnCancelled(u))
  BY ZenonT(30) DEF Route!OnCancelled, Route!DisconnectSSE, Route!HideProgress
<1>3. FollowSound(Route!OnGenerationComplete(Route!DisconnectSSE(u)))
  <2> DEFINE d == Route!DisconnectSSE(u)
             w == [d EXCEPT !.task = Route!NoTask, !.cluster = FALSE]
             x == [w EXCEPT !.crossed = @ \/ d.area = NoArea]
  <2>1. FollowSound(w)
    BY DEF Route!DisconnectSSE
  <2>2. FollowSound(x)
    <3> HIDE DEF w, d
    <3> QED BY <2>1
  <2>3. \/ Route!OnGenerationComplete(d) = Route!Asked(w, "result", d.area, d.task, TRUE)
        \/ Route!OnGenerationComplete(d) = Route!Asked(x, "finished", d.area, Route!NoTask, FALSE)
    <3> HIDE DEF d
    <3> QED BY DEF Route!OnGenerationComplete
  <2> HIDE DEF d, w, x, FollowSound, ClockSound, FollowFields, Calm, Route!Starting
  <2>4. FollowSound(Route!OnGenerationComplete(d))
    BY <2>1, <2>2, <2>3, AskedApart
  <2> QED BY <2>4 DEF d
<1> QED BY <1>1, <1>2, <1>3

LEMMA TerminalSound ==
    ASSUME NEW u, FollowSound(u), NEW t, t # Route!NoTask
    PROVE  FollowSound(Route!HandleTerminalState(u, t))
<1> DEFINE v == [u EXCEPT !.crossed = @ \/ t # u.task \/ u.tasks[t].a # u.area]
<1>1. ClockSound(v) /\ FollowSound(u) /\ (Calm(v) => ~Route!Starting(v))
  BY DEF FollowSound, ClockSound, FollowFields, Calm, Route!Starting
<1>2. Route!HandleTerminalState(u, t) \in {u, Route!OnError(Route!DisconnectSSE(v)),
                Route!OnCancelled(Route!DisconnectSSE(v)), Route!OnGenerationComplete(Route!DisconnectSSE(v))}
  BY DEF Route!HandleTerminalState
<1> HIDE DEF v
<1> QED BY <1>1, <1>2, EndsSound

(* An area is selected, and its generation under way is left alone.        *)
LEMMA SelectSound ==
    ASSUME NEW u, FollowSound(u), NEW a
    PROVE  FollowSound(Route!OnAreaSelect(u, a))
<1> DEFINE x == [u EXCEPT !.crossed = @ \/ Route!Busy(u)]
           c == Route!ClearRouteDisplay(x)
           v == [Route!ClearRouteDisplay(u) EXCEPT !.area = a, !.button = (a # NoArea), !.crossed = @ \/ Route!Busy(u)]
<1>1. FollowSound(x) /\ Idle(x)
  BY DEF FollowSound, ClockSound, FollowFields, Idle, Calm, Route!Starting, Route!Busy
<1>2. FollowSound(c) /\ Idle(c)
  <2> HIDE DEF x
  <2> QED BY <1>1, PanelsSound
<1>3. FollowSound([c EXCEPT !.button = (a # NoArea)])
  <2> HIDE DEF c
  <2> QED BY <1>2, PanelsSound
<1>4. v = [[c EXCEPT !.button = (a # NoArea)] EXCEPT !.area = a]
  BY DEF Route!ClearRouteDisplay, Route!ClearRoute
<1>5. FollowSound(v)
  <2> DEFINE y == [c EXCEPT !.button = (a # NoArea)]
  <2>1. FollowSound(y)
    BY <1>3
  <2> HIDE DEF y
  <2>2. FollowSound([y EXCEPT !.area = a])
    BY <2>1 DEF FollowSound, ClockSound, FollowFields, Calm, Route!Starting
  <2> QED BY <1>4, <2>2 DEF y
<1>6. FollowSound([v EXCEPT !.streets = NoArea])
  <2> HIDE DEF v
  <2> QED BY <1>5 DEF FollowSound, ClockSound, FollowFields, Calm, Route!Starting
<1>7. FollowSound(Route!Asked(v, "streets", a, Route!NoTask, FALSE))
  <2> HIDE DEF v
  <2> QED BY <1>5, AskedApart
<1> QED BY <1>6, <1>7 DEF Route!OnAreaSelect

(* The answers to the questions of a selection.                            *)
LEMMA SelectionAnswersSound ==
    ASSUME FollowSound(ui), NEW q \in ui.net,
           Route!AreasArrive(q) \/ Route!StreetsArrive(q) \/ Route!SavedArrives(q) \/ Route!ActiveArrives(q)
    PROVE  FollowSound(ui')
<1>1. CASE Route!AreasArrive(q)
  <2> DEFINE u == [Route!Done(ui, q) EXCEPT !.listed = TRUE, !.has = ui.srv]
  <2>1. FollowSound(u) /\ FollowSound(Route!Done(ui, q))
    BY <1>1 DEF Route!AreasArrive, Route!Done, FollowSound, ClockSound, FollowFields, Calm, Route!Starting
  <2>2. ui' \in {u, Route!Done(ui, q)} \/ \E a \in Areas : ui' = Route!OnAreaSelect(u, a)
    BY <1>1 DEF Route!AreasArrive
  <2> HIDE DEF u
  <2> QED BY <2>1, <2>2, SelectSound
<1>2. CASE Route!StreetsArrive(q)
  <2>1. PICK ok \in BOOLEAN, b \in BOOLEAN :
          ui' = Route!Asked([Route!Done(ui, q) EXCEPT !.streets = IF ok THEN q.a ELSE @, !.crossed = ui.crossed \/ b],
                            IF ui.has[q.a] THEN "saved" ELSE "active", q.a, Route!NoTask, FALSE)
    BY <1>2 DEF Route!StreetsArrive, Route!Stale, Route!Done
  <2> DEFINE u == [Route!Done(ui, q) EXCEPT !.streets = IF ok THEN q.a ELSE @, !.crossed = ui.crossed \/ b]
             k == IF ui.has[q.a] THEN "saved" ELSE "active"
  <2>2. FollowSound(u)
    BY <1>2 DEF Route!StreetsArrive, Route!Done, FollowSound, ClockSound, FollowFields, Calm, Route!Starting
  <2>3. k \notin {"worker", "start", "poll"}
    OBVIOUS
  <2> HIDE DEF u, k
  <2>4. FollowSound(Route!Asked(u, k, q.a, Route!NoTask, FALSE))
    BY <2>2, <2>3, AskedApart
  <2> QED BY <2>1, <2>4 DEF u, k
<1>3. CASE Route!SavedArrives(q)
  <2> DEFINE w == [Route!Done(ui, q) EXCEPT !.crossed = Route!Stale(ui, q) \/ Route!Busy(ui)]
             u == Route!Asked(w, "active", q.a, Route!NoTask, FALSE)
             r == <<"saved", q.a>>
             d == [u EXCEPT !.data = r]
  <2>1. FollowSound(w) /\ Idle(w)
    BY <1>3 DEF Route!SavedArrives, Route!Done, Route!Stale, Route!Busy, FollowSound, ClockSound, FollowFields, Idle,
                Calm, Route!Starting
  <2>2. FollowSound(u) /\ Idle(u)
    <3> HIDE DEF w
    <3> QED BY <2>1, AskedApart
  <2>3. FollowSound(d) /\ Idle(d)
    <3> HIDE DEF u
    <3> QED BY <2>2 DEF FollowSound, ClockSound, FollowFields, Idle, Calm, Route!Starting
  <2>4. FollowSound(Route!DisplayRoute(d, r, FALSE)) /\ Idle(Route!DisplayRoute(d, r, FALSE))
    <3> HIDE DEF d
    <3> QED BY <2>3 DEF Route!DisplayRoute, FollowSound, ClockSound, FollowFields, Idle, Calm, Route!Starting
  <2>5. ui' \in {Route!ShowResults(Route!DisplayRoute(d, r, FALSE)), u}
    BY <1>3 DEF Route!SavedArrives
  <2> HIDE DEF d, u
  <2> QED BY <2>2, <2>4, <2>5, PanelsSound
<1>4. CASE Route!ActiveArrives(q)
  <2> DEFINE u == [Route!Done(ui, q) EXCEPT !.crossed = Route!Stale(ui, q)]
  <2>1. FollowSound(u)
    BY <1>4 DEF Route!ActiveArrives, Route!Done, Route!Stale, FollowSound, ClockSound, FollowFields, Calm, Route!Starting
  <2>2. ASSUME NEW t \in Route!Tasks, NEW b \in BOOLEAN, Route!Starting(ui) => b
        PROVE  LET v == Route!ShowProgressSection([u EXCEPT !.task = t, !.crossed = @ \/ b]) IN FollowSound(Route!ConnectSSE(v, t))
    <3> DEFINE v == Route!ShowProgressSection([u EXCEPT !.task = t, !.crossed = @ \/ b])
    <3>1. ClockSound(v) /\ v.task = t /\ (Calm(v) => v.view = "progress" /\ ~Route!Starting(v))
      BY <2>1, <2>2 DEF Route!Done, Route!ShowProgressSection, FollowSound, ClockSound, FollowFields, Calm, Route!Starting
    <3>2. t # Route!NoTask
      BY NavigationAssumption DEF Route!Tasks, Route!NoTask
    <3> HIDE DEF v
    <3> QED BY <3>1, <3>2, ConnectedSound DEF v
  <2>3. \/ ui' = u
        \/ \E t \in Route!Tasks, b \in BOOLEAN :
              /\ Route!Starting(ui) => b
              /\ ui' = Route!ConnectSSE(Route!ShowProgressSection([u EXCEPT !.task = t, !.crossed = @ \/ b]), t)
    <3>1. CASE ui' = u
      BY <3>1
    <3>2. CASE \E t \in Route!Tasks : ui' = Route!ConnectSSE(Route!ShowProgressSection(
                    [u EXCEPT !.task = t, !.crossed = @ \/ ui.tasks[t].cl \/ Route!Starting(ui) \/ ui.task \notin {t, Route!NoTask}]), t)
      <4>1. PICK t \in Route!Tasks : ui' = Route!ConnectSSE(Route!ShowProgressSection(
                    [u EXCEPT !.task = t, !.crossed = @ \/ ui.tasks[t].cl \/ Route!Starting(ui) \/ ui.task \notin {t, Route!NoTask}]), t)
        BY <3>2
      <4> DEFINE b == IF ui.tasks[t].cl \/ Route!Starting(ui) \/ ui.task \notin {t, Route!NoTask} THEN TRUE ELSE FALSE
      <4>2. b \in BOOLEAN /\ (Route!Starting(ui) => b)
        OBVIOUS
      <4>3. [u EXCEPT !.task = t, !.crossed = @ \/ ui.tasks[t].cl \/ Route!Starting(ui) \/ ui.task \notin {t, Route!NoTask}]
            = [u EXCEPT !.task = t, !.crossed = @ \/ b]
        BY <2>1 DEF FollowSound, ClockSound, FollowFields
      <4> HIDE DEF b, u
      <4> QED BY <4>1, <4>2, <4>3
    <3> QED BY <1>4, <3>1, <3>2 DEF Route!ActiveArrives
  <2> HIDE DEF u
  <2> QED BY <2>1, <2>2, <2>3
<1> QED BY <1>1, <1>2, <1>3, <1>4

(* A generation is asked for, started, and its route read.                 *)
LEMMA GenerationAnswersSound ==
    ASSUME FollowSound(ui), NEW q \in ui.net,
           Route!WorkerChecked(q) \/ Route!Started(q) \/ Route!CancelAnswered(q) \/ Route!FinishedArrives(q) \/ Route!RouteCleared(q)
    PROVE  FollowSound(ui')
<1>1. CASE Route!WorkerChecked(q)
  <2> DEFINE u == Route!Done(ui, q)
  <2>1. FollowSound(u) /\ (Calm(u) => Idle(u) /\ u.view = "progress" /\ ~u.button)
    BY <1>1 DEF Route!WorkerChecked, Route!Done, FollowSound, ClockSound, FollowFields, Idle, Calm, Route!Starting
  <2>2. ui' = Route!Asked(u, "start", IF q.cl THEN q.a ELSE ui.area, Route!NoTask, q.cl)
    BY <1>1, SMTT(30) DEF Route!WorkerChecked
  <2> HIDE DEF u
  <2> QED BY <2>1, <2>2, AskedToStart
<1>2. CASE Route!Started(q)
  <2> DEFINE w == [Route!Done(ui, q) EXCEPT !.unfollowed = @ \/ ui.task # Route!NoTask]
  <2>1. ASSUME NEW t \in Route!Tasks, NEW b,
               ui' = Route!ConnectSSE([Route!Done(ui, q) EXCEPT !.tasks[t] = b, !.task = t, !.crossed = Route!Stale(ui, q)], t)
        PROVE  FollowSound(ui')
    <3> DEFINE v == [Route!Done(ui, q) EXCEPT !.tasks[t] = b, !.task = t, !.crossed = Route!Stale(ui, q)]
    <3>1. ClockSound(v) /\ v.task = t /\ (Calm(v) => v.view = "progress" /\ ~Route!Starting(v))
      BY <1>2 DEF Route!Started, Route!Done, Route!Stale, FollowSound, ClockSound, FollowFields, Calm, Route!Starting
    <3>2. t # Route!NoTask
      BY NavigationAssumption DEF Route!Tasks, Route!NoTask
    <3>3. ui' = Route!ConnectSSE(v, t)
      BY <2>1, SMTT(30)
    <3> HIDE DEF v
    <3> QED BY <3>1, <3>2, <3>3, ConnectedSound, SMTT(30)
  <2>2. ClockSound(w) /\ (Calm(w) => ~Route!Starting(w))
    BY <1>2 DEF Route!Started, Route!Done, FollowSound, ClockSound, FollowFields, Calm, Route!Starting
  <2>3. FollowSound(Route!OnError(w))
    <3> HIDE DEF w
    <3> QED BY <2>2, EndsSound
  <2> HIDE DEF w
  <2> QED BY <1>2, <2>1, <2>3 DEF Route!Started, w
<1>3. CASE Route!CancelAnswered(q)
  <2> DEFINE u == Route!Done(ui, q)
             s == IF ui.tasks[q.t].s = "running" THEN "cancelled" ELSE ui.tasks[q.t].s
             b == ui.task \notin {q.t, Route!NoTask} \/ Route!Starting(ui)
             w == [u EXCEPT !.tasks[q.t].s = IF @ = "running" THEN "cancelled" ELSE @, !.unfollowed = @ \/ b]
  <2>1. ClockSound(w) /\ (Calm(w) => ~Route!Starting(w))
    BY DEF Route!Done, FollowSound, ClockSound, FollowFields, Calm, Route!Starting
  <2>2. FollowSound([u EXCEPT !.unfollowed = TRUE])
    BY DEF Route!Done, FollowSound, ClockSound, FollowFields, Calm, Route!Starting
  <2>3. ui' \in {Route!OnCancelled(w), [u EXCEPT !.unfollowed = TRUE]}
    BY <1>3 DEF Route!CancelAnswered
  <2> HIDE DEF w, u
  <2> QED BY <2>1, <2>2, <2>3, EndsSound
<1>4. CASE Route!FinishedArrives(q)
  <2> DEFINE u == [Route!Done(ui, q) EXCEPT !.crossed = Route!Stale(ui, q) \/ Route!Busy(ui)]
             r == IF q.kind = "result" THEN <<"cluster", q.t>> ELSE <<"saved", q.a>>
             v == IF q.kind = "result" \/ ui.area = NoArea THEN u ELSE [u EXCEPT !.has[ui.area] = TRUE]
             d == [v EXCEPT !.data = r]
  <2>1. FollowSound(u) /\ Idle(u)
    BY <1>4 DEF Route!FinishedArrives, Route!Done, Route!Stale, Route!Busy, FollowSound, ClockSound, FollowFields, Idle,
                Calm, Route!Starting
  <2>2. FollowSound(v) /\ Idle(v)
    <3> HIDE DEF u
    <3> QED BY <2>1 DEF FollowSound, ClockSound, FollowFields, Idle, Calm, Route!Starting
  <2>3. FollowSound(d) /\ Idle(d)
    <3> HIDE DEF v
    <3> QED BY <2>2 DEF FollowSound, ClockSound, FollowFields, Idle, Calm, Route!Starting
  <2>4. FollowSound(Route!DisplayRoute(d, r, TRUE)) /\ Idle(Route!DisplayRoute(d, r, TRUE))
    <3> HIDE DEF d, r
    <3> QED BY <2>3 DEF Route!DisplayRoute, FollowSound, ClockSound, FollowFields, Idle, Calm, Route!Starting
  <2>5. FollowSound([u EXCEPT !.unfollowed = TRUE])
    <3> HIDE DEF u
    <3> QED BY <2>1 DEF FollowSound, ClockSound, FollowFields, Calm, Route!Starting
  <2>6. ui' \in {Route!ShowResults(Route!DisplayRoute(d, r, TRUE)), Route!ShowError(u), [u EXCEPT !.unfollowed = TRUE]}
    BY <1>4 DEF Route!FinishedArrives
  <2> HIDE DEF d, v, u, r
  <2> QED BY <2>1, <2>4, <2>5, <2>6, PanelsSound
<1>5. CASE Route!RouteCleared(q)
  <2>1. PICK ok \in BOOLEAN :
          ui' = Route!ClearRouteDisplay([Route!Done(ui, q) EXCEPT !.has[q.a] = FALSE, !.srv[q.a] = @ /\ ~ok,
                                           !.crossed = @ \/ Route!Busy(ui)])
    BY <1>5 DEF Route!RouteCleared
  <2> DEFINE u == [Route!Done(ui, q) EXCEPT !.has[q.a] = FALSE, !.srv[q.a] = @ /\ ~ok, !.crossed = @ \/ Route!Busy(ui)]
  <2>2. FollowSound(u) /\ Idle(u)
    BY <1>5 DEF Route!RouteCleared, Route!Done, Route!Busy, FollowSound, ClockSound, FollowFields, Idle, Calm, Route!Starting
  <2> HIDE DEF u
  <2> QED BY <2>1, <2>2, PanelsSound DEF u
<1> QED BY <1>1, <1>2, <1>3, <1>4, <1>5

(* The stream, its end, and the polling that follows.                      *)
LEMMA PollingSound ==
    ASSUME FollowSound(ui)
    PROVE  /\ Route!StreamMessage \/ Route!StreamEnds \/ Route!PollTick => FollowSound(ui')
           /\ \A q \in ui.net : Route!PollArrives(q) \/ Route!PollFails(q) => FollowSound(ui')
<1>1. CASE Route!StreamMessage
  BY <1>1, TerminalSound DEF Route!StreamMessage
<1>2. CASE Route!StreamEnds
  <2> DEFINE u == [ui EXCEPT !.stream = Route!NoTask]
             p == Route!PollProgress(u, ui.stream)
  <2>1. CASE ui.following # ui.stream \/ ui.poll # Route!NoTask
    <3>1. ui' = u
      BY <1>2, <2>1 DEF Route!StreamEnds, Route!StartProgressPolling, FollowSound, ClockSound, FollowFields
    <3> QED BY <1>2, <2>1, <3>1 DEF Route!StreamEnds, FollowSound, ClockSound, FollowFields, Calm, Route!Starting
  <2>2. CASE ui.following = ui.stream /\ ui.poll = Route!NoTask
    <3>1. ui' = [p EXCEPT !.poll = ui.stream]
      BY <1>2, <2>2 DEF Route!StreamEnds, Route!StartProgressPolling, FollowSound, ClockSound, FollowFields
    <3>2. CASE ui.polling
      <4>1. p = u
        BY <3>2 DEF Route!PollProgress, FollowSound, ClockSound, FollowFields
      <4> QED BY <1>2, <2>2, <3>1, <4>1 DEF Route!StreamEnds, FollowSound, ClockSound, FollowFields, Calm, Route!Starting
    <3>3. CASE ~ui.polling
      <4>1. p = Route!Asked([u EXCEPT !.polling = TRUE], "poll", NoArea, ui.stream, FALSE)
        BY <2>2, <3>3 DEF Route!PollProgress, FollowSound, ClockSound, FollowFields
      <4> DEFINE n == [id |-> Route!Fresh(ui.net), kind |-> "poll", a |-> NoArea, t |-> ui.stream, cl |-> FALSE]
      <4>2. /\ FollowFields \subseteq DOMAIN ui' /\ ui'.net = ui.net \cup {n}
            /\ ui'.stream = Route!NoTask /\ ui'.poll = ui.stream
            /\ \A f \in FollowFields \ {"net", "stream", "poll", "polling"} : ui'[f] = ui[f]
        BY <3>1, <4>1 DEF Route!Asked, FollowSound, ClockSound, FollowFields
      <4>3. /\ ui'.view = ui.view /\ ui'.timer = ui.timer /\ ui'.button = ui.button /\ ui'.task = ui.task
            /\ ui'.following = ui.following /\ ui'.crossed = ui.crossed /\ ui'.unfollowed = ui.unfollowed
        BY <4>2 DEF FollowFields
      <4>4. n.kind = "poll" /\ n.t = ui.stream /\ ui.stream # Route!NoTask
        BY <1>2 DEF Route!StreamEnds
      <4> HIDE DEF n
      <4>5. ClockSound(ui') /\ (Route!Starting(ui') => Route!Starting(ui))
        BY <4>2, <4>3, <4>4 DEF FollowSound, ClockSound, Route!Starting
      <4>6. Calm(ui') /\ ui'.task # Route!NoTask /\ (\A q \in ui'.net : q.kind # "cancel") =>
              /\ ui'.following = ui'.task /\ {ui'.stream, ui'.poll} = {Route!NoTask, ui'.task} /\ ui'.view = "progress"
        BY <2>2, <4>2, <4>3, <4>4 DEF FollowSound, Calm
      <4>7. FollowSound(ui')
        BY <4>2, <4>3, <4>4, <4>5, <4>6 DEF FollowSound, Calm
      <4> QED BY <4>7
    <3> QED BY <3>2, <3>3
  <2> QED BY <2>1, <2>2
<1>3. CASE Route!PollTick
  BY <1>3 DEF Route!PollTick, Route!PollProgress, Route!Asked, FollowSound, ClockSound, FollowFields, Calm, Route!Starting
<1>4. ASSUME NEW q \in ui.net, Route!PollArrives(q) PROVE FollowSound(ui')
  <2> DEFINE u == [Route!Done(ui, q) EXCEPT !.failures = 0]
             h == Route!HandleTerminalState(u, q.t)
  <2>1. FollowSound(u) /\ q.t # Route!NoTask
    BY <1>4 DEF Route!PollArrives, Route!Done, FollowSound, ClockSound, FollowFields, Calm, Route!Starting
  <2>2. FollowSound(h)
    <3> HIDE DEF u
    <3> QED BY <2>1, TerminalSound
  <2>3. ui' = [h EXCEPT !.polling = FALSE]
    BY <1>4 DEF Route!PollArrives
  <2> HIDE DEF h
  <2> QED BY <2>2, <2>3 DEF FollowSound, ClockSound, FollowFields, Calm, Route!Starting
<1>5. ASSUME NEW q \in ui.net, Route!PollFails(q) PROVE FollowSound(ui')
  <2> DEFINE u == [Route!Done(ui, q) EXCEPT !.polling = FALSE, !.crossed = @ \/ q.t # ui.task]
  <2>1. FollowSound(u) /\ (Calm(u) => ~Route!Starting(u))
    BY <1>5 DEF Route!PollFails, Route!Done, FollowSound, ClockSound, FollowFields, Calm, Route!Starting
  <2>2. ui' \in {u, [u EXCEPT !.failures = @ + 1], Route!OnError(Route!DisconnectSSE(u))}
    BY <1>5 DEF Route!PollFails
  <2> HIDE DEF u
  <2>3. FollowSound([u EXCEPT !.failures = @ + 1])
    BY <2>1 DEF FollowSound, ClockSound, FollowFields, Calm, Route!Starting
  <2>4. FollowSound(Route!OnError(Route!DisconnectSSE(u)))
    BY <2>1, EndsSound DEF FollowSound
  <2> QED BY <2>1, <2>2, <2>3, <2>4
<1> QED BY <1>1, <1>2, <1>3, <1>4, <1>5

LEMMA GenerateSound ==
    ASSUME NEW u, FollowSound(u), Calm(u) => Idle(u), NEW x, NEW c
    PROVE  FollowSound(Route!Acted(Route!Asked(Route!ShowProgressSection(u), "worker", x, Route!NoTask, c)))
<1> DEFINE v == Route!ShowProgressSection(u)
           w == Route!Asked(v, "worker", x, Route!NoTask, c)
<1>1. FollowSound(v) /\ (Calm(v) => Idle(v) /\ v.view = "progress" /\ ~v.button)
  BY ProgressShown
<1>2. FollowSound(w)
  <2> HIDE DEF v
  <2> QED BY <1>1, AskedToStart
<1> SUFFICES FollowSound(Route!Acted(w))
  OBVIOUS
<1> HIDE DEF w
<1> QED BY <1>2 DEF Route!Acted, FollowSound, ClockSound, FollowFields, Calm, Route!Starting

LEMMA FollowKept ==
    ASSUME FollowSound(ui), Route!Next
    PROVE  FollowSound(ui')
<1> USE DEF FollowSound, ClockSound, FollowFields, Calm, Route!Starting
<1>1. ASSUME NEW q \in ui.net, Route!Answers(q) PROVE FollowSound(ui')
  <2> HIDE DEF FollowSound, ClockSound, FollowFields, Calm, Route!Starting
  <2> QED BY <1>1, SelectionAnswersSound, GenerationAnswersSound, PollingSound DEF Route!Answers
<1>2. ASSUME NEW a, Route!SelectArea(a) PROVE FollowSound(ui')
  <2> DEFINE u == Route!OnAreaSelect(ui, a)
  <2>1. FollowSound(u)
    <3> HIDE DEF FollowSound, ClockSound, FollowFields, Calm, Route!Starting
    <3> QED BY SelectSound
  <2>2. ui' = Route!Acted(u)
    BY <1>2 DEF Route!SelectArea
  <2> HIDE DEF u
  <2> QED BY <2>1, <2>2 DEF Route!Acted
<1>3. ASSUME NEW t, Route!TaskEnds(t) PROVE FollowSound(ui')
  <2>1. PICK s \in {"completed", "failed", "cancelled"} :
          ui' = [ui EXCEPT !.tasks[t].s = s,
                           !.srv = IF s = "completed" /\ ~ui.tasks[t].cl THEN [@ EXCEPT ![ui.tasks[t].a] = TRUE] ELSE @]
    BY <1>3 DEF Route!TaskEnds
  <2> QED BY <2>1
<1>4. CASE Route!LoadCoverageAreas
  BY <1>4 DEF Route!LoadCoverageAreas, Route!Asked
<1>5. CASE Route!GenerateRoute \/ Route!GenerateClusterRoute
  <2> DEFINE one == [ui EXCEPT !.crossed = @ \/ ui.task # Route!NoTask]
             many == [ui EXCEPT !.cluster = TRUE, !.crossed = @ \/ Route!Busy(ui)]
  <2>1. CASE Route!GenerateRoute
    <3>1. FollowSound(one) /\ (Calm(one) => Idle(one))
      BY <2>1 DEF Route!GenerateRoute, Idle
    <3>2. ui' = Route!Acted(Route!Asked(Route!ShowProgressSection(one), "worker", ui.area, Route!NoTask, FALSE))
      BY <2>1 DEF Route!GenerateRoute
    <3> HIDE DEF one, FollowSound, ClockSound, FollowFields, Calm, Route!Starting
    <3> QED BY <3>1, <3>2, GenerateSound
  <2>2. CASE Route!GenerateClusterRoute
    <3>1. FollowSound(many) /\ (Calm(many) => Idle(many))
      BY DEF Route!Busy, Idle
    <3>2. ui' = Route!Acted(Route!Asked(Route!ShowProgressSection(many), "worker", ui.area, Route!NoTask, TRUE))
      BY <2>2 DEF Route!GenerateClusterRoute
    <3> HIDE DEF many, FollowSound, ClockSound, FollowFields, Calm, Route!Starting
    <3> QED BY <3>1, <3>2, GenerateSound
  <2> QED BY <1>5, <2>1, <2>2
<1>6. CASE Route!StreamMessage \/ Route!StreamEnds \/ Route!PollTick
  <2> HIDE DEF FollowSound, ClockSound, FollowFields, Calm, Route!Starting
  <2> QED BY <1>6, PollingSound
<1>7. CASE Route!CancelTask
  <2> DEFINE u == Route!DisconnectSSE(ui)
             n == [id |-> Route!Fresh(u.net), kind |-> "cancel", a |-> ui.area, t |-> ui.task, cl |-> FALSE]
  <2>1. ClockSound(u) /\ (Calm(u) => ~Route!Starting(u)) /\ u.net = ui.net
    BY <1>7 DEF Route!CancelTask, Route!DisconnectSSE
  <2>2. ui' = [[u EXCEPT !.net = @ \cup {n}] EXCEPT !.steps = @ + 1]
    BY <1>7 DEF Route!CancelTask, Route!Asked, Route!Acted
  <2>3. n.kind = "cancel"
    OBVIOUS
  <2> HIDE DEF u, n
  <2> QED BY <2>1, <2>2, <2>3
<1>8. CASE Route!DrawFrame \/ Route!Destroy
  BY <1>8 DEF Route!DrawFrame, Route!Destroy
<1>9. CASE Route!ReplayAnimation
  BY <1>9 DEF Route!ReplayAnimation, Route!DisplayRoute, Route!Acted
<1>10. CASE Route!DeleteRoute
  BY <1>10 DEF Route!DeleteRoute, Route!Asked, Route!Acted
<1> QED
  <2> HIDE DEF FollowSound, ClockSound, FollowFields, Calm, Route!Starting
  <2> QED BY <1>1, <1>2, <1>3, <1>4, <1>5, <1>6, <1>7, <1>8, <1>9, <1>10 DEF Route!Next

LEMMA FollowStart ==
    ASSUME Route!Init
    PROVE  FollowSound(ui)
<1>1. /\ FollowFields \subseteq DOMAIN ui /\ ui.view = "none" /\ ui.timer = FALSE /\ ui.net = {} /\ ui.task = Route!NoTask
      /\ ui.crossed = FALSE /\ ui.unfollowed = FALSE
  BY DEF Route!Init, FollowFields
<1> QED BY <1>1 DEF FollowSound, ClockSound, Calm, Route!Starting

LEMMA TaskFollowed ==
    ASSUME FollowSound(ui)
    PROVE  Route!TaskIsFollowed
BY DEF FollowSound, ClockSound, Calm, Route!TaskIsFollowed

-----------------------------------------------------------------------------
(* The planner's driving half: who takes the progress away.                *)

DriveFields == {"progress", "hides", "net"}
Reported(net) == \E q \in net : q.kind \in {"streets", "nearest", "to"}

DriveTyped(u) ==
    /\ DriveFields \subseteq DOMAIN u
    /\ u.hides \in Nat
    /\ \A q \in u.net : "kind" \in DOMAIN q

ProgressSound(u) == DriveTyped(u) /\ (u.progress => u.hides > 0 \/ Reported(u.net))

(* Whatever was on show: it is about to go, or an answer is due.           *)
LEMMA ProgressOwned ==
    ASSUME NEW u, DriveTyped(u), NEW k \in {"streets", "nearest", "to"}, NEW a, NEW s
    PROVE  /\ ProgressSound(Drive!Hidden(u)) /\ ProgressSound(Drive!HideLater(u)) /\ ProgressSound(Drive!DisplayRoute(u, s))
           /\ ProgressSound(Drive!Asked(u, k, a, s))
<1>1. ProgressSound(Drive!Hidden(u)) /\ ProgressSound(Drive!HideLater(u))
  BY DEF Drive!Hidden, Drive!HideLater, ProgressSound, DriveTyped, DriveFields, Reported
<1>2. ProgressSound(Drive!DisplayRoute(u, s))
  BY DEF Drive!DisplayRoute, Drive!HideLater, ProgressSound, DriveTyped, DriveFields, Reported
<1>3. ProgressSound(Drive!Asked(u, k, a, s))
  <2> DEFINE n == [id |-> Drive!Fresh(u.net), kind |-> k, a |-> a, sel |-> s, dead |-> FALSE]
  <2>1. Drive!Asked(u, k, a, s) = [u EXCEPT !.net = @ \cup {n}] /\ n.kind = k /\ "kind" \in DOMAIN n
    BY DEF Drive!Asked
  <2> HIDE DEF n
  <2> QED BY <2>1 DEF ProgressSound, DriveTyped, DriveFields, Reported
<1> QED BY <1>1, <1>2, <1>3

(* What asks, aborts and hides.                                            *)
LEMMA DriveHelpersSound ==
    ASSUME NEW u, ProgressSound(u), NEW k, NEW a, NEW s
    PROVE  /\ ProgressSound(Drive!Acted(u)) /\ ProgressSound(Drive!Asked(u, k, a, s)) /\ ProgressSound(Drive!Aborted(u))
           /\ ProgressSound(Drive!Deactivate(u)) /\ ProgressSound(Drive!Simulate(u)) /\ ProgressSound(Drive!ClearRouteUI(u))
           /\ ProgressSound(Drive!AskClusters(u, a)) /\ ProgressSound(Drive!FindRouteToSegment(u, s))
           /\ ProgressSound(Drive!HandleAreaChange(u, a))
<1>1. ASSUME NEW v, ProgressSound(v) PROVE ProgressSound(Drive!Acted(v)) /\ ProgressSound(Drive!ClearRouteUI(v))
  BY <1>1 DEF Drive!Acted, Drive!ClearRouteUI, ProgressSound, DriveTyped, DriveFields, Reported
<1>2. ASSUME NEW v, ProgressSound(v), NEW x, NEW y, NEW z PROVE ProgressSound(Drive!Asked(v, x, y, z))
  BY <1>2 DEF Drive!Asked, ProgressSound, DriveTyped, DriveFields, Reported
<1>3. ASSUME NEW v, ProgressSound(v) PROVE ProgressSound(Drive!Aborted(v))
  <2> DEFINE net == {IF q.kind = "simulate" /\ q.id = v.ctl THEN [q EXCEPT !.dead = TRUE] ELSE q : q \in v.net}
  <2>1. /\ \A q \in net : "kind" \in DOMAIN q
        /\ Reported(v.net) => Reported(net)
    BY <1>3 DEF ProgressSound, DriveTyped, Reported
  <2>2. Drive!Aborted(v) = [v EXCEPT !.net = net, !.ctl = Drive!NoRequest]
    BY DEF Drive!Aborted
  <2> HIDE DEF net
  <2> QED BY <1>3, <2>1, <2>2 DEF ProgressSound, DriveTyped, DriveFields
<1>4. ASSUME NEW v, ProgressSound(v) PROVE ProgressSound(Drive!Deactivate(v))
  <2> DEFINE w == Drive!Aborted(v)
  <2>1. ProgressSound(w)
    BY <1>3, <1>4
  <2>2. Drive!Deactivate(v) = [w EXCEPT !.active = FALSE, !.deb = FALSE, !.sel = {}, !.stats = Drive!NoStats]
    BY DEF Drive!Deactivate
  <2> HIDE DEF w
  <2> QED BY <2>1, <2>2 DEF ProgressSound, DriveTyped, DriveFields
<1>5. ProgressSound(Drive!Simulate(u))
  <2> DEFINE w == Drive!Asked(Drive!Aborted(u), "simulate", u.area, u.sel)
  <2>1. ProgressSound(w)
    BY <1>2, <1>3
  <2>2. \/ Drive!Simulate(u) = [u EXCEPT !.stats = Drive!NoStats]
        \/ Drive!Simulate(u) = [w EXCEPT !.ctl = Drive!Fresh(Drive!Aborted(u).net), !.latest = Drive!Fresh(Drive!Aborted(u).net)]
    BY DEF Drive!Simulate
  <2> HIDE DEF w
  <2> QED BY <2>1, <2>2 DEF ProgressSound, DriveTyped, DriveFields
<1>6. ProgressSound(Drive!AskClusters(u, a))
  <2> DEFINE w == [u EXCEPT !.effOn = FALSE, !.shown = NoArea]
  <2>1. ProgressSound(w)
    BY DEF ProgressSound, DriveTyped, DriveFields
  <2> HIDE DEF w
  <2> QED BY <1>2, <2>1 DEF Drive!AskClusters, w
<1>7. ProgressSound(Drive!FindRouteToSegment(u, s))
  <2> DEFINE w == [u EXCEPT !.findOn = FALSE, !.effOn = FALSE, !.progress = TRUE, !.crossed = @ \/ s[1] # u.area]
  <2>1. DriveTyped(w)
    BY DEF ProgressSound, DriveTyped, DriveFields
  <2>2. Drive!FindRouteToSegment(u, s) \in {u, Drive!Asked(w, "to", u.area, {s})}
    BY DEF Drive!FindRouteToSegment
  <2> HIDE DEF w
  <2> QED BY <2>1, <2>2, ProgressOwned
<1>8. ProgressSound(Drive!HandleAreaChange(u, a))
  <2> DEFINE c == Drive!ClearRouteUI(Drive!Deactivate(u))
             w == [c EXCEPT !.area = a, !.streets = NoArea, !.shown = NoArea, !.findOn = (a # NoArea), !.effOn = (a # NoArea)]
  <2>1. ProgressSound(c)
    BY <1>1, <1>4
  <2>2. ProgressSound(w)
    <3> HIDE DEF c
    <3> QED BY <2>1 DEF ProgressSound, DriveTyped, DriveFields
  <2>3. ProgressSound(Drive!Asked([w EXCEPT !.progress = TRUE], "streets", a, {}))
    <3> DEFINE x == [w EXCEPT !.progress = TRUE]
    <3>1. DriveTyped(x)
      <4> HIDE DEF w
      <4> QED BY <2>2 DEF ProgressSound, DriveTyped, DriveFields
    <3> HIDE DEF x
    <3> QED BY <3>1, ProgressOwned DEF x
  <2>4. Drive!HandleAreaChange(u, a) \in {w, Drive!Asked([w EXCEPT !.progress = TRUE], "streets", a, {})}
    BY DEF Drive!HandleAreaChange
  <2> HIDE DEF w
  <2> QED BY <2>2, <2>3, <2>4
<1> QED BY <1>1, <1>2, <1>3, <1>4, <1>5, <1>6, <1>7, <1>8

(* An answer takes the progress away, now or later.                        *)
LEMMA DriveAnswersSound ==
    ASSUME ProgressSound(ui), NEW q \in ui.net,
           \/ Drive!SimulateArrives(q) \/ Drive!StreetsArrive(q) \/ Drive!NearestArrives(q) \/ Drive!ToArrives(q)
           \/ Drive!PositionArrives(q) \/ Drive!ClustersArrive(q)
    PROVE  ProgressSound(ui')
<1> DEFINE d == Drive!Done(ui, q)
<1>1. DriveTyped(d) /\ (q.kind \notin {"streets", "nearest", "to"} => ProgressSound(d))
  BY DEF Drive!Done, ProgressSound, DriveTyped, DriveFields, Reported
<1> HIDE DEF d
<1> USE DEF ProgressSound, DriveTyped, DriveFields
<1>2. CASE Drive!SimulateArrives(q)
  <2> DEFINE u == [d EXCEPT !.ctl = IF @ = q.id THEN Drive!NoRequest ELSE @]
  <2>1. ProgressSound(u)
    BY <1>1, <1>2 DEF Drive!SimulateArrives
  <2>2. ui' \in {[u EXCEPT !.stats = q.sel, !.failed = FALSE], u, [u EXCEPT !.failed = @ \/ ~q.dead]}
    BY <1>2 DEF Drive!SimulateArrives, d
  <2> HIDE DEF u
  <2> QED BY <2>1, <2>2
<1>3. CASE Drive!StreetsArrive(q)
  <2> DEFINE u == [d EXCEPT !.crossed = Drive!Crossed(ui, q)]
  <2>1. DriveTyped(u) /\ DriveTyped([u EXCEPT !.streets = q.a])
    BY <1>1
  <2>2. ui' \in {Drive!HideLater([u EXCEPT !.streets = q.a]), Drive!Hidden(u)}
    BY <1>3 DEF Drive!StreetsArrive, d
  <2> HIDE DEF u, ProgressSound, DriveTyped, DriveFields
  <2> QED BY <2>1, <2>2, ProgressOwned
<1>4. CASE Drive!NearestArrives(q) \/ Drive!ToArrives(q)
  <2> DEFINE u == [d EXCEPT !.crossed = Drive!Crossed(ui, q), !.findOn = TRUE, !.fetching = FALSE]
             v == [d EXCEPT !.crossed = Drive!Crossed(ui, q), !.findOn = TRUE, !.effOn = TRUE]
  <2>1. DriveTyped(u) /\ DriveTyped(v)
    BY <1>1
  <2>2. ui' \in {Drive!Hidden(u), Drive!Hidden(v)} \/ \E s : ui' \in {Drive!DisplayRoute(u, s), Drive!DisplayRoute(v, s)}
    BY <1>4 DEF Drive!NearestArrives, Drive!ToArrives, d
  <2> HIDE DEF u, v, ProgressSound, DriveTyped, DriveFields
  <2> QED BY <2>1, <2>2, ProgressOwned
<1>5. CASE Drive!PositionArrives(q)
  <2> DEFINE u == [d EXCEPT !.known = TRUE, !.crossed = Drive!Crossed(ui, q)]
  <2>1. ProgressSound(u) /\ ProgressSound(d)
    BY <1>1, <1>5 DEF Drive!PositionArrives
  <2>2. ui' \in {Drive!AskClusters(u, q.a), d}
    BY <1>5 DEF Drive!PositionArrives, d
  <2> HIDE DEF u, ProgressSound, DriveTyped, DriveFields
  <2> QED BY <2>1, <2>2, DriveHelpersSound
<1>6. CASE Drive!ClustersArrive(q)
  <2>1. ProgressSound(d)
    BY <1>1, <1>6 DEF Drive!ClustersArrive
  <2> DEFINE u == [d EXCEPT !.effOn = TRUE]
  <2>2. \/ ui' = u
        \/ \E n \in Streets : ui' = [u EXCEPT !.suggested = <<q.a, n>>, !.shown = q.a, !.details = "clusters",
                                            !.crossed = Drive!Crossed(ui, q), !.prompts = @ \cup {<<q.a, n>>}]
    BY <1>6 DEF Drive!ClustersArrive, d
  <2> QED BY <2>1, <2>2
<1> QED BY <1>2, <1>3, <1>4, <1>5, <1>6

LEMMA ProgressKept ==
    ASSUME ProgressSound(ui), Drive!Next
    PROVE  ProgressSound(ui')
<1> USE DEF ProgressSound, DriveTyped, DriveFields
<1>1. ASSUME NEW s, Drive!ToggleSegment(s) PROVE ProgressSound(ui')
  BY <1>1 DEF Drive!ToggleSegment, Drive!Acted
<1>2. ASSUME NEW s, Drive!NavigateToSegment(s) PROVE ProgressSound(ui')
  <2> HIDE DEF ProgressSound, DriveTyped, DriveFields
  <2> QED BY <1>2, DriveHelpersSound DEF Drive!NavigateToSegment
<1>3. ASSUME NEW s, Drive!PromptAnswered(s) PROVE ProgressSound(ui')
  <2> DEFINE u == [ui EXCEPT !.prompts = @ \ {s}]
  <2>1. ProgressSound(u)
    OBVIOUS
  <2>2. ui' \in {Drive!FindRouteToSegment(u, s), u}
    BY <1>3 DEF Drive!PromptAnswered
  <2> HIDE DEF u, ProgressSound, DriveTyped, DriveFields
  <2> QED BY <2>1, <2>2, DriveHelpersSound
<1>4. ASSUME NEW s, Drive!HydrateSelection(s) PROVE ProgressSound(ui')
  <2> DEFINE u == [ui EXCEPT !.active = TRUE, !.sel = s]
  <2>1. ProgressSound(u)
    OBVIOUS
  <2>2. ui' = Drive!Acted(Drive!Simulate(u))
    BY <1>4 DEF Drive!HydrateSelection
  <2> HIDE DEF u, ProgressSound, DriveTyped, DriveFields
  <2> QED BY <2>1, <2>2, DriveHelpersSound
<1>5. ASSUME NEW a, Drive!SelectArea(a) PROVE ProgressSound(ui')
  <2> DEFINE w == Drive!HandleAreaChange(ui, a)
             u == [w EXCEPT !.crossed = @ \/ ui.prompts # {}]
  <2>1. ProgressSound(w)
    <3> HIDE DEF ProgressSound, DriveTyped, DriveFields
    <3> QED BY DriveHelpersSound
  <2>2. ProgressSound(u)
    <3> HIDE DEF w
    <3> QED BY <2>1
  <2>3. ui' = Drive!Acted(u)
    BY <1>5 DEF Drive!SelectArea
  <2> HIDE DEF u, ProgressSound, DriveTyped, DriveFields
  <2> QED BY <2>2, <2>3, DriveHelpersSound
<1>6. CASE Drive!ToggleSimulation
  <2> DEFINE u == [ui EXCEPT !.active = TRUE, !.sel = {}]
  <2>1. ProgressSound(u)
    OBVIOUS
  <2>2. ui' \in {Drive!Acted(Drive!Deactivate(ui)), Drive!Acted(u)}
    BY <1>6 DEF Drive!ToggleSimulation
  <2> HIDE DEF u, ProgressSound, DriveTyped, DriveFields
  <2> QED BY <2>1, <2>2, DriveHelpersSound
<1>7. CASE Drive!ClearSelection
  <2> DEFINE w == Drive!Aborted(ui)
             u == [w EXCEPT !.deb = FALSE, !.sel = {}, !.stats = Drive!NoStats]
  <2>1. ProgressSound(w)
    <3> HIDE DEF ProgressSound, DriveTyped, DriveFields
    <3> QED BY DriveHelpersSound
  <2>2. ui' = Drive!Acted(u)
    BY <1>7 DEF Drive!ClearSelection
  <2> HIDE DEF w
  <2> QED BY <2>1, <2>2 DEF Drive!Acted
<1>8. CASE Drive!DebounceFires
  <2> DEFINE u == [ui EXCEPT !.deb = FALSE]
  <2>1. ProgressSound(u)
    OBVIOUS
  <2>2. ui' = Drive!Simulate(u)
    BY <1>8 DEF Drive!DebounceFires
  <2> HIDE DEF u, ProgressSound, DriveTyped, DriveFields
  <2> QED BY <2>1, <2>2, DriveHelpersSound
<1>9. CASE Drive!HideFires
  <2> HIDE DEF ProgressSound, DriveTyped, DriveFields
  <2> DEFINE u == Drive!Hidden(ui)
             v == [u EXCEPT !.hides = @ - 1]
  <2>1. DriveFields \subseteq DOMAIN v /\ v.hides = ui.hides - 1 /\ v.net = ui.net /\ v.progress = FALSE
    BY DEF Drive!Hidden, ProgressSound, DriveTyped, DriveFields
  <2>2. ui' = v /\ ui.hides > 0 /\ ui.hides \in Nat
    BY <1>9 DEF Drive!HideFires, ProgressSound, DriveTyped
  <2> HIDE DEF v
  <2> QED BY <2>1, <2>2 DEF ProgressSound, DriveTyped
<1>13. CASE Drive!HandleLiveTrackingUpdate \/ Drive!RequestClusterRoute
  BY <1>13 DEF Drive!HandleLiveTrackingUpdate, Drive!RequestClusterRoute, Drive!Acted
<1>10. CASE Drive!FindAndDisplayRoute
  <2> DEFINE u == [Drive!ClearRouteUI(ui) EXCEPT !.fetching = TRUE, !.findOn = FALSE, !.progress = TRUE]
  <2>1. DriveTyped(u)
    BY DEF Drive!ClearRouteUI
  <2>2. ui' = Drive!Acted(Drive!Asked(u, "nearest", ui.area, {}))
    BY <1>10 DEF Drive!FindAndDisplayRoute
  <2> HIDE DEF u, ProgressSound, DriveTyped, DriveFields
  <2> QED BY <2>1, <2>2, ProgressOwned, DriveHelpersSound
<1>11. CASE Drive!FindEfficientStreetClusters
  <2> HIDE DEF ProgressSound, DriveTyped, DriveFields
  <2> QED BY <1>11, DriveHelpersSound DEF Drive!FindEfficientStreetClusters
<1>12. CASE Drive!Destroy
  <2> DEFINE u == Drive!Deactivate(ui)
  <2>1. ProgressSound(u)
    <3> HIDE DEF ProgressSound, DriveTyped, DriveFields
    <3> QED BY DriveHelpersSound
  <2>2. ui' = [u EXCEPT !.on = FALSE, !.shown = NoArea]
    BY <1>12 DEF Drive!Destroy
  <2> HIDE DEF u
  <2> QED BY <2>1, <2>2
<1> HIDE DEF ProgressSound, DriveTyped, DriveFields
<1> QED BY <1>1, <1>2, <1>3, <1>4, <1>5, <1>6, <1>7, <1>8, <1>9, <1>10, <1>11, <1>12, <1>13, DriveAnswersSound DEF Drive!Next

LEMMA ProgressStart ==
    ASSUME Drive!Init
    PROVE  ProgressSound(ui)
BY DEF Drive!Init, ProgressSound, DriveTyped, DriveFields

LEMMA ProgressIsOwned ==
    ASSUME ProgressSound(ui)
    PROVE  Drive!ProgressEnds
BY DEF ProgressSound, Reported, Drive!ProgressEnds

-----------------------------------------------------------------------------
(* Live navigation: what a generation under way waits for.                 *)

HeardFields == {"st", "area", "source", "open", "loads", "starts", "cancels", "crossed", "stuck"}

(* An open source is the one listened to; a start is asked for an area.    *)
SourceSound(u) ==
    /\ HeardFields \subseteq DOMAIN u
    /\ u.crossed \in BOOLEAN /\ u.stuck \in BOOLEAN
    /\ u.open \subseteq Navigation!Tasks
    /\ \A r \in u.starts : r.of # NoArea
    /\ ~u.crossed => u.open \subseteq {u.source}

(* What generates has an area it is for, and a source, a cancellation, a   *)
(* load or a start on its way.                                             *)
HeardSound(u) ==
    /\ SourceSound(u)
    /\ ~u.crossed /\ u.st = "generating" =>
        /\ u.area # NoArea
        /\ ~u.stuck => u.source \in u.open \/ u.cancels # {} \/ u.loads # {} \/ u.starts # {}

(* What generates nothing, or asks for something.                          *)
LEMMA HeardHelpersSound ==
    ASSUME NEW u, HeardSound(u), NEW s, s # "generating", NEW p
    PROVE  /\ HeardSound(Navigation!Acted(u)) /\ HeardSound(Navigation!TransitionTo(u, s))
           /\ HeardSound(Navigation!ResetCoverage(u)) /\ HeardSound(Navigation!ResetRouteState(u))
           /\ Navigation!ResetRouteState(u).st = "setup"
           /\ HeardSound(Navigation!PersistDrivenSegments(u)) /\ HeardSound(Navigation!MarkSegmentsDriven(u, p))
           /\ HeardSound(Navigation!AutoGenerateRoute(u)) /\ HeardSound(Navigation!LoadRoute(u))
           /\ HeardSound(Navigation!StartNavigation(u)) /\ HeardSound(Navigation!StartGeolocation(u))
<1> USE DEF HeardSound, SourceSound, HeardFields
<1>1. HeardSound(Navigation!Acted(u)) /\ HeardSound(Navigation!StartNavigation(u)) /\ HeardSound(Navigation!StartGeolocation(u))
  BY DEF Navigation!Acted, Navigation!StartNavigation, Navigation!StartGeolocation
<1>2. HeardSound(Navigation!TransitionTo(u, s))
  BY DEF Navigation!TransitionTo
<1>3. HeardSound(Navigation!ResetCoverage(u))
  BY DEF Navigation!ResetCoverage
<1>4. HeardSound(Navigation!ResetRouteState(u)) /\ Navigation!ResetRouteState(u).st = "setup"
  BY ZenonT(30) DEF Navigation!ResetRouteState, Navigation!ResetCoverage
<1>5. HeardSound(Navigation!PersistDrivenSegments(u))
  BY DEF Navigation!PersistDrivenSegments
<1>6. HeardSound(Navigation!MarkSegmentsDriven(u, p))
  BY DEF Navigation!MarkSegmentsDriven, Navigation!QueueSegmentPersistence
<1>7. HeardSound(Navigation!AutoGenerateRoute(u))
  BY DEF Navigation!AutoGenerateRoute
<1>8. HeardSound(Navigation!LoadRoute(u))
  BY DEF Navigation!LoadRoute
<1> QED BY <1>1, <1>2, <1>3, <1>4, <1>5, <1>6, <1>7, <1>8

(* What a cancellation leaves generates nothing.                           *)
LEMMA HeardCancelled ==
    ASSUME NEW v, SourceSound(v), NEW b, NEW to
    PROVE  HeardSound(Navigation!AfterCancel(v, b, to))
<1> DEFINE x == IF v.st = "generating" THEN Navigation!TransitionTo(v, "setup") ELSE v
           y == Navigation!ResetRouteState(x)
           z == [y EXCEPT !.area = to]
<1>1. HeardSound(x)
  BY DEF HeardSound, SourceSound, HeardFields, Navigation!TransitionTo
<1>2. Navigation!AfterCancel(v, b, to) \in {Navigation!LoadRoute(z), x}
  BY DEF Navigation!AfterCancel
<1> HIDE DEF x
<1>3. HeardSound(y) /\ y.st = "setup"
  BY <1>1, HeardHelpersSound
<1> HIDE DEF y
<1>4. HeardSound(z)
  BY <1>3 DEF HeardSound, SourceSound, HeardFields
<1> HIDE DEF z
<1> QED BY <1>1, <1>2, <1>4, HeardHelpersSound

LEMMA HeardCancelling ==
    ASSUME NEW u, HeardSound(u), NEW b, NEW to
    PROVE  HeardSound(Navigation!CancelGeneration(u, b, to))
<1> DEFINE x == Navigation!Closed(u, u.source)
           v == [x EXCEPT !.source = 0]
           n == [id |-> u.steps, task |-> v.task, change |-> b, to |-> to]
           w == [v EXCEPT !.cancels = @ \cup {n}]
<1>1. Navigation!CancelGeneration(u, b, to) \in {Navigation!AfterCancel(v, b, to), w}
  BY DEF Navigation!CancelGeneration
<1>2. SourceSound(v) /\ v.crossed = u.crossed /\ v.st = u.st /\ v.area = u.area
  BY DEF HeardSound, SourceSound, HeardFields, Navigation!Closed
<1> HIDE DEF v, n
<1>3. HeardSound(w)
  BY <1>2 DEF HeardSound, SourceSound, HeardFields
<1> HIDE DEF w
<1> QED BY <1>1, <1>2, <1>3, HeardCancelled

LEMMA HeardGenerating ==
    ASSUME HeardSound(ui), Navigation!Generating
    PROVE  HeardSound(ui')
<1>1. ASSUME NEW r \in ui.starts, Navigation!GenerationRefused(r) PROVE HeardSound(ui')
  BY <1>1 DEF Navigation!GenerationRefused, Navigation!TransitionTo, HeardSound, SourceSound, HeardFields
<1>2. ASSUME NEW r \in ui.starts, NEW t \in Navigation!Tasks, Navigation!GenerationStarted(r, t)
      PROVE  HeardSound(ui')
  <2> DEFINE u == [ui EXCEPT !.starts = @ \ {r}, !.made[t] = r.of,
                             !.crossed = @ \/ ui.source # 0 \/ ui.area # r.of, !.late = @ \/ ui.left]
             l == Navigation!Listen(u, t)
             crossed == ui.crossed \/ ui.source # 0 \/ ui.area # r.of
  <2>1. ui' = Navigation!TransitionTo(l, "generating")
    BY <1>2 DEF Navigation!GenerationStarted
  <2>2. /\ HeardFields \subseteq DOMAIN l /\ l.source = t /\ l.open = ui.open \cup {t} /\ l.area = ui.area
        /\ l.crossed = crossed /\ l.stuck = ui.stuck /\ l.starts \subseteq ui.starts
    BY DEF HeardSound, SourceSound, HeardFields, Navigation!Listen
  <2> HIDE DEF l
  <2>3. /\ HeardFields \subseteq DOMAIN ui' /\ ui'.source = l.source /\ ui'.open = l.open /\ ui'.area = l.area
        /\ ui'.crossed = l.crossed /\ ui'.stuck = l.stuck /\ ui'.starts = l.starts
    BY <2>1, <2>2 DEF Navigation!TransitionTo, HeardFields
  <2>4. 0 \notin Navigation!Tasks
    BY DEF Navigation!Tasks
  <2>5. ~crossed => ui.open = {} /\ ui.area # NoArea
    BY <2>4 DEF HeardSound, SourceSound
  <2>6. crossed \in BOOLEAN
    BY DEF HeardSound, SourceSound
  <2> HIDE DEF crossed
  <2> QED BY <2>2, <2>3, <2>5, <2>6 DEF HeardSound, SourceSound
<1>3. ASSUME NEW t \in Navigation!Tasks, Navigation!ConnectionLost(t) PROVE HeardSound(ui')
  BY <1>3 DEF Navigation!ConnectionLost, HeardSound, SourceSound, HeardFields
<1>4. ASSUME NEW t \in Navigation!Tasks, Navigation!GenerationComplete(t) \/ Navigation!GenerationError(t)
      PROVE  HeardSound(ui')
  <2> DEFINE x == Navigation!Closed(ui, t)
             v == [x EXCEPT !.task = 0, !.source = 0]
  <2>1. t \in ui.open /\ ui' \in {Navigation!LoadRoute(v), Navigation!TransitionTo(v, "setup")}
    BY <1>4 DEF Navigation!GenerationComplete, Navigation!GenerationError
  <2>2. SourceSound(v) /\ v.crossed = ui.crossed /\ v.st = ui.st /\ v.area = ui.area
    BY <2>1 DEF HeardSound, SourceSound, HeardFields, Navigation!Closed
  <2> HIDE DEF v
  <2>3. v.st = "generating" /\ ~v.crossed => v.area # NoArea
    BY <2>2 DEF HeardSound
  <2>4. HeardSound(Navigation!LoadRoute(v))
    BY <2>2, <2>3 DEF Navigation!LoadRoute, HeardSound, SourceSound, HeardFields
  <2>5. HeardSound(Navigation!TransitionTo(v, "setup"))
    BY <2>2 DEF Navigation!TransitionTo, HeardSound, SourceSound, HeardFields
  <2> QED BY <2>1, <2>4, <2>5
<1>5. ASSUME NEW c \in ui.cancels, Navigation!Cancelled(c) PROVE HeardSound(ui')
  <2> DEFINE v == [ui EXCEPT !.cancels = @ \ {c}, !.task = 0, !.crossed = @ \/ ui.task # c.task \/ ui.source # 0]
  <2>1. SourceSound(v)
    BY DEF HeardSound, SourceSound, HeardFields
  <2>2. ui' = Navigation!AfterCancel(v, c.change, c.to)
    BY <1>5 DEF Navigation!Cancelled
  <2> HIDE DEF v
  <2> QED BY <1>5, <2>1, <2>2, HeardCancelled
<1> QED BY <1>1, <1>2, <1>3, <1>4, <1>5 DEF Navigation!Generating

LEMMA HeardSaved ==
    ASSUME HeardSound(ui), Navigation!Saving
    PROVE  HeardSound(ui')
<1>1. CASE Navigation!DebounceEnds \/ Navigation!RetryTimer
  <2> DEFINE u == [ui EXCEPT !.cov.debounce = FALSE]
             v == [ui EXCEPT !.cov.retry = FALSE]
  <2>1. HeardSound(u) /\ HeardSound(v)
    BY DEF HeardSound, SourceSound, HeardFields
  <2>2. ui' \in {Navigation!PersistDrivenSegments(u), Navigation!PersistDrivenSegments(v)}
    BY <1>1 DEF Navigation!DebounceEnds, Navigation!RetryTimer
  <2> HIDE DEF u, v
  <2> QED BY <2>1, <2>2, HeardHelpersSound
<1>2. ASSUME NEW p \in ui.puts, Navigation!PersistDone(p) PROVE HeardSound(ui')
  BY <1>2 DEF Navigation!PersistDone, HeardSound, SourceSound, HeardFields
<1>3. ASSUME NEW p \in ui.puts, Navigation!PersistFails(p) PROVE HeardSound(ui')
  <2> DEFINE n == ui.cov.fails + 1
             u == [ui EXCEPT !.puts = @ \ {p}, !.cov.pend = @ \cup p.segs, !.dropped = @ \ p.segs,
                             !.cov.fails = IF n > MaxPersistRetries THEN @ ELSE n]
  <2>1. HeardSound(u)
    BY DEF HeardSound, SourceSound, HeardFields
  <2>2. ui' \in {[u EXCEPT !.cov.retry = FALSE], [u EXCEPT !.cov.retry = TRUE]}
    BY <1>3 DEF Navigation!PersistFails
  <2> HIDE DEF u
  <2> QED BY <2>1, <2>2 DEF HeardSound, SourceSound, HeardFields
<1> QED BY <1>1, <1>2, <1>3 DEF Navigation!Saving

LEMMA HeardLoads ==
    ASSUME HeardSound(ui), NEW l \in ui.loads,
           \/ Navigation!AreaArrives(l) \/ Navigation!RouteArrives(l) \/ Navigation!SegmentsSettled(l)
           \/ Navigation!EtaArrives(l) \/ Navigation!LoadFails(l)
    PROVE  HeardSound(ui')
<1>1. ASSUME NEW m, NEW at, NEW u, SourceSound(u), u.st = "generating" /\ ~u.crossed => u.area # NoArea
      PROVE  HeardSound(Navigation!On(m, at, u))
  BY <1>1 DEF Navigation!On, HeardSound, SourceSound, HeardFields
<1>9. ASSUME NEW u, SourceSound(u), u.st = "generating" /\ ~u.crossed => u.area # NoArea
      PROVE  HeardSound(Navigation!AutoGenerateRoute(u))
  <2> DEFINE r == [id |-> u.steps, of |-> u.area]
             v == [u EXCEPT !.starts = @ \cup {r}]
  <2>1. CASE u.area = NoArea
    BY <1>9, <2>1 DEF Navigation!AutoGenerateRoute, HeardSound
  <2>2. CASE u.area # NoArea
    <3>1. Navigation!AutoGenerateRoute(u) = v /\ r.of # NoArea
      BY <2>2 DEF Navigation!AutoGenerateRoute
    <3> HIDE DEF r
    <3> QED BY <1>9, <2>2, <3>1 DEF HeardSound, SourceSound, HeardFields
  <2> QED BY <2>1, <2>2
<1> DEFINE none == [ui EXCEPT !.loads = @ \ {l}]
<1>2. SourceSound(none) /\ none.st = ui.st /\ none.area = ui.area /\ none.crossed = ui.crossed /\ none.stuck = ui.stuck
  BY DEF HeardSound, SourceSound, HeardFields
<1>3. none.st = "generating" /\ ~none.crossed => none.area # NoArea
  BY <1>2 DEF HeardSound
<1>4. CASE Navigation!AreaArrives(l)
  <2>1. ui' \in {Navigation!On([l EXCEPT !.base = l.of], "route", none), Navigation!AutoGenerateRoute(none)}
    BY <1>4 DEF Navigation!AreaArrives
  <2> HIDE DEF none
  <2>2. HeardSound(Navigation!AutoGenerateRoute(none))
    BY <1>2, <1>3, <1>9
  <2> QED BY <1>1, <1>2, <1>3, <2>1, <2>2
<1>5. CASE Navigation!RouteArrives(l)
  <2> DEFINE u == [ui EXCEPT !.route = l.of, !.base = l.base, !.loaded = TRUE, !.line = l.of]
             v == [u EXCEPT !.cov.area = u.area]
             w == Navigation!ResetCoverage(v)
  <2>1. HeardSound(v)
    BY DEF HeardSound, SourceSound, HeardFields
  <2>2. ui' = Navigation!On(l, "segments", w)
    BY <1>5 DEF Navigation!RouteArrives
  <2> HIDE DEF v
  <2>3. HeardSound(w)
    BY <2>1, HeardHelpersSound
  <2> HIDE DEF w
  <2> QED BY <1>1, <2>2, <2>3 DEF HeardSound
<1>6. CASE Navigation!SegmentsSettled(l)
  <2> PICK segs : ui' = Navigation!On(l, "eta", [ui EXCEPT !.cov.und = @ \cup segs])
    BY <1>6 DEF Navigation!SegmentsSettled
  <2> DEFINE u == [ui EXCEPT !.cov.und = @ \cup segs]
  <2>1. HeardSound(u)
    BY DEF HeardSound, SourceSound, HeardFields
  <2> HIDE DEF u
  <2> QED BY <1>1, <2>1 DEF HeardSound, u
<1>7. CASE Navigation!EtaArrives(l)
  BY <1>7 DEF Navigation!EtaArrives, Navigation!TransitionTo, HeardSound, SourceSound, HeardFields
<1>8. CASE Navigation!LoadFails(l)
  <2> DEFINE u == [ui EXCEPT !.loads = @ \ {l}, !.loaded = FALSE, !.line = NoArea]
             s == [u EXCEPT !.stuck = @ \/ u.st = "generating"]
             i == [u EXCEPT !.area = NoArea]
             r == Navigation!ResetRouteState(i)
  <2>1. ui' \in {s, r, Navigation!AutoGenerateRoute(u)}
    BY <1>8 DEF Navigation!LoadFails, Navigation!InvalidateSelectedArea
  <2>2. /\ SourceSound(u) /\ u.st = ui.st /\ u.area = ui.area /\ u.crossed = ui.crossed /\ u.stuck = ui.stuck
        /\ SourceSound(i)
    BY DEF HeardSound, SourceSound, HeardFields
  <2>3. u.st = "generating" /\ ~u.crossed => u.area # NoArea
    BY <2>2 DEF HeardSound
  <2> HIDE DEF u
  <2>4. HeardSound(s)
    BY <2>2, <2>3 DEF HeardSound, SourceSound, HeardFields
  <2>5. HeardSound(Navigation!AutoGenerateRoute(u))
    BY <2>2, <2>3, <1>9
  <2> HIDE DEF i
  <2>6. HeardSound(r)
    BY <2>2, ZenonT(60) DEF Navigation!ResetRouteState, Navigation!ResetCoverage, HeardSound, SourceSound, HeardFields
  <2> QED BY <2>1, <2>4, <2>5, <2>6
<1> QED BY <1>4, <1>5, <1>6, <1>7, <1>8

LEMMA HeardLoading ==
    ASSUME HeardSound(ui), Navigation!Loading
    PROVE  HeardSound(ui')
<1>1. ASSUME NEW c \in ui.checks, Navigation!PositionUnknown(c) \/ Navigation!WayArrives(c) \/ \E b \in BOOLEAN : Navigation!PositionKnown(c, b)
      PROVE  HeardSound(ui')
  BY <1>1 DEF Navigation!PositionUnknown, Navigation!WayArrives, Navigation!PositionKnown, HeardSound, SourceSound, HeardFields
<1>2. ASSUME NEW e \in ui.ends, Navigation!EndSaved(e) \/ Navigation!EndRefreshed(e) PROVE HeardSound(ui')
  BY <1>2 DEF Navigation!EndSaved, Navigation!EndRefreshed, HeardSound, SourceSound, HeardFields
<1>3. CASE Navigation!WayToStartArrives
  <2> DEFINE u == [ui EXCEPT !.leads = @ - 1, !.late = @ \/ ui.left \/ ~ui.loaded]
             v == Navigation!TransitionTo(u, "to_start")
             w == [v EXCEPT !.nav = TRUE]
  <2>1. HeardSound(u)
    BY DEF HeardSound, SourceSound, HeardFields
  <2>2. ui' = Navigation!StartGeolocation(w)
    BY <1>3 DEF Navigation!WayToStartArrives, Navigation!LeadToStart
  <2> HIDE DEF u
  <2>3. HeardSound(v)
    BY <2>1, HeardHelpersSound
  <2> HIDE DEF v
  <2>4. HeardSound(w)
    BY <2>3 DEF HeardSound, SourceSound, HeardFields
  <2> HIDE DEF w
  <2> QED BY <2>2, <2>4, HeardHelpersSound
<1>4. CASE Navigation!OfferAnswered
  <2> DEFINE u == [ui EXCEPT !.offers = @ - 1, !.late = @ \/ ~ui.nav]
             v == [u EXCEPT !.resume = TRUE]
  <2>1. HeardSound(u)
    BY DEF HeardSound, SourceSound, HeardFields
  <2>2. \/ ui' = Navigation!TransitionTo(v, "ahead")
        \/ ui' = Navigation!TransitionTo(u, "off_route")
    BY <1>4 DEF Navigation!OfferAnswered
  <2> HIDE DEF u
  <2>3. HeardSound(v)
    BY <2>1 DEF HeardSound, SourceSound, HeardFields
  <2> HIDE DEF v
  <2> QED BY <2>1, <2>2, <2>3, HeardHelpersSound
<1>5. CASE Navigation!StartTimer
  <2> DEFINE u == [ui EXCEPT !.timer = FALSE]
  <2>1. HeardSound(u)
    BY DEF HeardSound, SourceSound, HeardFields
  <2>2. ui' = IF u.st = "at_start" THEN Navigation!TransitionTo(u, "active") ELSE u
    BY <1>5 DEF Navigation!StartTimer
  <2> HIDE DEF u
  <2> QED BY <2>1, <2>2, HeardHelpersSound
<1>6. CASE Navigation!HandleGeolocationError
  BY <1>6 DEF Navigation!HandleGeolocationError, HeardSound, SourceSound, HeardFields
<1> QED BY <1>1, <1>2, <1>3, <1>4, <1>5, <1>6, HeardLoads DEF Navigation!Loading

LEMMA HeardActs ==
    ASSUME HeardSound(ui), Navigation!Acts
    PROVE  HeardSound(ui')
<1>1. CASE Navigation!ClickLoad
  <2> DEFINE u == Navigation!LoadRoute(ui)
  <2>1. HeardSound(u)
    BY HeardHelpersSound
  <2>2. ui' = Navigation!Acted(u)
    BY <1>1 DEF Navigation!ClickLoad
  <2> HIDE DEF u
  <2> QED BY <2>1, <2>2, HeardHelpersSound
<1>2. CASE Navigation!ClickCancel
  <2> DEFINE u == Navigation!CancelGeneration(ui, FALSE, NoArea)
  <2>1. HeardSound(u)
    BY HeardCancelling
  <2>2. ui' = Navigation!Acted(u)
    BY <1>2 DEF Navigation!ClickCancel
  <2> HIDE DEF u
  <2> QED BY <2>1, <2>2, HeardHelpersSound
<1>3. CASE Navigation!RegenerateRoute
  <2> DEFINE u == Navigation!ResetRouteState(ui)
             v == Navigation!AutoGenerateRoute(u)
  <2>1. HeardSound(u)
    BY HeardHelpersSound
  <2>2. ui' = Navigation!Acted(v)
    BY <1>3 DEF Navigation!RegenerateRoute
  <2> HIDE DEF u
  <2>3. HeardSound(v)
    BY <2>1, HeardHelpersSound
  <2> HIDE DEF v
  <2> QED BY <2>2, <2>3, HeardHelpersSound
<1>4. ASSUME NEW a, Navigation!HandleAreaChange(a) PROVE HeardSound(ui')
  <2> DEFINE u == [ui EXCEPT !.crossed = @ \/ ui.cancels # {}]
             v == Navigation!CancelGeneration(u, TRUE, a)
  <2>1. HeardSound(u)
    BY DEF HeardSound, SourceSound, HeardFields
  <2>2. ui' = Navigation!Acted(v)
    BY <1>4 DEF Navigation!HandleAreaChange
  <2> HIDE DEF u
  <2>3. HeardSound(v)
    BY <2>1, HeardCancelling
  <2> HIDE DEF v
  <2> QED BY <2>2, <2>3, HeardHelpersSound
<1>5. CASE Navigation!StartNavigatingToStart
  <2> DEFINE u == Navigation!TransitionTo(ui, "to_start")
             v == [u EXCEPT !.nav = TRUE]
             w == Navigation!StartGeolocation(v)
             x == [ui EXCEPT !.leads = @ + 1]
  <2>1. HeardSound(u)
    BY HeardHelpersSound
  <2>2. HeardSound(x)
    BY DEF HeardSound, SourceSound, HeardFields
  <2>3. ui' \in {Navigation!Acted(w), Navigation!Acted(x)}
    BY <1>5 DEF Navigation!StartNavigatingToStart, Navigation!LeadToStart
  <2> HIDE DEF u, x
  <2>4. HeardSound(v)
    BY <2>1 DEF HeardSound, SourceSound, HeardFields
  <2> HIDE DEF v
  <2>5. HeardSound(w)
    BY <2>4, HeardHelpersSound
  <2> HIDE DEF w
  <2> QED BY <2>2, <2>3, <2>5, HeardHelpersSound
<1>6. ASSUME NEW gps, Navigation!BeginNavigation(gps) PROVE HeardSound(ui')
  <2> DEFINE u == Navigation!TransitionTo(ui, "active")
             v == Navigation!StartNavigation(u)
             w == Navigation!StartGeolocation(v)
  <2>1. HeardSound(u)
    BY HeardHelpersSound
  <2>2. ui' \in {Navigation!Acted(v), Navigation!Acted(w)}
    BY <1>6 DEF Navigation!BeginNavigation
  <2> HIDE DEF u
  <2>3. HeardSound(v)
    BY <2>1, HeardHelpersSound
  <2> HIDE DEF v
  <2>4. HeardSound(w)
    BY <2>3, HeardHelpersSound
  <2> HIDE DEF w
  <2> QED BY <2>2, <2>3, <2>4, HeardHelpersSound
<1>7. ASSUME NEW f, NEW segs, Navigation!UpdateNavigation(f, segs) PROVE HeardSound(ui')
  <2> DEFINE v == Navigation!Acted(ui)
             u == Navigation!MarkSegmentsDriven(v, segs)
             x == Navigation!TransitionTo(u, "at_start")
             h == Navigation!HandleNavigationStateTransitions(u, f)
  <2>1. HeardSound(v)
    BY HeardHelpersSound
  <2>2. ui' \in {[x EXCEPT !.timer = TRUE], u, [h EXCEPT !.prev = f]}
    BY <1>7 DEF Navigation!UpdateNavigation
  <2> HIDE DEF v
  <2>3. HeardSound(u)
    BY <2>1, HeardHelpersSound
  <2> HIDE DEF u
  <2>4. HeardSound(x)
    BY <2>3, HeardHelpersSound
  <2> HIDE DEF x
  <2>5. HeardSound([u EXCEPT !.offers = @ + 1])
    BY <2>3 DEF HeardSound, SourceSound, HeardFields
  <2>6. h \in {u, [u EXCEPT !.offers = @ + 1], Navigation!TransitionTo(u, "arrived"),
              Navigation!TransitionTo(u, "off_route"), Navigation!TransitionTo(u, "active")}
    BY DEF Navigation!HandleNavigationStateTransitions, Navigation!OfferResumeFromAhead
  <2> HIDE DEF h
  <2>7. HeardSound(h)
    BY <2>3, <2>5, <2>6, HeardHelpersSound
  <2>8. HeardSound([x EXCEPT !.timer = TRUE]) /\ HeardSound([h EXCEPT !.prev = f])
    BY <2>4, <2>7 DEF HeardSound, SourceSound, HeardFields
  <2> QED BY <2>2, <2>3, <2>8
<1>8. CASE Navigation!ResumeFromAhead \/ Navigation!DismissResumePrompt
  <2> DEFINE u == [ui EXCEPT !.resume = FALSE]
             v == Navigation!TransitionTo(u, "active")
             w == Navigation!TransitionTo(u, "off_route")
  <2>1. HeardSound(u)
    BY DEF HeardSound, SourceSound, HeardFields
  <2>2. ui' \in {Navigation!Acted(v), Navigation!Acted(w)}
    BY <1>8 DEF Navigation!ResumeFromAhead, Navigation!DismissResumePrompt
  <2> HIDE DEF u
  <2>3. HeardSound(v) /\ HeardSound(w)
    BY <2>1, HeardHelpersSound
  <2> HIDE DEF v, w
  <2> QED BY <2>2, <2>3, HeardHelpersSound
<1>9. CASE Navigation!EndNavigation
  <2> DEFINE x == [ui EXCEPT !.nav = FALSE, !.watch = FALSE]
             y == Navigation!TransitionTo(x, "setup")
             u == Navigation!PersistDrivenSegments(y)
             n == [id |-> u.steps, at |-> "save", of |-> NoArea]
             v == [u EXCEPT !.ends = @ \cup {n}]
  <2>1. HeardSound(x)
    BY DEF HeardSound, SourceSound, HeardFields
  <2>2. ui' = Navigation!Acted(v)
    BY <1>9 DEF Navigation!EndNavigation
  <2> HIDE DEF x, n
  <2>3. HeardSound(y)
    BY <2>1, HeardHelpersSound
  <2> HIDE DEF y
  <2>4. HeardSound(u)
    BY <2>3, HeardHelpersSound
  <2> HIDE DEF u
  <2>5. HeardSound(v)
    BY <2>4 DEF HeardSound, SourceSound, HeardFields
  <2> HIDE DEF v
  <2> QED BY <2>2, <2>5, HeardHelpersSound
<1>10. CASE Navigation!ThemeChanges
  BY <1>10 DEF Navigation!ThemeChanges, Navigation!Acted, HeardSound, SourceSound, HeardFields
<1>11. CASE Navigation!Leave
  <2> DEFINE x == Navigation!CancelGeneration(ui, FALSE, NoArea)
             y == [x EXCEPT !.left = TRUE]
             z == Navigation!PersistDrivenSegments(y)
  <2>1. HeardSound(x)
    BY HeardCancelling
  <2>2. ui' = Navigation!ResetRouteState(z)
    BY <1>11 DEF Navigation!Leave
  <2> HIDE DEF x
  <2>3. HeardSound(y)
    BY <2>1 DEF HeardSound, SourceSound, HeardFields
  <2> HIDE DEF y
  <2>4. HeardSound(z)
    BY <2>3, HeardHelpersSound
  <2> HIDE DEF z
  <2> QED BY <2>2, <2>4, HeardHelpersSound
<1>12. CASE Navigation!ShowSetup
  <2> DEFINE u == Navigation!TransitionTo(ui, "setup")
  <2>1. HeardSound(u)
    BY HeardHelpersSound
  <2>2. ui' = Navigation!Acted(u)
    BY <1>12 DEF Navigation!ShowSetup
  <2> HIDE DEF u
  <2> QED BY <2>1, <2>2, HeardHelpersSound
<1> QED BY <1>1, <1>2, <1>3, <1>4, <1>5, <1>6, <1>7, <1>8, <1>9, <1>10, <1>11, <1>12 DEF Navigation!Acts

LEMMA HeardKept ==
    ASSUME HeardSound(ui), Navigation!Next
    PROVE  HeardSound(ui')
BY HeardSaved, HeardGenerating, HeardLoading, HeardActs DEF Navigation!Next

(* An area of an earlier visit is loaded at once, its task listened to.    *)
LEMMA HeardStart ==
    ASSUME Navigation!Init
    PROVE  HeardSound(ui)
<1>1. HeardSound(Navigation!Fresh)
  BY DEF Navigation!Fresh, HeardSound, SourceSound, HeardFields
<1>2. CASE ui = Navigation!Fresh
  BY <1>1, <1>2
<1>3. CASE ui # Navigation!Fresh
  <2> DEFINE a == CHOOSE x \in Areas : TRUE
             u == [Navigation!Fresh EXCEPT !.area = a]
             m == [u EXCEPT !.made[1] = a]
             l == Navigation!Listen(m, 1)
  <2>1. ui \in {Navigation!LoadRoute(u), Navigation!TransitionTo(l, "generating"),
                Navigation!Driving(a, "active"), Navigation!Driving(a, "to_start")}
    BY <1>3 DEF Navigation!Init
  <2>2. a \in Areas
    BY <1>3 DEF Navigation!Init
  <2>3. a # NoArea
    BY <2>2, AbsenceAssumption, NavigationAssumption
  <2> HIDE DEF a
  <2>4. HeardSound(u)
    BY DEF Navigation!Fresh, HeardSound, SourceSound, HeardFields
  <2>5. /\ HeardFields \subseteq DOMAIN l /\ l.area = a /\ l.source = 1 /\ l.open = {1} /\ l.starts = {}
        /\ l.crossed = FALSE /\ l.stuck = FALSE
    BY DEF Navigation!Fresh, Navigation!Listen, HeardFields
  <2> HIDE DEF l
  <2>6. 1 \in Navigation!Tasks
    BY NavigationAssumption DEF Navigation!Tasks
  <2>7. HeardSound(Navigation!TransitionTo(l, "generating"))
    BY <2>3, <2>5, <2>6 DEF Navigation!TransitionTo, HeardSound, SourceSound, HeardFields
  <2> DEFINE f == Navigation!Fresh
  <2>8. HeardFields \subseteq DOMAIN f /\ f.open = {} /\ f.starts = {} /\ f.crossed = FALSE /\ f.stuck = FALSE
    BY DEF Navigation!Fresh, HeardFields
  <2>9. ASSUME NEW st, st # "generating" PROVE HeardSound(Navigation!Driving(a, st))
    <3> DEFINE d == [f EXCEPT !.area = a, !.st = st, !.panel = st, !.smart = a, !.loaded = TRUE, !.route = a,
                              !.base = a, !.line = a, !.cov.area = a, !.cov.und = Navigation!SegmentsOf(a),
                              !.nav = TRUE, !.watch = TRUE, !.prev = "on"]
    <3>1. Navigation!Driving(a, st) = d
      BY DEF Navigation!Driving
    <3> HIDE DEF f
    <3>2. HeardFields \subseteq DOMAIN d /\ d.st = st /\ d.open = {} /\ d.starts = {} /\ d.crossed = FALSE /\ d.stuck = FALSE
      BY <2>8 DEF HeardFields
    <3> HIDE DEF d
    <3> QED BY <2>9, <3>1, <3>2 DEF HeardSound, SourceSound
  <2> HIDE DEF u
  <2> QED BY <2>1, <2>4, <2>7, <2>9, HeardHelpersSound
<1> QED BY <1>2, <1>3

LEMMA GenerationIsHeard ==
    ASSUME HeardSound(ui)
    PROVE  Navigation!GenerationHeard /\ Navigation!SourcesOwned
BY DEF HeardSound, SourceSound, Navigation!GenerationHeard, Navigation!SourcesOwned

-----------------------------------------------------------------------------
(* The main map: whether streets are asked for again.                      *)

DataFields == {"sel", "saved", "info", "flag", "net", "last", "runs", "crossed"}
RequestFields == {"id", "key", "area", "dead"}
Steps == {s \in Data!Step : s.do = "show" => s.x \in StreetModes}
ResetAhead(todo) == \E i \in DOMAIN todo : todo[i].do = "reset"
StreetsAsked(u) == {r \in u.net : r.key \in StreetModes /\ ~r.dead}

DataTyped(u) ==
    /\ DataFields \subseteq DOMAIN u
    /\ u.crossed \in BOOLEAN /\ u.last \in Nat
    /\ u.sel \in Areas \cup {NoArea} /\ u.saved \in StreetModes \cup {NoMode}
    /\ DOMAIN u.flag = StreetModes /\ DOMAIN u.info = StreetModes
    /\ \A x \in StreetModes : "area" \in DOMAIN u.info[x]
    /\ \A r \in u.net : RequestFields \subseteq DOMAIN r /\ r.id \in 1..u.last
    /\ \A q, r \in u.net : q.id = r.id => q = r
    /\ \A h \in u.runs : {"todo", "wait"} \subseteq DOMAIN h /\ h.todo \in Seq(Steps)

(* With one handler at a time, the streets asked for are those of the      *)
(* selected area and the handler waits for them; and where a flag is up    *)
(* its streets have arrived, are asked for, or will be reset.              *)
FlagsSound(u) ==
    /\ \A g, h \in u.runs : g = h
    /\ \A r \in StreetsAsked(u) : r.area = u.sel /\ \E h \in u.runs : r.id \in h.wait
    /\ \A x \in StreetModes : u.flag[x] =>
          \/ u.sel = NoArea \/ u.info[x].area = u.sel
          \/ \E r \in StreetsAsked(u) : r.key = x
          \/ \E h \in u.runs : ResetAhead(h.todo)

DataSound(u) == DataTyped(u) /\ (~u.crossed => FlagsSound(u))

(* What speaks of none of the fields.                                      *)
LEMMA DataTypedApart ==
    ASSUME NEW u, DataTyped(u), NEW v, DataFields \subseteq DOMAIN v, \A f \in DataFields : v[f] = u[f]
    PROVE  DataTyped(v) /\ StreetsAsked(v) = StreetsAsked(u)
<1>1. /\ v.crossed = u.crossed /\ v.last = u.last /\ v.sel = u.sel /\ v.saved = u.saved
      /\ v.flag = u.flag /\ v.net = u.net /\ v.runs = u.runs /\ v.info = u.info
  BY DEF DataFields
<1> QED BY <1>1 DEF DataTyped, StreetsAsked

(* The streets drawn are those of the mode; nothing else is touched.       *)
LEMMA DrawStreetsSound ==
    ASSUME NEW u, DataFields \subseteq DOMAIN u, DOMAIN u.info = StreetModes,
           \A x \in StreetModes : "area" \in DOMAIN u.info[x],
           NEW mode \in StreetModes, NEW area
    PROVE  LET v == Data!DrawStreets(u, mode, area) IN
           /\ DataFields \subseteq DOMAIN v /\ \A f \in DataFields \ {"info"} : v[f] = u[f]
           /\ DOMAIN v.info = StreetModes /\ v.info[mode].area = area
           /\ \A x \in StreetModes : "area" \in DOMAIN v.info[x] /\ (x # mode => v.info[x] = u.info[x])
<1> DEFINE i == [u.info EXCEPT ![mode].area = area]
           m == [u.m EXCEPT ![mode] = [vis |-> u.info[mode].vis, area |-> area]]
           v == [u EXCEPT !.info = i, !.m = m]
<1>1. Data!DrawStreets(u, mode, area) = v
  BY DEF Data!DrawStreets
<1>2. /\ DOMAIN i = StreetModes /\ i[mode].area = area
      /\ \A x \in StreetModes : "area" \in DOMAIN i[x] /\ (x # mode => i[x] = u.info[x])
  OBVIOUS
<1> HIDE DEF i, m
<1>3. v.info = i /\ DataFields \subseteq DOMAIN v /\ \A f \in DataFields \ {"info"} : v[f] = u[f]
  BY DEF DataFields
<1> HIDE DEF v
<1> QED BY <1>1, <1>2, <1>3

(* The request that was asked for is the newest; another may be aborted.   *)
LEMMA FetchSound ==
    ASSUME NEW u, DataTyped(u), NEW key, NEW area
    PROVE  LET v == Data!Fetch(u, key, area) IN
           /\ DataTyped(v) /\ v.last = u.last + 1
           /\ \A f \in DataFields \ {"net", "last"} : v[f] = u[f]
           /\ \A r \in StreetsAsked(v) : \/ r.id = u.last + 1 /\ r.key = key /\ r.area = area
                                         \/ r \in StreetsAsked(u)
           /\ key \in StreetModes => \E r \in StreetsAsked(v) : r.key = key /\ r.id = u.last + 1
<1> DEFINE n == [id |-> u.last + 1, key |-> key, area |-> area, day |-> u.day, dead |-> FALSE]
           Kept(r) == IF r.id = u.ctl[key] THEN [r EXCEPT !.dead = TRUE] ELSE r
           k == {Kept(r) : r \in u.net}
           c == [u.ctl EXCEPT ![key] = u.last + 1]
           v == [u EXCEPT !.last = u.last + 1, !.ctl = c, !.net = k \cup {n}]
<1>1. Data!Fetch(u, key, area) = v
  BY DEF Data!Fetch
<1>2. /\ RequestFields \subseteq DOMAIN n /\ n.id = u.last + 1 /\ n.key = key /\ n.area = area /\ n.dead = FALSE
  BY DEF RequestFields
<1>3. \A r \in u.net : /\ RequestFields \subseteq DOMAIN Kept(r) /\ Kept(r).id = r.id /\ Kept(r).key = r.key
                       /\ Kept(r).area = r.area /\ (~Kept(r).dead => Kept(r) = r)
  BY DEF DataTyped, RequestFields
<1> HIDE DEF n, Kept, c
<1>4. /\ DataFields \subseteq DOMAIN v /\ v.last = u.last + 1 /\ v.net = k \cup {n}
      /\ \A f \in DataFields \ {"net", "last"} : v[f] = u[f]
  BY DEF DataTyped, DataFields
<1>5. /\ v.crossed = u.crossed /\ v.sel = u.sel /\ v.saved = u.saved /\ v.flag = u.flag /\ v.info = u.info
      /\ v.runs = u.runs
  BY <1>4 DEF DataFields
<1> HIDE DEF v
<1>6. /\ \A r \in v.net : RequestFields \subseteq DOMAIN r /\ r.id \in 1..v.last
      /\ \A q, r \in v.net : q.id = r.id => q = r
  <2>1. \A r \in u.net : r.id \in 1..u.last /\ u.last \in Nat
    BY DEF DataTyped
  <2>2. \A q, r \in u.net : q.id = r.id => q = r
    BY DEF DataTyped
  <2>3. ASSUME NEW r \in v.net PROVE RequestFields \subseteq DOMAIN r /\ r.id \in 1..v.last
    <3>1. u.last \in Nat
      BY DEF DataTyped
    <3>2. CASE r = n
      BY <1>2, <1>4, <3>1, <3>2
    <3>3. CASE r # n
      <4>1. PICK a \in u.net : r = Kept(a)
        BY <1>4, <3>3
      <4> QED BY <1>3, <1>4, <2>1, <3>1, <4>1
    <3> QED BY <3>2, <3>3
  <2>4. ASSUME NEW q \in v.net, NEW r \in v.net, q.id = r.id PROVE q = r
    <3>1. CASE q = n \/ r = n
      <4>1. \A x \in k : x.id # n.id
        BY <1>2, <1>3, <2>1
      <4> QED BY <1>4, <2>4, <3>1, <4>1
    <3>2. CASE q # n /\ r # n
      <4>1. PICK a \in u.net, b \in u.net : q = Kept(a) /\ r = Kept(b)
        BY <1>4, <3>2
      <4> QED BY <1>3, <2>2, <2>4, <4>1
    <3> QED BY <3>1, <3>2
  <2> QED BY <2>3, <2>4
<1>7. DataTyped(v)
  BY <1>4, <1>5, <1>6 DEF DataTyped
<1>8. \A r \in StreetsAsked(v) : \/ r.id = u.last + 1 /\ r.key = key /\ r.area = area
                                 \/ r \in StreetsAsked(u)
  BY <1>2, <1>3, <1>4 DEF StreetsAsked
<1>9. key \in StreetModes => \E r \in StreetsAsked(v) : r.key = key /\ r.id = u.last + 1
  BY <1>2, <1>4 DEF StreetsAsked
<1> QED BY <1>1, <1>4, <1>7, <1>8, <1>9

LEMMA ResetOfEither ==
    ASSUME NEW p \in Seq(Steps), NEW q \in Seq(Steps), ResetAhead(p) \/ ResetAhead(q)
    PROVE  ResetAhead(p \o q)
<1>1. CASE ResetAhead(p)
  <2> PICK i \in DOMAIN p : p[i].do = "reset"
    BY <1>1 DEF ResetAhead
  <2>1. i \in DOMAIN (p \o q) /\ (p \o q)[i] = p[i]
    OBVIOUS
  <2> QED BY <2>1 DEF ResetAhead
<1>2. CASE ResetAhead(q)
  <2> PICK i \in DOMAIN q : q[i].do = "reset"
    BY <1>2 DEF ResetAhead
  <2>1. i + Len(p) \in DOMAIN (p \o q) /\ (p \o q)[i + Len(p)] = q[i]
    OBVIOUS
  <2> QED BY <2>1 DEF ResetAhead
<1> QED BY <1>1, <1>2

(* What is left of a handler's steps after one that resets nothing.        *)
LEMMA ResetStaysAhead ==
    ASSUME NEW todo \in Seq(Steps), todo # << >>
    PROVE  /\ Head(todo) \in Steps /\ Tail(todo) \in Seq(Steps)
           /\ ResetAhead(todo) /\ Head(todo).do # "reset" => ResetAhead(Tail(todo))
           /\ \A s \in Steps : <<s>> \o Tail(todo) \in Seq(Steps) /\ (ResetAhead(Tail(todo)) => ResetAhead(<<s>> \o Tail(todo)))
           /\ \A s, t \in Steps : /\ <<s, t>> \o Tail(todo) \in Seq(Steps)
                                  /\ (ResetAhead(Tail(todo)) => ResetAhead(<<s, t>> \o Tail(todo)))
<1>1. Head(todo) \in Steps /\ Tail(todo) \in Seq(Steps)
  OBVIOUS
<1>2. ASSUME ResetAhead(todo), Head(todo).do # "reset" PROVE ResetAhead(Tail(todo))
  <2> PICK i \in DOMAIN todo : todo[i].do = "reset"
    BY <1>2 DEF ResetAhead
  <2>1. i # 1 /\ i - 1 \in DOMAIN Tail(todo) /\ Tail(todo)[i - 1] = todo[i]
    BY <1>2
  <2> QED BY <2>1 DEF ResetAhead
<1>3. \A p, q \in Seq(Steps) : ResetAhead(q) => ResetAhead(p \o q)
  BY ResetOfEither
<1>4. ASSUME NEW s \in Steps, NEW t \in Steps
      PROVE  /\ <<s>> \o Tail(todo) \in Seq(Steps) /\ <<s, t>> \o Tail(todo) \in Seq(Steps)
             /\ ResetAhead(Tail(todo)) => ResetAhead(<<s>> \o Tail(todo)) /\ ResetAhead(<<s, t>> \o Tail(todo))
  <2> DEFINE p == <<s>>
             q == <<s, t>>
             r == Tail(todo)
  <2>1. p \in Seq(Steps) /\ q \in Seq(Steps) /\ r \in Seq(Steps)
    BY <1>1
  <2> HIDE DEF p, q, r
  <2>2. p \o r \in Seq(Steps) /\ q \o r \in Seq(Steps)
    BY <2>1
  <2>3. ResetAhead(r) => ResetAhead(p \o r) /\ ResetAhead(q \o r)
    BY <1>3, <2>1
  <2> QED BY <2>2, <2>3 DEF p, q, r
<1> QED BY <1>1, <1>2, <1>4

(* A step of a handler that is the only one, when what is asked for is     *)
(* what it waits for.                                                      *)
LEMMA ThenSound ==
    ASSUME NEW v, DataTyped(v), NEW h \in v.runs, NEW steps \in Seq(Steps), NEW wait,
           ~v.crossed => /\ \A g \in v.runs : g = h
                         /\ \A r \in StreetsAsked(v) : r.area = v.sel /\ r.id \in wait
                         /\ \A x \in StreetModes : v.flag[x] =>
                               \/ v.sel = NoArea \/ v.info[x].area = v.sel
                               \/ \E r \in StreetsAsked(v) : r.key = x
                               \/ ResetAhead(steps)
    PROVE  DataSound(Data!Then(v, h, steps, wait))
<1> DEFINE g == [h EXCEPT !.todo = steps, !.wait = wait]
           left == IF steps = << >> /\ wait = {} THEN {} ELSE {g}
           rs == (v.runs \ {h}) \cup left
           w == [v EXCEPT !.runs = rs]
<1>1. Data!Then(v, h, steps, wait) = w
  BY DEF Data!Then
<1>2. {"todo", "wait"} \subseteq DOMAIN g /\ g.todo = steps /\ g.wait = wait
  BY DEF DataTyped
<1> HIDE DEF g
<1>3. \A x \in rs : {"todo", "wait"} \subseteq DOMAIN x /\ x.todo \in Seq(Steps)
  BY <1>2 DEF DataTyped
<1>4. ~v.crossed => rs = left
  OBVIOUS
<1> HIDE DEF rs
<1>5. /\ DataFields \subseteq DOMAIN w /\ w.runs = rs /\ w.crossed = v.crossed /\ w.last = v.last /\ w.sel = v.sel
      /\ w.saved = v.saved /\ w.flag = v.flag /\ w.info = v.info /\ w.net = v.net
  BY DEF DataTyped, DataFields
<1> HIDE DEF w
<1>6. DataTyped(w)
  BY <1>3, <1>5 DEF DataTyped
<1>7. ASSUME ~w.crossed PROVE FlagsSound(w)
  <2>1. StreetsAsked(w) = StreetsAsked(v) /\ ~v.crossed
    BY <1>5, <1>7 DEF StreetsAsked
  <2>2. StreetsAsked(v) # {} \/ ResetAhead(steps) => left = {g}
    BY <2>1 DEF ResetAhead
  <2>3. \A r \in StreetsAsked(w) : r.area = w.sel /\ \E x \in w.runs : r.id \in x.wait
    BY <1>2, <1>4, <1>5, <2>1, <2>2
  <2>4. ASSUME NEW x \in StreetModes, w.flag[x]
        PROVE  \/ w.sel = NoArea \/ w.info[x].area = w.sel
               \/ \E r \in StreetsAsked(w) : r.key = x
               \/ \E y \in w.runs : ResetAhead(y.todo)
    BY <1>2, <1>4, <1>5, <2>1, <2>2, <2>4
  <2>5. \A x, y \in w.runs : x = y
    BY <1>4, <1>5, <2>1
  <2> QED BY <2>3, <2>4, <2>5 DEF FlagsSound
<1> QED BY <1>1, <1>6, <1>7 DEF DataSound

(* A handler that waits for nothing leaves no streets asked for.           *)
LEMMA NothingAsked ==
    ASSUME DataSound(ui), NEW h \in ui.runs, h.wait = {}, ~ui.crossed
    PROVE  /\ StreetsAsked(ui) = {} /\ \A g \in ui.runs : g = h
           /\ \A x \in StreetModes : ui.flag[x] =>
                  ui.sel = NoArea \/ ui.info[x].area = ui.sel \/ ResetAhead(h.todo)
BY DEF DataSound, FlagsSound

(* A step that asks for nothing and keeps what was loaded.                 *)
LEMMA StepSound ==
    ASSUME DataSound(ui), NEW h \in ui.runs, h.wait = {}, h.todo # << >>, Head(h.todo).do # "reset",
           NEW v, DataFields \subseteq DOMAIN v, \A f \in DataFields \ {"info"} : v[f] = ui[f],
           DOMAIN v.info = StreetModes,
           \A x \in StreetModes : "area" \in DOMAIN v.info[x] /\ v.info[x].area = ui.info[x].area,
           NEW steps \in Seq(Steps), ResetAhead(Tail(h.todo)) => ResetAhead(steps)
    PROVE  DataSound(Data!Then(v, h, steps, {}))
<1>1. /\ v.crossed = ui.crossed /\ v.last = ui.last /\ v.sel = ui.sel /\ v.saved = ui.saved
      /\ v.flag = ui.flag /\ v.net = ui.net /\ v.runs = ui.runs
  BY DEF DataFields
<1>2. DataTyped(v)
  BY <1>1 DEF DataSound, DataTyped
<1>3. StreetsAsked(v) = StreetsAsked(ui)
  BY <1>1 DEF StreetsAsked
<1>4. h.todo \in Seq(Steps)
  BY DEF DataSound, DataTyped
<1>5. ResetAhead(h.todo) => ResetAhead(steps)
  BY <1>4, ResetStaysAhead
<1> QED BY <1>1, <1>2, <1>3, <1>5, NothingAsked, ThenSound

LEMMA HandlerStepSound ==
    ASSUME DataSound(ui), NEW h \in ui.runs, h.wait = {}, h.todo # << >>,
           NEW s, s = Head(h.todo), NEW rest, rest = Tail(h.todo)
    PROVE  /\ s.do = "hide" => DataSound(Data!Hide(ui, h, s.x, rest))
           /\ s.do = "show" => DataSound(Data!Show(ui, h, s.x, rest))
           /\ s.do = "reveal" => DataSound(Data!Reveal(ui, h, s.x, rest))
           /\ s.do = "sync" => DataSound(Data!Sync(ui, h, rest))
           /\ s.do = "draw" => DataSound(Data!Draw(ui, h, s.x, rest))
           /\ s.do = "reset" => DataSound(Data!ResetStreetCache(ui, h, rest))
           /\ s.do = "refresh" => DataSound(Data!RefreshStreetLayers(ui, h, rest))
           /\ s.do = "pass" => DataSound(Data!VisibilityPass(ui, h, rest))
<1>1. s \in Steps /\ rest \in Seq(Steps) /\ DataTyped(ui) /\ h.todo \in Seq(Steps)
  BY ResetStaysAhead DEF DataSound, DataTyped
<1>2. \A d \in {"sync", "reveal", "draw", "show"}, x \in StreetModes \cup Areas \cup {NoArea} :
        (d = "show" => x \in StreetModes) =>
            /\ <<Data!Do(d, x)>> \o rest \in Seq(Steps)
            /\ ResetAhead(rest) => ResetAhead(<<Data!Do(d, x)>> \o rest)
  <2>1. ASSUME NEW d \in {"sync", "reveal", "draw", "show"}, NEW x \in StreetModes \cup Areas \cup {NoArea},
               d = "show" => x \in StreetModes
        PROVE  Data!Do(d, x) \in Steps
    BY <2>1 DEF Steps, Data!Step, Data!Do
  <2> QED BY <1>1, <2>1, ResetStaysAhead
<1>3. /\ DataFields \subseteq DOMAIN ui /\ DOMAIN ui.info = StreetModes /\ DOMAIN ui.flag = StreetModes
      /\ \A x \in StreetModes : "area" \in DOMAIN ui.info[x]
      /\ ui.sel \in Areas \cup {NoArea} /\ ui.saved \in StreetModes \cup {NoMode} /\ ui.last \in Nat
  BY <1>1 DEF DataTyped
<1>4. ASSUME s.do = "hide" PROVE DataSound(Data!Hide(ui, h, s.x, rest))
  <2> DEFINE i == [ui.info EXCEPT ![s.x].vis = FALSE]
             v == [ui EXCEPT !.info[s.x].vis = FALSE, !.m[s.x].vis = FALSE]
             q == <<Data!Do("sync", NoArea)>> \o rest
  <2>1. DOMAIN i = StreetModes /\ \A x \in StreetModes : "area" \in DOMAIN i[x] /\ i[x].area = ui.info[x].area
    BY <1>3
  <2>2. DataFields \subseteq DOMAIN v /\ v.info = i /\ \A f \in DataFields \ {"info"} : v[f] = ui[f]
    BY <1>3 DEF DataFields
  <2>3. Data!Hide(ui, h, s.x, rest) = Data!Then(v, h, q, {})
    BY DEF Data!Hide
  <2>4. q \in Seq(Steps) /\ (ResetAhead(rest) => ResetAhead(q))
    BY <1>2
  <2> HIDE DEF i, v, q
  <2> QED BY <1>4, <2>1, <2>2, <2>3, <2>4, StepSound
<1>6. ASSUME s.do = "reveal" PROVE DataSound(Data!Reveal(ui, h, s.x, rest))
  <2> DEFINE v == [ui EXCEPT !.m[s.x].vis = ui.m[s.x].area # NoArea]
  <2>1. DataFields \subseteq DOMAIN v /\ \A f \in DataFields : v[f] = ui[f]
    BY <1>3 DEF DataFields
  <2>2. v.info = ui.info
    BY <2>1 DEF DataFields
  <2>3. Data!Reveal(ui, h, s.x, rest) = Data!Then(v, h, rest, {})
    BY DEF Data!Reveal
  <2> HIDE DEF v
  <2> QED BY <1>1, <1>3, <1>6, <2>1, <2>2, <2>3, StepSound
<1>8. ASSUME s.do = "draw" PROVE DataSound(Data!Draw(ui, h, s.x, rest))
  <2> DEFINE v == IF ui.sel # s.x THEN ui ELSE [ui EXCEPT !.overlay = IF h.ok THEN s.x ELSE NoArea]
  <2>1. DataFields \subseteq DOMAIN v /\ \A f \in DataFields : v[f] = ui[f]
    BY <1>3 DEF DataFields
  <2>2. v.info = ui.info
    BY <2>1 DEF DataFields
  <2>3. Data!Draw(ui, h, s.x, rest) = Data!Then(v, h, rest, {})
    BY DEF Data!Draw
  <2> HIDE DEF v
  <2> QED BY <1>1, <1>3, <1>8, <2>1, <2>2, <2>3, StepSound
<1>10. ASSUME s.do = "refresh" PROVE DataSound(Data!RefreshStreetLayers(ui, h, rest))
  <2> DEFINE q == (IF ui.saved = NoMode THEN << >> ELSE <<Data!Do("show", ui.saved)>>) \o rest
  <2>1. q \in Seq(Steps) /\ (ResetAhead(rest) => ResetAhead(q))
    <3>1. CASE ui.saved = NoMode
      <4>1. q = rest
        BY <1>1, <3>1
      <4> QED BY <1>1, <4>1
    <3>2. CASE ui.saved # NoMode
      BY <1>2, <1>3, <3>2
    <3> QED BY <3>1, <3>2
  <2>2. Data!RefreshStreetLayers(ui, h, rest) = Data!Then(ui, h, q, {})
    BY DEF Data!RefreshStreetLayers
  <2> HIDE DEF q
  <2> QED BY <1>3, <1>10, <2>1, <2>2, StepSound
<1>11. ASSUME s.do = "pass" PROVE DataSound(Data!VisibilityPass(ui, h, rest))
  <2> DEFINE m == [x \in StreetModes |-> IF ui.info[x].area # NoArea /\ ui.m[x].area # NoArea
                                         THEN [ui.m[x] EXCEPT !.vis = ui.info[x].vis] ELSE ui.m[x]]
             v == [ui EXCEPT !.m = m]
  <2>1. Data!VisibilityPass(ui, h, rest) = Data!Then(v, h, rest, {})
    BY DEF Data!VisibilityPass
  <2> HIDE DEF m
  <2>2. DataFields \subseteq DOMAIN v /\ \A f \in DataFields : v[f] = ui[f]
    BY <1>3 DEF DataFields
  <2>3. v.info = ui.info
    BY <2>2 DEF DataFields
  <2> HIDE DEF v
  <2> QED BY <1>1, <1>3, <1>11, <2>1, <2>2, <2>3, StepSound
<1>9. ASSUME s.do = "reset" PROVE DataSound(Data!ResetStreetCache(ui, h, rest))
  <2> DEFINE f == [x \in StreetModes |-> FALSE]
             i == [x \in StreetModes |-> [ui.info[x] EXCEPT !.area = NoArea]]
             v == [ui EXCEPT !.flag = f, !.info = i]
  <2>1. Data!ResetStreetCache(ui, h, rest) = Data!Then(v, h, rest, {})
    BY DEF Data!ResetStreetCache
  <2>2. DOMAIN f = StreetModes /\ DOMAIN i = StreetModes /\ \A x \in StreetModes : f[x] = FALSE /\ "area" \in DOMAIN i[x]
    BY <1>3
  <2> HIDE DEF f, i
  <2>3. /\ DataFields \subseteq DOMAIN v /\ v.flag = f /\ v.info = i /\ v.net = ui.net /\ v.runs = ui.runs /\ v.last = ui.last
        /\ v.sel = ui.sel /\ v.saved = ui.saved /\ v.crossed = ui.crossed
    BY <1>3 DEF DataFields
  <2> HIDE DEF v
  <2>4. DataTyped(v)
    BY <1>1, <2>2, <2>3 DEF DataTyped
  <2>5. StreetsAsked(v) = StreetsAsked(ui)
    BY <2>3 DEF StreetsAsked
  <2>6. ~v.crossed => /\ \A g \in v.runs : g = h
                      /\ StreetsAsked(v) = {} /\ \A x \in StreetModes : v.flag[x] = FALSE
    BY <2>2, <2>3, <2>5, NothingAsked
  <2>7. h \in v.runs
    BY <2>3
  <2>8. DataSound(Data!Then(v, h, rest, {}))
    BY <1>1, <2>4, <2>6, <2>7, ThenSound
  <2> QED BY <2>1, <2>8
<1>5. ASSUME s.do = "show" PROVE DataSound(Data!Show(ui, h, s.x, rest))
  <2> DEFINE i == [ui.info EXCEPT ![s.x].vis = TRUE]
             v == [ui EXCEPT !.info[s.x].vis = TRUE]
             after == <<Data!Do("reveal", s.x), Data!Do("sync", NoArea)>> \o rest
             f == [ui.flag EXCEPT ![s.x] = TRUE]
             w == [v EXCEPT !.flag[s.x] = TRUE, !.failed = @ \ {s.x}]
             n == Data!Fetch(w, s.x, w.sel)
             k == Data!DrawStreets(w, s.x, w.sel)
  <2>1. s.x \in StreetModes
    BY <1>1, <1>5 DEF Steps
  <2>2. after \in Seq(Steps) /\ (ResetAhead(rest) => ResetAhead(after))
    <3>1. Data!Do("reveal", s.x) \in Steps /\ Data!Do("sync", NoArea) \in Steps
      BY <2>1 DEF Steps, Data!Step, Data!Do
    <3> QED BY <1>1, <3>1, ResetStaysAhead
  <2>3. Data!Show(ui, h, s.x, rest) \in {Data!Then(ui, h, rest, {}), Data!Then(v, h, after, {})}
        \/ /\ ui.sel # NoArea
           /\ Data!Show(ui, h, s.x, rest) \in {Data!Then(k, h, after, {}), Data!Then(n, h, after, {w.last + 1})}
    BY DEF Data!Show
  <2>4. DOMAIN i = StreetModes /\ \A x \in StreetModes : "area" \in DOMAIN i[x] /\ i[x].area = ui.info[x].area
    BY <1>3
  <2>5. DataFields \subseteq DOMAIN v /\ v.info = i /\ \A g \in DataFields \ {"info"} : v[g] = ui[g]
    BY <1>3 DEF DataFields
  <2>6. /\ v.crossed = ui.crossed /\ v.last = ui.last /\ v.sel = ui.sel /\ v.saved = ui.saved
        /\ v.flag = ui.flag /\ v.net = ui.net /\ v.runs = ui.runs
    BY <2>5 DEF DataFields
  <2>7. DOMAIN f = StreetModes /\ f[s.x] = TRUE /\ \A x \in StreetModes : x # s.x => f[x] = ui.flag[x]
    BY <1>3, <2>1
  <2> HIDE DEF i, v, after
  <2>8. /\ DataFields \subseteq DOMAIN w /\ w.info = i /\ w.flag = f /\ w.crossed = ui.crossed /\ w.last = ui.last
        /\ w.sel = ui.sel /\ w.saved = ui.saved /\ w.net = ui.net /\ w.runs = ui.runs
    BY <2>5, <2>6 DEF DataFields
  <2> HIDE DEF f, w
  <2>9. DataTyped(w) /\ StreetsAsked(w) = StreetsAsked(ui)
    BY <1>1, <2>4, <2>7, <2>8 DEF DataTyped, StreetsAsked
  <2>10. /\ DataTyped(n) /\ \A g \in DataFields \ {"net", "last"} : n[g] = w[g]
         /\ \A r \in StreetsAsked(n) : (r.id = w.last + 1 /\ r.key = s.x /\ r.area = w.sel) \/ r \in StreetsAsked(w)
         /\ \E r \in StreetsAsked(n) : r.key = s.x /\ r.id = w.last + 1
    BY <2>1, <2>9, FetchSound
  <2> HIDE DEF n
  <2>11. n.crossed = ui.crossed /\ n.sel = ui.sel /\ n.flag = f /\ n.info = i /\ n.runs = ui.runs
    BY <2>8, <2>10 DEF DataFields
  <2>12. ~n.crossed => /\ \A g \in n.runs : g = h
                       /\ \A r \in StreetsAsked(n) : r.area = n.sel /\ r.id \in {w.last + 1}
    BY <2>6, <2>8, <2>9, <2>10, <2>11, NothingAsked
  <2>13. ASSUME ~n.crossed, NEW x \in StreetModes, n.flag[x]
         PROVE  \/ n.sel = NoArea \/ n.info[x].area = n.sel
                \/ \E r \in StreetsAsked(n) : r.key = x
                \/ ResetAhead(after)
    <3>1. CASE x = s.x
      BY <2>10, <3>1
    <3>2. CASE x # s.x
      <4>1. ResetAhead(h.todo) => ResetAhead(after)
        BY <1>1, <1>5, <2>2, ResetStaysAhead
      <4> QED BY <2>4, <2>7, <2>11, <2>13, <3>2, <4>1, NothingAsked
    <3> QED BY <3>1, <3>2
  <2>14. DataSound(Data!Then(n, h, after, {w.last + 1}))
    BY <2>2, <2>10, <2>11, <2>12, <2>13, ThenSound
  <2>15. DataSound(Data!Then(v, h, after, {}))
    BY <1>5, <2>2, <2>4, <2>5, StepSound
  <2>16. DataSound(Data!Then(ui, h, rest, {}))
    BY <1>1, <1>3, <1>5, StepSound
  <2>17. DataSound(Data!Then(k, h, after, {}))
    <3>1. /\ DataFields \subseteq DOMAIN k /\ \A g \in DataFields \ {"info"} : k[g] = w[g]
          /\ DOMAIN k.info = StreetModes /\ k.info[s.x].area = w.sel
          /\ \A x \in StreetModes : "area" \in DOMAIN k.info[x] /\ (x # s.x => k.info[x] = w.info[x])
      BY <2>1, <2>4, <2>8, DrawStreetsSound
    <3> HIDE DEF k
    <3>2. /\ k.crossed = ui.crossed /\ k.sel = ui.sel /\ k.flag = f /\ k.runs = ui.runs /\ k.net = w.net
          /\ k.last = w.last /\ k.saved = w.saved /\ w.flag = f
      BY <2>8, <3>1 DEF DataFields
    <3>3. DataTyped(k) /\ StreetsAsked(k) = StreetsAsked(ui)
      BY <2>8, <2>9, <3>1, <3>2 DEF DataTyped, StreetsAsked
    <3>4. ASSUME ~k.crossed, NEW x \in StreetModes, k.flag[x]
          PROVE  k.sel = NoArea \/ k.info[x].area = k.sel \/ ResetAhead(after)
      <4>1. ResetAhead(h.todo) => ResetAhead(after)
        BY <1>1, <1>5, <2>2, ResetStaysAhead
      <4> QED BY <2>4, <2>7, <2>8, <3>1, <3>2, <3>4, <4>1, NothingAsked
    <3>5. ~k.crossed => StreetsAsked(k) = {} /\ \A g \in k.runs : g = h
      BY <3>2, <3>3, NothingAsked
    <3> QED BY <2>2, <3>2, <3>3, <3>4, <3>5, ThenSound
  <2> HIDE DEF k
  <2> QED BY <2>3, <2>14, <2>15, <2>16, <2>17
<1>7. ASSUME s.do = "sync" PROVE DataSound(Data!Sync(ui, h, rest))
  <2> DEFINE v == [ui EXCEPT !.overlay = NoArea]
             k == [h EXCEPT !.ok = TRUE]
             rs == (ui.runs \ {h}) \cup {k}
             c == [ui EXCEPT !.runs = rs]
             q == <<Data!Do("draw", ui.sel)>> \o rest
             n == Data!Fetch(ui, ui.sel, ui.sel)
  <2>1. Data!Sync(ui, h, rest) \in {Data!Then(v, h, rest, {}), Data!Then(c, k, q, {}),
                                    Data!Then(n, h, q, {ui.last + 1})}
    BY DEF Data!Sync
  <2>2. q \in Seq(Steps) /\ (ResetAhead(rest) => ResetAhead(q))
    BY <1>2, <1>3
  <2>3. ResetAhead(h.todo) => ResetAhead(q)
    BY <1>1, <1>7, <2>2, ResetStaysAhead
  <2> HIDE DEF q
  <2>4. DataSound(Data!Then(v, h, rest, {}))
    <3>1. DataFields \subseteq DOMAIN v /\ \A f \in DataFields : v[f] = ui[f]
      BY <1>3 DEF DataFields
    <3>2. v.info = ui.info
      BY <3>1 DEF DataFields
    <3> HIDE DEF v
    <3> QED BY <1>1, <1>3, <1>7, <3>1, <3>2, StepSound
  <2>5. DataSound(Data!Then(c, k, q, {}))
    <3>1. {"todo", "wait"} \subseteq DOMAIN k /\ k.todo = h.todo /\ k.wait = h.wait
      BY <1>1 DEF DataTyped
    <3> HIDE DEF k
    <3>2. \A g \in rs : {"todo", "wait"} \subseteq DOMAIN g /\ g.todo \in Seq(Steps)
      BY <1>1, <3>1 DEF DataTyped
    <3>3. k \in rs /\ (~ui.crossed => \A g \in rs : g = k)
      BY NothingAsked
    <3> HIDE DEF rs
    <3>4. /\ DataFields \subseteq DOMAIN c /\ c.info = ui.info /\ c.flag = ui.flag /\ c.crossed = ui.crossed
          /\ c.last = ui.last /\ c.sel = ui.sel /\ c.saved = ui.saved /\ c.net = ui.net /\ c.runs = rs
      BY <1>3 DEF DataFields
    <3> HIDE DEF c
    <3>5. DataTyped(c) /\ StreetsAsked(c) = StreetsAsked(ui)
      BY <1>1, <3>2, <3>4 DEF DataTyped, StreetsAsked
    <3>6. ~c.crossed => /\ \A g \in c.runs : g = k
                        /\ StreetsAsked(c) = {}
                        /\ \A x \in StreetModes : c.flag[x] =>
                              c.sel = NoArea \/ c.info[x].area = c.sel \/ ResetAhead(q)
      BY <2>3, <3>3, <3>4, <3>5, NothingAsked
    <3> QED BY <2>2, <3>3, <3>4, <3>5, <3>6, ThenSound
  <2>6. DataSound(Data!Then(n, h, q, {ui.last + 1}))
    <3>1. /\ DataTyped(n) /\ \A g \in DataFields \ {"net", "last"} : n[g] = ui[g]
          /\ \A r \in StreetsAsked(n) : (r.id = ui.last + 1 /\ r.area = ui.sel) \/ r \in StreetsAsked(ui)
      BY <1>1, FetchSound
    <3> HIDE DEF n
    <3>2. n.crossed = ui.crossed /\ n.sel = ui.sel /\ n.flag = ui.flag /\ n.info = ui.info /\ n.runs = ui.runs
      BY <3>1 DEF DataFields
    <3>3. ~n.crossed => /\ \A g \in n.runs : g = h
                        /\ \A r \in StreetsAsked(n) : r.area = n.sel /\ r.id \in {ui.last + 1}
                        /\ \A x \in StreetModes : n.flag[x] =>
                              n.sel = NoArea \/ n.info[x].area = n.sel \/ ResetAhead(q)
      BY <2>3, <3>1, <3>2, NothingAsked
    <3> QED BY <2>2, <3>1, <3>2, <3>3, ThenSound
  <2> QED BY <2>1, <2>4, <2>5, <2>6
<1> QED BY <1>4, <1>5, <1>6, <1>7, <1>8, <1>9, <1>10, <1>11

LEMMA HandlerRunsSound ==
    ASSUME DataSound(ui), Data!HandlerRuns
    PROVE  DataSound(ui')
<1> PICK h \in ui.runs :
        /\ h.wait = {}
        /\ IF h.todo = << >> THEN ui' = Data!Then(ui, h, << >>, {})
           ELSE LET s == Head(h.todo)  rest == Tail(h.todo) IN
                ui' = CASE s.do = "hide"    -> Data!Hide(ui, h, s.x, rest)
                        [] s.do = "show"    -> Data!Show(ui, h, s.x, rest)
                        [] s.do = "reveal"  -> Data!Reveal(ui, h, s.x, rest)
                        [] s.do = "sync"    -> Data!Sync(ui, h, rest)
                        [] s.do = "draw"    -> Data!Draw(ui, h, s.x, rest)
                        [] s.do = "reset"   -> Data!ResetStreetCache(ui, h, rest)
                        [] s.do = "refresh" -> Data!RefreshStreetLayers(ui, h, rest)
                        [] s.do = "pass"    -> Data!VisibilityPass(ui, h, rest)
  BY DEF Data!HandlerRuns
<1>1. DataTyped(ui) /\ h.todo \in Seq(Steps)
  BY DEF DataSound, DataTyped
<1>2. CASE h.todo = << >>
  <2>1. ~ResetAhead(h.todo) /\ << >> \in Seq(Steps)
    BY <1>2 DEF ResetAhead
  <2>2. DataSound(Data!Then(ui, h, << >>, {}))
    BY <1>1, <2>1, NothingAsked, ThenSound
  <2> QED BY <1>2, <2>2
<1>3. CASE h.todo # << >>
  <2> DEFINE s == Head(h.todo)
             rest == Tail(h.todo)
  <2>1. s.do \in {"hide", "show", "reveal", "sync", "draw", "reset", "refresh", "pass"}
    BY <1>1, <1>3, ResetStaysAhead DEF Steps, Data!Step
  <2>2. /\ s.do = "hide" => ui' = Data!Hide(ui, h, s.x, rest)
        /\ s.do = "show" => ui' = Data!Show(ui, h, s.x, rest)
        /\ s.do = "reveal" => ui' = Data!Reveal(ui, h, s.x, rest)
        /\ s.do = "sync" => ui' = Data!Sync(ui, h, rest)
        /\ s.do = "draw" => ui' = Data!Draw(ui, h, s.x, rest)
        /\ s.do = "reset" => ui' = Data!ResetStreetCache(ui, h, rest)
        /\ s.do = "refresh" => ui' = Data!RefreshStreetLayers(ui, h, rest)
        /\ s.do = "pass" => ui' = Data!VisibilityPass(ui, h, rest)
    BY <1>3
  <2> HIDE DEF s, rest
  <2> QED BY <1>3, <2>1, <2>2, HandlerStepSound DEF s, rest
<1> QED BY <1>2, <1>3

(* A request that has settled: nobody waits for it any more.               *)
LEMMA SettledSound ==
    ASSUME DataSound(ui), NEW r \in ui.net, NEW v, DataFields \subseteq DOMAIN v,
           \A f \in DataFields \ {"info", "flag", "net", "runs"} : v[f] = ui[f],
           v.net = ui.net \ {r},
           \A g \in v.runs : /\ {"todo", "wait"} \subseteq DOMAIN g
                             /\ \E h \in ui.runs : g.todo = h.todo /\ g.wait = h.wait \ {r.id},
           \A h \in ui.runs : \E g \in v.runs : g.todo = h.todo /\ g.wait = h.wait \ {r.id},
           (\A g, h \in ui.runs : g = h) => \A g, h \in v.runs : g = h,
           DOMAIN v.flag = StreetModes, DOMAIN v.info = StreetModes,
           \A x \in StreetModes : "area" \in DOMAIN v.info[x],
           \A x \in StreetModes \ {r.key} : v.flag[x] = ui.flag[x] /\ v.info[x].area = ui.info[x].area,
           r.key \in StreetModes => ~v.flag[r.key] \/ (~r.dead /\ v.info[r.key].area = r.area)
    PROVE  DataSound(v)
<1>1. v.crossed = ui.crossed /\ v.last = ui.last /\ v.sel = ui.sel /\ v.saved = ui.saved
  BY DEF DataFields
<1>2. DataTyped(v)
  BY <1>1 DEF DataSound, DataTyped
<1>3. StreetsAsked(v) = StreetsAsked(ui) \ {r}
  BY DEF StreetsAsked
<1>4. ASSUME ~ui.crossed PROVE FlagsSound(v)
  <2>1. FlagsSound(ui)
    BY <1>4 DEF DataSound
  <2>2. \A q \in ui.net : q.id = r.id => q = r
    BY DEF DataSound, DataTyped
  <2>3. \A q \in StreetsAsked(v) : q.area = v.sel /\ \E g \in v.runs : q.id \in g.wait
    <3> TAKE q \in StreetsAsked(v)
    <3>1. q \in StreetsAsked(ui) /\ q.id # r.id
      BY <1>3, <2>2 DEF StreetsAsked
    <3> QED BY <1>1, <2>1, <3>1 DEF FlagsSound
  <2>4. ASSUME NEW x \in StreetModes, v.flag[x]
        PROVE  \/ v.sel = NoArea \/ v.info[x].area = v.sel
               \/ \E q \in StreetsAsked(v) : q.key = x
               \/ \E g \in v.runs : ResetAhead(g.todo)
    <3>1. CASE x = r.key
      <4>1. r \in StreetsAsked(ui)
        BY <2>4, <3>1 DEF StreetsAsked
      <4> QED BY <1>1, <2>1, <2>4, <3>1, <4>1 DEF FlagsSound
    <3>2. CASE x # r.key
      <4>1. \/ ui.sel = NoArea \/ ui.info[x].area = ui.sel
            \/ \E q \in StreetsAsked(ui) : q.key = x
            \/ \E h \in ui.runs : ResetAhead(h.todo)
        BY <2>1, <2>4, <3>2 DEF FlagsSound
      <4>2. ASSUME NEW h \in ui.runs, ResetAhead(h.todo) PROVE \E g \in v.runs : ResetAhead(g.todo)
        <5> PICK g \in v.runs : g.todo = h.todo
          OBVIOUS
        <5> QED BY <4>2
      <4> QED BY <1>1, <1>3, <3>2, <4>1, <4>2
    <3> QED BY <3>1, <3>2
  <2>5. \A g, h \in v.runs : g = h
    BY <2>1 DEF FlagsSound
  <2> QED BY <2>3, <2>4, <2>5 DEF FlagsSound
<1> QED BY <1>1, <1>2, <1>4 DEF DataSound

(* What speaks of none of the fields.                                      *)
LEMMA DataApart ==
    ASSUME DataSound(ui), NEW v, DataFields \subseteq DOMAIN v, \A f \in DataFields : v[f] = ui[f]
    PROVE  DataSound(v)
<1>1. /\ v.crossed = ui.crossed /\ v.last = ui.last /\ v.sel = ui.sel /\ v.saved = ui.saved
      /\ v.flag = ui.flag /\ v.net = ui.net /\ v.runs = ui.runs /\ v.info = ui.info
  BY DEF DataFields
<1> QED BY <1>1 DEF DataSound, DataTyped, FlagsSound, StreetsAsked

LEMMA RequestSettledSound ==
    ASSUME DataSound(ui), NEW r \in ui.net,
           Data!TripsArrive(r) \/ Data!StreetsArrive(r) \/ Data!BoundaryArrives(r) \/ Data!RequestEnds(r)
    PROVE  DataSound(ui')
<1> DEFINE u == Data!Finally(ui, r)
           Freed(h) == [h EXCEPT !.wait = @ \ {r.id}]
           rs == {Freed(h) : h \in ui.runs}
<1>1. DataTyped(ui)
  BY DEF DataSound
<1>2. \A h \in ui.runs : {"todo", "wait"} \subseteq DOMAIN h
  BY <1>1 DEF DataTyped
<1>3. \A h \in ui.runs : {"todo", "wait"} \subseteq DOMAIN Freed(h) /\ Freed(h).todo = h.todo /\ Freed(h).wait = h.wait \ {r.id}
  BY <1>2
<1> HIDE DEF Freed
<1>4. /\ \A g \in rs : /\ {"todo", "wait"} \subseteq DOMAIN g
                       /\ \E h \in ui.runs : g.todo = h.todo /\ g.wait = h.wait \ {r.id}
      /\ \A h \in ui.runs : \E g \in rs : g.todo = h.todo /\ g.wait = h.wait \ {r.id}
      /\ (\A g, h \in ui.runs : g = h) => \A g, h \in rs : g = h
  BY <1>3
<1>5. u.runs = rs /\ u.net = ui.net \ {r} /\ u.flag = ui.flag /\ u.info = ui.info
  BY <1>1 DEF Data!Finally, DataTyped, DataFields, Freed
<1>6. DataFields \subseteq DOMAIN u /\ \A f \in DataFields \ {"info", "flag", "net", "runs"} : u[f] = ui[f]
  BY <1>1 DEF Data!Finally, DataTyped, DataFields
<1>7. /\ DOMAIN ui.flag = StreetModes /\ DOMAIN ui.info = StreetModes
      /\ \A x \in StreetModes : "area" \in DOMAIN ui.info[x]
  BY <1>1 DEF DataTyped
<1> HIDE DEF rs, u
<1>8. r.key \notin StreetModes => DataSound(u)
  BY <1>4, <1>5, <1>6, <1>7, SettledSound
<1> DEFINE kept == Data!Keep(u, r)
<1>15. DataFields \subseteq DOMAIN kept /\ \A f \in DataFields : kept[f] = u[f]
  BY <1>6 DEF Data!Keep, DataFields
<1> HIDE DEF kept
<1>16. /\ kept.runs = rs /\ kept.net = ui.net \ {r} /\ kept.flag = ui.flag /\ kept.info = ui.info
       /\ \A f \in DataFields \ {"info", "flag", "net", "runs"} : kept[f] = ui[f]
  BY <1>5, <1>6, <1>15 DEF DataFields
<1>17. r.key \notin StreetModes => DataSound(kept)
  BY <1>4, <1>7, <1>15, <1>16, SettledSound
<1>9. ASSUME NEW v, \/ DataSound(u) /\ v = [u EXCEPT !.stale = @ \/ ~r.dead]
                    \/ DataSound(kept) /\ v = [kept EXCEPT !.queue = Append(@, [day |-> r.day, area |-> r.area])]
      PROVE  DataSound(v)
  BY <1>9 DEF DataSound, DataTyped, FlagsSound, StreetsAsked, DataFields
<1>10. CASE Data!TripsArrive(r)
  BY <1>9, <1>10, <1>17, StreetsAssumption DEF Data!TripsArrive, u, kept
<1>11. CASE Data!StreetsArrive(r)
  <2> DEFINE v == Data!DrawStreets(kept, r.key, r.area)
  <2>1. ui' = v /\ r.key \in StreetModes /\ ~r.dead
    BY <1>11 DEF Data!StreetsArrive, u, kept
  <2>2. /\ DataFields \subseteq DOMAIN v /\ \A f \in DataFields \ {"info"} : v[f] = kept[f]
        /\ DOMAIN v.info = StreetModes /\ v.info[r.key].area = r.area
        /\ \A x \in StreetModes : "area" \in DOMAIN v.info[x] /\ (x # r.key => v.info[x] = ui.info[x])
    BY <1>7, <1>15, <1>16, <2>1, DrawStreetsSound
  <2> HIDE DEF v
  <2>3. v.runs = rs /\ v.net = ui.net \ {r} /\ v.flag = ui.flag
    BY <1>16, <2>2 DEF DataFields
  <2>4. \A f \in DataFields \ {"info", "flag", "net", "runs"} : v[f] = ui[f]
    BY <1>16, <2>2
  <2> QED BY <1>4, <1>7, <2>1, <2>2, <2>3, <2>4, SettledSound
<1>12. CASE Data!BoundaryArrives(r) \/ (Data!RequestEnds(r) /\ r.key \notin StreetModes \cup {"trips"})
  <2> DEFINE Got(h) == [h EXCEPT !.ok = IF r.id \in h.wait THEN TRUE ELSE @, !.wait = @ \ {r.id}]
             Lost(h) == [h EXCEPT !.ok = IF r.id \in h.wait THEN FALSE ELSE @, !.wait = @ \ {r.id}]
             got == {Got(h) : h \in ui.runs}
             lost == {Lost(h) : h \in ui.runs}
             v == [u EXCEPT !.cache = @ \cup {r.area}, !.runs = got]
             w == [u EXCEPT !.runs = lost]
  <2>1. ui' \in {v, w} /\ r.key \notin StreetModes
    BY <1>12, StreetsAssumption DEF Data!BoundaryArrives, Data!RequestEnds, u
  <2>2. \A h \in ui.runs : /\ {"todo", "wait"} \subseteq DOMAIN Got(h) /\ Got(h).todo = h.todo /\ Got(h).wait = h.wait \ {r.id}
                           /\ {"todo", "wait"} \subseteq DOMAIN Lost(h) /\ Lost(h).todo = h.todo /\ Lost(h).wait = h.wait \ {r.id}
    BY <1>2
  <2> HIDE DEF Got, Lost
  <2>3. /\ \A g \in got : /\ {"todo", "wait"} \subseteq DOMAIN g
                          /\ \E h \in ui.runs : g.todo = h.todo /\ g.wait = h.wait \ {r.id}
        /\ \A h \in ui.runs : \E g \in got : g.todo = h.todo /\ g.wait = h.wait \ {r.id}
        /\ (\A g, h \in ui.runs : g = h) => \A g, h \in got : g = h
    BY <2>2
  <2>4. /\ \A g \in lost : /\ {"todo", "wait"} \subseteq DOMAIN g
                           /\ \E h \in ui.runs : g.todo = h.todo /\ g.wait = h.wait \ {r.id}
        /\ \A h \in ui.runs : \E g \in lost : g.todo = h.todo /\ g.wait = h.wait \ {r.id}
        /\ (\A g, h \in ui.runs : g = h) => \A g, h \in lost : g = h
    BY <2>2
  <2> HIDE DEF got, lost
  <2>5. /\ v.runs = got /\ DataFields \subseteq DOMAIN v /\ \A f \in DataFields \ {"runs"} : v[f] = u[f]
        /\ w.runs = lost /\ DataFields \subseteq DOMAIN w /\ \A f \in DataFields \ {"runs"} : w[f] = u[f]
    BY <1>6 DEF DataFields
  <2> HIDE DEF v, w
  <2>6. /\ v.net = ui.net \ {r} /\ v.flag = ui.flag /\ v.info = ui.info
        /\ w.net = ui.net \ {r} /\ w.flag = ui.flag /\ w.info = ui.info
    BY <1>5, <2>5 DEF DataFields
  <2>7. \A f \in DataFields \ {"info", "flag", "net", "runs"} : v[f] = ui[f] /\ w[f] = ui[f]
    BY <1>6, <2>5
  <2>8. DataSound(v)
    BY <1>7, <2>1, <2>3, <2>5, <2>6, <2>7, SettledSound
  <2>9. DataSound(w)
    BY <1>7, <2>1, <2>4, <2>5, <2>6, <2>7, SettledSound
  <2> QED BY <2>1, <2>8, <2>9, SMTT(30)
<1>13. CASE Data!RequestEnds(r) /\ r.key = "trips"
  BY <1>8, <1>9, <1>13, StreetsAssumption DEF Data!RequestEnds, u
<1>14. CASE Data!RequestEnds(r) /\ r.key \in StreetModes
  <2> DEFINE f == [u.flag EXCEPT ![r.key] = FALSE]
             v == [u EXCEPT !.flag[r.key] = FALSE, !.failed = @ \cup {r.key}]
  <2>1. ui' = v /\ r.key \in StreetModes
    BY <1>14 DEF Data!RequestEnds, u
  <2>2. DOMAIN f = StreetModes /\ ~f[r.key] /\ \A x \in StreetModes \ {r.key} : f[x] = ui.flag[x]
    BY <1>5, <1>7, <2>1
  <2>3. v.flag = f /\ DataFields \subseteq DOMAIN v /\ \A g \in DataFields \ {"flag"} : v[g] = u[g]
    BY <1>6 DEF DataFields
  <2> HIDE DEF f, v
  <2>4. v.runs = rs /\ v.net = ui.net \ {r} /\ v.info = ui.info
    BY <1>5, <2>3 DEF DataFields
  <2>5. \A g \in DataFields \ {"info", "flag", "net", "runs"} : v[g] = ui[g]
    BY <1>6, <2>3
  <2> QED BY <1>4, <1>7, <2>1, <2>2, <2>3, <2>4, <2>5, SettledSound
<1> QED BY <1>10, <1>11, <1>12, <1>13, <1>14

(* The street modes are taken one by one, in some order.                   *)
LEMMA ModesListed ==
    Data!ModeOrder \in Seq(StreetModes) /\ Data!HideAll \in Seq(Steps)
<1> DEFINE n == Cardinality(StreetModes)
<1>1. n \in Nat /\ \E s \in [1..n -> StreetModes] : \A i, k \in DOMAIN s : s[i] = s[k] => i = k
  <2>1. n \in Nat /\ ExistsBijection(1..n, StreetModes)
    BY StreetsAssumption, FS_CardinalityType
  <2> QED BY <2>1 DEF ExistsBijection, Bijection, Injection, IsInjective
<1>2. Data!Cardinality(StreetModes) = n
  BY DEF Cardinality, Data!Cardinality
<1> HIDE DEF n
<1>3. Data!ModeOrder \in [1..n -> StreetModes]
  BY <1>1, <1>2 DEF Data!ModeOrder
<1>4. Data!ModeOrder \in Seq(StreetModes)
  BY <1>1, <1>3
<1>5. ASSUME NEW x \in StreetModes PROVE Data!Do("hide", x) \in Steps
  BY DEF Steps, Data!Step, Data!Do
<1>6. Data!HideAll \in [1..n -> Steps]
  BY <1>3, <1>5 DEF Data!HideAll
<1>7. Data!HideAll \in Seq(Steps)
  BY <1>1, <1>6
<1> QED BY <1>4, <1>7

LEMMA HandlerSound ==
    ASSUME NEW u, DataTyped(u), NEW id, NEW todo \in Seq(Steps), NEW wait,
           ~u.crossed /\ u.runs = {} =>
               /\ \A r \in StreetsAsked(u) : r.area = u.sel /\ r.id \in wait
               /\ \A x \in StreetModes : u.flag[x] =>
                     \/ u.sel = NoArea \/ u.info[x].area = u.sel
                     \/ \E r \in StreetsAsked(u) : r.key = x
                     \/ ResetAhead(todo)
    PROVE  DataSound(Data!Handler(u, id, todo, wait))
<1> DEFINE g == [id |-> id, todo |-> todo, wait |-> wait, ok |-> TRUE]
           rs == u.runs \cup {g}
           c == u.crossed \/ u.runs # {}
           w == [u EXCEPT !.runs = rs, !.crossed = c]
<1>1. Data!Handler(u, id, todo, wait) = w
  BY DEF Data!Handler
<1>2. {"todo", "wait"} \subseteq DOMAIN g /\ g.todo = todo /\ g.wait = wait
  OBVIOUS
<1> HIDE DEF g
<1>3. \A x \in rs : {"todo", "wait"} \subseteq DOMAIN x /\ x.todo \in Seq(Steps)
  BY <1>2 DEF DataTyped
<1>4. c \in BOOLEAN
  BY DEF DataTyped
<1>5. /\ DataFields \subseteq DOMAIN w /\ w.runs = rs /\ w.crossed = c /\ w.last = u.last /\ w.sel = u.sel
      /\ w.saved = u.saved /\ w.flag = u.flag /\ w.info = u.info /\ w.net = u.net
  BY DEF DataTyped, DataFields
<1> HIDE DEF w
<1>6. DataTyped(w) /\ StreetsAsked(w) = StreetsAsked(u)
  <2> HIDE DEF rs, c
  <2> QED BY <1>3, <1>4, <1>5 DEF DataTyped, StreetsAsked
<1>7. ASSUME ~w.crossed PROVE FlagsSound(w)
  <2>1. ~u.crossed /\ u.runs = {} /\ w.runs = {g}
    BY <1>5, <1>7
  <2> QED BY <1>2, <1>5, <1>6, <2>1 DEF FlagsSound
<1> QED BY <1>1, <1>6, <1>7 DEF DataSound

(* Without a handler no streets are asked for, and no reset is to come.    *)
LEMMA QuietSound ==
    ASSUME DataSound(ui), ~ui.crossed, ui.runs = {}
    PROVE  /\ StreetsAsked(ui) = {}
           /\ \A x \in StreetModes : ui.flag[x] => ui.sel = NoArea \/ ui.info[x].area = ui.sel
BY DEF DataSound, FlagsSound

LEMMA TripsAsked ==
    ASSUME NEW u, DataTyped(u)
    PROVE  LET v == Data!FetchTrips(u) IN
           /\ DataTyped(v) /\ v.last \in {u.last, u.last + 1}
           /\ \A f \in DataFields \ {"net", "last"} : v[f] = u[f]
           /\ StreetsAsked(v) \subseteq StreetsAsked(u)
<1> DEFINE a == Data!Clipped(u.sel)
           kept == Data!Kept(u, "trips", a)
           o == \E r \in u.net : r.key = "trips" /\ ~r.dead /\ (kept \/ r.id # u.ctl["trips"])
           v == [u EXCEPT !.stale = FALSE, !.unowned = o]
           q == [v EXCEPT !.queue = Append(@, [day |-> u.day, area |-> a])]
           f == Data!Fetch(v, "trips", a)
<1>1. Data!FetchTrips(u) = IF kept THEN q ELSE f
  BY DEF Data!FetchTrips
<1> HIDE DEF a, kept, o
<1>2. DataFields \subseteq DOMAIN v /\ \A g \in DataFields : v[g] = u[g]
  BY DEF DataTyped, DataFields
<1>3. DataFields \subseteq DOMAIN q /\ \A g \in DataFields : q[g] = u[g]
  BY DEF DataTyped, DataFields
<1> HIDE DEF v, q
<1>4. DataTyped(v) /\ StreetsAsked(v) = StreetsAsked(u) /\ v.last = u.last
  BY <1>2, DataTypedApart DEF DataFields
<1>5. DataTyped(q) /\ StreetsAsked(q) = StreetsAsked(u) /\ q.last = u.last
  BY <1>3, DataTypedApart DEF DataFields
<1>6. /\ DataTyped(f) /\ f.last = v.last + 1 /\ \A g \in DataFields \ {"net", "last"} : f[g] = v[g]
      /\ \A r \in StreetsAsked(f) : r.key = "trips" \/ r \in StreetsAsked(v)
  BY <1>4, FetchSound
<1> HIDE DEF f
<1>7. StreetsAsked(f) \subseteq StreetsAsked(u)
  BY <1>4, <1>6, StreetsAssumption DEF StreetsAsked
<1> QED BY <1>1, <1>2, <1>3, <1>4, <1>5, <1>6, <1>7

LEMMA SelectLocationSound ==
    ASSUME DataSound(ui), NEW a \in Areas \cup {NoArea}, Data!SelectLocation(a)
    PROVE  DataSound(ui')
<1> DEFINE s == [ui EXCEPT !.sel = a]
           u == Data!Acted(s)
           v == IF Clipping /\ a # ui.sel THEN Data!FetchTrips(u) ELSE u
           more == (IF a # ui.sel THEN Data!HideAll \o <<Data!Do("reset", NoArea)>> ELSE << >>)
           todo == IF a = NoArea THEN Data!HideAll ELSE more \o <<Data!Do("refresh", NoArea)>>
<1>1. ui' = Data!Handler(v, u.steps, todo, {})
  BY DEF Data!SelectLocation
<1>2. Data!Do("reset", NoArea) \in Steps /\ Data!Do("refresh", NoArea) \in Steps /\ Data!Do("reset", NoArea).do = "reset"
  BY DEF Steps, Data!Step, Data!Do
<1>3. todo \in Seq(Steps) /\ (a # NoArea /\ a # ui.sel => ResetAhead(todo))
  <2> DEFINE h == Data!HideAll
             p == <<Data!Do("reset", NoArea)>>
             q == <<Data!Do("refresh", NoArea)>>
  <2>1. h \in Seq(Steps) /\ p \in Seq(Steps) /\ q \in Seq(Steps) /\ p[1].do = "reset" /\ Len(p) = 1 /\ Len(q) = 1
    BY <1>2, ModesListed
  <2> HIDE DEF h, p, q
  <2>2. (h \o p) \o q \in Seq(Steps) /\ << >> \o q \in Seq(Steps) /\ h \o p \in Seq(Steps)
    BY <2>1
  <2>3. ResetAhead((h \o p) \o q)
    <3>1. ResetAhead(p)
      BY <2>1 DEF ResetAhead
    <3>2. ResetAhead(h \o p)
      BY <2>1, <3>1, ResetOfEither
    <3> QED BY <2>1, <2>2, <3>2, ResetOfEither
  <2> QED BY <2>1, <2>2, <2>3 DEF h, p, q
<1>4. DataTyped(ui)
  BY DEF DataSound
<1>5. /\ DataFields \subseteq DOMAIN u /\ u.sel = a /\ u.saved = ui.saved /\ u.info = ui.info /\ u.flag = ui.flag
      /\ u.net = ui.net /\ u.last = ui.last /\ u.runs = ui.runs /\ u.crossed = ui.crossed
  BY <1>4 DEF DataTyped, DataFields, Data!Acted
<1> HIDE DEF u, todo
<1>6. DataTyped(u) /\ StreetsAsked(u) = StreetsAsked(ui)
  BY <1>4, <1>5 DEF DataTyped, StreetsAsked
<1>7. /\ DataTyped(v) /\ StreetsAsked(v) \subseteq StreetsAsked(ui) /\ v.crossed = ui.crossed /\ v.runs = ui.runs
      /\ v.sel = a /\ v.flag = ui.flag /\ v.info = ui.info
  <2>1. CASE Clipping /\ a # ui.sel
    <3>1. /\ v = Data!FetchTrips(u) /\ DataTyped(v) /\ \A f \in DataFields \ {"net", "last"} : v[f] = u[f]
          /\ StreetsAsked(v) \subseteq StreetsAsked(u)
      BY <1>6, <2>1, TripsAsked
    <3> HIDE DEF v
    <3> QED BY <1>5, <1>6, <3>1 DEF DataFields
  <2>2. CASE ~(Clipping /\ a # ui.sel)
    BY <1>5, <1>6, <2>2
  <2> QED BY <2>1, <2>2
<1> HIDE DEF v
<1>8. ASSUME ~v.crossed, v.runs = {}
      PROVE  /\ StreetsAsked(v) = {}
             /\ \A x \in StreetModes : v.flag[x] => v.sel = NoArea \/ v.info[x].area = v.sel \/ ResetAhead(todo)
  BY <1>3, <1>7, <1>8, QuietSound
<1> QED BY <1>1, <1>3, <1>7, <1>8, HandlerSound

LEMMA StreetModeChangeSound ==
    ASSUME DataSound(ui), NEW mode \in StreetModes, NEW hide \in BOOLEAN, Data!StreetModeChange(mode, hide)
    PROVE  DataSound(ui')
<1> DEFINE s == [ui EXCEPT !.saved = IF hide THEN NoMode ELSE mode]
           u == Data!Acted(s)
           order == Data!ModeOrder
           todo == [i \in DOMAIN order |-> Data!Do(IF order[i] = mode /\ ~hide THEN "show" ELSE "hide", order[i])]
<1>1. ui' = Data!Handler(u, u.steps, todo, {})
  BY DEF Data!StreetModeChange
<1>2. todo \in Seq(Steps)
  <2>1. \A d \in {"show", "hide"}, x \in StreetModes : Data!Do(d, x) \in Steps
    BY DEF Steps, Data!Step, Data!Do
  <2>2. order \in Seq(StreetModes)
    BY ModesListed
  <2> HIDE DEF order
  <2>3. todo \in [1..Len(order) -> Steps]
    BY <2>1, <2>2
  <2> QED BY <2>2, <2>3
<1>3. DataTyped(ui)
  BY DEF DataSound
<1>4. /\ DataFields \subseteq DOMAIN u /\ u.sel = ui.sel /\ u.saved \in StreetModes \cup {NoMode} /\ u.info = ui.info
      /\ u.flag = ui.flag /\ u.net = ui.net /\ u.last = ui.last /\ u.runs = ui.runs /\ u.crossed = ui.crossed
  BY <1>3 DEF DataTyped, DataFields, Data!Acted
<1> HIDE DEF u, todo
<1>5. DataTyped(u) /\ StreetsAsked(u) = StreetsAsked(ui)
  BY <1>3, <1>4 DEF DataTyped, StreetsAsked
<1>6. ASSUME ~u.crossed, u.runs = {}
      PROVE  /\ StreetsAsked(u) = {}
             /\ \A x \in StreetModes : u.flag[x] => u.sel = NoArea \/ u.info[x].area = u.sel
  BY <1>4, <1>5, <1>6, QuietSound
<1> QED BY <1>1, <1>2, <1>5, <1>6, HandlerSound

(* What was asked for before is aborted, where its controller is known;    *)
(* trips and streets are waited for together.                              *)
LEMMA FiltersAppliedSound ==
    ASSUME DataSound(ui), NEW d, Data!FiltersApplied(d)
    PROVE  DataSound(ui')
<1> DEFINE Dead(r) == [r EXCEPT !.dead = @ \/ r.id = ui.ctl[r.key]]
           dead == {Dead(r) : r \in ui.net}
           none == [x \in Data!Keys |-> 0]
           s == [ui EXCEPT !.day = d, !.net = dead, !.ctl = none, !.answers = {}]
           u == Data!Acted(s)
           wanted == {x \in StreetModes : u.info[x].vis /\ ~u.flag[x] /\ u.sel # NoArea}
           v == Data!FetchTrips(u)
           x == CHOOSE y \in wanted : TRUE
           f == [v.flag EXCEPT ![x] = TRUE]
           g == [v EXCEPT !.flag[x] = TRUE, !.failed = @ \ {x}]
           n == Data!Fetch(g, x, v.sel)
           w == IF wanted = {} THEN v ELSE n
           todo == <<Data!Do("pass", NoArea)>>
           wait == (u.last + 1)..w.last
<1>1. ui' = Data!Handler(w, u.steps, todo, wait)
  BY DEF Data!FiltersApplied
<1>2. todo \in Seq(Steps)
  BY DEF Steps, Data!Step, Data!Do
<1>3. DataTyped(ui)
  BY DEF DataSound
<1>4. \A r \in ui.net : /\ RequestFields \subseteq DOMAIN Dead(r) /\ Dead(r).id = r.id
                        /\ ~Dead(r).dead => Dead(r).key = r.key /\ Dead(r).area = r.area /\ ~r.dead
  BY <1>3 DEF DataTyped, RequestFields
<1> HIDE DEF Dead
<1>5. /\ \A r \in dead : /\ RequestFields \subseteq DOMAIN r /\ r.id \in 1..ui.last
                         /\ ~r.dead /\ r.key \in StreetModes => \E q \in StreetsAsked(ui) : TRUE
      /\ \A q, r \in dead : q.id = r.id => q = r
  <2>1. /\ \A r \in ui.net : r.id \in 1..ui.last
        /\ \A q, r \in ui.net : q.id = r.id => q = r
    BY <1>3 DEF DataTyped
  <2>2. ASSUME NEW r \in dead
        PROVE  /\ RequestFields \subseteq DOMAIN r /\ r.id \in 1..ui.last
               /\ ~r.dead /\ r.key \in StreetModes => \E q \in StreetsAsked(ui) : TRUE
    <3>1. PICK q \in ui.net : r = Dead(q)
      OBVIOUS
    <3>2. /\ RequestFields \subseteq DOMAIN Dead(q) /\ Dead(q).id \in 1..ui.last
          /\ ~Dead(q).dead => Dead(q).key = q.key /\ ~q.dead
      BY <1>4, <2>1
    <3>3. ~r.dead /\ r.key \in StreetModes => q \in StreetsAsked(ui)
      BY <3>1, <3>2 DEF StreetsAsked
    <3> QED BY <3>1, <3>2, <3>3
  <2>3. ASSUME NEW q \in dead, NEW r \in dead, q.id = r.id PROVE q = r
    <3>1. PICK a \in ui.net, b \in ui.net : q = Dead(a) /\ r = Dead(b)
      OBVIOUS
    <3>2. a.id = b.id
      BY <1>4, <2>3, <3>1
    <3> QED BY <2>1, <3>1, <3>2
  <2> HIDE DEF dead
  <2> QED BY <2>2, <2>3
<1> HIDE DEF dead, none
<1>6. /\ DataFields \subseteq DOMAIN u /\ u.sel = ui.sel /\ u.saved = ui.saved /\ u.info = ui.info
      /\ u.flag = ui.flag /\ u.net = dead /\ u.last = ui.last /\ u.runs = ui.runs /\ u.crossed = ui.crossed
  BY <1>3 DEF DataTyped, DataFields, Data!Acted
<1> HIDE DEF u, todo
<1>7. DataTyped(u) /\ (StreetsAsked(ui) = {} => StreetsAsked(u) = {}) /\ u.last \in Nat
  <2>1. StreetsAsked(ui) = {} => StreetsAsked(u) = {}
    BY <1>5, <1>6 DEF StreetsAsked
  <2> QED BY <1>3, <1>5, <1>6, <2>1 DEF DataTyped
<1>8. /\ DataTyped(v) /\ v.last \in {u.last, u.last + 1} /\ StreetsAsked(v) \subseteq StreetsAsked(u)
      /\ \A k \in DataFields \ {"net", "last"} : v[k] = u[k]
  BY <1>7, TripsAsked
<1> HIDE DEF v
<1>9. v.crossed = ui.crossed /\ v.runs = ui.runs /\ v.sel = ui.sel /\ v.flag = ui.flag /\ v.info = ui.info /\ v.saved = ui.saved
  BY <1>6, <1>8 DEF DataFields
<1>12. ~ui.crossed /\ ui.runs = {} => StreetsAsked(v) = {}
  BY <1>7, <1>8, QuietSound
<1>10. CASE wanted = {}
  <2>1. w = v
    BY <1>10
  <2>2. ASSUME ~v.crossed, v.runs = {}
        PROVE  /\ StreetsAsked(v) = {}
               /\ \A y \in StreetModes : v.flag[y] => v.sel = NoArea \/ v.info[y].area = v.sel
    BY <1>9, <1>12, <2>2, QuietSound
  <2> HIDE DEF w, wait
  <2> QED BY <1>1, <1>2, <1>8, <2>1, <2>2, HandlerSound
<1>11. CASE wanted # {}
  <2>1. x \in StreetModes /\ w = n
    BY <1>11
  <2> HIDE DEF x
  <2>2. DOMAIN f = StreetModes /\ f[x] = TRUE /\ \A y \in StreetModes : y # x => f[y] = ui.flag[y]
    BY <1>8, <1>9, <2>1 DEF DataTyped
  <2>3. /\ DataFields \subseteq DOMAIN g /\ g.flag = f /\ g.info = v.info /\ g.crossed = v.crossed /\ g.last = v.last
        /\ g.sel = v.sel /\ g.saved = v.saved /\ g.net = v.net /\ g.runs = v.runs
    BY <1>8 DEF DataTyped, DataFields
  <2> HIDE DEF f, g
  <2>4. DataTyped(g) /\ StreetsAsked(g) = StreetsAsked(v)
    BY <1>8, <2>2, <2>3 DEF DataTyped, StreetsAsked
  <2>5. /\ DataTyped(n) /\ n.last = g.last + 1 /\ \A k \in DataFields \ {"net", "last"} : n[k] = g[k]
        /\ \A r \in StreetsAsked(n) : (r.id = g.last + 1 /\ r.key = x /\ r.area = v.sel) \/ r \in StreetsAsked(g)
        /\ \E r \in StreetsAsked(n) : r.key = x /\ r.id = g.last + 1
    BY <2>1, <2>4, FetchSound
  <2> HIDE DEF n
  <2>6. n.crossed = ui.crossed /\ n.runs = ui.runs /\ n.sel = ui.sel /\ n.flag = f /\ n.info = ui.info
    BY <1>9, <2>3, <2>5 DEF DataFields
  <2>7. ~n.crossed /\ n.runs = {} => \A r \in StreetsAsked(n) : r.area = n.sel /\ r.id \in wait
    <3>1. g.last + 1 \in (u.last + 1)..n.last
      BY <1>7, <1>8, <2>3, <2>5
    <3> QED BY <1>9, <1>12, <2>1, <2>3, <2>4, <2>5, <2>6, <3>1
  <2>8. ASSUME ~n.crossed, n.runs = {}, NEW y \in StreetModes, n.flag[y]
        PROVE  n.sel = NoArea \/ n.info[y].area = n.sel \/ \E r \in StreetsAsked(n) : r.key = y
    BY <2>2, <2>5, <2>6, <2>8, QuietSound
  <2> HIDE DEF w, wait
  <2> QED BY <1>1, <1>2, <2>1, <2>5, <2>7, <2>8, HandlerSound
<1> QED BY <1>10, <1>11, SMTT(30)

LEMMA FlagsKept ==
    ASSUME DataSound(ui), Data!Next
    PROVE  DataSound(ui')
<1>1. CASE Data!DecodeEnds
  BY <1>1, DataApart DEF Data!DecodeEnds, DataSound, DataTyped, DataFields
<1>2. CASE Data!AnswerExpires
  BY <1>2, DataApart DEF Data!AnswerExpires, DataSound, DataTyped, DataFields
<1> QED BY <1>1, <1>2, HandlerRunsSound, RequestSettledSound, SelectLocationSound, StreetModeChangeSound, FiltersAppliedSound
        DEF Data!Next, Data!Settle

LEMMA FlagsStart ==
    ASSUME Data!Init
    PROVE  DataSound(ui)
<1> PICK a \in {NoArea, CHOOSE x \in Areas : TRUE} \cap (Areas \cup {NoArea}) :
        ui = Data!FetchTrips([Data!Start EXCEPT !.sel = a, !.overlay = a, !.cache = {a} \ {NoArea}])
  BY DEF Data!Init
<1> DEFINE u == [Data!Start EXCEPT !.sel = a, !.overlay = a, !.cache = {a} \ {NoArea}]
<1>1. a \in Areas \cup {NoArea}
  OBVIOUS
<1>2. /\ DataFields \subseteq DOMAIN u /\ u.sel = a /\ u.saved = NoMode /\ u.last = 0 /\ u.net = {} /\ u.runs = {}
      /\ u.crossed = FALSE
      /\ u.flag = [x \in StreetModes |-> FALSE] /\ u.info = [x \in StreetModes |-> [vis |-> FALSE, area |-> NoArea]]
  BY DEF Data!Start, DataFields
<1> HIDE DEF u
<1>3. DataTyped(u) /\ StreetsAsked(u) = {}
  <2>1. DOMAIN u.flag = StreetModes /\ DOMAIN u.info = StreetModes /\ \A x \in StreetModes : "area" \in DOMAIN u.info[x]
    BY <1>2
  <2>2. \A r \in u.net : FALSE
    BY <1>2
  <2>3. \A h \in u.runs : FALSE
    BY <1>2
  <2>4. u.sel \in Areas \cup {NoArea} /\ u.saved \in StreetModes \cup {NoMode}
    BY <1>1, <1>2
  <2>5. u.crossed = FALSE /\ u.last = 0
    BY <1>2
  <2>6. u.crossed \in BOOLEAN
    BY <2>5
  <2> QED BY <1>2, <2>1, <2>2, <2>3, <2>4, <2>5, <2>6 DEF DataTyped, StreetsAsked
<1>4. ui = Data!FetchTrips(u)
  BY DEF u
<1>5. /\ DataTyped(ui) /\ StreetsAsked(ui) = {} /\ \A k \in DataFields \ {"net", "last"} : ui[k] = u[k]
  BY <1>3, <1>4, TripsAsked
<1>6. ui.runs = {} /\ ui.flag = [x \in StreetModes |-> FALSE]
  BY <1>2, <1>5 DEF DataFields
<1> QED BY <1>5, <1>6 DEF DataSound, FlagsSound

LEMMA FlagIsNotStuck ==
    ASSUME DataSound(ui)
    PROVE  Data!FlagNotStuck
BY DEF DataSound, DataTyped, FlagsSound, StreetsAsked, Data!FlagNotStuck, Data!Settled

-----------------------------------------------------------------------------
(* The parts together.                                                     *)

WaitingInv ==
    /\ page = "navigation" => HeardSound(ui)
    /\ page = "route" => FollowSound(ui)
    /\ page = "drive" => ProgressSound(ui)
    /\ page = "data" => DataSound(ui)

LEMMA WaitingInvariance == WebSpec => []WaitingInv
<1>1. WebInit => WaitingInv
  BY HeardStart, FollowStart, ProgressStart, FlagsStart DEF WebInit, WaitingInv
<1>2. WaitingInv /\ [WebNext]_<<vars, page, ui>> => WaitingInv'
  <2> SUFFICES ASSUME WaitingInv, [WebNext]_<<vars, page, ui>> PROVE WaitingInv'
    OBVIOUS
  <2>1. CASE UNCHANGED <<vars, page, ui>>
    BY <2>1 DEF WaitingInv
  <2>2. CASE WebNext
    <3>1. page' = page
      BY <2>2 DEF WebNext
    <3>2. ASSUME page = "navigation" PROVE HeardSound(ui')
      BY <2>2, <3>2, HeardKept DEF WebNext, WaitingInv
    <3>3. ASSUME page = "route" PROVE FollowSound(ui')
      BY <2>2, <3>3, FollowKept DEF WebNext, WaitingInv
    <3>4. ASSUME page = "drive" PROVE ProgressSound(ui')
      BY <2>2, <3>4, ProgressKept DEF WebNext, WaitingInv
    <3>5. ASSUME page = "data" PROVE DataSound(ui')
      BY <2>2, <3>5, FlagsKept DEF WebNext, WaitingInv
    <3> QED BY <3>1, <3>2, <3>3, <3>4, <3>5 DEF WaitingInv
  <2> QED BY <2>1, <2>2
<1>3. QED
  BY <1>1, <1>2, PTL DEF WebSpec

(* However answers, failures, cancellations and a change of area cross: a  *)
(* page that says it generates a route, shows a progress or keeps streets  *)
(* from being asked for again has something on its way that ends it, and   *)
(* no event source is left open (live-navigation, optimal-route,           *)
(* driving-navigation, data-manager.js). Where a model records that two    *)
(* loads of a page overlapped, the property does not speak.                *)
THEOREM WaitingHasOwner == WebSpec => []WaitingIsOwned
<1>1. WaitingInv => WaitingIsOwned
  BY GenerationIsHeard, TaskFollowed, ProgressIsOwned, FlagIsNotStuck DEF WaitingInv, WaitingIsOwned
<1>2. QED
  BY <1>1, WaitingInvariance, PTL
=============================================================================
