-------------------------- MODULE BrowserDataProofs -------------------------
(***************************************************************************)
(* What the pages of lists, dialogs and jobs say is done is done, and the  *)
(* periods of a range add up: proofs about BrowserDataPages, for any       *)
(* number of places, records, jobs and days. The page is chosen at the     *)
(* start and stays, so the invariant is one of each page: what is stored   *)
(* and shown of a job, its ends, the import by file, the places, the       *)
(* ranges. A step changes the page's record by the operators of its        *)
(* module, so most lemmas say what one operator keeps: the fields the      *)
(* invariant reads are listed (TrackFields, EndFields, UploadFields,       *)
(* VisitFields, RangeFields), and an operator that leaves them alone keeps *)
(* it.                                                                     *)
(***************************************************************************)
EXTENDS BrowserDataPages, FiniteSums, SequenceTheorems, TLAPS

(* The job tracker: what is remembered and shown of the active job.        *)
TrackFields == {"active", "minimized", "stored", "modal", "badge", "clock", "stream", "resuming", "mixed"}

Kept(r) == r = [job |-> r.job, minimized |-> r.minimized] /\ (r.job = 0 => r.minimized = FALSE)

Shown(u) ==
    /\ u.resuming = 0 => u.stored = [job |-> u.active, minimized |-> u.active # 0 /\ u.minimized]
    /\ u.modal = (IF u.minimized THEN 0 ELSE u.active)
    /\ (u.active # 0 /\ u.minimized => u.badge) /\ (u.badge => u.active # 0)
    /\ u.modal # 0 => u.clock
    /\ u.stream # 0 => u.stream = u.active

ShownSound(u) == TrackFields \subseteq DOMAIN u /\ Kept(u.stored) /\ (~u.mixed => Shown(u))

SameTrack(u, v) == TrackFields \subseteq DOMAIN v /\ \A f \in TrackFields : v[f] = u[f]

LEMMA SameTrackSound ==
    ASSUME NEW u, ShownSound(u), NEW v, SameTrack(u, v)
    PROVE  ShownSound(v)
<1>1. /\ v.active = u.active /\ v.minimized = u.minimized /\ v.stored = u.stored /\ v.modal = u.modal
      /\ v.badge = u.badge /\ v.clock = u.clock /\ v.stream = u.stream /\ v.resuming = u.resuming /\ v.mixed = u.mixed
  BY DEF SameTrack, TrackFields
<1> QED BY <1>1, Zenon DEF ShownSound, Shown, SameTrack

(* Whatever was shown, a page that stops tracking shows nothing.           *)
LEMMA TrackingHelpers ==
    ASSUME NEW u, TrackFields \subseteq DOMAIN u, NEW j
    PROVE  /\ SameTrack(u, Job!ClearTimeout(u)) /\ SameTrack(u, Job!StartPolling(u, j))
           /\ \A s : SameTrack(u, Job!HandleStageTransition(u, s))
           /\ SameTrack(u, Job!HandleDoneEvent(u, j))
           /\ \A p : SameTrack(u, Job!Waiting(u, p))
           /\ ShownSound(Job!StopTracking(u))
<1>1. SameTrack(u, Job!ClearTimeout(u)) /\ SameTrack(u, u)
  BY DEF SameTrack, Job!ClearTimeout, TrackFields
<1>2. SameTrack(u, Job!StartPolling(u, j))
  <2> DEFINE v == Job!ClearTimeout(u)
  <2>1. SameTrack(v, Job!StartPolling(u, j))
    <3> HIDE DEF v
    <3>1. Job!StartPolling(u, j) = v \/ \E x : Job!StartPolling(u, j) = [v EXCEPT !.polls = x]
      BY DEF Job!StartPolling, v
    <3>2. TrackFields \subseteq DOMAIN v
      BY <1>1 DEF SameTrack, v
    <3> QED BY <3>1, <3>2 DEF SameTrack, TrackFields
  <2> HIDE DEF v
  <2> QED BY <1>1, <2>1 DEF SameTrack, v
<1>3. \A s : SameTrack(u, Job!HandleStageTransition(u, s))
  BY DEF SameTrack, Job!HandleStageTransition, TrackFields
<1>4. SameTrack(u, Job!HandleDoneEvent(u, j))
  BY DEF SameTrack, Job!HandleDoneEvent, TrackFields
<1>5. \A p : SameTrack(u, Job!Waiting(u, p))
  BY DEF SameTrack, Job!Waiting, TrackFields
<1>6. ShownSound(Job!StopTracking(u))
  <2> DEFINE v == Job!ClearTimeout(u)
             w == [v EXCEPT !.stream = 0, !.clock = FALSE, !.active = 0, !.minimized = FALSE, !.stage = 0, !.seen = 0,
                            !.done = {}, !.modal = 0, !.badge = FALSE]
             x == Job!SaveJobState(w)
  <2>1. Job!StopTracking(u) = x
    BY DEF Job!StopTracking
  <2>2. TrackFields \subseteq DOMAIN v
    BY <1>1 DEF SameTrack
  <2> HIDE DEF v
  <2>3. /\ TrackFields \subseteq DOMAIN w /\ w.stream = 0 /\ w.clock = FALSE /\ w.active = 0 /\ w.minimized = FALSE
        /\ w.modal = 0 /\ w.badge = FALSE
    BY <2>2 DEF TrackFields
  <2> HIDE DEF w
  <2>4. /\ TrackFields \subseteq DOMAIN x /\ x.stream = 0 /\ x.clock = FALSE /\ x.active = 0 /\ x.minimized = FALSE
        /\ x.modal = 0 /\ x.badge = FALSE /\ x.stored = [job |-> 0, minimized |-> FALSE]
    BY <2>3 DEF TrackFields, Job!SaveJobState
  <2> HIDE DEF x
  <2>5. Kept(x.stored)
    BY <2>4 DEF Kept
  <2>6. x.stored = [job |-> x.active, minimized |-> x.active # 0 /\ x.minimized]
    BY <2>4
  <2>7. Shown(x)
    BY <2>4, <2>6 DEF Shown
  <2> QED BY <2>1, <2>4, <2>5, <2>7 DEF ShownSound
<1> QED BY <1>1, <1>2, <1>3, <1>4, <1>5, <1>6

LEMMA SavingShown ==
    ASSUME NEW u, TrackFields \subseteq DOMAIN u, ~u.mixed => Shown([u EXCEPT !.stored = [job |-> u.active, minimized |-> u.active # 0 /\ u.minimized]])
    PROVE  ShownSound(Job!SaveJobState(u))
<1> DEFINE v == Job!SaveJobState(u)
<1>1. /\ TrackFields \subseteq DOMAIN v /\ v.mixed = u.mixed /\ v.stored = [job |-> u.active, minimized |-> u.active # 0 /\ u.minimized]
      /\ v = [u EXCEPT !.stored = [job |-> u.active, minimized |-> u.active # 0 /\ u.minimized]]
  BY DEF TrackFields, Job!SaveJobState
<1> HIDE DEF v
<1>2. v.stored.job = u.active /\ v.stored.minimized = (u.active # 0 /\ u.minimized)
  BY <1>1
<1>3. v.stored = [job |-> v.stored.job, minimized |-> v.stored.minimized]
  BY <1>1
<1>4. Kept(v.stored)
  BY <1>2, <1>3 DEF Kept
<1> QED BY <1>1, <1>4 DEF ShownSound, v

(* What is saved while a job is shown is what is shown.                    *)
LEMMA SavingKept ==
    ASSUME NEW u, ShownSound(u)
    PROVE  ShownSound(Job!SaveJobState(u))
<1> DEFINE v == [u EXCEPT !.stored = [job |-> u.active, minimized |-> u.active # 0 /\ u.minimized]]
<1>1. TrackFields \subseteq DOMAIN u
  BY DEF ShownSound
<1>2. /\ v.active = u.active /\ v.minimized = u.minimized /\ v.modal = u.modal /\ v.badge = u.badge /\ v.clock = u.clock
      /\ v.stream = u.stream /\ v.stored = [job |-> u.active, minimized |-> u.active # 0 /\ u.minimized]
  BY <1>1 DEF TrackFields
<1> HIDE DEF v
<1>3. ~u.mixed => Shown(v)
  BY <1>2 DEF ShownSound, Shown
<1> QED BY <1>1, <1>3, SavingShown DEF v

LEMMA ProgressShown ==
    ASSUME NEW u, ShownSound(u), NEW s
    PROVE  ShownSound(Job!Progressed(u, s)) /\ ShownSound(Job!Polled(u, s))
<1> DEFINE v == Job!HandleStageTransition(u, s)
           w == [v EXCEPT !.seen = s]
           x(n) == [u EXCEPT !.seen = n]
<1>1. TrackFields \subseteq DOMAIN u
  BY DEF ShownSound
<1>2. ShownSound(v) /\ \A n : SameTrack(u, x(n))
  BY <1>1, TrackingHelpers, SameTrackSound DEF SameTrack, TrackFields
<1>3. /\ Job!Progressed(u, s) = Job!SaveJobState(w) \/ \E n : Job!Progressed(u, s) = Job!SaveJobState(x(n))
      /\ Job!Polled(u, s) = Job!SaveJobState(w) \/ \E n : Job!Polled(u, s) = Job!SaveJobState(x(n))
  BY DEF Job!Progressed, Job!Polled
<1> HIDE DEF v
<1>4. SameTrack(v, w)
  BY <1>2 DEF ShownSound, SameTrack, TrackFields
<1> HIDE DEF w, x
<1> QED BY <1>2, <1>3, <1>4, SameTrackSound, SavingKept

(* A job is active, and in the dialog or the badge, when it gets a stream. *)
LEMMA ConnectShown ==
    ASSUME NEW u, TrackFields \subseteq DOMAIN u, NEW j, j # 0, u.active = j, Kept(u.stored),
           u.stored = [job |-> j, minimized |-> j # 0 /\ u.minimized],
           ~u.mixed => /\ u.modal = IF u.minimized THEN 0 ELSE j
                       /\ (u.minimized => u.badge) /\ (u.modal # 0 => u.clock)
    PROVE  ShownSound(Job!ConnectSSE(u, j))
<1> DEFINE v == [u EXCEPT !.stream = j]
<1>1. /\ TrackFields \subseteq DOMAIN v /\ v.active = j /\ v.minimized = u.minimized /\ v.stored = u.stored /\ v.modal = u.modal
      /\ v.badge = u.badge /\ v.clock = u.clock /\ v.stream = j /\ v.mixed = u.mixed
  BY DEF TrackFields
<1>2. Job!ConnectSSE(u, j) = Job!StartPolling(v, j)
  BY DEF Job!ConnectSSE
<1> HIDE DEF v
<1>3. v.stored = [job |-> v.active, minimized |-> v.active # 0 /\ v.minimized]
  BY <1>1
<1>4. ~v.mixed => Shown(v)
  BY <1>1, <1>3 DEF Shown
<1>5. ShownSound(v)
  BY <1>1, <1>4 DEF ShownSound
<1> QED BY <1>2, <1>5, TrackingHelpers, SameTrackSound DEF ShownSound

LEMMA JobsArePositive == \A j \in Job!Jobs : j # 0
<1>1. ASSUME NEW j \in Job!Jobs PROVE j # 0
  <2>1. PICK s \in Scales : j \in 1..s.jobs
    BY DEF Job!Jobs
  <2>2. s.jobs \in Nat
    BY ScalesAssumption
  <2> QED BY <2>1, <2>2
<1> QED BY <1>1

LEMMA StartShown ==
    ASSUME ShownSound(ui), NEW j \in Job!Jobs, Job!StartGlobalTracking(j)
    PROVE  ShownSound(ui')
<1> DEFINE a == [ui EXCEPT !.jobs[j].status = "pending", !.active = j, !.minimized = FALSE, !.stage = 0, !.seen = 0, !.done = {}]
           b == Job!SaveJobState(a)
           c == Job!RenderProgressModal(b)
<1>1. ui' = Job!ConnectSSE(c, j)
  BY DEF Job!StartGlobalTracking
<1>2. TrackFields \subseteq DOMAIN a /\ a.active = j /\ a.minimized = FALSE /\ a.mixed = ui.mixed
  BY DEF ShownSound, TrackFields
<1> HIDE DEF a
<1>3. /\ TrackFields \subseteq DOMAIN b /\ b.active = j /\ b.minimized = FALSE /\ b.mixed = ui.mixed
      /\ b.stored = [job |-> j, minimized |-> FALSE]
  BY <1>2 DEF TrackFields, Job!SaveJobState
<1> HIDE DEF b
<1>4. /\ TrackFields \subseteq DOMAIN c /\ c.active = j /\ c.minimized = FALSE
      /\ c.stored = [job |-> j, minimized |-> FALSE] /\ c.modal = j /\ c.clock = TRUE
  BY <1>3 DEF TrackFields, Job!RenderProgressModal
<1> HIDE DEF c
<1>5. j # 0
  BY JobsArePositive
<1>6. Kept(c.stored)
  BY <1>4, <1>5 DEF Kept
<1>7. c.stored = [job |-> j, minimized |-> j # 0 /\ c.minimized]
  BY <1>4
<1>8. c.modal = (IF c.minimized THEN 0 ELSE j) /\ (c.minimized => c.badge) /\ (c.modal # 0 => c.clock)
  BY <1>4
<1> QED BY <1>1, <1>4, <1>5, <1>6, <1>7, <1>8, ConnectShown

LEMMA ResumeShown ==
    ASSUME ShownSound(ui), Job!ResumeJobTracking
    PROVE  ShownSound(ui')
<1> DEFINE j == ui.resuming
           u == [ui EXCEPT !.resuming = 0, !.mixed = @ \/ ui.active # 0]
           a == [u EXCEPT !.active = j, !.minimized = ui.stored.minimized, !.seen = ui.jobs[j].stage]
           v == Job!SaveJobState(a)
           w == IF v.minimized THEN [v EXCEPT !.badge = TRUE] ELSE Job!RenderProgressModal(v)
           z == [u EXCEPT !.active = 0, !.minimized = FALSE, !.stored = [job |-> 0, minimized |-> FALSE]]
<1>1. ui' = Job!ConnectSSE(w, j) \/ ui' = Job!HandleJobFinished(u, j) \/ ui' = z
  BY DEF Job!ResumeJobTracking
<1>2. /\ TrackFields \subseteq DOMAIN u /\ u.resuming = 0 /\ u.modal = ui.modal /\ u.badge = ui.badge /\ u.clock = ui.clock
      /\ u.stream = ui.stream /\ (~u.mixed => ~ui.mixed /\ ui.active = 0)
  BY DEF ShownSound, TrackFields
<1>3. ~u.mixed => u.modal = 0 /\ ~u.badge /\ u.stream = 0
  BY <1>2 DEF ShownSound, Shown
<1>4. ShownSound(Job!HandleJobFinished(u, j))
  <2> DEFINE x == Job!StopTracking(u)
  <2>1. ShownSound(x)
    BY <1>2, TrackingHelpers
  <2>2. Job!HandleJobFinished(u, j) = [x EXCEPT !.announced = @ \cup {j}]
    BY DEF Job!HandleJobFinished
  <2> HIDE DEF x
  <2>3. SameTrack(x, [x EXCEPT !.announced = @ \cup {j}])
    BY <2>1 DEF ShownSound, SameTrack, TrackFields
  <2> QED BY <2>1, <2>2, <2>3, SameTrackSound
<1>5. ShownSound(z)
  <2>1. /\ TrackFields \subseteq DOMAIN z /\ z.resuming = 0 /\ z.modal = u.modal /\ z.badge = u.badge /\ z.stream = u.stream
        /\ z.active = 0 /\ z.minimized = FALSE /\ z.stored = [job |-> 0, minimized |-> FALSE] /\ z.mixed = u.mixed
    BY <1>2 DEF TrackFields
  <2> HIDE DEF z, u
  <2>2. Kept(z.stored)
    BY <2>1 DEF Kept
  <2>3. z.stored = [job |-> z.active, minimized |-> z.active # 0 /\ z.minimized]
    BY <2>1
  <2>4. ~z.mixed => Shown(z)
    BY <1>3, <2>1, <2>3 DEF Shown
  <2> QED BY <2>1, <2>2, <2>4 DEF ShownSound
<1>6. j # 0
  BY DEF Job!ResumeJobTracking
<1>7. ShownSound(Job!ConnectSSE(w, j))
  <2>1. /\ TrackFields \subseteq DOMAIN a /\ a.active = j /\ a.modal = u.modal /\ a.mixed = u.mixed
    BY <1>2 DEF TrackFields
  <2> HIDE DEF a, u
  <2>2. /\ TrackFields \subseteq DOMAIN v /\ v.active = j /\ v.modal = u.modal /\ v.mixed = u.mixed /\ v.minimized = a.minimized
        /\ v.stored = [job |-> j, minimized |-> j # 0 /\ v.minimized]
    BY <2>1 DEF TrackFields, Job!SaveJobState
  <2> HIDE DEF v
  <2>3. /\ TrackFields \subseteq DOMAIN w /\ w.active = j /\ w.mixed = u.mixed /\ w.minimized = v.minimized /\ w.stored = v.stored
        /\ (v.minimized => w.badge /\ w.modal = u.modal) /\ (~v.minimized => w.modal = j /\ w.clock)
    BY <2>2 DEF TrackFields, Job!RenderProgressModal
  <2> HIDE DEF w
  <2>4. w.stored = [job |-> j, minimized |-> j # 0 /\ w.minimized]
    BY <2>2, <2>3
  <2>5. Kept(w.stored)
    BY <1>6, <2>4 DEF Kept
  <2>6. ~w.mixed => w.modal = (IF w.minimized THEN 0 ELSE j) /\ (w.minimized => w.badge) /\ (w.modal # 0 => w.clock)
    BY <1>3, <2>3
  <2> QED BY <1>6, <2>3, <2>4, <2>5, <2>6, ConnectShown
<1> HIDE DEF w, z, u, v
<1> QED BY <1>1, <1>4, <1>5, <1>7

(* A poll that fails stops the tracking or waits; nothing else is shown.   *)
LEMMA PollErrShown ==
    ASSUME NEW u, ShownSound(u), NEW p, NEW m
    PROVE  ShownSound(Job!PollErred(u, p, m))
<1> DEFINE v == [u EXCEPT !.polls = @ \ {p}, !.mixed = @ \/ u.active \notin {0, p.of}]
           q == [p EXCEPT !.errors = @ + 1]
<1>1. TrackFields \subseteq DOMAIN u /\ TrackFields \subseteq DOMAIN v
  BY DEF ShownSound, TrackFields
<1>2. Job!PollErred(u, p, m) = Job!StopTracking(v) \/ Job!PollErred(u, p, m) = Job!Waiting(u, q)
  BY DEF Job!PollErred
<1> HIDE DEF v, q
<1> QED BY <1>1, <1>2, TrackingHelpers, SameTrackSound

(* Told of another job, the page is mixed.                                 *)
LEMMA MixedShown ==
    ASSUME NEW u, ShownSound(u), NEW x, NEW v, TrackFields \subseteq DOMAIN v,
           \A f \in TrackFields \ {"mixed"} : v[f] = u[f], v.mixed = (u.mixed \/ x)
    PROVE  ShownSound(v)
<1>1. /\ v.active = u.active /\ v.minimized = u.minimized /\ v.stored = u.stored /\ v.modal = u.modal
      /\ v.badge = u.badge /\ v.clock = u.clock /\ v.stream = u.stream /\ v.resuming = u.resuming
  BY DEF TrackFields
<1>2. ~v.mixed => ~u.mixed
  OBVIOUS
<1> QED BY <1>1, <1>2, Zenon DEF ShownSound, Shown

LEMMA PollShown ==
    ASSUME ShownSound(ui), NEW p, NEW a, Job!PollArrives(p, a)
    PROVE  ShownSound(ui')
<1> DEFINE q == [p EXCEPT !.errors = 0]
           rest == [ui EXCEPT !.polls = @ \ {p}]
           v == [rest EXCEPT !.mixed = @ \/ ui.active # p.of]
           u == Job!Polled(v, a.stage)
<1>1. \/ ui' = Job!PollErred(rest, p, TRUE) \/ ui' = Job!PollErred(rest, q, FALSE)
      \/ ui' = Job!Waiting(u, q) \/ ui' = Job!HandleDoneEvent(u, p.of)
  BY DEF Job!PollArrives
<1>2. ShownSound(rest)
  <2>1. SameTrack(ui, rest)
    BY DEF ShownSound, SameTrack, TrackFields
  <2> QED BY <2>1, SameTrackSound
<1>3. ShownSound(v)
  <2>1. TrackFields \subseteq DOMAIN v /\ (\A f \in TrackFields \ {"mixed"} : v[f] = rest[f]) /\ v.mixed = (rest.mixed \/ ui.active # p.of)
    BY <1>2 DEF ShownSound, TrackFields
  <2> HIDE DEF v, rest
  <2> QED BY <1>2, <2>1, MixedShown
<1> HIDE DEF rest, q, v
<1>4. ShownSound(u)
  BY <1>3, ProgressShown
<1> HIDE DEF u
<1>5. TrackFields \subseteq DOMAIN u
  BY <1>4 DEF ShownSound
<1> QED BY <1>1, <1>2, <1>4, <1>5, PollErrShown, TrackingHelpers, SameTrackSound

LEMMA TrackingSteps ==
    ASSUME ShownSound(ui), Job!Next
    PROVE  ShownSound(ui')
<1>t. TrackFields \subseteq DOMAIN ui
  BY DEF ShownSound
<1>1. ASSUME NEW j \in Job!Jobs, Job!StartGlobalTracking(j) PROVE ShownSound(ui')
  BY <1>1, StartShown
<1>2. ASSUME NEW j \in Job!Jobs, Job!JobAdvances(j) \/ (\E s \in Job!Statuses : Job!JobEnds(j, s)) PROVE ShownSound(ui')
  <2>1. SameTrack(ui, ui')
    BY <1>t, <1>2 DEF SameTrack, TrackFields, Job!JobAdvances, Job!JobEnds
  <2> QED BY <2>1, SameTrackSound
<1>3. ASSUME NEW e \in ui.ends, Job!DoneShown(e) PROVE ShownSound(ui')
  <2> DEFINE v == [ui EXCEPT !.mixed = @ \/ ui.active \notin {0, e.of}]
             x == Job!StopTracking(v)
  <2>1. ui' = [x EXCEPT !.ends = @ \ {e}, !.announced = @ \cup {e.of}]
    BY <1>3 DEF Job!DoneShown
  <2>2. TrackFields \subseteq DOMAIN v
    BY <1>t DEF TrackFields
  <2> HIDE DEF v
  <2>3. ShownSound(x)
    BY <2>2, TrackingHelpers
  <2> HIDE DEF x
  <2>4. SameTrack(x, ui')
    BY <2>1, <2>3 DEF ShownSound, SameTrack, TrackFields
  <2> QED BY <2>3, <2>4, SameTrackSound
<1>4. ASSUME NEW p \in ui.polls, Job!PollFails(p) PROVE ShownSound(ui')
  <2> DEFINE v == [ui EXCEPT !.polls = @ \ {p}]
  <2>1. ui' = Job!PollErred(v, p, FALSE)
    BY <1>4 DEF Job!PollFails
  <2>2. SameTrack(ui, v)
    BY <1>t DEF SameTrack, TrackFields
  <2> HIDE DEF v
  <2> QED BY <2>1, <2>2, SameTrackSound, PollErrShown
<1>5. ASSUME NEW p \in ui.polls, Job!PollTimer(p) PROVE ShownSound(ui')
  <2>1. SameTrack(ui, ui')
    BY <1>t, <1>5 DEF SameTrack, TrackFields, Job!PollTimer
  <2> QED BY <2>1, SameTrackSound
<1>6. ASSUME NEW p \in ui.polls, NEW a \in Job!Answers(p), Job!PollArrives(p, a) PROVE ShownSound(ui')
  BY <1>6, PollShown
<1>7. CASE Job!StreamProgress
  <2> DEFINE v == [ui EXCEPT !.mixed = @ \/ ui.active # ui.stream]
  <2>1. ui' = Job!Progressed(v, ui.jobs[ui.stream].stage)
    BY <1>7 DEF Job!StreamProgress
  <2>2. TrackFields \subseteq DOMAIN v /\ (\A f \in TrackFields \ {"mixed"} : v[f] = ui[f]) /\ v.mixed = (ui.mixed \/ ui.active # ui.stream)
    BY <1>t DEF TrackFields
  <2> HIDE DEF v
  <2>3. ShownSound(v)
    BY <2>2, MixedShown
  <2> QED BY <2>1, <2>3, ProgressShown
<1>8. CASE Job!StreamDone
  BY <1>t, <1>8, TrackingHelpers, SameTrackSound DEF Job!StreamDone
<1>9. CASE Job!StreamLost
  <2> DEFINE v == [ui EXCEPT !.stream = 0]
  <2>1. ui' = Job!StartPolling(v, ui.stream)
    BY <1>9 DEF Job!StreamLost
  <2>2. /\ TrackFields \subseteq DOMAIN v /\ v.active = ui.active /\ v.minimized = ui.minimized /\ v.stored = ui.stored
        /\ v.modal = ui.modal /\ v.badge = ui.badge /\ v.clock = ui.clock /\ v.stream = 0 /\ v.resuming = ui.resuming /\ v.mixed = ui.mixed
    BY <1>t DEF TrackFields
  <2> HIDE DEF v
  <2>3. ShownSound(v)
    BY <2>2, Zenon DEF ShownSound, Shown
  <2> QED BY <2>1, <2>2, <2>3, TrackingHelpers, SameTrackSound
<1>10. CASE Job!CancelActiveJob
  <2>1. SameTrack(ui, ui')
    BY <1>t, <1>10 DEF SameTrack, TrackFields, Job!CancelActiveJob
  <2> QED BY <2>1, SameTrackSound
<1>11. CASE Job!CancelAnswered
  <2> DEFINE u == [ui EXCEPT !.cancelling = 0]
             v == [u EXCEPT !.mixed = @ \/ ui.active \notin {0, ui.cancelling},
                            !.jobs[ui.cancelling].status = IF Job!IsJobActive(@) THEN "ended" ELSE @]
  <2>1. ui' = Job!StopTracking(v) \/ ui' = u
    BY <1>11 DEF Job!CancelAnswered
  <2>2. SameTrack(ui, u) /\ TrackFields \subseteq DOMAIN v
    BY <1>t DEF SameTrack, TrackFields
  <2> HIDE DEF u, v
  <2> QED BY <2>1, <2>2, TrackingHelpers, SameTrackSound
<1>12. CASE Job!MinimizeJob
  <2> DEFINE v == [ui EXCEPT !.minimized = TRUE]
             w == Job!SaveJobState(v)
  <2>1. ui' = [w EXCEPT !.modal = 0, !.badge = TRUE] /\ ui.active # 0
    BY <1>12 DEF Job!MinimizeJob
  <2>2. /\ TrackFields \subseteq DOMAIN v /\ v.minimized = TRUE /\ v.active = ui.active /\ v.mixed = ui.mixed /\ v.stream = ui.stream
    BY <1>t DEF TrackFields
  <2> HIDE DEF v
  <2>3. /\ TrackFields \subseteq DOMAIN w /\ w.minimized = TRUE /\ w.active = ui.active /\ w.mixed = ui.mixed /\ w.stream = ui.stream
        /\ w.stored = [job |-> ui.active, minimized |-> ui.active # 0 /\ TRUE]
    BY <2>2 DEF TrackFields, Job!SaveJobState
  <2> HIDE DEF w
  <2>4. /\ TrackFields \subseteq DOMAIN ui' /\ (ui').minimized = TRUE /\ (ui').active = ui.active /\ (ui').mixed = ui.mixed
        /\ (ui').stream = ui.stream /\ (ui').stored = [job |-> ui.active, minimized |-> TRUE] /\ (ui').modal = 0 /\ (ui').badge = TRUE
    BY <2>1, <2>3 DEF TrackFields
  <2>5. (ui').stored = [job |-> (ui').active, minimized |-> (ui').active # 0 /\ (ui').minimized]
    BY <2>1, <2>4
  <2>6. Kept((ui').stored)
    BY <2>1, <2>4 DEF Kept
  <2>7. ~(ui').mixed => Shown(ui')
    BY <2>1, <2>4, <2>5 DEF ShownSound, Shown
  <2> QED BY <2>4, <2>6, <2>7 DEF ShownSound
<1>13. CASE Job!RestoreJobModal
  <2> DEFINE v == [ui EXCEPT !.minimized = FALSE]
             w == Job!SaveJobState(v)
             x == [w EXCEPT !.badge = FALSE]
  <2>1. ui' = Job!RenderProgressModal(x) /\ ui.active # 0
    BY <1>13 DEF Job!RestoreJobModal
  <2>2. /\ TrackFields \subseteq DOMAIN v /\ v.minimized = FALSE /\ v.active = ui.active /\ v.mixed = ui.mixed /\ v.stream = ui.stream
    BY <1>t DEF TrackFields
  <2> HIDE DEF v
  <2>3. /\ TrackFields \subseteq DOMAIN w /\ w.minimized = FALSE /\ w.active = ui.active /\ w.mixed = ui.mixed /\ w.stream = ui.stream
        /\ w.stored = [job |-> ui.active, minimized |-> ui.active # 0 /\ FALSE]
    BY <2>2 DEF TrackFields, Job!SaveJobState
  <2> HIDE DEF w
  <2>4. /\ TrackFields \subseteq DOMAIN x /\ x.minimized = FALSE /\ x.active = ui.active /\ x.mixed = ui.mixed /\ x.stream = ui.stream
        /\ x.stored = [job |-> ui.active, minimized |-> FALSE] /\ x.badge = FALSE
    BY <2>3 DEF TrackFields
  <2> HIDE DEF x
  <2>5. /\ TrackFields \subseteq DOMAIN ui' /\ (ui').minimized = FALSE /\ (ui').active = ui.active /\ (ui').mixed = ui.mixed
        /\ (ui').stream = ui.stream /\ (ui').stored = [job |-> ui.active, minimized |-> FALSE] /\ (ui').modal = ui.active
        /\ (ui').badge = FALSE /\ (ui').clock = TRUE
    BY <2>1, <2>4 DEF TrackFields, Job!RenderProgressModal
  <2>6. (ui').stored = [job |-> (ui').active, minimized |-> (ui').active # 0 /\ (ui').minimized]
    BY <2>5
  <2>7. Kept((ui').stored)
    BY <2>1, <2>5 DEF Kept
  <2>8. ~(ui').mixed => Shown(ui')
    BY <2>1, <2>5, <2>6 DEF ShownSound, Shown
  <2> QED BY <2>5, <2>7, <2>8 DEF ShownSound
<1>14. CASE Job!Reload
  <2>1. /\ TrackFields \subseteq DOMAIN ui' /\ (ui').minimized = FALSE /\ (ui').active = 0 /\ (ui').stored = ui.stored
        /\ (ui').stream = 0 /\ (ui').modal = 0 /\ (ui').badge = FALSE /\ (ui').resuming = ui.stored.job
    BY <1>t, <1>14 DEF Job!Reload, Job!Cleared, TrackFields
  <2>2. (ui').resuming = 0 => (ui').stored = [job |-> (ui').active, minimized |-> (ui').active # 0 /\ (ui').minimized]
    BY <2>1 DEF ShownSound, Kept
  <2> QED BY <2>1, <2>2 DEF ShownSound, Shown
<1>15. CASE Job!ResumeJobTracking
  BY <1>15, ResumeShown
<1> QED
  BY <1>1, <1>2, <1>3, <1>4, <1>5, <1>6, <1>7, <1>8, <1>9, <1>10, <1>11, <1>12, <1>13, <1>14, <1>15 DEF Job!Next

LEMMA TrackingStart ==
    ASSUME Job!Init
    PROVE  ShownSound(ui)
<1>1. /\ TrackFields \subseteq DOMAIN ui /\ ui.minimized = FALSE /\ ui.active = 0 /\ ui.stored = [job |-> 0, minimized |-> FALSE]
      /\ ui.stream = 0 /\ ui.modal = 0 /\ ui.badge = FALSE
  BY DEF Job!Init, Job!Cleared, TrackFields
<1>2. ui.stored = [job |-> ui.active, minimized |-> ui.active # 0 /\ ui.minimized]
  BY <1>1
<1>3. Kept(ui.stored)
  BY <1>1 DEF Kept
<1> QED BY <1>1, <1>2, <1>3 DEF ShownSound, Shown

LEMMA TrackingShown ==
    ASSUME ShownSound(ui)
    PROVE  Job!ActiveIsStoredAndShown
BY DEF ShownSound, Shown, Job!ActiveIsStoredAndShown

-----------------------------------------------------------------------------
(* What is known of the jobs' ends.                                        *)
EndFields == {"stage", "done", "ends", "polls", "announced", "jobs", "mixed", "regressed", "active",
              "stored", "resuming", "stream"}

JobTable == [Job!Jobs -> [status : Job!Statuses, stage : Nat]]

Born(u, j) == j \in Job!Jobs /\ u.jobs[j].status # "unborn"
Asks(u, p) == {"of", "since"} \subseteq DOMAIN p /\ p.since \in Nat /\ Born(u, p.of)
Ended(u, j) == j \in Job!Jobs /\ u.jobs[j].status = "ended"

Passed(u) == ~u.mixed /\ ~u.regressed => \A s \in u.done : s < u.stage \/ (s = u.stage /\ u.ends # {})

EndTyped(u) ==
    /\ EndFields \subseteq DOMAIN u
    /\ u.stored.job \in Job!MaybeJob /\ u.resuming \in Job!MaybeJob /\ u.stream \in Job!MaybeJob
    /\ u.jobs \in JobTable /\ u.stage \in Nat /\ u.done \subseteq Nat

EndSound(u) ==
    /\ EndTyped(u) /\ Passed(u)
    /\ u.active # 0 => Born(u, u.active)
    /\ \A p \in u.polls : Asks(u, p)
    /\ \A e \in u.ends : Ended(u, e.of)
    /\ \A j \in u.announced : Ended(u, j)

SameEnd(u, v) == EndFields \subseteq DOMAIN v /\ \A f \in EndFields : v[f] = u[f]

LEMMA SameEndSound ==
    ASSUME NEW u, EndSound(u), NEW v, SameEnd(u, v)
    PROVE  EndSound(v)
<1>1. /\ v.stage = u.stage /\ v.done = u.done /\ v.ends = u.ends /\ v.polls = u.polls /\ v.announced = u.announced
      /\ v.jobs = u.jobs /\ v.mixed = u.mixed /\ v.regressed = u.regressed /\ v.active = u.active
      /\ v.stored = u.stored /\ v.resuming = u.resuming /\ v.stream = u.stream
  BY DEF SameEnd, EndFields
<1> QED BY <1>1, Zenon DEF EndSound, EndTyped, Passed, Born, Asks, Ended, SameEnd

(* Polls may go, and new ones are of a job that was started.               *)
LEMMA PollsSound ==
    ASSUME NEW u, EndSound(u), NEW v, EndFields \subseteq DOMAIN v, \A f \in EndFields \ {"polls", "mixed"} : v[f] = u[f],
           \A p \in v.polls : p \in u.polls \/ Asks(u, p), ~v.mixed => ~u.mixed
    PROVE  EndSound(v)
<1>1. /\ v.stage = u.stage /\ v.done = u.done /\ v.ends = u.ends /\ v.announced = u.announced
      /\ v.jobs = u.jobs /\ v.regressed = u.regressed /\ v.active = u.active
      /\ v.stored = u.stored /\ v.resuming = u.resuming /\ v.stream = u.stream
  BY DEF EndFields
<1>2. \A p \in v.polls : Asks(v, p)
  BY <1>1 DEF EndSound, Born, Asks
<1> QED BY <1>1, <1>2, Zenon DEF EndSound, EndTyped, Passed, Born, Ended

LEMMA StreamSound ==
    ASSUME NEW u, EndSound(u), NEW v, EndFields \subseteq DOMAIN v, \A f \in EndFields \ {"stream"} : v[f] = u[f],
           v.stream \in Job!MaybeJob
    PROVE  EndSound(v)
<1>1. /\ v.stage = u.stage /\ v.done = u.done /\ v.ends = u.ends /\ v.polls = u.polls /\ v.announced = u.announced
      /\ v.jobs = u.jobs /\ v.mixed = u.mixed /\ v.regressed = u.regressed /\ v.active = u.active
      /\ v.stored = u.stored /\ v.resuming = u.resuming
  BY DEF EndFields
<1> QED BY <1>1, Zenon DEF EndSound, EndTyped, Passed, Born, Asks, Ended

LEMMA EndHelpers ==
    ASSUME NEW u, EndSound(u)
    PROVE  /\ EndSound(Job!ClearTimeout(u)) /\ EndSound(Job!SaveJobState(u)) /\ EndSound(Job!RenderProgressModal(u))
           /\ \A j : j # 0 => EndSound(Job!StartPolling(u, j))
           /\ \A j \in Job!Jobs : EndSound(Job!ConnectSSE(u, j))
           /\ \A p : Asks(u, p) => EndSound(Job!Waiting(u, p))
           /\ \A j : Ended(u, j) => EndSound(Job!HandleDoneEvent(u, j))
<1>t. EndFields \subseteq DOMAIN u
  BY DEF EndSound, EndTyped
<1>1. ASSUME NEW w, EndSound(w) PROVE EndSound(Job!ClearTimeout(w))
  <2> DEFINE v == Job!ClearTimeout(w)
  <2>1. /\ EndFields \subseteq DOMAIN v /\ (\A f \in EndFields \ {"polls", "mixed"} : v[f] = w[f]) /\ v.mixed = w.mixed
        /\ v.polls \subseteq w.polls
    BY <1>1 DEF Job!ClearTimeout, EndFields, EndSound, EndTyped
  <2> HIDE DEF v
  <2>2. EndSound(v)
    BY <1>1, <2>1, PollsSound
  <2> QED BY <2>2 DEF v
<1>2. EndSound(Job!SaveJobState(u)) /\ EndSound(Job!RenderProgressModal(u))
  <2>1. SameEnd(u, Job!RenderProgressModal(u))
    BY <1>t DEF SameEnd, EndFields, Job!RenderProgressModal
  <2> DEFINE v == Job!SaveJobState(u)
  <2>2. /\ EndFields \subseteq DOMAIN v /\ (\A f \in EndFields \ {"stored"} : v[f] = u[f])
        /\ v.stored.job = u.active
    BY <1>t DEF EndFields, Job!SaveJobState
  <2> HIDE DEF v
  <2>3. /\ v.stage = u.stage /\ v.done = u.done /\ v.ends = u.ends /\ v.polls = u.polls /\ v.announced = u.announced
        /\ v.jobs = u.jobs /\ v.mixed = u.mixed /\ v.regressed = u.regressed /\ v.active = u.active /\ v.resuming = u.resuming /\ v.stream = u.stream
    BY <2>2 DEF EndFields
  <2>4. v.stored.job \in Job!MaybeJob
    BY <2>2 DEF EndSound, Born, Job!MaybeJob
  <2>5. EndSound(v)
    BY <2>2, <2>3, <2>4, Zenon DEF EndSound, EndTyped, Passed, Born, Asks, Ended
  <2> QED BY <2>1, <2>5, SameEndSound DEF v
<1>3. ASSUME NEW w, EndSound(w), NEW j, j # 0 PROVE EndSound(Job!StartPolling(w, j))
  <2> DEFINE v == Job!ClearTimeout(w)
             q == [id |-> Job!Fresh(v), of |-> j, at |-> "fetch", errors |-> 0, since |-> v.jobs[j].stage]
             x == [v EXCEPT !.polls = @ \cup {q}]
  <2>1. EndSound(v)
    BY <1>1, <1>3
  <2>2. Job!StartPolling(w, j) = v \/ (v.active = j /\ Job!StartPolling(w, j) = x)
    BY DEF Job!StartPolling
  <2>3. /\ {"of", "since"} \subseteq DOMAIN q /\ q.of = j /\ q.since = v.jobs[j].stage
    OBVIOUS
  <2> HIDE DEF v, q
  <2>4. ASSUME v.active = j PROVE EndSound(x)
    <3>1. Born(v, j) /\ v.jobs[j].stage \in Nat
      BY <1>3, <2>1, <2>4 DEF EndSound, EndTyped, JobTable, Born
    <3>4. Asks(v, q)
      BY <2>3, <3>1 DEF Asks
    <3>2. /\ EndFields \subseteq DOMAIN x /\ (\A f \in EndFields \ {"polls", "mixed"} : x[f] = v[f]) /\ x.mixed = v.mixed
          /\ x.polls = v.polls \cup {q}
      BY <2>1 DEF EndFields, EndSound, EndTyped
    <3> HIDE DEF x
    <3>3. \A p \in x.polls : p \in v.polls \/ Asks(v, p)
      BY <3>4, <3>2
    <3> QED BY <2>1, <3>2, <3>3, PollsSound
  <2> QED BY <2>1, <2>2, <2>4
<1>4. ASSUME NEW j \in Job!Jobs PROVE EndSound(Job!ConnectSSE(u, j))
  <2> DEFINE v == [u EXCEPT !.stream = j]
  <2>1. EndFields \subseteq DOMAIN v /\ (\A f \in EndFields \ {"stream"} : v[f] = u[f]) /\ v.stream = j
    BY <1>t DEF EndFields
  <2>2. Job!ConnectSSE(u, j) = Job!StartPolling(v, j)
    BY DEF Job!ConnectSSE
  <2> HIDE DEF v
  <2>3. EndSound(v)
    BY <2>1, StreamSound DEF Job!MaybeJob
  <2> QED BY <1>3, <2>2, <2>3, JobsArePositive
<1>5. ASSUME NEW p, Asks(u, p) PROVE EndSound(Job!Waiting(u, p))
  <2> DEFINE q == [p EXCEPT !.at = "wait", !.since = 0]
             v == [u EXCEPT !.polls = (@ \ {p}) \cup {q}, !.timer = p.id]
  <2>1. {"of", "since"} \subseteq DOMAIN q /\ q.of = p.of /\ q.since \in Nat
    BY <1>5 DEF Asks
  <2>5. Asks(u, q)
    BY <1>5, <2>1 DEF Asks
  <2> HIDE DEF q
  <2>2. /\ EndFields \subseteq DOMAIN v /\ (\A f \in EndFields \ {"polls", "mixed"} : v[f] = u[f]) /\ v.mixed = u.mixed
        /\ v.polls = (u.polls \ {p}) \cup {q}
    BY <1>t DEF EndFields
  <2>3. Job!Waiting(u, p) = v
    BY DEF Job!Waiting, q
  <2> HIDE DEF v
  <2>4. \A r \in v.polls : r \in u.polls \/ Asks(u, r)
    BY <2>5, <2>2
  <2> QED BY <2>2, <2>3, <2>4, PollsSound
<1>6. ASSUME NEW j, Ended(u, j) PROVE EndSound(Job!HandleDoneEvent(u, j))
  <2> DEFINE e == [id |-> Job!Fresh(u), of |-> j]
             d == IF u.stage = 0 THEN u.done ELSE u.done \cup {u.stage}
             v == [u EXCEPT !.done = d, !.ends = @ \cup {e}]
  <2>1. Job!HandleDoneEvent(u, j) = u \/ Job!HandleDoneEvent(u, j) = v
    BY DEF Job!HandleDoneEvent
  <2>2. e.of = j
    OBVIOUS
  <2> HIDE DEF e
  <2>3. d \subseteq Nat /\ \A s \in d : s \in u.done \/ s = u.stage
    BY DEF EndSound, EndTyped
  <2> HIDE DEF d
  <2>4. /\ EndFields \subseteq DOMAIN v /\ v.stage = u.stage /\ v.done = d /\ v.ends = u.ends \cup {e} /\ v.polls = u.polls
        /\ v.announced = u.announced /\ v.jobs = u.jobs /\ v.mixed = u.mixed /\ v.regressed = u.regressed /\ v.active = u.active
      /\ v.stored = u.stored /\ v.resuming = u.resuming /\ v.stream = u.stream
    BY <1>t DEF EndFields
  <2> HIDE DEF v
  <2>5. EndTyped(v)
    BY <2>3, <2>4 DEF EndSound, EndTyped
  <2>6. Passed(v)
    BY <2>3, <2>4 DEF EndSound, Passed
  <2>7. \A x \in v.ends : Ended(v, x.of)
    BY <1>6, <2>2, <2>4 DEF EndSound, Ended
  <2>8. (v.active # 0 => Born(v, v.active)) /\ (\A p \in v.polls : Asks(v, p)) /\ \A x \in v.announced : Ended(v, x)
    BY <2>4 DEF EndSound, Born, Asks, Ended
  <2>9. EndSound(v)
    BY <2>5, <2>6, <2>7, <2>8 DEF EndSound
  <2> QED BY <2>1, <2>9
<1> QED BY <1>1, <1>2, <1>3, <1>4, <1>5, <1>6

LEMMA MixedEnd ==
    ASSUME NEW u, EndSound(u), NEW b \in BOOLEAN
    PROVE  EndSound([u EXCEPT !.mixed = @ \/ b])
<1> DEFINE v == [u EXCEPT !.mixed = @ \/ b]
<1>1. EndFields \subseteq DOMAIN v /\ (\A f \in EndFields \ {"polls", "mixed"} : v[f] = u[f]) /\ v.polls = u.polls
  BY DEF EndSound, EndTyped, EndFields
<1>2. v.mixed = (u.mixed \/ b)
  BY DEF EndSound, EndTyped, EndFields
<1> HIDE DEF v
<1>3. (\A p \in v.polls : p \in u.polls \/ Asks(u, p)) /\ (~v.mixed => ~u.mixed)
  BY <1>1, <1>2
<1>4. EndSound(v)
  BY <1>1, <1>3, PollsSound
<1> QED BY <1>4 DEF v

(* A page that stops tracking holds no stage for completed.                *)
LEMMA StoppingEnds ==
    ASSUME NEW u, EndSound(u)
    PROVE  /\ EndSound(Job!StopTracking(u)) /\ Job!StopTracking(u).done = {}
           /\ Job!StopTracking(u).ends = u.ends /\ Job!StopTracking(u).announced = u.announced
           /\ Job!StopTracking(u).jobs = u.jobs
<1> DEFINE v == Job!ClearTimeout(u)
           w == [v EXCEPT !.stream = 0, !.clock = FALSE, !.active = 0, !.minimized = FALSE, !.stage = 0, !.seen = 0,
                          !.done = {}, !.modal = 0, !.badge = FALSE]
           x == Job!SaveJobState(w)
<1>1. Job!StopTracking(u) = x
  BY DEF Job!StopTracking
<1>2. EndSound(v) /\ v.ends = u.ends /\ v.announced = u.announced /\ v.jobs = u.jobs
  BY EndHelpers DEF Job!ClearTimeout, EndSound, EndTyped, EndFields
<1> HIDE DEF v
<1>3. /\ EndFields \subseteq DOMAIN w /\ w.stage = 0 /\ w.done = {} /\ w.active = 0 /\ w.ends = v.ends /\ w.polls = v.polls
      /\ w.announced = v.announced /\ w.jobs = v.jobs /\ w.stored = v.stored /\ w.resuming = v.resuming /\ w.stream = 0
  BY <1>2 DEF EndFields, EndSound, EndTyped
<1> HIDE DEF w
<1>4. EndTyped(w) /\ Passed(w)
  BY <1>2, <1>3 DEF EndSound, EndTyped, Passed, Job!MaybeJob
<1>5. (\A p \in w.polls : Asks(w, p)) /\ (\A e \in w.ends : Ended(w, e.of)) /\ (\A j \in w.announced : Ended(w, j))
  BY <1>2, <1>3 DEF EndSound, Asks, Born, Ended
<1>6. EndSound(w)
  BY <1>3, <1>4, <1>5 DEF EndSound
<1>7. x.done = w.done /\ x.ends = w.ends /\ x.announced = w.announced /\ x.jobs = w.jobs
  BY <1>3 DEF Job!SaveJobState, EndFields
<1>8. EndSound(x)
  BY <1>6, EndHelpers
<1> HIDE DEF x
<1> QED BY <1>1, <1>2, <1>3, <1>7, <1>8

(* The end of a job that ended is said once the tracking has stopped.      *)
LEMMA Announcing ==
    ASSUME NEW u, EndSound(u), u.done = {}, NEW E \in SUBSET u.ends, NEW j, Ended(u, j)
    PROVE  /\ EndSound([u EXCEPT !.ends = E, !.announced = @ \cup {j}])
           /\ EndSound([u EXCEPT !.announced = @ \cup {j}])
<1>1. ASSUME NEW v, EndFields \subseteq DOMAIN v, \A f \in EndFields \ {"ends", "announced"} : v[f] = u[f],
             v.ends \subseteq u.ends, v.announced = u.announced \cup {j}
      PROVE  EndSound(v)
  <2>1. /\ v.stage = u.stage /\ v.done = {} /\ v.polls = u.polls /\ v.jobs = u.jobs /\ v.mixed = u.mixed
        /\ v.regressed = u.regressed /\ v.active = u.active /\ v.stored = u.stored /\ v.resuming = u.resuming /\ v.stream = u.stream
    BY <1>1 DEF EndFields
  <2>2. EndTyped(v) /\ Passed(v)
    BY <1>1, <2>1 DEF EndSound, EndTyped, Passed
  <2>3. (\A p \in v.polls : Asks(v, p)) /\ (v.active # 0 => Born(v, v.active))
    BY <2>1 DEF EndSound, Asks, Born
  <2>4. (\A e \in v.ends : Ended(v, e.of)) /\ (\A i \in v.announced : Ended(v, i))
    BY <1>1, <2>1 DEF EndSound, Ended
  <2> QED BY <2>2, <2>3, <2>4 DEF EndSound
<1>2. EndFields \subseteq DOMAIN u
  BY DEF EndSound, EndTyped
<1>3. EndSound([u EXCEPT !.ends = E, !.announced = @ \cup {j}])
  <2> DEFINE v == [u EXCEPT !.ends = E, !.announced = @ \cup {j}]
  <2>1. /\ EndFields \subseteq DOMAIN v /\ (\A f \in EndFields \ {"ends", "announced"} : v[f] = u[f])
        /\ v.ends \subseteq u.ends /\ v.announced = u.announced \cup {j}
    BY <1>2 DEF EndFields
  <2> HIDE DEF v
  <2>2. EndSound(v)
    BY <1>1, <2>1
  <2> QED BY <2>2 DEF v
<1>4. EndSound([u EXCEPT !.announced = @ \cup {j}])
  <2> DEFINE v == [u EXCEPT !.announced = @ \cup {j}]
  <2>1. /\ EndFields \subseteq DOMAIN v /\ (\A f \in EndFields \ {"ends", "announced"} : v[f] = u[f])
        /\ v.ends \subseteq u.ends /\ v.announced = u.announced \cup {j}
    BY <1>2 DEF EndFields
  <2> HIDE DEF v
  <2>2. EndSound(v)
    BY <1>1, <2>1
  <2> QED BY <2>2 DEF v
<1> QED BY <1>3, <1>4

(* A stage that was left is before the new one, or the stages went back.   *)
LEMMA ProgressEnds ==
    ASSUME NEW u, EndSound(u), NEW s \in Nat
    PROVE  EndSound(Job!Progressed(u, s)) /\ EndSound(Job!Polled(u, s))
<1> DEFINE d == IF u.stage \notin {0, s} THEN u.done \cup {u.stage} ELSE u.done
           v == Job!HandleStageTransition(u, s)
           w == [v EXCEPT !.seen = s]
           x(n) == [u EXCEPT !.seen = n]
<1>1. /\ Job!Progressed(u, s) = Job!SaveJobState(w) \/ \E n : Job!Progressed(u, s) = Job!SaveJobState(x(n))
      /\ Job!Polled(u, s) = Job!SaveJobState(w) \/ \E n : Job!Polled(u, s) = Job!SaveJobState(x(n))
  BY DEF Job!Progressed, Job!Polled
<1>t. EndFields \subseteq DOMAIN u
  BY DEF EndSound, EndTyped
<1>2. \A n : EndSound(x(n))
  <2>1. \A n : SameEnd(u, x(n))
    BY <1>t DEF SameEnd, EndFields
  <2> QED BY <2>1, SameEndSound
<1>3. EndSound(w)
  <2>1. /\ EndFields \subseteq DOMAIN w /\ w.stage = s /\ w.done = d /\ w.ends = u.ends /\ w.polls = u.polls
        /\ w.announced = u.announced /\ w.jobs = u.jobs /\ w.mixed = u.mixed /\ w.active = u.active
        /\ w.stored = u.stored /\ w.resuming = u.resuming /\ w.stream = u.stream
    BY <1>t DEF EndFields, Job!HandleStageTransition
  <2>2. w.regressed = (u.regressed \/ s < u.stage)
    BY <1>t DEF EndFields, Job!HandleStageTransition
  <2> HIDE DEF w
  <2>3. EndTyped(w)
    BY <2>1 DEF EndSound, EndTyped
  <2>4. ASSUME ~w.mixed, ~w.regressed, NEW t \in w.done PROVE t < w.stage \/ (t = w.stage /\ w.ends # {})
    <3>1. t \in Nat /\ u.stage \in Nat /\ ~(s < u.stage) /\ w.stage = s
      BY <2>1, <2>2, <2>3, <2>4 DEF EndSound, EndTyped
    <3>2. t \in u.done => t < u.stage \/ (t = u.stage /\ u.ends # {})
      BY <2>1, <2>2, <2>4, Zenon DEF EndSound, Passed
    <3>3. t \in u.done \/ (t = u.stage /\ t # s)
      BY <2>1, <2>4
    <3>4. t < s \/ (t = s /\ u.ends # {})
      BY <3>1, <3>2, <3>3
    <3> QED BY <2>1, <3>4
  <2>5. Passed(w)
    BY <2>4, Zenon DEF Passed
  <2>6. /\ (w.active # 0 => Born(w, w.active)) /\ (\A p \in w.polls : Asks(w, p)) /\ (\A e \in w.ends : Ended(w, e.of))
        /\ \A j \in w.announced : Ended(w, j)
    BY <2>1 DEF EndSound, Asks, Born, Ended
  <2> QED BY <2>3, <2>5, <2>6 DEF EndSound
<1> HIDE DEF w, x
<1> QED BY <1>1, <1>2, <1>3, EndHelpers

(* A job that was started stays started, and one that ended stays ended.   *)
LEMMA JobsAge ==
    ASSUME NEW u, EndSound(u), NEW v, EndFields \subseteq DOMAIN v, \A f \in EndFields \ {"jobs"} : v[f] = u[f],
           v.jobs \in JobTable, \A j \in Job!Jobs : Born(u, j) => Born(v, j), \A j \in Job!Jobs : Ended(u, j) => Ended(v, j)
    PROVE  EndSound(v)
<1>1. /\ v.stage = u.stage /\ v.done = u.done /\ v.ends = u.ends /\ v.polls = u.polls /\ v.announced = u.announced
      /\ v.mixed = u.mixed /\ v.regressed = u.regressed /\ v.active = u.active
      /\ v.stored = u.stored /\ v.resuming = u.resuming /\ v.stream = u.stream
  BY DEF EndFields
<1>2. EndTyped(v) /\ Passed(v)
  BY <1>1 DEF EndSound, EndTyped, Passed
<1>3. \A j : (Born(u, j) => Born(v, j)) /\ (Ended(u, j) => Ended(v, j))
  BY DEF Born, Ended
<1>4. /\ (v.active # 0 => Born(v, v.active)) /\ (\A p \in v.polls : Asks(v, p)) /\ (\A e \in v.ends : Ended(v, e.of))
      /\ \A j \in v.announced : Ended(v, j)
  BY <1>1, <1>3 DEF EndSound, Asks
<1> QED BY <1>2, <1>4 DEF EndSound

LEMMA StartEnds ==
    ASSUME EndSound(ui), NEW j \in Job!Jobs, Job!StartGlobalTracking(j)
    PROVE  EndSound(ui')
<1> DEFINE a == [ui EXCEPT !.jobs[j].status = "pending", !.active = j, !.minimized = FALSE, !.stage = 0, !.seen = 0, !.done = {}]
           b == Job!SaveJobState(a)
           c == Job!RenderProgressModal(b)
           g == [ui.jobs EXCEPT ![j].status = "pending"]
<1>1. ui' = Job!ConnectSSE(c, j) /\ ui.jobs[j].status = "unborn"
  BY DEF Job!StartGlobalTracking
<1>2. EndFields \subseteq DOMAIN ui
  BY DEF EndSound, EndTyped
<1>3. /\ EndFields \subseteq DOMAIN a /\ a.active = j /\ a.stage = 0 /\ a.done = {} /\ a.jobs = g
      /\ a.ends = ui.ends /\ a.polls = ui.polls /\ a.announced = ui.announced /\ a.stored = ui.stored /\ a.resuming = ui.resuming /\ a.stream = ui.stream
  BY <1>2 DEF EndFields
<1>4. /\ g \in JobTable /\ \A i \in Job!Jobs : g[i].status = IF i = j THEN "pending" ELSE ui.jobs[i].status
  BY DEF EndSound, EndTyped, JobTable, Job!Statuses
<1> HIDE DEF a, g
<1>5. \A i : (Born(ui, i) => Born(a, i)) /\ (Ended(ui, i) => Ended(a, i))
  BY <1>1, <1>3, <1>4 DEF Born, Ended
<1>6. EndTyped(a) /\ Passed(a)
  BY <1>3, <1>4 DEF EndSound, EndTyped, Passed
<1>7. /\ Born(a, j) /\ (\A p \in a.polls : Asks(a, p)) /\ (\A e \in a.ends : Ended(a, e.of)) /\ \A i \in a.announced : Ended(a, i)
  BY <1>3, <1>4, <1>5 DEF EndSound, Asks, Born
<1>8. EndSound(a)
  BY <1>3, <1>6, <1>7 DEF EndSound
<1>9. EndSound(b)
  BY <1>8, EndHelpers
<1> HIDE DEF b
<1>10. EndSound(c)
  BY <1>9, EndHelpers
<1> HIDE DEF c
<1>11. j # 0
  BY JobsArePositive
<1> QED BY <1>1, <1>10, <1>11, EndHelpers

LEMMA ResumeEnds ==
    ASSUME EndSound(ui), Job!ResumeJobTracking
    PROVE  EndSound(ui')
<1> DEFINE j == ui.resuming
           u == [ui EXCEPT !.resuming = 0, !.mixed = @ \/ ui.active # 0]
           a == [u EXCEPT !.active = j, !.minimized = ui.stored.minimized, !.seen = ui.jobs[j].stage]
           v == Job!SaveJobState(a)
           y == [v EXCEPT !.badge = TRUE]
           w == IF v.minimized THEN y ELSE Job!RenderProgressModal(v)
           z == [u EXCEPT !.active = 0, !.minimized = FALSE, !.stored = [job |-> 0, minimized |-> FALSE]]
<1>1. \/ ui' = Job!ConnectSSE(w, j) /\ Job!IsJobActive(ui.jobs[j].status)
      \/ ui' = Job!HandleJobFinished(u, j) /\ ui.jobs[j].status = "ended"
      \/ ui' = z
  BY DEF Job!ResumeJobTracking
<1>2. j # 0 /\ j \in Job!Jobs
  BY DEF Job!ResumeJobTracking, EndSound, EndTyped, Job!MaybeJob
<1>3. EndSound(u) /\ u.jobs = ui.jobs
  <2>1. /\ EndFields \subseteq DOMAIN u /\ u.stage = ui.stage /\ u.done = ui.done /\ u.ends = ui.ends /\ u.polls = ui.polls
        /\ u.announced = ui.announced /\ u.jobs = ui.jobs /\ u.regressed = ui.regressed /\ u.active = ui.active
        /\ u.stored = ui.stored /\ u.resuming = 0 /\ u.stream = ui.stream /\ (~u.mixed => ~ui.mixed)
    BY DEF EndSound, EndTyped, EndFields
  <2> HIDE DEF u
  <2>2. EndTyped(u) /\ Passed(u)
    BY <2>1 DEF EndSound, EndTyped, Passed, Job!MaybeJob
  <2> QED BY <2>1, <2>2, Zenon DEF EndSound, Born, Asks, Ended
<1>4. EndSound(z)
  <2>1. /\ EndFields \subseteq DOMAIN z /\ z.stage = u.stage /\ z.done = u.done /\ z.ends = u.ends /\ z.polls = u.polls
        /\ z.announced = u.announced /\ z.jobs = u.jobs /\ z.regressed = u.regressed /\ z.active = 0
        /\ z.stored.job = 0 /\ z.resuming = u.resuming /\ z.stream = u.stream /\ z.mixed = u.mixed
    BY <1>3 DEF EndSound, EndTyped, EndFields
  <2> HIDE DEF z, u
  <2>2. EndTyped(z) /\ Passed(z)
    BY <1>3, <2>1 DEF EndSound, EndTyped, Passed, Job!MaybeJob
  <2> QED BY <1>3, <2>1, <2>2, Zenon DEF EndSound, Born, Asks, Ended
<1>5. ASSUME ui.jobs[j].status = "ended" PROVE EndSound(Job!HandleJobFinished(u, j))
  <2> DEFINE x == Job!StopTracking(u)
  <2>1. EndSound(x) /\ x.done = {} /\ x.jobs = u.jobs
    BY <1>3, StoppingEnds
  <2>2. Job!HandleJobFinished(u, j) = [x EXCEPT !.announced = @ \cup {j}]
    BY DEF Job!HandleJobFinished
  <2>3. Ended(x, j)
    BY <1>2, <1>3, <1>5, <2>1 DEF Ended
  <2> HIDE DEF x, u, j
  <2>4. {} \in SUBSET x.ends
    OBVIOUS
  <2>5. EndSound([x EXCEPT !.announced = @ \cup {j}])
    BY <2>1, <2>3, <2>4, Announcing
  <2> QED BY <2>2, <2>5
<1>6. ASSUME Job!IsJobActive(ui.jobs[j].status) PROVE EndSound(Job!ConnectSSE(w, j))
  <2>1. /\ EndFields \subseteq DOMAIN a /\ a.stage = u.stage /\ a.done = u.done /\ a.ends = u.ends /\ a.polls = u.polls
        /\ a.announced = u.announced /\ a.jobs = u.jobs /\ a.regressed = u.regressed /\ a.active = j
        /\ a.stored = u.stored /\ a.resuming = u.resuming /\ a.stream = u.stream /\ a.mixed = u.mixed
    BY <1>3 DEF EndSound, EndTyped, EndFields
  <2>2. Born(u, j)
    BY <1>2, <1>3, <1>6 DEF Born, Job!IsJobActive
  <2> HIDE DEF a, u, j
  <2>3. EndSound(a)
    BY <1>3, <2>1, <2>2, Zenon DEF EndSound, EndTyped, Passed, Born, Asks, Ended
  <2>4. EndSound(v)
    BY <2>3, EndHelpers
  <2> HIDE DEF v
  <2>5. SameEnd(v, y)
    BY <2>4 DEF EndSound, EndTyped, SameEnd, EndFields
  <2> HIDE DEF y
  <2>6. EndSound(w)
    BY <2>4, <2>5, EndHelpers, SameEndSound
  <2> HIDE DEF w
  <2> QED BY <1>2, <2>6, EndHelpers
<1> HIDE DEF w, z, u, v, j
<1> QED BY <1>1, <1>4, <1>5, <1>6

LEMMA PollErrEnds ==
    ASSUME NEW u, EndSound(u), NEW p, Asks(u, p), NEW m
    PROVE  EndSound(Job!PollErred(u, p, m))
<1> DEFINE v == [u EXCEPT !.polls = @ \ {p}, !.mixed = @ \/ u.active \notin {0, p.of}]
           q == [p EXCEPT !.errors = @ + 1]
<1>1. Job!PollErred(u, p, m) = Job!StopTracking(v) \/ Job!PollErred(u, p, m) = Job!Waiting(u, q)
  BY DEF Job!PollErred
<1>2. EndSound(v)
  <2>1. EndFields \subseteq DOMAIN v /\ (\A f \in EndFields \ {"polls", "mixed"} : v[f] = u[f]) /\ v.polls \subseteq u.polls
    BY DEF EndSound, EndTyped, EndFields
  <2>2. ~v.mixed => ~u.mixed
    BY DEF EndSound, EndTyped, EndFields
  <2> HIDE DEF v
  <2>3. \A r \in v.polls : r \in u.polls \/ Asks(u, r)
    BY <2>1
  <2> QED BY <2>1, <2>2, <2>3, PollsSound
<1>3. Asks(u, q)
  BY DEF Asks
<1> HIDE DEF v, q
<1> QED BY <1>1, <1>2, <1>3, EndHelpers, StoppingEnds

(* An answer tells of a stage the job was in, and of an end that is one.   *)
LEMMA PollEnds ==
    ASSUME EndSound(ui), NEW p \in ui.polls, NEW a \in Job!Answers(p), Job!PollArrives(p, a)
    PROVE  EndSound(ui')
<1> DEFINE q == [p EXCEPT !.errors = 0]
           rest == [ui EXCEPT !.polls = @ \ {p}]
           v == [rest EXCEPT !.mixed = @ \/ ui.active # p.of]
           u == Job!Polled(v, a.stage)
<1>1. \/ ui' = Job!PollErred(rest, p, TRUE) \/ ui' = Job!PollErred(rest, q, FALSE)
      \/ ui' = Job!Waiting(u, q)
      \/ a.status \notin {"lost", "pending", "running"} /\ ui' = Job!HandleDoneEvent(u, p.of)
  BY DEF Job!PollArrives, Job!IsJobActive
<1>2. Asks(ui, p)
  BY DEF EndSound
<1>3. a.stage \in Nat /\ (a.status \notin {"lost", "pending", "running"} => Ended(ui, p.of))
  <2>1. p.of \in Job!Jobs /\ p.since \in Nat /\ ui.jobs \in JobTable /\ ui.jobs[p.of].status # "unborn"
    BY <1>2 DEF Asks, Born, EndSound, EndTyped
  <2>2. ui.jobs[p.of].stage \in Nat /\ ui.jobs[p.of].status \in Job!Statuses
    BY <2>1 DEF JobTable
  <2>3. CASE a = ui.jobs[p.of]
    BY <2>1, <2>2, <2>3 DEF Job!Statuses, Ended
  <2>4. ASSUME NEW s \in p.since..ui.jobs[p.of].stage, a = [status |-> IF s = 0 THEN "pending" ELSE "running", stage |-> s]
        PROVE  a.stage \in Nat /\ a.status \in {"pending", "running"}
    BY <2>1, <2>2, <2>4
  <2>5. a = ui.jobs[p.of] \/ \E s \in p.since..ui.jobs[p.of].stage : a = [status |-> IF s = 0 THEN "pending" ELSE "running", stage |-> s]
    BY DEF Job!Answers
  <2> QED BY <2>3, <2>4, <2>5
<1>4. EndSound(rest) /\ rest.jobs = ui.jobs
  <2>1. EndFields \subseteq DOMAIN rest /\ (\A f \in EndFields \ {"polls"} : rest[f] = ui[f]) /\ rest.polls \subseteq ui.polls
    BY DEF EndSound, EndTyped, EndFields
  <2>2. rest.mixed = ui.mixed /\ rest.jobs = ui.jobs
    BY <2>1 DEF EndFields
  <2> HIDE DEF rest
  <2>3. \A r \in rest.polls : r \in ui.polls \/ Asks(ui, r)
    BY <2>1
  <2> QED BY <2>1, <2>2, <2>3, PollsSound
<1>5. Asks(rest, p) /\ Asks(rest, q)
  BY <1>2, <1>4 DEF Asks, Born
<1>6. q.of = p.of
  BY <1>2 DEF Asks
<1> HIDE DEF q
<1>7. EndSound(v) /\ v.jobs = rest.jobs
  <2>1. (ui.active # p.of) \in BOOLEAN
    OBVIOUS
  <2>2. v.jobs = rest.jobs
    BY <1>4 DEF EndSound, EndTyped, EndFields
  <2> HIDE DEF rest
  <2> QED BY <1>4, <2>1, <2>2, MixedEnd
<1> HIDE DEF rest
<1>8. EndSound(u) /\ u.jobs = v.jobs
  <2>1. u.jobs = v.jobs
    BY <1>7 DEF Job!Polled, Job!SaveJobState, Job!HandleStageTransition, EndSound, EndTyped, EndFields
  <2> HIDE DEF v
  <2> QED BY <1>3, <1>7, <2>1, ProgressEnds
<1> HIDE DEF v, u
<1>9. Asks(u, q) /\ (Ended(ui, p.of) => Ended(u, p.of))
  BY <1>4, <1>5, <1>7, <1>8 DEF Asks, Born, Ended
<1> QED BY <1>1, <1>3, <1>4, <1>5, <1>8, <1>9, PollErrEnds, EndHelpers

LEMMA EndSteps ==
    ASSUME EndSound(ui), Job!Next
    PROVE  EndSound(ui')
<1>t. EndFields \subseteq DOMAIN ui
  BY DEF EndSound, EndTyped
<1>1. ASSUME NEW j \in Job!Jobs, Job!StartGlobalTracking(j) PROVE EndSound(ui')
  BY <1>1, StartEnds
<1>2. ASSUME NEW j \in Job!Jobs, Job!JobAdvances(j) PROVE EndSound(ui')
  <2> DEFINE g == [ui.jobs EXCEPT ![j] = [status |-> "running", stage |-> @.stage + 1]]
  <2>1. EndFields \subseteq DOMAIN ui' /\ (\A f \in EndFields \ {"jobs"} : (ui')[f] = ui[f]) /\ (ui').jobs = g
    BY <1>t, <1>2 DEF Job!JobAdvances, EndFields
  <2>2. g \in JobTable /\ (\A i \in Job!Jobs : i # j => g[i] = ui.jobs[i]) /\ g[j].status = "running"
    BY DEF EndSound, EndTyped, JobTable, Job!Statuses
  <2>3. ui.jobs[j].status \in {"pending", "running"}
    BY <1>2 DEF Job!JobAdvances, Job!IsJobActive
  <2> HIDE DEF g
  <2>4. \A i \in Job!Jobs : (Born(ui, i) => Born(ui', i)) /\ (Ended(ui, i) => Ended(ui', i))
    BY <2>1, <2>2, <2>3 DEF Born, Ended
  <2> QED BY <2>1, <2>2, <2>4, JobsAge
<1>3. ASSUME NEW j \in Job!Jobs, NEW s \in Job!Statuses, Job!JobEnds(j, s) PROVE EndSound(ui')
  <2> DEFINE g == [ui.jobs EXCEPT ![j].status = s]
  <2>1. EndFields \subseteq DOMAIN ui' /\ (\A f \in EndFields \ {"jobs"} : (ui')[f] = ui[f]) /\ (ui').jobs = g
    BY <1>t, <1>3 DEF Job!JobEnds, EndFields
  <2>2. g \in JobTable /\ (\A i \in Job!Jobs : i # j => g[i] = ui.jobs[i]) /\ g[j].status = s
    BY DEF EndSound, EndTyped, JobTable
  <2>3. ui.jobs[j].status \in {"pending", "running"} /\ s \in {"ended", "lost"}
    BY <1>3 DEF Job!JobEnds, Job!IsJobActive
  <2> HIDE DEF g
  <2>4. \A i \in Job!Jobs : (Born(ui, i) => Born(ui', i)) /\ (Ended(ui, i) => Ended(ui', i))
    BY <2>1, <2>2, <2>3 DEF Born, Ended
  <2> QED BY <2>1, <2>2, <2>4, JobsAge
<1>4. ASSUME NEW e \in ui.ends, Job!DoneShown(e) PROVE EndSound(ui')
  <2> DEFINE b == ui.active \notin {0, e.of}
             v == [ui EXCEPT !.mixed = @ \/ b]
             x == Job!StopTracking(v)
             E == x.ends \ {e}
  <2>1. ui' = [x EXCEPT !.ends = E, !.announced = @ \cup {e.of}]
    BY <1>4 DEF Job!DoneShown
  <2>2. b \in BOOLEAN /\ v.jobs = ui.jobs
    BY <1>t DEF EndFields
  <2> HIDE DEF b
  <2>3. EndSound(v)
    BY <2>2, MixedEnd
  <2> HIDE DEF v
  <2>4. EndSound(x) /\ x.done = {} /\ x.jobs = ui.jobs
    BY <2>2, <2>3, StoppingEnds
  <2>5. Ended(x, e.of)
    BY <1>4, <2>4 DEF EndSound, Ended
  <2> HIDE DEF x
  <2>6. E \in SUBSET x.ends
    OBVIOUS
  <2> HIDE DEF E
  <2> QED BY <2>1, <2>4, <2>5, <2>6, Announcing
<1>5. ASSUME NEW p \in ui.polls, Job!PollFails(p) PROVE EndSound(ui')
  <2> DEFINE v == [ui EXCEPT !.polls = @ \ {p}]
  <2>1. ui' = Job!PollErred(v, p, FALSE)
    BY <1>5 DEF Job!PollFails
  <2>2. /\ EndFields \subseteq DOMAIN v /\ (\A f \in EndFields \ {"polls"} : v[f] = ui[f]) /\ v.polls \subseteq ui.polls
    BY <1>t DEF EndFields
  <2>3. v.mixed = ui.mixed /\ v.jobs = ui.jobs
    BY <2>2 DEF EndFields
  <2> HIDE DEF v
  <2>4. (\A r \in v.polls : r \in ui.polls \/ Asks(ui, r)) /\ (~v.mixed => ~ui.mixed)
    BY <2>2, <2>3
  <2>5. EndSound(v)
    BY <2>2, <2>4, PollsSound
  <2>6. Asks(v, p)
    BY <2>3 DEF EndSound, Asks, Born
  <2> QED BY <2>1, <2>5, <2>6, PollErrEnds
<1>6. ASSUME NEW p \in ui.polls, Job!PollTimer(p) PROVE EndSound(ui')
  <2> DEFINE q == [p EXCEPT !.at = "fetch", !.since = ui.jobs[p.of].stage]
  <2>1. Asks(ui, p)
    BY DEF EndSound
  <2>2. Asks(ui, q)
    BY <2>1 DEF Asks, Born, EndSound, EndTyped, JobTable
  <2>3. /\ EndFields \subseteq DOMAIN ui' /\ (\A f \in EndFields \ {"polls"} : (ui')[f] = ui[f])
        /\ (ui').polls \subseteq (ui.polls \cup {q})
    BY <1>t, <1>6 DEF EndFields, Job!PollTimer
  <2> HIDE DEF q
  <2>4. (ui').mixed = ui.mixed
    BY <2>3 DEF EndFields
  <2>5. (\A r \in (ui').polls : r \in ui.polls \/ Asks(ui, r)) /\ (~(ui').mixed => ~ui.mixed)
    BY <2>2, <2>3, <2>4
  <2> QED BY <2>3, <2>5, PollsSound
<1>7. ASSUME NEW p \in ui.polls, NEW a \in Job!Answers(p), Job!PollArrives(p, a) PROVE EndSound(ui')
  BY <1>7, PollEnds
<1>8. CASE Job!StreamProgress
  <2> DEFINE b == ui.active # ui.stream
             v == [ui EXCEPT !.mixed = @ \/ b]
             s == ui.jobs[ui.stream].stage
  <2>1. ui' = Job!Progressed(v, s)
    BY <1>8 DEF Job!StreamProgress
  <2>2. s \in Nat
    <3>1. ui.stream \in Job!Jobs
      BY <1>8 DEF Job!StreamProgress, EndSound, EndTyped, Job!MaybeJob
    <3> QED BY <3>1 DEF EndSound, EndTyped, JobTable
  <2>3. b \in BOOLEAN
    OBVIOUS
  <2> HIDE DEF b, s
  <2>4. EndSound(v)
    BY <2>3, MixedEnd
  <2> QED BY <2>1, <2>2, <2>4, ProgressEnds
<1>9. CASE Job!StreamDone
  <2>1. Ended(ui, ui.stream)
    BY <1>9 DEF Job!StreamDone, EndSound, EndTyped, Ended, Job!MaybeJob
  <2> QED BY <1>9, <2>1, EndHelpers DEF Job!StreamDone
<1>10. CASE Job!StreamLost
  <2> DEFINE v == [ui EXCEPT !.stream = 0]
  <2>1. ui' = Job!StartPolling(v, ui.stream) /\ ui.stream # 0
    BY <1>10 DEF Job!StreamLost
  <2>2. EndFields \subseteq DOMAIN v /\ (\A f \in EndFields \ {"stream"} : v[f] = ui[f]) /\ v.stream \in Job!MaybeJob
    BY <1>t DEF EndFields, Job!MaybeJob
  <2> HIDE DEF v
  <2>3. EndSound(v)
    BY <2>2, StreamSound
  <2> QED BY <2>1, <2>3, EndHelpers
<1>11. CASE Job!CancelActiveJob
  <2>1. SameEnd(ui, ui')
    BY <1>t, <1>11 DEF SameEnd, EndFields, Job!CancelActiveJob
  <2> QED BY <2>1, SameEndSound
<1>12. CASE Job!CancelAnswered
  <2> DEFINE j == ui.cancelling
             u == [ui EXCEPT !.cancelling = 0]
             b == ui.active \notin {0, j}
             w == [u EXCEPT !.jobs[j].status = IF Job!IsJobActive(@) THEN "ended" ELSE @]
             x == [w EXCEPT !.mixed = @ \/ b]
             v == [u EXCEPT !.mixed = @ \/ b, !.jobs[j].status = IF Job!IsJobActive(@) THEN "ended" ELSE @]
             g == [ui.jobs EXCEPT ![j].status = IF Job!IsJobActive(@) THEN "ended" ELSE @]
  <2>1. ui' = Job!StopTracking(v) \/ ui' = u
    BY <1>12 DEF Job!CancelAnswered
  <2>2. x = v /\ b \in BOOLEAN
    BY <1>t DEF EndFields
  <2>3. EndSound(u)
    <3>1. SameEnd(ui, u)
      BY <1>t DEF SameEnd, EndFields
    <3> QED BY <3>1, SameEndSound
  <2>4. EndFields \subseteq DOMAIN w /\ (\A f \in EndFields \ {"jobs"} : w[f] = ui[f]) /\ w.jobs = g
    BY <1>t DEF EndFields
  <2> HIDE DEF b, v, u, w
  <2>5. /\ g \in JobTable /\ \A i \in Job!Jobs : g[i].status = ui.jobs[i].status \/ (ui.jobs[i].status \in {"pending", "running"} /\ g[i].status = "ended")
    BY DEF EndSound, EndTyped, JobTable, Job!Statuses, Job!IsJobActive
  <2> HIDE DEF g
  <2>6. \A i \in Job!Jobs : (Born(ui, i) => Born(w, i)) /\ (Ended(ui, i) => Ended(w, i))
    BY <2>4, <2>5 DEF Born, Ended
  <2>7. EndSound(w)
    BY <2>4, <2>5, <2>6, JobsAge
  <2>8. EndSound(x)
    BY <2>2, <2>7, MixedEnd
  <2> HIDE DEF x
  <2> QED BY <2>1, <2>2, <2>3, <2>8, StoppingEnds
<1>13. CASE Job!MinimizeJob
  <2> DEFINE v == [ui EXCEPT !.minimized = TRUE]
             w == Job!SaveJobState(v)
  <2>1. ui' = [w EXCEPT !.modal = 0, !.badge = TRUE]
    BY <1>13 DEF Job!MinimizeJob
  <2>2. SameEnd(ui, v)
    BY <1>t DEF SameEnd, EndFields
  <2> HIDE DEF v
  <2>3. EndSound(w)
    BY <2>2, SameEndSound, EndHelpers
  <2> HIDE DEF w
  <2>4. SameEnd(w, ui')
    BY <2>1, <2>3 DEF SameEnd, EndFields, EndSound, EndTyped
  <2> QED BY <2>3, <2>4, SameEndSound
<1>14. CASE Job!RestoreJobModal
  <2> DEFINE v == [ui EXCEPT !.minimized = FALSE]
             w == Job!SaveJobState(v)
             x == [w EXCEPT !.badge = FALSE]
  <2>1. ui' = Job!RenderProgressModal(x)
    BY <1>14 DEF Job!RestoreJobModal
  <2>2. SameEnd(ui, v)
    BY <1>t DEF SameEnd, EndFields
  <2> HIDE DEF v
  <2>3. EndSound(w)
    BY <2>2, SameEndSound, EndHelpers
  <2> HIDE DEF w
  <2>4. SameEnd(w, x)
    BY <2>3 DEF SameEnd, EndFields, EndSound, EndTyped
  <2> HIDE DEF x
  <2> QED BY <2>1, <2>3, <2>4, SameEndSound, EndHelpers
<1>15. CASE Job!Reload
  <2>1. /\ EndFields \subseteq DOMAIN ui' /\ (ui').stage = 0 /\ (ui').done = {} /\ (ui').ends = {} /\ (ui').polls = {}
        /\ (ui').announced = ui.announced /\ (ui').jobs = ui.jobs /\ (ui').active = 0
        /\ (ui').stored = ui.stored /\ (ui').resuming = ui.stored.job /\ (ui').stream = 0
    BY <1>15 DEF Job!Reload, Job!Cleared, EndFields
  <2>2. EndTyped(ui') /\ Passed(ui')
    BY <2>1 DEF EndSound, EndTyped, Passed, Job!MaybeJob
  <2> QED BY <2>1, <2>2 DEF EndSound, Ended
<1>16. CASE Job!ResumeJobTracking
  BY <1>16, ResumeEnds
<1> QED
  BY <1>1, <1>2, <1>3, <1>4, <1>5, <1>6, <1>7, <1>8, <1>9, <1>10, <1>11, <1>12, <1>13, <1>14, <1>15, <1>16 DEF Job!Next

LEMMA EndStart ==
    ASSUME Job!Init
    PROVE  EndSound(ui)
<1> DEFINE g == [j \in Job!Jobs |-> Job!NoSnap]
<1>1. /\ EndFields \subseteq DOMAIN ui /\ ui.stage = 0 /\ ui.done = {} /\ ui.ends = {} /\ ui.polls = {}
      /\ ui.announced = {} /\ ui.jobs = g /\ ui.active = 0 /\ ui.stored.job = 0 /\ ui.resuming = 0 /\ ui.stream = 0
  BY DEF Job!Init, Job!Cleared, EndFields
<1>2. g \in JobTable
  BY DEF JobTable, Job!NoSnap, Job!Statuses
<1>3. EndTyped(ui) /\ Passed(ui)
  BY <1>1, <1>2 DEF EndTyped, Passed, Job!MaybeJob
<1> QED BY <1>1, <1>3 DEF EndSound

LEMMA EndsAreTrue ==
    ASSUME EndSound(ui)
    PROVE  Job!EndIsTrue
<1>1. \A j \in ui.announced : ui.jobs[j].status = "ended"
  BY DEF EndSound, Ended
<1> QED BY <1>1, Zenon DEF EndSound, Passed, Job!EndIsTrue

-----------------------------------------------------------------------------
(* The import by file: the table, the map and the history.                 *)
UploadFields == {"status", "sel", "active", "map", "complete", "imports", "history"}

Importing(u, i) == {"ids", "left", "batch", "files", "print"} \subseteq DOMAIN i /\ i.ids \ i.left \subseteq u.history

UploadKept(u) ==
    /\ UploadFields \subseteq DOMAIN u /\ {"ready", "status", "active"} \subseteq DOMAIN u.map
    /\ \A t \in Upload!Ids : u.status[t] = "imported" => t \in u.history
    /\ u.sel \subseteq Upload!Importable(u.status)
    /\ u.complete \subseteq u.history
    /\ \A i \in u.imports : Importing(u, i)

MapAsTable(u) == u.map.ready => u.map.status = u.status /\ u.map.active = u.active

UploadSound(u) == UploadKept(u) /\ MapAsTable(u)

SameUpload(u, v) == UploadFields \subseteq DOMAIN v /\ \A f \in UploadFields : v[f] = u[f]

LEMMA SameUploadSound ==
    ASSUME NEW u, NEW v, SameUpload(u, v)
    PROVE  (UploadKept(u) => UploadKept(v)) /\ (UploadSound(u) => UploadSound(v))
<1>1. /\ v.status = u.status /\ v.sel = u.sel /\ v.active = u.active /\ v.map = u.map /\ v.complete = u.complete
      /\ v.imports = u.imports /\ v.history = u.history
  BY DEF SameUpload, UploadFields
<1> QED BY <1>1, Zenon DEF UploadSound, UploadKept, MapAsTable, Importing, SameUpload

(* Locks, buttons and scans are nothing to the records.                    *)
LEMMA UploadHelpers ==
    ASSUME NEW u, UploadFields \subseteq DOMAIN u
    PROVE  /\ SameUpload(u, Upload!Acted(u)) /\ SameUpload(u, Upload!RenderSelection(u))
           /\ \A on : SameUpload(u, Upload!SetUploadLocked(u, on)) /\ SameUpload(u, Upload!SetImporting(u, on))
           /\ \A s : SameUpload(u, Upload!ScanEnds(u, s))
<1>1. SameUpload(u, Upload!Acted(u)) /\ SameUpload(u, Upload!RenderSelection(u))
  BY DEF SameUpload, UploadFields, Upload!Acted, Upload!RenderSelection
<1>2. ASSUME NEW on PROVE SameUpload(u, Upload!SetUploadLocked(u, on))
  BY DEF SameUpload, UploadFields, Upload!SetUploadLocked
<1>3. ASSUME NEW on PROVE SameUpload(u, Upload!SetImporting(u, on))
  <2> DEFINE v == Upload!SetUploadLocked(u, on)
  <2>1. SameUpload(u, v)
    BY <1>2
  <2> HIDE DEF v
  <2>2. SameUpload(u, [v EXCEPT !.scanOff = on, !.pickOff = on, !.commitOff = on \/ v.sel = {}])
    BY <2>1 DEF SameUpload, UploadFields
  <2> QED BY <2>2 DEF Upload!SetImporting, v
<1>4. ASSUME NEW s PROVE SameUpload(u, Upload!ScanEnds(u, s))
  <2> DEFINE x == [u EXCEPT !.scans = @ \ {s}]
             v == Upload!SetUploadLocked(x, FALSE)
  <2>1. SameUpload(u, x)
    BY DEF SameUpload, UploadFields
  <2>2. SameUpload(x, v)
    BY <2>1 DEF SameUpload, UploadFields, Upload!SetUploadLocked
  <2> HIDE DEF v, x
  <2>3. SameUpload(u, [v EXCEPT !.scanOff = ~Upload!UploadWithinLimits(v)])
    BY <2>1, <2>2 DEF SameUpload, UploadFields
  <2> QED BY <2>3 DEF Upload!ScanEnds, v, x
<1> QED BY <1>1, <1>2, <1>3, <1>4

LEMMA ActedSound ==
    ASSUME NEW u, UploadSound(u)
    PROVE  UploadSound(Upload!Acted(u))
BY UploadHelpers, SameUploadSound DEF UploadSound, UploadKept

LEMMA RenderedSound ==
    ASSUME NEW u, UploadSound(u)
    PROVE  UploadSound(Upload!RenderSelection(u))
BY UploadHelpers, SameUploadSound DEF UploadSound, UploadKept

(* A review that is reset keeps the history and the imports under way.     *)
LEMMA ResetSound ==
    ASSUME NEW u, UploadKept(u)
    PROVE  UploadSound(Upload!ResetReview(u))
<1> DEFINE v == Upload!ResetReview(u)
<1>1. /\ UploadFields \subseteq DOMAIN v /\ v.status = Upload!Unknown /\ v.sel = {} /\ v.complete = {} /\ v.map = Upload!NoMap
      /\ v.imports = u.imports /\ v.history = u.history
  BY DEF UploadKept, UploadFields, Upload!ResetReview
<1> HIDE DEF v
<1>2. \A t \in Upload!Ids : v.status[t] # "imported"
  BY <1>1 DEF Upload!Unknown
<1>3. {"ready", "status", "active"} \subseteq DOMAIN v.map /\ v.map.ready = FALSE
  BY <1>1 DEF Upload!NoMap
<1>4. UploadKept(v) /\ MapAsTable(v)
  BY <1>1, <1>2, <1>3 DEF UploadKept, MapAsTable, Importing
<1> QED BY <1>4 DEF UploadSound, v

(* The map that is up is told the record in focus, and the statuses.       *)
LEMMA FocusTold ==
    ASSUME NEW u, UploadKept(u), u.map.ready => u.map.status = u.status
    PROVE  /\ UploadSound(Upload!SetActiveMapRoute(u))
           /\ Upload!SetActiveMapRoute(u).imports = u.imports /\ Upload!SetActiveMapRoute(u).history = u.history
<1> DEFINE m == [u.map EXCEPT !.active = u.active]
           v == [u EXCEPT !.map.active = u.active]
<1>1. CASE ~u.map.ready
  BY <1>1, Zenon DEF Upload!SetActiveMapRoute, UploadSound, MapAsTable
<1>2. CASE u.map.ready
  <2>1. Upload!SetActiveMapRoute(u) = v
    BY <1>2 DEF Upload!SetActiveMapRoute
  <2>2. /\ UploadFields \subseteq DOMAIN v /\ v.status = u.status /\ v.sel = u.sel /\ v.active = u.active /\ v.map = m
        /\ v.complete = u.complete /\ v.imports = u.imports /\ v.history = u.history
    BY DEF UploadKept, UploadFields
  <2>3. {"ready", "status", "active"} \subseteq DOMAIN m /\ m.status = u.map.status /\ m.active = u.active
    BY DEF UploadKept
  <2> HIDE DEF v, m
  <2>4. UploadKept(v)
    BY <2>2, <2>3, Zenon DEF UploadKept, Importing
  <2>5. MapAsTable(v)
    BY <1>2, <2>2, <2>3 DEF MapAsTable
  <2> QED BY <2>1, <2>2, <2>4, <2>5 DEF UploadSound
<1> QED BY <1>1, <1>2

LEMMA DataTold ==
    ASSUME NEW u, UploadKept(u)
    PROVE  /\ UploadSound(Upload!UpdateMapData(u))
           /\ Upload!UpdateMapData(u).imports = u.imports /\ Upload!UpdateMapData(u).history = u.history
<1> DEFINE m == [u.map EXCEPT !.status = u.status]
           v == [u EXCEPT !.map.status = u.status]
<1>1. CASE ~u.map.ready
  BY <1>1, Zenon DEF Upload!UpdateMapData, UploadSound, MapAsTable
<1>2. CASE u.map.ready
  <2>1. Upload!UpdateMapData(u) = Upload!SetActiveMapRoute(v)
    BY <1>2 DEF Upload!UpdateMapData
  <2>2. /\ UploadFields \subseteq DOMAIN v /\ v.status = u.status /\ v.sel = u.sel /\ v.active = u.active /\ v.map = m
        /\ v.complete = u.complete /\ v.imports = u.imports /\ v.history = u.history
    BY DEF UploadKept, UploadFields
  <2>3. {"ready", "status", "active"} \subseteq DOMAIN m /\ m.status = u.status
    BY DEF UploadKept
  <2> HIDE DEF v, m
  <2>4. UploadKept(v)
    BY <2>2, <2>3, Zenon DEF UploadKept, Importing
  <2>5. v.map.ready => v.map.status = v.status
    BY <2>2, <2>3
  <2> QED BY <2>1, <2>2, <2>4, <2>5, FocusTold
<1> QED BY <1>1, <1>2

(* Only trips of the history are marked.                                   *)
LEMMA MarkingSound ==
    ASSUME NEW u, UploadSound(u), NEW ids, ids \subseteq u.history
    PROVE  /\ UploadSound(Upload!MarkCompleted(u, ids))
           /\ Upload!MarkCompleted(u, ids).imports = u.imports /\ Upload!MarkCompleted(u, ids).history = u.history
<1> DEFINE st == [t \in Upload!Ids |-> IF t \in ids /\ u.status[t] # "none" THEN "imported" ELSE u.status[t]]
           gone == {t \in ids : u.status[t] # "none"}
           v == [u EXCEPT !.status = [t \in Upload!Ids |-> IF t \in ids /\ @[t] # "none" THEN "imported" ELSE @[t]],
                          !.sel = @ \ gone]
           w == IF u.analysis = NoFiles THEN u ELSE v
           x == Upload!RenderSelection(w)
<1>1. Upload!MarkCompleted(u, ids) = Upload!UpdateMapData(x)
  BY DEF Upload!MarkCompleted
<1>2. UploadKept(w) /\ w.imports = u.imports /\ w.history = u.history
  <2>1. CASE u.analysis = NoFiles
    BY <2>1, Zenon DEF UploadSound
  <2>2. CASE u.analysis # NoFiles
    <3>1. /\ UploadFields \subseteq DOMAIN v /\ v.status = st /\ v.sel = u.sel \ gone /\ v.map = u.map
          /\ v.complete = u.complete /\ v.imports = u.imports /\ v.history = u.history
      BY DEF UploadSound, UploadKept, UploadFields
    <3>2. \A t \in Upload!Ids : st[t] = "imported" => t \in u.history
      BY DEF UploadSound, UploadKept
    <3>3. u.sel \ gone \subseteq Upload!Importable(st)
      BY DEF UploadSound, UploadKept, Upload!Importable
    <3>4. w = v
      BY <2>2
    <3> HIDE DEF v, st, gone, w
    <3>5. UploadKept(v)
      BY <3>1, <3>2, <3>3 DEF UploadSound, UploadKept, Importing
    <3> QED BY <3>1, <3>4, <3>5
  <2> QED BY <2>1, <2>2
<1> HIDE DEF w
<1>3. UploadKept(x) /\ x.imports = w.imports /\ x.history = w.history
  <2>1. SameUpload(w, x)
    BY <1>2, UploadHelpers DEF UploadKept
  <2>2. x.imports = w.imports /\ x.history = w.history
    BY <2>1 DEF SameUpload, UploadFields
  <2> QED BY <1>2, <2>1, <2>2, SameUploadSound
<1> HIDE DEF x
<1> QED BY <1>1, <1>2, <1>3, DataTold

LEMMA HistoryGrows ==
    ASSUME NEW u, UploadSound(u), NEW v, UploadFields \subseteq DOMAIN v,
           \A f \in UploadFields \ {"history"} : v[f] = u[f], u.history \subseteq v.history
    PROVE  UploadSound(v)
<1>1. /\ v.status = u.status /\ v.sel = u.sel /\ v.active = u.active /\ v.map = u.map /\ v.complete = u.complete
      /\ v.imports = u.imports
  BY DEF UploadFields
<1>2. \A i \in v.imports : Importing(v, i)
  BY <1>1 DEF UploadSound, UploadKept, Importing
<1>3. v.complete \subseteq v.history /\ \A t \in Upload!Ids : v.status[t] = "imported" => t \in v.history
  BY <1>1 DEF UploadSound, UploadKept
<1> QED BY <1>1, <1>2, <1>3, Zenon DEF UploadSound, UploadKept, MapAsTable

(* Other imports are under way, each with its trips accounted for.         *)
LEMMA ImportsSound ==
    ASSUME NEW u, UploadSound(u), NEW v, UploadFields \subseteq DOMAIN v,
           \A f \in UploadFields \ {"imports", "complete"} : v[f] = u[f],
           v.complete \subseteq u.history, \A i \in v.imports : i \in u.imports \/ Importing(u, i)
    PROVE  UploadSound(v)
<1>1. /\ v.status = u.status /\ v.sel = u.sel /\ v.active = u.active /\ v.map = u.map /\ v.history = u.history
  BY DEF UploadFields
<1>2. \A i \in v.imports : Importing(v, i)
  BY <1>1 DEF UploadSound, UploadKept, Importing
<1> QED BY <1>1, <1>2, Zenon DEF UploadSound, UploadKept, MapAsTable

LEMMA EndingSound ==
    ASSUME NEW u, UploadSound(u), NEW i
    PROVE  UploadSound(Upload!ImportEnds(u, i))
<1> DEFINE v == [u EXCEPT !.imports = @ \ {i}]
<1>1. Upload!ImportEnds(u, i) = Upload!SetImporting(v, FALSE)
  BY DEF Upload!ImportEnds
<1>2. /\ UploadFields \subseteq DOMAIN v /\ (\A f \in UploadFields \ {"imports", "complete"} : v[f] = u[f])
      /\ v.complete = u.complete /\ v.imports = u.imports \ {i}
  BY DEF UploadSound, UploadKept, UploadFields
<1> HIDE DEF v
<1>3. UploadSound(v)
  <2>1. v.complete \subseteq u.history /\ \A j \in v.imports : j \in u.imports \/ Importing(u, j)
    BY <1>2 DEF UploadSound, UploadKept
  <2> QED BY <1>2, <2>1, ImportsSound
<1> QED BY <1>1, <1>2, <1>3, UploadHelpers, SameUploadSound

(* What is left of an import gets shorter by what was committed.           *)
LEMMA BatchSound ==
    ASSUME NEW u, UploadSound(u), NEW i, Importing(u, i), i.batch \subseteq u.history,
           NEW x \in Upload!NextBatch(u, i, i.left \ i.batch)
    PROVE  UploadSound(x)
<1> DEFINE rest == i.left \ i.batch
<1>1. i.ids \ rest \subseteq u.history
  BY DEF Importing
<1>2. CASE rest = {}
  <2> DEFINE v == [u EXCEPT !.complete = i.ids]
  <2>1. x = Upload!ImportEnds(v, i)
    BY <1>2 DEF Upload!NextBatch
  <2>2. /\ UploadFields \subseteq DOMAIN v /\ (\A f \in UploadFields \ {"imports", "complete"} : v[f] = u[f])
        /\ v.complete = i.ids /\ v.imports = u.imports
    BY DEF UploadSound, UploadKept, UploadFields
  <2> HIDE DEF v
  <2>3. v.complete \subseteq u.history /\ \A j \in v.imports : j \in u.imports \/ Importing(u, j)
    BY <1>1, <1>2, <2>2
  <2>4. UploadSound(v)
    BY <2>2, <2>3, ImportsSound
  <2> QED BY <2>1, <2>4, EndingSound
<1>3. CASE rest # {} /\ u.analysis = NoFiles
  <2>1. x = Upload!ImportEnds(u, i)
    BY <1>3 DEF Upload!NextBatch
  <2> QED BY <2>1, EndingSound
<1>4. CASE rest # {} /\ u.analysis # NoFiles
  <2>1. PICK b \in Upload!Batches(rest) :
            x = [u EXCEPT !.imports = (@ \ {i}) \cup {[i EXCEPT !.left = rest, !.batch = b, !.files = u.files, !.print = u.analysis]}]
    BY <1>4 DEF Upload!NextBatch
  <2> DEFINE j == [i EXCEPT !.left = rest, !.batch = b, !.files = u.files, !.print = u.analysis]
  <2>2. {"ids", "left", "batch", "files", "print"} \subseteq DOMAIN j /\ j.ids = i.ids /\ j.left = rest
    BY DEF Importing
  <2> HIDE DEF j, rest
  <2>3. Importing(u, j)
    BY <1>1, <2>2 DEF Importing
  <2>4. x = [u EXCEPT !.imports = (@ \ {i}) \cup {j}]
    BY <2>1 DEF j
  <2>5. /\ UploadFields \subseteq DOMAIN x /\ (\A f \in UploadFields \ {"imports", "complete"} : x[f] = u[f])
        /\ x.complete = u.complete /\ x.imports = (u.imports \ {i}) \cup {j}
    BY <2>4 DEF UploadSound, UploadKept, UploadFields
  <2>6. x.complete \subseteq u.history /\ \A k \in x.imports : k \in u.imports \/ Importing(u, k)
    BY <2>3, <2>5 DEF UploadSound, UploadKept
  <2> QED BY <2>5, <2>6, ImportsSound
<1> QED BY <1>2, <1>3, <1>4

LEMMA CommittingSound ==
    ASSUME UploadSound(ui), NEW i \in ui.imports, NEW done \in SUBSET i.batch, Upload!BatchCommitted(i, done)
    PROVE  UploadSound(ui')
<1> DEFINE v == [ui EXCEPT !.history = @ \cup done, !.progress = Upload!Min({@ + Upload!Cardinality(done), Upload!Cardinality(Upload!Ids)})]
           u == Upload!MarkCompleted(v, done)
<1>1. ui' \in IF done # i.batch THEN {Upload!ImportEnds(u, i)} ELSE Upload!NextBatch(u, i, i.left \ i.batch)
  BY DEF Upload!BatchCommitted
<1>2. /\ UploadFields \subseteq DOMAIN v /\ (\A f \in UploadFields \ {"history"} : v[f] = ui[f])
      /\ v.history = ui.history \cup done /\ v.imports = ui.imports
  BY DEF UploadSound, UploadKept, UploadFields
<1> HIDE DEF v
<1>3. UploadSound(v)
  BY <1>2, HistoryGrows
<1>4. UploadSound(u) /\ u.imports = ui.imports /\ u.history = ui.history \cup done
  BY <1>2, <1>3, MarkingSound
<1> HIDE DEF u
<1>5. Importing(u, i)
  BY <1>4 DEF UploadSound, UploadKept
<1>6. CASE done # i.batch
  BY <1>1, <1>4, <1>6, EndingSound
<1>7. CASE done = i.batch
  BY <1>1, <1>4, <1>5, <1>7, BatchSound
<1> QED BY <1>6, <1>7

LEMMA ScanSound ==
    ASSUME UploadSound(ui), NEW s, Upload!ScanArrives(s)
    PROVE  UploadSound(ui')
<1> DEFINE found == Upload!Preview(s.of, ui.history)
           v == [ui EXCEPT !.analysis = s.of, !.status = found, !.complete = {},
                           !.sel = {t \in Upload!Ids : found[t] = "ready"}, !.map = Upload!NoMap,
                           !.scans = (@ \ {s}) \cup {[s EXCEPT !.at = "map"]}]
           w == [v EXCEPT !.active = CHOOSE t \in Records[v.analysis] : TRUE]
<1>1. ui' = Upload!RenderSelection(w)
  BY DEF Upload!ScanArrives, Upload!RenderReview
<1>2. \A t \in Upload!Ids : found[t] # "imported"
  BY DEF Upload!Preview
<1> HIDE DEF found
<1>3. /\ UploadFields \subseteq DOMAIN v /\ v.status = found /\ v.sel = {t \in Upload!Ids : found[t] = "ready"}
      /\ v.complete = {} /\ v.map = Upload!NoMap /\ v.imports = ui.imports /\ v.history = ui.history
  BY DEF UploadSound, UploadKept, UploadFields
<1> HIDE DEF v
<1>4. /\ UploadFields \subseteq DOMAIN w /\ w.status = v.status /\ w.sel = v.sel /\ w.complete = v.complete /\ w.map = v.map
      /\ w.imports = v.imports /\ w.history = v.history
  BY <1>3 DEF UploadFields
<1> HIDE DEF w
<1>5. {"ready", "status", "active"} \subseteq DOMAIN w.map /\ w.map.ready = FALSE
  BY <1>3, <1>4 DEF Upload!NoMap
<1>6. w.sel \subseteq Upload!Importable(w.status)
  BY <1>3, <1>4 DEF Upload!Importable
<1>7. UploadKept(w)
  BY <1>2, <1>3, <1>4, <1>5, <1>6 DEF UploadSound, UploadKept, Importing
<1>8. UploadSound(w)
  BY <1>5, <1>7 DEF UploadSound, MapAsTable
<1> QED BY <1>1, <1>8, RenderedSound

LEMMA UploadingSteps ==
    ASSUME UploadSound(ui), Upload!Next
    PROVE  UploadSound(ui')
<1>t. UploadFields \subseteq DOMAIN ui
  BY DEF UploadSound, UploadKept
<1>1. ASSUME NEW b \in Bundles, Upload!ChooseFiles(b) PROVE UploadSound(ui')
  <2> DEFINE v == [ui EXCEPT !.files = b]
             u == Upload!ResetReview(v)
             w == [u EXCEPT !.scanOff = ~Upload!UploadWithinLimits(u)]
  <2>1. ui' = Upload!Acted(w)
    BY <1>1 DEF Upload!ChooseFiles
  <2>2. SameUpload(ui, v)
    BY <1>t DEF SameUpload, UploadFields
  <2> HIDE DEF v
  <2>3. UploadSound(u)
    BY <2>2, SameUploadSound, ResetSound DEF UploadSound
  <2> HIDE DEF u
  <2>4. SameUpload(u, w)
    BY <2>3 DEF UploadSound, UploadKept, SameUpload, UploadFields
  <2> HIDE DEF w
  <2> QED BY <2>1, <2>3, <2>4, SameUploadSound, ActedSound
<1>2. CASE Upload!ClearFiles
  <2> DEFINE v == [ui EXCEPT !.files = NoFiles, !.scanOff = TRUE]
  <2>1. ui' = Upload!Acted(Upload!ResetReview(v))
    BY <1>2 DEF Upload!ClearFiles
  <2>2. SameUpload(ui, v)
    BY <1>t DEF SameUpload, UploadFields
  <2> HIDE DEF v
  <2>3. UploadSound(Upload!ResetReview(v))
    BY <2>2, SameUploadSound, ResetSound DEF UploadSound
  <2> QED BY <2>1, <2>3, ActedSound
<1>3. CASE Upload!ScanFiles
  <2> DEFINE q == [id |-> ui.steps, of |-> ui.files, at |-> "server"]
             v == [ui EXCEPT !.scanOff = TRUE, !.scans = @ \cup {q}]
             w == Upload!SetUploadLocked(v, TRUE)
  <2>1. ui' = Upload!Acted(w)
    BY <1>3 DEF Upload!ScanFiles
  <2>2. SameUpload(ui, v)
    BY <1>t DEF SameUpload, UploadFields
  <2> HIDE DEF v
  <2>3. SameUpload(v, w)
    BY <2>2, UploadHelpers DEF SameUpload
  <2> HIDE DEF w
  <2> QED BY <2>1, <2>2, <2>3, SameUploadSound, ActedSound
<1>4. CASE Upload!SelectAll
  <2> DEFINE v == [ui EXCEPT !.sel = Upload!Importable(ui.status)]
             w == Upload!RenderSelection(v)
  <2>1. ui' = Upload!Acted(w)
    BY <1>4 DEF Upload!SelectAll
  <2>2. /\ UploadFields \subseteq DOMAIN v /\ v.status = ui.status /\ v.sel = Upload!Importable(ui.status) /\ v.active = ui.active
        /\ v.map = ui.map /\ v.complete = ui.complete /\ v.imports = ui.imports /\ v.history = ui.history
    BY <1>t DEF UploadFields
  <2> HIDE DEF v
  <2>3. UploadSound(v)
    BY <2>2 DEF UploadSound, UploadKept, MapAsTable, Importing
  <2>4. UploadSound(w)
    BY <2>3, RenderedSound
  <2> HIDE DEF w
  <2> QED BY <2>1, <2>4, ActedSound
<1>5. CASE Upload!CommitImport
  <2> DEFINE v == [ui EXCEPT !.dialog = ui.sel]
  <2>1. ui' = Upload!Acted(v)
    BY <1>5 DEF Upload!CommitImport
  <2>2. SameUpload(ui, v)
    BY <1>t DEF SameUpload, UploadFields
  <2> HIDE DEF v
  <2> QED BY <2>1, <2>2, SameUploadSound, ActedSound
<1>6. CASE Upload!Confirm
  <2>1. PICK b \in Upload!Batches(ui.dialog) :
            ui' = Upload!SetImporting([ui EXCEPT !.dialog = {}, !.complete = {}, !.progress = 0,
                      !.imports = @ \cup {[id |-> ui.steps, ids |-> ui.dialog, left |-> ui.dialog, batch |-> b,
                                           under |-> ui.analysis, files |-> ui.files, print |-> ui.analysis]}], TRUE)
    BY <1>6 DEF Upload!Confirm
  <2> DEFINE j == [id |-> ui.steps, ids |-> ui.dialog, left |-> ui.dialog, batch |-> b,
                   under |-> ui.analysis, files |-> ui.files, print |-> ui.analysis]
             v == [ui EXCEPT !.dialog = {}, !.complete = {}, !.progress = 0, !.imports = @ \cup {j}]
  <2>2. Importing(ui, j)
    BY DEF Importing
  <2> HIDE DEF j
  <2>3. /\ UploadFields \subseteq DOMAIN v /\ (\A f \in UploadFields \ {"imports", "complete"} : v[f] = ui[f])
        /\ v.complete = {} /\ v.imports = ui.imports \cup {j}
    BY <1>t DEF UploadFields
  <2>4. ui' = Upload!SetImporting(v, TRUE)
    BY <2>1 DEF j
  <2> HIDE DEF v
  <2>5. \A k \in v.imports : k \in ui.imports \/ Importing(ui, k)
    BY <2>2, <2>3
  <2>6. UploadSound(v)
    BY <2>3, <2>5, ImportsSound
  <2> QED BY <2>3, <2>4, <2>6, UploadHelpers, SameUploadSound
<1>7. CASE Upload!Decline
  <2>1. SameUpload(ui, ui')
    BY <1>t, <1>7 DEF SameUpload, UploadFields, Upload!Decline
  <2> QED BY <2>1, SameUploadSound
<1>8. CASE Upload!Leave
  <2> DEFINE v == Upload!ResetReview(ui)
  <2>1. ui' = [v EXCEPT !.left = TRUE, !.files = NoFiles, !.locked = FALSE, !.scans = {}, !.imports = {}, !.dialog = {}]
    BY <1>8 DEF Upload!Leave
  <2>2. UploadSound(v)
    BY ResetSound DEF UploadSound
  <2> HIDE DEF v
  <2>3. /\ UploadFields \subseteq DOMAIN ui' /\ (\A f \in UploadFields \ {"imports", "complete"} : (ui')[f] = v[f])
        /\ (ui').complete = v.complete /\ (ui').imports = {}
    BY <2>1, <2>2 DEF UploadSound, UploadKept, UploadFields
  <2>4. (ui').complete \subseteq v.history /\ \A k \in (ui').imports : k \in v.imports \/ Importing(v, k)
    BY <2>2, <2>3 DEF UploadSound, UploadKept
  <2> QED BY <2>2, <2>3, <2>4, ImportsSound
<1>9. ASSUME NEW t \in Upload!Ids, Upload!FocusRecord(t) PROVE UploadSound(ui')
  <2> DEFINE v == [ui EXCEPT !.active = t]
             w == Upload!SetActiveMapRoute(v)
  <2>1. ui' = Upload!Acted(w)
    BY <1>9 DEF Upload!FocusRecord
  <2>2. /\ UploadFields \subseteq DOMAIN v /\ v.status = ui.status /\ v.sel = ui.sel
        /\ v.map = ui.map /\ v.complete = ui.complete /\ v.imports = ui.imports /\ v.history = ui.history
    BY <1>t DEF UploadFields
  <2> HIDE DEF v
  <2>3. UploadKept(v)
    BY <2>2, Zenon DEF UploadSound, UploadKept, Importing
  <2>4. v.map.ready => v.map.status = v.status
    BY <2>2, Zenon DEF UploadSound, MapAsTable
  <2>5. UploadSound(w)
    BY <2>3, <2>4, FocusTold
  <2> HIDE DEF w
  <2> QED BY <2>1, <2>5, ActedSound
<1>10. ASSUME NEW t \in Upload!Ids, Upload!Toggle(t) PROVE UploadSound(ui')
  <2> DEFINE v == [ui EXCEPT !.sel = IF t \in @ THEN @ \ {t} ELSE @ \cup {t}]
             w == Upload!RenderSelection(v)
  <2>1. ui' = Upload!Acted(w) /\ t \in Upload!Importable(ui.status)
    BY <1>10 DEF Upload!Toggle
  <2>2. /\ UploadFields \subseteq DOMAIN v /\ v.status = ui.status /\ v.sel \subseteq (ui.sel \cup {t}) /\ v.active = ui.active
        /\ v.map = ui.map /\ v.complete = ui.complete /\ v.imports = ui.imports /\ v.history = ui.history
    BY <1>t DEF UploadFields
  <2> HIDE DEF v
  <2>3. v.sel \subseteq Upload!Importable(ui.status)
    BY <2>1, <2>2 DEF UploadSound, UploadKept
  <2>4. UploadSound(v)
    BY <2>2, <2>3, Zenon DEF UploadSound, UploadKept, MapAsTable, Importing
  <2>5. UploadSound(w)
    BY <2>4, RenderedSound
  <2> HIDE DEF w
  <2> QED BY <2>1, <2>5, ActedSound
<1>11. ASSUME NEW s \in ui.scans, Upload!ScanArrives(s) PROVE UploadSound(ui')
  BY <1>11, ScanSound
<1>12. ASSUME NEW s \in ui.scans, Upload!InitializeMap(s) PROVE UploadSound(ui')
  <2> DEFINE m == [ready |-> TRUE, status |-> ui.status, active |-> ui.active]
             v == [ui EXCEPT !.map = m]
  <2>1. ui' = Upload!ScanEnds(v, s)
    BY <1>12 DEF Upload!InitializeMap
  <2>2. /\ UploadFields \subseteq DOMAIN v /\ v.status = ui.status /\ v.sel = ui.sel /\ v.active = ui.active
        /\ v.map = m /\ v.complete = ui.complete /\ v.imports = ui.imports /\ v.history = ui.history
    BY <1>t DEF UploadFields
  <2>3. {"ready", "status", "active"} \subseteq DOMAIN m /\ m.status = ui.status /\ m.active = ui.active
    OBVIOUS
  <2> HIDE DEF v, m
  <2>4. UploadSound(v)
    BY <2>2, <2>3, Zenon DEF UploadSound, UploadKept, MapAsTable, Importing
  <2> QED BY <2>1, <2>2, <2>4, UploadHelpers, SameUploadSound
<1>13. ASSUME NEW s \in ui.scans, Upload!ScanFails(s) PROVE UploadSound(ui')
  <2> DEFINE v == [ui EXCEPT !.map = Upload!NoMap]
  <2>1. ui' = Upload!ScanEnds(v, s) \/ ui' = Upload!ScanEnds(ui, s)
    BY <1>13 DEF Upload!ScanFails
  <2>2. /\ UploadFields \subseteq DOMAIN v /\ v.status = ui.status /\ v.sel = ui.sel
        /\ v.map = Upload!NoMap /\ v.complete = ui.complete /\ v.imports = ui.imports /\ v.history = ui.history
    BY <1>t DEF UploadFields
  <2>3. {"ready", "status", "active"} \subseteq DOMAIN Upload!NoMap /\ ~Upload!NoMap.ready
    BY DEF Upload!NoMap
  <2> HIDE DEF v
  <2>4. UploadSound(v)
    BY <2>2, <2>3, Zenon DEF UploadSound, UploadKept, MapAsTable, Importing
  <2> QED BY <1>t, <2>1, <2>2, <2>4, UploadHelpers, SameUploadSound
<1>14. ASSUME NEW i \in ui.imports, Upload!BatchFails(i) PROVE UploadSound(ui')
  <2>1. PICK kept \in {{}, i.batch} :
            ui' = Upload!ImportEnds([ui EXCEPT !.history = @ \cup (IF i.files = i.print THEN kept ELSE {})], i)
    BY <1>14 DEF Upload!BatchFails
  <2> DEFINE v == [ui EXCEPT !.history = @ \cup (IF i.files = i.print THEN kept ELSE {})]
  <2>2. /\ UploadFields \subseteq DOMAIN v /\ (\A f \in UploadFields \ {"history"} : v[f] = ui[f])
        /\ ui.history \subseteq v.history
    BY <1>t DEF UploadFields
  <2>3. ui' = Upload!ImportEnds(v, i)
    BY <2>1
  <2> HIDE DEF v
  <2> QED BY <2>2, <2>3, HistoryGrows, EndingSound
<1>15. ASSUME NEW i \in ui.imports, NEW done \in SUBSET i.batch, Upload!BatchCommitted(i, done) PROVE UploadSound(ui')
  BY <1>15, CommittingSound
<1> QED
  BY <1>1, <1>2, <1>3, <1>4, <1>5, <1>6, <1>7, <1>8, <1>9, <1>10, <1>11, <1>12, <1>13, <1>14, <1>15 DEF Upload!Next

LEMMA UploadStart ==
    ASSUME Upload!Init
    PROVE  UploadSound(ui)
<1>1. /\ UploadFields \subseteq DOMAIN ui /\ ui.status = Upload!Unknown /\ ui.sel = {} /\ ui.complete = {} /\ ui.map = Upload!NoMap
      /\ ui.imports = {} /\ ui.history = {}
  BY DEF Upload!Init, UploadFields
<1>2. \A t \in Upload!Ids : ui.status[t] # "imported"
  BY <1>1 DEF Upload!Unknown
<1>3. {"ready", "status", "active"} \subseteq DOMAIN ui.map /\ ui.map.ready = FALSE
  BY <1>1 DEF Upload!NoMap
<1> QED BY <1>1, <1>2, <1>3 DEF UploadSound, UploadKept, MapAsTable

LEMMA UploadShown ==
    ASSUME UploadSound(ui)
    PROVE  Upload!ImportedIsInHistory /\ Upload!RoutesAsTable
BY DEF UploadSound, UploadKept, MapAsTable, Upload!ImportedIsInHistory, Upload!RoutesAsTable

-----------------------------------------------------------------------------
(* The visits page: the server's places, the manager's and the grid's.     *)
VisitFields == {"server", "used", "mgr", "feats", "grid", "init", "loads", "refreshes", "writes", "confirm", "prompt",
                "unmanaged", "left", "crossed", "failed"}

Managed(u) ==
    /\ u.feats = u.mgr /\ u.server \cup u.unmanaged \subseteq u.used
    /\ u.init \in {"stats", "done"} => u.mgr \cup u.unmanaged = u.server /\ u.mgr \cap u.unmanaged = {}
    /\ u.init # "done" => u.unmanaged = {} /\ u.writes = {} /\ u.confirm = NoPlace /\ u.prompt = "none"

OfManaged(u) ==
    /\ \A w \in u.writes : w.kind \in {"map", "form", "delete"} => w.of \in u.used \ u.unmanaged
    /\ u.confirm # NoPlace => u.confirm \in u.used \ u.unmanaged

GridLoads(u) ==
    ~u.crossed /\ u.init = "done" /\ u.refreshes = {} =>
        /\ \A l \in u.loads : l.rows \cup u.unmanaged = u.server
        /\ u.loads = {} => u.grid \cup u.unmanaged = u.server

VisitKept(u) == Managed(u) /\ OfManaged(u) /\ GridLoads(u)

VisitSound(u) == VisitFields \subseteq DOMAIN u /\ (~u.left /\ ~u.failed => VisitKept(u))

SameVisit(u, v) ==
    /\ VisitFields \subseteq DOMAIN v
    /\ \A f \in VisitFields \ {"crossed", "failed"} : v[f] = u[f]
    /\ (~v.crossed => ~u.crossed) /\ (~v.failed => ~u.failed)

LEMMA SameVisitSound ==
    ASSUME NEW u, VisitSound(u), NEW v, SameVisit(u, v)
    PROVE  VisitSound(v)
<1>1. /\ v.server = u.server /\ v.used = u.used /\ v.mgr = u.mgr /\ v.feats = u.feats /\ v.grid = u.grid /\ v.init = u.init
      /\ v.loads = u.loads /\ v.refreshes = u.refreshes /\ v.writes = u.writes /\ v.confirm = u.confirm /\ v.prompt = u.prompt
      /\ v.unmanaged = u.unmanaged /\ v.left = u.left
  BY DEF SameVisit, VisitFields
<1>2. VisitFields \subseteq DOMAIN v /\ (~v.crossed => ~u.crossed) /\ (~v.failed => ~u.failed)
  BY DEF SameVisit
<1>3. ASSUME ~v.left, ~v.failed PROVE VisitKept(v)
  <2>1. VisitKept(u)
    BY <1>1, <1>2, <1>3, Zenon DEF VisitSound
  <2>2. Managed(v)
    BY <1>1, <2>1, Zenon DEF VisitKept, Managed
  <2>3. OfManaged(v)
    BY <1>1, <2>1, Zenon DEF VisitKept, OfManaged
  <2>4. GridLoads(v)
    BY <1>1, <1>2, <2>1, Zenon DEF VisitKept, GridLoads
  <2> QED BY <2>2, <2>3, <2>4 DEF VisitKept
<1> QED BY <1>2, <1>3, Zenon DEF VisitSound

(* Drawings, dialogs and discoveries are nothing to the places.            *)
LEMMA VisitHelpers ==
    ASSUME NEW u, VisitFields \subseteq DOMAIN u
    PROVE  /\ SameVisit(u, u) /\ SameVisit(u, Visits!Acted(u)) /\ SameVisit(u, Visits!ClearDrawing(u))
           /\ \A m : SameVisit(u, Visits!SetMode(u, m))
           /\ \A b : SameVisit(u, Visits!LoadSuggestions(u, b))
           /\ \A p : SameVisit(u, Visits!ShowPlaceDetail(u, p)) /\ SameVisit(u, Visits!StartEditingPlaceBoundary(u, p))
<1>1. SameVisit(u, u) /\ SameVisit(u, Visits!Acted(u)) /\ SameVisit(u, Visits!ClearDrawing(u))
  BY DEF SameVisit, VisitFields, Visits!Acted, Visits!ClearDrawing
<1>2. ASSUME NEW m PROVE SameVisit(u, Visits!SetMode(u, m))
  BY DEF SameVisit, VisitFields, Visits!SetMode
<1>3. ASSUME NEW b PROVE SameVisit(u, Visits!LoadSuggestions(u, b))
  BY DEF SameVisit, VisitFields, Visits!LoadSuggestions
<1>4. ASSUME NEW p PROVE SameVisit(u, Visits!ShowPlaceDetail(u, p))
  BY DEF SameVisit, VisitFields, Visits!ShowPlaceDetail
<1>5. ASSUME NEW p PROVE SameVisit(u, Visits!StartEditingPlaceBoundary(u, p))
  <2> DEFINE v == Visits!ClearDrawing(u)
             w == [v EXCEPT !.edited = p, !.poly = p, !.named = TRUE]
  <2>1. Visits!StartEditingPlaceBoundary(u, p) = u \/ Visits!StartEditingPlaceBoundary(u, p) = Visits!SetMode(w, "edit-existing")
    BY DEF Visits!StartEditingPlaceBoundary
  <2>2. SameVisit(u, v)
    BY <1>1
  <2> HIDE DEF v
  <2>3. SameVisit(u, w)
    BY <2>2 DEF SameVisit, VisitFields
  <2> HIDE DEF w
  <2>4. SameVisit(u, Visits!SetMode(w, "edit-existing"))
    BY <2>3 DEF SameVisit, VisitFields, Visits!SetMode
  <2> QED BY <1>1, <2>1, <2>4
<1> QED BY <1>1, <1>2, <1>3, <1>4, <1>5

LEMMA ActedVisit ==
    ASSUME NEW u, VisitSound(u)
    PROVE  VisitSound(Visits!Acted(u))
BY VisitHelpers, SameVisitSound DEF VisitSound

(* The grid is asked for anew: what comes is of now, or requests crossed.  *)
LEMMA LoadSound ==
    ASSUME NEW u, VisitFields \subseteq DOMAIN u, NEW rows,
           ~u.left /\ ~u.failed => /\ Managed(u) /\ OfManaged(u)
                                   /\ (u.init = "done" => rows \cup u.unmanaged = u.server)
    PROVE  VisitSound(Visits!LoadData(u, rows))
<1>1. CASE u.left
  BY <1>1, Zenon DEF Visits!LoadData, VisitSound
<1>2. CASE ~u.left
  <2> DEFINE l == [id |-> u.steps, rows |-> rows]
             v == [u EXCEPT !.loads = @ \cup {l}, !.crossed = @ \/ u.loads # {}]
  <2>1. Visits!LoadData(u, rows) = v
    BY <1>2 DEF Visits!LoadData
  <2>2. l.rows = rows
    OBVIOUS
  <2> HIDE DEF l
  <2>3. /\ VisitFields \subseteq DOMAIN v
        /\ v.server = u.server /\ v.used = u.used /\ v.mgr = u.mgr /\ v.feats = u.feats /\ v.grid = u.grid /\ v.init = u.init
        /\ v.refreshes = u.refreshes /\ v.writes = u.writes /\ v.confirm = u.confirm /\ v.prompt = u.prompt
        /\ v.unmanaged = u.unmanaged /\ v.left = u.left /\ v.failed = u.failed
        /\ v.loads = u.loads \cup {l}
    BY DEF VisitFields
  <2>4. ~v.crossed => u.loads = {}
    BY DEF VisitFields
  <2> HIDE DEF v
  <2>5. ASSUME ~v.left, ~v.failed PROVE VisitKept(v)
    <3>1. Managed(u) /\ OfManaged(u) /\ (u.init = "done" => rows \cup u.unmanaged = u.server)
      BY <2>3, <2>5, Zenon
    <3>2. Managed(v)
      BY <2>3, <3>1, Zenon DEF Managed
    <3>3. OfManaged(v)
      BY <2>3, <3>1, Zenon DEF OfManaged
    <3>4. GridLoads(v)
      BY <2>2, <2>3, <2>4, <3>1 DEF GridLoads
    <3> QED BY <3>2, <3>3, <3>4 DEF VisitKept
  <2> QED BY <2>1, <2>3, <2>5, Zenon DEF VisitSound
<1> QED BY <1>1, <1>2

(* A write that is sent, answered or given up, and a place to be deleted.  *)
LEMMA WritesSound ==
    ASSUME NEW u, VisitSound(u), NEW v, VisitFields \subseteq DOMAIN v,
           \A f \in VisitFields \ {"writes", "confirm", "prompt"} : v[f] = u[f],
           ~u.left /\ ~u.failed => OfManaged(v) /\ (u.init # "done" => v.writes = {} /\ v.confirm = NoPlace /\ v.prompt = "none")
    PROVE  VisitSound(v)
<1>1. /\ v.server = u.server /\ v.used = u.used /\ v.mgr = u.mgr /\ v.feats = u.feats /\ v.grid = u.grid /\ v.init = u.init
      /\ v.loads = u.loads /\ v.refreshes = u.refreshes /\ v.crossed = u.crossed /\ v.failed = u.failed
      /\ v.unmanaged = u.unmanaged /\ v.left = u.left
  BY DEF VisitFields
<1>3. ASSUME ~v.left, ~v.failed PROVE VisitKept(v)
  <2>1. VisitKept(u) /\ OfManaged(v) /\ (u.init # "done" => v.writes = {} /\ v.confirm = NoPlace /\ v.prompt = "none")
    BY <1>1, <1>3, Zenon DEF VisitSound
  <2>2. Managed(v)
    BY <1>1, <2>1, Zenon DEF VisitKept, Managed
  <2>4. GridLoads(v)
    BY <1>1, <2>1, Zenon DEF VisitKept, GridLoads
  <2> QED BY <2>1, <2>2, <2>4 DEF VisitKept
<1> QED BY <1>3, Zenon DEF VisitSound

LEMMA SendSound ==
    ASSUME NEW u, VisitSound(u), NEW kind, NEW p, NEW geo,
           ~u.left /\ ~u.failed => u.init = "done" /\ (kind \in {"map", "form", "delete"} => p \in u.used \ u.unmanaged)
    PROVE  VisitSound(Visits!Send(u, kind, p, geo))
<1> DEFINE w == [id |-> u.steps, kind |-> kind, of |-> p, geo |-> geo]
           v == [u EXCEPT !.writes = @ \cup {w}]
<1>1. Visits!Send(u, kind, p, geo) = v
  BY DEF Visits!Send
<1>2. w.kind = kind /\ w.of = p
  OBVIOUS
<1> HIDE DEF w
<1>3. /\ VisitFields \subseteq DOMAIN v /\ (\A f \in VisitFields \ {"writes", "confirm", "prompt"} : v[f] = u[f])
      /\ v.writes = u.writes \cup {w} /\ v.confirm = u.confirm
  BY DEF VisitSound, VisitFields
<1> HIDE DEF v
<1>4. v.used = u.used /\ v.unmanaged = u.unmanaged
  BY <1>3 DEF VisitFields
<1>5. ASSUME ~u.left, ~u.failed PROVE OfManaged(v) /\ u.init = "done"
  <2>1. VisitKept(u) /\ u.init = "done" /\ (kind \in {"map", "form", "delete"} => p \in u.used \ u.unmanaged)
    BY <1>5, Zenon DEF VisitSound
  <2> QED BY <1>2, <1>3, <1>4, <2>1 DEF VisitKept, OfManaged
<1>6. ~u.left /\ ~u.failed => OfManaged(v) /\ (u.init # "done" => v.writes = {} /\ v.confirm = NoPlace /\ v.prompt = "none")
  BY <1>5
<1>7. VisitSound(v)
  BY <1>3, <1>6, WritesSound
<1> QED BY <1>1, <1>7

(* The places the manager knows are the ones it may change.                *)
LEMMA KnownPlaces ==
    ASSUME NEW u, VisitSound(u), ~u.left, ~u.failed, u.init = "done", NEW p \in u.mgr
    PROVE  p \in u.used \ u.unmanaged
BY DEF VisitSound, VisitKept, Managed

LEMMA FailedSound ==
    ASSUME NEW v, VisitFields \subseteq DOMAIN v, v.left \/ v.failed
    PROVE  VisitSound(v)
BY Zenon DEF VisitSound

(* While a refresh is due the grid may be behind.                          *)
LEMMA RefreshSound ==
    ASSUME NEW u, VisitFields \subseteq DOMAIN u, NEW reset, ~u.left /\ ~u.failed => Managed(u) /\ OfManaged(u)
    PROVE  VisitSound(Visits!Refresh(u, reset))
<1> DEFINE r == [id |-> u.steps, reset |-> reset]
           v == [u EXCEPT !.refreshes = @ \cup {r}]
<1>1. Visits!Refresh(u, reset) = v
  BY DEF Visits!Refresh
<1> HIDE DEF r
<1>2. /\ VisitFields \subseteq DOMAIN v
      /\ v.server = u.server /\ v.used = u.used /\ v.mgr = u.mgr /\ v.feats = u.feats /\ v.init = u.init
      /\ v.writes = u.writes /\ v.confirm = u.confirm /\ v.prompt = u.prompt
      /\ v.unmanaged = u.unmanaged /\ v.left = u.left /\ v.failed = u.failed /\ r \in v.refreshes
  BY DEF VisitFields
<1> HIDE DEF v
<1>3. GridLoads(v)
  BY <1>2 DEF GridLoads
<1>4. ASSUME ~v.left, ~v.failed PROVE VisitKept(v)
  <2>1. Managed(u) /\ OfManaged(u)
    BY <1>2, <1>4, Zenon
  <2>2. Managed(v)
    BY <1>2, <2>1, Zenon DEF Managed
  <2>3. OfManaged(v)
    BY <1>2, <2>1, Zenon DEF OfManaged
  <2> QED BY <1>3, <2>2, <2>3 DEF VisitKept
<1> QED BY <1>1, <1>2, <1>4, Zenon DEF VisitSound

LEMMA CreatedSound ==
    ASSUME VisitSound(ui), NEW w \in ui.writes, NEW p \in VisitPlaces, Visits!PlaceCreated(w, p)
    PROVE  VisitSound(ui')
<1> DEFINE u == [ui EXCEPT !.writes = @ \ {w}, !.server = @ \cup {p}, !.used = @ \cup {p}]
           v == [u EXCEPT !.mgr = @ \cup {p}, !.feats = @ \cup {p}]
<1>1. p \notin ui.used /\ ui' = IF ui.left THEN u ELSE Visits!Refresh(v, TRUE)
  BY DEF Visits!PlaceCreated
<1>2. VisitFields \subseteq DOMAIN u /\ u.left = ui.left
  BY DEF VisitSound, VisitFields
<1>3. /\ VisitFields \subseteq DOMAIN v
      /\ v.server = ui.server \cup {p} /\ v.used = ui.used \cup {p} /\ v.mgr = ui.mgr \cup {p} /\ v.feats = ui.feats \cup {p}
      /\ v.init = ui.init /\ v.writes = ui.writes \ {w} /\ v.confirm = ui.confirm /\ v.prompt = ui.prompt
      /\ v.unmanaged = ui.unmanaged /\ v.left = ui.left /\ v.failed = ui.failed
  BY DEF VisitSound, VisitFields
<1> HIDE DEF u, v
<1>4. ASSUME ~v.left, ~v.failed PROVE Managed(v) /\ OfManaged(v)
  <2>1. Managed(ui) /\ OfManaged(ui)
    BY <1>3, <1>4, Zenon DEF VisitSound, VisitKept
  <2>2. ui.init = "done"
    BY <2>1 DEF Managed
  <2>3. Managed(v)
    BY <1>1, <1>3, <2>1, <2>2 DEF Managed
  <2>4. OfManaged(v)
    BY <1>3, <2>1 DEF OfManaged
  <2> QED BY <2>3, <2>4
<1>5. VisitSound(Visits!Refresh(v, TRUE))
  BY <1>3, <1>4, RefreshSound
<1> QED BY <1>1, <1>2, <1>5, FailedSound

LEMMA UpdatedSound ==
    ASSUME VisitSound(ui), NEW w \in ui.writes, Visits!PlaceUpdated(w)
    PROVE  VisitSound(ui')
<1> DEFINE u == [ui EXCEPT !.writes = @ \ {w}, !.edit = FALSE]
           v == [u EXCEPT !.mgr = @ \cup {w.of}, !.feats = @ \cup {w.of}]
           b == w.kind = "map" \/ w.geo # "none"
<1>1. w.kind \in {"map", "form"} /\ w.of \in ui.server /\ ui' = IF ui.left THEN u ELSE Visits!Refresh(v, b)
  BY DEF Visits!PlaceUpdated
<1>2. VisitFields \subseteq DOMAIN u /\ u.left = ui.left
  BY DEF VisitSound, VisitFields
<1>3. /\ VisitFields \subseteq DOMAIN v
      /\ v.server = ui.server /\ v.used = ui.used /\ v.mgr = ui.mgr \cup {w.of} /\ v.feats = ui.feats \cup {w.of}
      /\ v.init = ui.init /\ v.writes = ui.writes \ {w} /\ v.confirm = ui.confirm /\ v.prompt = ui.prompt
      /\ v.unmanaged = ui.unmanaged /\ v.left = ui.left /\ v.failed = ui.failed
  BY DEF VisitSound, VisitFields
<1> HIDE DEF u, v, b
<1>4. ASSUME ~v.left, ~v.failed PROVE Managed(v) /\ OfManaged(v)
  <2>1. Managed(ui) /\ OfManaged(ui)
    BY <1>3, <1>4, Zenon DEF VisitSound, VisitKept
  <2>2. ui.init = "done" /\ w.of \in ui.mgr
    BY <1>1, <2>1 DEF Managed, OfManaged
  <2>3. Managed(v)
    BY <1>3, <2>1, <2>2 DEF Managed
  <2>4. OfManaged(v)
    BY <1>3, <2>1 DEF OfManaged
  <2> QED BY <2>3, <2>4
<1>5. VisitSound(Visits!Refresh(v, b))
  BY <1>3, <1>4, RefreshSound
<1> QED BY <1>1, <1>2, <1>5, FailedSound

LEMMA DeletedSound ==
    ASSUME VisitSound(ui), NEW w \in ui.writes, Visits!PlaceDeleted(w)
    PROVE  VisitSound(ui')
<1> DEFINE u == [ui EXCEPT !.writes = @ \ {w}, !.server = @ \ {w.of}]
           v == [u EXCEPT !.mgr = @ \ {w.of}, !.feats = @ \ {w.of}, !.detail = NoPlace,
                          !.edit = FALSE, !.active = NoPlace, !.crossed = @ \/ ui.asks # {}]
<1>1. w.kind = "delete" /\ ui' = IF ui.left THEN u ELSE Visits!Refresh(v, FALSE)
  BY DEF Visits!PlaceDeleted
<1>2. VisitFields \subseteq DOMAIN u /\ u.left = ui.left
  BY DEF VisitSound, VisitFields
<1>3. /\ VisitFields \subseteq DOMAIN v
      /\ v.server = ui.server \ {w.of} /\ v.used = ui.used /\ v.mgr = ui.mgr \ {w.of} /\ v.feats = ui.feats \ {w.of}
      /\ v.init = ui.init /\ v.writes = ui.writes \ {w} /\ v.confirm = ui.confirm /\ v.prompt = ui.prompt
      /\ v.unmanaged = ui.unmanaged /\ v.left = ui.left /\ v.failed = ui.failed
  BY DEF VisitSound, VisitFields
<1> HIDE DEF u, v
<1>4. ASSUME ~v.left, ~v.failed PROVE Managed(v) /\ OfManaged(v)
  <2>1. Managed(ui) /\ OfManaged(ui)
    BY <1>3, <1>4, Zenon DEF VisitSound, VisitKept
  <2>2. ui.init = "done" /\ w.of \notin ui.unmanaged
    BY <1>1, <2>1 DEF Managed, OfManaged
  <2>3. Managed(v)
    BY <1>3, <2>1, <2>2 DEF Managed
  <2>4. OfManaged(v)
    BY <1>3, <2>1 DEF OfManaged
  <2> QED BY <2>3, <2>4
<1>5. VisitSound(Visits!Refresh(v, FALSE))
  BY <1>3, <1>4, RefreshSound
<1> QED BY <1>1, <1>2, <1>5, FailedSound

(* The page controller's place is new to the manager and to the grid.      *)
LEMMA DiscoverySound ==
    ASSUME VisitSound(ui), NEW w \in ui.writes, NEW p \in VisitPlaces, Visits!SuggestionSaved(w, p)
    PROVE  VisitSound(ui')
<1> DEFINE u == [ui EXCEPT !.writes = @ \ {w}, !.server = @ \cup {p}, !.used = @ \cup {p}, !.unmanaged = @ \cup {p}]
<1>1. p \notin ui.used /\ ui' = Visits!LoadData(u, u.server)
  BY DEF Visits!SuggestionSaved
<1>3. /\ VisitFields \subseteq DOMAIN u
      /\ u.server = ui.server \cup {p} /\ u.used = ui.used \cup {p} /\ u.mgr = ui.mgr /\ u.feats = ui.feats
      /\ u.init = ui.init /\ u.writes = ui.writes \ {w} /\ u.confirm = ui.confirm /\ u.prompt = ui.prompt
      /\ u.unmanaged = ui.unmanaged \cup {p} /\ u.left = ui.left /\ u.failed = ui.failed
  BY DEF VisitSound, VisitFields
<1> HIDE DEF u
<1>4. ASSUME ~u.left, ~u.failed PROVE Managed(u) /\ OfManaged(u) /\ (u.init = "done" => u.server \cup u.unmanaged = u.server)
  <2>1. Managed(ui) /\ OfManaged(ui)
    BY <1>3, <1>4, Zenon DEF VisitSound, VisitKept
  <2>2. ui.init = "done"
    BY <2>1 DEF Managed
  <2>3. Managed(u)
    BY <1>1, <1>3, <2>1, <2>2 DEF Managed
  <2>4. OfManaged(u)
    BY <1>1, <1>3, <2>1 DEF OfManaged
  <2>5. u.server \cup u.unmanaged = u.server
    BY <1>3, <2>1, <2>2 DEF Managed
  <2> QED BY <2>3, <2>4, <2>5
<1>5. VisitSound(Visits!LoadData(u, u.server))
  BY <1>3, <1>4, LoadSound
<1> QED BY <1>1, <1>5

(* The manager's places are in, then their statistics.                     *)
LEMMA PlacesSound ==
    ASSUME VisitSound(ui), Visits!PlacesArrive
    PROVE  VisitSound(ui')
<1>t. VisitFields \subseteq DOMAIN ui /\ ui.init = "places"
  BY DEF VisitSound, Visits!PlacesArrive
<1>1. CASE ui.left /\ ui' = [ui EXCEPT !.init = "done"]
  <2>1. VisitFields \subseteq DOMAIN ui' /\ (ui').left = ui.left
    BY <1>t, <1>1 DEF VisitFields
  <2> QED BY <1>1, <2>1, FailedSound
<1>2. CASE ~ui.left /\ ui' = [ui EXCEPT !.init = "stats", !.mgr = ui.server, !.feats = ui.server]
  <2> DEFINE v == ui'
  <2>1. /\ VisitFields \subseteq DOMAIN v
        /\ v.server = ui.server /\ v.used = ui.used /\ v.mgr = ui.server /\ v.feats = ui.server
        /\ v.init = "stats" /\ v.writes = ui.writes /\ v.confirm = ui.confirm /\ v.prompt = ui.prompt
        /\ v.unmanaged = ui.unmanaged /\ v.left = ui.left /\ v.failed = ui.failed
    BY <1>t, <1>2 DEF VisitFields
  <2> HIDE DEF v
  <2>2. ASSUME ~v.left, ~v.failed PROVE VisitKept(v)
    <3>1. Managed(ui) /\ OfManaged(ui)
      BY <2>1, <2>2, Zenon DEF VisitSound, VisitKept
    <3>2. Managed(v) /\ OfManaged(v) /\ GridLoads(v)
      BY <1>t, <2>1, <3>1 DEF Managed, OfManaged, GridLoads
    <3> QED BY <3>2 DEF VisitKept
  <2>3. VisitSound(v)
    BY <2>1, <2>2, Zenon DEF VisitSound
  <2> QED BY <2>3 DEF v
<1>3. CASE ~ui.left /\ ui' = [ui EXCEPT !.init = "stats", !.mgr = {}, !.failed = TRUE]
  <2>1. VisitFields \subseteq DOMAIN ui' /\ (ui').failed
    BY <1>t, <1>3 DEF VisitFields
  <2> QED BY <2>1, FailedSound
<1> QED BY <1>1, <1>2, <1>3 DEF Visits!PlacesArrive

LEMMA StatsSound ==
    ASSUME VisitSound(ui), Visits!StatsArrive
    PROVE  VisitSound(ui')
<1> DEFINE u == [ui EXCEPT !.init = "done"]
<1>t. VisitFields \subseteq DOMAIN ui /\ ui.init = "stats"
  BY DEF VisitSound, Visits!StatsArrive
<1>1. CASE ui' = Visits!LoadData(u, ui.mgr)
  <2>1. /\ VisitFields \subseteq DOMAIN u
        /\ u.server = ui.server /\ u.used = ui.used /\ u.mgr = ui.mgr /\ u.feats = ui.feats
        /\ u.init = "done" /\ u.writes = ui.writes /\ u.confirm = ui.confirm /\ u.prompt = ui.prompt
        /\ u.unmanaged = ui.unmanaged /\ u.left = ui.left /\ u.failed = ui.failed
    BY <1>t DEF VisitFields
  <2> HIDE DEF u
  <2>2. ASSUME ~u.left, ~u.failed PROVE Managed(u) /\ OfManaged(u) /\ (u.init = "done" => ui.mgr \cup u.unmanaged = u.server)
    <3>1. Managed(ui) /\ OfManaged(ui)
      BY <2>1, <2>2, Zenon DEF VisitSound, VisitKept
    <3> QED BY <1>t, <2>1, <3>1 DEF Managed, OfManaged
  <2>3. VisitSound(Visits!LoadData(u, ui.mgr))
    BY <2>1, <2>2, LoadSound
  <2> QED BY <1>1, <2>3
<1>2. CASE ui' = [ui EXCEPT !.init = "done", !.failed = TRUE]
  <2>1. VisitFields \subseteq DOMAIN ui' /\ (ui').failed
    BY <1>t, <1>2 DEF VisitFields
  <2> QED BY <2>1, FailedSound
<1> QED BY <1>1, <1>2 DEF Visits!StatsArrive

(* The grid gets the rows of the request, or the server's.                 *)
LEMMA DataSound ==
    ASSUME VisitSound(ui), NEW l \in ui.loads, Visits!DataArrives(l)
    PROVE  VisitSound(ui')
<1> DEFINE u == [ui EXCEPT !.loads = @ \ {l}]
<1>1. \/ ui.left /\ ui' = u
      \/ ~ui.left /\ \E rows \in {l.rows, ui.server} : ui' = Visits!LoadSuggestions([u EXCEPT !.grid = rows], TRUE)
  BY DEF Visits!DataArrives
<1>2. VisitFields \subseteq DOMAIN u /\ u.left = ui.left
  BY DEF VisitSound, VisitFields
<1>3. ASSUME NEW rows \in {l.rows, ui.server} PROVE VisitSound([u EXCEPT !.grid = rows])
  <2> DEFINE v == [u EXCEPT !.grid = rows]
  <2>1. /\ VisitFields \subseteq DOMAIN v
        /\ v.server = ui.server /\ v.used = ui.used /\ v.mgr = ui.mgr /\ v.feats = ui.feats /\ v.grid = rows
        /\ v.init = ui.init /\ v.writes = ui.writes /\ v.confirm = ui.confirm /\ v.prompt = ui.prompt
        /\ v.unmanaged = ui.unmanaged /\ v.left = ui.left /\ v.failed = ui.failed /\ v.crossed = ui.crossed
        /\ v.refreshes = ui.refreshes /\ v.loads = ui.loads \ {l}
    BY DEF VisitSound, VisitFields
  <2> HIDE DEF v, u
  <2>2. ASSUME ~v.left, ~v.failed PROVE VisitKept(v)
    <3>1. Managed(ui) /\ OfManaged(ui) /\ GridLoads(ui)
      BY <2>1, <2>2, Zenon DEF VisitSound, VisitKept
    <3>2. Managed(v) /\ OfManaged(v)
      BY <2>1, <3>1 DEF Managed, OfManaged
    <3>3. ASSUME ~v.crossed, v.init = "done", v.refreshes = {}
          PROVE  (\A k \in v.loads : k.rows \cup v.unmanaged = v.server) /\ v.grid \cup v.unmanaged = v.server
      <4>1. ~ui.crossed /\ ui.init = "done" /\ ui.refreshes = {}
        BY <2>1, <3>3, Zenon
      <4>2. \A k \in ui.loads : k.rows \cup ui.unmanaged = ui.server
        BY <3>1, <4>1, Zenon DEF GridLoads
      <4>3. ui.server \cup ui.unmanaged = ui.server
        BY <3>1, <4>1 DEF Managed
      <4> QED BY <2>1, <4>2, <4>3
    <3>4. GridLoads(v)
      BY <3>3, Zenon DEF GridLoads
    <3> QED BY <3>2, <3>4 DEF VisitKept
  <2>3. VisitSound(v)
    BY <2>1, <2>2, Zenon DEF VisitSound
  <2> QED BY <2>3 DEF v
<1> HIDE DEF u
<1>4. ASSUME NEW rows \in {l.rows, ui.server} PROVE VisitSound(Visits!LoadSuggestions([u EXCEPT !.grid = rows], TRUE))
  <2> DEFINE v == [u EXCEPT !.grid = rows]
  <2>1. VisitSound(v)
    BY <1>3
  <2> HIDE DEF v
  <2>2. VisitSound(Visits!LoadSuggestions(v, TRUE))
    BY <2>1, VisitHelpers, SameVisitSound DEF VisitSound
  <2> QED BY <2>2 DEF v
<1> QED BY <1>1, <1>2, <1>4, FailedSound

LEMMA RefreshedSound ==
    ASSUME VisitSound(ui), NEW r \in ui.refreshes, Visits!RefreshAfterMutation(r)
    PROVE  VisitSound(ui')
<1> DEFINE u == [ui EXCEPT !.refreshes = @ \ {r}]
           x == Visits!LoadData(u, ui.mgr)
           y == [x EXCEPT !.cut = @ \/ x.mode # "idle"]
<1>1. ui' = x \/ ui' = Visits!ClearDrawing(y) \/ ui' = [u EXCEPT !.failed = TRUE]
  BY DEF Visits!RefreshAfterMutation
<1>2. /\ VisitFields \subseteq DOMAIN u
      /\ u.server = ui.server /\ u.used = ui.used /\ u.mgr = ui.mgr /\ u.feats = ui.feats
      /\ u.init = ui.init /\ u.writes = ui.writes /\ u.confirm = ui.confirm /\ u.prompt = ui.prompt
      /\ u.unmanaged = ui.unmanaged /\ u.left = ui.left /\ u.failed = ui.failed
  BY DEF VisitSound, VisitFields
<1> HIDE DEF u
<1>3. VisitFields \subseteq DOMAIN [u EXCEPT !.failed = TRUE] /\ [u EXCEPT !.failed = TRUE].failed
  BY <1>2 DEF VisitFields
<1>4. ASSUME ~u.left, ~u.failed PROVE Managed(u) /\ OfManaged(u) /\ (u.init = "done" => ui.mgr \cup u.unmanaged = u.server)
  <2>1. Managed(ui) /\ OfManaged(ui)
    BY <1>2, <1>4, Zenon DEF VisitSound, VisitKept
  <2> QED BY <1>2, <2>1 DEF Managed, OfManaged
<1>5. VisitSound(x)
  BY <1>2, <1>4, LoadSound
<1> HIDE DEF x
<1>6. SameVisit(x, y)
  BY <1>5 DEF VisitSound, SameVisit, VisitFields
<1> HIDE DEF y
<1>7. VisitSound(y)
  BY <1>5, <1>6, SameVisitSound
<1>8. VisitSound(Visits!ClearDrawing(y))
  BY <1>7, VisitHelpers, SameVisitSound DEF VisitSound
<1> QED BY <1>1, <1>3, <1>5, <1>8, FailedSound

(* The steps of a place's dialogs, of the drawing and of a place's trips.  *)
LEMMA QuietSteps ==
    ASSUME VisitSound(ui),
           \/ Visits!MapLoaded \/ Visits!StartDrawing \/ Visits!StartSelectingBoundaryForEdit \/ Visits!OnPolygonCreated
           \/ Visits!OnPolygonUpdated \/ Visits!ApplyBoundaryGeometryTransform \/ Visits!ClearCurrentDrawing
           \/ Visits!ApplySuggestion \/ Visits!TypeName \/ Visits!CloseDialog \/ Visits!OpenEditModalForActivePlace
           \/ Visits!StartBoundaryEditForActivePlace \/ Visits!AfterHidden \/ Visits!BackToPlaces \/ Visits!TripMapLoaded
           \/ Visits!PopupStatistics \/ Visits!SetStyle \/ Visits!StyleLoaded
    PROVE  VisitSound(ui')
<1>t. VisitFields \subseteq DOMAIN ui
  BY DEF VisitSound
<1>h. \A u : VisitSound(u) => /\ VisitSound(Visits!Acted(u)) /\ VisitSound(Visits!ClearDrawing(u))
                              /\ \A m : VisitSound(Visits!SetMode(u, m))
                              /\ \A p : VisitSound(Visits!StartEditingPlaceBoundary(u, p))
  BY VisitHelpers, SameVisitSound DEF VisitSound
<1>1. CASE Visits!MapLoaded
  <2>1. /\ VisitFields \subseteq DOMAIN ui' /\ ui.init = "map" /\ (ui').init = "places"
        /\ (ui').server = ui.server /\ (ui').used = ui.used /\ (ui').mgr = ui.mgr /\ (ui').feats = ui.feats
        /\ (ui').writes = ui.writes /\ (ui').confirm = ui.confirm /\ (ui').prompt = ui.prompt
        /\ (ui').unmanaged = ui.unmanaged /\ (ui').left = ui.left /\ (ui').failed = ui.failed
    BY <1>t, <1>1 DEF VisitFields, Visits!MapLoaded
  <2>2. ASSUME ~(ui').left, ~(ui').failed PROVE VisitKept(ui')
    <3>1. Managed(ui) /\ OfManaged(ui)
      BY <2>1, <2>2, Zenon DEF VisitSound, VisitKept
    <3>2. Managed(ui') /\ OfManaged(ui') /\ GridLoads(ui')
      BY <2>1, <3>1 DEF Managed, OfManaged, GridLoads
    <3> QED BY <3>2 DEF VisitKept
  <2> QED BY <2>1, <2>2, Zenon DEF VisitSound
<1>2. CASE Visits!StartDrawing
  BY <1>2, <1>h DEF Visits!StartDrawing
<1>3. CASE Visits!StartSelectingBoundaryForEdit
  BY <1>3, <1>h DEF Visits!StartSelectingBoundaryForEdit
<1>4. CASE Visits!OnPolygonCreated
  <2> DEFINE v == [ui EXCEPT !.poly = "new", !.edited = NoPlace]
  <2>1. ui' = Visits!Acted(Visits!SetMode(v, "edit-new")) /\ SameVisit(ui, v)
    BY <1>t, <1>4 DEF Visits!OnPolygonCreated, SameVisit, VisitFields
  <2> HIDE DEF v
  <2> QED BY <1>h, <2>1, SameVisitSound
<1>5. CASE Visits!OnPolygonUpdated
  <2>1. ui' = Visits!Acted(Visits!SetMode(ui, "edit-new")) \/ ui' = Visits!Acted(ui)
    BY <1>5 DEF Visits!OnPolygonUpdated
  <2> QED BY <1>h, <2>1
<1>6. CASE Visits!ApplyBoundaryGeometryTransform
  BY <1>6, <1>h DEF Visits!ApplyBoundaryGeometryTransform
<1>7. CASE Visits!ClearCurrentDrawing
  BY <1>7, <1>h DEF Visits!ClearCurrentDrawing
<1>8. CASE Visits!ApplySuggestion
  <2> DEFINE v == Visits!ClearDrawing(ui)
             w == [v EXCEPT !.poly = "new", !.named = TRUE]
  <2>1. ui' = Visits!Acted(Visits!SetMode(w, "edit-new"))
    BY <1>8 DEF Visits!ApplySuggestion
  <2>2. VisitSound(v)
    BY <1>h
  <2> HIDE DEF v
  <2>3. SameVisit(v, w)
    BY <2>2 DEF VisitSound, SameVisit, VisitFields
  <2> HIDE DEF w
  <2> QED BY <1>h, <2>1, <2>2, <2>3, SameVisitSound
<1>9. CASE Visits!TypeName
  <2> DEFINE v == [ui EXCEPT !.named = TRUE]
  <2>1. ui' = Visits!Acted(v) /\ SameVisit(ui, v)
    BY <1>t, <1>9 DEF Visits!TypeName, SameVisit, VisitFields
  <2> HIDE DEF v
  <2> QED BY <1>h, <2>1, SameVisitSound
<1>10. CASE Visits!CloseDialog
  <2> DEFINE v == [ui EXCEPT !.detail = NoPlace, !.edit = FALSE]
  <2>1. ui' = Visits!Acted(v) /\ SameVisit(ui, v)
    BY <1>t, <1>10 DEF Visits!CloseDialog, SameVisit, VisitFields
  <2> HIDE DEF v
  <2> QED BY <1>h, <2>1, SameVisitSound
<1>11. CASE Visits!OpenEditModalForActivePlace
  <2> DEFINE v == [ui EXCEPT !.editId = ui.active, !.editName = ui.active, !.detail = NoPlace, !.after = "edit", !.afterOf = ui.active]
  <2>1. (ui' = Visits!Acted(v) \/ ui' = Visits!Acted(ui)) /\ SameVisit(ui, v)
    BY <1>t, <1>11 DEF Visits!OpenEditModalForActivePlace, SameVisit, VisitFields
  <2> HIDE DEF v
  <2> QED BY <1>h, <2>1, SameVisitSound
<1>12. CASE Visits!StartBoundaryEditForActivePlace
  <2> DEFINE v == [ui EXCEPT !.detail = NoPlace, !.after = "boundary", !.afterOf = ui.active]
  <2>1. ui' = Visits!Acted(v) /\ SameVisit(ui, v)
    BY <1>t, <1>12 DEF Visits!StartBoundaryEditForActivePlace, SameVisit, VisitFields
  <2> HIDE DEF v
  <2> QED BY <1>h, <2>1, SameVisitSound
<1>13. CASE Visits!AfterHidden
  <2> DEFINE u == [ui EXCEPT !.after = "none", !.afterOf = NoPlace]
             v == [u EXCEPT !.edit = TRUE, !.late = @ \/ ui.left]
             w == [u EXCEPT !.edit = FALSE]
  <2>1. ui' = v \/ ui' = u \/ ui' = Visits!StartEditingPlaceBoundary(w, ui.afterOf)
    BY <1>13 DEF Visits!AfterHidden
  <2>2. SameVisit(ui, u) /\ SameVisit(ui, v) /\ SameVisit(ui, w)
    BY <1>t DEF SameVisit, VisitFields
  <2> HIDE DEF u, v, w
  <2> QED BY <1>h, <2>1, <2>2, SameVisitSound
<1>14. CASE Visits!BackToPlaces
  <2> DEFINE v == [ui EXCEPT !.view = NoPlace, !.crossed = @ \/ ui.tripAsks # {}]
  <2>1. ui' = Visits!Acted(v) /\ SameVisit(ui, v)
    BY <1>t, <1>14 DEF Visits!BackToPlaces, SameVisit, VisitFields
  <2> HIDE DEF v
  <2> QED BY <1>h, <2>1, SameVisitSound
<1>15. CASE Visits!TripMapLoaded \/ Visits!PopupStatistics \/ Visits!StyleLoaded
  <2>1. SameVisit(ui, ui')
    BY <1>t, <1>15 DEF Visits!TripMapLoaded, Visits!PopupStatistics, Visits!StyleLoaded, SameVisit, VisitFields
  <2> QED BY <2>1, SameVisitSound
<1>16. CASE Visits!SetStyle
  <2> DEFINE v == [ui EXCEPT !.layer = FALSE, !.styles = @ + 1, !.line = NoTrip, !.trip = IF ui.tmap = "ready" THEN NoTrip ELSE @]
  <2>1. ui' = Visits!Acted(v) /\ SameVisit(ui, v)
    BY <1>t, <1>16 DEF Visits!SetStyle, SameVisit, VisitFields
  <2> HIDE DEF v
  <2> QED BY <1>h, <2>1, SameVisitSound
<1> QED
  BY <1>1, <1>2, <1>3, <1>4, <1>5, <1>6, <1>7, <1>8, <1>9, <1>10, <1>11, <1>12, <1>13, <1>14, <1>15, <1>16

(* The steps that choose something, and the answers they get.              *)
LEMMA ChoosingSteps ==
    ASSUME VisitSound(ui),
           \/ Visits!StopsArrive \/ \E s \in ui.suggests : Visits!SuggestionsArrive(s)
           \/ \E l \in ui.loads : Visits!DataFails(l)
           \/ \E p \in VisitPlaces : Visits!HandlePlaceClick(p) \/ Visits!OpenDetail(p) \/ Visits!ToggleView(p)
           \/ \E a \in ui.asks : Visits!DetailArrives(a)
           \/ \E a \in ui.tripAsks : Visits!PlaceTripsArrive(a)
           \/ \E t \in PlaceTrips : Visits!ShowTrip(t)
           \/ \E f \in Filters : Visits!ChangeFilter(f)
           \/ Visits!FiltersApplied \/ Visits!Destroy
    PROVE  VisitSound(ui')
<1>t. VisitFields \subseteq DOMAIN ui
  BY DEF VisitSound
<1>h. \A u : VisitSound(u) => /\ VisitSound(Visits!Acted(u))
                              /\ \A p : VisitSound(Visits!StartEditingPlaceBoundary(u, p)) /\ VisitSound(Visits!ShowPlaceDetail(u, p))
                              /\ \A b : VisitSound(Visits!LoadSuggestions(u, b))
  BY VisitHelpers, SameVisitSound DEF VisitSound
<1>1. CASE Visits!StopsArrive
  <2> DEFINE u == [ui EXCEPT !.stops = @ - 1]
             v == [u EXCEPT !.link = NoPlace]
  <2>1. ui' = u \/ ui' = v \/ ui' = Visits!ShowPlaceDetail(v, ui.link)
    BY <1>1 DEF Visits!StopsArrive
  <2>2. SameVisit(ui, u) /\ SameVisit(ui, v)
    BY <1>t DEF SameVisit, VisitFields
  <2> HIDE DEF u, v
  <2> QED BY <1>h, <2>1, <2>2, SameVisitSound
<1>2. ASSUME NEW s \in ui.suggests, Visits!SuggestionsArrive(s) PROVE VisitSound(ui')
  <2>1. SameVisit(ui, ui')
    BY <1>t, <1>2 DEF SameVisit, VisitFields, Visits!SuggestionsArrive
  <2> QED BY <2>1, SameVisitSound
<1>3. ASSUME NEW l \in ui.loads, Visits!DataFails(l) PROVE VisitSound(ui')
  <2>1. VisitFields \subseteq DOMAIN ui' /\ (ui').failed
    BY <1>t, <1>3 DEF VisitFields, Visits!DataFails
  <2> QED BY <2>1, FailedSound
<1>4. ASSUME NEW p \in VisitPlaces, Visits!HandlePlaceClick(p) PROVE VisitSound(ui')
  <2> DEFINE v == [ui EXCEPT !.popup = p, !.told = FALSE]
  <2>1. ui' = Visits!Acted(ui) \/ ui' = Visits!Acted(v) \/ ui' = Visits!Acted(Visits!StartEditingPlaceBoundary(ui, p))
    BY <1>4 DEF Visits!HandlePlaceClick
  <2>2. SameVisit(ui, v)
    BY <1>t DEF SameVisit, VisitFields
  <2> HIDE DEF v
  <2> QED BY <1>h, <2>1, <2>2, SameVisitSound
<1>5. ASSUME NEW p \in VisitPlaces, Visits!OpenDetail(p) PROVE VisitSound(ui')
  BY <1>5, <1>h DEF Visits!OpenDetail
<1>6. ASSUME NEW p \in VisitPlaces, Visits!ToggleView(p) PROVE VisitSound(ui')
  <2> DEFINE v == [ui EXCEPT !.view = p, !.rows = {}, !.popup = NoPlace,
                             !.tripAsks = @ \cup {[id |-> ui.steps, of |-> p]},
                             !.crossed = @ \/ ui.tripAsks # {}]
  <2>1. ui' = Visits!Acted(v)
    BY <1>6 DEF Visits!ToggleView
  <2>2. SameVisit(ui, v)
    BY <1>t DEF SameVisit, VisitFields
  <2> HIDE DEF v
  <2> QED BY <1>h, <2>1, <2>2, SameVisitSound
<1>7. ASSUME NEW a \in ui.asks, Visits!DetailArrives(a) PROVE VisitSound(ui')
  <2>1. SameVisit(ui, ui')
    BY <1>t, <1>7 DEF SameVisit, VisitFields, Visits!DetailArrives
  <2> QED BY <2>1, SameVisitSound
<1>8. ASSUME NEW a \in ui.tripAsks, Visits!PlaceTripsArrive(a) PROVE VisitSound(ui')
  <2>1. SameVisit(ui, ui')
    BY <1>t, <1>8 DEF SameVisit, VisitFields, Visits!PlaceTripsArrive
  <2> QED BY <2>1, SameVisitSound
<1>9. ASSUME NEW x \in PlaceTrips, Visits!ShowTrip(x) PROVE VisitSound(ui')
  <2> DEFINE u == [ui EXCEPT !.trip = x]
             v == [u EXCEPT !.tmap = "loading", !.first = x]
             w == [u EXCEPT !.line = x]
  <2>1. ui' = Visits!Acted(u) \/ ui' = Visits!Acted(v) \/ ui' = Visits!Acted(w)
    BY <1>9 DEF Visits!ShowTrip
  <2>2. SameVisit(ui, u) /\ SameVisit(ui, v) /\ SameVisit(ui, w)
    BY <1>t DEF SameVisit, VisitFields
  <2> HIDE DEF u, v, w
  <2> QED BY <1>h, <2>1, <2>2, SameVisitSound
<1>10. ASSUME NEW f \in Filters, Visits!ChangeFilter(f) PROVE VisitSound(ui')
  <2> DEFINE v == [ui EXCEPT !.filter = f]
  <2>1. ui' = Visits!Acted(Visits!LoadSuggestions(v, FALSE)) /\ SameVisit(ui, v)
    BY <1>t, <1>10 DEF Visits!ChangeFilter, SameVisit, VisitFields
  <2> HIDE DEF v
  <2> QED BY <1>h, <2>1, SameVisitSound
<1>11. CASE Visits!FiltersApplied
  <2>1. ui' = Visits!Acted(Visits!LoadData(ui, ui.server))
    BY <1>11 DEF Visits!FiltersApplied
  <2>2. ASSUME ~ui.left, ~ui.failed PROVE Managed(ui) /\ OfManaged(ui) /\ (ui.init = "done" => ui.server \cup ui.unmanaged = ui.server)
    <3>1. Managed(ui) /\ OfManaged(ui)
      BY <2>2, Zenon DEF VisitSound, VisitKept
    <3> QED BY <3>1 DEF Managed
  <2>3. VisitSound(Visits!LoadData(ui, ui.server))
    BY <1>t, <2>2, LoadSound
  <2> QED BY <1>h, <2>1, <2>3
<1>12. CASE Visits!Destroy
  <2>1. VisitFields \subseteq DOMAIN ui' /\ (ui').left
    BY <1>t, <1>12 DEF VisitFields, Visits!Destroy
  <2> QED BY <2>1, FailedSound
<1> QED
  BY <1>1, <1>2, <1>3, <1>4, <1>5, <1>6, <1>7, <1>8, <1>9, <1>10, <1>11, <1>12

(* What is sent is of a place the manager knows.                           *)
LEMMA SavingSteps ==
    ASSUME VisitSound(ui),
           \/ Visits!SavePlace \/ Visits!SaveEditedPlace \/ Visits!DeleteActivePlace \/ Visits!ConfirmDelete \/ Visits!NameGiven
           \/ \E w \in ui.writes : Visits!WriteFails(w)
           \/ \E kind \in {"suggestion", "stop"} : Visits!AskName(kind)
    PROVE  VisitSound(ui')
<1>t. VisitFields \subseteq DOMAIN ui
  BY DEF VisitSound
<1>1. CASE Visits!SavePlace
  <2>1. ui.init = "done" /\ \/ ui' = Visits!Acted(ui)
                            \/ ui' = Visits!Acted(Visits!Send(ui, "create", NoPlace, "new"))
                            \/ ui.edited \in ui.mgr /\ ui' = Visits!Acted(Visits!Send(ui, "map", ui.edited, ui.poly))
    BY <1>1 DEF Visits!SavePlace, Visits!Ready
  <2>2. VisitSound(Visits!Send(ui, "create", NoPlace, "new"))
    BY <2>1, SendSound
  <2>3. ui.edited \in ui.mgr => VisitSound(Visits!Send(ui, "map", ui.edited, ui.poly))
    BY <2>1, SendSound, KnownPlaces
  <2> QED BY <2>1, <2>2, <2>3, ActedVisit
<1>2. CASE Visits!SaveEditedPlace
  <2> DEFINE geo == IF ui.edited = ui.editId THEN ui.poly ELSE "none"
  <2>1. ui.init = "done" /\ \/ ui' = Visits!Acted(ui)
                            \/ ui.editId \in ui.mgr /\ ui' = Visits!Acted(Visits!Send(ui, "form", ui.editId, geo))
    BY <1>2 DEF Visits!SaveEditedPlace, Visits!Ready
  <2> HIDE DEF geo
  <2>3. ui.editId \in ui.mgr => VisitSound(Visits!Send(ui, "form", ui.editId, geo))
    BY <2>1, SendSound, KnownPlaces
  <2> QED BY <2>1, <2>3, ActedVisit
<1>3. CASE Visits!DeleteActivePlace
  <2> DEFINE v == [ui EXCEPT !.confirm = ui.active]
  <2>1. ui.init = "done" /\ (ui' = Visits!Acted(ui) \/ (ui.active \in ui.mgr /\ ui' = Visits!Acted(v)))
    BY <1>3 DEF Visits!DeleteActivePlace, Visits!Ready
  <2>2. /\ VisitFields \subseteq DOMAIN v /\ (\A f \in VisitFields \ {"writes", "confirm", "prompt"} : v[f] = ui[f])
        /\ v.writes = ui.writes /\ v.confirm = ui.active /\ v.used = ui.used /\ v.unmanaged = ui.unmanaged
    BY <1>t DEF VisitFields
  <2> HIDE DEF v
  <2>3. ASSUME ui.active \in ui.mgr PROVE VisitSound(v)
    <3>1. ~ui.left /\ ~ui.failed => OfManaged(v)
      BY <2>1, <2>2, <2>3, KnownPlaces DEF VisitSound, VisitKept, OfManaged
    <3>2. ~ui.left /\ ~ui.failed => OfManaged(v) /\ (ui.init # "done" => v.writes = {} /\ v.confirm = NoPlace /\ v.prompt = "none")
      BY <2>1, <3>1
    <3> QED BY <2>2, <3>2, WritesSound
  <2> QED BY <2>1, <2>3, ActedVisit
<1>4. CASE Visits!ConfirmDelete
  <2> DEFINE p == ui.confirm
             x == Visits!Send(ui, "delete", p, "none")
  <2>1. p # NoPlace /\ (ui' = [ui EXCEPT !.confirm = NoPlace] \/ ui' = [x EXCEPT !.confirm = NoPlace])
    BY <1>4 DEF Visits!ConfirmDelete
  <2>2. ASSUME NEW u, VisitSound(u), u.init = ui.init, ~u.left /\ ~u.failed => ui.init = "done" PROVE VisitSound([u EXCEPT !.confirm = NoPlace])
    <3> DEFINE v == [u EXCEPT !.confirm = NoPlace]
    <3>1. /\ VisitFields \subseteq DOMAIN v /\ (\A f \in VisitFields \ {"writes", "confirm", "prompt"} : v[f] = u[f])
          /\ v.writes = u.writes /\ v.confirm = NoPlace /\ v.used = u.used /\ v.unmanaged = u.unmanaged
      BY <2>2 DEF VisitSound, VisitFields
    <3> HIDE DEF v
    <3>2. ~u.left /\ ~u.failed => OfManaged(v) /\ (u.init # "done" => v.writes = {} /\ v.confirm = NoPlace /\ v.prompt = "none")
      BY <2>2, <3>1 DEF VisitSound, VisitKept, OfManaged
    <3>3. VisitSound(v)
      BY <2>2, <3>1, <3>2, WritesSound
    <3> QED BY <3>3 DEF v
  <2>3. ~ui.left /\ ~ui.failed => ui.init = "done" /\ p \in ui.used \ ui.unmanaged
    BY <2>1 DEF VisitSound, VisitKept, Managed, OfManaged
  <2>4. x.init = ui.init /\ x.left = ui.left /\ x.failed = ui.failed
    BY <1>t DEF Visits!Send, VisitFields
  <2> HIDE DEF p
  <2>5. VisitSound(x)
    BY <2>3, SendSound
  <2> HIDE DEF x
  <2> QED BY <2>1, <2>2, <2>3, <2>4, <2>5
<1>5. CASE Visits!NameGiven
  <2> DEFINE u == [ui EXCEPT !.prompt = "none"]
             c == Visits!ClearDrawing(u)
             d == Visits!SetMode(c, "draw-new")
  <2>1. ui.prompt # "none" /\ (ui' = u \/ ui' = Visits!Send(u, "suggest", NoPlace, "new") \/ ui' = [d EXCEPT !.named = TRUE])
    BY <1>5 DEF Visits!NameGiven
  <2>2. ~ui.left /\ ~ui.failed => ui.init = "done"
    BY <2>1 DEF VisitSound, VisitKept, Managed
  <2>3. /\ VisitFields \subseteq DOMAIN u /\ (\A f \in VisitFields \ {"writes", "confirm", "prompt"} : u[f] = ui[f])
        /\ u.writes = ui.writes /\ u.confirm = ui.confirm /\ u.used = ui.used /\ u.unmanaged = ui.unmanaged
        /\ u.init = ui.init /\ u.left = ui.left /\ u.failed = ui.failed
    BY <1>t DEF VisitFields
  <2> HIDE DEF u
  <2>4. ~ui.left /\ ~ui.failed => OfManaged(u) /\ (ui.init # "done" => u.writes = {} /\ u.confirm = NoPlace /\ u.prompt = "none")
    BY <2>2, <2>3 DEF VisitSound, VisitKept, OfManaged
  <2>5. VisitSound(u)
    BY <2>3, <2>4, WritesSound
  <2>6. VisitSound(Visits!Send(u, "suggest", NoPlace, "new"))
    BY <2>2, <2>3, <2>5, SendSound
  <2>7. VisitSound(c)
    BY <2>5, VisitHelpers, SameVisitSound DEF VisitSound
  <2> HIDE DEF c
  <2>8. VisitSound(d)
    BY <2>7, VisitHelpers, SameVisitSound DEF VisitSound
  <2> HIDE DEF d
  <2>9. SameVisit(d, [d EXCEPT !.named = TRUE])
    BY <2>8 DEF VisitSound, SameVisit, VisitFields
  <2> QED BY <2>1, <2>5, <2>6, <2>8, <2>9, SameVisitSound
<1>6. ASSUME NEW w \in ui.writes, Visits!WriteFails(w) PROVE VisitSound(ui')
  <2>1. /\ VisitFields \subseteq DOMAIN ui' /\ (\A f \in VisitFields \ {"writes", "confirm", "prompt"} : (ui')[f] = ui[f])
        /\ (ui').writes = ui.writes \ {w} /\ (ui').confirm = ui.confirm /\ (ui').prompt = ui.prompt
        /\ (ui').used = ui.used /\ (ui').unmanaged = ui.unmanaged
    BY <1>t, <1>6 DEF VisitFields, Visits!WriteFails
  <2>2. ~ui.left /\ ~ui.failed => OfManaged(ui') /\ (ui.init # "done" => (ui').writes = {} /\ (ui').confirm = NoPlace /\ (ui').prompt = "none")
    BY <2>1 DEF VisitSound, VisitKept, Managed, OfManaged
  <2> QED BY <2>1, <2>2, WritesSound
<1>7. ASSUME NEW kind \in {"suggestion", "stop"}, Visits!AskName(kind) PROVE VisitSound(ui')
  <2> DEFINE v == [ui EXCEPT !.prompt = kind]
  <2>1. ui' = Visits!Acted(v) /\ ui.init = "done"
    BY <1>7 DEF Visits!AskName, Visits!Page, Visits!Ready
  <2>2. /\ VisitFields \subseteq DOMAIN v /\ (\A f \in VisitFields \ {"writes", "confirm", "prompt"} : v[f] = ui[f])
        /\ v.writes = ui.writes /\ v.confirm = ui.confirm /\ v.used = ui.used /\ v.unmanaged = ui.unmanaged
    BY <1>t DEF VisitFields
  <2> HIDE DEF v
  <2>3. ~ui.left /\ ~ui.failed => OfManaged(v) /\ (ui.init # "done" => v.writes = {} /\ v.confirm = NoPlace /\ v.prompt = "none")
    BY <2>1, <2>2 DEF VisitSound, VisitKept, OfManaged
  <2>4. VisitSound(v)
    BY <2>2, <2>3, WritesSound
  <2> QED BY <2>1, <2>4, ActedVisit
<1> QED
  BY <1>1, <1>2, <1>3, <1>4, <1>5, <1>6, <1>7

LEMMA VisitingSteps ==
    ASSUME VisitSound(ui), Visits!Next
    PROVE  VisitSound(ui')
<1>1. ASSUME NEW l \in ui.loads, Visits!DataArrives(l) PROVE VisitSound(ui')
  BY <1>1, DataSound
<1>2. ASSUME NEW r \in ui.refreshes, Visits!RefreshAfterMutation(r) PROVE VisitSound(ui')
  BY <1>2, RefreshedSound
<1>3. ASSUME NEW w \in ui.writes, Visits!PlaceUpdated(w) \/ Visits!PlaceDeleted(w) PROVE VisitSound(ui')
  BY <1>3, UpdatedSound, DeletedSound
<1>4. ASSUME NEW w \in ui.writes, NEW p \in VisitPlaces, Visits!PlaceCreated(w, p) \/ Visits!SuggestionSaved(w, p) PROVE VisitSound(ui')
  BY <1>4, CreatedSound, DiscoverySound
<1>5. Visits!PlacesArrive \/ Visits!StatsArrive => VisitSound(ui')
  BY PlacesSound, StatsSound
<1>6. (\E w \in ui.writes : Visits!WriteFails(w)) => VisitSound(ui')
  BY SavingSteps
<1>7. (\E l \in ui.loads : Visits!DataFails(l)) => VisitSound(ui')
  BY ChoosingSteps
<1> QED
  BY <1>1, <1>2, <1>3, <1>4, <1>5, <1>6, <1>7, QuietSteps, ChoosingSteps, SavingSteps DEF Visits!Next

LEMMA VisitStart ==
    ASSUME Visits!Init
    PROVE  VisitSound(ui)
<1>1. /\ VisitFields \subseteq DOMAIN ui /\ ui.server = SavedPlaces /\ ui.used = SavedPlaces /\ ui.mgr = {} /\ ui.feats = {}
      /\ ui.init = "map" /\ ui.unmanaged = {} /\ ui.writes = {} /\ ui.confirm = NoPlace /\ ui.prompt = "none"
  BY DEF Visits!Init, VisitFields
<1>2. Managed(ui) /\ OfManaged(ui) /\ GridLoads(ui)
  BY <1>1 DEF Managed, OfManaged, GridLoads
<1> QED BY <1>1, <1>2 DEF VisitSound, VisitKept

LEMMA VisitsShown ==
    ASSUME VisitSound(ui)
    PROVE  Visits!PlacesAgree
<1>1. ASSUME Visits!Settled, ~ui.left, ~ui.failed, ~ui.crossed
      PROVE  /\ ui.grid \cup ui.unmanaged = ui.server /\ ui.mgr \cup ui.unmanaged = ui.server /\ ui.feats = ui.mgr
  <2>1. VisitKept(ui)
    BY <1>1, Zenon DEF VisitSound
  <2>2. ui.init = "done" /\ ui.refreshes = {} /\ ui.loads = {}
    BY <1>1 DEF Visits!Settled
  <2>3. ui.mgr \cup ui.unmanaged = ui.server /\ ui.feats = ui.mgr
    BY <2>1, <2>2 DEF VisitKept, Managed
  <2>4. ui.grid \cup ui.unmanaged = ui.server
    BY <1>1, <2>1, <2>2, Zenon DEF VisitKept, GridLoads
  <2> QED BY <2>3, <2>4
<1> QED BY <1>1, Zenon DEF Visits!PlacesAgree

-----------------------------------------------------------------------------

(* Each page keeps what it says of what is done.                           *)
DoneInv ==
    /\ page = "visits" => VisitSound(ui)
    /\ page = "upload" => UploadSound(ui)
    /\ page = "job" => ShownSound(ui) /\ EndSound(ui)

LEMMA DoneStart ==
    ASSUME WebInit
    PROVE  DoneInv
BY VisitStart, UploadStart, TrackingStart, EndStart DEF WebInit, DoneInv

LEMMA DoneSteps ==
    ASSUME DoneInv, WebNext
    PROVE  DoneInv'
<1>1. page' = page
  BY DEF WebNext
<1>2. CASE page = "visits"
  <2>1. VisitSound(ui')
    BY <1>2, VisitingSteps DEF DoneInv, WebNext
  <2> QED BY <1>1, <1>2, <2>1 DEF DoneInv
<1>3. CASE page = "upload"
  <2>1. UploadSound(ui')
    BY <1>3, UploadingSteps DEF DoneInv, WebNext
  <2> QED BY <1>1, <1>3, <2>1 DEF DoneInv
<1>4. CASE page = "job"
  <2>1. ShownSound(ui') /\ EndSound(ui')
    BY <1>4, TrackingSteps, EndSteps DEF DoneInv, WebNext
  <2> QED BY <1>1, <1>4, <2>1 DEF DoneInv
<1>5. CASE page \notin {"visits", "upload", "job"}
  BY <1>1, <1>5 DEF DoneInv
<1> QED BY <1>2, <1>3, <1>4, <1>5

(* What a page says is done is done on the server, for every number of     *)
(* places, files, records, jobs and reloads: once every answer is in, the  *)
(* grid, the manager's list and the map of the visits page are the saved   *)
(* places; what the import by file marks or calls complete is in the       *)
(* history, and its map shows the table; the job tracker stores and shows  *)
(* the active job and announces no end that is not one (visits-manager.js, *)
(* visits-controller.js, trip-import/index.js, global-job-tracker.js).     *)
THEOREM DoneIsTrue == WebSpec => []DoneIsDone
<1>1. WebInit => DoneInv
  BY DoneStart
<1>2. DoneInv /\ [WebNext]_<<page, ui>> => DoneInv'
  <2>1. ASSUME DoneInv, UNCHANGED <<page, ui>> PROVE DoneInv'
    BY <2>1 DEF DoneInv
  <2> QED BY <2>1, DoneSteps
<1>3. DoneInv => DoneIsDone
  BY VisitsShown, UploadShown, TrackingShown, EndsAreTrue DEF DoneInv, DoneIsDone
<1> QED BY <1>1, <1>2, <1>3, PTL DEF WebSpec

-----------------------------------------------------------------------------

(* The fold of the library is the sum.                                     *)
LEMMA FoldIsSum ==
    ASSUME NEW S, IsFiniteSet(S), NEW F, \A x \in S : F[x] \in Nat, NEW g, IsSum(g, S, F),
           NEW T \in SUBSET S, NEW E, \A x \in T : E[x] = F[x]
    PROVE  Insights!SumFunctionOnSet(E, T) = g[T]
<1> DEFINE h == CHOOSE h : h = [s \in SUBSET T |-> IF s = {} THEN 0 ELSE
                    E[CHOOSE x \in s : TRUE] + h[s \ {CHOOSE x \in s : TRUE}]]
<1>1. IsFiniteSet(T)
  BY FS_Subset
<1>2. Insights!SumFunctionOnSet(E, T) = h[T]
  BY DEF Insights!SumFunctionOnSet, Insights!FoldFunctionOnSet, Insights!MapThenFoldSet
<1>3. IsSum(h, T, E)
  <2>1. \E f : IsSum(f, T, E)
    BY <1>1, SumExists
  <2>2. h = CHOOSE f : IsSum(f, T, E)
    BY DEF IsSum, Pick
  <2> QED BY <2>1, <2>2
<1> HIDE DEF h
<1>4. \A s \in SUBSET T : h[s] = g[s]
  BY <1>1, <1>3, SumUnique
<1>5. QED
  BY <1>2, <1>4

-----------------------------------------------------------------------------
(* Days into periods.                                                      *)

LEMMA Dividing ==
    ASSUME NEW d \in Nat, NEW n \in Nat, n # 0
    PROVE  /\ d \div n \in Nat /\ d % n \in 0..n - 1
           /\ d = n * (d \div n) + (d % n)
<1>1. n > 0
  OBVIOUS
<1>2. d % n \in 0..n - 1
  BY <1>1
<1>3. d \div n \in Nat
  BY <1>1
<1>4. d = n * (d \div n) + (d % n)
  BY <1>1
<1>5. QED
  BY <1>2, <1>3, <1>4

(* Multiples of the same number are equal or that number apart.            *)
LEMMA Multiples ==
    ASSUME NEW n \in Nat, n # 0, NEW a \in Nat, NEW b \in Nat
    PROVE  a < b => n * a + n <= n * b
<1>1. ASSUME a < b PROVE n * a + n <= n * b
  <2>1. PICK k \in Nat : b = a + 1 + k
    <3> b - a - 1 \in Nat /\ b = a + 1 + (b - a - 1)
      BY <1>1
    <3> QED OBVIOUS
  <2>2. n * b = n * a + n + n * k
    BY <2>1
  <2>3. n * k \in Nat /\ n * a \in Nat
    OBVIOUS
  <2> QED BY <2>2, <2>3
<1>2. QED
  BY <1>1

LEMMA PeriodsApart ==
    ASSUME NEW v, NEW d \in Nat, NEW e \in Nat,
           NEW p, p = Insights!PeriodOf(v, d), NEW q, q = Insights!PeriodOf(v, e)
    PROVE  /\ p = [from |-> p.from, to |-> p.to] /\ p.from \in Nat /\ p.to \in Nat /\ p.from <= d /\ d <= p.to
           /\ p = q \/ p.to < q.from \/ q.to < p.from
<1> DEFINE n == CASE v = "daily" -> 1 [] v = "weekly" -> Week [] OTHER -> Month
           from(x) == x - (x % n)
           a == d \div n
           b == e \div n
<1>1. n \in Nat /\ n # 0
  BY RangesAssumption
<1>2. p = [from |-> from(d), to |-> from(d) + n - 1] /\ q = [from |-> from(e), to |-> from(e) + n - 1]
  BY DEF Insights!PeriodOf
<1> HIDE DEF n
<1>3. a \in Nat /\ b \in Nat
  BY <1>1, Dividing
<1>4. d % n \in 0..n - 1 /\ e % n \in 0..n - 1 /\ d = n * a + (d % n) /\ e = n * b + (e % n)
  BY <1>1, Dividing
<1> HIDE DEF a, b
<1>5. n * a \in Nat /\ n * b \in Nat
  BY <1>1, <1>3
<1>6. from(d) = n * a /\ from(e) = n * b
  <2>1. d % n \in Int /\ e % n \in Int
    BY <1>1, <1>4
  <2> QED BY <1>4, <1>5, <2>1
<1>7. (a < b => n * a + n <= n * b) /\ (b < a => n * b + n <= n * a)
  BY <1>1, <1>3, Multiples
<1>8. a < b \/ b < a \/ a = b
  BY <1>3
<1> HIDE DEF from
<1>9. p.from = from(d) /\ p.to = from(d) + n - 1 /\ q.from = from(e) /\ q.to = from(e) + n - 1
  BY <1>2
<1>10. p = [from |-> p.from, to |-> p.to]
  BY <1>2
<1>11. p.from \in Nat /\ p.to \in Nat /\ p.from <= d /\ d <= p.to
  <2>1. \A x, r, m \in Nat : r \in 0..m - 1 /\ x = n * a + r => n * a <= x /\ x <= n * a + m - 1
    BY <1>5
  <2>2. n * a <= d /\ d <= n * a + n - 1
    BY <1>1, <1>4, <2>1
  <2> QED BY <1>1, <1>5, <1>6, <1>9, <2>2
<1>12. p = q \/ p.to < q.from \/ q.to < p.from
  <2>1. CASE a < b
    BY <2>1, <1>1, <1>5, <1>6, <1>7, <1>9
  <2>2. CASE b < a
    BY <2>2, <1>1, <1>5, <1>6, <1>7, <1>9
  <2>3. CASE a = b
    BY <2>3, <1>2, <1>6
  <2> QED BY <1>8, <2>1, <2>2, <2>3
<1>13. QED
  BY <1>10, <1>11, <1>12

LEMMA SameCount == \A S : Insights!Cardinality(S) = Cardinality(S)
BY DEF Insights!Cardinality, Cardinality

Below(Q, p) == {q \in Q : q.from <= p.from}

LEMMA RanksOf ==
    ASSUME NEW Q, IsFiniteSet(Q), \A p \in Q : p.from \in Int, \A p, q \in Q : p.from = q.from => p = q
    PROVE  /\ Cardinality(Q) \in Nat
           /\ \A p \in Q : Cardinality(Below(Q, p)) \in 1..Cardinality(Q)
           /\ \A p, q \in Q : p.from < q.from => Cardinality(Below(Q, p)) < Cardinality(Below(Q, q))
           /\ \A i \in 1..Cardinality(Q) : \E p \in Q : Cardinality(Below(Q, p)) = i
<1> DEFINE rank == [p \in Q |-> Cardinality(Below(Q, p))]
<1>1. Cardinality(Q) \in Nat
  BY FS_CardinalityType
<1>2. \A p \in Q : Below(Q, p) \in SUBSET Q /\ p \in Below(Q, p)
  BY DEF Below
<1>3. \A p \in Q : IsFiniteSet(Below(Q, p)) /\ Cardinality(Below(Q, p)) \in Nat /\ Cardinality(Below(Q, p)) <= Cardinality(Q)
  BY <1>2, FS_Subset, FS_CardinalityType
<1>4. \A p \in Q : Cardinality(Below(Q, p)) # 0
  BY <1>2, <1>3, FS_EmptySet
<1>5. ASSUME NEW p \in Q, NEW q \in Q, p.from < q.from
      PROVE  Cardinality(Below(Q, p)) < Cardinality(Below(Q, q))
  <2>1. Below(Q, p) \in SUBSET Below(Q, q) /\ q \notin Below(Q, p)
    BY <1>5 DEF Below
  <2>2. Below(Q, p) # Below(Q, q)
    BY <1>2, <2>1
  <2>3. /\ Cardinality(Below(Q, p)) <= Cardinality(Below(Q, q))
        /\ Cardinality(Below(Q, p)) # Cardinality(Below(Q, q))
    BY <1>3, <2>1, <2>2, FS_Subset
  <2> QED BY <1>3, <2>3
<1>6. rank \in [Q -> 1..Cardinality(Q)]
  BY <1>1, <1>3, <1>4
<1>7. \A p, q \in Q : rank[p] = rank[q] => p = q
  <2> SUFFICES ASSUME NEW p \in Q, NEW q \in Q, p # q PROVE rank[p] # rank[q]
    OBVIOUS
  <2>1. p.from < q.from \/ q.from < p.from
    OBVIOUS
  <2>2. rank[p] < rank[q] \/ rank[q] < rank[p]
    BY <1>5, <2>1
  <2>3. rank[p] \in Nat /\ rank[q] \in Nat
    BY <1>3
  <2> QED BY <2>2, <2>3
<1>8. IsFiniteSet(1..Cardinality(Q)) /\ Cardinality(1..Cardinality(Q)) = Cardinality(Q)
  BY <1>1, FS_Interval
<1>9. rank \in Surjection(Q, 1..Cardinality(Q))
  <2> HIDE DEF rank
  <2>1. rank \in Injection(Q, 1..Cardinality(Q))
    BY <1>6, <1>7 DEF Injection, IsInjective
  <2> QED BY <1>8, <2>1, FS_Injection
<1>10. \A i \in 1..Cardinality(Q) : \E p \in Q : rank[p] = i
  <2> HIDE DEF rank
  <2> QED BY <1>9 DEF Surjection
<1>11. \A p \in Q : Cardinality(Below(Q, p)) \in 1..Cardinality(Q)
  BY <1>1, <1>3, <1>4
<1>12. QED
  BY <1>1, <1>5, <1>10, <1>11

Listed(s, Q) ==
    /\ IsFiniteSet(Q) /\ \A p \in Q : p.from \in Int
    /\ \A p, q \in Q : p.from = q.from => p = q
    /\ s = [i \in 1..Cardinality(Q) |-> CHOOSE p \in Q : Cardinality({q \in Q : q.from <= p.from}) = i]

LEMMA InOrder ==
    ASSUME NEW Q, NEW s, Listed(s, Q)
    PROVE  /\ s \in Seq(Q) /\ Len(s) = Cardinality(Q) /\ DOMAIN s = 1..Len(s)
           /\ \A i, j \in DOMAIN s : i < j => s[i].from < s[j].from
           /\ \A p \in Q : \E i \in DOMAIN s : s[i] = p
<1> /\ IsFiniteSet(Q) /\ \A p \in Q : p.from \in Int
    /\ \A p, q \in Q : p.from = q.from => p = q
    /\ s = [i \in 1..Cardinality(Q) |-> CHOOSE p \in Q : Cardinality({q \in Q : q.from <= p.from}) = i]
  BY DEF Listed
<1>1. Cardinality(Q) \in Nat
  BY RanksOf
<1>2. s = [i \in 1..Cardinality(Q) |-> CHOOSE p \in Q : Cardinality(Below(Q, p)) = i]
  BY DEF Below
<1>3. \A i \in 1..Cardinality(Q) : s[i] \in Q /\ Cardinality(Below(Q, s[i])) = i
  <2> SUFFICES ASSUME NEW i \in 1..Cardinality(Q) PROVE s[i] \in Q /\ Cardinality(Below(Q, s[i])) = i
    OBVIOUS
  <2>1. \E p \in Q : Cardinality(Below(Q, p)) = i
    BY RanksOf
  <2>2. s[i] = CHOOSE p \in Q : Cardinality(Below(Q, p)) = i
    BY <1>2
  <2> QED BY <2>1, <2>2
<1>4. s \in [1..Cardinality(Q) -> Q]
  BY <1>2, <1>3
<1>5. s \in Seq(Q) /\ Len(s) = Cardinality(Q) /\ DOMAIN s = 1..Len(s)
  <2> HIDE DEF Below
  <2>1. s \in Seq(Q)
    <3>1. s \in UNION {[1..n -> Q] : n \in Nat}
      BY <1>1, <1>4
    <3> QED BY <3>1, SeqDef
  <2> QED BY <1>1, <1>4, <2>1
<1>6. ASSUME NEW i \in DOMAIN s, NEW j \in DOMAIN s, i < j PROVE s[i].from < s[j].from
  <2>1. s[i] \in Q /\ s[j] \in Q /\ Cardinality(Below(Q, s[i])) = i /\ Cardinality(Below(Q, s[j])) = j
    BY <1>3, <1>5
  <2>2. i \in Int /\ j \in Int
    BY <1>1, <1>5
  <2>3. ~ (s[j].from < s[i].from)
    BY <1>6, <2>1, <2>2, RanksOf
  <2>4. s[i].from # s[j].from
    BY <1>6, <2>1, <2>2
  <2> QED BY <2>1, <2>3, <2>4
<1>7. ASSUME NEW p \in Q PROVE \E i \in DOMAIN s : s[i] = p
  <2> DEFINE i == Cardinality(Below(Q, p))
  <2>1. i \in 1..Cardinality(Q)
    BY RanksOf
  <2>2. s[i] \in Q /\ Cardinality(Below(Q, s[i])) = i
    BY <1>3, <2>1
  <2>3. ~ (s[i].from < p.from) /\ ~ (p.from < s[i].from)
    <3>1. ~ (Cardinality(Below(Q, s[i])) < i) /\ ~ (i < Cardinality(Below(Q, s[i])))
      BY <1>1, <2>1, <2>2
    <3> QED BY <2>2, <3>1, RanksOf
  <2>4. s[i].from = p.from
    BY <2>2, <2>3
  <2> QED BY <1>5, <2>1, <2>2, <2>4
<1>8. QED
  BY <1>5, <1>6, <1>7

(* The days of a range.                                                    *)
Days == DOMAIN Driven

LEMMA DaysCount ==
    /\ IsFiniteSet(Days) /\ Days \in SUBSET Nat
    /\ \A d \in Days : Driven[d] \in Nat
    /\ \A r : Insights!Daily(r) \in SUBSET Days
    /\ \A p, T : T \in SUBSET Days => Insights!Within(p, T) \in SUBSET T /\ Insights!Within(p, T) \in SUBSET Days
<1>1. IsFiniteSet(Days) /\ Days \in SUBSET Nat /\ Driven \in [Days -> Nat]
  BY RangesAssumption DEF Days
<1>2. \A d \in Days : Driven[d] \in Nat
  BY <1>1
<1>3. \A r : Insights!Daily(r) \in SUBSET Days
  BY DEF Insights!Daily, Days
<1>4. \A p, T : T \in SUBSET Days => Insights!Within(p, T) \in SUBSET T /\ Insights!Within(p, T) \in SUBSET Days
  BY DEF Insights!Within
<1>5. QED
  BY <1>1, <1>2, <1>3, <1>4

LEMMA TripsSum ==
    ASSUME NEW g, IsSum(g, Days, Driven)
    PROVE  \A T \in SUBSET Days : Insights!Trips(T) = g[T] /\ g[T] \in Nat
<1> SUFFICES ASSUME NEW T \in SUBSET Days PROVE Insights!Trips(T) = g[T] /\ g[T] \in Nat
  OBVIOUS
<1>1. IsFiniteSet(Days) /\ \A d \in Days : Driven[d] \in Nat
  BY DaysCount
<1>2. g[T] \in Nat
  BY <1>1, SumType
<1>3. Insights!SumFunctionOnSet(Driven, T) = g[T]
  BY <1>1, FoldIsSum
<1>4. QED
  BY <1>2, <1>3 DEF Insights!Trips

(* Where trips were not driven, none are added.                            *)
LEMMA TripsOfActive ==
    ASSUME NEW U \in SUBSET Days, NEW T \in SUBSET U, \A d \in U \ T : Driven[d] = 0
    PROVE  Insights!Trips(U) = Insights!Trips(T)
<1>1. IsFiniteSet(Days) /\ \A d \in Days : Driven[d] \in Nat
  BY DaysCount
<1>2. PICK g : IsSum(g, Days, Driven)
  BY <1>1, SumExists
<1> DEFINE good == {s \in SUBSET (U \ T) : g[T \cup s] = g[T]}
<1>3. ASSUME NEW s \in SUBSET (U \ T), \A x \in s : s \ {x} \in good
      PROVE  s \in good
  <2>1. CASE s = {}
    <3>1. T \cup s = T
      BY <2>1
    <3> QED BY <3>1
  <2>2. CASE s # {}
    <3>1. PICK x \in s : TRUE
      BY <2>2
    <3>2. T \cup s \in SUBSET Days /\ x \in T \cup s /\ (T \cup s) \ {x} = T \cup (s \ {x}) /\ Driven[x] = 0
      OBVIOUS
    <3>3. g[T \cup s] = Driven[x] + g[(T \cup s) \ {x}]
      BY <1>1, <1>2, <3>2, SumRemove
    <3>4. g[T \cup (s \ {x})] = g[T]
      BY <1>3, <3>1
    <3>5. g[T] \in Nat
      BY <1>2, TripsSum
    <3> QED BY <3>2, <3>3, <3>4, <3>5
  <2> QED BY <2>1, <2>2
<1>4. \A s \in SUBSET (U \ T) : s \in good
  <2>1. IsFiniteSet(U \ T)
    BY <1>1, FS_Subset
  <2> HIDE DEF good
  <2> QED BY <1>3, <2>1, SubsetInduction
<1>5. U \ T \in good /\ T \cup (U \ T) = U
  <2> HIDE DEF good
  <2> QED BY <1>4
<1>6. g[U] = g[T]
  BY <1>5
<1>7. QED
  BY <1>2, <1>6, TripsSum

(* The points of a chart: their spans come one after the other, reach      *)
(* every day that is counted, and each counts the trips of its own days.   *)
Entry == [from : Nat, to : Nat, count : Nat, active : Nat]

Spread(s, days) ==
    /\ s \in Seq(Entry)
    /\ \A i \in DOMAIN s : s[i].from <= s[i].to /\ s[i].count = Insights!Trips(Insights!Within(s[i], days))
    /\ \A i, j \in DOMAIN s : i < j => s[i].to < s[j].from
    /\ \A d \in days : \E i \in DOMAIN s : d \in Insights!Within(s[i], days)

(* Several points of it hold the days between the first and the last.      *)
Run(p, s, a, b) ==
    a \in DOMAIN s /\ b \in DOMAIN s /\ a <= b /\ p.from = s[a].from /\ p.to = s[b].to

LEMMA SpreadRun ==
    ASSUME NEW days \in SUBSET Days, NEW s, Spread(s, days), NEW a, NEW b, NEW p, Run(p, s, a, b)
    PROVE  /\ Insights!Within(p, days) = UNION {Insights!Within(s[i], days) : i \in a..b}
           /\ \A i, j \in DOMAIN s : i # j => Insights!Within(s[i], days) \cap Insights!Within(s[j], days) = {}
           /\ p.from <= p.to
<1> a \in DOMAIN s /\ b \in DOMAIN s /\ a <= b /\ p.from = s[a].from /\ p.to = s[b].to
  BY DEF Run
<1>1. DOMAIN s = 1..Len(s) /\ Len(s) \in Nat /\ a..b \subseteq DOMAIN s
  BY DEF Spread
<1>2. \A i \in DOMAIN s : s[i].from \in Nat /\ s[i].to \in Nat /\ s[i].from <= s[i].to
  <2>1. \A i \in DOMAIN s : s[i] \in Entry
    BY DEF Spread
  <2> QED BY <2>1 DEF Entry, Spread
<1>3. \A i, j \in DOMAIN s : i < j => s[i].to < s[j].from
  BY DEF Spread
<1>4. days \in SUBSET Nat
  BY DaysCount
<1>5. \A d \in days, i \in DOMAIN s : d \in Insights!Within(s[i], days) <=> s[i].from <= d /\ d <= s[i].to
  BY DEF Insights!Within
<1>6. \A d \in days : d \in Insights!Within(p, days) <=> s[a].from <= d /\ d <= s[b].to
  BY DEF Insights!Within
<1>7. \A q : Insights!Within(q, days) \in SUBSET days
  BY DEF Insights!Within
<1>8. ASSUME NEW i \in a..b, NEW d \in Insights!Within(s[i], days) PROVE d \in Insights!Within(p, days)
  <2>1. i \in DOMAIN s /\ d \in days /\ s[i].from <= d /\ d <= s[i].to
    BY <1>1, <1>5, <1>7
  <2>2. s[a].from <= s[i].from
    BY <1>1, <1>2, <1>3, <2>1
  <2>3. s[i].to <= s[b].to
    BY <1>1, <1>2, <1>3, <2>1
  <2> QED BY <1>2, <1>4, <1>6, <2>1, <2>2, <2>3
<1>9. ASSUME NEW d \in Insights!Within(p, days) PROVE \E i \in a..b : d \in Insights!Within(s[i], days)
  <2>1. d \in days /\ s[a].from <= d /\ d <= s[b].to
    BY <1>6, <1>7
  <2>2. PICK i \in DOMAIN s : d \in Insights!Within(s[i], days)
    BY <2>1 DEF Spread
  <2>3. s[i].from <= d /\ d <= s[i].to
    BY <1>5, <2>1, <2>2
  <2>4. ~ (i < a)
    BY <1>2, <1>3, <1>4, <2>1, <2>3
  <2>5. ~ (b < i)
    BY <1>2, <1>3, <1>4, <2>1, <2>3
  <2>6. i \in a..b
    BY <1>1, <2>4, <2>5
  <2> QED BY <2>2, <2>6
<1>10. ASSUME NEW i \in DOMAIN s, NEW j \in DOMAIN s, i # j,
              NEW d \in Insights!Within(s[i], days) \cap Insights!Within(s[j], days)
       PROVE  FALSE
  <2>1. d \in days /\ s[i].from <= d /\ d <= s[i].to /\ s[j].from <= d /\ d <= s[j].to
    BY <1>5, <1>7
  <2>2. i < j \/ j < i
    BY <1>1, <1>10
  <2> QED BY <1>2, <1>3, <1>4, <2>1, <2>2
<1>11. p.from <= p.to
  <2>1. CASE a = b
    BY <1>2, <2>1
  <2>2. CASE a < b
    BY <1>2, <1>3, <2>2
  <2> QED BY <1>1, <2>1, <2>2
<1>12. QED
  BY <1>8, <1>9, <1>10, <1>11

LEMMA CountedSum ==
    ASSUME NEW s \in Seq(Entry), NEW e, IsSum(e, DOMAIN s, [i \in DOMAIN s |-> s[i].count])
    PROVE  \A T \in SUBSET DOMAIN s : Insights!Counted(s, T) = e[T]
<1> SUFFICES ASSUME NEW T \in SUBSET DOMAIN s PROVE Insights!Counted(s, T) = e[T]
  OBVIOUS
<1> DEFINE S == DOMAIN s
           F == [i \in DOMAIN s |-> s[i].count]
           E == [i \in T |-> s[i].count]
<1>1. IsFiniteSet(DOMAIN s)
  <2>1. DOMAIN s = 1..Len(s) /\ Len(s) \in Nat
    OBVIOUS
  <2> QED BY <2>1, FS_Interval
<1>2. \A i \in DOMAIN s : F[i] \in Nat
  <2>1. \A i \in DOMAIN s : s[i] \in Entry
    OBVIOUS
  <2> QED BY <2>1 DEF Entry
<1>3. IsSum(e, S, F) /\ T \in SUBSET S /\ \A i \in T : E[i] = F[i]
  OBVIOUS
<1>4. Insights!Counted(s, T) = Insights!SumFunctionOnSet(E, T)
  BY DEF Insights!Counted
<1>a. IsFiniteSet(S) /\ \A x \in S : F[x] \in Nat
  BY <1>1, <1>2
<1> HIDE DEF E, F, S
<1>5. QED
  BY <1>a, <1>3, <1>4, FoldIsSum

(* What consecutive points count together are the trips of their days.     *)
LEMMA RunAddsUp ==
    ASSUME NEW days \in SUBSET Days, NEW s, Spread(s, days), NEW a, NEW b, NEW p, Run(p, s, a, b)
    PROVE  Insights!Counted(s, a..b) = Insights!Trips(Insights!Within(p, days))
<1>r. /\ Insights!Within(p, days) = UNION {Insights!Within(s[i], days) : i \in a..b}
      /\ \A i, j \in DOMAIN s : i # j => Insights!Within(s[i], days) \cap Insights!Within(s[j], days) = {}
  BY SpreadRun
<1> a \in DOMAIN s /\ b \in DOMAIN s /\ a <= b /\ p.from = s[a].from /\ p.to = s[b].to
  BY DEF Run
<1> DEFINE I == a..b
           F == [i \in DOMAIN s |-> s[i].count]
           E == [i \in I |-> s[i].count]
           D == [i \in I |-> Insights!Within(s[i], days)]
           union == UNION {D[i] : i \in I}
<1>1. DOMAIN s = 1..Len(s) /\ Len(s) \in Nat /\ I \in SUBSET DOMAIN s /\ s \in Seq(Entry)
  BY DEF Spread
<1>2. IsFiniteSet(DOMAIN s) /\ IsFiniteSet(I)
  <2>1. IsFiniteSet(DOMAIN s)
    BY <1>1, FS_Interval
  <2> HIDE DEF I
  <2> QED BY <1>1, <2>1, FS_Subset
<1>3. IsFiniteSet(Days) /\ \A d \in Days : Driven[d] \in Nat
  BY DaysCount
<1>4. PICK g : IsSum(g, Days, Driven)
  BY <1>3, SumExists
<1>5. PICK e : IsSum(e, DOMAIN s, F)
  BY <1>2, SumExists
<1>6. PICK h : IsSum(h, I, E)
  BY <1>2, SumExists
<1>7. \A i \in DOMAIN s : F[i] \in Nat
  <2>1. \A i \in DOMAIN s : s[i] \in Entry
    BY <1>1
  <2> QED BY <2>1 DEF Entry
<1>8. h[I] = e[I]
  <2> DEFINE S == DOMAIN s
  <2>1. \A t \in SUBSET I : h[t] = e[t]
    <3>1. /\ IsFiniteSet(S) /\ I \in SUBSET S /\ IsSum(e, S, F) /\ IsSum(h, I, E)
          /\ (\A x \in S : F[x] \in Nat) /\ \A x \in I : E[x] = F[x]
      BY <1>1, <1>2, <1>5, <1>6, <1>7
    <3> HIDE DEF E, F, I, S
    <3> QED BY <3>1, SumUnique
  <2> QED BY <2>1
<1>9. D \in [I -> SUBSET Days] /\ \A i \in I : D[i] = Insights!Within(s[i], days)
  BY DaysCount
<1>10. \A i, j \in I : i # j => D[i] \cap D[j] = {}
  <2> HIDE DEF D, I
  <2>1. \A i, j \in I : i # j => Insights!Within(s[i], days) \cap Insights!Within(s[j], days) = {}
    BY <1>r, <1>1
  <2> QED BY <1>9, <2>1
<1>11. \A i \in I : E[i] = g[D[i]]
  <2> SUFFICES ASSUME NEW i \in I PROVE E[i] = g[D[i]]
    OBVIOUS
  <2>1. E[i] = Insights!Trips(Insights!Within(s[i], days))
    BY <1>1 DEF Spread
  <2>2. D[i] \in SUBSET Days /\ D[i] = Insights!Within(s[i], days)
    BY <1>9
  <2> HIDE DEF D, E
  <2>3. Insights!Trips(D[i]) = g[D[i]]
    BY <1>4, <2>2, TripsSum
  <2> QED BY <2>1, <2>2, <2>3
<1>12. h[I] = g[union]
  <2> HIDE DEF E, F, I, D
  <2> QED BY <1>2, <1>3, <1>4, <1>6, <1>9, <1>10, <1>11, PartsAddUp
<1>13. union = Insights!Within(p, days)
  <2>1. union = UNION {Insights!Within(s[i], days) : i \in I}
    BY <1>9
  <2> HIDE DEF D, union
  <2> QED BY <1>r, <2>1
<1>14. Insights!Trips(Insights!Within(p, days)) = g[Insights!Within(p, days)]
  <2>1. Insights!Within(p, days) \in SUBSET Days
    BY DaysCount
  <2> QED BY <1>4, <2>1, TripsSum
<1>15. Insights!Counted(s, I) = e[I]
  <2> HIDE DEF I
  <2> QED BY <1>1, <1>5, CountedSum
<1> HIDE DEF union, D, E, F
<1>16. QED
  BY <1>8, <1>12, <1>13, <1>14, <1>15

LEMMA ChartAddsUp ==
    ASSUME NEW days \in SUBSET Days, NEW s, Spread(s, days)
    PROVE  Insights!Counted(s, DOMAIN s) = Insights!Trips(days)
<1>1. s \in Seq(Entry) /\ DOMAIN s = 1..Len(s) /\ Len(s) \in Nat
  BY DEF Spread
<1>2. CASE Len(s) = 0
  <2>1. DOMAIN s = {} /\ days = {}
    BY <1>1, <1>2 DEF Spread
  <2>2. PICK e : IsSum(e, DOMAIN s, [i \in DOMAIN s |-> s[i].count])
    BY <2>1, FS_EmptySet, SumExists
  <2>3. PICK g : IsSum(g, Days, Driven)
    BY DaysCount, SumExists
  <2>4. Insights!Counted(s, {}) = e[{}]
    BY <1>1, <2>2, CountedSum
  <2>5. e[{}] = 0
    BY <2>2, SumEmpty
  <2>6. g[{}] = 0
    BY <2>3, SumEmpty
  <2>7. Insights!Trips({}) = g[{}]
    BY <2>3, TripsSum
  <2> QED BY <2>1, <2>4, <2>5, <2>6, <2>7
<1>3. CASE Len(s) > 0
  <2> DEFINE p == [from |-> s[1].from, to |-> s[Len(s)].to]
  <2>1. 1 \in DOMAIN s /\ Len(s) \in DOMAIN s /\ DOMAIN s = 1..Len(s)
    BY <1>1, <1>3
  <2>2. Run(p, s, 1, Len(s))
    BY <1>1, <1>3 DEF Run
  <2> HIDE DEF p
  <2>3. Insights!Counted(s, 1..Len(s)) = Insights!Trips(Insights!Within(p, days))
    BY <1>3, <2>1, <2>2, RunAddsUp
  <2>4. Insights!Within(p, days) = UNION {Insights!Within(s[i], days) : i \in 1..Len(s)}
    BY <1>3, <2>1, <2>2, SpreadRun
  <2>5. Insights!Within(p, days) = days
    <3>1. Insights!Within(p, days) \in SUBSET days
      BY DaysCount
    <3>2. \A d \in days : d \in UNION {Insights!Within(s[i], days) : i \in 1..Len(s)}
      BY <2>1 DEF Spread
    <3> QED BY <2>4, <3>1, <3>2
  <2> QED BY <2>1, <2>3, <2>5
<1>4. QED
  BY <1>1, <1>2, <1>3

LEMMA CeilBounds ==
    ASSUME NEW a \in Nat, NEW b \in Nat, b # 0, NEW c, c = Insights!CeilDiv(a, b)
    PROVE  /\ c \in Nat /\ b * c \in Nat /\ a <= b * c /\ b * c < a + b
           /\ \A m \in Nat : a <= b * m => c <= m
<1> DEFINE x == a + b - 1
           r == x % b
<1>1. x \in Nat /\ c = x \div b
  BY DEF Insights!CeilDiv
<1>2. c \in Nat /\ r \in 0..b - 1 /\ x = b * c + r
  <2> HIDE DEF x
  <2> QED BY <1>1, Dividing
<1>3. b * c \in Nat
  BY <1>2
<1>4. a <= b * c /\ b * c < a + b
  <2> HIDE DEF r
  <2> QED BY <1>2, <1>3
<1>5. ASSUME NEW m \in Nat, a <= b * m PROVE c <= m
  <2>1. m < c => b * m + b <= b * c
    BY <1>2, Multiples
  <2>2. b * m \in Nat
    OBVIOUS
  <2> QED BY <1>2, <1>3, <1>4, <1>5, <2>1, <2>2
<1>6. QED
  BY <1>2, <1>3, <1>4, <1>5

(* The runs of positions that are merged: one after the other, all of them.*)
Bucketing(L, M, size, k, first, last) ==
    /\ L \in Nat /\ M \in Nat /\ M # 0 /\ M < L
    /\ size = Insights!CeilDiv(L, M) /\ k = Insights!CeilDiv(L, size)
    /\ first = [i \in 1..k |-> (i - 1) * size + 1]
    /\ last = [i \in 1..k |-> Insights!Min({i * size, L})]

LEMMA Buckets ==
    ASSUME NEW L, NEW M, NEW size, NEW k, NEW first, NEW last, Bucketing(L, M, size, k, first, last)
    PROVE  /\ k \in 1..M
           /\ \A i \in 1..k : first[i] \in 1..L /\ last[i] \in 1..L /\ first[i] <= last[i]
           /\ \A i, j \in 1..k : i < j => last[i] < first[j]
           /\ \A t \in 1..L : \E i \in 1..k : first[i] <= t /\ t <= last[i]
<1> /\ L \in Nat /\ M \in Nat /\ M # 0 /\ M < L
    /\ size = Insights!CeilDiv(L, M) /\ k = Insights!CeilDiv(L, size)
    /\ first = [i \in 1..k |-> (i - 1) * size + 1]
    /\ last = [i \in 1..k |-> Insights!Min({i * size, L})]
  BY DEF Bucketing
<1>1. size \in Nat /\ L <= M * size
  BY CeilBounds
<1>2. size \in Nat /\ size # 0
  BY <1>1
<1>3. k \in Nat /\ L <= size * k /\ size * k < L + size /\ (L <= size * M => k <= M)
  BY <1>1, <1>2, CeilBounds
<1>4. k \in 1..M
  <2>1. M * size = size * M
    BY <1>1
  <2>2. k # 0
    BY <1>1, <1>3
  <2> QED BY <1>1, <1>3, <2>1, <2>2
<1>5. \A i, j \in Nat : i < j => i * size + size <= j * size /\ i * size \in Nat /\ j * size \in Nat
  <2> SUFFICES ASSUME NEW i \in Nat, NEW j \in Nat, i < j
               PROVE  i * size + size <= j * size /\ i * size \in Nat /\ j * size \in Nat
    OBVIOUS
  <2>1. size * i + size <= size * j
    BY <1>1, <1>2, Multiples
  <2>2. size * i = i * size /\ size * j = j * size /\ i * size \in Nat /\ j * size \in Nat
    BY <1>1
  <2> QED BY <2>1, <2>2
<1>6. \A i \in 1..k : /\ i * size \in Nat /\ (i - 1) * size \in Nat /\ (i - 1) * size + size = i * size
                      /\ (i - 1) * size < L
  <2> SUFFICES ASSUME NEW i \in 1..k
               PROVE  /\ i * size \in Nat /\ (i - 1) * size \in Nat /\ (i - 1) * size + size = i * size
                      /\ (i - 1) * size < L
    OBVIOUS
  <2>1. i \in Nat /\ i - 1 \in Nat /\ k \in Nat
    BY <1>3
  <2>2. i * size \in Nat /\ (i - 1) * size \in Nat /\ k * size \in Nat /\ k * size = size * k
    BY <1>1, <2>1
  <2>3. (i - 1) * size + size = i * size
    BY <1>1, <2>1
  <2>4. (i - 1) * size + size <= k * size
    BY <1>5, <2>1
  <2> QED BY <1>1, <1>3, <2>2, <2>3, <2>4
<1>7. \A i \in 1..k : /\ first[i] = (i - 1) * size + 1
                      /\ last[i] = IF i * size <= L THEN i * size ELSE L
  <2> SUFFICES ASSUME NEW i \in 1..k PROVE last[i] = IF i * size <= L THEN i * size ELSE L
    OBVIOUS
  <2> DEFINE x == i * size
  <2>1. x \in Nat /\ last[i] = Insights!Min({x, L})
    BY <1>6
  <2> HIDE DEF x
  <2>2. Insights!Min({x, L}) = IF x <= L THEN x ELSE L
    BY <2>1 DEF Insights!Min
  <2> QED BY <2>1, <2>2 DEF x
<1>8. \A i \in 1..k : first[i] \in 1..L /\ last[i] \in 1..L /\ first[i] <= last[i]
  <2> SUFFICES ASSUME NEW i \in 1..k PROVE first[i] \in 1..L /\ last[i] \in 1..L /\ first[i] <= last[i]
    OBVIOUS
  <2> DEFINE x == i * size
             y == (i - 1) * size
  <2>1. x \in Nat /\ y \in Nat /\ y + size = x /\ y < L
    BY <1>6
  <2>2. first[i] = y + 1 /\ last[i] = IF x <= L THEN x ELSE L
    BY <1>7
  <2> HIDE DEF x, y
  <2> QED BY <1>2, <2>1, <2>2
<1>9. ASSUME NEW i \in 1..k, NEW j \in 1..k, i < j PROVE last[i] < first[j]
  <2> DEFINE x == i * size
             y == (j - 1) * size
  <2>1. i \in Nat /\ j - 1 \in Nat /\ (i < j - 1 \/ i = j - 1)
    BY <1>3, <1>9
  <2>2. x \in Nat /\ y \in Nat /\ last[i] = (IF x <= L THEN x ELSE L) /\ first[j] = y + 1
    BY <1>6, <1>7
  <2>3. i < j - 1 => x + size <= y
    BY <1>5, <2>1
  <2>4. i = j - 1 => x = y
    OBVIOUS
  <2> HIDE DEF x, y
  <2>5. x <= y
    BY <1>2, <2>1, <2>2, <2>3, <2>4
  <2> QED BY <2>2, <2>5
<1>10. ASSUME NEW t \in 1..L PROVE \E i \in 1..k : first[i] <= t /\ t <= last[i]
  <2> DEFINE i == Insights!CeilDiv(t, size)
             x == size * i
             y == (i - 1) * size
  <2>1. t \in Nat /\ t # 0 /\ t <= L
    OBVIOUS
  <2>2. i \in Nat /\ x \in Nat /\ t <= x /\ x < t + size /\ (t <= size * k => i <= k)
    BY <1>1, <1>2, <2>1, CeilBounds
  <2>3. t <= size * k
    <3>1. size * k \in Nat
      BY <1>1, <1>3
    <3> QED BY <1>3, <2>1, <3>1
  <2>4. i = 0 => x = 0
    BY <1>1
  <2> HIDE DEF i
  <2>5. i \in 1..k
    <3> HIDE DEF x
    <3> QED BY <1>3, <2>1, <2>2, <2>3, <2>4
  <2>6. i * size = x
    BY <1>1, <2>2
  <2>7. y + size = x /\ y \in Nat /\ first[i] = y + 1 /\ last[i] = IF x <= L THEN x ELSE L
    BY <1>6, <1>7, <2>5, <2>6
  <2> HIDE DEF x, y
  <2>8. first[i] <= t /\ t <= last[i]
    BY <1>2, <2>1, <2>2, <2>7
  <2> QED BY <2>5, <2>8
<1>11. QED
  BY <1>4, <1>8, <1>9, <1>10

LEMMA TripsCount ==
    ASSUME NEW T \in SUBSET Days
    PROVE  Insights!Trips(T) \in Nat
<1>1. PICK g : IsSum(g, Days, Driven)
  BY DaysCount, SumExists
<1>2. QED
  BY <1>1, TripsSum

(* Merging keeps what the points say.                                      *)
LEMMA MergedSpread ==
    ASSUME NEW days \in SUBSET Days, NEW s, Spread(s, days), NEW v \in Insights!Views,
           NEW c, c = Insights!CompressSeriesIfNeeded(s, v)
    PROVE  Spread(c, days) /\ Len(c) <= MaxPoints[v]
<1> DEFINE L == Len(s)
           most == MaxPoints[v]
           size == Insights!CeilDiv(L, most)
           k == Insights!CeilDiv(L, size)
           first == [i \in 1..k |-> (i - 1) * size + 1]
           last == [i \in 1..k |-> Insights!Min({i * size, L})]
           span(i) == [from |-> s[first[i]].from, to |-> s[last[i]].to]
<1>1. s \in Seq(Entry) /\ L \in Nat /\ DOMAIN s = 1..L /\ most \in Nat /\ most # 0
  BY RangesAssumption DEF Spread, Insights!Views
<1>2. CASE L <= most
  <2>1. c = s
    BY <1>2 DEF Insights!CompressSeriesIfNeeded
  <2> QED BY <1>2, <2>1
<1>3. CASE ~ (L <= most)
  <2>1. c = [i \in 1..k |-> [from |-> s[first[i]].from, to |-> s[last[i]].to,
                             count |-> Insights!Counted(s, first[i]..last[i]), active |-> 0]]
    BY <1>3 DEF Insights!CompressSeriesIfNeeded
  <2>2. /\ k \in 1..most
        /\ \A i \in 1..k : first[i] \in 1..L /\ last[i] \in 1..L /\ first[i] <= last[i]
        /\ \A i, j \in 1..k : i < j => last[i] < first[j]
        /\ \A t \in 1..L : \E i \in 1..k : first[i] <= t /\ t <= last[i]
    <3>1. most < L
      BY <1>1, <1>3
    <3>2. Bucketing(L, most, size, k, first, last)
      BY <1>1, <3>1 DEF Bucketing
    <3> HIDE DEF L, size, k, first, last
    <3> QED BY <3>2, Buckets
  <2> HIDE DEF L, size, k, first, last
  <2>3. \A i \in 1..k : Run(c[i], s, first[i], last[i])
    BY <1>1, <2>1, <2>2 DEF Run
  <2>4. \A i \in 1..k :
            /\ c[i].count = Insights!Trips(Insights!Within(c[i], days))
            /\ c[i].from <= c[i].to
            /\ Insights!Within(c[i], days) = UNION {Insights!Within(s[t], days) : t \in first[i]..last[i]}
    <3> SUFFICES ASSUME NEW i \in 1..k
                 PROVE  /\ c[i].count = Insights!Trips(Insights!Within(c[i], days))
                        /\ c[i].from <= c[i].to
                        /\ Insights!Within(c[i], days) = UNION {Insights!Within(s[t], days) : t \in first[i]..last[i]}
      OBVIOUS
    <3>1. c[i].count = Insights!Counted(s, first[i]..last[i])
      BY <2>1
    <3>2. Insights!Counted(s, first[i]..last[i]) = Insights!Trips(Insights!Within(c[i], days))
      BY <2>3, RunAddsUp
    <3> DEFINE a == first[i]
               b == last[i]
               p == c[i]
    <3>3. Run(p, s, a, b)
      BY <2>3
    <3> HIDE DEF a, b, p
    <3>4. p.from <= p.to
      BY <3>3, SpreadRun
    <3>5. Insights!Within(p, days) = UNION {Insights!Within(s[t], days) : t \in a..b}
      BY <3>3, SpreadRun
    <3> QED BY <3>1, <3>2, <3>4, <3>5 DEF a, b, p
  <2>5. c \in Seq(Entry) /\ DOMAIN c = 1..k /\ Len(c) = k
    <3>1. \A i \in 1..L : s[i].from \in Nat /\ s[i].to \in Nat
      <4>1. \A i \in 1..L : s[i] \in Entry
        BY <1>1
      <4> QED BY <4>1 DEF Entry
    <3>2. \A i \in 1..k : c[i] \in Entry
      <4> SUFFICES ASSUME NEW i \in 1..k PROVE c[i] \in Entry
        OBVIOUS
      <4>1. s[first[i]].from \in Nat /\ s[last[i]].to \in Nat
        BY <2>2, <3>1
      <4>2. Insights!Within(c[i], days) \in SUBSET Days
        BY DaysCount
      <4>3. c[i].count \in Nat
        BY <2>4, <4>2, TripsCount
      <4>4. c[i] = [from |-> s[first[i]].from, to |-> s[last[i]].to,
                    count |-> Insights!Counted(s, first[i]..last[i]), active |-> 0]
        BY <2>1
      <4> QED BY <4>1, <4>3, <4>4 DEF Entry
    <3>3. c \in [1..k -> Entry] /\ k \in Nat
      BY <2>1, <2>2, <3>2
    <3>4. c \in UNION {[1..n -> Entry] : n \in Nat}
      BY <3>3
    <3>5. c \in Seq(Entry)
      BY <3>4, SeqDef
    <3> QED BY <3>3, <3>5
  <2>6. \A i, j \in 1..k : i < j => c[i].to < c[j].from
    <3> SUFFICES ASSUME NEW i \in 1..k, NEW j \in 1..k, i < j PROVE c[i].to < c[j].from
      OBVIOUS
    <3>1. c[i].to = s[last[i]].to /\ c[j].from = s[first[j]].from
      BY <2>1
    <3>2. last[i] \in DOMAIN s /\ first[j] \in DOMAIN s /\ last[i] < first[j]
      BY <1>1, <2>2
    <3> QED BY <3>1, <3>2 DEF Spread
  <2>7. ASSUME NEW d \in days PROVE \E i \in 1..k : d \in Insights!Within(c[i], days)
    <3>1. PICK t \in 1..L : d \in Insights!Within(s[t], days)
      BY <1>1 DEF Spread
    <3>2. PICK i \in 1..k : first[i] <= t /\ t <= last[i]
      BY <2>2
    <3>3. t \in first[i]..last[i]
      BY <1>1, <2>2, <3>2
    <3> QED BY <2>4, <3>1, <3>3
  <2>8. Spread(c, days)
    BY <2>4, <2>5, <2>6, <2>7 DEF Spread
  <2> QED BY <1>1, <2>2, <2>5, <2>8
<1>4. QED
  BY <1>2, <1>3

LEMMA PeriodsSpread ==
    ASSUME NEW r \in Ranges, NEW v, NEW s, s = Insights!AggregateByView(r, v)
    PROVE  /\ Spread(s, Insights!Daily(r))
           /\ \A i \in DOMAIN s : s[i].active = Cardinality(Insights!Within(s[i], Insights!Daily(r)))
<1> DEFINE days == Insights!Daily(r)
           f == [d \in days |-> Insights!Point(Insights!PeriodOf(v, d), days)]
           Q == {Insights!Point(Insights!PeriodOf(v, d), days) : d \in days}
<1>1. days \in SUBSET Days /\ days \in SUBSET Nat /\ IsFiniteSet(days)
  BY DaysCount, FS_Subset
<1> HIDE DEF days
<1>2. f \in Surjection(days, Q)
  BY DEF Surjection
<1>3. IsFiniteSet(Q)
  BY <1>1, <1>2, FS_Surjection
<1>4. ASSUME NEW d \in days
      PROVE  /\ f[d] \in Entry /\ f[d].from <= f[d].to /\ d \in Insights!Within(f[d], days)
             /\ f[d].count = Insights!Trips(Insights!Within(f[d], days))
             /\ f[d].active = Cardinality(Insights!Within(f[d], days))
             /\ f[d] = Insights!Point(Insights!PeriodOf(v, d), days)
             /\ f[d].from = Insights!PeriodOf(v, d).from /\ f[d].to = Insights!PeriodOf(v, d).to
  <2> DEFINE p == Insights!PeriodOf(v, d)
  <2>1. p.from \in Nat /\ p.to \in Nat /\ p.from <= d /\ d <= p.to
    BY <1>1, PeriodsApart
  <2> HIDE DEF p
  <2>2. f[d] = Insights!Point(p, days)
    BY DEF p
  <2>3. f[d] = [from |-> p.from, to |-> p.to, count |-> Insights!Trips(Insights!Within(p, days)),
                active |-> Cardinality(Insights!Within(p, days))]
    BY <2>2, SameCount DEF Insights!Point
  <2> HIDE DEF f
  <2>4. f[d].from = p.from /\ f[d].to = p.to
    BY <2>3
  <2>5. Insights!Within(f[d], days) = Insights!Within(p, days)
    BY <2>4 DEF Insights!Within
  <2>6. Insights!Within(p, days) \in SUBSET Days
    BY <1>1, DaysCount
  <2>7. Insights!Trips(Insights!Within(p, days)) \in Nat /\ Cardinality(Insights!Within(p, days)) \in Nat
    BY <2>6, TripsCount, DaysCount, FS_Subset, FS_CardinalityType
  <2>8. d \in Insights!Within(p, days)
    BY <2>1 DEF Insights!Within
  <2>9. f[d] \in Entry
    BY <2>1, <2>3, <2>7 DEF Entry
  <2>10. f[d].from <= f[d].to
    BY <1>1, <2>1, <2>4
  <2>11. /\ f[d].count = Insights!Trips(Insights!Within(p, days))
         /\ f[d].active = Cardinality(Insights!Within(p, days))
    BY <2>3
  <2> QED BY <2>2, <2>4, <2>5, <2>8, <2>9, <2>10, <2>11 DEF p
<1>5. ASSUME NEW d \in days, NEW e \in days
      PROVE  f[d] = f[e] \/ f[d].to < f[e].from \/ f[e].to < f[d].from
  <2>1. \/ Insights!PeriodOf(v, d) = Insights!PeriodOf(v, e)
        \/ Insights!PeriodOf(v, d).to < Insights!PeriodOf(v, e).from
        \/ Insights!PeriodOf(v, e).to < Insights!PeriodOf(v, d).from
    BY <1>1, PeriodsApart
  <2> HIDE DEF f
  <2> QED BY <1>4, <2>1
<1>6. \A p \in Q : \E d \in days : p = f[d]
  OBVIOUS
<1>7. \A d \in days : f[d] \in Q
  OBVIOUS
<1>8. s = [i \in 1..Cardinality(Q) |-> CHOOSE p \in Q : Cardinality({q \in Q : q.from <= p.from}) = i]
  BY DEF Insights!AggregateByView, days, Insights!Cardinality, Cardinality
<1> HIDE DEF Q, f
<1>9. \A p \in Q : p \in Entry /\ p.from \in Int /\ p.from \in Nat /\ p.to \in Nat /\ p.from <= p.to
  <2>1. \A p \in Q : p \in Entry /\ p.from <= p.to
    BY <1>4, <1>6
  <2> QED BY <2>1 DEF Entry
<1>10. \A p, q \in Q : p = q \/ p.to < q.from \/ q.to < p.from
  BY <1>5, <1>6
<1>11. \A p, q \in Q : p.from = q.from => p = q
  BY <1>9, <1>10
<1>12. /\ s \in Seq(Q) /\ Len(s) = Cardinality(Q) /\ DOMAIN s = 1..Len(s)
       /\ \A i, j \in DOMAIN s : i < j => s[i].from < s[j].from
       /\ \A p \in Q : \E i \in DOMAIN s : s[i] = p
  <2>1. Listed(s, Q)
    BY <1>3, <1>8, <1>9, <1>11 DEF Listed
  <2> QED BY <2>1, InOrder
<1>13. \A i \in DOMAIN s : s[i] \in Q
  BY <1>12
<1>14. s \in Seq(Entry)
  BY <1>9, <1>12, <1>13
<1>15. \A i \in DOMAIN s : /\ s[i].from <= s[i].to
                           /\ s[i].count = Insights!Trips(Insights!Within(s[i], days))
                           /\ s[i].active = Cardinality(Insights!Within(s[i], days))
  BY <1>4, <1>6, <1>13
<1>16. \A i, j \in DOMAIN s : i < j => s[i].to < s[j].from
  <2> SUFFICES ASSUME NEW i \in DOMAIN s, NEW j \in DOMAIN s, i < j PROVE s[i].to < s[j].from
    OBVIOUS
  <2> DEFINE p == s[i]
             q == s[j]
  <2>1. p \in Q /\ q \in Q /\ p.from < q.from
    BY <1>12, <1>13
  <2> HIDE DEF p, q
  <2>2. p.to < q.from
    BY <1>9, <1>10, <2>1
  <2> QED BY <2>2 DEF p, q
<1>17. \A d \in days : \E i \in DOMAIN s : d \in Insights!Within(s[i], days)
  BY <1>4, <1>7, <1>12
<1>18. Spread(s, days)
  BY <1>14, <1>15, <1>16, <1>17 DEF Spread
<1>19. QED
  BY <1>15, <1>18 DEF days

(* Every active day is in one period.                                      *)
LEMMA ActiveAddsUp ==
    ASSUME NEW days \in SUBSET Days, NEW s, Spread(s, days),
           \A i \in DOMAIN s : s[i].active = Cardinality(Insights!Within(s[i], days))
    PROVE  Insights!SumFunctionOnSet([i \in DOMAIN s |-> s[i].active], DOMAIN s) = Cardinality(days)
<1> DEFINE I == DOMAIN s
           one == [d \in Days |-> 1]
           E == [i \in I |-> s[i].active]
           D == [i \in I |-> Insights!Within(s[i], days)]
<1>1. I = 1..Len(s) /\ Len(s) \in Nat /\ IsFiniteSet(I)
  <2>1. I = 1..Len(s) /\ Len(s) \in Nat
    BY DEF Spread
  <2> QED BY <2>1, FS_Interval
<1>2. IsFiniteSet(Days) /\ \A d \in Days : one[d] \in Nat
  BY DaysCount
<1>3. PICK g : IsSum(g, Days, one)
  BY <1>2, SumExists
<1>4. PICK e : IsSum(e, I, E)
  BY <1>1, SumExists
<1>5. \A T \in SUBSET Days : g[T] = Cardinality(T) /\ g[T] \in Nat
  <2>1. \A T \in SUBSET Days : g[T] = Cardinality(T)
    BY <1>2, <1>3, CountIsSum
  <2> QED BY <1>2, <2>1, FS_Subset, FS_CardinalityType
<1>6. D \in [I -> SUBSET Days] /\ \A i \in I : D[i] = Insights!Within(s[i], days)
  BY DaysCount
<1>7. \A i \in I : E[i] = g[D[i]] /\ E[i] \in Nat
  <2> SUFFICES ASSUME NEW i \in I PROVE E[i] = g[D[i]] /\ E[i] \in Nat
    OBVIOUS
  <2>1. E[i] = Cardinality(Insights!Within(s[i], days))
    OBVIOUS
  <2>2. D[i] \in SUBSET Days /\ D[i] = Insights!Within(s[i], days)
    BY <1>6
  <2> HIDE DEF D, E
  <2> QED BY <1>5, <2>1, <2>2
<1>8. \A i, j \in I : i # j => D[i] \cap D[j] = {}
  <2> SUFFICES ASSUME NEW i \in I, NEW j \in I, i # j PROVE D[i] \cap D[j] = {}
    OBVIOUS
  <2>1. Run(s[i], s, i, i)
    <3>1. i <= i
      BY <1>1
    <3> QED BY <3>1 DEF Run
  <2>2. Insights!Within(s[i], days) \cap Insights!Within(s[j], days) = {}
    <3>1. \A x, y \in DOMAIN s : x # y => Insights!Within(s[x], days) \cap Insights!Within(s[y], days) = {}
      BY <2>1, SpreadRun
    <3> QED BY <3>1
  <2> HIDE DEF D
  <2> QED BY <1>6, <2>2
<1>9. UNION {D[i] : i \in I} = days
  <2>1. \A i \in I : D[i] \in SUBSET days
    BY <1>6, DaysCount
  <2>2. \A d \in days : \E i \in I : d \in D[i]
    BY <1>6 DEF Spread
  <2> HIDE DEF D, I
  <2> QED BY <2>1, <2>2
<1>10. e[I] = g[UNION {D[i] : i \in I}]
  <2>1. \A i \in I : E[i] = g[D[i]]
    BY <1>7
  <2>2. IsFiniteSet(I)
    BY <1>1
  <2> HIDE DEF D, E, I, one
  <2> QED BY <1>2, <1>3, <1>4, <1>6, <1>8, <2>1, <2>2, PartsAddUp
<1>11. Insights!SumFunctionOnSet(E, I) = e[I]
  <2>1. \A i \in I : E[i] = E[i]
    OBVIOUS
  <2> HIDE DEF E, I
  <2> QED BY <1>1, <1>4, <1>7, FoldIsSum
<1>12. Insights!SumFunctionOnSet(E, I) = Cardinality(days)
  <2> HIDE DEF E, I, D
  <2> QED BY <1>5, <1>9, <1>10, <1>11
<1>13. QED
  BY <1>12

(* The chart of a range, whatever its view.                                *)
LEMMA ChartSpread ==
    ASSUME NEW r \in Ranges, NEW v \in Insights!Views, NEW c, c = Insights!Chart(r, v)
    PROVE  Spread(c, Insights!Daily(r)) /\ Len(c) <= MaxPoints[v]
<1>1. r # NoRange
  BY RangesAssumption
<1>2. c = Insights!CompressSeriesIfNeeded(Insights!AggregateByView(r, v), v)
  BY <1>1 DEF Insights!Chart
<1>3. Spread(Insights!AggregateByView(r, v), Insights!Daily(r))
  BY PeriodsSpread
<1>4. Insights!Daily(r) \in SUBSET Days
  BY DaysCount
<1>5. QED
  BY <1>2, <1>3, <1>4, MergedSpread

(* Days that the list leaves out, within the range, have no trips.         *)
LEMMA WithinRange ==
    ASSUME NEW r \in Ranges, NEW p, p.from \in Nat, p.to \in Nat, p.from >= From[r], p.to <= To[r]
    PROVE  Insights!Trips(Insights!Within(p, Insights!Daily(r))) = Insights!Trips(Insights!Within(p, Days))
<1> DEFINE T == Insights!Within(p, Insights!Daily(r))
           U == Insights!Within(p, Days)
<1>1. Days \in SUBSET Nat /\ U \in SUBSET Days /\ Insights!Daily(r) \in SUBSET Days
  BY DaysCount
<1>2. From[r] \in Nat /\ To[r] \in Nat
  BY RangesAssumption
<1>3. T \in SUBSET U
  BY <1>1 DEF Insights!Within
<1>4. ASSUME NEW d \in U \ T PROVE Driven[d] = 0
  <2>1. d \in Days /\ p.from <= d /\ d <= p.to /\ d \notin Insights!Daily(r)
    BY DEF Insights!Within
  <2>2. d \in Nat /\ From[r] <= d /\ d <= To[r]
    BY <1>1, <1>2, <2>1
  <2>3. ~ (Driven[d] > 0)
    BY <2>1, <2>2 DEF Insights!Daily, Days
  <2>4. Driven[d] \in Nat
    BY <2>1, DaysCount
  <2> QED BY <2>3, <2>4
<1> HIDE DEF T, U
<1>5. Insights!Trips(U) = Insights!Trips(T)
  BY <1>1, <1>3, <1>4, TripsOfActive
<1>6. QED
  BY <1>5 DEF T, U

LEMMA SpanOfRange ==
    ASSUME NEW r \in Ranges, NEW s, s = Insights!ComputeConsistencyStats(r)
    PROVE  s.active = Cardinality(Insights!Daily(r)) /\ s.active + s.quiet = s.span
<1> DEFINE days == Insights!Daily(r)
           a == From[r]
           b == To[r]
           span == b - a + 1
           n == Cardinality(days)
<1>1. a \in Nat /\ b \in Nat /\ a <= b
  BY RangesAssumption
<1>2. days \in SUBSET Nat /\ \A d \in days : a <= d /\ d <= b
  <2>1. \A d \in days : a <= d /\ d <= b
    BY DEF Insights!Daily
  <2> QED BY <2>1, DaysCount
<1> HIDE DEF days, a, b
<1>3. {d \in days : d - a < span} = days
  <2>1. \A d \in days : d - a < span
    BY <1>1, <1>2
  <2> HIDE DEF span
  <2> QED BY <2>1
<1>4. days \in SUBSET (a..b)
  BY <1>1, <1>2
<1>5. IsFiniteSet(a..b) /\ Cardinality(a..b) = span
  BY <1>1, FS_Interval
<1>6. n \in Nat /\ n <= span
  BY <1>4, <1>5, FS_Subset, FS_CardinalityType
<1>7. Insights!Cardinality({d \in days : d - a < span}) = n
  BY <1>3, SameCount
<1>8. s = [active |-> n, span |-> span, quiet |-> Insights!Max({0, span - n})]
  <2>1. s = [active |-> Insights!Cardinality({d \in days : d - a < span}), span |-> span,
             quiet |-> Insights!Max({0, span - Insights!Cardinality({d \in days : d - a < span})})]
    BY DEF Insights!ComputeConsistencyStats, days, a, b
  <2> HIDE DEF n, span
  <2> QED BY <1>7, <2>1
<1>9. Insights!Max({0, span - n}) = span - n
  <2> DEFINE q == span - n
  <2>1. q \in Nat
    BY <1>1, <1>6
  <2> HIDE DEF q
  <2>2. Insights!Max({0, q}) = q
    BY <2>1 DEF Insights!Max
  <2> QED BY <2>2 DEF q
<1> HIDE DEF n, span
<1>10. s.active = n /\ s.span = span /\ s.quiet = span - n
  BY <1>8, <1>9
<1>11. span \in Int
  BY <1>1 DEF span
<1>12. QED
  BY <1>6, <1>10, <1>11 DEF n, days

(* The insights page: what it shows is of a range it has data of, and what *)
(* a point opened has as many trips as an answer may have.                 *)
RangeFields == {"range", "data", "loads", "chart", "view", "asks", "modal"}

RangeSound(u) ==
    /\ RangeFields \subseteq DOMAIN u
    /\ u.range \in Ranges /\ u.data \in Ranges \cup {NoRange} /\ u.chart.of \in Ranges \cup {NoRange}
    /\ u.view \in Insights!Views /\ u.chart.view \in Insights!Views
    /\ \A l \in u.loads : "of" \in DOMAIN l /\ l.of \in Ranges
    /\ \A a \in u.asks : a.limit = DrilldownLimit
    /\ u.modal = Insights!NoModal \/ u.modal.trips = Insights!Opened(u.modal.of, DrilldownLimit)

(* What an answer has of the trips of a point.                             *)
LEMMA OpenedTrips ==
    ASSUME NEW s, NEW n \in Nat, n = Insights!Trips(Insights!Within(s, DOMAIN Driven))
    PROVE  Insights!Opened(s, DrilldownLimit) = Insights!Min({n, DrilldownLimit, ServerLimit})
<1> DEFINE a == DrilldownLimit
           b == ServerLimit
           m == Insights!Min({a, b})
<1>1. a \in Nat \ {0} /\ b \in Nat \ {0}
  BY RangesAssumption
<1> HIDE DEF a, b
<1>2. m = IF a <= b THEN a ELSE b
  BY <1>1 DEF Insights!Min
<1>8. m \in Nat \ {0}
  BY <1>1, <1>2
<1> HIDE DEF m
<1>3. Insights!Max({1, m}) = m
  BY <1>8 DEF Insights!Max
<1>4. Insights!Min({n, m}) = IF n <= m THEN n ELSE m
  BY <1>8 DEF Insights!Min
<1>5. Insights!Min({n, a, b}) = IF n <= m THEN n ELSE m
  BY <1>1, <1>2 DEF Insights!Min
<1>6. Insights!Opened(s, DrilldownLimit) = Insights!Min({n, Insights!Max({1, m})})
  BY DEF Insights!Opened, a, b, m
<1>7. QED
  BY <1>3, <1>4, <1>5, <1>6 DEF a, b

LEMMA PointsShown ==
    ASSUME RangeSound(ui)
    PROVE  Insights!PointOpensItsTrips
<1> DEFINE r == ui.chart.of
           v == ui.chart.view
           c == Insights!Chart(r, v)
<1>1. ASSUME r # NoRange
      PROVE  /\ Insights!Trips(Insights!Daily(r)) = Insights!Counted(c, DOMAIN c)
             /\ Len(c) <= MaxPoints[v]
             /\ \A i \in DOMAIN c : c[i].from >= From[r] /\ c[i].to <= To[r] =>
                    /\ c[i].count = Insights!Trips(Insights!Within(c[i], DOMAIN Driven))
                    /\ ui.modal.of = [from |-> c[i].from, to |-> c[i].to] =>
                           ui.modal.trips = Insights!Min({c[i].count, DrilldownLimit, ServerLimit})
  <2>1. r \in Ranges /\ v \in Insights!Views
    BY <1>1 DEF RangeSound
  <2>2. Spread(c, Insights!Daily(r)) /\ Len(c) <= MaxPoints[v]
    BY <2>1, ChartSpread
  <2>3. Insights!Daily(r) \in SUBSET Days
    BY DaysCount
  <2>m. ui.modal = Insights!NoModal \/ ui.modal.trips = Insights!Opened(ui.modal.of, DrilldownLimit)
    BY DEF RangeSound
  <2> HIDE DEF c, r, v
  <2>4. Insights!Trips(Insights!Daily(r)) = Insights!Counted(c, DOMAIN c)
    BY <2>2, <2>3, ChartAddsUp
  <2>5. ASSUME NEW i \in DOMAIN c, c[i].from >= From[r], c[i].to <= To[r]
        PROVE  /\ c[i].count = Insights!Trips(Insights!Within(c[i], DOMAIN Driven))
               /\ ui.modal.of = [from |-> c[i].from, to |-> c[i].to] =>
                      ui.modal.trips = Insights!Min({c[i].count, DrilldownLimit, ServerLimit})
    <3> DEFINE p == c[i]
               s == [from |-> p.from, to |-> p.to]
    <3>1. p \in Entry /\ p.from <= p.to /\ p.count = Insights!Trips(Insights!Within(p, Insights!Daily(r)))
      BY <2>2 DEF Spread
    <3>2. p.from \in Nat /\ p.to \in Nat /\ p.count \in Nat /\ p.from >= From[r] /\ p.to <= To[r]
      BY <2>5, <3>1 DEF Entry
    <3> HIDE DEF p
    <3>3. p.count = Insights!Trips(Insights!Within(p, Days))
      BY <2>1, <3>1, <3>2, WithinRange
    <3>4. Insights!Within(s, Days) = Insights!Within(p, Days)
      BY DEF Insights!Within
    <3>5. s # Insights!NoSpan
      BY <3>1, <3>2 DEF Insights!NoSpan
    <3>6. Insights!Opened(s, DrilldownLimit) = Insights!Min({p.count, DrilldownLimit, ServerLimit})
      BY <3>2, <3>3, <3>4, OpenedTrips DEF Days
    <3> HIDE DEF s
    <3>7. ui.modal.of = s => ui.modal.trips = Insights!Min({p.count, DrilldownLimit, ServerLimit})
      BY <2>m, <3>5, <3>6 DEF Insights!NoModal
    <3> QED BY <3>3, <3>7 DEF p, s, Days
  <2> QED BY <2>2, <2>4, <2>5
<1>2. QED
  BY <1>1 DEF Insights!PointOpensItsTrips

LEMMA PeriodsShown ==
    ASSUME RangeSound(ui)
    PROVE  Insights!PeriodsAgree
<1> SUFFICES ASSUME NEW r \in Ranges
             PROVE  LET s == Insights!ComputeConsistencyStats(r)
                        active(view) == LET a == Insights!AggregateByView(r, view)
                                        IN  Insights!SumFunctionOnSet([i \in DOMAIN a |-> a[i].active], DOMAIN a)
                    IN  /\ active("weekly") = s.active /\ active("monthly") = s.active
                        /\ s.active + s.quiet = s.span
  BY DEF RangeSound, Insights!PeriodsAgree
<1>1. \A view : LET a == Insights!AggregateByView(r, view)
                IN  Insights!SumFunctionOnSet([i \in DOMAIN a |-> a[i].active], DOMAIN a) = Cardinality(Insights!Daily(r))
  <2> SUFFICES ASSUME NEW view, NEW a, a = Insights!AggregateByView(r, view)
               PROVE  Insights!SumFunctionOnSet([i \in DOMAIN a |-> a[i].active], DOMAIN a) = Cardinality(Insights!Daily(r))
    OBVIOUS
  <2>1. /\ Spread(a, Insights!Daily(r))
        /\ \A i \in DOMAIN a : a[i].active = Cardinality(Insights!Within(a[i], Insights!Daily(r)))
    BY PeriodsSpread
  <2>2. Insights!Daily(r) \in SUBSET Days
    BY DaysCount
  <2> QED BY <2>1, <2>2, ActiveAddsUp
<1>2. /\ Insights!ComputeConsistencyStats(r).active = Cardinality(Insights!Daily(r))
      /\ Insights!ComputeConsistencyStats(r).active + Insights!ComputeConsistencyStats(r).quiet
             = Insights!ComputeConsistencyStats(r).span
  BY SpanOfRange
<1>3. QED
  BY <1>1, <1>2

SameRange(u, v) == RangeFields \subseteq DOMAIN v /\ \A f \in RangeFields : v[f] = u[f]

LEMMA SameRangeSound ==
    ASSUME NEW u, RangeSound(u), NEW v, SameRange(u, v)
    PROVE  RangeSound(v)
<1>1. /\ v.range = u.range /\ v.data = u.data /\ v.loads = u.loads /\ v.chart = u.chart
      /\ v.view = u.view /\ v.asks = u.asks /\ v.modal = u.modal
  BY DEF SameRange, RangeFields
<1>2. QED
  BY <1>1, Zenon DEF SameRange, RangeSound

(* The map and its rankings are nothing to the range.                      *)
LEMMA RangeHelpers ==
    ASSUME NEW u, RangeFields \subseteq DOMAIN u
    PROVE  /\ SameRange(u, u) /\ SameRange(u, Insights!Acted(u)) /\ SameRange(u, Insights!RenderDetailPanel(u))
           /\ SameRange(u, Insights!ClearSelectionIfMissing(u)) /\ SameRange(u, Insights!ApplyDeckLayers(u))
<1>1. SameRange(u, u) /\ SameRange(u, Insights!Acted(u)) /\ SameRange(u, Insights!RenderDetailPanel(u))
  BY DEF SameRange, RangeFields, Insights!Acted, Insights!RenderDetailPanel
<1>2. SameRange(u, Insights!ClearSelectionIfMissing(u))
  BY DEF SameRange, RangeFields, Insights!ClearSelectionIfMissing
<1>3. SameRange(u, Insights!ApplyDeckLayers(u))
  BY DEF SameRange, RangeFields, Insights!ApplyDeckLayers
<1>4. QED
  BY <1>1, <1>2, <1>3

LEMMA SameRangeTwice ==
    ASSUME NEW u, NEW v, NEW w, SameRange(u, v), SameRange(v, w)
    PROVE  SameRange(u, w)
BY DEF SameRange

LEMMA RedrawnRange ==
    ASSUME NEW u, RangeFields \subseteq DOMAIN u
    PROVE  SameRange(u, Insights!Redrawn(u)) /\ SameRange(u, Insights!Acted(Insights!Redrawn(u)))
<1> DEFINE v == Insights!RenderDetailPanel(u)
           w == Insights!ApplyDeckLayers(v)
<1>1. SameRange(u, v) /\ RangeFields \subseteq DOMAIN v
  BY RangeHelpers DEF SameRange
<1>2. Insights!Redrawn(u) = v \/ Insights!Redrawn(u) = w
  BY DEF Insights!Redrawn
<1> HIDE DEF v
<1>3. SameRange(u, w)
  BY <1>1, RangeHelpers, SameRangeTwice
<1> HIDE DEF w
<1>4. SameRange(u, Insights!Redrawn(u))
  BY <1>1, <1>2, <1>3
<1>5. SameRange(Insights!Redrawn(u), Insights!Acted(Insights!Redrawn(u)))
  BY <1>4, RangeHelpers DEF SameRange
<1>6. QED
  BY <1>4, <1>5, SameRangeTwice

LEMMA MovementRange ==
    ASSUME NEW u, RangeFields \subseteq DOMAIN u, NEW r
    PROVE  SameRange(u, Insights!RenderMovementInsights(u, r))
<1> DEFINE a == [u EXCEPT !.payload = r, !.visible = [m \in Insights!Modes |-> Initially]]
           b == Insights!ClearSelectionIfMissing(a)
           v == Insights!RenderDetailPanel(b)
           w == [v EXCEPT !.sel = Insights!NoEntity, !.hov = Insights!NoEntity,
                          !.drawn = [of |-> r, panel |-> v.panel, sel |-> Insights!NoEntity, hov |-> Insights!NoEntity]]
<1>1. \/ Insights!RenderMovementInsights(u, r) = w
      \/ Insights!RenderMovementInsights(u, r) = Insights!ApplyDeckLayers(v)
  BY DEF Insights!RenderMovementInsights
<1>2. SameRange(u, a)
  BY DEF SameRange, RangeFields
<1> HIDE DEF a
<1>3. SameRange(u, b)
  BY <1>2, RangeHelpers, SameRangeTwice DEF SameRange
<1> HIDE DEF b
<1>4. SameRange(u, v)
  BY <1>3, RangeHelpers, SameRangeTwice DEF SameRange
<1> HIDE DEF v
<1>5. SameRange(u, w)
  BY <1>4 DEF SameRange, RangeFields
<1>6. SameRange(u, Insights!ApplyDeckLayers(v))
  BY <1>4, RangeHelpers, SameRangeTwice DEF SameRange
<1> HIDE DEF w
<1>7. QED
  BY <1>1, <1>5, <1>6

LEMMA LoadRange ==
    ASSUME NEW u, RangeSound(u)
    PROVE  RangeSound(Insights!LoadAllData(u))
<1> DEFINE v == Insights!LoadAllData(u)
           old == {[l EXCEPT !.aborted = @ \/ l.id = u.controller] : l \in u.loads}
           new == [id |-> u.n + 1, of |-> u.range, aborted |-> FALSE]
<1>1. /\ RangeFields \subseteq DOMAIN v /\ v.range = u.range /\ v.data = u.data /\ v.chart = u.chart
      /\ v.view = u.view /\ v.asks = u.asks /\ v.modal = u.modal
  BY DEF RangeSound, RangeFields, Insights!LoadAllData
<1>2. v.loads = old \cup {new}
  BY DEF RangeSound, RangeFields, Insights!LoadAllData
<1>3. \A l \in old : "of" \in DOMAIN l /\ l.of \in Ranges
  BY DEF RangeSound
<1>4. "of" \in DOMAIN new /\ new.of \in Ranges
  BY DEF RangeSound
<1> HIDE DEF v, old, new
<1>5. \A l \in v.loads : "of" \in DOMAIN l /\ l.of \in Ranges
  BY <1>2, <1>3, <1>4
<1>6. RangeSound(v)
  BY <1>1, <1>5, Zenon DEF RangeSound
<1>7. QED
  BY <1>6 DEF v

(* A load that ends leaves the list, and the refresh may begin.            *)
LEMMA EndedRange ==
    ASSUME NEW u, RangeSound(u), NEW l
    PROVE  RangeSound(Insights!Begun(Insights!Ended(u, l), l))
<1> DEFINE v == Insights!Ended(u, l)
           w == Insights!Begun(v, l)
<1>1. /\ RangeFields \subseteq DOMAIN v /\ v.range = u.range /\ v.data = u.data /\ v.chart = u.chart
      /\ v.loads = u.loads \ {l} /\ v.view = u.view /\ v.asks = u.asks /\ v.modal = u.modal
  BY DEF RangeSound, RangeFields, Insights!Ended
<1> HIDE DEF v
<1>2. RangeSound(v)
  BY <1>1, Zenon DEF RangeSound
<1>3. SameRange(v, w)
  BY <1>1 DEF SameRange, RangeFields, Insights!Begun
<1> HIDE DEF w
<1>4. RangeSound(w)
  BY <1>2, <1>3, SameRangeSound
<1>5. QED
  BY <1>4 DEF v, w

LEMMA RenderRange ==
    ASSUME NEW u, RangeSound(u), NEW r \in Ranges
    PROVE  RangeSound(Insights!RenderAll(u, r))
<1> DEFINE a == [u EXCEPT !.data = r]
           v == Insights!RenderMovementInsights(a, r)
           w == Insights!RenderAll(u, r)
<1>1. w = [v EXCEPT !.chart = [of |-> r, view |-> u.view], !.story = [of |-> r, mode |-> u.rhythm]]
  BY DEF Insights!RenderAll
<1>2. /\ RangeFields \subseteq DOMAIN a /\ a.range = u.range /\ a.loads = u.loads /\ a.data = r
      /\ a.view = u.view /\ a.asks = u.asks /\ a.modal = u.modal
  BY DEF RangeSound, RangeFields
<1> HIDE DEF a
<1>3. SameRange(a, v)
  BY <1>2, MovementRange
<1> HIDE DEF v, w
<1>4. /\ RangeFields \subseteq DOMAIN v /\ v.range = u.range /\ v.loads = u.loads /\ v.data = r
      /\ v.view = u.view /\ v.asks = u.asks /\ v.modal = u.modal
  BY <1>2, <1>3 DEF SameRange, RangeFields
<1>5. /\ RangeFields \subseteq DOMAIN w /\ w.range = u.range /\ w.loads = u.loads /\ w.data = r
      /\ w.chart = [of |-> r, view |-> u.view] /\ w.view = u.view /\ w.asks = u.asks /\ w.modal = u.modal
  BY <1>1, <1>4 DEF RangeFields
<1>6. RangeSound(w)
  BY <1>5 DEF RangeSound
<1>7. QED
  BY <1>6 DEF w

LEMMA ActedRange ==
    ASSUME NEW u, RangeSound(u)
    PROVE  RangeSound(Insights!Acted(u))
BY RangeHelpers, SameRangeSound DEF RangeSound

(* The steps on the map and its rankings.                                  *)
LEMMA SelectingRange ==
    ASSUME RangeSound(ui), NEW m, NEW k,
           \/ Insights!HandleRankClick(m, k) \/ Insights!HandleRankHover(m, k) \/ Insights!DeckClick(k)
           \/ Insights!ChangePanel(m) \/ Insights!ViewMore(m)
    PROVE  SameRange(ui, ui')
<1> DEFINE none == Insights!NoEntity
           e == [type |-> m, key |-> k]
           on(x) == [ui EXCEPT !.sel = x, !.hov = none]
<1>f. RangeFields \subseteq DOMAIN ui
  BY DEF RangeSound
<1>1. ASSUME NEW u, SameRange(ui, u)
      PROVE  SameRange(ui, Insights!Acted(Insights!Redrawn(u))) /\ SameRange(ui, Insights!Acted(Insights!ApplyDeckLayers(u)))
  <2>1. RangeFields \subseteq DOMAIN u
    BY <1>1 DEF SameRange
  <2>2. SameRange(ui, Insights!Acted(Insights!Redrawn(u)))
    BY <1>1, <2>1, RedrawnRange, SameRangeTwice
  <2> DEFINE v == Insights!ApplyDeckLayers(u)
  <2>3. SameRange(ui, v)
    BY <1>1, <2>1, RangeHelpers, SameRangeTwice
  <2> HIDE DEF v
  <2>4. SameRange(ui, Insights!Acted(v))
    BY <2>3, RangeHelpers, SameRangeTwice DEF SameRange
  <2> QED BY <2>2, <2>4 DEF v
<1>2. \A x : SameRange(ui, on(x))
  BY <1>f DEF SameRange, RangeFields
<1>3. \A x : SameRange(ui, [ui EXCEPT !.hov = x])
  BY <1>f DEF SameRange, RangeFields
<1>4. CASE Insights!HandleRankClick(m, k)
  <2>1. \E x : ui' = Insights!Acted(Insights!Redrawn(on(x)))
    BY <1>4 DEF Insights!HandleRankClick
  <2> HIDE DEF on
  <2> QED BY <1>1, <1>2, <2>1
<1>5. CASE Insights!HandleRankHover(m, k)
  <2>1. \E x : ui' = Insights!Acted(Insights!ApplyDeckLayers([ui EXCEPT !.hov = x]))
    BY <1>5 DEF Insights!HandleRankHover
  <2> QED BY <1>1, <1>3, <2>1
<1>6. CASE Insights!DeckClick(k)
  <2>1. \E x : ui' = Insights!Acted(Insights!Redrawn(on(x)))
    BY <1>6 DEF Insights!DeckClick
  <2> HIDE DEF on
  <2> QED BY <1>1, <1>2, <2>1
<1>7. CASE Insights!ChangePanel(m)
  <2>1. PICK x : ui' = Insights!Acted(Insights!Redrawn([ui EXCEPT !.panel = m, !.hov = none, !.sel = x]))
    BY <1>7 DEF Insights!ChangePanel
  <2>2. SameRange(ui, [ui EXCEPT !.panel = m, !.hov = none, !.sel = x])
    BY <1>f DEF SameRange, RangeFields
  <2> QED BY <1>1, <2>1, <2>2
<1>8. CASE Insights!ViewMore(m)
  <2> DEFINE v == [ui EXCEPT !.visible[m] = @ + More]
  <2>1. ui' = Insights!Acted(v)
    BY <1>8 DEF Insights!ViewMore
  <2>2. SameRange(ui, v)
    BY <1>f DEF SameRange, RangeFields
  <2> HIDE DEF v
  <2>3. SameRange(ui, Insights!Acted(v))
    BY <2>2, RangeHelpers, SameRangeTwice DEF SameRange
  <2> QED BY <2>1, <2>3
<1> QED BY <1>4, <1>5, <1>6, <1>7, <1>8

LEMMA RangeSteps ==
    ASSUME RangeSound(ui), Insights!Next
    PROVE  RangeSound(ui')
<1>f. RangeFields \subseteq DOMAIN ui
  BY DEF RangeSound
<1>1. ASSUME NEW l \in ui.loads, Insights!DataArrives(l) PROVE RangeSound(ui')
  <2> DEFINE u == IF l.aborted THEN ui ELSE [Insights!RenderAll(ui, l.of) EXCEPT !.failed = FALSE]
             v == Insights!RenderAll(ui, l.of)
  <2>1. ui' = Insights!Begun(Insights!Ended(u, l), l)
    BY <1>1 DEF Insights!DataArrives
  <2>2. RangeSound(v)
    BY RenderRange DEF RangeSound
  <2>3. u = ui \/ u = [v EXCEPT !.failed = FALSE]
    OBVIOUS
  <2> HIDE DEF u, v
  <2>4. SameRange(v, [v EXCEPT !.failed = FALSE])
    BY <2>2 DEF RangeSound, SameRange, RangeFields
  <2>5. RangeSound(u)
    BY <2>2, <2>3, <2>4, SameRangeSound
  <2> QED BY <2>1, <2>5, EndedRange
<1>2. ASSUME NEW l \in ui.loads, Insights!DataFails(l) PROVE RangeSound(ui')
  <2> DEFINE u == IF l.aborted THEN ui ELSE [ui EXCEPT !.failed = TRUE]
  <2>1. ui' = Insights!Begun(Insights!Ended(u, l), l)
    BY <1>2 DEF Insights!DataFails
  <2>2. SameRange(ui, u)
    BY <1>f DEF SameRange, RangeFields
  <2> HIDE DEF u
  <2>3. RangeSound(u)
    BY <2>2, SameRangeSound
  <2> QED BY <2>1, <2>3, EndedRange
<1>3. ASSUME NEW r \in Ranges, Insights!FiltersApplied(r) PROVE RangeSound(ui')
  <2> DEFINE u == [ui EXCEPT !.range = r]
             v == Insights!LoadAllData(u)
  <2>1. ui' = Insights!Acted(v)
    BY <1>3 DEF Insights!FiltersApplied
  <2>2. /\ RangeFields \subseteq DOMAIN u /\ u.range = r /\ u.data = ui.data /\ u.chart = ui.chart /\ u.loads = ui.loads
        /\ u.view = ui.view /\ u.asks = ui.asks /\ u.modal = ui.modal
    BY <1>f DEF RangeFields
  <2> HIDE DEF u
  <2>3. RangeSound(u)
    BY <2>2 DEF RangeSound
  <2>4. RangeSound(v)
    BY <2>3, LoadRange
  <2> HIDE DEF v
  <2> QED BY <2>1, <2>4, ActedRange
<1>4. CASE Insights!AutoRefresh
  BY <1>4, LoadRange, ActedRange DEF Insights!AutoRefresh
<1>5. ASSUME NEW v \in Insights!Views, Insights!HandleToggleChange(v) PROVE RangeSound(ui')
  <2>1. PICK c, mode, story :
            /\ c = ui.chart \/ c = [of |-> ui.data, view |-> v]
            /\ ui' = Insights!Acted([ui EXCEPT !.view = v, !.rhythm = mode, !.chart = c, !.story = story])
    BY <1>5 DEF Insights!HandleToggleChange
  <2> DEFINE u == [ui EXCEPT !.view = v, !.rhythm = mode, !.chart = c, !.story = story]
  <2>2. /\ RangeFields \subseteq DOMAIN u /\ u.range = ui.range /\ u.data = ui.data /\ u.chart = c /\ u.loads = ui.loads
        /\ u.view = v /\ u.asks = ui.asks /\ u.modal = ui.modal
    BY <1>f DEF RangeFields
  <2>3. c.of \in Ranges \cup {NoRange} /\ c.view \in Insights!Views
    BY <2>1 DEF RangeSound
  <2> HIDE DEF u
  <2>4. RangeSound(u)
    BY <2>2, <2>3, Zenon DEF RangeSound
  <2> QED BY <2>1, <2>4, ActedRange DEF u
<1>6. ASSUME NEW m, NEW k,
             \/ Insights!HandleRankClick(m, k) \/ Insights!HandleRankHover(m, k) \/ Insights!DeckClick(k)
             \/ Insights!ChangePanel(m) \/ Insights!ViewMore(m)
      PROVE  RangeSound(ui')
  BY <1>6, SelectingRange, SameRangeSound
<1>7. ASSUME NEW i, Insights!HandleTrendsChartClick(i) PROVE RangeSound(ui')
  <2> DEFINE p == Insights!Chart(ui.chart.of, ui.chart.view)[i]
             s == [from |-> p.from, to |-> p.to]
             a == [id |-> ui.steps, of |-> s, limit |-> DrilldownLimit]
             x == ui.crossed \/ ui.asks # {}
  <2>1. /\ ui' = Insights!Acted([ui EXCEPT !.asks = @ \cup {a}, !.wanted = s, !.crossed = x])
        /\ a.limit = DrilldownLimit
    BY <1>7 DEF Insights!HandleTrendsChartClick
  <2> HIDE DEF s, a, x
  <2> DEFINE u == [ui EXCEPT !.asks = @ \cup {a}, !.wanted = s, !.crossed = x]
  <2>2. /\ RangeFields \subseteq DOMAIN u /\ u.range = ui.range /\ u.data = ui.data /\ u.chart = ui.chart /\ u.loads = ui.loads
        /\ u.view = ui.view /\ u.asks = ui.asks \cup {a} /\ u.modal = ui.modal
    BY <1>f DEF RangeFields
  <2>4. \A b \in u.asks : b.limit = DrilldownLimit
    BY <2>1, <2>2 DEF RangeSound
  <2> HIDE DEF u
  <2>3. RangeSound(u)
    BY <2>2, <2>4, Zenon DEF RangeSound
  <2> QED BY <2>1, <2>3, ActedRange DEF u
<1>8. ASSUME NEW a \in ui.asks, Insights!DrilldownArrives(a) PROVE RangeSound(ui')
  <2> DEFINE shown == [of |-> a.of, trips |-> Insights!Opened(a.of, a.limit)]
  <2>1. /\ RangeFields \subseteq DOMAIN ui' /\ ui'.range = ui.range /\ ui'.data = ui.data /\ ui'.chart = ui.chart
        /\ ui'.loads = ui.loads /\ ui'.view = ui.view /\ ui'.asks = ui.asks \ {a}
        /\ ui'.modal = ui.modal \/ ui'.modal = shown
    BY <1>f, <1>8 DEF RangeFields, Insights!DrilldownArrives
  <2>2. shown.trips = Insights!Opened(shown.of, DrilldownLimit)
    BY DEF RangeSound
  <2> HIDE DEF shown
  <2>3. ui'.modal = Insights!NoModal \/ ui'.modal.trips = Insights!Opened(ui'.modal.of, DrilldownLimit)
    BY <2>1, <2>2 DEF RangeSound
  <2>4. \A b \in ui'.asks : b.limit = DrilldownLimit
    BY <2>1 DEF RangeSound
  <2> QED BY <2>1, <2>3, <2>4, Zenon DEF RangeSound
<1>9. CASE Insights!Teardown
  <2> DEFINE ended == {[l EXCEPT !.aborted = TRUE] : l \in ui.loads}
  <2>1. /\ RangeFields \subseteq DOMAIN ui' /\ ui'.range = ui.range /\ ui'.data = ui.data /\ ui'.chart = ui.chart
        /\ ui'.loads = ended /\ ui'.view = ui.view /\ ui'.asks = ui.asks /\ ui'.modal = ui.modal
    BY <1>f, <1>9 DEF RangeFields, Insights!Teardown
  <2>2. \A l \in ended : "of" \in DOMAIN l /\ l.of \in Ranges
    BY DEF RangeSound
  <2> HIDE DEF ended
  <2> QED BY <2>1, <2>2, Zenon DEF RangeSound
<1> QED BY <1>1, <1>2, <1>3, <1>4, <1>5, <1>6, <1>7, <1>8, <1>9 DEF Insights!Next

LEMMA InsightStart ==
    ASSUME Insights!Init
    PROVE  RangeSound(ui)
<1>1. PICK u : /\ u.range \in Ranges /\ u.data = NoRange /\ u.chart.of = NoRange /\ u.loads = {}
               /\ RangeFields \subseteq DOMAIN u /\ ui = Insights!LoadAllData(u)
               /\ u.view \in Insights!Views /\ u.chart.view \in Insights!Views
               /\ u.asks = {} /\ u.modal = Insights!NoModal
  BY DEF Insights!Init, RangeFields, Insights!Views
<1>2. RangeSound(u)
  BY <1>1, Zenon DEF RangeSound
<1>3. QED
  BY <1>1, <1>2, LoadRange

(* The insights page shows a range it has data of; the others are free.    *)
PeriodsInv == page = "insights" => RangeSound(ui)

(* The periods of a range add up, for any record of days, any lengths of   *)
(* weeks and months and any number of points of the chart: days, weeks and *)
(* months, merged into fewer points or not, count every trip and every     *)
(* active day of the range once; a point within the range opens the trips  *)
(* it counts, or as many as an answer has; every day is active or quiet    *)
(* (charts.js, modal.js, derived-insights.js).                             *)
THEOREM PeriodsOfARangeAddUp == WebSpec => []PeriodsAddUp
<1>1. WebInit => PeriodsInv
  BY InsightStart DEF WebInit, PeriodsInv
<1>2. PeriodsInv /\ [WebNext]_<<page, ui>> => PeriodsInv'
  <2>1. ASSUME PeriodsInv, UNCHANGED <<page, ui>> PROVE PeriodsInv'
    BY <2>1 DEF PeriodsInv
  <2>2. ASSUME PeriodsInv, WebNext PROVE PeriodsInv'
    <3>1. page' = page
      BY <2>2 DEF WebNext
    <3>2. ASSUME page = "insights" PROVE RangeSound(ui')
      BY <2>2, <3>2, RangeSteps DEF PeriodsInv, WebNext
    <3> QED BY <3>1, <3>2 DEF PeriodsInv
  <2> QED BY <2>1, <2>2
<1>3. PeriodsInv => PeriodsAddUp
  BY PointsShown, PeriodsShown DEF PeriodsInv, PeriodsAddUp
<1> QED BY <1>1, <1>2, <1>3, PTL DEF WebSpec

=============================================================================
