----------------------------- MODULE TripUpload -----------------------------
(***************************************************************************)
(* The manual import of trips from files (features/trip-import): files are *)
(* chosen, scanned by the server, reviewed in a table and on a map, and    *)
(* the selected trips are committed in batches. A lock keeps the files as  *)
(* they are while a scan or an import is under way.                        *)
(***************************************************************************)
EXTENDS Naturals, FiniteSets, FiniteSetsExt

CONSTANTS Bundles, NoFiles,                    \* what may be chosen, and nothing
          Oversized,                           \* the bundles over the limits
          Records, NoRecord,                   \* bundle -> the trips found in it
          Warned, Blocked,                     \* trips with warnings, and not importable
          BatchSize, MaxSteps

VARIABLE ui

Ids == UNION {Records[b] : b \in Bundles}
Status == {"none", "ready", "warning", "invalid", "existing", "imported"}
Importable(st) == {t \in Ids : st[t] \in {"ready", "warning"}}

(* What the server finds in a bundle, against the history it has.          *)
Preview(b, history) ==
    [t \in Ids |-> CASE t \notin Records[b] -> "none"
                     [] t \in Blocked -> "invalid"
                     [] t \in history -> "existing"
                     [] t \in Warned -> "warning"
                     [] OTHER -> "ready"]

Unknown == [t \in Ids |-> "none"]
NoMap == [ready |-> FALSE, status |-> Unknown, active |-> NoRecord]

TypeOK ==
    ui \in [ files : Bundles \cup {NoFiles}, analysis : Bundles \cup {NoFiles}, status : [Ids -> Status],
             sel : SUBSET Ids, active : Ids \cup {NoRecord},
             map : [ready : BOOLEAN, status : [Ids -> Status], active : Ids \cup {NoRecord}],
             locked : BOOLEAN, scanOff : BOOLEAN, commitOff : BOOLEAN, pickOff : BOOLEAN,
             scans : SUBSET [id : Nat, of : Bundles, at : {"server", "map"}],
             dialog : SUBSET Ids,
             imports : SUBSET [id : Nat, ids : SUBSET Ids, left : SUBSET Ids, batch : SUBSET Ids,
                               under : Bundles, files : Bundles \cup {NoFiles}, print : Bundles],
             progress : 0..Cardinality(Ids), complete : SUBSET Ids, history : SUBSET Ids,
             unlocked : BOOLEAN, left : BOOLEAN, steps : 0..MaxSteps ]

User == ~ui.left /\ ui.dialog = {} /\ ui.steps < MaxSteps
Acted(u) == [u EXCEPT !.steps = @ + 1]

-----------------------------------------------------------------------------
(* The files and the lock.                                                 *)
UploadWithinLimits(u) == u.files # NoFiles /\ u.files \notin Oversized

ResetReview(u) ==
    [u EXCEPT !.analysis = NoFiles, !.status = Unknown, !.sel = {}, !.active = NoRecord,
              !.complete = {}, !.progress = 0, !.map = NoMap]

ChooseFiles(b) ==
    /\ User /\ ~ui.locked
    /\ LET u == ResetReview([ui EXCEPT !.files = b]) IN ui' = Acted([u EXCEPT !.scanOff = ~UploadWithinLimits(u)])

ClearFiles ==
    /\ User /\ ~ui.locked /\ ui.files # NoFiles
    /\ ui' = Acted(ResetReview([ui EXCEPT !.files = NoFiles, !.scanOff = TRUE]))

(* What holds the lock is under way besides.                               *)
Busy(u) == u.scans # {} \/ u.imports # {}
SetUploadLocked(u, on) == [u EXCEPT !.locked = on, !.unlocked = @ \/ (~on /\ Busy(u))]

SetImporting(v, on) ==
    LET u == SetUploadLocked(v, on)
    IN  [u EXCEPT !.scanOff = on, !.pickOff = on, !.commitOff = on \/ u.sel = {}]

RenderSelection(u) == [u EXCEPT !.commitOff = (u.sel = {})]

-----------------------------------------------------------------------------
(* The map is told of the records and of the one in focus once it is up.   *)
SetActiveMapRoute(u) == IF u.map.ready THEN [u EXCEPT !.map.active = u.active] ELSE u
UpdateMapData(u) == IF u.map.ready THEN SetActiveMapRoute([u EXCEPT !.map.status = u.status]) ELSE u

FocusRecord(t) ==
    /\ User /\ ui.analysis # NoFiles /\ t \in Records[ui.analysis] /\ t # ui.active
    /\ ui' = Acted(SetActiveMapRoute([ui EXCEPT !.active = t]))

-----------------------------------------------------------------------------

ScanFiles ==
    /\ User /\ ui.files # NoFiles /\ ~ui.scanOff
    /\ ui' = Acted(SetUploadLocked([ui EXCEPT !.scanOff = TRUE,
                        !.scans = @ \cup {[id |-> ui.steps, of |-> ui.files, at |-> "server"]}], TRUE))

ScanEnds(v, s) ==
    LET u == SetUploadLocked([v EXCEPT !.scans = @ \ {s}], FALSE)
    IN  [u EXCEPT !.scanOff = ~UploadWithinLimits(u)]

RenderReview(u) == RenderSelection([u EXCEPT !.active = CHOOSE t \in Records[u.analysis] : TRUE])

(* The scan is shown; then the map is made, with another wait.             *)
ScanArrives(s) ==
    /\ s.at = "server" /\ ~ui.left
    /\ LET found == Preview(s.of, ui.history)
       IN  ui' = RenderReview([ui EXCEPT !.analysis = s.of, !.status = found, !.complete = {},
                                         !.sel = {t \in Ids : found[t] = "ready"}, !.map = NoMap,
                                         !.scans = (@ \ {s}) \cup {[s EXCEPT !.at = "map"]}])

InitializeMap(s) ==
    /\ s.at = "map" /\ ~ui.left
    /\ ui' = ScanEnds([ui EXCEPT !.map = [ready |-> TRUE, status |-> ui.status, active |-> ui.active]], s)

ScanFails(s) ==
    /\ ~ui.left
    /\ ui' = ScanEnds(IF s.at = "map" THEN [ui EXCEPT !.map = NoMap] ELSE ui, s)

Toggle(t) ==
    /\ User /\ t \in Importable(ui.status)
    /\ ui' = Acted(RenderSelection([ui EXCEPT !.sel = IF t \in @ THEN @ \ {t} ELSE @ \cup {t}]))

SelectAll ==
    /\ User /\ ui.analysis # NoFiles /\ ~ui.pickOff /\ ui.sel # Importable(ui.status)
    /\ ui' = Acted(RenderSelection([ui EXCEPT !.sel = Importable(ui.status)]))

-----------------------------------------------------------------------------
(* The batches, one after the other; each sends the files again.           *)
CommitImport ==
    /\ User /\ ui.analysis # NoFiles /\ ui.sel # {} /\ ~ui.commitOff
    /\ ui' = Acted([ui EXCEPT !.dialog = ui.sel])

Batches(left) == kSubset(Min({BatchSize, Cardinality(left)}), left)

Decline == ui.dialog # {} /\ ~ui.left /\ ui' = [ui EXCEPT !.dialog = {}]

Confirm ==
    /\ ui.dialog # {} /\ ~ui.left
    /\ \E b \in Batches(ui.dialog) :
         ui' = SetImporting([ui EXCEPT !.dialog = {}, !.complete = {}, !.progress = 0,
                   !.imports = @ \cup {[id |-> ui.steps, ids |-> ui.dialog, left |-> ui.dialog, batch |-> b,
                                        under |-> ui.analysis, files |-> ui.files, print |-> ui.analysis]}], TRUE)

MarkCompleted(v, ids) ==
    LET u == IF v.analysis = NoFiles THEN v
             ELSE [v EXCEPT !.status = [t \in Ids |-> IF t \in ids /\ @[t] # "none" THEN "imported" ELSE @[t]],
                            !.sel = @ \ {t \in ids : v.status[t] # "none"}]
    IN  UpdateMapData(RenderSelection(u))

ImportEnds(v, i) == SetImporting([v EXCEPT !.imports = @ \ {i}], FALSE)

(* The loop goes on with the next batch, under the review and with the     *)
(* files of now; without a review it fails.                                *)
NextBatch(v, i, left) ==
    IF left = {} THEN {ImportEnds([v EXCEPT !.complete = i.ids], i)}
    ELSE IF v.analysis = NoFiles THEN {ImportEnds(v, i)}
    ELSE {[v EXCEPT !.imports = (@ \ {i}) \cup {[i EXCEPT !.left = left, !.batch = b, !.files = v.files, !.print = v.analysis]}] :
              b \in Batches(left)}

(* Mutant: trips that failed are passed over.                              *)
BatchFailuresIgnored(i, done) ==
    /\ ~ui.left /\ done \subseteq i.batch /\ i.files = i.print
    /\ LET u == MarkCompleted([ui EXCEPT !.history = @ \cup done, !.progress = Min({@ + Cardinality(done), Cardinality(Ids)})], done)
       IN  ui' \in NextBatch(u, i, i.left \ i.batch)

(* The server commits what it can, and says what it could not.             *)
BatchCommitted(i, done) ==
    /\ ~ui.left /\ done \subseteq i.batch /\ i.files = i.print
    /\ LET u == MarkCompleted([ui EXCEPT !.history = @ \cup done, !.progress = Min({@ + Cardinality(done), Cardinality(Ids)})], done)
       IN  ui' \in IF done # i.batch THEN {ImportEnds(u, i)} ELSE NextBatch(u, i, i.left \ i.batch)

(* The batch fails, or its answer is lost after the server committed it.   *)
BatchFails(i) ==
    /\ ~ui.left
    /\ \E kept \in {{}, i.batch} : ui' = ImportEnds([ui EXCEPT !.history = @ \cup (IF i.files = i.print THEN kept ELSE {})], i)

Leave ==
    /\ ~ui.left
    /\ ui' = [ResetReview(ui) EXCEPT !.left = TRUE, !.files = NoFiles, !.locked = FALSE, !.scans = {}, !.imports = {}, !.dialog = {}]

Init ==
    ui = [ files |-> NoFiles, analysis |-> NoFiles, status |-> Unknown, sel |-> {}, active |-> NoRecord, map |-> NoMap,
           locked |-> FALSE, scanOff |-> TRUE, commitOff |-> TRUE, pickOff |-> FALSE, scans |-> {}, dialog |-> {},
           imports |-> {}, progress |-> 0, complete |-> {}, history |-> {}, unlocked |-> FALSE,
           left |-> FALSE, steps |-> 0 ]

Next ==
    \/ \E b \in Bundles : ChooseFiles(b)
    \/ ClearFiles \/ ScanFiles \/ SelectAll \/ CommitImport \/ Confirm \/ Decline \/ Leave
    \/ \E t \in Ids : FocusRecord(t) \/ Toggle(t)
    \/ \E s \in ui.scans : ScanArrives(s) \/ InitializeMap(s) \/ ScanFails(s)
    \/ \E i \in ui.imports : BatchFails(i) \/ \E done \in SUBSET i.batch : BatchCommitted(i, done)

Spec == Init /\ [][Next]_ui

-----------------------------------------------------------------------------
(* Nobody changes the files or the review under an import: the files, the  *)
(* review and the trips of every batch are those the import was confirmed  *)
(* for. The lock can be let go too early - a scan that still makes its map *)
(* ends during the import, or one of two imports does (index.js:846,1007)  *)
(* - and after that nothing is promised.                                   *)
ImportOfItsReview ==
    /\ Busy(ui) => ui.locked \/ ui.unlocked
    /\ \A i \in ui.imports :
         ui.unlocked \/ (i.files = i.under /\ i.print = i.under /\ i.ids \subseteq Records[i.under])

(* What is marked imported is in the history, what is selected can still   *)
(* be imported, and the page says an import is complete only when every    *)
(* trip of it is in the history.                                           *)
ImportedIsInHistory ==
    /\ \A t \in Ids : ui.status[t] = "imported" => t \in ui.history
    /\ ui.sel \subseteq Importable(ui.status)
    /\ ui.complete \subseteq ui.history

(* The map of the routes, once made, shows the records as the table does   *)
(* and the one in focus.                                                   *)
RoutesAsTable == ui.map.ready => ui.map.status = ui.status /\ ui.map.active = ui.active

=============================================================================
