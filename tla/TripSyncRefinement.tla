------------------------- MODULE TripSyncRefinement -------------------------
(***************************************************************************)
(* TripSyncMutex implements IngestMutex when no job is replayed and the    *)
(* acquiring SET does not fail open (timeouts, deleted history and errors  *)
(* of the other Redis calls are allowed): the Redis key, the history rows  *)
(* and the recovery of abandoned locks together behave like one critical   *)
(* section that every job passes at most once.                             *)
(***************************************************************************)
EXTENDS TripSyncMutex

(* From the SET that wins until the outcome is recorded or the key is      *)
(* released, whichever comes first.                                        *)
Inside == {"mark_running", "func", "mark_cancelled", "mark_failed", "release_ok"}
Left   == {"release_raise", "mark_completed"}

Phase ==
    [ j \in Jobs |->
        IF arq[j] = "not_found" THEN "new"
        ELSE IF arq[j] = "complete" \/ pc[j] \in Left THEN "done"
        ELSE IF pc[j] \in Inside THEN "inside"
        ELSE "waiting" ]

Mutex == INSTANCE IngestMutex WITH phase <- Phase

(* Every behaviour of the jobs, seen through Phase, is one of IngestMutex. *)
ImplementsIngestMutex == Mutex!Spec
=============================================================================
