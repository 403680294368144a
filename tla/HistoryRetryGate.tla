-------------------------- MODULE HistoryRetryGate --------------------------
(***************************************************************************)
(* retry_bouncie_history_windows (tasks/fetch.py) beside the trip-ingest   *)
(* jobs of TripSyncMutex: a cron job every ten seconds that has a lock of  *)
(* its own and only looks at the lock of the ingest jobs, which in turn    *)
(* never look at the retry lock.                                           *)
(***************************************************************************)
EXTENDS TripSyncMutex

CONSTANTS
    Retries,   \* executions of the cron job; their ids are their tokens
    NoRetry    \* the key locks:bouncie_history_retry is absent

ASSUME RetriesAssumption == NoRetry \notin Retries

VARIABLES
    rpc,    \* where each execution is
    rlock   \* value of the key locks:bouncie_history_retry

retryVars == <<rpc, rlock>>
gateVars  == <<vars, retryVars>>

RetrySteps == {"idle", "check", "set", "recheck", "run", "release", "done"}

GateTypeOK ==
    /\ TypeOK
    /\ rpc \in [Retries -> RetrySteps]
    /\ rlock \in Retries \cup {NoRetry}

GateInit ==
    /\ Init
    /\ rpc = [r \in Retries |-> "idle"]
    /\ rlock = NoRetry

RGoto(r, step) == rpc' = [rpc EXCEPT ![r] = step]

(* ARQ starts the cron job.                                                *)
CronStartsRetry(r) ==
    /\ rpc[r] = "idle"
    /\ RGoto(r, "check")
    /\ UNCHANGED rlock

(* EXISTS locks:trip_sync_ingest.                                          *)
CheckSync(r) ==
    /\ rpc[r] = "check"
    /\ RGoto(r, IF lock = NoToken THEN "set" ELSE "done")
    /\ UNCHANGED rlock

(* SET locks:bouncie_history_retry NX.                                     *)
AcquireRetry(r) ==
    /\ rpc[r] = "set"
    /\ IF rlock = NoRetry
       THEN rlock' = r /\ RGoto(r, "recheck")
       ELSE RGoto(r, "done") /\ UNCHANGED rlock

(* "Re-check after acquiring our own lock to narrow the race".             *)
RecheckSync(r) ==
    /\ rpc[r] = "recheck"
    /\ RGoto(r, IF lock = NoToken THEN "run" ELSE "release")
    /\ UNCHANGED rlock

(* run_due_retries returns or raises; a Redis error or the job timeout in  *)
(* the second look ends the try-block too.                                 *)
RetriesEnd(r) ==
    /\ rpc[r] = "run" \/ (rpc[r] = "recheck" /\ Env \cap {"redis", "timeout"} # {})
    /\ RGoto(r, "release")
    /\ UNCHANGED rlock

(* Mutant: the lock is deleted without comparing tokens.                   *)
ReleaseAnyRetry(r) ==
    /\ rpc[r] = "release"
    /\ rlock' = NoRetry
    /\ RGoto(r, "done")

ReleaseRetry(r) ==
    /\ rpc[r] = "release"
    /\ rlock' = IF rlock = r THEN NoRetry ELSE rlock
    /\ RGoto(r, "done")

(* A Redis error outside the try-block or in the finally, a cancellation   *)
(* there, or the worker's death: nothing is released.                      *)
RetryVanishes(r) ==
    /\ Env \cap {"crash", "redis"} # {}
    /\ rpc[r] \notin {"idle", "done"}
    /\ RGoto(r, "done")
    /\ UNCHANGED rlock

(* The TTL is fixed; the job timeout is as long unless the environment     *)
(* sets a longer one ("overrun"). "ttl" lets the key expire before the     *)
(* finally.                                                                *)
RetryLockExpires ==
    /\ rlock # NoRetry
    /\ \/ rpc[rlock] = "done"
       \/ "ttl" \in Env /\ rpc[rlock] = "release"
       \/ "overrun" \in Env /\ rpc[rlock] \in {"recheck", "run"}
    /\ rlock' = NoRetry
    /\ UNCHANGED rpc

RetryStep(r) ==
    \/ CronStartsRetry(r) \/ CheckSync(r) \/ AcquireRetry(r) \/ RecheckSync(r)
    \/ RetriesEnd(r) \/ ReleaseRetry(r) \/ RetryVanishes(r)

GateNext ==
    \/ Next /\ UNCHANGED retryVars
    \/ (\E r \in Retries : RetryStep(r)) /\ UNCHANGED vars
    \/ RetryLockExpires /\ UNCHANGED vars

GateSpec == GateInit /\ [][GateNext]_gateVars
-----------------------------------------------------------------------------

(* At most one execution is inside run_due_retries, although the cron job  *)
(* starts again while an earlier one still runs, dies or outlives its TTL  *)
(* on the way to the finally: as long as the job timeout is not set beyond *)
(* the TTL.                                                                *)
RetryExclusive ==
    \A r, s \in Retries : rpc[r] = "run" /\ rpc[s] = "run" => r = s

(* "Retry durable Bouncie history leaves without overlapping active syncs" *)
(* (retry_bouncie_history_windows): no trip-ingest job executes its func   *)
(* while the retries run.                                                  *)
(* Does not hold: a sync may start right after the second look.            *)
NoOverlapWithSync ==
    ~ \E r \in Retries, j \in Jobs : rpc[r] = "run" /\ Ingesting(j)
=============================================================================
