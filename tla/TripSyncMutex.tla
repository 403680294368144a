--------------------------- MODULE TripSyncMutex ---------------------------
(***************************************************************************)
(* The life of a trip-ingest job: enqueue_task, run_task_with_history and  *)
(* the Redis mutex locks:trip_sync_ingest (tasks/ops.py), the user's       *)
(* cancel_sync and the self-healing of stale rows                          *)
(* (trips/services/trip_sync_service.py), the stop endpoint (tasks/api.py) *)
(* and the ARQ queue as far as that code relies on it.                     *)
(*                                                                         *)
(* One step is one awaited call, so everything that runs between two       *)
(* awaits of a coroutine is atomic and everything else interleaves: a web  *)
(* request, the worker's coroutines and Redis key expiry all act on the    *)
(* same TaskHistory rows and the same key.                                 *)
(***************************************************************************)
EXTENDS Naturals, FiniteSets

CONSTANTS
    Jobs,      \* ARQ job ids, all of tasks in _TRIP_SYNC_MUTEX_TASK_IDS
    MaxTries,  \* ARQ's max_tries: how often a job that is replayed is started
    Env,       \* which disturbances the environment may cause (a subset of Disturbances)
    NoToken    \* the mutex key is absent in Redis

Disturbances ==
    { "timeout",   \* a job exceeds its ARQ timeout
      "shutdown",  \* the worker restarts and cancels its coroutines; ARQ replays them
      "crash",     \* the worker dies without unwinding; ARQ replays its jobs
      "cancel",    \* the user cancels or stops a job
      "failopen",  \* the SET that acquires the lock raises
      "redis",     \* any other Redis call of the lock code raises
      "ttl",       \* the key expires although its holder still runs
      "stale",     \* a row grows older than its threshold although its job lives
      "clear",     \* the task history is deleted
      "lookup",    \* reading a row of the task history raises
      "write",     \* update_task_history_entry fails: it logs the error and returns
      "overrun" }  \* history retries may run longer than the TTL of their own lock

ASSUME JobsAssumption == NoToken \notin (Jobs \X Nat)
ASSUME TriesAssumption == MaxTries \in Nat \ {0}
ASSUME EnvAssumption == Env \subseteq Disturbances

VARIABLES
    hist,     \* TaskHistory.status of each job, "NONE" without a row
    enq,      \* where the coroutine that enqueues the job is
    cancel,   \* where the web request that cancels the job is
    stale,    \* rows a _clear_stale_sync_entries pass has read and judged stale
    arq,      \* ARQ's view of the job
    abort,    \* jobs with an abort marker in ARQ's abort set
    tries,    \* executions started; <<job, try>> stands for the lock token
    pc,       \* where the worker's coroutine for the job is
    replay,   \* the coroutine was cancelled by a worker restart
    held,     \* lock_handle is not None
    seen,     \* the holder that redis.get returned to this coroutine
    lock      \* value of the key locks:trip_sync_ingest

webVars  == <<enq, cancel, stale>>
arqVars  == <<arq, abort, tries>>
jobVars  == <<pc, replay, held, seen>>
vars     == <<hist, webVars, arqVars, jobVars, lock>>

Active   == {"PENDING", "RUNNING"}
Terminal == {"COMPLETED", "FAILED", "CANCELLED"}

Tokens   == Jobs \X (1..MaxTries)

(* Mutant: nothing in the token tells two executions of a job apart.       *)
TokenWithoutNonce(j) == <<j, 0>>

(* f"{job_id}:{uuid4()}", a fresh one for every execution.                 *)
Token(j) == <<j, tries[j]>>

(* The awaits of run_task_with_history, in program order.                  *)
Steps == { "idle", "check", "cleanup", "cleanup_del",
           "acquire", "inspect", "judge", "steal", "reacquire", "skip",
           "mark_running", "func", "mark_cancelled", "mark_failed",
           "release_raise", "release_ok", "mark_completed" }

TypeOK ==
    /\ hist   \in [Jobs -> Active \cup Terminal \cup {"NONE"}]
    /\ enq    \in [Jobs -> {"idle", "submitted", "done"}]
    /\ cancel \in [Jobs -> {"idle", "marked", "aborting"}]
    /\ stale  \in SUBSET Jobs
    /\ arq    \in [Jobs -> {"not_found", "queued", "in_progress", "complete"}]
    /\ abort  \in SUBSET Jobs
    /\ tries  \in [Jobs -> 0..MaxTries]
    /\ pc     \in [Jobs -> Steps]
    /\ replay \in [Jobs -> BOOLEAN]
    /\ held   \in [Jobs -> BOOLEAN]
    /\ seen   \in [Jobs -> Tokens \cup {NoToken}]
    /\ lock   \in Tokens \cup {NoToken}

Init ==
    /\ hist   = [j \in Jobs |-> "NONE"]
    /\ enq    = [j \in Jobs |-> "idle"]
    /\ cancel = [j \in Jobs |-> "idle"]
    /\ stale  = {}
    /\ arq    = [j \in Jobs |-> "not_found"]
    /\ abort  = {}
    /\ tries  = [j \in Jobs |-> 0]
    /\ pc     = [j \in Jobs |-> "idle"]
    /\ replay = [j \in Jobs |-> FALSE]
    /\ held   = [j \in Jobs |-> FALSE]
    /\ seen   = [j \in Jobs |-> NoToken]
    /\ lock   = NoToken

Goto(j, step) == pc' = [pc EXCEPT ![j] = step]

(* update_task_history_entry: the caller never learns of a failed write.   *)
Record(j, status) ==
    \/ hist' = [hist EXCEPT ![j] = status]
    \/ "write" \in Env /\ UNCHANGED hist

-----------------------------------------------------------------------------
(* Enqueueing.                                                             *)

(* enqueue_task hands the job to ARQ before it writes any history, so a    *)
(* worker may already run it.                                              *)
EnqueueJob(j) ==
    /\ arq[j] = "not_found"
    /\ arq' = [arq EXCEPT ![j] = "queued"]
    /\ enq' = [enq EXCEPT ![j] = "submitted"]
    /\ UNCHANGED <<hist, cancel, stale, abort, tries, jobVars, lock>>

(* The second half of enqueue_task overwrites whatever status is there.    *)
RecordPending(j) ==
    /\ enq[j] = "submitted"
    /\ enq' = [enq EXCEPT ![j] = "done"]
    /\ Record(j, "PENDING")
    /\ UNCHANGED <<cancel, stale, arqVars, jobVars, lock>>

(* A cron job reaches the worker without enqueue_task: no PENDING row.     *)
CronFires(j) ==
    /\ arq[j] = "not_found"
    /\ arq' = [arq EXCEPT ![j] = "queued"]
    /\ enq' = [enq EXCEPT ![j] = "done"]
    /\ UNCHANGED <<hist, cancel, stale, abort, tries, jobVars, lock>>

-----------------------------------------------------------------------------
(* ARQ picks up a queued job. An abort marker, or max_tries, finishes it   *)
(* before the coroutine is created.                                        *)
StartJob(j) ==
    /\ arq[j] = "queued"
    /\ IF j \in abort \/ tries[j] = MaxTries
       THEN /\ arq' = [arq EXCEPT ![j] = "complete"]
            /\ abort' = abort \ {j}
            /\ UNCHANGED <<tries, pc>>
       ELSE /\ arq' = [arq EXCEPT ![j] = "in_progress"]
            /\ tries' = [tries EXCEPT ![j] = @ + 1]
            /\ Goto(j, "check")
            /\ UNCHANGED abort
    /\ UNCHANGED <<hist, webVars, replay, held, seen, lock>>

(* The coroutine is over: ARQ drops the job or, after a restart, keeps it. *)
Finish(j, again) ==
    /\ Goto(j, "idle")
    /\ arq' = [arq EXCEPT ![j] = IF again THEN "queued" ELSE "complete"]
    /\ replay' = [replay EXCEPT ![j] = FALSE]
    /\ held' = [held EXCEPT ![j] = FALSE]
    /\ seen' = [seen EXCEPT ![j] = NoToken]
    /\ UNCHANGED tries

(* A live execution of this token; its TTL outlasts its job timeout.       *)
Executing(t) == pc[t[1]] # "idle" /\ tries[t[1]] = t[2]

-----------------------------------------------------------------------------
(* run_task_with_history.                                                  *)

(* Mutant: the replay does not look at its history row.                    *)
CheckNothing(j) ==
    /\ pc[j] = "check"
    /\ Goto(j, "acquire")
    /\ UNCHANGED <<hist, webVars, arqVars, replay, held, seen, lock>>

(* _task_was_cancelled: a durable cancellation ends the replay; a row that *)
(* cannot be read counts as not cancelled.                                 *)
CheckCancelled(j) ==
    /\ pc[j] = "check"
    /\ \/ Goto(j, IF hist[j] = "CANCELLED" THEN "cleanup" ELSE "acquire")
       \/ "lookup" \in Env /\ Goto(j, "acquire")
    /\ UNCHANGED <<hist, webVars, arqVars, replay, held, seen, lock>>

(* _cleanup_pre_cancelled_task: the key is deleted only if its token names *)
(* this job, whichever try wrote it.                                       *)
CleanupGet(j) ==
    /\ pc[j] = "cleanup"
    /\ IF lock # NoToken /\ lock[1] = j
       THEN /\ seen' = [seen EXCEPT ![j] = lock]
            /\ Goto(j, "cleanup_del")
            /\ UNCHANGED <<arq, tries, replay, held>>
       ELSE Finish(j, FALSE)
    /\ UNCHANGED <<hist, webVars, abort, lock>>

(* Mutant: a plain DEL.                                                    *)
DeleteAlways(t) == lock' = NoToken

(* _TRIP_SYNC_LOCK_RELEASE_SCRIPT: delete the key if it still holds t.     *)
CompareAndDelete(t) == lock' = IF lock = t THEN NoToken ELSE lock

CleanupDelete(j) ==
    /\ pc[j] = "cleanup_del"
    /\ CompareAndDelete(seen[j])
    /\ Finish(j, FALSE)
    /\ UNCHANGED <<hist, webVars, abort>>

(* SET key token NX: the winner goes on, the loser to step `else`.         *)
SetNX(j, else) ==
    IF lock = NoToken
    THEN /\ lock' = Token(j)
         /\ held' = [held EXCEPT ![j] = TRUE]
         /\ Goto(j, "mark_running")
    ELSE /\ Goto(j, else)
         /\ UNCHANGED <<lock, held>>

Acquire(j) ==
    /\ pc[j] = "acquire"
    /\ SetNX(j, "inspect")
    /\ UNCHANGED <<hist, webVars, arqVars, replay, seen>>

(* A key gone since the SET leaves the holder "unknown": still a skip.     *)
InspectHolder(j) ==
    /\ pc[j] = "inspect"
    /\ seen' = [seen EXCEPT ![j] = lock]
    /\ Goto(j, IF lock = NoToken THEN "skip" ELSE "judge")
    /\ UNCHANGED <<hist, webVars, arqVars, replay, held, lock>>

(* Mutant: anything but RUNNING counts as abandoned, a missing row too.    *)
NotRunning(t) == hist[t[1]] # "RUNNING"

(* _is_abandoned_trip_sync_lock_holder: only the history row is consulted. *)
Abandoned(t) == hist[t[1]] \in Terminal

(* A holder whose row cannot be read is left alone.                        *)
JudgeHolder(j) ==
    /\ pc[j] = "judge"
    /\ \/ Goto(j, IF Abandoned(seen[j]) THEN "steal" ELSE "skip")
       \/ "lookup" \in Env /\ Goto(j, "skip")
    /\ UNCHANGED <<hist, webVars, arqVars, replay, held, seen, lock>>

(* Mutant: the recovered key is overwritten without a second look at it.   *)
StealBlindly(j) ==
    /\ pc[j] = "steal"
    /\ lock' = NoToken
    /\ Goto(j, "reacquire")
    /\ UNCHANGED <<hist, webVars, arqVars, replay, held, seen>>

(* _release_abandoned_trip_sync_lock.                                      *)
StealLock(j) ==
    /\ pc[j] = "steal"
    /\ CompareAndDelete(seen[j])
    /\ Goto(j, IF lock = seen[j] THEN "reacquire" ELSE "skip")
    /\ UNCHANGED <<hist, webVars, arqVars, replay, held, seen>>

Reacquire(j) ==
    /\ pc[j] = "reacquire"
    /\ SetNX(j, "skip")
    /\ UNCHANGED <<hist, webVars, arqVars, replay, seen>>

(* A blocked job is recorded COMPLETED with a "skipped" result.            *)
SkipJob(j) ==
    /\ pc[j] = "skip"
    /\ Record(j, "COMPLETED")
    /\ Finish(j, FALSE)
    /\ UNCHANGED <<webVars, abort, lock>>

MarkRunning(j) ==
    /\ pc[j] = "mark_running"
    /\ Record(j, "RUNNING")
    /\ Goto(j, "func")
    /\ UNCHANGED <<webVars, arqVars, replay, held, seen, lock>>

FuncEnds(j, step) ==
    /\ pc[j] = "func"
    /\ Goto(j, step)
    /\ UNCHANGED <<hist, webVars, arqVars, replay, held, seen, lock>>

FuncReturns(j) == FuncEnds(j, "release_ok")
FuncRaises(j)  == FuncEnds(j, "mark_failed")

(* The two except-branches record, then `finally` releases.                *)
MarkStopped(j, step, status) ==
    /\ pc[j] = step
    /\ Record(j, status)
    /\ Goto(j, "release_raise")
    /\ UNCHANGED <<webVars, arqVars, replay, held, seen, lock>>

MarkCancelled(j) == MarkStopped(j, "mark_cancelled", "CANCELLED")
MarkFailed(j)    == MarkStopped(j, "mark_failed", "FAILED")

(* _release_trip_sync_lock, with lock_handle None nothing is sent.         *)
ReleaseLock(j) == IF held[j] THEN CompareAndDelete(Token(j)) ELSE UNCHANGED lock

ReleaseAndRaise(j) ==
    /\ pc[j] = "release_raise"
    /\ ReleaseLock(j)
    /\ Finish(j, replay[j])
    /\ UNCHANGED <<hist, webVars, abort>>

(* On success the lock is released before COMPLETED is recorded.           *)
ReleaseAndReturn(j) ==
    /\ pc[j] = "release_ok"
    /\ ReleaseLock(j)
    /\ Goto(j, "mark_completed")
    /\ UNCHANGED <<hist, webVars, arqVars, replay, held, seen>>

MarkCompleted(j) ==
    /\ pc[j] = "mark_completed"
    /\ Record(j, "COMPLETED")
    /\ Finish(j, FALSE)
    /\ UNCHANGED <<webVars, abort, lock>>

RunTask(j) ==
    \/ CheckCancelled(j) \/ CleanupGet(j) \/ CleanupDelete(j)
    \/ Acquire(j) \/ InspectHolder(j) \/ JudgeHolder(j) \/ StealLock(j)
    \/ Reacquire(j) \/ SkipJob(j) \/ MarkRunning(j)
    \/ FuncReturns(j) \/ FuncRaises(j) \/ MarkCancelled(j) \/ MarkFailed(j)
    \/ ReleaseAndRaise(j) \/ ReleaseAndReturn(j) \/ MarkCompleted(j)

-----------------------------------------------------------------------------
(* Exceptions of the environment.                                          *)

(* The SET was executed by Redis but its reply never reached the caller.   *)
SetReplyLost(j) ==
    /\ pc[j] \in {"acquire", "reacquire"}
    /\ lock = NoToken
    /\ lock' = Token(j)

(* What the lock code does when Redis raises: acquiring fails open, a      *)
(* failed look-up or recovery means skip, a failed release is only logged. *)
AfterRedisError ==
    [ acquire |-> "mark_running", inspect |-> "skip", steal |-> "skip",
      reacquire |-> "skip", release_ok |-> "mark_completed" ]

RedisRaises(j) ==
    /\ (IF pc[j] = "acquire" THEN "failopen" ELSE "redis") \in Env
    /\ \/ /\ pc[j] \in DOMAIN AfterRedisError
          /\ Goto(j, AfterRedisError[pc[j]])
          /\ UNCHANGED <<arq, tries, replay, held, seen>>
       \/ /\ pc[j] \in {"cleanup", "cleanup_del", "release_raise"}
          /\ Finish(j, replay[j])
    /\ SetReplyLost(j) \/ UNCHANGED lock
    /\ UNCHANGED <<hist, webVars, abort>>

(* asyncio.CancelledError reaches the coroutine. Inside the try-block the  *)
(* job records CANCELLED and releases; inside an except-branch only the    *)
(* finally is left; anywhere else nothing at all is undone.                *)
Interrupted(j, again) ==
    \/ /\ pc[j] \in {"mark_running", "func"}
       /\ Goto(j, "mark_cancelled")
       /\ replay' = [replay EXCEPT ![j] = again]
       /\ UNCHANGED <<arq, tries, held, seen, lock>>
    \/ /\ pc[j] \in {"mark_cancelled", "mark_failed"}
       /\ Goto(j, "release_raise")
       /\ replay' = [replay EXCEPT ![j] = again]
       /\ UNCHANGED <<arq, tries, held, seen, lock>>
    \/ /\ pc[j] \notin {"idle", "mark_running", "func", "mark_cancelled", "mark_failed"}
       /\ Finish(j, again)
       /\ SetReplyLost(j) \/ UNCHANGED lock

(* The worker polls the abort set and cancels the matching coroutine.      *)
AbortDelivered(j) ==
    /\ j \in abort
    /\ abort' = abort \ {j}
    /\ Interrupted(j, FALSE)
    /\ UNCHANGED <<hist, webVars>>

JobTimesOut(j) ==
    /\ "timeout" \in Env
    /\ Interrupted(j, FALSE)
    /\ UNCHANGED <<hist, webVars, abort>>

WorkerRestarts(j) ==
    /\ "shutdown" \in Env
    /\ Interrupted(j, TRUE)
    /\ UNCHANGED <<hist, webVars, abort>>

(* The process dies: every coroutine vanishes where it stands.             *)
WorkerCrashes ==
    LET dead == {j \in Jobs : pc[j] # "idle"} IN
    /\ "crash" \in Env
    /\ dead # {}
    /\ pc'     = [j \in Jobs |-> "idle"]
    /\ arq'    = [j \in Jobs |-> IF j \in dead THEN "queued" ELSE arq[j]]
    /\ replay' = [j \in Jobs |-> FALSE]
    /\ held'   = [j \in Jobs |-> FALSE]
    /\ seen'   = [j \in Jobs |-> NoToken]
    /\ UNCHANGED <<hist, webVars, abort, tries, lock>>

LockExpires ==
    /\ lock # NoToken
    /\ "ttl" \in Env \/ ~Executing(lock)
    /\ lock' = NoToken
    /\ UNCHANGED <<hist, webVars, arqVars, jobVars>>

-----------------------------------------------------------------------------
(* Web requests.                                                           *)

(* cancel_sync records CANCELLED first ...                                 *)
CancelSync(j) ==
    /\ "cancel" \in Env
    /\ cancel[j] = "idle"
    /\ hist[j] # "NONE"
    /\ cancel' = [cancel EXCEPT ![j] = "marked"]
    /\ Record(j, "CANCELLED")
    /\ UNCHANGED <<enq, stale, arqVars, jobVars, lock>>

(* abort_job: a job ARQ no longer has needs no marker; when Redis raises   *)
(* the request goes on without one.                                        *)
RequestAbort(j) ==
    \/ /\ abort' = IF arq[j] \in {"queued", "in_progress"} THEN abort \cup {j} ELSE abort
       /\ UNCHANGED <<arq, tries>>
    \/ /\ "redis" \in Env
       /\ UNCHANGED arqVars

(* ... and then asks ARQ to abort, without requiring an acknowledgement.   *)
CancelSyncAborts(j) ==
    /\ cancel[j] = "marked"
    /\ cancel' = [cancel EXCEPT ![j] = "idle"]
    /\ RequestAbort(j)
    /\ UNCHANGED <<hist, enq, stale, jobVars, lock>>

(* _stop_task_instances works the other way round: abort, then record.     *)
StopTask(j) ==
    /\ "cancel" \in Env
    /\ cancel[j] = "idle"
    /\ hist[j] \in Active
    /\ cancel' = [cancel EXCEPT ![j] = "aborting"]
    /\ RequestAbort(j)
    /\ UNCHANGED <<hist, enq, stale, jobVars, lock>>

StopTaskRecords(j) ==
    /\ cancel[j] = "aborting"
    /\ cancel' = [cancel EXCEPT ![j] = "idle"]
    /\ Record(j, "CANCELLED")
    /\ UNCHANGED <<enq, stale, arqVars, jobVars, lock>>

(* Mutant: rows still PENDING are not considered.                          *)
StaleRunningOnly(j) ==
    /\ hist[j] = "RUNNING"
    /\ "stale" \in Env \/ arq[j] \in {"not_found", "complete"}

(* A row is stale when it is older than its threshold; without the "stale" *)
(* disturbance only rows whose job ARQ no longer has grow that old.        *)
GrownStale(j) ==
    /\ hist[j] \in Active
    /\ "stale" \in Env \/ arq[j] \in {"not_found", "complete"}

(* _clear_stale_sync_entries reads its candidates in one query ...         *)
ScanStale ==
    /\ stale = {}
    /\ stale' = {j \in Jobs : GrownStale(j)}
    /\ stale' # {}
    /\ UNCHANGED <<hist, enq, cancel, arqVars, jobVars, lock>>

(* ... and overwrites them one by one, whatever they have become.          *)
FailStale(j) ==
    /\ j \in stale
    /\ stale' = stale \ {j}
    /\ Record(j, "FAILED")
    /\ UNCHANGED <<enq, cancel, arqVars, jobVars, lock>>

ClearHistory ==
    /\ "clear" \in Env
    /\ hist' = [j \in Jobs |-> "NONE"]
    /\ UNCHANGED <<webVars, arqVars, jobVars, lock>>

Enqueueing(j)  == EnqueueJob(j) \/ RecordPending(j) \/ CronFires(j)
Disturbing(j)  == RedisRaises(j) \/ AbortDelivered(j) \/ JobTimesOut(j) \/ WorkerRestarts(j)
WebRequests(j) == \/ CancelSync(j) \/ CancelSyncAborts(j)
                  \/ StopTask(j) \/ StopTaskRecords(j) \/ FailStale(j)

Next ==
    \/ \E j \in Jobs : \/ Enqueueing(j) \/ StartJob(j) \/ RunTask(j)
                       \/ Disturbing(j) \/ WebRequests(j)
    \/ WorkerCrashes
    \/ LockExpires
    \/ ScanStale
    \/ ClearHistory

Spec == Init /\ [][Next]_vars

(* The worker keeps running, func ends (every job has a timeout), requests *)
(* are served to their end, the status page keeps polling, and a write     *)
(* that is tried again and again does not fail every time.                 *)
Fairness ==
    /\ \A j \in Jobs : /\ WF_vars(StartJob(j))
                       /\ WF_vars(RunTask(j))
                       /\ WF_vars(RecordPending(j))
                       /\ WF_vars(CancelSyncAborts(j) \/ StopTaskRecords(j))
                       /\ WF_vars(FailStale(j))
                       /\ SF_vars(FailStale(j) /\ hist'[j] = "FAILED")
    /\ WF_vars(ScanStale)

FairSpec == Spec /\ Fairness
-----------------------------------------------------------------------------
(* Properties.                                                             *)

(* func is the ingest itself; the mutex exists so that no two overlap.     *)
Ingesting(j) == pc[j] = "func"

(* "Try to acquire a cross-task trip-ingest mutex" (_acquire_trip_sync_lock): *)
(* no two trip-ingest jobs execute func at the same time.                  *)
MutualExclusion ==
    \A j, k \in Jobs : Ingesting(j) /\ Ingesting(k) => j = k

(* The same with worker crashes and restarts: an overlap always involves a *)
(* job that ARQ replays, whose history row still shows how the earlier     *)
(* execution ended.                                                        *)
OverlapNeedsReplay ==
    \A j, k \in Jobs :
        Ingesting(j) /\ Ingesting(k) /\ j # k => tries[j] > 1 \/ tries[k] > 1

(* Compare-and-delete: the key is only ever freed by the execution whose   *)
(* token it holds, by a replay of that job, by a job that read exactly     *)
(* this token and went on to recover it, or by Redis expiry; it never      *)
(* passes from one token to another in one step.                           *)
OwnerOrRecoverer ==
    [][ lock # NoToken /\ lock' # lock =>
          /\ lock' = NoToken
          /\ \/ LockExpires
             \/ \E j \in Jobs :
                   /\ pc'[j] # pc[j]
                   /\ \/ held[j] /\ lock = Token(j)
                      \/ pc[j] \in {"steal", "cleanup_del"} /\ lock = seen[j] ]_vars

(* A job cancelled while no coroutine of it is past the cancellation check *)
(* and no enqueue_task of it is still about to write PENDING.              *)
CancelledForGood(j) ==
    /\ hist[j] = "CANCELLED"
    /\ enq[j] = "done"
    /\ j \notin stale
    /\ pc[j] \in {"idle", "check", "cleanup", "cleanup_del"}

(* _task_was_cancelled answers "no" because its look-up raised.            *)
RowUnread(j) == "lookup" \in Env /\ pc[j] = "check" /\ pc'[j] = "acquire"

(* "an explicitly cancelled job can never revive" (run_task_with_history), *)
(* in the form that holds: once such a cancellation is recorded no later   *)
(* replay, crash, restart, failed write or lock recovery brings the job    *)
(* back, as long as the history is not deleted; only a replay that cannot  *)
(* read its row goes on.                                                   *)
CancellationWinsOnReplay ==
    [][ \A j \in Jobs : CancelledForGood(j) => CancelledForGood(j)' \/ RowUnread(j) ]_vars

(* The comment as it stands: "A durable cancellation in TaskHistory must   *)
(* win". No step of the job's own run replaces CANCELLED.                  *)
(* Does not hold: RUNNING, or a late PENDING, overwrites it.               *)
DurableCancellationWins ==
    [][ \A j \in Jobs : hist[j] = "CANCELLED" => hist'[j] = "CANCELLED" ]_vars

(* The reason a blocked job is given: "Skipped trip sync task because      *)
(* another trip-ingest job is running". A job never blocks itself.         *)
(* Does not hold for a job replayed after a crash.                         *)
SkippedBecauseOfAnother ==
    \A j \in Jobs : pc[j] = "skip" /\ seen[j] # NoToken => seen[j][1] # j

(* _clear_stale_sync_entries: the UI is never "stuck in Syncing... forever": *)
(* every row that is PENDING or RUNNING leaves these two states.           *)
NeverStuckSyncing ==
    \A j \in Jobs : hist[j] \in Active ~> hist[j] \notin Active
=============================================================================
