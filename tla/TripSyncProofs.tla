--------------------------- MODULE TripSyncProofs ---------------------------
(***************************************************************************)
(* Proofs about TripSyncMutex for every set of jobs, every MaxTries and,   *)
(* where a theorem says so, every choice of disturbances; about the        *)
(* HistoryRetryGate beside it; and about the CircuitBreaker that the       *)
(* services' clients are called through.                                   *)
(***************************************************************************)
EXTENDS TripSyncRefinement, HistoryRetryGate, CircuitBreaker, TLAPS

(* A coroutine exists only after ARQ has counted the try it belongs to.    *)
Started == \A j \in Jobs : pc[j] # "idle" => tries[j] >= 1

TypeInv == TypeOK /\ Started

LEMMA TypeInit == Init => TypeInv
  BY TriesAssumption DEF Init, TypeInv, TypeOK, Started, Steps, Active, Terminal

LEMMA TypeEnqueue ==
  ASSUME TypeInv, NEW j \in Jobs, Enqueueing(j) PROVE TypeInv'
  BY TriesAssumption
  DEF TypeInv, TypeOK, Started, Steps, Active, Terminal, Tokens, Enqueueing,
      EnqueueJob, RecordPending, CronFires, Record, arqVars, jobVars

LEMMA TypeStart ==
  ASSUME TypeInv, NEW j \in Jobs, StartJob(j) PROVE TypeInv'
  BY TriesAssumption
  DEF TypeInv, TypeOK, Started, Steps, Active, Terminal, Tokens, StartJob, Goto, webVars

(* The effect of a step that ends the coroutine.                           *)
LEMMA TypeFinish ==
  ASSUME TypeInv, NEW j \in Jobs, NEW again \in BOOLEAN, Finish(j, again)
  PROVE  /\ arq' \in [Jobs -> {"not_found", "queued", "in_progress", "complete"}]
         /\ tries' \in [Jobs -> 0..MaxTries]
         /\ pc' \in [Jobs -> Steps]
         /\ replay' \in [Jobs -> BOOLEAN]
         /\ held' \in [Jobs -> BOOLEAN]
         /\ seen' \in [Jobs -> Tokens \cup {NoToken}]
         /\ \A k \in Jobs : pc'[k] # "idle" => tries'[k] >= 1
  BY DEF TypeInv, TypeOK, Started, Finish, Goto, Steps

LEMMA TypeToken ==
  ASSUME TypeInv, NEW j \in Jobs, pc[j] # "idle" PROVE Token(j) \in Tokens
  BY TriesAssumption DEF TypeInv, TypeOK, Started, Token, Tokens

(* One await of run_task_with_history.                                     *)
LEMMA TypeRun ==
  ASSUME TypeInv, NEW j \in Jobs, RunTask(j) PROVE TypeInv'
<1> USE DEF Goto, Record, webVars, arqVars
<1>1. CASE CheckCancelled(j)
  BY <1>1 DEF TypeInv, TypeOK, Started, Steps, CheckCancelled
<1>2. CASE CleanupGet(j)
  <2>1. CASE lock # NoToken /\ lock[1] = j
    BY <1>2, <2>1 DEF TypeInv, TypeOK, Started, Steps, CleanupGet
  <2>2. CASE ~(lock # NoToken /\ lock[1] = j)
    BY <1>2, <2>2, TypeFinish DEF TypeInv, TypeOK, Started, CleanupGet
  <2> QED BY <2>1, <2>2
<1>3. CASE CleanupDelete(j)
  BY <1>3, TypeFinish DEF TypeInv, TypeOK, Started, CleanupDelete, CompareAndDelete
<1>4. CASE Acquire(j) \/ Reacquire(j)
  <2>1. Token(j) \in Tokens
    BY <1>4, TypeToken DEF Acquire, Reacquire
  <2>2. \/ pc' = [pc EXCEPT ![j] = "mark_running"]
        \/ pc' = [pc EXCEPT ![j] = "inspect"]
        \/ pc' = [pc EXCEPT ![j] = "skip"]
    BY <1>4 DEF Acquire, Reacquire, SetNX
  <2>3. pc' \in [Jobs -> Steps] /\ (\A k \in Jobs : pc'[k] # "idle" => tries[k] >= 1)
    BY <1>4, <2>2 DEF TypeInv, TypeOK, Started, Steps, Acquire, Reacquire
  <2>4. lock' \in Tokens \cup {NoToken} /\ held' \in [Jobs -> BOOLEAN]
    BY <1>4, <2>1 DEF TypeInv, TypeOK, Acquire, Reacquire, SetNX
  <2> QED
    BY <1>4, <2>3, <2>4 DEF TypeInv, TypeOK, Started, Acquire, Reacquire
<1>5. CASE InspectHolder(j) \/ JudgeHolder(j) \/ StealLock(j)
  BY <1>5 DEF TypeInv, TypeOK, Started, Steps, InspectHolder, JudgeHolder, StealLock,
              CompareAndDelete
<1>6. CASE SkipJob(j) \/ MarkCompleted(j)
  BY <1>6, TypeFinish DEF TypeInv, TypeOK, Started, Terminal, SkipJob, MarkCompleted
<1>7. CASE MarkRunning(j) \/ MarkCancelled(j) \/ MarkFailed(j)
  BY <1>7 DEF TypeInv, TypeOK, Started, Steps, Active, Terminal, MarkRunning,
              MarkCancelled, MarkFailed, MarkStopped
<1>8. CASE FuncReturns(j) \/ FuncRaises(j)
  BY <1>8 DEF TypeInv, TypeOK, Started, Steps, FuncReturns, FuncRaises, FuncEnds
<1>9. CASE ReleaseAndRaise(j)
  BY <1>9, TypeFinish
  DEF TypeInv, TypeOK, Started, ReleaseAndRaise, ReleaseLock, CompareAndDelete
<1>10. CASE ReleaseAndReturn(j)
  BY <1>10 DEF TypeInv, TypeOK, Started, Steps, ReleaseAndReturn, ReleaseLock, CompareAndDelete
<1> QED
  BY <1>1, <1>2, <1>3, <1>4, <1>5, <1>6, <1>7, <1>8, <1>9, <1>10 DEF RunTask

LEMMA TypeInterrupted ==
  ASSUME TypeInv, NEW j \in Jobs, NEW again \in BOOLEAN, Interrupted(j, again),
         UNCHANGED <<hist, webVars>>, abort' \in SUBSET Jobs
  PROVE  TypeInv'
<1> USE DEF webVars
<1>1. CASE pc[j] \in {"mark_running", "func", "mark_cancelled", "mark_failed"}
  BY <1>1 DEF TypeInv, TypeOK, Started, Steps, Interrupted, Goto
<1>2. CASE pc[j] \notin {"mark_running", "func", "mark_cancelled", "mark_failed"}
  BY <1>2, TypeFinish, TypeToken DEF TypeInv, TypeOK, Started, Interrupted, SetReplyLost
<1> QED BY <1>1, <1>2

LEMMA TypeDisturb ==
  ASSUME TypeInv, NEW j \in Jobs, Disturbing(j) PROVE TypeInv'
<1>1. CASE RedisRaises(j)
  <2>1. CASE pc[j] \in DOMAIN AfterRedisError /\ Goto(j, AfterRedisError[pc[j]])
             /\ UNCHANGED <<arq, tries, replay, held, seen>>
    <3>1. AfterRedisError[pc[j]] \in Steps
      BY <2>1 DEF AfterRedisError, Steps
    <3>2. pc[j] # "idle"
      BY <2>1 DEF AfterRedisError
    <3> QED
      BY <1>1, <2>1, <3>1, <3>2, TypeToken
      DEF RedisRaises, TypeInv, TypeOK, Started, Goto, SetReplyLost, webVars
  <2>2. CASE pc[j] \in {"cleanup", "cleanup_del", "release_raise"} /\ Finish(j, replay[j])
    <3>1. replay[j] \in BOOLEAN
      BY DEF TypeInv, TypeOK
    <3> QED
      BY <1>1, <2>2, <3>1, TypeFinish, TypeToken
      DEF RedisRaises, TypeInv, TypeOK, Started, SetReplyLost, webVars
  <2> QED BY <1>1, <2>1, <2>2 DEF RedisRaises
<1>2. CASE AbortDelivered(j)
  <2>1. abort' \in SUBSET Jobs
    BY <1>2 DEF AbortDelivered, TypeInv, TypeOK
  <2> QED BY <1>2, <2>1, TypeInterrupted DEF AbortDelivered
<1>3. CASE JobTimesOut(j) \/ WorkerRestarts(j)
  <2>1. abort' \in SUBSET Jobs
    BY <1>3 DEF JobTimesOut, WorkerRestarts, TypeInv, TypeOK
  <2> QED BY <1>3, <2>1, TypeInterrupted DEF JobTimesOut, WorkerRestarts
<1> QED BY <1>1, <1>2, <1>3 DEF Disturbing

LEMMA TypeWeb ==
  ASSUME TypeInv, NEW j \in Jobs, WebRequests(j) PROVE TypeInv'
  BY DEF TypeInv, TypeOK, Started, Terminal, WebRequests, CancelSync, CancelSyncAborts,
         StopTask, StopTaskRecords, FailStale, RequestAbort, Record, arqVars, jobVars

LEMMA TypeGlobal ==
  ASSUME TypeInv, WorkerCrashes \/ LockExpires \/ ScanStale \/ ClearHistory
  PROVE  TypeInv'
<1> USE DEF webVars, arqVars, jobVars
<1>1. CASE WorkerCrashes
  BY <1>1 DEF TypeInv, TypeOK, Started, Steps, WorkerCrashes
<1>2. CASE LockExpires \/ ScanStale
  BY <1>2 DEF TypeInv, TypeOK, Started, LockExpires, ScanStale
<1>3. CASE ClearHistory
  BY <1>3 DEF TypeInv, TypeOK, Started, ClearHistory
<1> QED BY <1>1, <1>2, <1>3

LEMMA TypeStep == TypeInv /\ [Next]_vars => TypeInv'
<1> SUFFICES ASSUME TypeInv, [Next]_vars PROVE TypeInv'
  OBVIOUS
<1>1. CASE UNCHANGED vars
  BY <1>1 DEF vars, webVars, arqVars, jobVars, TypeInv, TypeOK, Started
<1>2. CASE Next
  BY <1>2, TypeEnqueue, TypeStart, TypeRun, TypeDisturb, TypeWeb, TypeGlobal DEF Next
<1> QED BY <1>1, <1>2

(* Type correctness under every combination of disturbances: statuses,     *)
(* program points, try counters and lock tokens of run_task_with_history   *)
(* and its web requests never leave their ranges.                          *)
THEOREM TypeCorrect == Spec => []TypeOK
<1>1. Spec => []TypeInv
  BY TypeInit, TypeStep, PTL DEF Spec
<1>2. TypeInv => TypeOK
  BY DEF TypeInv
<1> QED BY <1>1, <1>2, PTL

-----------------------------------------------------------------------------
(* Mutual exclusion. Nobody cancels, the acquiring SET does not raise,     *)
(* keys of live holders do not expire and rows of live jobs do not grow    *)
(* stale; timeouts, crashes, restarts, Redis errors anywhere else and      *)
(* deleted history are allowed.                                            *)
Undisturbed == Env \cap {"cancel", "failopen", "ttl", "stale"} = {}

(* From the start of an execution until its outcome is recorded.           *)
Fresh == { "check", "acquire", "inspect", "judge", "steal", "reacquire", "skip",
           "mark_running", "func", "mark_cancelled", "mark_failed",
           "release_ok", "mark_completed" }

FirstTry(j) == tries[j] = 1 /\ pc[j] \in Fresh

Uncancelled == abort = {} /\ \A j \in Jobs : cancel[j] = "idle"

(* ARQ and the coroutines agree, and only finished jobs are found stale.   *)
ArqMatches ==
    \A j \in Jobs :
        /\ arq[j] = "in_progress" <=> pc[j] # "idle"
        /\ arq[j] = "not_found" => enq[j] = "idle" /\ hist[j] = "NONE"
        /\ arq[j] = "complete" => tries[j] >= 1
        /\ enq[j] = "idle" => arq[j] = "not_found"
        /\ j \in stale => arq[j] = "complete"

(* Until a first execution records its outcome its row is not terminal.    *)
RowOpen == \A j \in Jobs : tries[j] = 0 \/ FirstTry(j) => hist[j] \notin Terminal

(* Every token that is around belongs to a try that has been started.      *)
Past(t) == t[2] <= tries[t[1]]

TokensPast ==
    /\ lock # NoToken => Past(lock)
    /\ \A k \in Jobs : seen[k] # NoToken => Past(seen[k])

(* The first execution of a job owns the key while it is inside.           *)
FirstHolds == \A j \in Jobs : tries[j] = 1 /\ pc[j] \in Inside => lock = <<j, 1>>

(* Whoever is about to recover a lock has seen a terminal row: the token   *)
(* is not that of a first execution still under way.                       *)
StealsDead ==
    \A k, j \in Jobs : pc[k] = "steal" /\ seen[k] = <<j, 1>> => ~FirstTry(j)

(* What the coroutine remembers at the steps that use it.                  *)
RemembersToken ==
    \A k \in Jobs : /\ pc[k] \in {"judge", "steal"} => seen[k] # NoToken
                    /\ pc[k] = "cleanup_del" => seen[k] # NoToken /\ seen[k][1] = k

LockInv == /\ TypeInv /\ Uncancelled /\ ArqMatches /\ RowOpen /\ TokensPast
           /\ FirstHolds /\ StealsDead /\ RemembersToken

Agreement == TypeInv /\ Uncancelled /\ ArqMatches

(* A Redis error that does not fail open: the job is skipped, or goes on   *)
(* past its release; only a lost reply to the second SET changes the key.  *)
LEMMA RedisMoves ==
  ASSUME Undisturbed, NEW j \in Jobs, RedisRaises(j)
  PROVE  /\ \/ /\ pc[j] \in {"inspect", "steal", "reacquire"} /\ Goto(j, "skip")
               /\ UNCHANGED <<arq, tries, replay, held, seen>>
            \/ /\ pc[j] = "release_ok" /\ Goto(j, "mark_completed")
               /\ UNCHANGED <<arq, tries, replay, held, seen>>
            \/ /\ pc[j] \in {"cleanup", "cleanup_del", "release_raise"}
               /\ Finish(j, replay[j])
         /\ \/ lock' = lock
            \/ pc[j] = "reacquire" /\ lock = NoToken /\ lock' = Token(j)
         /\ UNCHANGED <<hist, enq, cancel, stale, abort>>
<1>1. pc[j] # "acquire"
  BY DEF RedisRaises, Undisturbed
<1>2. CASE pc[j] \in DOMAIN AfterRedisError /\ Goto(j, AfterRedisError[pc[j]])
           /\ UNCHANGED <<arq, tries, replay, held, seen>>
  <2>1. \/ pc[j] \in {"inspect", "steal", "reacquire"} /\ AfterRedisError[pc[j]] = "skip"
        \/ pc[j] = "release_ok" /\ AfterRedisError[pc[j]] = "mark_completed"
    BY <1>1, <1>2 DEF AfterRedisError
  <2> QED BY <1>2, <2>1 DEF RedisRaises, SetReplyLost, webVars
<1>3. CASE pc[j] \in {"cleanup", "cleanup_del", "release_raise"} /\ Finish(j, replay[j])
  BY <1>3 DEF RedisRaises, SetReplyLost, webVars
<1> QED BY <1>2, <1>3 DEF RedisRaises

LEMMA AgreementStep ==
  ASSUME Undisturbed, Agreement, [Next]_vars PROVE Agreement'
<1>1. TypeInv'
  BY TypeStep DEF Agreement
<1>2. Uncancelled'
  <2>1. CASE UNCHANGED vars
    BY <2>1 DEF Agreement, Uncancelled, vars, webVars, arqVars
  <2>2. ASSUME NEW j \in Jobs, Enqueueing(j) \/ StartJob(j) \/ RunTask(j) PROVE Uncancelled'
    BY <2>2 DEF Agreement, Uncancelled, Enqueueing, EnqueueJob, RecordPending, CronFires,
       StartJob, RunTask, CheckCancelled, CleanupGet, CleanupDelete, Acquire, InspectHolder,
       JudgeHolder, StealLock, Reacquire, SkipJob, MarkRunning, FuncReturns, FuncRaises,
       FuncEnds, MarkCancelled, MarkFailed, MarkStopped, ReleaseAndRaise, ReleaseAndReturn,
       MarkCompleted, webVars, arqVars
  <2>3. ASSUME NEW j \in Jobs, Disturbing(j) \/ WebRequests(j) PROVE Uncancelled'
    BY RedisMoves, <2>3 DEF Undisturbed, Agreement, Uncancelled, Disturbing, AbortDelivered,
       JobTimesOut, WorkerRestarts, WebRequests, CancelSync, CancelSyncAborts, StopTask,
       StopTaskRecords, FailStale, webVars, arqVars
  <2>4. CASE WorkerCrashes \/ LockExpires \/ ScanStale \/ ClearHistory
    BY <2>4 DEF Agreement, Uncancelled, WorkerCrashes, LockExpires, ScanStale, ClearHistory,
       webVars, arqVars
  <2> QED BY <2>1, <2>2, <2>3, <2>4 DEF Next
<1>3. ArqMatches'
  <2>1. CASE UNCHANGED vars
    BY <2>1 DEF Agreement, ArqMatches, vars, webVars, arqVars, jobVars
  <2>2. ASSUME NEW j \in Jobs, Enqueueing(j) \/ StartJob(j) PROVE ArqMatches'
    BY <2>2, TriesAssumption DEF Agreement, TypeInv, TypeOK, Uncancelled, ArqMatches,
       Enqueueing, EnqueueJob, RecordPending, CronFires, StartJob, Record, Goto, webVars,
       arqVars, jobVars
  <2>3. ASSUME NEW j \in Jobs, RunTask(j) PROVE ArqMatches'
    BY <2>3 DEF Agreement, TypeInv, TypeOK, Started, ArqMatches, Finish, Goto, Record,
       RunTask, CheckCancelled, CleanupGet, CleanupDelete, Acquire, InspectHolder, JudgeHolder,
       StealLock, Reacquire, SetNX, SkipJob, MarkRunning, FuncReturns, FuncRaises, FuncEnds,
       MarkCancelled, MarkFailed, MarkStopped, ReleaseAndRaise, ReleaseAndReturn, MarkCompleted,
       webVars, arqVars
  <2>4. ASSUME NEW j \in Jobs, Disturbing(j) \/ WebRequests(j) PROVE ArqMatches'
    BY RedisMoves, <2>4 DEF Undisturbed, Agreement, TypeInv, TypeOK, Started, Uncancelled,
       ArqMatches, Disturbing, AbortDelivered, JobTimesOut, WorkerRestarts, Interrupted,
       Finish, Goto, WebRequests, CancelSync, CancelSyncAborts, StopTask, StopTaskRecords,
       FailStale, Record, webVars, arqVars, jobVars
  <2>5. CASE WorkerCrashes \/ LockExpires \/ ScanStale \/ ClearHistory
    BY <2>5 DEF Undisturbed, Agreement, TypeInv, TypeOK, Uncancelled, ArqMatches, WorkerCrashes,
       LockExpires, ScanStale, GrownStale, ClearHistory, Active, webVars, arqVars, jobVars
  <2> QED BY <2>1, <2>2, <2>3, <2>4, <2>5 DEF Next
<1> QED BY <1>1, <1>2, <1>3 DEF Agreement

LEMMA RowOpenStep ==
  ASSUME Undisturbed, Agreement, RowOpen, [Next]_vars PROVE RowOpen'
<1> USE DEF Agreement, TypeInv, TypeOK, Started, ArqMatches, RowOpen, FirstTry, Fresh, Terminal
<1>1. CASE UNCHANGED vars
  BY <1>1 DEF vars, webVars, arqVars, jobVars
<1>2. ASSUME NEW j \in Jobs, Enqueueing(j) PROVE RowOpen'
  BY <1>2 DEF Enqueueing, EnqueueJob, RecordPending, CronFires, Record, webVars, arqVars,
     jobVars
<1>3. ASSUME NEW j \in Jobs, StartJob(j) PROVE RowOpen'
  BY <1>3, TriesAssumption DEF StartJob, Uncancelled, Goto, webVars, arqVars, jobVars
<1>4. ASSUME NEW j \in Jobs, RunTask(j) PROVE RowOpen'
  BY <1>4 DEF Finish, Goto, Record,
       RunTask, CheckCancelled, CleanupGet, CleanupDelete, Acquire, InspectHolder, JudgeHolder,
       StealLock, Reacquire, SetNX, SkipJob, MarkRunning, FuncReturns, FuncRaises, FuncEnds,
       MarkCancelled, MarkFailed, MarkStopped, ReleaseAndRaise, ReleaseAndReturn, MarkCompleted,
       webVars, arqVars, jobVars
<1>5. ASSUME NEW j \in Jobs, Disturbing(j) PROVE RowOpen'
  BY RedisMoves, <1>5 DEF Undisturbed, Disturbing, AbortDelivered, JobTimesOut,
     WorkerRestarts, Interrupted, Finish, Goto, webVars, arqVars, jobVars
<1>6. ASSUME NEW j \in Jobs, WebRequests(j) PROVE RowOpen'
  BY <1>6 DEF Undisturbed, Uncancelled, WebRequests, CancelSync, CancelSyncAborts, StopTask,
     StopTaskRecords, FailStale, Record, webVars, arqVars, jobVars
<1>7. CASE WorkerCrashes \/ LockExpires \/ ScanStale \/ ClearHistory
  BY <1>7 DEF WorkerCrashes, LockExpires, ScanStale, ClearHistory, webVars, arqVars, jobVars
<1> QED BY <1>1, <1>2, <1>3, <1>4, <1>5, <1>6, <1>7 DEF Next

(* What one step does to the counters, the key and the remembered holders. *)
LEMMA TokenMoves ==
  ASSUME Undisturbed, Agreement, [Next]_vars
  PROVE  /\ \A j \in Jobs : tries[j] <= tries'[j]
         /\ \/ lock' = lock \/ lock' = NoToken
            \/ \E j \in Jobs : pc[j] # "idle" /\ lock' = Token(j) /\ tries' = tries
         /\ \A k \in Jobs : seen'[k] = seen[k] \/ seen'[k] = NoToken \/ seen'[k] = lock
<1> USE DEF Agreement, TypeInv, TypeOK, Uncancelled, webVars, arqVars, jobVars
<1>1. CASE UNCHANGED vars
  BY <1>1 DEF vars
<1>2. ASSUME NEW j \in Jobs, Enqueueing(j) \/ StartJob(j)
      PROVE  /\ \A i \in Jobs : tries[i] <= tries'[i]
             /\ lock' = lock /\ seen' = seen
  BY <1>2 DEF Enqueueing, EnqueueJob, RecordPending, CronFires, StartJob
<1>3. ASSUME NEW j \in Jobs, RunTask(j)
      PROVE  /\ tries' = tries
             /\ \/ lock' = lock \/ lock' = NoToken
                \/ pc[j] # "idle" /\ lock' = Token(j)
             /\ \A k \in Jobs : seen'[k] = seen[k] \/ seen'[k] = NoToken \/ seen'[k] = lock
  BY <1>3 DEF Finish, CompareAndDelete, ReleaseLock,
       RunTask, CheckCancelled, CleanupGet, CleanupDelete, Acquire, InspectHolder, JudgeHolder,
       StealLock, Reacquire, SetNX, SkipJob, MarkRunning, FuncReturns, FuncRaises, FuncEnds,
       MarkCancelled, MarkFailed, MarkStopped, ReleaseAndRaise, ReleaseAndReturn, MarkCompleted
<1>4. ASSUME NEW j \in Jobs, Disturbing(j) \/ WebRequests(j)
      PROVE  /\ tries' = tries
             /\ \/ lock' = lock \/ lock' = NoToken
                \/ pc[j] # "idle" /\ lock' = Token(j)
             /\ \A k \in Jobs : seen'[k] = seen[k] \/ seen'[k] = NoToken \/ seen'[k] = lock
  BY RedisMoves, <1>4 DEF Undisturbed, SetReplyLost, Disturbing, AbortDelivered, JobTimesOut,
     WorkerRestarts, Interrupted, Finish, Goto, WebRequests, CancelSync, CancelSyncAborts,
     StopTask, StopTaskRecords, FailStale, RequestAbort
<1>5. CASE WorkerCrashes \/ LockExpires \/ ScanStale \/ ClearHistory
  BY <1>5 DEF WorkerCrashes, LockExpires, ScanStale, ClearHistory
<1> QED BY <1>1, <1>2, <1>3, <1>4, <1>5 DEF Next

LEMMA TokensPastStep ==
  ASSUME Undisturbed, Agreement, TokensPast, [Next]_vars PROVE TokensPast'
<1>1. ASSUME NEW t \in Tokens, Past(t) PROVE Past(t)'
  <2>1. t[1] \in Jobs /\ t[2] \in 1..MaxTries
    BY DEF Tokens
  <2>2. tries[t[1]] <= tries'[t[1]] /\ tries[t[1]] \in Nat /\ tries'[t[1]] \in Nat
    BY <2>1, TokenMoves, TypeStep, TriesAssumption DEF Agreement, TypeInv, TypeOK
  <2> QED BY <1>1, <2>1, <2>2, TriesAssumption DEF Past
<1>2. lock' # NoToken => Past(lock)'
  <2>1. CASE lock' = lock
    BY <2>1, <1>1 DEF TokensPast, Agreement, TypeInv, TypeOK, Past
  <2>2. ASSUME NEW j \in Jobs, lock' = Token(j), tries' = tries PROVE Past(lock)'
    BY <2>2, TriesAssumption DEF Past, Token, Agreement, TypeInv, TypeOK
  <2> QED BY <2>1, <2>2, TokenMoves
<1>3. ASSUME NEW k \in Jobs, seen'[k] # NoToken PROVE Past(seen[k])'
  <2>1. seen'[k] = seen[k] \/ seen'[k] = lock
    BY <1>3, TokenMoves
  <2>2. seen'[k] \in Tokens /\ Past(seen'[k])
    BY <1>3, <2>1 DEF TokensPast, Agreement, TypeInv, TypeOK
  <2> QED BY <2>2, <1>1 DEF Past
<1> QED BY <1>2, <1>3 DEF TokensPast

LEMMA RemembersTokenStep ==
  ASSUME Undisturbed, Agreement, RemembersToken, [Next]_vars PROVE RemembersToken'
<1> USE DEF Agreement, TypeInv, TypeOK, RemembersToken
<1>1. CASE UNCHANGED vars
  BY <1>1 DEF vars, webVars, arqVars, jobVars
<1>2. ASSUME NEW j \in Jobs, Enqueueing(j) \/ WebRequests(j) PROVE RemembersToken'
  BY <1>2 DEF Undisturbed, Uncancelled, Enqueueing, EnqueueJob, RecordPending, CronFires,
     WebRequests, CancelSync, CancelSyncAborts, StopTask, StopTaskRecords, FailStale,
     RequestAbort, webVars, arqVars, jobVars
<1>3. ASSUME NEW j \in Jobs, StartJob(j) PROVE RemembersToken'
  BY <1>3, TriesAssumption DEF StartJob, Goto, webVars, arqVars, jobVars
<1>4. ASSUME NEW j \in Jobs, RunTask(j) PROVE RemembersToken'
  BY <1>4 DEF Finish, Goto, CompareAndDelete, ReleaseLock, Token,
       RunTask, CheckCancelled, CleanupGet, CleanupDelete, Acquire, InspectHolder, JudgeHolder,
       StealLock, Reacquire, SetNX, SkipJob, MarkRunning, FuncReturns, FuncRaises, FuncEnds,
       MarkCancelled, MarkFailed, MarkStopped, ReleaseAndRaise, ReleaseAndReturn, MarkCompleted,
       webVars, arqVars, jobVars
<1>5. ASSUME NEW j \in Jobs, Disturbing(j) PROVE RemembersToken'
  BY RedisMoves, <1>5 DEF Undisturbed, Uncancelled, SetReplyLost, Disturbing, AbortDelivered,
     JobTimesOut, WorkerRestarts, Interrupted, Finish, Goto, webVars, arqVars, jobVars
<1>6. CASE WorkerCrashes \/ LockExpires \/ ScanStale \/ ClearHistory
  BY <1>6 DEF Undisturbed, Executing, WorkerCrashes, LockExpires, ScanStale, ClearHistory,
     webVars, arqVars, jobVars
<1> QED BY <1>1, <1>2, <1>3, <1>4, <1>5, <1>6 DEF Next

LEMMA StealsDeadStep ==
  ASSUME Undisturbed, Agreement, RowOpen, TokensPast, RemembersToken, StealsDead, [Next]_vars
  PROVE  StealsDead'
<1> USE DEF Agreement, TypeInv, TypeOK, RowOpen, TokensPast, Past, RemembersToken, StealsDead,
        FirstTry, Fresh
<1>1. CASE UNCHANGED vars
  BY <1>1 DEF vars, webVars, arqVars, jobVars
<1>2. ASSUME NEW j \in Jobs, Enqueueing(j) \/ WebRequests(j) PROVE StealsDead'
  BY <1>2 DEF Undisturbed, Uncancelled, Enqueueing, EnqueueJob, RecordPending, CronFires,
     WebRequests, CancelSync, CancelSyncAborts, StopTask, StopTaskRecords, FailStale,
     RequestAbort, webVars, arqVars, jobVars
<1>3. ASSUME NEW j \in Jobs, StartJob(j) PROVE StealsDead'
  BY <1>3, TriesAssumption DEF StartJob, Goto, webVars, arqVars, jobVars
<1>4. ASSUME NEW j \in Jobs, RunTask(j) PROVE StealsDead'
  BY <1>4 DEF Finish, Goto, CompareAndDelete, ReleaseLock, Token, Abandoned,
       RunTask, CheckCancelled, CleanupGet, CleanupDelete, Acquire, InspectHolder, JudgeHolder,
       StealLock, Reacquire, SetNX, SkipJob, MarkRunning, FuncReturns, FuncRaises, FuncEnds,
       MarkCancelled, MarkFailed, MarkStopped, ReleaseAndRaise, ReleaseAndReturn, MarkCompleted,
       webVars, arqVars, jobVars
<1>5. ASSUME NEW j \in Jobs, Disturbing(j) PROVE StealsDead'
  BY RedisMoves, <1>5 DEF Undisturbed, Uncancelled, SetReplyLost, Disturbing, AbortDelivered,
     JobTimesOut, WorkerRestarts, Interrupted, Finish, Goto, webVars, arqVars, jobVars
<1>6. CASE WorkerCrashes \/ LockExpires \/ ScanStale \/ ClearHistory
  BY <1>6 DEF Undisturbed, Executing, WorkerCrashes, LockExpires, ScanStale, ClearHistory,
     webVars, arqVars, jobVars
<1> QED BY <1>1, <1>2, <1>3, <1>4, <1>5, <1>6 DEF Next

LEMMA FirstHoldsStep ==
  ASSUME Undisturbed, Agreement, RowOpen, TokensPast, RemembersToken, StealsDead, FirstHolds,
         [Next]_vars
  PROVE  FirstHolds'
<1> USE DEF Agreement, TypeInv, TypeOK, RemembersToken, StealsDead, FirstHolds, FirstTry,
        Fresh, Inside
<1>0. \A i \in Jobs : <<i, 1>> # NoToken
  BY JobsAssumption
<1>1. CASE UNCHANGED vars
  BY <1>1 DEF vars, webVars, arqVars, jobVars
<1>2. ASSUME NEW j \in Jobs, Enqueueing(j) \/ WebRequests(j) PROVE FirstHolds'
  BY <1>2 DEF Undisturbed, Uncancelled, Enqueueing, EnqueueJob, RecordPending, CronFires,
     WebRequests, CancelSync, CancelSyncAborts, StopTask, StopTaskRecords, FailStale,
     RequestAbort, webVars, arqVars, jobVars
<1>3. ASSUME NEW j \in Jobs, StartJob(j) PROVE FirstHolds'
  BY <1>3, TriesAssumption DEF StartJob, Goto, webVars, arqVars, jobVars
<1>4. ASSUME NEW j \in Jobs, RunTask(j) PROVE FirstHolds'
  <2> USE DEF Goto, webVars, arqVars
  <2>1. CASE Acquire(j) \/ Reacquire(j)
    <3>1. tries[j] \in Nat /\ Token(j) = <<j, tries[j]>>
      BY TriesAssumption DEF Token
    <3>2. CASE lock = NoToken
      BY <2>1, <3>1, <3>2, <1>0 DEF Acquire, Reacquire, SetNX
    <3>3. CASE lock # NoToken
      BY <2>1, <3>3 DEF Acquire, Reacquire, SetNX
    <3> QED BY <3>2, <3>3
  <2>2. CASE CheckCancelled(j) \/ InspectHolder(j) \/ JudgeHolder(j) \/ SkipJob(j)
             \/ MarkRunning(j) \/ FuncReturns(j) \/ FuncRaises(j) \/ MarkCancelled(j)
             \/ MarkFailed(j) \/ MarkCompleted(j) \/ CleanupGet(j)
    BY <2>2 DEF Finish, CheckCancelled, InspectHolder, JudgeHolder, SkipJob, MarkRunning,
       FuncReturns, FuncRaises, FuncEnds, MarkCancelled, MarkFailed, MarkStopped, MarkCompleted,
       CleanupGet
  <2>3. CASE CleanupDelete(j)
    BY <2>3 DEF Finish, CleanupDelete, CompareAndDelete
  <2>4. CASE StealLock(j)
    BY <2>4 DEF StealLock, CompareAndDelete
  <2>5. CASE ReleaseAndRaise(j) \/ ReleaseAndReturn(j)
    BY <2>5 DEF Finish, ReleaseAndRaise, ReleaseAndReturn, ReleaseLock, CompareAndDelete, Token
  <2> QED BY <1>4, <2>1, <2>2, <2>3, <2>4, <2>5 DEF RunTask
<1>5. ASSUME NEW j \in Jobs, Disturbing(j) PROVE FirstHolds'
  BY RedisMoves, <1>5, <1>0 DEF Undisturbed, Uncancelled, SetReplyLost, Disturbing,
     AbortDelivered, JobTimesOut, WorkerRestarts, Interrupted, Finish, Goto, webVars, arqVars,
     jobVars
<1>6. CASE WorkerCrashes \/ LockExpires \/ ScanStale \/ ClearHistory
  BY <1>6 DEF Undisturbed, Executing, WorkerCrashes, LockExpires, ScanStale, ClearHistory,
     webVars, arqVars, jobVars
<1> QED BY <1>1, <1>2, <1>3, <1>4, <1>5, <1>6 DEF Next

LEMMA LockInit == Init => LockInv
<1> SUFFICES ASSUME Init PROVE LockInv
  OBVIOUS
<1>1. TypeInv
  BY TypeInit
<1> QED
  BY <1>1 DEF Init, LockInv, Uncancelled, ArqMatches, RowOpen, TokensPast, FirstHolds,
     StealsDead, RemembersToken, FirstTry, Fresh, Inside, Terminal

LEMMA LockStep == ASSUME Undisturbed PROVE LockInv /\ [Next]_vars => LockInv'
  BY AgreementStep, RowOpenStep, TokensPastStep, FirstHoldsStep, StealsDeadStep,
     RemembersTokenStep DEF LockInv, Agreement

(* Two executions of func overlap only if one of them is a replay: as long *)
(* as nobody cancels, the acquiring SET does not raise, and neither keys   *)
(* nor rows of live jobs run out, run_task_with_history keeps first        *)
(* executions apart, also across crashes, restarts, timeouts, deleted      *)
(* history and errors of the other Redis calls.                            *)
THEOREM OverlapOnlyByReplay ==
  ASSUME Undisturbed PROVE Spec => []OverlapNeedsReplay
<1>1. Spec => []LockInv
  BY LockInit, LockStep, PTL DEF Spec
<1>2. LockInv => OverlapNeedsReplay
  <2> SUFFICES ASSUME LockInv, NEW j \in Jobs, NEW k \in Jobs,
                      Ingesting(j), Ingesting(k), j # k, ~(tries[j] > 1), ~(tries[k] > 1)
               PROVE  FALSE
    BY DEF OverlapNeedsReplay
  <2>1. tries[j] = 1 /\ tries[k] = 1
    BY TriesAssumption DEF LockInv, TypeInv, TypeOK, Started, Ingesting
  <2>2. lock = <<j, 1>> /\ lock = <<k, 1>>
    BY <2>1 DEF LockInv, FirstHolds, Inside, Ingesting
  <2> QED BY <2>2
<1> QED BY <1>1, <1>2, PTL

-----------------------------------------------------------------------------
(* Without crashes and restarts no job is started twice.                   *)
Unreplayed == Env \subseteq {"timeout", "clear", "redis"}

Once == \A j \in Jobs : /\ tries[j] <= 1
                        /\ replay[j] = FALSE
                        /\ arq[j] \in {"not_found", "queued"} => tries[j] = 0

LEMMA UnreplayedUndisturbed == Unreplayed => Undisturbed
  BY DEF Unreplayed, Undisturbed

LEMMA OnceStep ==
  ASSUME Unreplayed, Agreement, Once, [Next]_vars PROVE Once'
<1> USE DEF Agreement, TypeInv, TypeOK, Once, webVars, arqVars, jobVars
<1>1. CASE UNCHANGED vars
  BY <1>1 DEF vars
<1>2. ASSUME NEW j \in Jobs, Enqueueing(j) \/ WebRequests(j) PROVE Once'
  BY <1>2 DEF Unreplayed, Uncancelled, Enqueueing, EnqueueJob, RecordPending, CronFires,
     WebRequests, CancelSync, CancelSyncAborts, StopTask, StopTaskRecords, FailStale,
     RequestAbort
<1>3. ASSUME NEW j \in Jobs, StartJob(j) PROVE Once'
  BY <1>3 DEF StartJob, Uncancelled
<1>4. ASSUME NEW j \in Jobs, RunTask(j) PROVE Once'
  BY <1>4 DEF Finish,
       RunTask, CheckCancelled, CleanupGet, CleanupDelete, Acquire, InspectHolder, JudgeHolder,
       StealLock, Reacquire, SetNX, SkipJob, MarkRunning, FuncReturns, FuncRaises, FuncEnds,
       MarkCancelled, MarkFailed, MarkStopped, ReleaseAndRaise, ReleaseAndReturn, MarkCompleted
<1>5. ASSUME NEW j \in Jobs, Disturbing(j) PROVE Once'
  BY RedisMoves, UnreplayedUndisturbed, <1>5 DEF Unreplayed, Uncancelled, Finish, Disturbing,
     AbortDelivered, JobTimesOut, WorkerRestarts, Interrupted
<1>6. CASE WorkerCrashes \/ LockExpires \/ ScanStale \/ ClearHistory
  BY <1>6 DEF Unreplayed, WorkerCrashes, LockExpires, ScanStale, ClearHistory
<1> QED BY <1>1, <1>2, <1>3, <1>4, <1>5, <1>6 DEF Next

OnceInv == LockInv /\ Once

LEMMA OnceInvariant == ASSUME Unreplayed PROVE Spec => []OnceInv
<1>1. Init => OnceInv
  BY LockInit DEF OnceInv, Once, Init
<1>2. OnceInv /\ [Next]_vars => OnceInv'
  BY LockStep, OnceStep, UnreplayedUndisturbed DEF OnceInv, LockInv, Agreement
<1> QED BY <1>1, <1>2, PTL DEF Spec

(* The mutex of _acquire_trip_sync_lock excludes: with no cancellation, no *)
(* replay and no acquiring SET that fails open at most one job executes    *)
(* func, also when other Redis calls of the lock code raise.               *)
THEOREM MutexExcludes ==
  ASSUME Unreplayed PROVE Spec => []MutualExclusion
<1>1. OnceInv => MutualExclusion
  <2> SUFFICES ASSUME OnceInv, NEW j \in Jobs, NEW k \in Jobs, Ingesting(j), Ingesting(k)
               PROVE  j = k
    BY DEF MutualExclusion
  <2>1. tries[j] = 1 /\ tries[k] = 1
    BY TriesAssumption DEF OnceInv, Once, LockInv, TypeInv, TypeOK, Started, Ingesting
  <2>2. lock = <<j, 1>> /\ lock = <<k, 1>>
    BY <2>1 DEF OnceInv, LockInv, FirstHolds, Inside, Ingesting
  <2> QED BY <2>2
<1> QED BY <1>1, OnceInvariant, PTL

-----------------------------------------------------------------------------
(* Refinement. A step of one job moves the phase of that job only.         *)
PhaseOf(a, p) ==
    IF a = "not_found" THEN "new"
    ELSE IF a = "complete" \/ p \in Left THEN "done"
    ELSE IF p \in Inside THEN "inside"
    ELSE "waiting"

LEMMA PhaseAt == ASSUME NEW j \in Jobs PROVE Phase[j] = PhaseOf(arq[j], pc[j])
  BY DEF Phase, PhaseOf

LEMMA PhaseMoves ==
  ASSUME TypeOK, NEW j \in Jobs, NEW a, NEW p,
         arq' = [arq EXCEPT ![j] = a], pc' = [pc EXCEPT ![j] = p]
  PROVE  Phase' = [Phase EXCEPT ![j] = PhaseOf(a, p)]
  BY DEF TypeOK, Phase, PhaseOf

(* Legal moves of a job's phase; entering needs the section to be empty.   *)
Legal(j, q) ==
    \/ q = Phase[j]
    \/ Phase[j] = "new" /\ q = "waiting"
    \/ Phase[j] = "waiting" /\ q = "inside" /\ \A k \in Jobs : Phase[k] # "inside"
    \/ Phase[j] = "inside" /\ q = "done"
    \/ Phase[j] = "waiting" /\ q = "done"

LEMMA LegalMoves ==
  ASSUME NEW j \in Jobs, NEW q, Legal(j, q), Phase' = [Phase EXCEPT ![j] = q]
  PROVE  [Mutex!Next]_Phase
<1>1. Phase = [Phase EXCEPT ![j] = Phase[j]]
  BY DEF Phase
<1> QED
  BY <1>1 DEF Legal, Mutex!Next, Mutex!Submit, Mutex!Enter, Mutex!Leave, Mutex!Drop, Mutex!Move

(* Nobody is inside while the key is free.                                 *)
LEMMA FreeIsEmpty ==
  ASSUME OnceInv, lock = NoToken, NEW k \in Jobs PROVE Phase[k] # "inside"
<1> SUFFICES ASSUME pc[k] \in Inside PROVE FALSE
  BY DEF Phase
<1>1. tries[k] = 1
  BY TriesAssumption DEF OnceInv, Once, LockInv, TypeInv, TypeOK, Started, Inside
<1>2. lock = <<k, 1>>
  BY <1>1 DEF OnceInv, LockInv, FirstHolds
<1> QED BY <1>2, JobsAssumption

LEMMA PhaseStep ==
  ASSUME Unreplayed, OnceInv, [Next]_vars PROVE [Mutex!Next]_Phase
<1> USE DEF OnceInv, LockInv, TypeInv
<1>1. CASE UNCHANGED vars
  BY <1>1 DEF vars, webVars, arqVars, jobVars, Phase
<1>2. ASSUME NEW j \in Jobs, EnqueueJob(j) \/ CronFires(j) PROVE [Mutex!Next]_Phase
  <2>1. pc[j] = "idle" /\ arq[j] = "not_found"
    BY <1>2 DEF ArqMatches, EnqueueJob, CronFires
  <2>2. pc' = [pc EXCEPT ![j] = "idle"] /\ arq' = [arq EXCEPT ![j] = "queued"]
    BY <1>2, <2>1 DEF EnqueueJob, CronFires, jobVars, TypeOK
  <2>3. Legal(j, PhaseOf("queued", "idle"))
    BY <2>1, PhaseAt DEF Legal, PhaseOf, Left, Inside
  <2> QED BY <2>2, <2>3, PhaseMoves, LegalMoves
<1>3. ASSUME NEW j \in Jobs, RecordPending(j) \/ WebRequests(j) PROVE [Mutex!Next]_Phase
  BY <1>3 DEF Unreplayed, Uncancelled, RecordPending, WebRequests, CancelSync,
     CancelSyncAborts, StopTask, StopTaskRecords, FailStale, RequestAbort, Phase, webVars,
     arqVars, jobVars
<1>4. ASSUME NEW j \in Jobs, StartJob(j) PROVE [Mutex!Next]_Phase
  <2>1. pc[j] = "idle" /\ arq[j] = "queued" /\ tries[j] = 0 /\ abort = {}
    BY <1>4 DEF StartJob, ArqMatches, Once, Uncancelled
  <2>2. pc' = [pc EXCEPT ![j] = "check"] /\ arq' = [arq EXCEPT ![j] = "in_progress"]
    BY <1>4, <2>1, TriesAssumption DEF StartJob, Goto
  <2>3. Legal(j, PhaseOf("in_progress", "check"))
    BY <2>1, PhaseAt DEF Legal, PhaseOf, Left, Inside
  <2> QED BY <2>2, <2>3, PhaseMoves, LegalMoves
<1>5. ASSUME NEW j \in Jobs, RunTask(j) \/ Disturbing(j) PROVE [Mutex!Next]_Phase
  <2>1. arq[j] = "in_progress" /\ pc[j] # "idle"
    <3>1. pc[j] # "idle"
      BY <1>5, RedisMoves, UnreplayedUndisturbed DEF RunTask, CheckCancelled, CleanupGet,
         CleanupDelete, Acquire, InspectHolder, JudgeHolder, StealLock, Reacquire, SkipJob,
         MarkRunning, FuncReturns, FuncRaises, FuncEnds, MarkCancelled, MarkFailed, MarkStopped,
         ReleaseAndRaise, ReleaseAndReturn, MarkCompleted,
         Disturbing, AbortDelivered, JobTimesOut, WorkerRestarts, Interrupted
    <3> QED BY <3>1 DEF ArqMatches
  <2>2. ASSUME NEW p, Goto(j, p), arq' = arq, Legal(j, PhaseOf("in_progress", p))
        PROVE  [Mutex!Next]_Phase
    <3>1. arq' = [arq EXCEPT ![j] = "in_progress"]
      BY <2>1, <2>2 DEF TypeOK
    <3>2. pc' = [pc EXCEPT ![j] = p]
      BY <2>2 DEF Goto
    <3>3. Phase' = [Phase EXCEPT ![j] = PhaseOf("in_progress", p)]
      BY <3>1, <3>2, PhaseMoves
    <3> QED BY <2>2, <3>3, LegalMoves
  <2>3. ASSUME Finish(j, FALSE) PROVE [Mutex!Next]_Phase
    <3>1. Legal(j, PhaseOf("complete", "idle"))
      BY <2>1, PhaseAt DEF Legal, PhaseOf
    <3> QED BY <2>3, <3>1, PhaseMoves, LegalMoves DEF Finish, Goto
  <2>4. Phase[j] = PhaseOf("in_progress", pc[j])
    BY <2>1, PhaseAt
  <2> USE DEF PhaseOf, Left, Inside, arqVars
  <2>5. CASE Acquire(j) \/ Reacquire(j)
    <3>1. CASE lock = NoToken
      <4>1. Legal(j, PhaseOf("in_progress", "mark_running"))
        BY <2>4, <2>5, <3>1, FreeIsEmpty DEF Legal, Acquire, Reacquire
      <4> QED BY <2>2, <2>5, <3>1, <4>1 DEF Acquire, Reacquire, SetNX
    <3>2. CASE lock # NoToken
      <4>1. Legal(j, PhaseOf("in_progress", "inspect")) /\ Legal(j, PhaseOf("in_progress", "skip"))
        BY <2>4, <2>5 DEF Legal, Acquire, Reacquire
      <4> QED BY <2>2, <2>5, <3>2, <4>1 DEF Acquire, Reacquire, SetNX
    <3> QED BY <3>1, <3>2
  <2>6. CASE CheckCancelled(j) \/ InspectHolder(j) \/ JudgeHolder(j) \/ StealLock(j)
             \/ MarkRunning(j) \/ FuncReturns(j) \/ FuncRaises(j)
    <3>1. PICK p \in {"cleanup", "acquire", "skip", "judge", "steal", "reacquire", "func",
                     "release_ok", "mark_failed"} : Goto(j, p)
      BY <2>6 DEF CheckCancelled, InspectHolder, JudgeHolder, StealLock, MarkRunning,
         FuncReturns, FuncRaises, FuncEnds
    <3>2. Legal(j, PhaseOf("in_progress", p))
      BY <2>4, <2>6, <3>1 DEF Legal, CheckCancelled, InspectHolder, JudgeHolder, StealLock,
         MarkRunning, FuncReturns, FuncRaises, FuncEnds, Goto, TypeOK
    <3>3. arq' = arq
      BY <2>6 DEF CheckCancelled, InspectHolder, JudgeHolder, StealLock, MarkRunning,
         FuncReturns, FuncRaises, FuncEnds
    <3> QED BY <2>2, <3>1, <3>2, <3>3
  <2>7. CASE MarkCancelled(j) \/ MarkFailed(j) \/ ReleaseAndReturn(j)
    <3>1. Legal(j, PhaseOf("in_progress", "release_raise"))
          /\ Legal(j, PhaseOf("in_progress", "mark_completed"))
      BY <2>4, <2>7 DEF Legal, MarkCancelled, MarkFailed, MarkStopped, ReleaseAndReturn
    <3> QED BY <2>2, <2>7, <3>1 DEF MarkCancelled, MarkFailed, MarkStopped, ReleaseAndReturn
  <2>8. CASE CleanupGet(j)
    <3>1. Legal(j, PhaseOf("in_progress", "cleanup_del"))
      BY <2>4, <2>8 DEF Legal, CleanupGet
    <3>2. CASE lock # NoToken /\ lock[1] = j
      BY <2>2, <2>8, <3>1, <3>2 DEF CleanupGet
    <3>3. CASE ~(lock # NoToken /\ lock[1] = j)
      BY <2>3, <2>8, <3>3 DEF CleanupGet
    <3> QED BY <3>2, <3>3
  <2>9. CASE CleanupDelete(j) \/ SkipJob(j) \/ MarkCompleted(j) \/ ReleaseAndRaise(j)
    BY <2>3, <2>9 DEF CleanupDelete, SkipJob, MarkCompleted, ReleaseAndRaise, Once
  <2>10. CASE RedisRaises(j)
    <3>1. Legal(j, PhaseOf("in_progress", "skip")) \/ pc[j] \notin {"inspect", "steal", "reacquire"}
      BY <2>4 DEF Legal
    <3>2. Legal(j, PhaseOf("in_progress", "mark_completed")) \/ pc[j] # "release_ok"
      BY <2>4 DEF Legal
    <3>3. replay[j] = FALSE
      BY DEF Once
    <3> QED BY <2>2, <2>3, <2>10, <3>1, <3>2, <3>3, RedisMoves, UnreplayedUndisturbed
  <2>11. CASE AbortDelivered(j) \/ JobTimesOut(j) \/ WorkerRestarts(j)
    <3>1. Interrupted(j, FALSE)
      BY <2>11 DEF Unreplayed, Uncancelled, AbortDelivered, JobTimesOut, WorkerRestarts
    <3>2. CASE Finish(j, FALSE)
      BY <2>3, <3>2
    <3>3. CASE pc[j] \in {"mark_running", "func"} /\ Goto(j, "mark_cancelled") /\ arq' = arq
      <4>1. Legal(j, PhaseOf("in_progress", "mark_cancelled"))
        BY <2>4, <3>3 DEF Legal
      <4> QED BY <2>2, <3>3, <4>1
    <3>4. CASE pc[j] \in {"mark_cancelled", "mark_failed"} /\ Goto(j, "release_raise") /\ arq' = arq
      <4>1. Legal(j, PhaseOf("in_progress", "release_raise"))
        BY <2>4, <3>4 DEF Legal
      <4> QED BY <2>2, <3>4, <4>1
    <3> QED BY <3>1, <3>2, <3>3, <3>4 DEF Interrupted
  <2> QED
    BY <1>5, <2>5, <2>6, <2>7, <2>8, <2>9, <2>10, <2>11 DEF RunTask, Disturbing
<1>6. CASE WorkerCrashes \/ LockExpires \/ ScanStale \/ ClearHistory
  BY <1>6 DEF Unreplayed, WorkerCrashes, LockExpires, ScanStale, ClearHistory, Phase,
     webVars, arqVars, jobVars
<1> QED BY <1>1, <1>2, <1>3, <1>4, <1>5, <1>6 DEF Next, Enqueueing

(* The jobs as a whole behave like IngestMutex: each submitted job ingests *)
(* at most once, alone, or is dropped.                                     *)
THEOREM ImplementsMutex ==
  ASSUME Unreplayed PROVE Spec => ImplementsIngestMutex
<1>1. Init => Mutex!Init
  BY DEF Init, Mutex!Init, Phase
<1>2. OnceInv /\ [Next]_vars => [Mutex!Next]_Phase
  BY PhaseStep
<1> QED BY <1>1, <1>2, OnceInvariant, PTL DEF Spec, ImplementsIngestMutex, Mutex!Spec

-----------------------------------------------------------------------------
(* Action properties, under every other combination of disturbances.       *)

(* A job is handed to ARQ at most once.                                    *)
Submitted == \A j \in Jobs : enq[j] # "idle" => arq[j] # "not_found"

LEMMA SubmittedStep ==
  ASSUME TypeInv, Submitted, [Next]_vars PROVE Submitted'
<1> USE DEF TypeInv, TypeOK, Submitted, webVars, arqVars, jobVars
<1>1. CASE UNCHANGED vars
  BY <1>1 DEF vars
<1>2. ASSUME NEW j \in Jobs, Enqueueing(j) \/ StartJob(j) PROVE Submitted'
  BY <1>2 DEF Enqueueing, EnqueueJob, RecordPending, CronFires, StartJob
<1>3. ASSUME NEW j \in Jobs, RunTask(j) PROVE Submitted'
  BY <1>3 DEF Finish, RunTask, CheckCancelled, CleanupGet, CleanupDelete, Acquire,
     InspectHolder, JudgeHolder, StealLock, Reacquire, SetNX, SkipJob, MarkRunning,
     FuncReturns, FuncRaises, FuncEnds, MarkCancelled, MarkFailed, MarkStopped,
     ReleaseAndRaise, ReleaseAndReturn, MarkCompleted
<1>4. ASSUME NEW j \in Jobs, Disturbing(j) \/ WebRequests(j) PROVE Submitted'
  BY <1>4 DEF Finish, Disturbing, RedisRaises, AbortDelivered, JobTimesOut, WorkerRestarts,
     Interrupted, WebRequests, CancelSync, CancelSyncAborts, StopTask, StopTaskRecords,
     FailStale, RequestAbort
<1>5. CASE WorkerCrashes \/ LockExpires \/ ScanStale \/ ClearHistory
  BY <1>5 DEF WorkerCrashes, LockExpires, ScanStale, ClearHistory
<1> QED BY <1>1, <1>2, <1>3, <1>4, <1>5 DEF Next

LEMMA CancelledStep ==
  ASSUME "clear" \notin Env, TypeInv, Submitted, [Next]_vars, NEW i \in Jobs, CancelledForGood(i)
  PROVE  CancelledForGood(i)' \/ RowUnread(i)
<1> USE DEF TypeInv, TypeOK, CancelledForGood, webVars, arqVars, jobVars
<1>1. CASE UNCHANGED vars
  BY <1>1 DEF vars
<1>2. ASSUME NEW j \in Jobs, Enqueueing(j) \/ StartJob(j) PROVE CancelledForGood(i)'
  BY <1>2 DEF Submitted, Enqueueing, EnqueueJob, RecordPending, CronFires, StartJob, Record,
     Goto
<1>3. ASSUME NEW j \in Jobs, RunTask(j) PROVE CancelledForGood(i)' \/ RowUnread(i)
  BY <1>3 DEF Finish, Goto, Record, RowUnread,
     RunTask, CheckCancelled, CleanupGet, CleanupDelete, Acquire, InspectHolder, JudgeHolder,
       StealLock, Reacquire, SetNX, SkipJob, MarkRunning, FuncReturns, FuncRaises, FuncEnds,
       MarkCancelled, MarkFailed, MarkStopped, ReleaseAndRaise, ReleaseAndReturn, MarkCompleted
<1>4. ASSUME NEW j \in Jobs, Disturbing(j) PROVE CancelledForGood(i)'
  BY <1>4 DEF Finish, Goto, AfterRedisError, Disturbing, RedisRaises, AbortDelivered,
     JobTimesOut, WorkerRestarts, Interrupted
<1>5. ASSUME NEW j \in Jobs, WebRequests(j) PROVE CancelledForGood(i)'
  BY <1>5 DEF Record, WebRequests, CancelSync, CancelSyncAborts, StopTask, StopTaskRecords,
     FailStale, RequestAbort
<1>6. CASE WorkerCrashes \/ LockExpires \/ ScanStale \/ ClearHistory
  BY <1>6 DEF WorkerCrashes, LockExpires, ScanStale, ClearHistory, GrownStale, Active
<1> QED BY <1>1, <1>2, <1>3, <1>4, <1>5, <1>6 DEF Next

(* "an explicitly cancelled job can never revive": a cancellation recorded *)
(* before the job has passed its cancellation check is final, whatever     *)
(* crashes, restarts, failed writes, Redis failures or stale-row passes    *)
(* follow; only a replay whose look-up of the row raises gets past it.     *)
THEOREM CancellationIsFinal ==
  ASSUME "clear" \notin Env PROVE Spec => CancellationWinsOnReplay
<1> DEFINE Inv == TypeInv /\ Submitted
<1>1. Init => Inv
  BY TypeInit DEF Init, Submitted
<1>2. Inv /\ [Next]_vars => Inv'
  BY TypeStep, SubmittedStep
<1>3. Inv /\ [Next]_vars =>
        [\A j \in Jobs : CancelledForGood(j) => CancelledForGood(j)' \/ RowUnread(j)]_vars
  BY CancelledStep
<1> QED BY <1>1, <1>2, <1>3, PTL DEF Spec, CancellationWinsOnReplay

(* The condition OwnerOrRecoverer puts on one step.                        *)
FreedRightly ==
    lock # NoToken /\ lock' # lock =>
      /\ lock' = NoToken
      /\ \/ LockExpires
         \/ \E j \in Jobs :
               /\ pc'[j] # pc[j]
               /\ \/ held[j] /\ lock = Token(j)
                  \/ pc[j] \in {"steal", "cleanup_del"} /\ lock = seen[j]

LEMMA FreedStep == ASSUME TypeInv, [Next]_vars PROVE FreedRightly
<1> USE DEF TypeInv, TypeOK, FreedRightly, webVars, arqVars, jobVars
<1>1. CASE UNCHANGED vars
  BY <1>1 DEF vars
<1>2. ASSUME NEW j \in Jobs, Enqueueing(j) \/ StartJob(j) \/ WebRequests(j) PROVE FreedRightly
  BY <1>2 DEF Enqueueing, EnqueueJob, RecordPending, CronFires, StartJob,
     WebRequests, CancelSync, CancelSyncAborts, StopTask, StopTaskRecords, FailStale
<1>3. ASSUME NEW j \in Jobs, RunTask(j) PROVE FreedRightly
  <2>1. CASE CleanupDelete(j) \/ StealLock(j)
    BY <2>1 DEF CleanupDelete, StealLock, CompareAndDelete, Finish, Goto
  <2>2. CASE ReleaseAndRaise(j) \/ ReleaseAndReturn(j)
    BY <2>2 DEF ReleaseAndRaise, ReleaseAndReturn, ReleaseLock, CompareAndDelete, Finish, Goto
  <2> QED
    BY <1>3, <2>1, <2>2 DEF RunTask, CheckCancelled, CleanupGet, Acquire, InspectHolder,
       JudgeHolder, Reacquire, SetNX, SkipJob, MarkRunning, FuncReturns, FuncRaises, FuncEnds,
       MarkCancelled, MarkFailed, MarkStopped, MarkCompleted
<1>4. ASSUME NEW j \in Jobs, Disturbing(j) PROVE FreedRightly
  BY <1>4 DEF SetReplyLost, Disturbing, RedisRaises, AbortDelivered, JobTimesOut,
     WorkerRestarts, Interrupted
<1>5. CASE WorkerCrashes \/ LockExpires \/ ScanStale \/ ClearHistory
  <2>1. CASE LockExpires
    BY <2>1 DEF LockExpires
  <2> QED BY <1>5, <2>1 DEF WorkerCrashes, ScanStale, ClearHistory
<1> QED BY <1>1, <1>2, <1>3, <1>4, <1>5 DEF Next

(* _TRIP_SYNC_LOCK_RELEASE_SCRIPT: under all disturbances together nobody  *)
(* frees a key that he neither owns nor has decided to recover.            *)
THEOREM LockFreedRightly == Spec => OwnerOrRecoverer
<1>1. TypeInv /\ [Next]_vars => [FreedRightly]_vars
  BY FreedStep
<1> QED BY <1>1, TypeInit, TypeStep, PTL DEF Spec, OwnerOrRecoverer, FreedRightly

-----------------------------------------------------------------------------
(* The history retries beside the jobs: for any number of executions of    *)
(* the cron job and under every disturbance at most one is inside          *)
(* run_due_retries.                                                        *)

(* Between the SET and the end of the try-block the key is the execution's *)
(* own, although a lock that is being released may have expired.           *)
RetryInv ==
    /\ rpc \in [Retries -> RetrySteps]
    /\ rlock \in Retries \cup {NoRetry}
    /\ \A r \in Retries : rpc[r] \in {"recheck", "run"} => rlock = r

LEMMA RetryInvStep ==
    ASSUME RetryInv, NEW r \in Retries, RetryStep(r)
    PROVE  RetryInv'
<1> USE DEF RetryInv, RGoto, RetrySteps
<1>1. CASE CronStartsRetry(r) \/ CheckSync(r)
  BY <1>1 DEF CronStartsRetry, CheckSync
<1>2. CASE AcquireRetry(r)
  BY <1>2, RetriesAssumption DEF AcquireRetry
<1>3. CASE RecheckSync(r) \/ RetriesEnd(r) \/ RetryVanishes(r)
  BY <1>3 DEF RecheckSync, RetriesEnd, RetryVanishes
<1>4. CASE ReleaseRetry(r)
  BY <1>4 DEF ReleaseRetry
<1>5. QED
  BY <1>1, <1>2, <1>3, <1>4 DEF RetryStep

(* RetryExclusive: the lock of retry_bouncie_history_windows keeps its     *)
(* executions apart, whatever dies or expires and whatever the jobs do,    *)
(* provided that the job timeout is not set beyond the TTL of that lock.   *)
THEOREM RetriesExclude ==
    ASSUME "overrun" \notin Env
    PROVE  GateSpec => []RetryExclusive
<1>1. GateInit => RetryInv
  BY DEF GateInit, RetryInv, RetrySteps
<1>2. RetryInv /\ [GateNext]_gateVars => RetryInv'
  <2>1. ASSUME RetryInv, NEW r \in Retries, RetryStep(r) PROVE RetryInv'
    BY <2>1, RetryInvStep
  <2>2. ASSUME RetryInv, RetryLockExpires PROVE RetryInv'
    BY <2>2 DEF RetryLockExpires, RetryInv
  <2>3. ASSUME RetryInv, UNCHANGED retryVars PROVE RetryInv'
    BY <2>3 DEF RetryInv, retryVars
  <2> QED BY <2>1, <2>2, <2>3 DEF GateNext, gateVars
<1>3. RetryInv => RetryExclusive
  BY DEF RetryInv, RetryExclusive
<1>4. QED
  BY <1>1, <1>2, <1>3, PTL DEF GateSpec

-----------------------------------------------------------------------------
(* The circuit breaker's state and its failure count agree for any number  *)
(* of callers, any threshold, recovery time and number of retries.         *)

BreakerInv == BreakerTypeOK /\ ClosedIffBelowThreshold

LEMMA BreakerStarts == BreakerInit => BreakerInv
  BY ThresholdAssumption, RecoveryAssumption, MaxRetriesAssumption
  DEF BreakerInit, BreakerInv, BreakerTypeOK, ClosedIffBelowThreshold, NoCall

LEMMA BreakerSteps == BreakerInv /\ [BreakerNext]_breakerVars => BreakerInv'
  <1> SUFFICES ASSUME BreakerInv, [BreakerNext]_breakerVars PROVE BreakerInv'
    OBVIOUS
  <1> USE ThresholdAssumption, RecoveryAssumption, MaxRetriesAssumption
      DEF BreakerInv, BreakerTypeOK, ClosedIffBelowThreshold, NoCall
  <1>1. ASSUME NEW c \in Callers, Call(c) PROVE BreakerInv'
    BY <1>1 DEF Call, CurrentState
  <1>2. ASSUME NEW c \in Callers, Succeeds(c) PROVE BreakerInv'
    BY <1>2 DEF Succeeds, RecordSuccess, Return
  <1>3. ASSUME NEW c \in Callers, AttemptFails(c) PROVE BreakerInv'
    BY <1>3 DEF AttemptFails
  <1>4. ASSUME NEW c \in Callers, CallFails(c) \/ CallInvalid(c) PROVE BreakerInv'
    <2>1. call' = [call EXCEPT ![c] = NoCall] /\ RecordFailure /\ up' = up
      BY <1>4 DEF CallFails, CallInvalid, Return
    <2>2. CASE (state = "closed" /\ failures + 1 >= Threshold) \/ state = "half-open"
      BY <2>1, <2>2 DEF RecordFailure, Open
    <2>3. CASE ~((state = "closed" /\ failures + 1 >= Threshold) \/ state = "half-open")
      BY <2>1, <2>3 DEF RecordFailure
    <2> QED BY <2>2, <2>3
  <1>5. ASSUME NEW c \in Callers, CallCancelled(c) PROVE BreakerInv'
    BY <1>5 DEF CallCancelled, Return
  <1>6. ASSUME Tick PROVE BreakerInv'
    BY <1>6 DEF Tick
  <1>7. ASSUME ServiceChanges PROVE BreakerInv'
    BY <1>7 DEF ServiceChanges
  <1>8. ASSUME UNCHANGED breakerVars PROVE BreakerInv'
    BY <1>8 DEF breakerVars
  <1> QED BY <1>1, <1>2, <1>3, <1>4, <1>5, <1>6, <1>7, <1>8 DEF BreakerNext

(* Every variable of the breaker keeps its type.                           *)
THEOREM BreakerTypes == BreakerSpec => []BreakerTypeOK
  <1>1. BreakerInv => BreakerTypeOK
    BY DEF BreakerInv
  <1> QED BY <1>1, BreakerStarts, BreakerSteps, PTL DEF BreakerSpec

(* The breaker is closed exactly while the recorded consecutive failures   *)
(* are below failure_threshold.                                            *)
THEOREM BreakerMatchesCount == BreakerSpec => []ClosedIffBelowThreshold
  <1>1. BreakerInv => ClosedIffBelowThreshold
    BY DEF BreakerInv
  <1> QED BY <1>1, BreakerStarts, BreakerSteps, PTL DEF BreakerSpec
=============================================================================
