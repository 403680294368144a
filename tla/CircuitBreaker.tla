--------------------------- MODULE CircuitBreaker ---------------------------
(***************************************************************************)
(* core/http/circuit_breaker.py: one breaker shared by every coroutine     *)
(* that calls Valhalla (or Nominatim), with the retries of                 *)
(* core/http/retry.py inside each guarded call.                            *)
(*                                                                         *)
(* The breaker's methods do not await, so each is atomic; between the      *)
(* check and the record of one call any number of other calls, and any     *)
(* amount of time, may pass.                                               *)
(***************************************************************************)
EXTENDS Naturals

CONSTANTS
    Callers,    \* coroutines that call the service
    Threshold,  \* failure_threshold
    Recovery,   \* recovery_timeout, in ticks
    MaxRetries, \* max_retries of retry_async
    BadInput    \* whether callers may pass arguments the client refuses itself

ASSUME ThresholdAssumption == Threshold \in Nat \ {0}
ASSUME RecoveryAssumption == Recovery \in Nat
ASSUME MaxRetriesAssumption == MaxRetries \in Nat
ASSUME BadInputAssumption == BadInput \in BOOLEAN

VARIABLES
    state,     \* _state
    failures,  \* _failures, counted up to Threshold: the code only asks whether it is reached
    age,       \* monotonic() - _opened_at, counted up to Recovery; 0 while _opened_at is None
    call,      \* attempts left of each caller's call, NoCall outside a call
    up         \* the service works

breakerVars == <<state, failures, age, call, up>>

NoCall == MaxRetries + 1

BreakerTypeOK ==
    /\ state \in {"closed", "open", "half-open"}
    /\ failures \in 0..Threshold
    /\ age \in 0..Recovery
    /\ call \in [Callers -> 0..NoCall]
    /\ up \in BOOLEAN

BreakerInit ==
    /\ state = "closed"
    /\ failures = 0
    /\ age = 0
    /\ call = [c \in Callers |-> NoCall]
    /\ up = TRUE

-----------------------------------------------------------------------------

(* Mutant: the recovery timeout is never found to have passed.             *)
NeverElapsed == state

(* The state property: an open breaker turns half-open when it is read     *)
(* after the recovery timeout.                                             *)
CurrentState == IF state = "open" /\ age = Recovery THEN "half-open" ELSE state

(* Mutant: the failure count survives a success.                           *)
SuccessKeepsCount ==
    /\ state' = "closed"
    /\ age' = 0
    /\ UNCHANGED failures

(* record_success closes the breaker from whatever state it is in.         *)
RecordSuccess ==
    /\ state' = "closed"
    /\ failures' = 0
    /\ age' = 0

Open == state' = "open" /\ age' = 0

(* record_failure looks at the stored _state: a failure that arrives while *)
(* the breaker is open only counts.                                        *)
RecordFailure ==
    /\ failures' = IF failures < Threshold THEN failures + 1 ELSE failures
    /\ IF (state = "closed" /\ failures + 1 >= Threshold) \/ state = "half-open"
       THEN Open
       ELSE UNCHANGED <<state, age>>

-----------------------------------------------------------------------------
(* with_circuit_breaker around retry_async around one request.             *)

(* Mutant: every call is granted one attempt too many, twice over.         *)
CallTriesTooOften(c) ==
    /\ call[c] = NoCall
    /\ state' = CurrentState
    /\ call' = IF CurrentState = "open" THEN call ELSE [call EXCEPT ![c] = MaxRetries + 2]
    /\ UNCHANGED <<failures, age, up>>

(* check: a rejected call ends at once, an admitted one has MaxRetries     *)
(* further attempts, whatever the breaker does meanwhile.                  *)
Call(c) ==
    /\ call[c] = NoCall
    /\ state' = CurrentState
    /\ call' = IF CurrentState = "open" THEN call ELSE [call EXCEPT ![c] = MaxRetries]
    /\ UNCHANGED <<failures, age, up>>

Return(c) == call' = [call EXCEPT ![c] = NoCall]

Succeeds(c) ==
    /\ call[c] # NoCall
    /\ up
    /\ RecordSuccess
    /\ Return(c)
    /\ UNCHANGED up

(* A transport error is retried while attempts are left.                   *)
AttemptFails(c) ==
    /\ call[c] \in 1..MaxRetries
    /\ ~up
    /\ call' = [call EXCEPT ![c] = @ - 1]
    /\ UNCHANGED <<state, failures, age, up>>

(* The last attempt, or an error that is not retried (a timeout or an HTTP *)
(* status, both raised as ExternalServiceException).                       *)
CallFails(c) ==
    /\ call[c] # NoCall
    /\ ~up
    /\ RecordFailure
    /\ Return(c)
    /\ UNCHANGED up

(* ValhallaClient.route raises for fewer than two locations before any     *)
(* request is sent; the breaker counts that like a failure of the service. *)
CallInvalid(c) ==
    /\ BadInput
    /\ call[c] = MaxRetries
    /\ RecordFailure
    /\ Return(c)
    /\ UNCHANGED up

(* CancelledError is no Exception: nothing is recorded.                    *)
CallCancelled(c) ==
    /\ call[c] # NoCall
    /\ Return(c)
    /\ UNCHANGED <<state, failures, age, up>>

Tick ==
    /\ state = "open"
    /\ age < Recovery
    /\ age' = age + 1
    /\ UNCHANGED <<state, failures, call, up>>

ServiceChanges ==
    /\ up' = ~up
    /\ UNCHANGED <<state, failures, age, call>>

BreakerNext ==
    \/ \E c \in Callers : \/ Call(c) \/ Succeeds(c) \/ AttemptFails(c)
                          \/ CallFails(c) \/ CallInvalid(c) \/ CallCancelled(c)
    \/ Tick
    \/ ServiceChanges

BreakerSpec == BreakerInit /\ [][BreakerNext]_breakerVars

(* Time passes, there is demand, and calls of a working service succeed    *)
(* unless every one of them is cancelled.                                  *)
BreakerFairness ==
    /\ WF_breakerVars(Tick)
    /\ \A c \in Callers : WF_breakerVars(Call(c)) /\ SF_breakerVars(Succeeds(c))

BreakerFairSpec == BreakerSpec /\ BreakerFairness
-----------------------------------------------------------------------------

(* The breaker is closed exactly while fewer than failure_threshold        *)
(* consecutive failures have been recorded, however calls overlap: it      *)
(* never lets calls pass although the limit is reached, and it is never    *)
(* open or half-open without that many failures (record_failure,           *)
(* record_success).                                                        *)
ClosedIffBelowThreshold == state = "closed" <=> failures < Threshold

(* A service that recovers is used again: once it stays up, and no call is *)
(* refused for its arguments, the breaker ends up closed, whatever late    *)
(* failures and cancelled probes went before.                              *)
RecoversWithService ==
    /\ <>[]up
    /\ <>[][\A c \in Callers : ~CallInvalid(c)]_breakerVars
    => <>[](state = "closed")

(* "Three-state circuit breaker: closed -> open -> half-open -> closed":   *)
(* an open breaker is never closed without having been half-open.          *)
(* Does not hold: a call admitted earlier may succeed late.                *)
ProbedBeforeClosing == [][state = "open" => state' # "closed"]_breakerVars
=============================================================================
