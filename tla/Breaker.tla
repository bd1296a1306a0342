------------------------------ MODULE Breaker ------------------------------
(***************************************************************************)
(* The three-state circuit breaker of proxypool/pool/scoring.py, class     *)
(* CircuitBreaker, as operators on a record: every method of the class     *)
(* takes its lock for its whole body, so a call is one operator            *)
(* application.  Modules that keep breakers (CircuitBreaker, and the       *)
(* modules of the health manager) apply them to their own state.           *)
(*                                                                         *)
(* Time is discrete and relative: the code's absolute _backoff_until is    *)
(* the number of ticks left, 0 when the deadline has passed and NoBackoff  *)
(* when the attribute is None.  The two counters the code lets grow        *)
(* without bound saturate at CounterCap, which is at least both            *)
(* thresholds they are compared with, so no comparison can tell.           *)
(***************************************************************************)
EXTENDS Integers

CONSTANTS
  FailureThreshold,    \* CircuitBreakerConfig.failure_threshold
  RecoveryThreshold,   \* CircuitBreakerConfig.recovery_threshold
  HalfOpenMaxProbes,   \* CircuitBreakerConfig.half_open_max_probes
  InitialBackoff,      \* CircuitBreakerConfig.initial_backoff_sec, in ticks
  MaxBackoff,          \* CircuitBreakerConfig.max_backoff_sec, in ticks
  CounterCap           \* saturation of the failure and success counters

ASSUME BreakerConfigAssumption ==
  /\ FailureThreshold \in Nat \ {0}
  /\ RecoveryThreshold \in Nat \ {0}
  /\ HalfOpenMaxProbes \in Nat
  /\ InitialBackoff \in Nat
  /\ MaxBackoff \in Nat
  /\ InitialBackoff <= MaxBackoff
  /\ CounterCap \in Nat
  /\ FailureThreshold <= CounterCap
  /\ RecoveryThreshold <= CounterCap

NoBackoff == -1

CircuitState == {"closed", "open", "half_open"}

(* The attributes of a breaker.  The three timestamps that no method reads *)
(* back (_last_failure_time, _last_success_time, _open_since) are left out.*)
BreakerRecord ==
  [state      : CircuitState,
   failures   : 0 .. CounterCap,        \* _failure_count
   successes  : 0 .. CounterCap,        \* _consecutive_successes
   probes     : 0 .. CounterCap,        \* _half_open_probes
   backoff    : NoBackoff .. MaxBackoff,
   curBackoff : 0 .. MaxBackoff]        \* _current_backoff_sec

NewBreaker ==
  [state |-> "closed", failures |-> 0, successes |-> 0, probes |-> 0,
   backoff |-> NoBackoff, curBackoff |-> InitialBackoff]

Count(n) == IF n < CounterCap THEN n + 1 ELSE n

-----------------------------------------------------------------------------
(* The transitions.  TransitionToOpen leaves curBackoff as it is;           *)
(* TransitionToClosed resets everything but the probe count.               *)

TransitionToOpen(b) ==
  [state |-> "open", failures |-> b.failures, successes |-> b.successes,
   probes |-> 0, backoff |-> b.curBackoff, curBackoff |-> b.curBackoff]

(* Mutant: successes recorded while open count towards recovery.           *)
TransitionToHalfOpen_KeepsSuccesses(b) ==
  [state |-> "half_open", failures |-> b.failures, successes |-> b.successes,
   probes |-> 0, backoff |-> NoBackoff, curBackoff |-> b.curBackoff]

TransitionToHalfOpen(b) ==
  [state |-> "half_open", failures |-> b.failures, successes |-> 0,
   probes |-> 0, backoff |-> NoBackoff, curBackoff |-> b.curBackoff]

TransitionToClosed(b) == [NewBreaker EXCEPT !.probes = b.probes]

(* The lazy timeout: an open breaker becomes half-open when somebody reads *)
(* its state after the deadline, never on its own.                         *)
CheckOpenTimeout(b) ==
  IF b.state = "open" /\ b.backoff = 0 THEN TransitionToHalfOpen(b) ELSE b

-----------------------------------------------------------------------------
(* The public methods.  Neither record method checks the timeout: a result *)
(* recorded while the breaker is open only moves the counters.             *)

AfterSuccess(b) ==
  LET counted == [b EXCEPT !.successes = Count(@)]
      probed  == [counted EXCEPT !.probes = Count(@)]
  IN  IF b.state = "closed" THEN [counted EXCEPT !.failures = 0]
      ELSE IF b.state = "open" THEN counted
      ELSE IF probed.successes >= RecoveryThreshold THEN TransitionToClosed(probed)
      ELSE probed

AfterFailure(b) ==
  LET counted == [b EXCEPT !.failures = Count(@), !.successes = 0]
      trips   == \/ b.state = "half_open"
                 \/ b.state = "closed" /\ counted.failures >= FailureThreshold
  IN  IF trips THEN TransitionToOpen(counted) ELSE counted

AllowsProbe(b) ==
  LET c == CheckOpenTimeout(b)
  IN  \/ c.state = "closed"
      \/ c.state = "half_open" /\ c.probes < HalfOpenMaxProbes

(* Mutant: the deadline is not restored.                                   *)
Restored_NoDeadline(saved) == [saved EXCEPT !.probes = 0, !.backoff = NoBackoff]

(* restore_state on a fresh breaker: everything but the probe count comes  *)
(* from the persisted row; a fresh breaker's probe count is 0 already.     *)
Restored(saved) == [saved EXCEPT !.probes = 0]

(* One tick of the wall clock, seen by a deadline.                         *)
Elapse(b) == IF b.backoff > 0 THEN [b EXCEPT !.backoff = @ - 1] ELSE b
=============================================================================
