------------------------ MODULE CircuitBreakerProofs ------------------------
(***************************************************************************)
(* Safety of CircuitBreaker for every configuration.  The invariants of    *)
(* the runs are not inductive: that a half-open breaker has been quiet for *)
(* the whole backoff needs the sum of the time waited and the time left    *)
(* while it is open, that it admits a probe needs the relation between the *)
(* probe and success counters, and both must hold of the row as well as of *)
(* the breaker because a restart swaps them.                               *)
(***************************************************************************)
EXTENDS CircuitBreaker, TLAPS

(* What a breaker b satisfies that opened q ticks ago and has seen t       *)
(* successes in a row since it went half-open.                             *)
Sound(b, q, t) ==
  /\ b.curBackoff = InitialBackoff
  /\ b.state = "closed" => b.failures < FailureThreshold
  /\ b.state = "open" => /\ b.backoff \in 0 .. InitialBackoff
                         /\ b.backoff + q >= InitialBackoff
  /\ b.state = "half_open" => /\ b.probes <= b.successes
                              /\ b.successes < RecoveryThreshold
                              /\ b.successes <= t
                              /\ q = InitialBackoff

-----------------------------------------------------------------------------
(* A new breaker is sound.                                                 *)
LEMMA NewBreakerSound ==
  /\ NewBreaker \in BreakerRecord
  /\ Sound(NewBreaker, 0, 0)
BY BreakerConfigAssumption
   DEF NewBreaker, BreakerRecord, CircuitState, Sound, NoBackoff

(* The lazy timeout keeps a breaker sound: it fires only when no waiting   *)
(* time is left, so all of the backoff has been served.                    *)
LEMMA CheckOpenTimeoutSound ==
  ASSUME NEW b \in BreakerRecord, NEW q \in 0 .. InitialBackoff,
         NEW t \in 0 .. CounterCap, Sound(b, q, t)
  PROVE  /\ CheckOpenTimeout(b) \in BreakerRecord
         /\ Sound(CheckOpenTimeout(b), q, t)
BY BreakerConfigAssumption
   DEF CheckOpenTimeout, TransitionToHalfOpen, BreakerRecord, CircuitState,
       Sound, NoBackoff

(* Counting saturates, and is exact below the cap.                         *)
LEMMA CountFacts ==
  ASSUME NEW n \in 0 .. CounterCap
  PROVE  /\ Count(n) \in 0 .. CounterCap
         /\ n < CounterCap => Count(n) = n + 1
         /\ n <= Count(n)
BY BreakerConfigAssumption DEF Count

(* A recorded success keeps a breaker sound when the successes seen since  *)
(* it went half-open are counted along.                                    *)
LEMMA AfterSuccessSound ==
  ASSUME NEW b \in BreakerRecord, NEW q \in 0 .. InitialBackoff,
         NEW t \in 0 .. CounterCap, Sound(b, q, t)
  PROVE  LET u == IF b.state = "half_open" THEN Count(t) ELSE 0
         IN  /\ AfterSuccess(b) \in BreakerRecord
             /\ Sound(AfterSuccess(b), q, u)
             /\ u \in 0 .. CounterCap
             /\ (b.state # "closed" /\ AfterSuccess(b).state = "closed")
                  => u >= RecoveryThreshold
<1> DEFINE counted == [b EXCEPT !.successes = Count(b.successes)]
           probed  == [counted EXCEPT !.probes = Count(b.probes)]
<1>1. /\ b.successes \in 0 .. CounterCap
      /\ b.probes \in 0 .. CounterCap
      /\ b.state \in CircuitState
  BY DEF BreakerRecord
<1>2. /\ Count(b.successes) \in 0 .. CounterCap
      /\ Count(b.probes) \in 0 .. CounterCap
  BY <1>1, CountFacts
<1>3. counted \in BreakerRecord /\ probed \in BreakerRecord
  BY <1>2 DEF BreakerRecord
<1>4. CASE b.state = "closed"
  <2>1. AfterSuccess(b) = [counted EXCEPT !.failures = 0]
    BY <1>4 DEF AfterSuccess
  <2>2. QED
    <3> HIDE DEF counted
    <3>1. counted.state = "closed" /\ counted.curBackoff = b.curBackoff
      BY <1>4 DEF counted, BreakerRecord
    <3>2. [counted EXCEPT !.failures = 0] \in BreakerRecord
      BY <1>3, BreakerConfigAssumption DEF BreakerRecord
    <3>3. /\ AfterSuccess(b).state = "closed"
          /\ AfterSuccess(b).failures = 0
          /\ AfterSuccess(b).curBackoff = InitialBackoff
      BY <1>3, <2>1, <3>1 DEF BreakerRecord, Sound
    <3>4. QED
      BY <2>1, <3>2, <3>3, <1>4, BreakerConfigAssumption DEF Sound
<1>5. CASE b.state = "half_open"
  <2>1. AfterSuccess(b) = IF probed.successes >= RecoveryThreshold
                          THEN [NewBreaker EXCEPT !.probes = probed.probes]
                          ELSE probed
    BY <1>5 DEF AfterSuccess, TransitionToClosed, BreakerRecord
  <2>2. /\ probed.successes = Count(b.successes)
        /\ probed.probes = Count(b.probes)
        /\ probed.state = "half_open"
        /\ probed.curBackoff = b.curBackoff
    BY <1>5 DEF BreakerRecord
  <2>3. /\ Count(b.successes) = b.successes + 1
        /\ Count(b.probes) = b.probes + 1
        /\ Count(t) \in 0 .. CounterCap
        /\ Count(b.successes) <= Count(t)
    BY <1>1, <1>5, BreakerConfigAssumption DEF Sound, Count
  <2>4. CASE probed.successes >= RecoveryThreshold
    BY <1>2, <1>5, <2>1, <2>2, <2>3, <2>4, BreakerConfigAssumption
       DEF Sound, NewBreaker, BreakerRecord, CircuitState, NoBackoff
  <2>5. CASE ~(probed.successes >= RecoveryThreshold)
    <3>1. AfterSuccess(b) = probed
      BY <2>1, <2>5
    <3> HIDE DEF probed
    <3>2. QED
      BY <1>1, <1>2, <1>3, <1>5, <2>2, <2>3, <2>5, <3>1, BreakerConfigAssumption DEF Sound
  <2>6. QED
    BY <2>4, <2>5
<1>6. CASE b.state = "open"
  <2>1. AfterSuccess(b) = counted
    BY <1>6 DEF AfterSuccess
  <2>2. QED
    BY <2>1, <1>2, <1>3, <1>6, BreakerConfigAssumption DEF Sound, BreakerRecord
<1>7. QED
  BY <1>1, <1>4, <1>5, <1>6 DEF CircuitState

(* A recorded failure keeps a breaker sound when the waiting time starts   *)
(* again as it trips.                                                      *)
LEMMA AfterFailureSound ==
  ASSUME NEW b \in BreakerRecord, NEW q \in 0 .. InitialBackoff,
         NEW t \in 0 .. CounterCap, Sound(b, q, t)
  PROVE  LET f == AfterFailure(b)
             p == IF b.state # "open" /\ f.state = "open" THEN 0 ELSE q
         IN  /\ f \in BreakerRecord
             /\ Sound(f, p, 0)
<1> DEFINE counted == [b EXCEPT !.failures = Count(b.failures), !.successes = 0]
<1>1. b.failures \in 0 .. CounterCap /\ b.state \in CircuitState
  BY DEF BreakerRecord
<1>2. Count(b.failures) \in 0 .. CounterCap
  BY <1>1, CountFacts
<1>3. counted \in BreakerRecord
  <2> DEFINE failed == [b EXCEPT !.failures = Count(b.failures)]
  <2>1. failed \in BreakerRecord
    BY <1>2 DEF BreakerRecord
  <2>2. counted = [failed EXCEPT !.successes = 0]
    OBVIOUS
  <2> HIDE DEF failed, counted
  <2>3. QED
    BY <2>1, <2>2, BreakerConfigAssumption DEF BreakerRecord
<1>4. /\ counted \in BreakerRecord
      /\ counted.state = b.state
      /\ counted.failures = Count(b.failures)
      /\ counted.backoff = b.backoff
      /\ counted.curBackoff = InitialBackoff
  BY <1>3 DEF BreakerRecord, Sound
<1>5. /\ TransitionToOpen(counted) \in BreakerRecord
      /\ TransitionToOpen(counted).state = "open"
      /\ Sound(TransitionToOpen(counted), 0, 0)
  <2> HIDE DEF counted
  <2> QED
    BY <1>4, BreakerConfigAssumption
       DEF TransitionToOpen, BreakerRecord, CircuitState, Sound, NoBackoff
<1>6. AfterFailure(b) = IF \/ b.state = "half_open"
                           \/ b.state = "closed" /\ counted.failures >= FailureThreshold
                        THEN TransitionToOpen(counted) ELSE counted
  BY DEF AfterFailure
<1> HIDE DEF counted
<1>7. CASE \/ b.state = "half_open"
           \/ b.state = "closed" /\ counted.failures >= FailureThreshold
  BY <1>5, <1>6, <1>7
<1>8. CASE ~(\/ b.state = "half_open"
             \/ b.state = "closed" /\ counted.failures >= FailureThreshold)
  BY <1>1, <1>2, <1>4, <1>6, <1>8, BreakerConfigAssumption DEF Sound, CircuitState
<1>9. QED
  BY <1>7, <1>8

(* Time moves from the waiting time left to the time waited.               *)
LEMMA ElapseSound ==
  ASSUME NEW b \in BreakerRecord, NEW q \in 0 .. InitialBackoff,
         NEW t \in 0 .. CounterCap, Sound(b, q, t)
  PROVE  LET r == IF q < InitialBackoff THEN q + 1 ELSE q
         IN  /\ Elapse(b) \in BreakerRecord
             /\ r \in 0 .. InitialBackoff
             /\ Sound(Elapse(b), r, t)
BY BreakerConfigAssumption
   DEF Elapse, BreakerRecord, CircuitState, Sound, NoBackoff

(* Forced transitions and a restart keep a breaker sound.                  *)
LEMMA ForcedSound ==
  ASSUME NEW b \in BreakerRecord, NEW q \in 0 .. InitialBackoff,
         NEW t \in 0 .. CounterCap, Sound(b, q, t)
  PROVE  /\ TransitionToOpen(b) \in BreakerRecord
         /\ Sound(TransitionToOpen(b), 0, 0)
         /\ TransitionToClosed(b) \in BreakerRecord
         /\ Sound(TransitionToClosed(b), q, t)
         /\ Restored(b) \in BreakerRecord
         /\ Sound(Restored(b), q, t)
BY BreakerConfigAssumption
   DEF TransitionToOpen, TransitionToClosed, NewBreaker, Restored, BreakerRecord,
       CircuitState, Sound, NoBackoff

-----------------------------------------------------------------------------
(* The invariant.                                                          *)

IInv ==
  /\ TypeOK
  /\ Sound(breaker, quiet, trial)
  /\ Sound(row, rowQuiet, rowTrial)

-----------------------------------------------------------------------------
(* IInv holds initially.                                                   *)
LEMMA InitIInv == Init => IInv
<1> SUFFICES ASSUME Init PROVE IInv
  OBVIOUS
<1>1. /\ Sound(breaker, quiet, trial)
      /\ Sound(row, rowQuiet, rowTrial)
      /\ breaker \in BreakerRecord
      /\ row \in BreakerRecord
  BY NewBreakerSound, Zenon DEF Init
<1>2. TypeOK
  <2>1. /\ 0 \in 0 .. CounterCap
        /\ 0 \in 0 .. InitialBackoff
        /\ 0 \in 0 .. MaxRestarts
    BY BreakerConfigAssumption, MaxRestartsAssumption
  <2>2. QED
    BY <1>1, <2>1, Zenon DEF Init, TypeOK
<1>3. QED
  BY <1>1, <1>2 DEF IInv

(* IInv is inductive.                                                      *)
LEMMA NextIInv == IInv /\ [Next]_vars => IInv'
<1> SUFFICES ASSUME IInv, [Next]_vars PROVE IInv'
  OBVIOUS
<1> USE BreakerConfigAssumption, MaxRestartsAssumption DEF IInv, TypeOK
<1>1. CASE Tick
  BY <1>1, ElapseSound DEF Tick, QuietTick
<1>2. CASE ProbeSucceeds
  <2> DEFINE before == CheckOpenTimeout(breaker)
             u == IF before.state = "half_open" THEN Count(trial) ELSE 0
  <2>1. before \in BreakerRecord /\ Sound(before, quiet, trial)
    BY CheckOpenTimeoutSound
  <2>2. /\ AfterSuccess(before) \in BreakerRecord
        /\ Sound(AfterSuccess(before), quiet, u)
        /\ u \in 0 .. CounterCap
    BY <2>1, AfterSuccessSound
  <2>3. /\ breaker' \in BreakerRecord
        /\ Sound(breaker', quiet, u)
    BY <1>2, <2>2, CheckOpenTimeoutSound DEF ProbeSucceeds
  <2>4. trial' = u /\ UNCHANGED <<persisted, quiet, healthy, restarts>> /\ unsaved' = TRUE
    BY <1>2 DEF ProbeSucceeds
  <2>5. QED
    BY <2>2, <2>3, <2>4 DEF persisted
<1>3. CASE ProbeFails
  <2> DEFINE before == CheckOpenTimeout(breaker)
             failed == AfterFailure(before)
             p == IF before.state # "open" /\ failed.state = "open" THEN 0 ELSE quiet
  <2>1. before \in BreakerRecord /\ Sound(before, quiet, trial)
    BY CheckOpenTimeoutSound
  <2>2. failed \in BreakerRecord /\ Sound(failed, p, 0)
    BY <2>1, AfterFailureSound
  <2>3. breaker' \in BreakerRecord /\ Sound(breaker', p, 0)
    BY <1>3, <2>2, CheckOpenTimeoutSound DEF ProbeFails
  <2>4. trial' = 0 /\ quiet' = p /\ unsaved' = TRUE /\ UNCHANGED <<persisted, healthy, restarts>>
    BY <1>3 DEF ProbeFails
  <2>5. QED
    BY <2>3, <2>4 DEF persisted
<1>4. CASE Persist
  BY <1>4, CheckOpenTimeoutSound DEF Persist
<1>5. CASE ReadState
  BY <1>5, CheckOpenTimeoutSound DEF ReadState, persisted
<1>6. CASE Forced
  BY <1>6, ForcedSound DEF Forced, ForceOpen, ForceClose, persisted
<1>7. CASE Restart
  <2>1. Restored(row) \in BreakerRecord /\ Sound(Restored(row), rowQuiet, rowTrial)
    BY ForcedSound
  <2>2. /\ breaker' = Restored(row) /\ trial' = rowTrial /\ quiet' = rowQuiet
        /\ unsaved' = FALSE /\ healthy' = healthy
        /\ row' = row /\ rowTrial' = rowTrial /\ rowQuiet' = rowQuiet
        /\ restarts' = restarts + 1 /\ restarts < MaxRestarts
    BY <1>7 DEF Restart, persisted
  <2>3. restarts' \in 0 .. MaxRestarts
    BY <2>2
  <2>4. QED
    BY <2>1, <2>2, <2>3
<1>8. CASE NodeRecovers
  BY <1>8 DEF NodeRecovers, persisted
<1>9. CASE UNCHANGED vars
  BY <1>9 DEF vars
<1>10. QED
  BY <1>1, <1>2, <1>3, <1>4, <1>5, <1>6, <1>7, <1>8, <1>9 DEF Next

LEMMA Inductive == Spec => []IInv
BY InitIInv, NextIInv, PTL DEF Spec

-----------------------------------------------------------------------------
(* Types, for every configuration.                                         *)
THEOREM TypeCorrect == Spec => []TypeOK
<1>1. IInv => TypeOK
  BY DEF IInv
<1>2. QED
  BY <1>1, Inductive, PTL

(* A closed breaker, in memory or in its row, is below its threshold.      *)
THEOREM ClosedIsBelowThreshold == Spec => []ClosedBelowThreshold
<1>1. IInv => ClosedBelowThreshold
  BY DEF IInv, Sound, ClosedBelowThreshold
<1>2. QED
  BY <1>1, Inductive, PTL

(* An open breaker always has a deadline after which it can be tried.      *)
THEOREM OpenBreakerHasDeadline == Spec => []OpenHasDeadline
<1>1. IInv => OpenHasDeadline
  BY BreakerConfigAssumption DEF IInv, Sound, OpenHasDeadline, NoBackoff
<1>2. QED
  BY <1>1, Inductive, PTL

(* The probe budget never locks a half-open breaker that could recover.    *)
THEOREM HalfOpenBreakerAdmitsProbe == Spec => []HalfOpenAdmitsProbe
<1>1. IInv => HalfOpenAdmitsProbe
  BY BreakerConfigAssumption
     DEF IInv, TypeOK, BreakerRecord, Sound, HalfOpenAdmitsProbe, AllowsProbe,
         CheckOpenTimeout
<1>2. QED
  BY <1>1, Inductive, PTL

(* A half-open breaker has served its backoff, restarts included.          *)
THEOREM HalfOpenServedBackoff == Spec => []HalfOpenAfterBackoff
<1>1. IInv => HalfOpenAfterBackoff
  BY DEF IInv, Sound, HalfOpenAfterBackoff
<1>2. QED
  BY <1>1, Inductive, PTL

(* All of it at once.                                                      *)
THEOREM BreakersAreSound == Spec => []BreakerIsSound
<1>1. TypeOK /\ ClosedBelowThreshold /\ OpenHasDeadline /\ HalfOpenAdmitsProbe
        /\ HalfOpenAfterBackoff => BreakerIsSound
  BY DEF BreakerIsSound
<1>2. QED
  BY <1>1, TypeCorrect, ClosedIsBelowThreshold, OpenBreakerHasDeadline,
     HalfOpenBreakerAdmitsProbe, HalfOpenServedBackoff, PTL

(* Probe results close a tripped breaker only after a full trial.          *)
THEOREM ClosingNeedsTrial == Spec => ClosesAfterTrial
<1> DEFINE Step == ProbeSucceeds /\ breaker.state # "closed" /\ breaker'.state = "closed"
                     => trial' >= RecoveryThreshold
<1>1. IInv /\ [Next]_vars => [Step]_vars
  <2> SUFFICES ASSUME IInv, ProbeSucceeds, breaker.state # "closed",
                      breaker'.state = "closed"
               PROVE  trial' >= RecoveryThreshold
    OBVIOUS
  <2> DEFINE before == CheckOpenTimeout(breaker)
  <2>1. before \in BreakerRecord /\ Sound(before, quiet, trial)
    BY CheckOpenTimeoutSound DEF IInv, TypeOK
  <2>2. before.state # "closed"
    BY DEF CheckOpenTimeout, TransitionToHalfOpen, IInv, TypeOK, BreakerRecord
  <2>3. AfterSuccess(before) \in BreakerRecord
    BY <2>1, AfterSuccessSound DEF IInv, TypeOK
  <2>4. AfterSuccess(before).state = "closed"
    BY <2>3 DEF ProbeSucceeds, CheckOpenTimeout, TransitionToHalfOpen, BreakerRecord
  <2>5. QED
    BY <2>1, <2>2, <2>4, AfterSuccessSound DEF ProbeSucceeds, IInv, TypeOK
<1>2. QED
  BY <1>1, Inductive, PTL DEF Spec, ClosesAfterTrial
=============================================================================
