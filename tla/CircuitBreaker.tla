--------------------------- MODULE CircuitBreaker ---------------------------
(***************************************************************************)
(* The life of one node's breaker: the probe results the health manager    *)
(* records, the wall clock, the row it persists after each result          *)
(* (health_manager.py _update_node_health, step 7) and the restarts after  *)
(* which _restore_state rebuilds the breaker from that row.                *)
(*                                                                         *)
(* Breakers are updated by the probe loop's single thread, so the row is a *)
(* consistent snapshot; but the process may die between recording a result *)
(* and persisting it, so the row may be older than the breaker.            *)
(***************************************************************************)
EXTENDS Breaker

CONSTANTS MaxRestarts    \* bound on the number of process restarts

ASSUME MaxRestartsAssumption == MaxRestarts \in Nat

VARIABLES
  breaker,     \* the breaker in memory
  row,         \* its row of circuit_breaker_state; NewBreaker when there is none
  unsaved,     \* a result was recorded that step 7 has not persisted yet
  trial,       \* history: successes in a row since the breaker went half-open
  rowTrial,    \* history: trial at the time the row was written
  quiet,       \* history: ticks since the breaker last opened, up to InitialBackoff
  rowQuiet,    \* history: the same for the breaker as it is in the row
  healthy,     \* environment: from now on every probe of the node succeeds
  restarts     \* restarts so far

vars == <<breaker, row, unsaved, trial, rowTrial, quiet, rowQuiet, healthy, restarts>>

persisted == <<row, rowTrial, rowQuiet>>

Init ==
  /\ breaker = NewBreaker
  /\ row = NewBreaker
  /\ unsaved = FALSE
  /\ trial = 0 /\ rowTrial = 0
  /\ quiet = 0 /\ rowQuiet = 0
  /\ healthy = FALSE
  /\ restarts = 0

-----------------------------------------------------------------------------
QuietTick(q) == IF q < InitialBackoff THEN q + 1 ELSE q

(* One tick passes, for the breaker in memory and for the deadline in the  *)
(* row, which is an absolute time.                                         *)
Tick ==
  /\ breaker' = Elapse(breaker)
  /\ row' = Elapse(row)
  /\ quiet' = QuietTick(quiet)
  /\ rowQuiet' = QuietTick(rowQuiet)
  /\ UNCHANGED <<unsaved, trial, rowTrial, healthy, restarts>>

(* The health manager reads the state, records the outcome of a probe and  *)
(* reads the state again (health_manager.py 402-407).                      *)
ProbeSucceeds ==
  LET before == CheckOpenTimeout(breaker)
  IN  /\ ~unsaved
      /\ breaker' = CheckOpenTimeout(AfterSuccess(before))
      /\ trial' = IF before.state = "half_open" THEN Count(trial) ELSE 0
      /\ unsaved' = TRUE
      /\ UNCHANGED <<persisted, quiet, healthy, restarts>>

ProbeFails ==
  LET before == CheckOpenTimeout(breaker)
      failed == AfterFailure(before)
  IN  /\ ~unsaved
      /\ ~healthy
      /\ breaker' = CheckOpenTimeout(failed)
      /\ trial' = 0
      /\ quiet' = IF before.state # "open" /\ failed.state = "open" THEN 0 ELSE quiet
      /\ unsaved' = TRUE
      /\ UNCHANGED <<persisted, healthy, restarts>>

(* The result is persisted; reading the state may take the lazy timeout.   *)
Persist ==
  LET current == CheckOpenTimeout(breaker)
  IN  /\ unsaved
      /\ breaker' = current
      /\ row' = current
      /\ rowTrial' = trial
      /\ rowQuiet' = quiet
      /\ unsaved' = FALSE
      /\ UNCHANGED <<trial, quiet, healthy, restarts>>

(* Anyone who reads the state, is_open or is_allow_probe.                  *)
ReadState ==
  /\ breaker' = CheckOpenTimeout(breaker)
  /\ UNCHANGED <<persisted, unsaved, trial, quiet, healthy, restarts>>

ForceOpen ==
  /\ breaker' = TransitionToOpen(breaker)
  /\ trial' = 0
  /\ quiet' = 0
  /\ UNCHANGED <<persisted, unsaved, healthy, restarts>>

ForceClose ==
  /\ breaker' = TransitionToClosed(breaker)
  /\ UNCHANGED <<persisted, unsaved, trial, quiet, healthy, restarts>>

(* The process dies, with whatever was not persisted, and starts again.    *)
Restart ==
  /\ restarts < MaxRestarts
  /\ restarts' = restarts + 1
  /\ breaker' = Restored(row)
  /\ trial' = rowTrial
  /\ quiet' = rowQuiet
  /\ unsaved' = FALSE
  /\ UNCHANGED <<persisted, healthy>>

(* The node stops failing for good; before that it may do anything.        *)
NodeRecovers ==
  /\ ~healthy
  /\ healthy' = TRUE
  /\ UNCHANGED <<breaker, persisted, unsaved, trial, quiet, restarts>>

(* force_open and force_close are for operators; nothing in src/ calls     *)
(* them, so they stop once the node is healthy and recovery is observed.   *)
Forced == ~healthy /\ (ForceOpen \/ ForceClose)

Next ==
  \/ Tick \/ ProbeSucceeds \/ ProbeFails \/ Persist \/ ReadState
  \/ Forced \/ Restart \/ NodeRecovers

(* The clock advances, and the probe loop keeps probing and persisting.    *)
Spec ==
  /\ Init /\ [][Next]_vars
  /\ WF_vars(Tick) /\ WF_vars(Persist)
  /\ WF_vars(ProbeSucceeds \/ ProbeFails)

-----------------------------------------------------------------------------
(* Types.                                                                  *)
TypeOK ==
  /\ breaker \in BreakerRecord
  /\ row \in BreakerRecord
  /\ unsaved \in BOOLEAN /\ healthy \in BOOLEAN
  /\ trial \in 0 .. CounterCap /\ rowTrial \in 0 .. CounterCap
  /\ quiet \in 0 .. InitialBackoff /\ rowQuiet \in 0 .. InitialBackoff
  /\ restarts \in 0 .. MaxRestarts

(* A closed breaker has seen fewer failures than would trip it, in memory  *)
(* and in the row a restart would restore: no sequence of results, forced  *)
(* transitions and restarts leaves a breaker closed past its threshold.    *)
ClosedBelowThreshold ==
  \A b \in {breaker, row} : b.state = "closed" => b.failures < FailureThreshold

(* An open breaker always has a deadline.  _check_open_timeout ignores an  *)
(* open breaker whose _backoff_until is None and a result recorded while   *)
(* open does not close it, so without one it could never be tried again.   *)
OpenHasDeadline ==
  \A b \in {breaker, row} : b.state = "open" => b.backoff # NoBackoff

(* When a breaker can recover within its probe budget at all, the budget   *)
(* is never exhausted: a half-open breaker always admits another probe,    *)
(* so no caller of is_allow_probe can be locked out for good.              *)
HalfOpenAdmitsProbe ==
  RecoveryThreshold <= HalfOpenMaxProbes =>
    (breaker.state = "half_open" => AllowsProbe(breaker))

(* A breaker is only half-open if it has been left alone for the whole     *)
(* backoff since it last opened, whoever read it and across restarts.      *)
HalfOpenAfterBackoff ==
  /\ breaker.state = "half_open" => quiet = InitialBackoff
  /\ row.state = "half_open" => rowQuiet = InitialBackoff

(* What is recorded of a node is always something it can recover from: the *)
(* breaker and its row pass all of the above, whatever results, forced     *)
(* transitions, crashes and restarts come in which order.                  *)
BreakerIsSound ==
  TypeOK /\ ClosedBelowThreshold /\ OpenHasDeadline /\ HalfOpenAdmitsProbe /\ HalfOpenAfterBackoff

(* Probe results close a tripped breaker only after recovery_threshold     *)
(* successes in a row, all of them since it went half-open: those recorded *)
(* while it was still open, or before a failure, do not count.             *)
ClosesAfterTrial ==
  [][ProbeSucceeds /\ breaker.state # "closed" /\ breaker'.state = "closed"
       => trial' >= RecoveryThreshold]_vars

(* A node that stops failing gets its breaker closed, for good, whatever   *)
(* state it was in and wherever the process restarted meanwhile.           *)
Recovers == []<>healthy => <>[](breaker.state = "closed")
=============================================================================
