------------------------------ MODULE NodeScore ------------------------------
(***************************************************************************)
(* The score of a node: SlidingWindow, WindowManager, NodeScorer and       *)
(* NodeScorerManager of proxypool/pool/scoring.py, as HealthManager's      *)
(* _update_node_health uses them.                                          *)
(*                                                                         *)
(* A window keeps the last results that are not too old, in a deque that   *)
(* forgets its oldest when it is full.  Only reading the rate, the         *)
(* stability and the number of results removes what is too old; the        *)
(* latency and the last success are read as the samples stand.  A score    *)
(* stands here for what it is calculated from, without the weights.  The   *)
(* clock is taken not to be set back.                                      *)
(***************************************************************************)
EXTENDS Integers, Sequences, FiniteSets

CONSTANTS
  MaxSamples,       \* HealthConfig.window_max_samples
  MaxAgeHours,      \* HealthConfig.window_max_age_hours
  Latencies,        \* what a successful probe may measure
  MaxHours,         \* bound: the hours that pass
  MaxResults        \* bound: the results there are

NodeScoreAssumption ==
  /\ {MaxSamples, MaxAgeHours} \subseteq Nat \ {0} /\ Latencies \subseteq Nat
  /\ {MaxHours, MaxResults} \subseteq Nat

VARIABLES
  hour,             \* the clock
  samples,          \* SlidingWindow._samples, oldest first
  score,            \* the node's score, and the state of the samples it was taken from
  results           \* ghost: every result there has been

vars == <<hour, samples, score, results>>

NoLatency == -1
Never     == -1
Sample    == [at : 0 .. MaxHours, ok : BOOLEAN, latency : Latencies \cup {NoLatency}]
NoScore   == [size |-> 0, good |-> 0, latencies |-> <<>>, successAge |-> Never]

TypeOK ==
  /\ hour \in 0 .. MaxHours
  /\ Len(samples) <= MaxSamples /\ \A i \in DOMAIN samples : samples[i] \in Sample
  /\ score.size \in 0 .. MaxSamples /\ score.good <= score.size /\ score.successAge \in Never .. MaxHours

Init == hour = 0 /\ samples = <<>> /\ score = NoScore /\ results = <<>>

-----------------------------------------------------------------------------
(* The window.                                                              *)

(* deque(maxlen=max_samples).append.                                        *)
Appended(window, sample) ==
  IF Len(window) = MaxSamples THEN Append(Tail(window), sample) ELSE Append(window, sample)

(* Mutant: a sample that is just as old as the window allows is removed.    *)
Cleaned_Strict(window) ==
  LET kept == {i \in DOMAIN window : window[i].at > hour - MaxAgeHours}
  IN  SubSeq(window, Len(window) + 1 - Cardinality(kept), Len(window))

(* _cleanup takes from the front, where the oldest is, those too old.       *)
Cleaned(window) ==
  LET stale == {i \in DOMAIN window : \A j \in 1 .. i : window[j].at < hour - MaxAgeHours}
  IN  SubSeq(window, Cardinality(stale) + 1, Len(window))

Good(window) == {i \in DOMAIN window : window[i].ok}

(* [s.latency_ms for s in samples if s.latency_ms is not None].             *)
Measured(window) ==
  LET timed   == {i \in DOMAIN window : window[i].latency # NoLatency}
      rank(i) == Cardinality({j \in timed : j <= i})
  IN  [n \in 1 .. Cardinality(timed) |-> window[CHOOSE i \in timed : rank(i) = n].latency]

SuccessAge(window) ==
  IF Good(window) = {} THEN Never
  ELSE LET last == CHOOSE i \in Good(window) : \A j \in Good(window) : j <= i IN hour - window[last].at

-----------------------------------------------------------------------------
(* NodeScorer.score: success_rate first, then the latency, the stability,   *)
(* the number of results and the last success.                              *)
Scored(window) ==
  LET rated == Cleaned(window)
  IN  [size |-> Len(rated), good |-> Cardinality(Good(rated)),
       latencies |-> Measured(rated), successAge |-> SuccessAge(rated)]

(* _update_node_health: the result is recorded, and the node scored anew.   *)
UpdateNodeHealth ==
  /\ Len(results) < MaxResults
  /\ \E ok \in BOOLEAN, latency \in Latencies \cup {NoLatency} :
       LET sample == [at |-> hour, ok |-> ok, latency |-> latency]
           window == Cleaned(Appended(samples, sample))
       IN  /\ ~ok => latency = NoLatency
           /\ samples' = window /\ score' = Scored(window)
           /\ results' = Append(results, sample)
  /\ UNCHANGED hour

HourPasses ==
  hour < MaxHours /\ hour' = hour + 1 /\ UNCHANGED <<samples, score, results>>

(* The bounds are reached.                                                  *)
Terminating == hour = MaxHours /\ Len(results) = MaxResults /\ UNCHANGED vars

Next == UpdateNodeHealth \/ HourPasses \/ Terminating

Spec == Init /\ [][Next]_vars

-----------------------------------------------------------------------------
(* Properties.                                                              *)

(* The score is that of the last max_samples results, without those that    *)
(* were older than max_age_hours when the last one came: none that was      *)
(* pushed out or has aged is counted, none of the others is missing.        *)
ScoreIsOfTheLastResults ==
  results # <<>> =>
    LET n      == Len(results)
        counts == {i \in 1 .. n : i > n - MaxSamples /\ results[n].at - results[i].at <= MaxAgeHours}
        good   == {i \in counts : results[i].ok}
        timed  == {i \in counts : results[i].latency # NoLatency}
    IN  /\ score.size = Cardinality(counts) /\ score.good = Cardinality(good)
        /\ Len(score.latencies) = Cardinality(timed)
        /\ \A i \in timed :
             score.latencies[Cardinality({j \in timed : j <= i})] = results[i].latency
        /\ score.successAge = Never <=> good = {}
        /\ \A i \in good : (\A j \in good : j <= i) => score.successAge = results[n].at - results[i].at
=============================================================================
