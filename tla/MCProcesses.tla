---------------------------- MODULE MCProcesses ----------------------------
(***************************************************************************)
(* What runs in the background, in one model: the two components that      *)
(* start sing-box processes, the backend's instances (SingBoxBackend) and  *)
(* the looks of the tester (Prober), its runs (Testing), the loop that     *)
(* starts tasks (AutoTasks) and the scores of the probe loop (NodeScore).  *)
(* They share nothing, so focus says which of them moves; the others stay  *)
(* where they start.                                                       *)
(***************************************************************************)
EXTENDS Integers, Sequences, FiniteSets

CONSTANTS
  Instances, Default, MaxRestarts, MaxProcs,
  Probes, ProbePorts,
  Minutes, RoundsPerMinute,
  MaxSamples, MaxAgeHours, Latencies, MaxHours, MaxResults,
  Nodes, MaxRuns, MaxFailCount

VARIABLES
  focus,
  children, processes, process, instanceRows, attempts, todo, health,
  probes, boxes, answers, shared,
  enabled, every, age, skipped,
  hour, samples, score, results,
  rows, runs, fresh

backendVars == <<children, processes, process, instanceRows, attempts, todo, health>>
looksVars   == <<probes, boxes, answers, shared>>
autoVars    == <<enabled, every, age, skipped>>
scoreVars   == <<hour, samples, score, results>>
testVars    == <<rows, runs, fresh>>

Backend == INSTANCE SingBoxBackend
Looks   == INSTANCE Prober
Rounds  == INSTANCE AutoTasks
Scoring == INSTANCE NodeScore
Tests   == INSTANCE Testing

ASSUME ProcessesAssumption ==
  /\ IsFiniteSet(Instances) /\ Default \in Instances
  /\ MaxRestarts \in Nat /\ MaxProcs \in Nat \ {0}
  /\ {Looks!Front, Looks!Tcp, Looks!Nobody} \cap Probes = {}
  /\ ProbePorts \subseteq Nat \ {Looks!NoPort}
  /\ Rounds!AutoTasksAssumption
  /\ Scoring!NodeScoreAssumption
  /\ MaxFailCount \in Nat \ {0}

(* An application without a past is the backend's start when it rests.      *)
Init ==
  /\ focus \in {"backend", "looks", "auto", "score", "test"}
  /\ Backend!Init /\ Looks!Init /\ Rounds!Init /\ Scoring!Init /\ Tests!Init
  /\ focus # "backend" => instanceRows = [i \in Instances |-> Backend!NoRow] /\ Backend!Fresh = Backend!Procs
  /\ focus # "auto" => \A k \in Rounds!Kinds : age[k] = 0

BackendNext == focus = "backend" /\ Backend!Next /\ UNCHANGED <<focus, looksVars, autoVars, scoreVars, testVars>>
LooksNext   == focus = "looks" /\ Looks!Next /\ UNCHANGED <<focus, backendVars, autoVars, scoreVars, testVars>>
AutoNext    == focus = "auto" /\ Rounds!Next /\ UNCHANGED <<focus, backendVars, looksVars, scoreVars, testVars>>
ScoreNext   == focus = "score" /\ Scoring!Next /\ UNCHANGED <<focus, backendVars, looksVars, autoVars, testVars>>
TestNext    == focus = "test" /\ Tests!Next /\ UNCHANGED <<focus, backendVars, looksVars, autoVars, scoreVars>>
Next        == BackendNext \/ LooksNext \/ AutoNext \/ ScoreNext \/ TestNext

(* The fairness of the first two, for the one that moves.                   *)
Spec ==
  /\ Init /\ [][Next]_<<focus, backendVars, looksVars, autoVars, scoreVars, testVars>>
  /\ WF_backendVars(focus = "backend" /\ Backend!Health)
  /\ \A p \in Probes : WF_looksVars(focus = "looks" /\ Looks!Step(p))

-----------------------------------------------------------------------------
(* What is checked of them.                                                 *)

(* The types of all.                                                        *)
TypeOK == Backend!TypeOK /\ Looks!TypeOK /\ Rounds!TypeOK /\ Scoring!TypeOK
          /\ Tests!TypeOK

(* Two sing-box processes never run for one instance, and its records       *)
(* agree: see SingBoxBackend.                                               *)
OneProcessPerInstance == Backend!OneProcessPerInstance

(* The default instance is brought back, or its restarts are used up: see   *)
(* SingBoxBackend.                                                          *)
RecoversOrGivesUp ==
  focus = "backend" /\ ~Backend!Running(processes[Default])
    ~> Backend!Running(processes[Default]) \/ attempts = MaxRestarts

(* What is said of a node was measured at that node: see Prober.            *)
AnswerIsOfTheNode == Looks!AnswerIsOfTheNode

(* A look ends, and its sing-box with it: see Prober.                       *)
EveryLookEnds == Looks!EveryLookEnds

(* A kind of task that is due is not starved by those before it: see        *)
(* AutoTasks.                                                               *)
EveryKindGetsItsTurn == Rounds!EveryKindGetsItsTurn

(* A score is that of the last results, and of no others: see NodeScore.    *)
ScoreIsOfTheLastResults == Scoring!ScoreIsOfTheLastResults

(* What is on record of a node is of one look, and a stopped run writes no  *)
(* more than the result it waits for: see Testing.                          *)
RowIsOfOneLook == Tests!RowIsOfOneLook
=============================================================================
