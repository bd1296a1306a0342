-------------------------- MODULE ProcessesProofs --------------------------
(***************************************************************************)
(* Proofs about what runs in the background, for every value of the        *)
(* constants that ProcessesAssumption admits: each section has the         *)
(* inductive invariant of one component, and the last one takes them to    *)
(* the specification of the whole.                                         *)
(*                                                                         *)
(*   TestInv     a record is of one look, and a run that has written after *)
(*               it was told to stop waits for nothing;                    *)
(*   AutoInv     which kinds were passed over, and how young the ones that *)
(*               were tried before them are;                               *)
(*   LooksInv    ports differ, and answers are of their nodes, until two   *)
(*               looks share a port;                                       *)
(*   BackendInv  one process for an instance, and what a thread has still  *)
(*               to do;                                                    *)
(*   ScoreInv    the window has the last results, and lacks only what was  *)
(*               pushed out or has aged.                                   *)
(***************************************************************************)
EXTENDS MCProcesses, FiniteSetTheorems, SequenceTheorems, TLAPS

-----------------------------------------------------------------------------
(* Testing.                                                                 *)

Run == [kind : Tests!Kinds \cup {"none"}, left : SUBSET Nodes, fallback : SUBSET Nodes,
        stopped : BOOLEAN, waiting : BOOLEAN, late : Nat]

(* A run that has written a result after it was told to stop waits for none *)
(* any more.                                                                *)
RunIsSound(run) == run.late <= 1 /\ (run.late = 1 => run.stopped /\ ~run.waiting)

RowIsSound(n) == (rows[n].available => rows[n].fails = 0) /\ (rows[n].fronts # {} => fresh[n])

TestInv ==
  /\ rows \in [Nodes -> Tests!Row] /\ fresh \in [Nodes -> BOOLEAN]
  /\ runs \in [Tests!Runs -> Run]
  /\ \A n \in Nodes : RowIsSound(n)
  /\ \A r \in Tests!Runs : RunIsSound(runs[r])

LEMMA TestAssumptions == MaxFailCount \in Nat \ {0}
BY ProcessesAssumption

LEMMA NewRow == Tests!NoRow \in Tests!Row /\ Tests!NoRow.fails = 0 /\ Tests!NoRow.fronts = {}
<1>1. Tests!New \in Tests!Row /\ Tests!New.fails = 0 /\ Tests!New.fronts = {}
  BY TestAssumptions DEF Tests!New, Tests!Row
<1> QED BY <1>1 DEF Tests!NoRow, Tests!Row

LEMMA IdleRun == Tests!Idle \in Run /\ RunIsSound(Tests!Idle)
BY DEF Tests!Idle, Run, RunIsSound

LEMMA TestStarts == Tests!Init => TestInv
BY NewRow, IdleRun DEF Tests!Init, TestInv, RowIsSound

(* A row as update_test_result leaves it.                                   *)
LEMMA TestedRow ==
  ASSUME NEW row \in Tests!Row, NEW available \in BOOLEAN, NEW fronts \in SUBSET Nodes
  PROVE  LET new == Tests!Tested(row, available, fronts)
         IN  new \in Tests!Row /\ (new.available => new.fails = 0) /\ new.fronts = fronts
<1> DEFINE new == Tests!Tested(row, available, fronts)
<1>1. CASE available
  <2>1. new = [there |-> row.there, available |-> TRUE, fails |-> 0, fronts |-> fronts]
    BY <1>1 DEF Tests!Tested, Tests!Row
  <2> QED BY <2>1, TestAssumptions DEF Tests!Row
<1>2. CASE ~available
  <2>1. new = [there |-> row.there, available |-> FALSE, fails |-> Tests!Capped(row.fails + 1), fronts |-> fronts]
    BY <1>2 DEF Tests!Tested, Tests!Row
  <2>2. Tests!Capped(row.fails + 1) \in 0 .. MaxFailCount
    BY TestAssumptions DEF Tests!Capped, Tests!Row
  <2> QED BY <2>1, <2>2 DEF Tests!Row
<1> QED BY <1>1, <1>2

(* The write of a result, whatever has become of the row.                   *)
LEMMA ResultWritten ==
  ASSUME TestInv, NEW n \in Nodes, NEW available \in BOOLEAN, NEW fronts \in SUBSET Nodes,
         Tests!Write(n, Tests!Tested(rows[n], available, fronts)), Tests!Found(n, fronts)
  PROVE  /\ rows' \in [Nodes -> Tests!Row] /\ fresh' \in [Nodes -> BOOLEAN]
         /\ \A m \in Nodes : RowIsSound(m)'
<1> DEFINE new == Tests!Tested(rows[n], available, fronts)
<1>1. new \in Tests!Row /\ (new.available => new.fails = 0) /\ new.fronts = fronts
  BY TestedRow DEF TestInv
<1> HIDE DEF new
<1>2. rows' = IF rows[n].there THEN [rows EXCEPT ![n] = new] ELSE rows
  BY DEF Tests!Write, new
<1>3. fresh' = [fresh EXCEPT ![n] = ~rows[n].there \/ rows'[n].fronts = fronts]
  BY DEF Tests!Found
<1>4. rows' \in [Nodes -> Tests!Row] /\ fresh' \in [Nodes -> BOOLEAN]
  BY <1>1, <1>2, <1>3 DEF TestInv
<1>5. fresh'[n] /\ \A m \in Nodes : fresh[m] => fresh'[m]
  BY <1>1, <1>2, <1>3 DEF TestInv
<1>6. ASSUME NEW m \in Nodes PROVE RowIsSound(m)'
  BY <1>1, <1>2, <1>5 DEF TestInv, RowIsSound
<1> QED BY <1>4, <1>6

(* Rows that go leave none that is unsound.                                 *)
LEMMA RowsGo ==
  ASSUME TestInv, NEW S, rows' = Tests!Without(S), UNCHANGED fresh
  PROVE  rows' \in [Nodes -> Tests!Row] /\ \A m \in Nodes : RowIsSound(m)'
BY NewRow DEF TestInv, Tests!Without, RowIsSound

LEMMA ResultSteps ==
  ASSUME TestInv, NEW r \in Tests!Runs, Tests!Result(r)
  PROVE  TestInv'
<1>1. PICK n \in runs[r].left :
        Tests!Done(r, n) /\ (Tests!TestResult(r, n) \/ Tests!GatewayResult(r, n) \/ Tests!OpenaiResult(r) \/ Tests!SpeedResult(r))
  BY DEF Tests!Result
<1>2. n \in Nodes /\ runs[r] \in Run /\ runs[r].waiting
  BY <1>1 DEF TestInv, Run, Tests!Result
<1>3. runs' \in [Tests!Runs -> Run] /\ \A q \in Tests!Runs : RunIsSound(runs'[q])
  <2>1. PICK late : late = IF runs[r].stopped THEN runs[r].late + 1 ELSE runs[r].late
    OBVIOUS
  <2>2. RunIsSound(runs[r])
    BY DEF TestInv
  <2>3. late \in {0, 1} /\ (late = 1 => runs[r].stopped)
    BY <1>2, <2>1, <2>2 DEF RunIsSound, Run
  <2>4. PICK run : run = [runs[r] EXCEPT !.left = runs[r].left \ {n}, !.waiting = FALSE, !.late = late]
    OBVIOUS
  <2>5. run \in Run /\ run.late = late /\ run.stopped = runs[r].stopped /\ ~run.waiting
    <3>1. run.late = late /\ run.left = runs[r].left \ {n}
      BY <1>2, <2>4 DEF Run
    <3>2. ~run.waiting
      BY <1>2, <2>4 DEF Run
    <3>3. run.stopped = runs[r].stopped
      BY <1>2, <2>4 DEF Run
    <3>4. run.kind = runs[r].kind /\ run.fallback = runs[r].fallback
      BY <1>2, <2>4 DEF Run
    <3>5. run = [kind |-> run.kind, left |-> run.left, fallback |-> run.fallback, stopped |-> run.stopped,
                 waiting |-> run.waiting, late |-> run.late]
      BY <1>2, <2>4 DEF Run
    <3>6. run.waiting \in BOOLEAN
      BY <1>2, <2>4 DEF Run
    <3> QED BY <1>2, <2>3, <3>1, <3>2, <3>3, <3>4, <3>5, <3>6 DEF Run
  <2>6. run \in Run /\ RunIsSound(run)
    BY <2>3, <2>5 DEF RunIsSound, Run
  <2>7. runs' = [runs EXCEPT ![r] = run]
    BY <1>1, <1>2, <2>1, <2>4 DEF Tests!Done, TestInv
  <2> QED BY <2>6, <2>7 DEF TestInv
<1>4. /\ rows' \in [Nodes -> Tests!Row] /\ fresh' \in [Nodes -> BOOLEAN]
      /\ \A m \in Nodes : RowIsSound(m)'
  <2>1. CASE Tests!TestResult(r, n)
    <3>1. PICK available \in BOOLEAN, fronts \in SUBSET Nodes :
            Tests!Write(n, Tests!Tested(rows[n], available, fronts)) /\ Tests!Found(n, fronts)
      BY <1>2, <2>1 DEF Tests!TestResult, Run
    <3> QED BY <1>2, <3>1, ResultWritten
  <2>2. CASE Tests!GatewayResult(r, n)
    <3>1. PICK available \in BOOLEAN :
            Tests!Write(n, Tests!Tested(rows[n], available, {})) /\ Tests!Found(n, {})
      BY <2>2 DEF Tests!GatewayResult
    <3> QED BY <1>2, <3>1, ResultWritten
  <2>3. CASE UNCHANGED <<rows, fresh>>
    BY <2>3 DEF TestInv, RowIsSound
  <2> QED BY <1>1, <2>1, <2>2, <2>3 DEF Tests!OpenaiResult, Tests!SpeedResult
<1> QED BY <1>3, <1>4 DEF TestInv

LEMMA TestSteps ==
  ASSUME TestInv, [Tests!Next]_testVars
  PROVE  TestInv'
<1>1. ASSUME UNCHANGED <<rows, fresh>>, NEW r \in Tests!Runs, NEW run \in Run, RunIsSound(run),
             runs' = [runs EXCEPT ![r] = run]
      PROVE  TestInv'
  BY <1>1 DEF TestInv, RowIsSound
<1>2. ASSUME NEW r \in Tests!Runs, NEW kind \in Tests!Kinds, Tests!Begin(r, kind) PROVE TestInv'
  <2>1. PICK left \in SUBSET Nodes, fallback \in SUBSET Nodes :
          runs' = [runs EXCEPT ![r] = [Tests!Idle EXCEPT !.kind = kind, !.left = left, !.fallback = fallback]]
    <3>1. Tests!There \subseteq Nodes /\ {{}} \cup {{f} : f \in Tests!There} \subseteq SUBSET Nodes
      BY DEF Tests!There
    <3>2. PICK left \in (SUBSET Tests!There) \ {{}} :
            \E fallback \in IF kind \in {"batch", "one"} THEN {{}} \cup {{f} : f \in Tests!There} ELSE {{}} :
              runs' = [runs EXCEPT ![r] = [Tests!Idle EXCEPT !.kind = kind, !.left = left, !.fallback = fallback]]
      BY <1>2 DEF Tests!Begin
    <3> QED BY <3>1, <3>2
  <2>2. PICK run : run = [Tests!Idle EXCEPT !.kind = kind, !.left = left, !.fallback = fallback]
    OBVIOUS
  <2>3. run = [kind |-> kind, left |-> left, fallback |-> fallback,
               stopped |-> FALSE, waiting |-> FALSE, late |-> 0]
    BY <2>2 DEF Tests!Idle
  <2>4. run \in Run /\ RunIsSound(run)
    BY <2>3 DEF Run, RunIsSound
  <2> QED BY <1>1, <1>2, <2>1, <2>2, <2>4 DEF Tests!Begin
<1>3. ASSUME NEW r \in Tests!Runs, Tests!RequestStop(r) PROVE TestInv'
  <2>1. PICK run : run = [runs[r] EXCEPT !.stopped = TRUE]
    OBVIOUS
  <2>2. runs[r] \in Run /\ RunIsSound(runs[r])
    BY DEF TestInv
  <2>3. run \in Run /\ RunIsSound(run)
    BY <2>1, <2>2 DEF Run, RunIsSound
  <2>4. runs' = [runs EXCEPT ![r] = run]
    BY <1>3, <2>1 DEF Tests!RequestStop, TestInv
  <2> QED BY <1>1, <1>3, <2>3, <2>4 DEF Tests!RequestStop
<1>4. ASSUME NEW r \in Tests!Runs, Tests!NextResult(r) PROVE TestInv'
  <2>1. PICK run : run = IF runs[r].stopped THEN Tests!Idle ELSE [runs[r] EXCEPT !.waiting = TRUE]
    OBVIOUS
  <2>2. runs[r] \in Run /\ RunIsSound(runs[r])
    BY DEF TestInv
  <2>3. run \in Run /\ RunIsSound(run)
    BY <2>1, <2>2, IdleRun DEF Run, RunIsSound
  <2>4. runs' = [runs EXCEPT ![r] = run]
    BY <1>4, <2>1 DEF Tests!NextResult, Tests!Checked, TestInv
  <2> QED BY <1>1, <1>4, <2>3, <2>4 DEF Tests!NextResult
<1>5. ASSUME NEW r \in Tests!Runs, Tests!End(r) PROVE TestInv'
  <2>1. runs' \in [Tests!Runs -> Run] /\ \A q \in Tests!Runs : RunIsSound(runs'[q])
    BY <1>5, IdleRun DEF Tests!End, TestInv
  <2>2. rows' \in [Nodes -> Tests!Row] /\ \A m \in Nodes : RowIsSound(m)'
    <3>1. CASE rows' = Tests!Without(Tests!Stale)
      BY <1>5, <3>1, RowsGo DEF Tests!End
    <3>2. CASE rows' = rows
      BY <1>5, <3>2 DEF Tests!End, TestInv, RowIsSound
    <3> QED BY <1>5, <3>1, <3>2 DEF Tests!End
  <2> QED BY <1>5, <2>1, <2>2 DEF Tests!End, TestInv
<1>6. ASSUME NEW S, rows' = Tests!Without(S), UNCHANGED <<runs, fresh>> PROVE TestInv'
  BY <1>6, RowsGo DEF TestInv
<1>7. ASSUME NEW n \in Nodes, Tests!Import(n) PROVE TestInv'
  <2>1. rows' = [rows EXCEPT ![n].there = TRUE] /\ UNCHANGED <<runs, fresh>>
    BY <1>7 DEF Tests!Import, Tests!Upsert
  <2>2. rows' \in [Nodes -> Tests!Row]
    BY <2>1 DEF TestInv, Tests!Row
  <2>3. \A m \in Nodes : RowIsSound(m)'
    BY <2>1 DEF TestInv, RowIsSound, Tests!Row
  <2> QED BY <2>1, <2>2, <2>3 DEF TestInv
<1>8. CASE UNCHANGED testVars
  BY <1>8 DEF testVars, TestInv, RowIsSound
<1> QED
  BY <1>2, <1>3, <1>4, <1>5, <1>6, <1>7, <1>8, ResultSteps
  DEF Tests!Next, Tests!Step, Tests!DeleteUnavailable, Tests!DeleteByKeys

LEMMA TestsAreRight == TestInv => Tests!TypeOK /\ Tests!RowIsOfOneLook
BY DEF TestInv, Run, RowIsSound, RunIsSound, Tests!TypeOK, Tests!RowIsOfOneLook

-----------------------------------------------------------------------------
(* AutoTasks.                                                               *)

(* A kind whose start failed is young, and will not be due again before     *)
(* each kind after it has had its turn.                                     *)
AutoInv ==
  /\ enabled \in BOOLEAN /\ every \in [Rounds!Kinds -> Minutes \cup {Rounds!Off}]
  /\ age \in [Rounds!Kinds -> 0 .. Rounds!MaxAge] /\ skipped \in [Rounds!Kinds -> 0 .. 2]
  /\ skipped[1] = 0
  /\ skipped[2] = 0 \/ (skipped[2] = 1 /\ age[1] = 1)
  /\ skipped[3] = 1 => age[1] = 1 \/ age[2] = 1
  /\ skipped[3] = 2 => {age[1], age[2]} = {1, 2}

LEMMA ThreeKinds == Rounds!Kinds = 1 .. 3 /\ Len(Rounds!Order) = 3
BY DEF Rounds!Kinds, Rounds!Order

LEMMA Intervals ==
  /\ Minutes \subseteq Nat \ {0} /\ RoundsPerMinute \in Nat /\ RoundsPerMinute >= 3
  /\ \A m \in Minutes : RoundsPerMinute * m \in Nat /\ RoundsPerMinute * m >= 3
  /\ Rounds!Longest \in Minutes /\ Rounds!MaxAge \in Nat /\ Rounds!MaxAge >= 3
<1>1. /\ Minutes \subseteq Nat \ {0} /\ RoundsPerMinute \in Nat /\ RoundsPerMinute >= 3
      /\ \E longest \in Minutes : \A m \in Minutes : m <= longest
  BY ProcessesAssumption DEF Rounds!AutoTasksAssumption
<1>2. \A k, m \in Nat : k >= 3 /\ m # 0 => k * m \in Nat /\ k * m >= 3
  OBVIOUS
<1>3. Rounds!Longest \in Minutes
  BY <1>1 DEF Rounds!Longest
<1> QED BY <1>1, <1>2, <1>3 DEF Rounds!MaxAge

LEMMA AutoStarts == Rounds!Init => AutoInv
<1> SUFFICES ASSUME Rounds!Init PROVE AutoInv
  OBVIOUS
<1>1. enabled \in BOOLEAN /\ every \in [Rounds!Kinds -> Minutes \cup {Rounds!Off}]
  BY Intervals DEF Rounds!Init
<1>2. skipped = [k \in Rounds!Kinds |-> 0] /\ age \in [Rounds!Kinds -> 0 .. Rounds!MaxAge]
  BY DEF Rounds!Init
<1> QED BY <1>1, <1>2, ThreeKinds DEF AutoInv

LEMMA RoundSteps ==
  ASSUME AutoInv, Rounds!Round
  PROVE  AutoInv'
<1>1. PICK raising \in {{}} \cup {{k} : k \in {r \in Rounds!Kinds : enabled /\ Rounds!Due(r)}} :
        /\ age' = [k \in Rounds!Kinds |-> IF enabled /\ k \in Rounds!Reached(raising) THEN 1
                                        ELSE IF age[k] < Rounds!MaxAge THEN age[k] + 1 ELSE Rounds!MaxAge]
        /\ skipped' = [k \in Rounds!Kinds |-> IF enabled /\ Rounds!Due(k) /\ k \notin Rounds!Reached(raising)
                                            THEN skipped[k] + 1 ELSE 0]
  BY DEF Rounds!Round, Rounds!Noted
<1>2. enabled' \in BOOLEAN /\ every' \in [Rounds!Kinds -> Minutes \cup {Rounds!Off}]
  BY DEF Rounds!Round, AutoInv
<1>3. age' \in [Rounds!Kinds -> 0 .. Rounds!MaxAge]
  BY <1>1, Intervals DEF AutoInv
<1>4. \A k \in Rounds!Kinds : Rounds!Due(k) => age[k] >= 3
  <2> SUFFICES ASSUME NEW k \in Rounds!Kinds, Rounds!Due(k) PROVE age[k] >= 3
    OBVIOUS
  <2>1. every[k] \in Minutes /\ age[k] >= RoundsPerMinute * every[k] /\ age[k] \in Int
    BY Intervals DEF Rounds!Due, AutoInv
  <2>2. PICK rounds : rounds = RoundsPerMinute * every[k]
    OBVIOUS
  <2>3. rounds \in Nat /\ rounds >= 3
    BY <2>1, <2>2, Intervals
  <2>4. age[k] >= rounds
    BY <2>1, <2>2
  <2> QED BY <2>1, <2>3, <2>4
<1>5. CASE raising = {}
  <2>1. \A k \in Rounds!Kinds : Rounds!Due(k) => k \in Rounds!Reached(raising)
    BY <1>5 DEF Rounds!Reached
  <2>2. skipped' = [k \in Rounds!Kinds |-> 0]
    BY <1>1, <2>1
  <2> QED BY <1>2, <1>3, <2>2, ThreeKinds DEF AutoInv
<1>6. CASE raising # {}
  <2>1. PICK r \in Rounds!Kinds : raising = {r} /\ enabled /\ Rounds!Due(r)
    BY <1>1, <1>6
  <2>2. \A k \in Rounds!Kinds : k \in Rounds!Reached(raising) <=> Rounds!Due(k) /\ k <= r
    BY <2>1 DEF Rounds!Reached
  <2>3. r \in 1 .. 3 /\ age[r] >= 3 /\ age'[r] = 1
    BY <1>1, <1>4, <2>1, <2>2, ThreeKinds
  <2>4. \A k \in 1 .. 3 : skipped'[k] = 0 \/ (k > r /\ skipped'[k] = skipped[k] + 1)
    BY <1>1, <2>2, <2>3, ThreeKinds
  <2>5. \A k \in 1 .. 3 : age[k] = 1 => age'[k] = 2
    <3> SUFFICES ASSUME NEW k \in 1 .. 3, age[k] = 1 PROVE age'[k] = 2
      OBVIOUS
    <3>1. ~ Rounds!Due(k)
      BY <1>4, ThreeKinds
    <3>2. k \notin Rounds!Reached(raising)
      BY <3>1, <2>2, ThreeKinds
    <3> QED BY <1>1, <3>2, ThreeKinds, Intervals
  <2>6. skipped'[1] = 0
    BY <2>3, <2>4
  <2>7. skipped'[2] = 0 \/ (skipped'[2] = 1 /\ age'[1] = 1)
    BY <2>3, <2>4 DEF AutoInv
  <2>8. CASE skipped'[3] = 0
    BY <1>2, <1>3, <2>6, <2>7, <2>8, ThreeKinds, <1>1 DEF AutoInv
  <2>9. CASE skipped'[3] # 0
    <3>1. r \in {1, 2} /\ skipped'[3] = skipped[3] + 1 /\ skipped[3] \in 0 .. 2
      BY <2>3, <2>4, <2>9, ThreeKinds DEF AutoInv
    <3>2. skipped[3] # 2
      BY <2>3, <3>1 DEF AutoInv
    <3>3. CASE skipped[3] = 0
      <4>1. skipped'[3] = 1 /\ (age'[1] = 1 \/ age'[2] = 1)
        BY <2>3, <3>1, <3>3
      <4>2. skipped' \in [Rounds!Kinds -> 0 .. 2]
        BY <1>1, <2>6, <2>7, <4>1, ThreeKinds
      <4> QED BY <1>2, <1>3, <2>6, <2>7, <4>1, <4>2 DEF AutoInv
    <3>4. CASE skipped[3] = 1
      <4>1. skipped'[3] = 2
        BY <3>1, <3>4
      <4>2. {age'[1], age'[2]} = {1, 2}
        <5>1. CASE r = 1
          <6>1. age[2] = 1
            BY <2>3, <3>4, <5>1 DEF AutoInv
          <6> QED BY <2>3, <2>5, <5>1, <6>1
        <5>2. CASE r = 2
          <6>1. age[1] = 1
            BY <2>3, <3>4, <5>2 DEF AutoInv
          <6> QED BY <2>3, <2>5, <5>2, <6>1
        <5> QED BY <3>1, <5>1, <5>2
      <4>3. skipped' \in [Rounds!Kinds -> 0 .. 2]
        BY <1>1, <2>6, <2>7, <4>1, ThreeKinds
      <4> QED BY <1>2, <1>3, <2>6, <2>7, <4>1, <4>2, <4>3 DEF AutoInv
    <3> QED BY <3>1, <3>2, <3>3, <3>4
  <2> QED BY <2>8, <2>9
<1> QED BY <1>5, <1>6

LEMMA AutoSteps ==
  ASSUME AutoInv, [Rounds!Next]_autoVars
  PROVE  AutoInv'
<1>1. CASE Rounds!UpdateConfig
  BY <1>1 DEF Rounds!UpdateConfig, AutoInv
<1>2. CASE UNCHANGED autoVars
  BY <1>2 DEF autoVars, AutoInv
<1> QED BY <1>1, <1>2, RoundSteps DEF Rounds!Next

LEMMA EachGetsItsTurn == AutoInv => Rounds!EveryKindGetsItsTurn
BY ThreeKinds DEF AutoInv, Rounds!EveryKindGetsItsTurn

LEMMA AutoTypes == AutoInv => Rounds!TypeOK
BY ThreeKinds DEF AutoInv, Rounds!TypeOK

-----------------------------------------------------------------------------
(* Prober.                                                                  *)

Look   == [stage : Looks!Stages, mode : Looks!Modes, port : ProbePorts \cup {Looks!NoPort}]
Box    == {"none", "starting", "up", "exited"}
Answer == [available : BOOLEAN, of : Probes \cup {Looks!Front, Looks!Tcp, Looks!Nobody},
           unlockOf : Probes \cup {Looks!Front, Looks!Nobody}]

(* A sing-box is started on the port its look was given, and not left       *)
(* behind when the look ends.                                               *)
LookIsSound(look, box) ==
  /\ look.stage \in {"idle", "given"} => box = "none"
  /\ look.stage = "given" \/ box # "none" => look.port \in ProbePorts

IsOf(answer, p) ==
  answer.available => answer.of \in {p, Looks!Tcp} /\ answer.unlockOf \in {p, Looks!Nobody}

LooksInv ==
  /\ probes \in [Probes -> Look] /\ boxes \in [Probes -> Box] /\ answers \in [Probes -> Answer]
  /\ shared \in BOOLEAN
  /\ \A p \in Probes : LookIsSound(probes[p], boxes[p])
  /\ ~shared =>
       /\ \A p, q \in Probes : probes[p].port = probes[q].port => p = q \/ probes[p].port = Looks!NoPort
       /\ \A p \in Probes : IsOf(answers[p], p)

LEMMA LookAssumptions ==
  /\ Looks!NoPort \notin ProbePorts
  /\ Looks!Front \notin Probes /\ Looks!Tcp \notin Probes /\ Looks!Nobody \notin Probes
BY ProcessesAssumption

LEMMA IdleLook == Looks!Idle \in Look /\ Looks!Idle.port = Looks!NoPort /\ Looks!Idle.stage = "idle"
BY DEF Looks!Idle, Look, Looks!Stages, Looks!Modes

LEMMA NothingSaid ==
  ASSUME NEW p
  PROVE  Looks!Unavailable \in Answer /\ IsOf(Looks!Unavailable, p)
BY DEF Looks!Unavailable, Answer, IsOf

LEMMA LooksStart == Looks!Init => LooksInv
BY IdleLook, NothingSaid DEF Looks!Init, LooksInv, Box, LookIsSound

(* A look that keeps its port or gives it up, whatever it says.             *)
LEMMA LookMoves ==
  ASSUME LooksInv, NEW p \in Probes, NEW look \in Look, NEW box \in Box, NEW answer \in Answer,
         look.port \in {probes[p].port, Looks!NoPort}, LookIsSound(look, box), ~shared => IsOf(answer, p),
         probes' = [probes EXCEPT ![p] = look], boxes' = [boxes EXCEPT ![p] = box],
         answers' = [answers EXCEPT ![p] = answer], UNCHANGED shared
  PROVE  LooksInv'
<1>1. probes' \in [Probes -> Look] /\ boxes' \in [Probes -> Box] /\ answers' \in [Probes -> Answer]
  BY DEF LooksInv
<1>2. \A q \in Probes : LookIsSound(probes'[q], boxes'[q])
  BY DEF LooksInv
<1>3. ASSUME ~shared, NEW q \in Probes, NEW r \in Probes, probes'[q].port = probes'[r].port, q # r
      PROVE  probes'[q].port = Looks!NoPort
  BY <1>3 DEF LooksInv
<1>4. ~shared => \A q \in Probes : IsOf(answers'[q], q)
  BY DEF LooksInv
<1> QED BY <1>1, <1>2, <1>3, <1>4 DEF LooksInv

(* The two ways to go on: to a stage of its own, or to the end.             *)
LEMMA GoesOn ==
  ASSUME LooksInv, NEW p \in Probes, NEW answer \in Answer, ~shared => IsOf(answer, p),
         \/ \E stage \in Looks!Stages \ {"idle", "given"} : Looks!To(p, stage)
         \/ Looks!Finally(p),
         answers' = [answers EXCEPT ![p] = answer], UNCHANGED <<boxes, shared>>
  PROVE  LooksInv'
<1>1. probes[p] \in Look /\ boxes[p] \in Box /\ LookIsSound(probes[p], boxes[p]) /\ boxes = [boxes EXCEPT ![p] = boxes[p]]
  BY DEF LooksInv
<1>2. ASSUME NEW stage \in Looks!Stages \ {"idle", "given"}, Looks!To(p, stage) PROVE LooksInv'
  <2>1. PICK look : look = [probes[p] EXCEPT !.stage = stage]
    OBVIOUS
  <2>2. look \in Look /\ look.port = probes[p].port /\ look.stage = stage
    BY <1>1, <2>1 DEF Look
  <2>3. LookIsSound(look, boxes[p])
    BY <1>1, <1>2, <2>2 DEF LookIsSound
  <2>4. probes' = [probes EXCEPT ![p] = look]
    BY <1>2, <2>1 DEF Looks!To, LooksInv
  <2>5. boxes' = [boxes EXCEPT ![p] = boxes[p]]
    BY <1>1
  <2> QED BY <1>1, <2>2, <2>3, <2>4, <2>5, LookMoves
<1>3. CASE Looks!Finally(p) /\ boxes[p] = "none"
  <2>1. probes' = [probes EXCEPT ![p] = Looks!Idle] /\ boxes' = [boxes EXCEPT ![p] = boxes[p]]
    BY <1>1, <1>3 DEF Looks!Finally
  <2>2. LookIsSound(Looks!Idle, boxes[p])
    BY <1>3, IdleLook DEF LookIsSound
  <2> QED BY <1>1, <2>1, <2>2, IdleLook, LookMoves
<1>4. CASE Looks!Finally(p) /\ boxes[p] # "none"
  BY <1>2, <1>4 DEF Looks!Finally, Looks!Stages
<1> QED BY <1>2, <1>3, <1>4

(* Unless a port is shared, what listens there is the look's own sing-box.  *)
LEMMA ListenerIsOwn ==
  ASSUME LooksInv, NEW p \in Probes, NEW q \in Looks!Listeners(probes[p].port)
  PROVE  q \in Probes /\ (~shared => q = p)
BY LookAssumptions DEF LooksInv, LookIsSound, Looks!Listeners, Look

LEMMA LookSteps ==
  ASSUME LooksInv, [Looks!Next]_looksVars
  PROVE  LooksInv'
<1>1. ASSUME NEW p \in Probes, NEW answer \in Answer, ~shared => IsOf(answer, p),
             Looks!Gives(p, answer), UNCHANGED <<boxes, shared>>
      PROVE  LooksInv'
  BY <1>1, GoesOn DEF Looks!Gives, Looks!Says
<1>2. ASSUME NEW p \in Probes, NEW stage \in Looks!Stages \ {"idle", "given"}, Looks!To(p, stage),
             UNCHANGED <<boxes, answers, shared>>
      PROVE  LooksInv'
  <2>1. answers' = [answers EXCEPT ![p] = answers[p]] /\ answers[p] \in Answer /\ (~shared => IsOf(answers[p], p))
    BY <1>2 DEF LooksInv
  <2> QED BY <1>2, <2>1, GoesOn
<1>3. ASSUME NEW p \in Probes, Looks!Finally(p), UNCHANGED <<boxes, answers, shared>> PROVE LooksInv'
  <2>1. answers' = [answers EXCEPT ![p] = answers[p]] /\ answers[p] \in Answer /\ (~shared => IsOf(answers[p], p))
    BY <1>3 DEF LooksInv
  <2> QED BY <1>3, <2>1, GoesOn
<1>4. ASSUME NEW p \in Probes, Looks!GivesUp(p), UNCHANGED <<boxes, shared>> PROVE LooksInv'
  <2>1. CASE Looks!To(p, "fallback") /\ UNCHANGED answers
    BY <1>2, <1>4, <2>1 DEF Looks!Stages
  <2>2. CASE Looks!Gives(p, Looks!Unavailable)
    BY <1>1, <1>4, <2>2, NothingSaid
  <2> QED BY <1>4, <2>1, <2>2 DEF Looks!GivesUp
<1>5. ASSUME NEW p \in Probes, NEW mode \in Looks!Modes, Looks!Begin(p, mode) PROVE LooksInv'
  <2>1. /\ probes[p].stage = "idle" /\ boxes[p] = "none" /\ UNCHANGED boxes
        /\ answers' = [answers EXCEPT ![p] = Looks!Unavailable]
    BY <1>5 DEF Looks!Begin, Looks!Says, LooksInv, LookIsSound
  <2>2. CASE UNCHANGED <<probes, shared>>
    <3>1. probes' = [probes EXCEPT ![p] = probes[p]] /\ boxes' = [boxes EXCEPT ![p] = boxes[p]]
      BY <2>1, <2>2 DEF LooksInv
    <3>2. probes[p] \in Look /\ boxes[p] \in Box /\ LookIsSound(probes[p], boxes[p])
      BY DEF LooksInv
    <3> QED BY <2>1, <2>2, <3>1, <3>2, LookMoves, NothingSaid
  <2>3. CASE Looks!FindPort(p, mode)
    <3>1. PICK port \in ProbePorts :
            /\ probes' = [probes EXCEPT ![p] = [stage |-> "given", mode |-> mode, port |-> port]]
            /\ shared' = (shared \/ \E q \in Probes \ {p} : probes[q].port = port)
      BY <2>3 DEF Looks!FindPort
    <3>2. PICK look : look = [stage |-> "given", mode |-> mode, port |-> port]
      OBVIOUS
    <3>3. look \in Look /\ look.port = port /\ look.stage = "given"
      BY <3>2 DEF Look, Looks!Stages
    <3>4. probes' = [probes EXCEPT ![p] = look]
      BY <3>1, <3>2
    <3>5. probes' \in [Probes -> Look] /\ boxes' \in [Probes -> Box] /\ answers' \in [Probes -> Answer] /\ shared' \in BOOLEAN
      BY <2>1, <3>1, <3>3, <3>4, NothingSaid DEF LooksInv
    <3>6. \A q \in Probes : LookIsSound(probes'[q], boxes'[q])
      BY <2>1, <3>3, <3>4 DEF LooksInv, LookIsSound
    <3>7. ASSUME ~shared', NEW q \in Probes, NEW r \in Probes, probes'[q].port = probes'[r].port, q # r
          PROVE  probes'[q].port = Looks!NoPort
      <4>1. ~shared /\ \A s \in Probes \ {p} : probes[s].port # port
        BY <3>1, <3>7 DEF LooksInv
      <4>2. CASE q # p /\ r # p
        BY <3>4, <3>7, <4>1, <4>2 DEF LooksInv
      <4>3. CASE q = p \/ r = p
        BY <3>3, <3>4, <3>7, <4>1, <4>3 DEF LooksInv
      <4> QED BY <4>2, <4>3
    <3>8. ASSUME ~shared', NEW q \in Probes PROVE IsOf(answers'[q], q)
      BY <2>1, <3>1, <3>8, NothingSaid DEF LooksInv
    <3> QED BY <3>5, <3>6, <3>7, <3>8 DEF LooksInv
  <2> QED BY <1>5, <2>2, <2>3 DEF Looks!Begin
<1>6. ASSUME NEW p \in Probes,
             Looks!LookAtNode(p) \/ Looks!LookThroughFront(p) \/ Looks!SpeedTest(p) \/ Looks!FetchText(p) \/ Looks!FetchJson(p)
      PROVE  LooksInv'
  <2>1. CASE Looks!Says(p, Looks!Unavailable) /\ Looks!To(p, "fallback") /\ UNCHANGED <<boxes, shared>>
    BY <2>1, GoesOn, NothingSaid DEF Looks!Says, Looks!Stages
  <2>2. CASE \E mode \in Looks!Modes : Looks!Begin(p, mode)
    BY <1>5, <2>2
  <2> QED
    BY <1>6, <2>1, <2>2
    DEF Looks!LookAtNode, Looks!LookThroughFront, Looks!SpeedTest, Looks!FetchText, Looks!FetchJson, Looks!Modes
<1>7. ASSUME NEW p \in Probes, NEW box \in Box, boxes' = [boxes EXCEPT ![p] = box],
             boxes[p] # "none", box # "none", UNCHANGED <<probes, answers, shared>>
      PROVE  LooksInv'
  <2>1. probes[p] \in Look /\ answers[p] \in Answer /\ (~shared => IsOf(answers[p], p)) /\ LookIsSound(probes[p], box)
    BY <1>7 DEF LooksInv, LookIsSound
  <2>2. probes' = [probes EXCEPT ![p] = probes[p]] /\ answers' = [answers EXCEPT ![p] = answers[p]]
    BY <1>7 DEF LooksInv
  <2> QED BY <1>7, <2>1, <2>2, LookMoves
<1>8. ASSUME NEW p \in Probes, Looks!Spawn(p) PROVE LooksInv'
  <2>1. PICK look : look = [probes[p] EXCEPT !.stage = "waiting"]
    OBVIOUS
  <2>2. probes[p] \in Look /\ probes[p].port \in ProbePorts
    BY <1>8 DEF Looks!Spawn, LooksInv, LookIsSound
  <2>3. look \in Look /\ look.port = probes[p].port /\ look.stage = "waiting"
    BY <2>1, <2>2 DEF Look, Looks!Stages
  <2>4. probes' = [probes EXCEPT ![p] = look] /\ boxes' = [boxes EXCEPT ![p] = "starting"]
    BY <1>8, <2>1 DEF Looks!Spawn, Looks!To, LooksInv
  <2>5. answers' = [answers EXCEPT ![p] = answers[p]] /\ answers[p] \in Answer /\ (~shared => IsOf(answers[p], p))
    BY <1>8 DEF LooksInv, Looks!Spawn
  <2>6. LookIsSound(look, "starting") /\ "starting" \in Box
    BY <2>2, <2>3 DEF LookIsSound, Box
  <2> QED BY <1>8, <2>3, <2>4, <2>5, <2>6, LookMoves DEF Looks!Spawn
<1>9. ASSUME NEW p \in Probes, Looks!Connected(p) \/ Looks!StartupTimeout(p) PROVE LooksInv'
  BY <1>2, <1>4, <1>9 DEF Looks!Connected, Looks!StartupTimeout, Looks!Stages
<1>10. ASSUME NEW p \in Probes, Looks!Curl(p) PROVE LooksInv'
  <2>1. ASSUME NEW q \in Looks!Listeners(probes[p].port),
               \/ Looks!Gives(p, Looks!Reached(Looks!FinalNode(q)))
               \/ Looks!Says(p, Looks!Reached(Looks!FinalNode(q))) /\ Looks!To(p, "unlock")
        PROVE  LooksInv'
    <3>1. q \in Probes /\ (~shared => q = p)
      BY ListenerIsOwn
    <3>2. Looks!Reached(q) \in Answer /\ (~shared => IsOf(Looks!Reached(q), p))
      BY <3>1 DEF Looks!Reached, Answer, IsOf
    <3>3. UNCHANGED <<boxes, shared>>
      BY <1>10 DEF Looks!Curl
    <3> QED BY <1>1, <2>1, <3>2, <3>3, GoesOn DEF Looks!FinalNode, Looks!Says, Looks!Stages
  <2> QED BY <1>1, <1>10, <2>1, NothingSaid DEF Looks!Curl
<1>11. ASSUME NEW p \in Probes, Looks!Unlock(p) PROVE LooksInv'
  <2>1. ASSUME NEW q \in Looks!Listeners(probes[p].port),
               Looks!Gives(p, [answers[p] EXCEPT !.unlockOf = Looks!FinalNode(q)])
        PROVE  LooksInv'
    <3>1. q \in Probes /\ (~shared => q = p)
      BY ListenerIsOwn
    <3>2. answers[p] \in Answer /\ (~shared => IsOf(answers[p], p))
      BY DEF LooksInv
    <3>3. PICK answer : answer = [answers[p] EXCEPT !.unlockOf = q]
      OBVIOUS
    <3>4. answer \in Answer /\ answer.available = answers[p].available /\ answer.of = answers[p].of /\ answer.unlockOf = q
      BY <3>1, <3>2, <3>3 DEF Answer
    <3>5. ~shared => IsOf(answer, p)
      BY <3>1, <3>2, <3>4 DEF IsOf
    <3> QED BY <1>1, <1>11, <2>1, <3>3, <3>4, <3>5 DEF Looks!FinalNode, Looks!Unlock
  <2> QED BY <1>3, <1>11, <2>1 DEF Looks!Unlock
<1>12. ASSUME NEW p \in Probes, Looks!Fallback(p) PROVE LooksInv'
  <2>1. Looks!Reached(Looks!Tcp) \in Answer /\ IsOf(Looks!Reached(Looks!Tcp), p)
    BY DEF Looks!Reached, Answer, IsOf
  <2> QED BY <1>1, <1>12, <2>1, NothingSaid DEF Looks!Fallback
<1>13. ASSUME NEW p \in Probes, Looks!Stop(p) PROVE LooksInv'
  <2>1. probes' = [probes EXCEPT ![p] = Looks!Idle] /\ boxes' = [boxes EXCEPT ![p] = "none"] /\ UNCHANGED <<answers, shared>>
    BY <1>13 DEF Looks!Stop, Looks!StopProcess
  <2>2. answers' = [answers EXCEPT ![p] = answers[p]] /\ answers[p] \in Answer /\ (~shared => IsOf(answers[p], p))
    BY <2>1 DEF LooksInv
  <2>3. LookIsSound(Looks!Idle, "none") /\ "none" \in Box
    BY IdleLook DEF LookIsSound, Box
  <2> QED BY <2>1, <2>2, <2>3, IdleLook, LookMoves
<1>14. ASSUME NEW p \in Probes, Looks!BoxBinds(p) \/ Looks!BoxExits(p) PROVE LooksInv'
  <2>1. PICK box \in {"up", "exited"} : boxes' = [boxes EXCEPT ![p] = box]
    BY <1>14 DEF Looks!BoxBinds, Looks!BoxExits
  <2>2. boxes[p] # "none" /\ box # "none" /\ box \in Box /\ UNCHANGED <<probes, answers, shared>>
    BY <1>14 DEF Looks!BoxBinds, Looks!BoxExits, Box
  <2> QED BY <1>7, <2>1, <2>2
<1>15. CASE UNCHANGED looksVars
  BY <1>15 DEF looksVars, LooksInv
<1> QED
  BY <1>6, <1>8, <1>9, <1>10, <1>11, <1>12, <1>13, <1>14, <1>15 DEF Looks!Next, Looks!Step

LEMMA AnswersAreOfTheNode == LooksInv => Looks!AnswerIsOfTheNode
BY DEF LooksInv, IsOf, Looks!AnswerIsOfTheNode

LEMMA LooksTypes == LooksInv => Looks!TypeOK
BY DEF LooksInv, Look, Box, Answer, Looks!TypeOK

-----------------------------------------------------------------------------
(* SingBoxBackend.                                                          *)

Work == [op : {"start", "stop", "create", "delete", "read", "list", "write", "running"}, instance : Instances,
         status : {"none", "stopped", "running", "failed", "exited"}, pid : Backend!Procs \cup {Backend!NoProc}]

Up(child) == child.state \in {"up", "deaf"}

(* No two processes run for one instance.                                   *)
Alone(table) ==
  \A m, n \in Backend!Procs : Up(table[m]) /\ Up(table[n]) /\ table[m].instance = table[n].instance => m = n

RecordsAreSound ==
  /\ children \in [Backend!Procs -> Backend!Child]
  /\ processes \in [Instances -> Backend!Procs \cup {Backend!NoProc}]
  /\ instanceRows \in [Instances -> Backend!RowOf]
  /\ attempts \in 0 .. MaxRestarts
  /\ process \in {Backend!NoProc, processes[Default]}
  /\ Alone(children)

BackendInv ==
  /\ RecordsAreSound
  /\ todo \in [Backend!Threads -> Seq(Work)]
  /\ \A t \in Backend!Threads : Len(todo[t]) <= 3
  /\ health \in {"sleeping", "probing", "restarting"}

LEMMA BackendAssumptions ==
  Default \in Instances /\ MaxRestarts \in Nat /\ MaxProcs \in Nat \ {0} /\ Backend!NoProc \notin Backend!Procs
BY ProcessesAssumption DEF Backend!NoProc, Backend!Procs

LEMMA RunningIsUp == \A n \in Backend!Procs : Backend!Running(n) <=> Up(children[n])
BY BackendAssumptions DEF Backend!Running, Up

LEMMA NobodyIsUp == Backend!NoChild \in Backend!Child /\ ~Up(Backend!NoChild)
BY BackendAssumptions DEF Backend!NoChild, Backend!Child, Up

LEMMA BackendStarts == Backend!Init => BackendInv
<1> SUFFICES ASSUME Backend!Init PROVE BackendInv
  OBVIOUS
<1>1. PICK left \in SUBSET Instances : \E pids \in [left -> Backend!Procs] :
        /\ children = [n \in Backend!Procs |->
                         IF \E i \in left : pids[i] = n
                         THEN [state |-> "up", instance |-> CHOOSE i \in left : pids[i] = n]
                         ELSE Backend!NoChild]
        /\ instanceRows \in [Instances -> {Backend!NoRow, [status |-> "running", pid |-> 1]}]
  BY DEF Backend!Init
<1>2. PICK pids \in [left -> Backend!Procs] :
         children = [n \in Backend!Procs |->
                      IF \E i \in left : pids[i] = n
                      THEN [state |-> "up", instance |-> CHOOSE i \in left : pids[i] = n]
                      ELSE Backend!NoChild]
  BY <1>1
<1>3. ASSUME NEW n \in Backend!Procs
      PROVE  /\ children[n] \in Backend!Child
             /\ Up(children[n]) => children[n].instance \in left /\ pids[children[n].instance] = n
  <2>1. CASE \E i \in left : pids[i] = n
    <3>1. PICK i \in left : i = (CHOOSE j \in left : pids[j] = n) /\ pids[i] = n
      BY <2>1
    <3>2. children[n] = [state |-> "up", instance |-> i]
      BY <1>2, <2>1, <3>1
    <3> QED BY <3>1, <3>2 DEF Backend!Child
  <2>2. CASE ~ \E i \in left : pids[i] = n
    BY <1>2, <2>2, NobodyIsUp
  <2> QED BY <2>1, <2>2
<1>4. Alone(children)
  <2> SUFFICES ASSUME NEW m \in Backend!Procs, NEW n \in Backend!Procs, Up(children[m]), Up(children[n]),
                      children[m].instance = children[n].instance
               PROVE  m = n
    BY DEF Alone
  <2> QED BY <1>3
<1>5. children \in [Backend!Procs -> Backend!Child]
  <2>1. children = [n \in Backend!Procs |-> children[n]]
    BY <1>2
  <2> QED BY <1>3, <2>1
<1>6. {Backend!NoRow, [status |-> "running", pid |-> 1]} \subseteq Backend!RowOf
  BY BackendAssumptions DEF Backend!NoRow, Backend!RowOf, Backend!Procs
<1>7. instanceRows \in [Instances -> Backend!RowOf]
  BY <1>1, <1>6
<1>8. RecordsAreSound
  BY <1>4, <1>5, <1>7, BackendAssumptions DEF RecordsAreSound, Backend!Init
<1>9. todo \in [Backend!Threads -> Seq(Work)] /\ \A t \in Backend!Threads : Len(todo[t]) <= 3
  BY DEF Backend!Init
<1> QED BY <1>8, <1>9 DEF BackendInv, Backend!Init

(* A step after which no process runs that did not run leaves them alone.   *)
LEMMA NoneStarts ==
  ASSUME RecordsAreSound, NEW table,
         \A n \in Backend!Procs : Up(table[n]) => Up(children[n]) /\ table[n].instance = children[n].instance
  PROVE  Alone(table)
BY DEF RecordsAreSound, Alone

(* poll().                                                                  *)
LEMMA ReapedChildren ==
  ASSUME RecordsAreSound, NEW n \in Backend!Procs \cup {Backend!NoProc}
  PROVE  /\ Backend!Reaped(n) \in [Backend!Procs -> Backend!Child]
         /\ \A m \in Backend!Procs : Up(Backend!Reaped(n)[m]) => Backend!Reaped(n)[m] = children[m]
         /\ \A m \in Backend!Procs : Up(children[m]) => Backend!Reaped(n)[m] = children[m]
<1>1. CASE n # Backend!NoProc /\ ~Up(children[n])
  <2>1. n \in Backend!Procs /\ Backend!Reaped(n) = [children EXCEPT ![n] = Backend!NoChild]
    BY <1>1, RunningIsUp DEF Backend!Reaped
  <2> QED BY <1>1, <2>1, NobodyIsUp DEF RecordsAreSound
<1>2. CASE n = Backend!NoProc \/ Up(children[n])
  <2>1. Backend!Reaped(n) = children
    BY <1>2, RunningIsUp DEF Backend!Reaped
  <2> QED BY <2>1 DEF RecordsAreSound
<1> QED BY <1>1, <1>2

LEMMA StartSteps ==
  ASSUME RecordsAreSound, NEW i \in Instances, Backend!StartInstance(i)
  PROVE  RecordsAreSound'
<1>1. processes[i] \in Backend!Procs \cup {Backend!NoProc}
  BY DEF RecordsAreSound
<1>2. CASE Backend!StartReturns(i)
  BY <1>2 DEF Backend!StartReturns, RecordsAreSound
<1>3. CASE Backend!StartFails(i)
  <2>1. children' = Backend!Reaped(processes[i])
    BY <1>3 DEF Backend!StartFails
  <2>2. children' \in [Backend!Procs -> Backend!Child]
    BY <1>1, <2>1, ReapedChildren
  <2>3. Alone(children')
    BY <1>1, <2>1, ReapedChildren, NoneStarts
  <2>4. [status |-> "failed", pid |-> Backend!NoProc] \in Backend!RowOf
    BY DEF Backend!RowOf
  <2>5. /\ processes' \in [Instances -> Backend!Procs \cup {Backend!NoProc}]
        /\ instanceRows' \in [Instances -> Backend!RowOf] /\ attempts' \in 0 .. MaxRestarts
    BY <1>3, <2>4 DEF Backend!StartFails, RecordsAreSound
  <2>6. process' \in {Backend!NoProc, processes'[Default]}
    BY <1>3, BackendAssumptions DEF Backend!StartFails, Backend!ForgetDefault, RecordsAreSound
  <2> QED BY <2>2, <2>3, <2>5, <2>6 DEF RecordsAreSound
<1>4. ASSUME NEW n \in Backend!Fresh, Backend!StartSucceeds(i, n) PROVE RecordsAreSound'
  <2>1. n \in Backend!Procs
    BY DEF Backend!Fresh
  <2>2. PICK child : child = [state |-> "up", instance |-> i]
    OBVIOUS
  <2>3. child \in Backend!Child /\ child.instance = i
    BY <2>2 DEF Backend!Child
  <2>4. children' = [Backend!Reaped(processes[i]) EXCEPT ![n] = child]
    BY <1>4, <2>2 DEF Backend!StartSucceeds
  <2>5. PICK reaped : reaped = Backend!Reaped(processes[i])
    OBVIOUS
  <2>6. /\ reaped \in [Backend!Procs -> Backend!Child]
        /\ \A m \in Backend!Procs : Up(reaped[m]) => reaped[m] = children[m]
    BY <1>1, <2>5, ReapedChildren
  <2>7. \A m \in Backend!Procs : Up(children[m]) => children[m].instance # i
    BY <1>4, RunningIsUp DEF Backend!StartSucceeds, Backend!PortAvailable
  <2>8. children' \in [Backend!Procs -> Backend!Child] /\ children'[n] = child
        /\ \A m \in Backend!Procs \ {n} : children'[m] = reaped[m]
    BY <2>1, <2>3, <2>4, <2>5, <2>6
  <2>9. \A m \in Backend!Procs \ {n} : Up(children'[m]) => children'[m] = children[m] /\ children'[m].instance # i
    BY <2>6, <2>7, <2>8
  <2>10. Alone(children')
    BY <2>1, <2>3, <2>8, <2>9 DEF Alone, RecordsAreSound
  <2>11. [status |-> "running", pid |-> n] \in Backend!RowOf
    BY <2>1 DEF Backend!RowOf
  <2>12. /\ processes' \in [Instances -> Backend!Procs \cup {Backend!NoProc}]
         /\ instanceRows' \in [Instances -> Backend!RowOf] /\ attempts' \in 0 .. MaxRestarts
    BY <1>4, <2>1, <2>11, BackendAssumptions DEF Backend!StartSucceeds, RecordsAreSound
  <2>13. process' \in {Backend!NoProc, processes'[Default]}
    BY <1>4, BackendAssumptions DEF Backend!StartSucceeds, RecordsAreSound
  <2> QED BY <2>8, <2>10, <2>12, <2>13 DEF RecordsAreSound
<1> QED BY <1>2, <1>3, <1>4 DEF Backend!StartInstance

LEMMA StopSteps ==
  ASSUME RecordsAreSound, NEW i \in Instances, Backend!StopInstance(i)
  PROVE  RecordsAreSound'
<1>1. PICK n \in Backend!Procs \cup {Backend!NoProc} : n = processes[i]
  BY DEF RecordsAreSound
<1>2. children' = IF n = Backend!NoProc THEN children ELSE [children EXCEPT ![n] = Backend!NoChild]
  BY <1>1 DEF Backend!StopInstance
<1>3. /\ children' \in [Backend!Procs -> Backend!Child]
      /\ \A m \in Backend!Procs : Up(children'[m]) => children'[m] = children[m]
  BY <1>1, <1>2, NobodyIsUp DEF RecordsAreSound
<1>4. Alone(children')
  BY <1>3, NoneStarts
<1>5. PICK status \in {"exited", "stopped"} : Backend!RowStatus(i, status, n)
  BY <1>1 DEF Backend!StopInstance
<1>6. [status |-> status, pid |-> n] \in Backend!RowOf
  BY <1>1, <1>5 DEF Backend!RowOf
<1>7. instanceRows' \in [Instances -> Backend!RowOf]
  BY <1>5, <1>6 DEF Backend!RowStatus, RecordsAreSound
<1>8. processes' = [processes EXCEPT ![i] = Backend!NoProc] /\ process' = IF i = Default THEN Backend!NoProc ELSE process
  BY DEF Backend!StopInstance, Backend!ForgetDefault
<1>9. attempts' \in 0 .. MaxRestarts
  BY BackendAssumptions DEF Backend!StopInstance, RecordsAreSound
<1> QED BY <1>3, <1>4, <1>7, <1>8, <1>9, BackendAssumptions DEF RecordsAreSound

(* is_running.                                                              *)
LEMMA AskedIfRunning ==
  ASSUME RecordsAreSound, Backend!IsRunning, UNCHANGED <<processes, instanceRows>>, attempts' \in 0 .. MaxRestarts
  PROVE  RecordsAreSound'
<1>1. process \in Backend!Procs \cup {Backend!NoProc}
  BY BackendAssumptions DEF RecordsAreSound
<1>2. children' = Backend!Reaped(process) /\ process' \in {process, Backend!NoProc}
  BY DEF Backend!IsRunning
<1>3. children' \in [Backend!Procs -> Backend!Child] /\ Alone(children')
  BY <1>1, <1>2, ReapedChildren, NoneStarts
<1> QED BY <1>2, <1>3 DEF RecordsAreSound

(* A row written without the lock.                                          *)
LEMMA RowWritten ==
  ASSUME RecordsAreSound, instanceRows' \in [Instances -> Backend!RowOf], Backend!NoProcess
  PROVE  RecordsAreSound'
BY DEF RecordsAreSound, Backend!NoProcess

(* What a thread has still to do.                                           *)
TodoIsSound ==
  todo \in [Backend!Threads -> Seq(Work)] /\ \A t \in Backend!Threads : Len(todo[t]) <= 3

LEMMA Works ==
  ASSUME NEW i \in Instances
  PROVE  /\ \A op \in {"start", "stop", "create", "delete", "read", "list", "running"} : Backend!Do(op, i) \in Work
         /\ \A s \in {"none", "stopped", "running", "failed", "exited"}, n \in Backend!Procs \cup {Backend!NoProc} :
              Backend!Write(i, s, n) \in Work
BY DEF Backend!Do, Backend!Write, Work

LEMMA TodoReplaced ==
  ASSUME TodoIsSound, NEW t, NEW steps \in Seq(Work), Len(steps) <= 3, todo' = [todo EXCEPT ![t] = steps]
  PROVE  TodoIsSound'
BY DEF TodoIsSound

LEMMA TodoGoesOn ==
  ASSUME TodoIsSound, NEW t \in Backend!Threads, todo[t] # <<>>
  PROVE  /\ Head(todo[t]) \in Work
         /\ Tail(todo[t]) \in Seq(Work) /\ Len(Tail(todo[t])) <= 2
         /\ Backend!Next1(t) => TodoIsSound'
<1>1. todo[t] \in Seq(Work) /\ Len(todo[t]) <= 3
  BY DEF TodoIsSound
<1>2. Head(todo[t]) \in Work /\ Tail(todo[t]) \in Seq(Work) /\ Len(Tail(todo[t])) <= 2
  BY <1>1
<1>3. Backend!Next1(t) => todo' = [todo EXCEPT ![t] = Tail(todo[t])]
  BY DEF Backend!Next1
<1>4. Len(Tail(todo[t])) <= 3
  BY <1>2
<1> QED BY <1>2, <1>3, <1>4, TodoReplaced

LEMMA RequestSteps ==
  ASSUME TodoIsSound, Backend!Requests
  PROVE  TodoIsSound'
<1>1. ASSUME NEW t, NEW a \in Work, Backend!Request(t, <<a>>) PROVE TodoIsSound'
  <2>1. <<a>> \in Seq(Work) /\ Len(<<a>>) <= 3
    BY <1>1
  <2> QED BY <1>1, <2>1, TodoReplaced DEF Backend!Request
<1>2. ASSUME NEW t, NEW a \in Work, NEW b \in Work, Backend!Request(t, <<a, b>>) PROVE TodoIsSound'
  <2>1. <<a, b>> \in Seq(Work) /\ Len(<<a, b>>) <= 3
    BY <1>2
  <2> QED BY <1>2, <2>1, TodoReplaced DEF Backend!Request
<1>3. ASSUME NEW t, NEW a \in Work, NEW b \in Work, NEW c \in Work, Backend!Request(t, <<a, b, c>>) PROVE TodoIsSound'
  <2>1. <<a, b, c>> \in Seq(Work) /\ Len(<<a, b, c>>) <= 3
    BY <1>3
  <2> QED BY <1>3, <2>1, TodoReplaced DEF Backend!Request
<1>4. PICK i \in Instances :
        \/ \E op \in {"start", "stop", "create", "list", "read", "running"}, t \in Backend!Threads :
             Backend!Request(t, <<Backend!Do(op, i)>>)
        \/ Backend!Request("worker", <<Backend!Do("stop", i), Backend!Do("start", i)>>)
        \/ Backend!Request("loop", <<Backend!Do("stop", i), Backend!Do("delete", i)>>)
        \/ Backend!Request("loop", <<Backend!Do("read", i), Backend!Do("stop", i), Backend!Do("start", i)>>)
  BY DEF Backend!Requests, Backend!Threads
<1>5. \A op \in {"start", "stop", "create", "delete", "read", "list", "running"} : Backend!Do(op, i) \in Work
  BY Works
<1> QED BY <1>1, <1>2, <1>3, <1>4, <1>5

LEMMA ThreadSteps ==
  ASSUME BackendInv, NEW t \in Backend!Threads, Backend!Step(t)
  PROVE  BackendInv'
<1>1. RecordsAreSound /\ TodoIsSound /\ health' \in {"sleeping", "probing", "restarting"} /\ todo[t] # <<>>
  BY DEF BackendInv, TodoIsSound, Backend!Step
<1>2. PICK step \in Work : step = Head(todo[t])
  BY <1>1, TodoGoesOn
<1>3. PICK i \in Instances : i = step.instance
  BY <1>2 DEF Work
<1>4. Tail(todo[t]) \in Seq(Work) /\ Len(Tail(todo[t])) <= 2
  BY <1>1, TodoGoesOn
<1>5. Backend!Next1(t) => TodoIsSound'
  BY <1>1, TodoGoesOn
<1>6. instanceRows[i] \in Backend!RowOf /\ instanceRows \in [Instances -> Backend!RowOf]
  BY <1>1 DEF RecordsAreSound
<1>7. SUFFICES RecordsAreSound' /\ TodoIsSound'
  BY <1>1 DEF BackendInv, TodoIsSound
<1>8. CASE Backend!StartInstance(i) /\ Backend!Next1(t)
  BY <1>1, <1>5, <1>8, StartSteps
<1>9. CASE Backend!StopInstance(i) /\ Backend!Next1(t)
  BY <1>1, <1>5, <1>9, StopSteps
<1>10. CASE Backend!Create(t, i)
  <2>1. PICK status \in {"stopped", instanceRows[i].status} : instanceRows' = [instanceRows EXCEPT ![i].status = status]
    BY <1>6, <1>10 DEF Backend!Create
  <2>2. [instanceRows[i] EXCEPT !.status = status] \in Backend!RowOf
    BY <1>6, <2>1 DEF Backend!RowOf
  <2>3. instanceRows' \in [Instances -> Backend!RowOf]
    BY <1>6, <2>1, <2>2
  <2> QED BY <1>1, <1>5, <1>10, <2>3, RowWritten DEF Backend!Create
<1>11. CASE Backend!Delete(t, i)
  <2>1. Backend!NoRow \in Backend!RowOf
    BY DEF Backend!NoRow, Backend!RowOf
  <2> QED BY <1>1, <1>5, <1>6, <1>11, <2>1, RowWritten DEF Backend!Delete
<1>12. CASE Backend!ReadRow(t, i)
  <2>1. PICK status \in {"none", "stopped", "running", "failed", "exited"}, n \in Backend!Procs \cup {Backend!NoProc},
             rest \in {<<>>, Tail(todo[t])} :
          todo' = [todo EXCEPT ![t] = <<Backend!Write(i, status, n)>> \o rest]
    BY <1>6, <1>12 DEF Backend!ReadRow, Backend!Instead, Backend!RowOf
  <2>2. Backend!Write(i, status, n) \in Work
    BY <2>1, Works
  <2>3. rest \in Seq(Work) /\ Len(rest) <= 2
    <3>1. CASE rest = <<>>
      BY <3>1
    <3>2. CASE rest = Tail(todo[t])
      BY <1>4, <3>2
    <3> QED BY <2>1, <3>1, <3>2
  <2>4. PICK first \in Work : first = Backend!Write(i, status, n)
    BY <2>2
  <2>5. <<first>> \o rest \in Seq(Work) /\ Len(<<first>> \o rest) <= 3
    BY <2>3, <2>4
  <2>6. TodoIsSound'
    BY <1>1, <2>1, <2>4, <2>5, TodoReplaced
  <2> QED BY <1>1, <1>6, <1>12, <2>6, RowWritten DEF Backend!ReadRow, Backend!NoProcess
<1>13. CASE Backend!ListRows(t, i)
  <2>1. CASE Backend!Next1(t)
    BY <1>1, <1>5, <1>6, <1>13, <2>1, RowWritten DEF Backend!ListRows, Backend!NoProcess
  <2>2. CASE Backend!Instead(t, <<Backend!Write(i, "exited", instanceRows[i].pid)>>)
    <3>1. Backend!Write(i, "exited", instanceRows[i].pid) \in Work
      BY <1>6, Works DEF Backend!RowOf
    <3>2. PICK first \in Work : first = Backend!Write(i, "exited", instanceRows[i].pid)
      BY <3>1
    <3>3. <<first>> \in Seq(Work) /\ Len(<<first>>) <= 3
      OBVIOUS
    <3>4. TodoIsSound'
      BY <1>1, <2>2, <3>2, <3>3, TodoReplaced DEF Backend!Instead
    <3> QED BY <1>1, <1>6, <1>13, <3>4, RowWritten DEF Backend!ListRows, Backend!NoProcess
  <2> QED BY <1>13, <2>1, <2>2 DEF Backend!ListRows
<1>14. CASE Backend!WriteRow(t, step)
  <2>1. [status |-> step.status, pid |-> step.pid] \in Backend!RowOf
    BY <1>2 DEF Work, Backend!RowOf
  <2>2. PICK row \in Backend!RowOf : instanceRows' = [instanceRows EXCEPT ![i] = row]
    BY <1>3, <1>6, <1>14, <2>1 DEF Backend!WriteRow
  <2> QED BY <1>1, <1>5, <1>6, <1>14, <2>2, RowWritten DEF Backend!WriteRow
<1>15. CASE Backend!RestartIfRunning(t)
  <2>1. RecordsAreSound'
    BY <1>1, <1>15, AskedIfRunning DEF Backend!RestartIfRunning, RecordsAreSound
  <2>2. PICK a \in Work, b \in Work : a = Backend!Do("stop", Default) /\ b = Backend!Do("start", Default)
    BY Works, BackendAssumptions
  <2>3. <<a, b>> \in Seq(Work) /\ Len(<<a, b>>) <= 3
    OBVIOUS
  <2>4. TodoIsSound'
    BY <1>1, <1>5, <1>15, <2>2, <2>3, TodoReplaced DEF Backend!RestartIfRunning, Backend!Instead
  <2> QED BY <2>1, <2>4
<1> QED
  BY <1>2, <1>3, <1>8, <1>9, <1>10, <1>11, <1>12, <1>13, <1>14, <1>15 DEF Backend!Step

LEMMA HealthSteps ==
  ASSUME BackendInv, Backend!Health
  PROVE  BackendInv'
<1>1. RecordsAreSound /\ TodoIsSound /\ UNCHANGED todo
  BY DEF BackendInv, TodoIsSound, Backend!Health, Backend!HealthCheck, Backend!HealthProbe, Backend!HealthRestart
<1>2. TodoIsSound'
  BY <1>1 DEF TodoIsSound
<1>3. Backend!TryAutoRestart => attempts' \in 0 .. MaxRestarts /\ health' \in {"restarting", "sleeping"}
  BY <1>1, BackendAssumptions DEF Backend!TryAutoRestart, RecordsAreSound
<1>4. CASE Backend!HealthCheck
  <2>1. attempts' \in 0 .. MaxRestarts /\ health' \in {"sleeping", "probing", "restarting"}
    BY <1>1, <1>3, <1>4 DEF Backend!HealthCheck, RecordsAreSound
  <2>2. RecordsAreSound'
    BY <1>1, <1>4, <2>1, AskedIfRunning DEF Backend!HealthCheck
  <2> QED BY <1>2, <2>1, <2>2 DEF BackendInv, TodoIsSound
<1>5. CASE Backend!HealthProbe
  <2>1. attempts' \in 0 .. MaxRestarts /\ health' \in {"sleeping", "probing", "restarting"}
    BY <1>1, <1>3, <1>5 DEF Backend!HealthProbe, RecordsAreSound
  <2>2. RecordsAreSound'
    BY <1>1, <1>5, <2>1 DEF Backend!HealthProbe, RecordsAreSound
  <2> QED BY <1>2, <2>1, <2>2 DEF BackendInv, TodoIsSound
<1>6. CASE Backend!HealthRestart
  <2>1. RecordsAreSound' /\ health' = "sleeping"
    BY <1>1, <1>6, StartSteps, BackendAssumptions DEF Backend!HealthRestart
  <2> QED BY <1>2, <2>1 DEF BackendInv, TodoIsSound
<1> QED BY <1>4, <1>5, <1>6 DEF Backend!Health

LEMMA BackendSteps ==
  ASSUME BackendInv, [Backend!Next]_backendVars
  PROVE  BackendInv'
<1>1. RecordsAreSound /\ TodoIsSound
  BY DEF BackendInv, TodoIsSound
<1>2. CASE Backend!Requests
  <2>1. TodoIsSound'
    BY <1>1, <1>2, RequestSteps
  <2>2. RecordsAreSound'
    BY <1>1, <1>2 DEF Backend!Requests, RecordsAreSound
  <2> QED BY <1>2, <2>1, <2>2 DEF BackendInv, TodoIsSound, Backend!Requests
<1>3. ASSUME NEW n \in Backend!Procs, NEW child \in Backend!Child, children' = [children EXCEPT ![n] = child],
             Up(child) => Up(children[n]) /\ child.instance = children[n].instance,
             UNCHANGED <<processes, process, instanceRows, attempts, todo, health>>
      PROVE  BackendInv'
  <2>1. children' \in [Backend!Procs -> Backend!Child]
    BY <1>1, <1>3 DEF RecordsAreSound
  <2>2. Alone(children')
    BY <1>1, <1>3, NoneStarts DEF RecordsAreSound
  <2> QED BY <1>1, <1>3, <2>1, <2>2 DEF BackendInv, RecordsAreSound
<1>4. ASSUME NEW n \in Backend!Procs PROVE children[n] \in Backend!Child
  BY <1>1, <1>4 DEF RecordsAreSound
<1>5. ASSUME NEW n \in Backend!Procs, Backend!ProcessExits(n) PROVE BackendInv'
  <2>1. PICK zombie : zombie = [children[n] EXCEPT !.state = "zombie"]
    OBVIOUS
  <2>2. zombie \in Backend!Child /\ ~Up(zombie)
    BY <1>4, <2>1 DEF Backend!Child, Up
  <2>3. PICK child \in {zombie, Backend!NoChild} : children' = [children EXCEPT ![n] = child]
    BY <1>1, <1>5, <2>1 DEF Backend!ProcessExits, RecordsAreSound
  <2> QED BY <1>3, <1>5, <2>2, <2>3, NobodyIsUp DEF Backend!ProcessExits
<1>6. ASSUME NEW n \in Backend!Procs, Backend!ProcessStalls(n) PROVE BackendInv'
  <2>1. PICK state \in {"up", "deaf"} : children' = [children EXCEPT ![n].state = state]
    BY <1>1, <1>6 DEF Backend!ProcessStalls, RecordsAreSound
  <2>2. PICK child : child = [children[n] EXCEPT !.state = state]
    OBVIOUS
  <2>3. child \in Backend!Child /\ child.instance = children[n].instance
    BY <1>4, <2>1, <2>2 DEF Backend!Child
  <2>4. children' = [children EXCEPT ![n] = child]
    BY <2>1, <2>2
  <2>5. Up(children[n])
    BY <1>6, RunningIsUp DEF Backend!ProcessStalls
  <2> QED BY <1>3, <1>6, <2>3, <2>4, <2>5 DEF Backend!ProcessStalls
<1>7. CASE UNCHANGED backendVars
  BY <1>7 DEF backendVars, BackendInv, RecordsAreSound
<1> QED
  BY <1>2, <1>5, <1>6, <1>7, ThreadSteps, HealthSteps DEF Backend!Next

LEMMA BackendIsRight == BackendInv => Backend!TypeOK /\ Backend!OneProcessPerInstance
<1> SUFFICES ASSUME BackendInv PROVE Backend!TypeOK /\ Backend!OneProcessPerInstance
  OBVIOUS
<1>1. Backend!TypeOK
  BY BackendAssumptions DEF BackendInv, RecordsAreSound, Backend!TypeOK
<1>2. Backend!OneProcessPerInstance
  BY RunningIsUp DEF BackendInv, RecordsAreSound, Alone, Backend!OneProcessPerInstance, Backend!OneDefaultProcess
<1> QED BY <1>1, <1>2

-----------------------------------------------------------------------------
(* NodeScore.                                                               *)

(* The rank of an index in a set of indices tells it from the others.       *)
Rank(S, i) == Cardinality({j \in S : j <= i})

LEMMA ScoreCardinality ==
  ASSUME NEW S
  PROVE  Scoring!Cardinality(S) = Cardinality(S)
BY DEF Scoring!Cardinality, Cardinality, Scoring!IsFiniteSet, IsFiniteSet

LEMMA Ranks ==
  ASSUME NEW S \in SUBSET Nat, IsFiniteSet(S)
  PROVE  /\ Cardinality(S) \in Nat
         /\ \A i \in S : Rank(S, i) \in 1 .. Cardinality(S)
         /\ \A i, j \in S : Rank(S, i) = Rank(S, j) => i = j
         /\ S # {} => \E i \in S : \A j \in S : j <= i
<1> DEFINE upto(i) == {j \in S : j <= i}
           rank    == [i \in S |-> Cardinality(upto(i))]
<1>1. Cardinality(S) \in Nat
  BY FS_CardinalityType
<1>2. ASSUME NEW i \in S
      PROVE  upto(i) \subseteq S /\ IsFiniteSet(upto(i)) /\ Cardinality(upto(i)) \in 1 .. Cardinality(S)
  <2>1. upto(i) \subseteq S /\ i \in upto(i)
    OBVIOUS
  <2> DEFINE u == upto(i)
  <2> HIDE DEF u
  <2>2. IsFiniteSet(u) /\ Cardinality(u) <= Cardinality(S) /\ Cardinality(u) \in Nat
    BY <2>1, FS_Subset, FS_CardinalityType DEF u
  <2>3. Cardinality(u) # 0
    BY <2>1, <2>2, FS_EmptySet DEF u
  <2> QED BY <1>1, <2>1, <2>2, <2>3 DEF u
<1>3. ASSUME NEW i \in S, NEW j \in S, i < j PROVE Cardinality(upto(i)) # Cardinality(upto(j))
  <2> DEFINE u == upto(i)
             v == upto(j)
  <2>1. u \subseteq v /\ j \in v /\ j \notin u
    <3>1. i \in Nat /\ j \in Nat /\ \A m \in S : m \in Nat
      OBVIOUS
    <3>2. \A m \in S : m <= i => m <= j
      BY ONLY <1>3, <3>1
    <3>3. ~ (j <= i) /\ j <= j
      BY ONLY <1>3, <3>1
    <3> QED BY <3>2, <3>3
  <2>2. IsFiniteSet(v)
    BY <1>2
  <2> HIDE DEF u, v
  <2>3. Cardinality(u) # Cardinality(v)
    BY <2>1, <2>2, FS_Subset
  <2> QED BY <2>3 DEF u, v
<1>4. \A i \in S : rank[i] \in 1 .. Cardinality(S) /\ rank[i] = Rank(S, i)
  BY <1>2 DEF Rank
<1>5. \A i, j \in S : rank[i] = rank[j] => i = j
  <2> SUFFICES ASSUME NEW i \in S, NEW j \in S, i # j PROVE rank[i] # rank[j]
    OBVIOUS
  <2>1. i < j \/ j < i
    OBVIOUS
  <2> QED BY <1>3, <2>1
<1>6. ASSUME S # {} PROVE \E i \in S : \A j \in S : j <= i
  <2>1. rank \in Injection(S, 1 .. Cardinality(S))
    BY <1>4, <1>5 DEF Injection, IsInjective
  <2> HIDE DEF rank
  <2>2. IsFiniteSet(1 .. Cardinality(S)) /\ Cardinality(1 .. Cardinality(S)) = Cardinality(S)
    BY <1>1, FS_Interval
  <2>3. rank \in Surjection(S, 1 .. Cardinality(S))
    BY <2>1, <2>2, FS_Injection
  <2>4. Cardinality(S) \in 1 .. Cardinality(S)
    BY <1>1, <1>6, FS_EmptySet
  <2>5. PICK i \in S : rank[i] = Cardinality(S)
    BY <2>3, <2>4 DEF Surjection
  <2>6. Cardinality(upto(i)) = Cardinality(S)
    BY <2>5 DEF rank
  <2> DEFINE u == upto(i)
  <2>7. u \subseteq S /\ Cardinality(u) = Cardinality(S)
    BY <2>6
  <2> HIDE DEF u
  <2>8. u = S
    BY <2>7, FS_Subset
  <2> QED BY <2>8 DEF u
<1> QED BY <1>1, <1>4, <1>5, <1>6

LEMMA Shifted ==
  ASSUME NEW S \in SUBSET Nat, IsFiniteSet(S), NEW T \in SUBSET Nat, NEW off \in Nat,
         \A i \in S : i + off \in T, \A t \in T : t - off \in S
  PROVE  IsFiniteSet(T) /\ Cardinality(T) = Cardinality(S)
<1>1. PICK f : f = [i \in S |-> i + off]
  OBVIOUS
<1>2. f \in [S -> T] /\ \A i, j \in S : f[i] = f[j] => i = j
  BY <1>1
<1>3. ASSUME NEW t \in T PROVE \E i \in S : f[i] = t
  <2>1. t - off \in S /\ (t - off) + off = t
    OBVIOUS
  <2> QED BY <1>1, <2>1
<1>4. f \in Bijection(S, T)
  BY <1>2, <1>3 DEF Bijection, Injection, Surjection, IsInjective
<1> QED BY <1>4, FS_Bijection DEF ExistsBijection

LEMMA Prefix ==
  ASSUME NEW n \in Nat, NEW S \in SUBSET (1 .. n), \A i \in S : \A j \in 1 .. i : j \in S
  PROVE  Cardinality(S) \in 0 .. n /\ S = 1 .. Cardinality(S)
<1>1. IsFiniteSet(1 .. n) /\ Cardinality(1 .. n) = n
  BY FS_Interval
<1>2. IsFiniteSet(S) /\ Cardinality(S) \in 0 .. n
  <2>1. IsFiniteSet(S) /\ Cardinality(S) <= n
    BY <1>1, FS_Subset
  <2>2. Cardinality(S) \in Nat
    BY <2>1, FS_CardinalityType
  <2> QED BY <2>1, <2>2
<1>3. PICK k \in Nat : k = Cardinality(S)
  BY <1>2
<1>4. ASSUME NEW i \in S PROVE i \in 1 .. k
  <2>1. i \in Nat /\ i >= 1 /\ 1 .. i \subseteq S
    OBVIOUS
  <2>2. Cardinality(1 .. i) = i
    BY <2>1, FS_Interval
  <2>3. i <= k
    BY <1>2, <1>3, <2>1, <2>2, FS_Subset
  <2> QED BY <2>1, <2>3
<1>5. S \subseteq 1 .. k /\ IsFiniteSet(1 .. k) /\ Cardinality(1 .. k) = k
  BY <1>4, FS_Interval
<1>6. S = 1 .. k
  BY <1>3, <1>5, FS_Subset
<1> QED BY <1>2, <1>3, <1>6

LEMMA ScoreAssumptions ==
  /\ MaxSamples \in Nat \ {0} /\ MaxAgeHours \in Nat \ {0} /\ Latencies \subseteq Nat
  /\ MaxHours \in Nat /\ MaxResults \in Nat
BY ProcessesAssumption DEF Scoring!NodeScoreAssumption

(* All results there have been, in order.                                   *)
InTime(all) ==
  /\ all \in Seq(Scoring!Sample)
  /\ \A i, j \in 1 .. Len(all) : i <= j => all[i].at <= all[j].at
  /\ \A i \in 1 .. Len(all) : all[i].at <= hour

(* A window has the last of them, and lacks only what was pushed out or has *)
(* aged.                                                                    *)
WindowIsRight(w, all) ==
  /\ w \in Seq(Scoring!Sample) /\ Len(w) <= MaxSamples /\ Len(w) <= Len(all)
  /\ \A i \in 1 .. Len(w) : w[i] = all[Len(all) - Len(w) + i]
  /\ \A i \in 1 .. Len(all) - Len(w) : i <= Len(all) - MaxSamples \/ all[i].at < hour - MaxAgeHours

Young(w) == \A i \in 1 .. Len(w) : w[i].at >= hour - MaxAgeHours

LEMMA SampleTimes ==
  ASSUME NEW s \in Scoring!Sample
  PROVE  s.at \in 0 .. MaxHours /\ s.at \in Nat
BY ScoreAssumptions DEF Scoring!Sample

LEMMA AppendedIsRight ==
  ASSUME hour \in Nat, NEW all, InTime(all), NEW w, WindowIsRight(w, all), NEW s \in Scoring!Sample, s.at = hour
  PROVE  WindowIsRight(Scoring!Appended(w, s), Append(all, s)) /\ InTime(Append(all, s))
<1> DEFINE v == Scoring!Appended(w, s)
           more == Append(all, s)
<1>1. /\ w \in Seq(Scoring!Sample) /\ Len(w) \in Nat /\ all \in Seq(Scoring!Sample) /\ Len(all) \in Nat
      /\ Len(w) <= MaxSamples /\ Len(w) <= Len(all)
  BY DEF WindowIsRight, InTime
<1>2. more \in Seq(Scoring!Sample) /\ Len(more) = Len(all) + 1 /\ more[Len(all) + 1] = s
      /\ \A i \in 1 .. Len(all) : more[i] = all[i]
  BY <1>1
<1>3. InTime(more)
  <2>1. \A i \in 1 .. Len(more) : more[i].at <= hour /\ more[i].at \in Int
    <3> SUFFICES ASSUME NEW i \in 1 .. Len(more) PROVE more[i].at <= hour /\ more[i].at \in Int
      OBVIOUS
    <3>1. CASE i \in 1 .. Len(all)
      <4>1. all[i] \in Scoring!Sample /\ more[i] = all[i]
        BY <1>1, <1>2, <3>1
      <4>2. all[i].at \in Int
        BY <4>1, SampleTimes
      <4> QED BY <3>1, <4>1, <4>2 DEF InTime
    <3>2. CASE i = Len(all) + 1
      BY <1>2, <3>2
    <3> QED BY <1>1, <1>2, <3>1, <3>2
  <2>2. ASSUME NEW i \in 1 .. Len(more), NEW j \in 1 .. Len(more), i <= j PROVE more[i].at <= more[j].at
    <3>1. CASE j \in 1 .. Len(all)
      BY <1>1, <1>2, <2>2, <3>1 DEF InTime
    <3>2. CASE j = Len(all) + 1
      BY <1>2, <2>1, <3>2
    <3> QED BY <1>1, <1>2, <3>1, <3>2
  <2> HIDE DEF more
  <2> QED BY <1>2, <2>1, <2>2 DEF InTime
<1>4. CASE Len(w) = MaxSamples
  <2>1. v = Append(Tail(w), s) /\ w # <<>>
    BY <1>4, ScoreAssumptions DEF Scoring!Appended
  <2>2. Tail(w) \in Seq(Scoring!Sample) /\ Len(Tail(w)) = Len(w) - 1 /\ \A i \in 1 .. Len(w) - 1 : Tail(w)[i] = w[i + 1]
    BY <1>1, <2>1
  <2>3. PICK t \in Seq(Scoring!Sample) : t = Tail(w)
    BY <2>2
  <2>4. v \in Seq(Scoring!Sample) /\ Len(v) = Len(w) /\ v[Len(w)] = s /\ \A i \in 1 .. Len(w) - 1 : v[i] = w[i + 1]
    BY <1>1, <2>1, <2>2, <2>3
  <2> HIDE DEF v, more
  <2>5. ASSUME NEW i \in 1 .. Len(v) PROVE v[i] = more[Len(more) - Len(v) + i]
    <3>1. CASE i = Len(w)
      BY <1>1, <1>2, <2>4, <3>1
    <3>2. CASE i \in 1 .. Len(w) - 1
      <4>1. i + 1 \in 1 .. Len(w) /\ v[i] = w[i + 1]
        BY <1>1, <2>4, <3>2
      <4>2. w[i + 1] = all[Len(all) - Len(w) + (i + 1)]
        BY <4>1 DEF WindowIsRight
      <4>3. Len(all) - Len(w) + (i + 1) \in 1 .. Len(all) /\ Len(all) - Len(w) + (i + 1) = Len(more) - Len(v) + i
        BY <1>1, <1>2, <2>4, <4>1
      <4> QED BY <1>2, <4>1, <4>2, <4>3
    <3> QED BY <1>1, <2>4, <3>1, <3>2
  <2>6. Len(v) <= MaxSamples /\ Len(v) <= Len(more)
    BY <1>1, <1>2, <1>4, <2>4
  <2>7. \A i \in 1 .. Len(more) - Len(v) : i <= Len(more) - MaxSamples
    BY <1>4, <2>4
  <2> QED BY <1>3, <2>4, <2>5, <2>6, <2>7 DEF WindowIsRight, v, more
<1>5. CASE Len(w) # MaxSamples
  <2>1. v = Append(w, s)
    BY <1>5 DEF Scoring!Appended
  <2>2. v \in Seq(Scoring!Sample) /\ Len(v) = Len(w) + 1 /\ v[Len(w) + 1] = s /\ \A i \in 1 .. Len(w) : v[i] = w[i]
    BY <1>1, <2>1
  <2> HIDE DEF v, more
  <2>3. ASSUME NEW i \in 1 .. Len(v) PROVE v[i] = more[Len(more) - Len(v) + i]
    <3>1. CASE i = Len(w) + 1
      BY <1>1, <1>2, <2>2, <3>1
    <3>2. CASE i \in 1 .. Len(w)
      <4>1. v[i] = all[Len(all) - Len(w) + i]
        BY <2>2, <3>2 DEF WindowIsRight
      <4>2. Len(all) - Len(w) + i \in 1 .. Len(all) /\ Len(all) - Len(w) + i = Len(more) - Len(v) + i
        BY <1>1, <1>2, <2>2, <3>2
      <4> QED BY <1>2, <4>1, <4>2
    <3> QED BY <1>1, <2>2, <3>1, <3>2
  <2>4. Len(v) <= MaxSamples /\ Len(v) <= Len(more)
    BY <1>1, <1>2, <1>5, <2>2, ScoreAssumptions
  <2>5. ASSUME NEW i \in 1 .. Len(more) - Len(v)
        PROVE  i <= Len(more) - MaxSamples \/ more[i].at < hour - MaxAgeHours
    <3>1. i \in 1 .. Len(all) - Len(w) /\ i \in 1 .. Len(all) /\ more[i] = all[i]
      BY <1>1, <1>2, <2>2
    <3>2. i <= Len(all) - MaxSamples \/ all[i].at < hour - MaxAgeHours
      BY <3>1 DEF WindowIsRight
    <3> QED BY <1>1, <1>2, <3>1, <3>2, ScoreAssumptions
  <2> QED BY <1>3, <2>2, <2>3, <2>4, <2>5 DEF WindowIsRight, v, more
<1> QED BY <1>4, <1>5

LEMMA CleanedIsRight ==
  ASSUME hour \in Nat, NEW all, InTime(all), NEW w, WindowIsRight(w, all)
  PROVE  WindowIsRight(Scoring!Cleaned(w), all) /\ Young(Scoring!Cleaned(w))
<1> DEFINE stale == {i \in DOMAIN w : \A j \in 1 .. i : w[j].at < hour - MaxAgeHours}
           k     == Cardinality(stale)
           v     == Scoring!Cleaned(w)
<1>1. /\ w \in Seq(Scoring!Sample) /\ Len(w) \in Nat /\ DOMAIN w = 1 .. Len(w)
      /\ all \in Seq(Scoring!Sample) /\ Len(all) \in Nat /\ Len(w) <= MaxSamples /\ Len(w) <= Len(all)
  BY DEF WindowIsRight, InTime
<1>2. stale \in SUBSET (1 .. Len(w)) /\ \A i \in stale : \A j \in 1 .. i : j \in stale
  BY <1>1
<1>3. k \in 0 .. Len(w) /\ stale = 1 .. k
  <2> HIDE DEF stale
  <2> QED BY <1>1, <1>2, Prefix
<1>4. v = SubSeq(w, k + 1, Len(w))
  BY ScoreCardinality DEF Scoring!Cleaned
<1>5. \A i \in 1 .. k : w[i].at < hour - MaxAgeHours
  <2> SUFFICES ASSUME NEW i \in stale PROVE w[i].at < hour - MaxAgeHours
    BY <1>3
  <2>1. i \in 1 .. i
    BY <1>2
  <2> QED BY <2>1
<1>6. ASSUME NEW i \in 1 .. Len(w), i > k PROVE w[i].at >= hour - MaxAgeHours
  <2>1. i \notin stale
    <3> HIDE DEF stale
    <3> QED BY <1>3, <1>6
  <2>2. PICK j \in 1 .. i : ~ (w[j].at < hour - MaxAgeHours)
    BY <1>1, <2>1
  <2>3. j \in 1 .. Len(w) /\ w[i] = all[Len(all) - Len(w) + i] /\ w[j] = all[Len(all) - Len(w) + j]
    BY <1>1 DEF WindowIsRight
  <2>4. Len(all) - Len(w) + i \in 1 .. Len(all) /\ Len(all) - Len(w) + j \in 1 .. Len(all)
        /\ Len(all) - Len(w) + j <= Len(all) - Len(w) + i
    BY <1>1, <2>3
  <2>5. w[j].at <= w[i].at
    BY <2>3, <2>4 DEF InTime
  <2>6. w[i].at \in Int /\ w[j].at \in Int
    <3>1. w[i] \in Scoring!Sample /\ w[j] \in Scoring!Sample
      BY <1>1, <2>3
    <3> QED BY <3>1, SampleTimes
  <2> QED BY <2>2, <2>5, <2>6, ScoreAssumptions
<1> HIDE DEF stale, k
<1>7. v \in Seq(Scoring!Sample) /\ Len(v) = Len(w) - k /\ \A i \in 1 .. Len(w) - k : v[i] = w[k + i]
  <2>1. \A i \in k + 1 .. Len(w) : w[i] \in Scoring!Sample
    BY <1>1, <1>3
  <2>2. k + 1 \in Int /\ Len(w) \in Int
    BY <1>1, <1>3
  <2>3. /\ v \in Seq(Scoring!Sample)
        /\ Len(v) = IF k + 1 <= Len(w) THEN Len(w) - (k + 1) + 1 ELSE 0
        /\ \A i \in 1 .. Len(w) - (k + 1) + 1 : v[i] = w[(k + 1) + i - 1]
    BY <1>4, <2>1, <2>2, SubSeqProperties
  <2>4. Len(w) - (k + 1) + 1 = Len(w) - k /\ \A i \in Int : (k + 1) + i - 1 = k + i
    BY <1>1, <1>3
  <2> HIDE DEF v
  <2>5. Len(v) = Len(w) - k
    <3>1. k \in Nat /\ Len(w) \in Nat /\ k <= Len(w)
      BY <1>1, <1>3
    <3>2. CASE k = Len(w)
      BY ONLY <2>3, <3>1, <3>2
    <3>3. CASE k < Len(w)
      BY ONLY <2>3, <3>1, <3>3
    <3> QED BY <3>1, <3>2, <3>3
  <2>6. ASSUME NEW i \in 1 .. Len(w) - k PROVE v[i] = w[k + i]
    <3>1. i \in Int /\ i \in 1 .. Len(w) - (k + 1) + 1
      BY ONLY <2>4, i \in 1 .. Len(w) - k
    <3> QED BY ONLY <2>3, <2>4, <3>1
  <2> QED BY ONLY <2>3, <2>5, <2>6
<1> HIDE DEF v
<1>8. ASSUME NEW i \in 1 .. Len(v) PROVE v[i] = all[Len(all) - Len(v) + i] /\ v[i].at >= hour - MaxAgeHours
  <2>1. k + i \in 1 .. Len(w) /\ k + i > k /\ v[i] = w[k + i]
    BY <1>1, <1>3, <1>7
  <2>2. w[k + i] = all[Len(all) - Len(w) + (k + i)]
    BY <2>1 DEF WindowIsRight
  <2>3. Len(all) - Len(w) + (k + i) = Len(all) - Len(v) + i
    BY <1>1, <1>3, <1>7
  <2> QED BY <1>6, <2>1, <2>2, <2>3
<1>9. ASSUME NEW i \in 1 .. Len(all) - Len(v)
      PROVE  i <= Len(all) - MaxSamples \/ all[i].at < hour - MaxAgeHours
  <2>1. CASE i <= Len(all) - Len(w)
    BY <1>1, <2>1 DEF WindowIsRight
  <2>2. CASE ~ (i <= Len(all) - Len(w))
    <3>1. i - (Len(all) - Len(w)) \in 1 .. k /\ i - (Len(all) - Len(w)) \in 1 .. Len(w)
      BY <1>1, <1>3, <1>7, <2>2
    <3>2. w[i - (Len(all) - Len(w))] = all[Len(all) - Len(w) + (i - (Len(all) - Len(w)))]
      BY <3>1 DEF WindowIsRight
    <3>3. Len(all) - Len(w) + (i - (Len(all) - Len(w))) = i
      BY <1>1
    <3> QED BY <1>5, <3>1, <3>2, <3>3
  <2> QED BY <2>1, <2>2
<1>10. Len(v) <= MaxSamples /\ Len(v) <= Len(all)
  BY <1>1, <1>3, <1>7, ScoreAssumptions
<1> QED BY <1>7, <1>8, <1>9, <1>10 DEF WindowIsRight, Young, v

(* What the score says of all results, and what it may say at all.          *)
Counted(all) ==
  {i \in 1 .. Len(all) : i > Len(all) - MaxSamples /\ all[Len(all)].at - all[i].at <= MaxAgeHours}

CountedGood(all)  == {i \in Counted(all) : all[i].ok}
CountedTimed(all) == {i \in Counted(all) : all[i].latency # Scoring!NoLatency}

Fits(rating, all) ==
  /\ rating.size = Cardinality(Counted(all)) /\ rating.good = Cardinality(CountedGood(all))
  /\ Len(rating.latencies) = Cardinality(CountedTimed(all))
  /\ \A i \in CountedTimed(all) : rating.latencies[Rank(CountedTimed(all), i)] = all[i].latency
  /\ rating.successAge = Scoring!Never <=> CountedGood(all) = {}
  /\ \A i \in CountedGood(all) :
       (\A j \in CountedGood(all) : j <= i) => rating.successAge = all[Len(all)].at - all[i].at

Sensible(rating) ==
  /\ rating.size \in 0 .. MaxSamples /\ rating.good <= rating.size
  /\ rating.successAge \in Scoring!Never .. MaxHours

LEMMA TableLength ==
  ASSUME NEW k \in Nat, NEW f, DOMAIN f = 1 .. k, f = [n \in 1 .. k |-> f[n]]
  PROVE  Len(f) = k
<1>1. PICK values : values = {f[n] : n \in 1 .. k}
  OBVIOUS
<1>2. f \in [1 .. k -> values]
  BY <1>1
<1>3. f \in Seq(values)
  BY <1>2
<1> QED BY <1>2, <1>3

(* What is counted is what the window has.                                  *)
LEMMA WindowCounts ==
  ASSUME hour \in Nat, NEW all, InTime(all), all # <<>>, all[Len(all)].at = hour,
         NEW w, WindowIsRight(w, all), Young(w)
  PROVE  /\ Len(w) \in Nat /\ Len(all) - Len(w) \in Nat /\ DOMAIN w = 1 .. Len(w)
         /\ Counted(all) \in SUBSET Nat
         /\ \A i \in 1 .. Len(w) : /\ i + (Len(all) - Len(w)) \in Counted(all)
                                   /\ all[i + (Len(all) - Len(w))] = w[i]
         /\ \A i \in Counted(all) : i - (Len(all) - Len(w)) \in 1 .. Len(w)
<1>1. /\ w \in Seq(Scoring!Sample) /\ Len(w) \in Nat /\ DOMAIN w = 1 .. Len(w)
      /\ all \in Seq(Scoring!Sample) /\ Len(all) \in Nat /\ Len(w) <= MaxSamples /\ Len(w) <= Len(all)
  BY DEF WindowIsRight, InTime
<1>2. PICK off \in Nat : off = Len(all) - Len(w)
  <2>1. Len(all) - Len(w) \in Nat
    BY ONLY <1>1
  <2> QED BY ONLY <2>1
<1>3. ASSUME NEW i \in 1 .. Len(w) PROVE i + off \in Counted(all) /\ all[i + off] = w[i]
  <2>1. /\ i + off \in 1 .. Len(all) /\ i + off = Len(all) - Len(w) + i /\ i + off > Len(all) - MaxSamples
    BY <1>1, <1>2, ScoreAssumptions
  <2>2. all[i + off] = w[i]
    BY <2>1 DEF WindowIsRight
  <2>3. w[i] \in Scoring!Sample /\ w[i].at >= hour - MaxAgeHours
    BY <1>1 DEF Young
  <2>4. hour - w[i].at <= MaxAgeHours
    BY <2>3, SampleTimes, ScoreAssumptions
  <2> QED BY <2>1, <2>2, <2>4 DEF Counted
<1>4. ASSUME NEW i \in Counted(all) PROVE i - off \in 1 .. Len(w)
  <2>1. i \in 1 .. Len(all) /\ i > Len(all) - MaxSamples /\ hour - all[i].at <= MaxAgeHours
    BY DEF Counted
  <2>2. all[i].at \in Nat
    BY <1>1, <2>1, SampleTimes
  <2>3. ~ (i <= off)
    <3>1. SUFFICES ASSUME i <= off PROVE FALSE
      OBVIOUS
    <3>2. i \in 1 .. Len(all) - Len(w)
      BY <1>1, <1>2, <2>1, <3>1
    <3>3. i <= Len(all) - MaxSamples \/ all[i].at < hour - MaxAgeHours
      BY <3>2 DEF WindowIsRight
    <3> QED BY <1>1, <2>1, <2>2, <3>3, ScoreAssumptions
  <2> QED BY <1>1, <1>2, <2>1, <2>3
<1>5. Counted(all) \in SUBSET Nat
  BY <1>1 DEF Counted
<1> QED BY <1>1, <1>2, <1>3, <1>4, <1>5

(* Each part of the window has its counterpart among what is counted.       *)
LEMMA PartsMatch ==
  ASSUME NEW S \in SUBSET Nat, IsFiniteSet(S), NEW T \in SUBSET Nat, NEW off \in Nat,
         \A i \in S : i + off \in T, \A t \in T : t - off \in S
  PROVE  /\ IsFiniteSet(T) /\ Cardinality(T) = Cardinality(S)
         /\ \A t \in T : (t - off) + off = t
         /\ \A i \in S : Rank(T, i + off) = Rank(S, i)
<1>1. IsFiniteSet(T) /\ Cardinality(T) = Cardinality(S)
  BY Shifted
<1>2. \A t \in T : (t - off) + off = t
  OBVIOUS
<1>3. ASSUME NEW i \in S PROVE Rank(T, i + off) = Rank(S, i)
  <2> DEFINE lower == {j \in S : j <= i}
             above == {t \in T : t <= i + off}
  <2>1. lower \in SUBSET Nat /\ IsFiniteSet(lower) /\ above \in SUBSET Nat
    BY FS_Subset
  <2>2. ASSUME NEW j \in lower PROVE j + off \in above
    <3>1. j \in Nat /\ i \in Nat /\ j <= i /\ j + off \in T
      OBVIOUS
    <3> QED BY <3>1
  <2>3. ASSUME NEW t \in above PROVE t - off \in lower
    <3>1. t - off \in S /\ t \in Nat /\ i \in Nat /\ t <= i + off
      OBVIOUS
    <3> QED BY <3>1
  <2> HIDE DEF lower, above
  <2>4. Cardinality(above) = Cardinality(lower)
    BY <2>1, <2>2, <2>3, Shifted
  <2> QED BY <2>4 DEF lower, above, Rank
<1> QED BY <1>1, <1>2, <1>3

LEMMA LastOf ==
  ASSUME NEW S \in SUBSET Nat, NEW i \in S, \A j \in S : j <= i
  PROVE  (CHOOSE k \in S : \A j \in S : j <= k) = i
<1>1. ASSUME NEW k \in S, \A j \in S : j <= k PROVE k = i
  <2>1. k \in Nat /\ i \in Nat /\ k <= i /\ i <= k
    BY <1>1
  <2> QED BY ONLY <2>1
<1> QED BY <1>1

LEMMA ScoredIsRight ==
  ASSUME hour \in 0 .. MaxHours, NEW all, InTime(all), all # <<>>, all[Len(all)].at = hour,
         NEW window, WindowIsRight(window, all)
  PROVE  Fits(Scoring!Scored(window), all) /\ Sensible(Scoring!Scored(window))
<1>1. hour \in Nat /\ hour <= MaxHours
  BY ScoreAssumptions
<1>2. PICK w : w = Scoring!Cleaned(window)
  OBVIOUS
<1>3. WindowIsRight(w, all) /\ Young(w)
  BY <1>1, <1>2, CleanedIsRight
<1>4. PICK rating : rating = Scoring!Scored(window)
  OBVIOUS
<1>5. /\ rating.size = Len(w) /\ rating.good = Cardinality(Scoring!Good(w))
      /\ rating.latencies = Scoring!Measured(w) /\ rating.successAge = Scoring!SuccessAge(w)
  BY <1>2, <1>4, ScoreCardinality DEF Scoring!Scored
<1>6. PICK off : off = Len(all) - Len(w)
  OBVIOUS
<1>7. PICK C : C = Counted(all)
  OBVIOUS
<1>8. /\ Len(w) \in Nat /\ off \in Nat /\ DOMAIN w = 1 .. Len(w) /\ C \in SUBSET Nat
      /\ \A i \in 1 .. Len(w) : i + off \in C /\ all[i + off] = w[i]
      /\ \A i \in C : i - off \in 1 .. Len(w)
  BY ONLY <1>1, <1>3, <1>6, <1>7, WindowCounts, InTime(all), all # <<>>, all[Len(all)].at = hour
<1>9. Len(w) <= MaxSamples /\ w \in Seq(Scoring!Sample)
  BY <1>3 DEF WindowIsRight
<1>10. PICK len \in Nat : len = Len(w)
  BY <1>8
<1>11. /\ len \in Nat /\ off \in Nat /\ C \in SUBSET Nat
       /\ \A i \in 1 .. len : i + off \in C
       /\ \A i \in C : i - off \in 1 .. len
  BY <1>8, <1>10
<1>12. IsFiniteSet(1 .. len) /\ Cardinality(1 .. len) = len
  BY ONLY <1>11, FS_Interval
<1>13. ASSUME NEW i \in 1 .. Len(w) PROVE w[i] \in Scoring!Sample /\ w[i].at \in Nat /\ w[i].at <= hour
  <2>1. w[i] \in Scoring!Sample
    BY <1>9
  <2>2. i + off \in 1 .. Len(all) /\ all[i + off] = w[i]
    BY <1>7, <1>8 DEF Counted
  <2> QED BY <2>1, <2>2, SampleTimes DEF InTime
<1>14. rating.size = Cardinality(C) /\ rating.size \in 0 .. MaxSamples
  <2>1. Cardinality(C) = Cardinality(1 .. Len(w))
    <3>1. PICK S : S = 1 .. len
      OBVIOUS
    <3>2. S \in SUBSET Nat /\ IsFiniteSet(S) /\ (\A i \in S : i + off \in C) /\ (\A i \in C : i - off \in S)
      BY ONLY <1>11, <1>12, <3>1
    <3>3. Cardinality(C) = Cardinality(S)
      BY ONLY <1>11, <3>2, PartsMatch
    <3> QED BY <1>10, <3>1, <3>3
  <2> QED BY <1>5, <1>9, <1>10, <1>12, <2>1, ScoreAssumptions
<1>15. PICK G : G = Scoring!Good(w)
  OBVIOUS
<1>16. PICK D : D = CountedGood(all)
  OBVIOUS
<1>17. /\ IsFiniteSet(G) /\ Cardinality(D) = Cardinality(G) /\ G \in SUBSET (1 .. Len(w)) /\ D \in SUBSET C
       /\ \A i \in G : i + off \in D
       /\ \A i \in D : i - off \in G /\ (i - off) + off = i
  <2>1. G \in SUBSET (1 .. Len(w)) /\ D \in SUBSET C /\ \A i \in 1 .. Len(w) : i \in G <=> i + off \in D
    BY <1>7, <1>8, <1>15, <1>16 DEF Scoring!Good, CountedGood
  <2>2. G \in SUBSET (1 .. len) /\ D \in SUBSET C /\ \A i \in 1 .. len : i \in G <=> i + off \in D
    BY ONLY <1>10, <2>1
  <2>3. /\ G \in SUBSET Nat /\ IsFiniteSet(G) /\ D \in SUBSET Nat
        /\ \A i \in G : i + off \in D
        /\ \A i \in D : i - off \in G
    <3>1. \A i \in G : i + off \in D
      BY ONLY <2>2
    <3>2. ASSUME NEW i \in D PROVE i - off \in G
      <4>1. i \in C /\ i - off \in 1 .. len /\ (i - off) + off = i
        BY ONLY <1>11, <2>2, <3>2
      <4> QED BY ONLY <2>2, <3>2, <4>1
    <3>3. PICK whole : whole = 1 .. len
      OBVIOUS
    <3>4. IsFiniteSet(G)
      BY ONLY <1>12, <2>2, <3>3, FS_Subset
    <3> QED BY ONLY <1>11, <2>2, <3>1, <3>2, <3>4
  <2>4. /\ Cardinality(D) = Cardinality(G) /\ \A i \in D : (i - off) + off = i
    BY ONLY <1>11, <2>3, PartsMatch
  <2> QED BY ONLY <1>10, <2>1, <2>3, <2>4
<1>18. rating.good = Cardinality(D) /\ rating.good <= rating.size
  <2>1. PICK whole : whole = 1 .. Len(w)
    OBVIOUS
  <2>2. IsFiniteSet(whole) /\ Cardinality(whole) = Len(w)
    BY <1>10, <1>12, <2>1
  <2>3. Cardinality(G) <= Cardinality(whole)
    BY <1>17, <2>1, <2>2, FS_Subset
  <2> QED BY <1>5, <1>15, <1>17, <2>2, <2>3
<1>19. /\ rating.successAge \in Scoring!Never .. MaxHours
       /\ rating.successAge = Scoring!Never <=> D = {}
       /\ \A i \in D : (\A j \in D : j <= i) => rating.successAge = all[Len(all)].at - all[i].at
  <2>1. CASE G = {}
    <3>1. rating.successAge = -1 /\ D = {}
      BY <1>5, <1>15, <1>17, <2>1 DEF Scoring!SuccessAge, Scoring!Never
    <3> QED BY <3>1, ScoreAssumptions DEF Scoring!Never
  <2>2. CASE G # {}
    <3>1. PICK m \in G : \A j \in G : j <= m
      BY <1>8, <1>17, <2>2, Ranks
    <3>2. m = CHOOSE k \in G : \A j \in G : j <= k
      BY <1>8, <1>17, <3>1, LastOf
    <3>3. rating.successAge = hour - w[m].at
      BY <1>5, <1>15, <2>2, <3>2 DEF Scoring!SuccessAge
    <3>4. m \in 1 .. Len(w) /\ w[m].at \in Nat /\ w[m].at <= hour
      BY <1>13, <1>17
    <3>5. rating.successAge \in Nat /\ rating.successAge <= MaxHours /\ rating.successAge # -1
      BY <1>1, <3>3, <3>4, ScoreAssumptions
    <3>6. m + off \in D
      BY <1>17
    <3>7. ASSUME NEW i \in D, \A j \in D : j <= i PROVE rating.successAge = all[Len(all)].at - all[i].at
      <4>1. i - off \in G /\ (i - off) + off = i /\ i \in Nat /\ m + off <= i /\ i - off <= m /\ m \in Nat
        BY <1>8, <1>17, <3>1, <3>4, <3>6, <3>7
      <4>2. i = m + off
        BY ONLY <1>8, <4>1
      <4>3. all[i] = w[m]
        BY <1>8, <3>4, <4>2
      <4> QED BY <3>3, <4>3
    <3> QED BY <1>17, <3>5, <3>6, <3>7, ScoreAssumptions DEF Scoring!Never
  <2> QED BY <2>1, <2>2
<1>20. PICK M : M = {i \in 1 .. Len(w) : w[i].latency # Scoring!NoLatency}
  OBVIOUS
<1>21. PICK T : T = CountedTimed(all)
  OBVIOUS
<1>22. /\ IsFiniteSet(M) /\ Cardinality(T) = Cardinality(M) /\ M \in SUBSET (1 .. Len(w)) /\ T \in SUBSET C
       /\ \A i \in T : i - off \in M /\ (i - off) + off = i
       /\ \A i \in M : Rank(T, i + off) = Rank(M, i)
  <2>1. M \in SUBSET (1 .. Len(w)) /\ T \in SUBSET C /\ \A i \in 1 .. Len(w) : i \in M <=> i + off \in T
    BY <1>7, <1>8, <1>20, <1>21 DEF CountedTimed
  <2>2. M \in SUBSET (1 .. len) /\ T \in SUBSET C /\ \A i \in 1 .. len : i \in M <=> i + off \in T
    BY ONLY <1>10, <2>1
  <2>3. /\ M \in SUBSET Nat /\ IsFiniteSet(M) /\ T \in SUBSET Nat
        /\ \A i \in M : i + off \in T
        /\ \A i \in T : i - off \in M
    <3>1. \A i \in M : i + off \in T
      BY ONLY <2>2
    <3>2. ASSUME NEW i \in T PROVE i - off \in M
      <4>1. i \in C /\ i - off \in 1 .. len /\ (i - off) + off = i
        BY ONLY <1>11, <2>2, <3>2
      <4> QED BY ONLY <2>2, <3>2, <4>1
    <3>3. PICK whole : whole = 1 .. len
      OBVIOUS
    <3>4. IsFiniteSet(M)
      BY ONLY <1>12, <2>2, <3>3, FS_Subset
    <3> QED BY ONLY <1>11, <2>2, <3>1, <3>2, <3>4
  <2>4. /\ Cardinality(T) = Cardinality(M) /\ \A i \in T : (i - off) + off = i
        /\ \A i \in M : Rank(T, i + off) = Rank(M, i)
    BY ONLY <1>11, <2>3, PartsMatch
  <2> QED BY ONLY <1>10, <2>1, <2>3, <2>4
<1>23. M \in SUBSET Nat /\ Cardinality(M) \in Nat
  BY <1>8, <1>22, FS_CardinalityType
<1>24. rating.latencies = [n \in 1 .. Cardinality(M) |-> w[CHOOSE i \in M : Rank(M, i) = n].latency]
  <2>1. PICK timed : timed = {i \in DOMAIN w : w[i].latency # Scoring!NoLatency}
    OBVIOUS
  <2>2. timed = M
    BY <1>8, <1>20, <2>1
  <2>3. Scoring!Measured(w) =
          [n \in 1 .. Scoring!Cardinality(timed) |->
             w[CHOOSE i \in timed : Scoring!Cardinality({j \in timed : j <= i}) = n].latency]
    BY ONLY <2>1 DEF Scoring!Measured
  <2>4. Scoring!Measured(w) =
          [n \in 1 .. Cardinality(timed) |-> w[CHOOSE i \in timed : Rank(timed, i) = n].latency]
    BY ONLY <2>3, ScoreCardinality DEF Rank
  <2> QED BY ONLY <1>5, <2>2, <2>4
<1>25. Len(rating.latencies) = Cardinality(T)
  <2>1. PICK l : l = rating.latencies
    OBVIOUS
  <2>2. DOMAIN l = 1 .. Cardinality(M) /\ l = [n \in 1 .. Cardinality(M) |-> l[n]]
    BY <1>24, <2>1
  <2> QED BY <1>22, <1>23, <2>1, <2>2, TableLength
<1>26. ASSUME NEW i \in T PROVE rating.latencies[Rank(T, i)] = all[i].latency
  <2>1. i - off \in M /\ (i - off) + off = i
    BY <1>22
  <2>2. PICK m \in M : m = i - off
    BY <2>1
  <2>3. Rank(T, i) = Rank(M, m) /\ all[i] = w[m]
    BY <1>8, <1>22, <2>1, <2>2
  <2>4. Rank(M, m) \in 1 .. Cardinality(M) /\ \A j \in M : Rank(M, j) = Rank(M, m) => j = m
    BY <1>22, <1>23, Ranks
  <2>5. (CHOOSE j \in M : Rank(M, j) = Rank(M, m)) = m
    BY <2>4
  <2> QED BY <1>24, <2>3, <2>4, <2>5
<1>27. Fits(rating, all)
  BY <1>7, <1>14, <1>16, <1>18, <1>19, <1>21, <1>25, <1>26 DEF Fits
<1> QED BY <1>4, <1>14, <1>18, <1>19, <1>27 DEF Sensible

ScoreInv ==
  /\ hour \in 0 .. MaxHours
  /\ InTime(results) /\ WindowIsRight(samples, results)
  /\ Sensible(score)
  /\ Scoring!ScoreIsOfTheLastResults

LEMMA FitsIsTheScore ==
  ASSUME Fits(score, results)'
  PROVE  Scoring!ScoreIsOfTheLastResults'
BY ScoreCardinality DEF Fits, Rank, Counted, CountedGood, CountedTimed, Scoring!ScoreIsOfTheLastResults

LEMMA ScoreStarts == ASSUME Scoring!Init PROVE ScoreInv
<1>1. Sensible(score)
  BY ScoreAssumptions DEF Scoring!Init, Scoring!NoScore, Scoring!Never, Sensible
<1>2. results = <<>> /\ samples = <<>> /\ hour = 0
  BY DEF Scoring!Init
<1>3. <<>> \in Seq(Scoring!Sample) /\ Len(<<>>) = 0
  OBVIOUS
<1>4. InTime(results) /\ WindowIsRight(samples, results)
  BY <1>2, <1>3, ScoreAssumptions DEF InTime, WindowIsRight
<1> QED BY <1>1, <1>2, <1>4, ScoreAssumptions DEF ScoreInv, Scoring!ScoreIsOfTheLastResults

LEMMA ScoreSteps ==
  ASSUME ScoreInv, [Scoring!Next]_scoreVars
  PROVE  ScoreInv'
<1>1. hour \in 0 .. MaxHours /\ hour \in Nat /\ InTime(results) /\ WindowIsRight(samples, results)
  BY ScoreAssumptions DEF ScoreInv
<1>2. CASE Scoring!UpdateNodeHealth
  <2>1. PICK ok \in BOOLEAN, latency \in Latencies \cup {Scoring!NoLatency} :
          LET sample == [at |-> hour, ok |-> ok, latency |-> latency]
              window == Scoring!Cleaned(Scoring!Appended(samples, sample))
          IN  samples' = window /\ score' = Scoring!Scored(window) /\ results' = Append(results, sample)
    BY <1>2 DEF Scoring!UpdateNodeHealth
  <2>2. PICK sample : sample = [at |-> hour, ok |-> ok, latency |-> latency]
    OBVIOUS
  <2>3. sample \in Scoring!Sample /\ sample.at = hour
    BY <1>1, <2>2 DEF Scoring!Sample
  <2>4. PICK more : more = Append(results, sample)
    OBVIOUS
  <2>5. PICK longer : longer = Scoring!Appended(samples, sample)
    OBVIOUS
  <2>6. WindowIsRight(longer, more) /\ InTime(more)
    BY <1>1, <2>3, <2>4, <2>5, AppendedIsRight
  <2>7. PICK window : window = Scoring!Cleaned(longer)
    OBVIOUS
  <2>8. WindowIsRight(window, more)
    BY <1>1, <2>6, <2>7, CleanedIsRight
  <2>9. more # <<>> /\ more[Len(more)].at = hour
    BY <1>1, <2>3, <2>4 DEF InTime
  <2>10. Fits(Scoring!Scored(window), more) /\ Sensible(Scoring!Scored(window))
    BY <1>1, <2>6, <2>8, <2>9, ScoredIsRight
  <2>11. samples' = window /\ score' = Scoring!Scored(window) /\ results' = more /\ hour' = hour
    BY <1>2, <2>1, <2>2, <2>4, <2>5, <2>7 DEF Scoring!UpdateNodeHealth
  <2>12. Fits(score, results)' /\ Sensible(score)'
    BY <2>10, <2>11 DEF Fits, Sensible, Rank, Counted, CountedGood, CountedTimed
  <2>13. InTime(results)' /\ WindowIsRight(samples, results)'
    BY <2>6, <2>8, <2>11 DEF InTime, WindowIsRight
  <2> QED BY <1>1, <2>11, <2>12, <2>13, FitsIsTheScore DEF ScoreInv
<1>3. CASE Scoring!HourPasses
  <2>1. hour' = hour + 1 /\ hour' \in 0 .. MaxHours /\ UNCHANGED <<samples, score, results>>
    BY <1>1, <1>3, ScoreAssumptions DEF Scoring!HourPasses
  <2>2. ASSUME NEW i \in 1 .. Len(results) PROVE results[i].at \in Nat
    <3>1. results[i] \in Scoring!Sample
      BY <1>1 DEF InTime
    <3> QED BY <3>1, SampleTimes
  <2>3. InTime(results)'
    <3>1. ASSUME NEW i \in 1 .. Len(results) PROVE results[i].at <= hour + 1
      BY <1>1, <2>2 DEF InTime
    <3> QED BY <1>1, <2>1, <3>1 DEF InTime
  <2>4. WindowIsRight(samples, results)'
    <3>1. ASSUME NEW i \in 1 .. Len(results) - Len(samples), results[i].at < hour - MaxAgeHours
          PROVE  results[i].at < (hour + 1) - MaxAgeHours
      <4>1. i \in 1 .. Len(results)
        BY <1>1 DEF InTime, WindowIsRight
      <4> QED BY <1>1, <2>2, <3>1, <4>1, ScoreAssumptions
    <3> QED BY <1>1, <2>1, <3>1 DEF WindowIsRight
  <2>5. Sensible(score)' /\ Scoring!ScoreIsOfTheLastResults'
    BY <2>1 DEF ScoreInv, Sensible, Scoring!ScoreIsOfTheLastResults
  <2> QED BY <2>1, <2>3, <2>4, <2>5 DEF ScoreInv
<1>4. CASE UNCHANGED scoreVars
  BY <1>4 DEF scoreVars, ScoreInv, InTime, WindowIsRight, Sensible, Scoring!ScoreIsOfTheLastResults
<1>5. CASE Scoring!Terminating
  BY <1>4, <1>5 DEF Scoring!Terminating, Scoring!vars, scoreVars
<1> QED BY <1>2, <1>3, <1>4, <1>5 DEF Scoring!Next

LEMMA ScoreIsRight == ScoreInv => Scoring!TypeOK /\ Scoring!ScoreIsOfTheLastResults
<1> SUFFICES ASSUME ScoreInv PROVE Scoring!TypeOK /\ Scoring!ScoreIsOfTheLastResults
  OBVIOUS
<1>1. Len(samples) <= MaxSamples /\ \A i \in DOMAIN samples : samples[i] \in Scoring!Sample
  BY DEF ScoreInv, WindowIsRight
<1> QED BY <1>1 DEF ScoreInv, Sensible, Scoring!TypeOK

-----------------------------------------------------------------------------
(* The whole.                                                               *)

(* A step of one component is one that the others sleep through.            *)
LEMMA OneMoves ==
  ASSUME [Next]_<<focus, backendVars, looksVars, autoVars, scoreVars, testVars>>
  PROVE  /\ [Backend!Next]_backendVars /\ [Looks!Next]_looksVars /\ [Rounds!Next]_autoVars
         /\ [Scoring!Next]_scoreVars /\ [Tests!Next]_testVars
BY DEF Next, BackendNext, LooksNext, AutoNext, ScoreNext, TestNext

ProcessesInv == BackendInv /\ LooksInv /\ AutoInv /\ ScoreInv /\ TestInv

(* Each component keeps its invariant.                                      *)
LEMMA InvAlways == Spec => []ProcessesInv
<1>1. Init => ProcessesInv
  BY BackendStarts, LooksStart, AutoStarts, ScoreStarts, TestStarts DEF Init, ProcessesInv
<1>2. ProcessesInv /\ [Next]_<<focus, backendVars, looksVars, autoVars, scoreVars, testVars>> => ProcessesInv'
  BY OneMoves, BackendSteps, LookSteps, AutoSteps, ScoreSteps, TestSteps DEF ProcessesInv
<1> QED BY <1>1, <1>2, PTL DEF Spec

(* Theorem: two sing-box processes never run for one instance, whatever     *)
(* starts, stops, restarts and watches it, and the records of one that runs *)
(* agree (SingBoxBackend.start, stop, restart and the health thread).       *)
THEOREM OneProcessAlways == Spec => []OneProcessPerInstance
<1>1. ProcessesInv => OneProcessPerInstance
  BY BackendIsRight DEF ProcessesInv, OneProcessPerInstance
<1> QED BY <1>1, InvAlways, PTL

(* Theorem: unless two looks were given one port, what is said of a node    *)
(* was measured at that node, whichever sing-box could not start or has     *)
(* exited (the probing processes of tester/prober.py).                      *)
THEOREM AnswersAlwaysOfTheNode == Spec => []AnswerIsOfTheNode
<1>1. ProcessesInv => AnswerIsOfTheNode
  BY AnswersAreOfTheNode DEF ProcessesInv, AnswerIsOfTheNode
<1> QED BY <1>1, InvAlways, PTL

(* Theorem: a kind of task that is due is passed over in a row at most once *)
(* for each kind before it, however often their starts fail (the auto task  *)
(* loop).                                                                   *)
THEOREM EveryKindAlwaysGetsItsTurn == Spec => []EveryKindGetsItsTurn
<1>1. ProcessesInv => EveryKindGetsItsTurn
  BY EachGetsItsTurn DEF ProcessesInv, EveryKindGetsItsTurn
<1> QED BY <1>1, InvAlways, PTL

(* Theorem: a score counts the last max_samples results that had not aged   *)
(* when the last one came, all of them and no others, with their latencies  *)
(* in order and the age of the last success (SlidingWindow and NodeScorer). *)
THEOREM ScoresAlwaysOfTheLastResults == Spec => []ScoreIsOfTheLastResults
<1>1. ProcessesInv => ScoreIsOfTheLastResults
  BY ScoreIsRight DEF ProcessesInv, ScoreIsOfTheLastResults
<1> QED BY <1>1, InvAlways, PTL

(* Theorem: what is on record of a node is of one look, and a stopped run   *)
(* writes no more than the result it waits for, however runs, imports and   *)
(* deletions overlap (TesterService and update_test_result).                *)
THEOREM RowsAlwaysOfOneLook == Spec => []RowIsOfOneLook
<1>1. ProcessesInv => RowIsOfOneLook
  BY TestsAreRight DEF ProcessesInv, RowIsOfOneLook
<1> QED BY <1>1, InvAlways, PTL

(* Theorem: type correctness of the five components.                        *)
THEOREM ProcessesTypes == Spec => []TypeOK
<1>1. ProcessesInv => TypeOK
  BY BackendIsRight, LooksTypes, AutoTypes, ScoreIsRight, TestsAreRight DEF ProcessesInv, TypeOK
<1> QED BY <1>1, InvAlways, PTL

=============================================================================
