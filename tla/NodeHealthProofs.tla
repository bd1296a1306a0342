-------------------------- MODULE NodeHealthProofs --------------------------
(***************************************************************************)
(* Safety of NodeHealth for every configuration: its types, for any number *)
(* of probe loops, and, for a single loop, that a refresh excludes a node  *)
(* that keeps failing.  The second needs an invariant that relates the row *)
(* to the failures seen: as long as the row's circuit is closed it counts  *)
(* every failure of the streak, but for the one that the loop has in hand  *)
(* and those whose write was lost.                                         *)
(***************************************************************************)
EXTENDS NodeHealth, TLAPS

(* The result that loop t has recorded but not yet written to the row.     *)
InHand(t) == loop[t].pc \in {"sync", "persist"}
Unwritten(t) == IF InHand(t) /\ ~loop[t].ok THEN 1 ELSE 0

RowFollows(t) ==
  /\ InHand(t) /\ loop[t].ok => streak = 0
  /\ row.open \/ (row.fails < MaxFailures /\ streak <= row.fails + Unwritten(t) + lost)

OneLoop == \E t : Loops = {t}

IInv == TypeOK /\ \A t \in Loops : RowFollows(t)

LoopRecord == [pc : {"off", "wait", "probe", "sync", "persist"},
               pool : {"none", "front", "exit"}, ok : BOOLEAN, live : BOOLEAN]

-----------------------------------------------------------------------------
(* What the operators preserve.                                            *)

LEMMA ReadingIsGood ==
  ASSUME NEW b \in BreakerRecord
  PROVE  CheckOpenTimeout(b) \in BreakerRecord
BY BreakerConfigAssumption
   DEF CheckOpenTimeout, TransitionToHalfOpen, BreakerRecord, CircuitState, NoBackoff

LEMMA TimeIsGood ==
  ASSUME NEW b \in BreakerRecord
  PROVE  Elapse(b) \in BreakerRecord
BY BreakerConfigAssumption DEF Elapse, BreakerRecord, NoBackoff

LEMMA SuccessIsGood ==
  ASSUME NEW b \in BreakerRecord
  PROVE  AfterSuccess(b) \in BreakerRecord
<1> DEFINE counted == [b EXCEPT !.successes = Count(b.successes)]
           probed  == [counted EXCEPT !.probes = Count(b.probes)]
<1>1. Count(b.successes) \in 0 .. CounterCap /\ Count(b.probes) \in 0 .. CounterCap
  BY BreakerConfigAssumption DEF Count, BreakerRecord
<1>2. counted \in BreakerRecord /\ probed \in BreakerRecord
  BY <1>1 DEF BreakerRecord
<1>3. [counted EXCEPT !.failures = 0] \in BreakerRecord
  <2> HIDE DEF counted
  <2> QED BY <1>2, BreakerConfigAssumption DEF BreakerRecord
<1>4. TransitionToClosed(probed) \in BreakerRecord
  <2> HIDE DEF probed
  <2> QED BY <1>2, BreakerConfigAssumption
          DEF TransitionToClosed, NewBreaker, BreakerRecord, CircuitState, NoBackoff
<1>5. AfterSuccess(b) \in {counted, probed, [counted EXCEPT !.failures = 0], TransitionToClosed(probed)}
  BY DEF AfterSuccess, BreakerRecord
<1> QED BY <1>2, <1>3, <1>4, <1>5

LEMMA FailureIsGood ==
  ASSUME NEW b \in BreakerRecord
  PROVE  AfterFailure(b) \in BreakerRecord
<1> DEFINE failed  == [b EXCEPT !.failures = Count(b.failures)]
           counted == [b EXCEPT !.failures = Count(b.failures), !.successes = 0]
<1>1. Count(b.failures) \in 0 .. CounterCap
  BY BreakerConfigAssumption DEF Count, BreakerRecord
<1>2. failed \in BreakerRecord
  BY <1>1 DEF BreakerRecord
<1>3. counted = [failed EXCEPT !.successes = 0]
  OBVIOUS
<1>4. AfterFailure(b) \in {counted, TransitionToOpen(counted)}
  BY DEF AfterFailure
<1> HIDE DEF failed, counted
<1>5. counted \in BreakerRecord
  BY <1>2, <1>3, BreakerConfigAssumption DEF BreakerRecord
<1>6. TransitionToOpen(counted) \in BreakerRecord
  BY <1>5, BreakerConfigAssumption DEF TransitionToOpen, BreakerRecord, CircuitState, NoBackoff
<1> QED BY <1>4, <1>5, <1>6

LEMMA RecordedIsGood ==
  ASSUME NEW b \in BreakerRecord, NEW ok \in BOOLEAN
  PROVE  RecordedInBreaker(b, ok) \in BreakerRecord
BY ReadingIsGood, SuccessIsGood, FailureIsGood DEF RecordedInBreaker

(* A count saturates, and below its cap it is exact.                       *)
LEMMA CountToFacts ==
  ASSUME NEW cap \in Nat, NEW n \in 0 .. cap
  PROVE  /\ CountTo(cap, n) \in 0 .. cap
         /\ CountTo(cap, n) <= n + 1
         /\ n < cap => CountTo(cap, n) = n + 1
BY DEF CountTo

LEMMA EntryRecorded ==
  ASSUME NEW e \in Entry, NEW ok \in BOOLEAN
  PROVE  RecordedInEntry(e, ok) \in Entry
<1>1. e.fails \in 0 .. MaxFailures /\ CountTo(MaxFailures, e.fails) \in 0 .. MaxFailures
  BY CountToFacts, NodeHealthAssumption DEF Entry, FailureCount
<1> DEFINE n == CountTo(MaxFailures, e.fails)
<1>2. PICK x \in BOOLEAN : x = (e.open \/ n >= MaxFailures)
  BY Zenon
<1>3. RecordedInEntry(e, ok) = IF ok THEN [fails |-> 0, open |-> FALSE, routeable |-> e.routeable]
                               ELSE [fails |-> n, open |-> x, routeable |-> e.routeable]
  BY <1>2, Zenon DEF RecordedInEntry
<1> HIDE DEF n
<1>4. QED
  BY <1>1, <1>3, NodeHealthAssumption DEF Entry, FailureCount, n

(* What a written result leaves in the row.                                *)
LEMMA RowRecorded ==
  ASSUME NEW r \in Row, NEW ok \in BOOLEAN
  PROVE  LET w == RecordedInRow(r, ok)
         IN  /\ w \in Row
             /\ ok => w.fails = 0 /\ ~w.open
             /\ ~ok => \/ w.open
                       \/ ~r.open /\ w.fails < MaxFailures /\ w.fails = r.fails + 1
<1> DEFINE n == CountTo(MaxFailures, r.fails)
<1>1. /\ r.fails \in 0 .. MaxFailures /\ n \in 0 .. MaxFailures
      /\ r.fails < MaxFailures => n = r.fails + 1
      /\ n < MaxFailures => r.fails < MaxFailures
  BY NodeHealthAssumption DEF CountTo, Row, FailureCount
<1>2. PICK x \in BOOLEAN : x = (r.open \/ n >= MaxFailures)
  BY Zenon
<1>3. RecordedInRow(r, ok) = IF ok THEN [fails |-> 0, open |-> FALSE, ever |-> TRUE]
                             ELSE [fails |-> n, open |-> x, ever |-> r.ever]
  BY <1>2, Zenon DEF RecordedInRow
<1> HIDE DEF n
<1>4. CASE ok
  BY <1>3, <1>4, NodeHealthAssumption DEF Row, FailureCount
<1>5. CASE ~ok /\ x
  <2>1. RecordedInRow(r, ok) = [fails |-> n, open |-> TRUE, ever |-> r.ever]
    BY <1>3, <1>5
  <2>2. QED
    BY <1>1, <1>5, <2>1 DEF Row, FailureCount
<1>6. CASE ~ok /\ ~x
  <2>1. RecordedInRow(r, ok) = [fails |-> n, open |-> FALSE, ever |-> r.ever]
    BY <1>3, <1>6
  <2>2. ~r.open /\ ~(n >= MaxFailures)
    BY <1>2, <1>6
  <2>3. n < MaxFailures /\ n = r.fails + 1
    BY <1>1, <2>2, NodeHealthAssumption
  <2>4. QED
    BY <1>1, <1>6, <2>1, <2>2, <2>3 DEF Row, FailureCount
<1>7. QED
  BY <1>4, <1>5, <1>6

LEMMA LoopRecords ==
  /\ Off \in LoopRecord /\ Idle \in LoopRecord
  /\ Off.pc = "off" /\ Idle.pc = "wait"
  /\ \A l : NextPool(l) \in LoopRecord /\ NextPool(l).pc \in {"wait", "probe"}
BY DEF Off, Idle, NextPool, LoopRecord

-----------------------------------------------------------------------------
(* Types.                                                                  *)

LEMMA InitTypes == Init => TypeOK
<1> SUFFICES ASSUME Init PROVE TypeOK
  OBVIOUS
<1>1. breaker \in BreakerRecord
  BY BreakerConfigAssumption DEF Init, NewBreaker, BreakerRecord, CircuitState, NoBackoff
<1>2. loop \in [Loops -> LoopRecord]
  BY LoopRecords DEF Init
<1>3. row \in Row /\ entry \in [Pools -> Entry]
  <2>1. NoFailure \in Row
    BY NodeHealthAssumption DEF NoFailure, Row, FailureCount
  <2>2. [fails |-> 0, open |-> FALSE, routeable |-> available] \in Entry
    BY NodeHealthAssumption DEF Init, Entry, FailureCount
  <2>3. QED
    BY <2>1, <2>2 DEF Init
<1>4. streak \in 0 .. StreakCap /\ lost \in 0 .. MaxLost
  BY NodeHealthAssumption DEF Init, StreakCap
<1>5. QED
  BY <1>1, <1>2, <1>3, <1>4 DEF Init, TypeOK, LoopRecord

LEMMA LoopStepTypes ==
  ASSUME TypeOK, NEW t \in Loops, LoopStep(t)
  PROVE  TypeOK'
<1>1. /\ loop \in [Loops -> LoopRecord] /\ loop[t] \in LoopRecord
      /\ row \in Row /\ entry \in [Pools -> Entry] /\ breaker \in BreakerRecord
      /\ streak \in 0 .. StreakCap /\ lost \in 0 .. MaxLost
  BY DEF TypeOK, LoopRecord
<1>2. loop' \in [Loops -> LoopRecord]
  <2>1. CASE LoopHead(t)
    <3>1. [loop[t] EXCEPT !.pc = "probe", !.pool = FirstPool] \in LoopRecord
      BY <1>1 DEF LoopRecord, FirstPool
    <3>2. QED
      BY <1>1, <2>1, <3>1, LoopRecords DEF LoopHead
  <2>2. CASE Probe(t)
    <3>1. [loop[t] EXCEPT !.pc = "sync", !.ok = works, !.live = TRUE] \in LoopRecord
      <4>1. works \in BOOLEAN
        BY DEF TypeOK
      <4>2. QED
        BY <1>1, <4>1 DEF LoopRecord
    <3>2. QED
      BY <1>1, <2>2, <3>1 DEF Probe
  <2>3. CASE SkipExit(t)
    BY <1>1, <2>3, LoopRecords DEF SkipExit
  <2>4. CASE Sync(t)
    <3>1. [loop[t] EXCEPT !.pc = "persist", !.live = FALSE] \in LoopRecord
      BY <1>1 DEF LoopRecord
    <3>2. QED
      BY <1>1, <2>4, <3>1 DEF Sync
  <2>5. CASE Persist(t)
    BY <1>1, <2>5, LoopRecords DEF Persist
  <2>6. QED
    BY <2>1, <2>2, <2>3, <2>4, <2>5 DEF LoopStep
<1>3. breaker' \in BreakerRecord
  <2>1. CASE Probe(t)
    <3>1. works \in BOOLEAN
      BY DEF TypeOK
    <3>2. QED
      BY <1>1, <2>1, <3>1, RecordedIsGood DEF Probe
  <2>2. CASE Sync(t)
    BY <1>1, <2>2, ReadingIsGood DEF Sync
  <2>3. QED
    BY <1>1, <2>1, <2>2 DEF LoopStep, LoopHead, SkipExit, Persist
<1>4. entry' \in [Pools -> Entry]
  <2>1. CASE Probe(t)
    <3>1. \A e \in Entry : RecordedInEntry(e, works) \in Entry
      BY EntryRecorded DEF TypeOK
    <3>2. QED
      BY <1>1, <2>1, <3>1 DEF Probe
  <2>2. CASE Sync(t)
    <3>1. \A e \in Entry, x \in BOOLEAN : [e EXCEPT !.open = x] \in Entry
      BY DEF Entry
    <3>2. PICK x \in BOOLEAN : x = (CheckOpenTimeout(breaker).state = "open")
      BY Zenon
    <3>3. entry' = IF loop[t].live THEN [entry EXCEPT ![loop[t].pool].open = x] ELSE entry
      BY <2>2, <3>2, Zenon DEF Sync
    <3>4. QED
      BY <1>1, <3>1, <3>3
  <2>3. QED
    BY <1>1, <2>1, <2>2 DEF LoopStep, LoopHead, SkipExit, Persist
<1>5. row' \in Row /\ lost' \in 0 .. MaxLost
  <2>1. CASE Persist(t)
    <3>1. RecordedInRow(row, loop[t].ok) \in Row
      BY <1>1, RowRecorded DEF LoopRecord
    <3>2. QED
      BY <1>1, <2>1, <3>1, NodeHealthAssumption DEF Persist
  <2>2. QED
    BY <1>1, <2>1 DEF LoopStep, LoopHead, Probe, SkipExit, Sync
<1>6. streak' \in 0 .. StreakCap
  <2>1. StreakCap \in Nat
    BY NodeHealthAssumption DEF StreakCap
  <2>2. QED
    BY <1>1, <2>1, CountToFacts DEF LoopStep, LoopHead, Probe, SkipExit, Sync, Persist
<1>7. UNCHANGED <<environment, running, stopping, refreshing>>
  BY DEF LoopStep, LoopHead, Probe, SkipExit, Sync, Persist
<1>8. QED
  BY <1>2, <1>3, <1>4, <1>5, <1>6, <1>7
     DEF TypeOK, LoopRecord, environment

LEMMA RefreshTypes ==
  ASSUME TypeOK, RefreshStep
  PROVE  TypeOK'
<1>1. /\ loop \in [Loops -> LoopRecord] /\ row \in Row /\ entry \in [Pools -> Entry]
      /\ available \in BOOLEAN
  BY DEF TypeOK, LoopRecord
<1>2. entry' \in [Pools -> Entry]
  <2>1. CASE RefreshRebuild
    BY <1>1, <2>1, NodeHealthAssumption DEF RefreshRebuild, Rebuilt, Entry, FailureCount
  <2>2. CASE RefreshLoad
    <3>1. ASSUME NEW p \in Pools PROVE Loaded(entry[p], p, row) \in Entry
      <4>1. PICK x \in BOOLEAN : x = (entry[p].routeable \/ (p = "exit" /\ row.ever))
        BY Zenon
      <4>2. Loaded(entry[p], p, row) = [fails |-> row.fails, open |-> row.open, routeable |-> x]
        BY <4>1, Zenon DEF Loaded
      <4>3. QED
        BY <1>1, <4>2 DEF Row, Entry
    <3>2. QED
      BY <2>2, <3>1 DEF RefreshLoad
  <2>3. QED
    BY <2>1, <2>2 DEF RefreshStep
<1>3. loop' \in [Loops -> LoopRecord]
  <2>1. \A l \in LoopRecord : [l EXCEPT !.live = FALSE] \in LoopRecord
    BY DEF LoopRecord
  <2>2. QED
    BY <1>1, <2>1 DEF RefreshStep, RefreshRebuild, RefreshLoad
<1>4. /\ UNCHANGED <<breaker, row, environment, running, stopping, streak, lost>>
      /\ refreshing' \in BOOLEAN
  BY DEF RefreshStep, RefreshRebuild, RefreshLoad
<1>5. QED
  BY <1>2, <1>3, <1>4 DEF TypeOK, LoopRecord, environment

LEMMA NextTypes == TypeOK /\ [Next]_vars => TypeOK'
<1> SUFFICES ASSUME TypeOK, [Next]_vars PROVE TypeOK'
  OBVIOUS
<1>1. CASE Start
  <2>1. loop' \in [Loops -> LoopRecord]
    BY <1>1, LoopRecords DEF Start, TypeOK, LoopRecord
  <2>2. QED
    BY <1>1, <2>1 DEF Start, TypeOK, LoopRecord, environment
<1>2. CASE Stop
  BY <1>2 DEF Stop, TypeOK, environment
<1>3. CASE \E t \in Loops : LoopStep(t)
  BY <1>3, LoopStepTypes
<1>4. CASE RefreshStep
  BY <1>4, RefreshTypes
<1>5. CASE NodeChanges \/ FrontsChange \/ TesterChanges
  BY <1>5 DEF NodeChanges, FrontsChange, TesterChanges, TypeOK
<1>6. CASE Tick
  <2>1. breaker' \in BreakerRecord
    BY <1>6, TimeIsGood DEF Tick, TypeOK
  <2>2. QED
    BY <1>6, <2>1 DEF Tick, TypeOK, environment
<1>7. CASE UNCHANGED vars
  BY <1>7 DEF vars, TypeOK
<1>8. QED
  BY <1>1, <1>2, <1>3, <1>4, <1>5, <1>6, <1>7 DEF Next

(* Types, for every configuration and any number of loops.                 *)
THEOREM TypeCorrect == Spec => []TypeOK
BY InitTypes, NextTypes, PTL DEF Spec

-----------------------------------------------------------------------------
(* The row and the streak, with a single loop.                             *)

LEMMA InitFollows == Init => \A t \in Loops : RowFollows(t)
BY NodeHealthAssumption DEF Init, RowFollows, InHand, Unwritten, NoFailure, Off

LEMMA LoopStepFollows ==
  ASSUME OneLoop, IInv, NEW t \in Loops, LoopStep(t)
  PROVE  RowFollows(t)'
<1>1. /\ loop \in [Loops -> LoopRecord] /\ loop[t] \in LoopRecord
      /\ row \in Row /\ row.fails \in Nat /\ works \in BOOLEAN
      /\ streak \in 0 .. StreakCap /\ lost \in 0 .. MaxLost
      /\ StreakCap \in Nat /\ MaxFailures \in Nat \ {0} /\ MaxLost \in Nat
  BY NodeHealthAssumption
     DEF IInv, TypeOK, LoopRecord, Row, FailureCount, StreakCap
<1>2. RowFollows(t)
  BY DEF IInv
<1>3. CASE LoopHead(t) \/ SkipExit(t)
  <2>1. loop'[t].pc \notin {"sync", "persist"} /\ loop[t].pc \notin {"sync", "persist"}
    <3>1. CASE LoopHead(t)
      <4>1. [loop[t] EXCEPT !.pc = "probe", !.pool = FirstPool].pc = "probe"
        BY <1>1 DEF LoopRecord
      <4>2. QED
        BY <1>1, <3>1, <4>1, LoopRecords DEF LoopHead
    <3>2. CASE SkipExit(t)
      BY <1>1, <3>2, LoopRecords DEF SkipExit
    <3>3. QED
      BY <1>3, <3>1, <3>2
  <2>2. UNCHANGED <<row, streak, lost>>
    BY <1>3 DEF LoopHead, SkipExit
  <2>3. QED
    BY <1>2, <2>1, <2>2 DEF RowFollows, InHand, Unwritten
<1>4. CASE Probe(t)
  <2>1. /\ loop'[t].pc = "sync" /\ loop'[t].ok = works /\ loop[t].pc = "probe"
        /\ row' = row /\ lost' = lost
    BY <1>1, <1>4 DEF Probe, LoopRecord
  <2>2. CASE works
    <3>1. streak' = 0
      BY <1>4, <2>2 DEF Probe
    <3>2. row.open \/ (row.fails < MaxFailures /\ 0 <= row.fails + 0 + lost)
      BY <1>1, <1>2 DEF RowFollows
    <3>3. QED
      BY <2>1, <2>2, <3>1, <3>2 DEF RowFollows, InHand, Unwritten
  <2>3. CASE ~works
    <3>1. streak' <= streak + 1
      BY <1>1, <1>4, <2>3, CountToFacts DEF Probe
    <3>2. row.open \/ (row.fails < MaxFailures /\ streak <= row.fails + lost)
      BY <1>1, <1>2, <2>1 DEF RowFollows, InHand, Unwritten
    <3>3. streak' \in Int
      BY <1>1, <1>4, <2>3, CountToFacts DEF Probe
    <3>4. row.open \/ (row.fails < MaxFailures /\ streak' <= row.fails + 1 + lost)
      BY <1>1, <3>1, <3>2, <3>3
    <3>5. QED
      BY <2>1, <2>3, <3>4 DEF RowFollows, InHand, Unwritten
  <2>4. QED
    BY <1>1, <2>2, <2>3
<1>5. CASE Sync(t)
  <2>1. /\ loop'[t].pc = "persist" /\ loop'[t].ok = loop[t].ok /\ loop[t].pc = "sync"
        /\ UNCHANGED <<row, streak, lost>>
    BY <1>1, <1>5 DEF Sync, LoopRecord
  <2>2. QED
    BY <1>2, <2>1 DEF RowFollows, InHand, Unwritten
<1>6. CASE Persist(t)
  <2>1. /\ loop'[t].pc \notin {"sync", "persist"} /\ loop[t].pc = "persist"
        /\ streak' = streak
    BY <1>1, <1>6, LoopRecords DEF Persist
  <2>2. loop[t].ok => streak = 0
    BY <1>2, <2>1 DEF RowFollows, InHand
  <2>3. ~loop[t].ok => row.open \/ (row.fails < MaxFailures /\ streak <= row.fails + 1 + lost)
    BY <1>2, <2>1 DEF RowFollows, InHand, Unwritten
  <2>4. row'.open \/ (row'.fails < MaxFailures /\ streak <= row'.fails + 0 + lost')
    <3>1. CASE row' = RecordedInRow(row, loop[t].ok) /\ lost' = lost
      <4>1. loop[t].ok \in BOOLEAN
        BY <1>1 DEF LoopRecord
      <4>2. CASE loop[t].ok
        <5>1. row'.fails = 0 /\ streak = 0
          BY <1>1, <2>2, <3>1, <4>1, <4>2, RowRecorded
        <5>2. QED
          BY <1>1, <3>1, <5>1
      <4>3. CASE ~loop[t].ok
        <5>1. row'.open \/ (~row.open /\ row'.fails < MaxFailures /\ row'.fails = row.fails + 1)
          BY <1>1, <3>1, <4>1, <4>3, RowRecorded
        <5>2. QED
          BY <1>1, <2>3, <3>1, <4>3, <5>1
      <4>4. QED
        BY <4>1, <4>2, <4>3
    <3>2. CASE row' = row /\ lost' = lost + 1
      <4>1. row.open \/ (row.fails < MaxFailures /\ streak <= row.fails + 1 + lost)
        BY <1>1, <1>2, <2>2, <2>3 DEF RowFollows
      <4>2. QED
        BY <1>1, <3>2, <4>1
    <3>3. QED
      BY <1>6, <3>1, <3>2 DEF Persist
  <2>5. QED
    BY <2>1, <2>4 DEF RowFollows, InHand, Unwritten
<1>7. QED
  BY <1>3, <1>4, <1>5, <1>6 DEF LoopStep

LEMMA NextFollows ==
  ASSUME OneLoop, IInv, [Next]_vars, NEW u \in Loops
  PROVE  RowFollows(u)'
<1>1. RowFollows(u) /\ loop \in [Loops -> LoopRecord] /\ loop[u] \in LoopRecord
  BY DEF IInv, TypeOK, LoopRecord
<1>2. ASSUME UNCHANGED <<row, streak, lost>>, loop'[u].ok = loop[u].ok,
             (loop'[u].pc \in {"sync", "persist"}) = (loop[u].pc \in {"sync", "persist"})
      PROVE  RowFollows(u)'
  BY <1>1, <1>2 DEF RowFollows, InHand, Unwritten
<1>3. CASE Start
  <2>1. PICK t \in Loops : loop[t] = Off /\ loop' = [loop EXCEPT ![t] = Idle]
    BY <1>3 DEF Start
  <2>2. Off.ok = Idle.ok /\ Off.pc = "off" /\ Idle.pc = "wait"
    BY DEF Off, Idle
  <2>3. /\ loop'[u].ok = loop[u].ok
        /\ (loop'[u].pc \in {"sync", "persist"}) = (loop[u].pc \in {"sync", "persist"})
    BY <1>1, <2>1, <2>2
  <2>4. QED
    BY <1>2, <1>3, <2>3 DEF Start
<1>4. CASE \E t \in Loops : LoopStep(t)
  <2>1. LoopStep(u)
    BY <1>4 DEF OneLoop
  <2>2. QED
    BY <2>1, LoopStepFollows
<1>5. CASE RefreshRebuild
  <2>1. loop'[u].ok = loop[u].ok /\ loop'[u].pc = loop[u].pc
    BY <1>1, <1>5 DEF RefreshRebuild, LoopRecord
  <2>2. QED
    BY <1>2, <1>5, <2>1 DEF RefreshRebuild
<1>6. CASE Stop \/ RefreshLoad \/ NodeChanges \/ FrontsChange \/ TesterChanges \/ Tick
           \/ UNCHANGED vars
  <2>1. UNCHANGED <<row, streak, lost, loop>>
    BY <1>6 DEF Stop, RefreshLoad, NodeChanges, FrontsChange, TesterChanges, Tick, vars
  <2>2. QED
    BY <1>2, <2>1
<1>7. QED
  BY <1>3, <1>4, <1>5, <1>6 DEF Next, RefreshStep

LEMMA Inductive ==
  ASSUME OneLoop
  PROVE  Spec => []IInv
<1>1. Init => IInv
  BY InitTypes, InitFollows DEF IInv
<1>2. IInv /\ [Next]_vars => IInv'
  BY NextTypes, NextFollows DEF IInv
<1>3. QED
  BY <1>1, <1>2, PTL DEF Spec

(* With a single probe loop, whatever the thresholds, the pools and the    *)
(* rows that are lost, no refresh lets a node through that keeps failing.  *)
THEOREM SingleLoopExcludesDeadNode ==
  ASSUME OneLoop
  PROVE  Spec => DeadNodeNotRouted
<1>1. IInv /\ IInv' /\ [Next]_vars
        => [RefreshLoad /\ streak > MaxFailures + lost => \A p \in Pools : entry'[p].open]_vars
  <2> SUFFICES ASSUME IInv, RefreshLoad, streak > MaxFailures + lost
               PROVE  \A p \in Pools : entry'[p].open
    OBVIOUS
  <2>1. PICK t \in Loops : TRUE
    BY DEF OneLoop
  <2>2. /\ row \in Row /\ row.fails \in Nat /\ lost \in Nat /\ streak \in Nat
        /\ MaxFailures \in Nat
    BY NodeHealthAssumption DEF IInv, TypeOK, Row, FailureCount, StreakCap
  <2>3. row.open \/ (row.fails < MaxFailures /\ streak <= row.fails + Unwritten(t) + lost)
    BY DEF IInv, RowFollows
  <2>4. Unwritten(t) \in {0, 1}
    BY DEF Unwritten
  <2>5. row.open
    BY <2>2, <2>3, <2>4
  <2>6. QED
    BY <2>5 DEF RefreshLoad, Loaded
<1>2. QED
  BY <1>1, Inductive, PTL DEF Spec, DeadNodeNotRouted
=============================================================================
