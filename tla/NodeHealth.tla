----------------------------- MODULE NodeHealth -----------------------------
(***************************************************************************)
(* One node of the pools under the probe loops of                          *)
(* proxypool/pool/health_manager.py and the pool refresh of                *)
(* proxypool/pool/chain_service.py.  What a request sees of the node is    *)
(* its NodeEntry in each pool; behind the entries stand the breaker, which *)
(* both pools share, and the row of node_health, from which every refresh  *)
(* rebuilds the entries.  The probe loop is a thread: between its steps a  *)
(* refresh may replace the entry it holds, and a stop that gives up        *)
(* waiting followed by a start leaves two loops.                           *)
(*                                                                         *)
(* A tick is half a probe interval, and the first backoff.  The sliding    *)
(* window and the score only order healthy nodes and are left out; the     *)
(* application passes no health_storage, so step 7 never runs.             *)
(***************************************************************************)
EXTENDS Breaker

CONSTANTS
  Pools,          \* the pools the node matches: a subset of {"front", "exit"}
  Loops,          \* the probe threads that may be alive at once
  MaxFailures,    \* HealthConfig.max_consecutive_failures
  MaxLost         \* bound: rows of node_health that are not written

ASSUME NodeHealthAssumption ==
  /\ Pools \subseteq {"front", "exit"} /\ Pools # {}
  /\ MaxFailures \in Nat \ {0}
  /\ MaxLost \in Nat

VARIABLES
  breaker,        \* the node's circuit breaker, kept across stop and start
  row,            \* its row of node_health
  entry,          \* its NodeEntry in each pool
  available,      \* proxies.available, which the tester writes
  works,          \* whether a probe of the node succeeds now
  fronts,         \* whether another front node is healthy
  loop,           \* the probe threads
  running,        \* HealthManager._running
  stopping,       \* HealthManager._stop_event
  refreshing,     \* a refresh holds the service's lock, the entries are new
  streak,         \* ghost: failures recorded since the last success
  lost            \* ghost: rows not written

vars == <<breaker, row, entry, available, works, fronts, loop, running,
          stopping, refreshing, streak, lost>>
environment == <<available, works, fronts>>

FailureCount == 0 .. MaxFailures      \* saturates where it is compared
StreakCap    == MaxFailures + MaxLost + 1
CountTo(cap, n) == IF n < cap THEN n + 1 ELSE n

Row   == [fails : FailureCount, open : BOOLEAN, ever : BOOLEAN]
Entry == [fails : FailureCount, open : BOOLEAN, routeable : BOOLEAN]
Off   == [pc |-> "off", pool |-> "none", ok |-> FALSE, live |-> FALSE]
Idle  == [Off EXCEPT !.pc = "wait"]

TypeOK ==
  /\ breaker \in BreakerRecord /\ row \in Row
  /\ entry \in [Pools -> Entry]
  /\ {available, works, fronts, running, stopping, refreshing} \subseteq BOOLEAN
  /\ loop \in [Loops -> [pc : {"off", "wait", "probe", "sync", "persist"},
                         pool : {"none", "front", "exit"},
                         ok : BOOLEAN, live : BOOLEAN]]
  /\ streak \in 0 .. StreakCap /\ lost \in 0 .. MaxLost

NoFailure == [fails |-> 0, open |-> FALSE, ever |-> FALSE]

Init ==
  /\ breaker = NewBreaker /\ row = NoFailure
  /\ available \in BOOLEAN /\ fronts \in BOOLEAN /\ works \in BOOLEAN
  /\ entry = [p \in Pools |-> [fails |-> 0, open |-> FALSE, routeable |-> available]]
  /\ loop = [t \in Loops |-> Off]
  /\ running = FALSE /\ stopping = FALSE
  /\ refreshing = FALSE
  /\ streak = 0 /\ lost = 0

-----------------------------------------------------------------------------
(* What a result changes.                                                   *)

(* HealthManager._update_node_health, step 2: the state is read before and *)
(* after the result is recorded, and a reading moves a breaker whose       *)
(* backoff has passed to half-open.                                        *)
RecordedInBreaker(b, ok) ==
  LET c == CheckOpenTimeout(b)
  IN  CheckOpenTimeout(IF ok THEN AfterSuccess(c) ELSE AfterFailure(c))

(* NodePool.update_node_health.                                             *)
RecordedInEntry(e, ok) ==
  LET fails == CountTo(MaxFailures, e.fails)
  IN  IF ok THEN [fails |-> 0, open |-> FALSE, routeable |-> e.routeable]
      ELSE [fails |-> fails, open |-> e.open \/ fails >= MaxFailures, routeable |-> e.routeable]

(* Mutant: a success resets the count but leaves the circuit open.           *)
RecordedInRow_StaysOpen(r, ok) ==
  LET fails == CountTo(MaxFailures, r.fails)
  IN  IF ok THEN [r EXCEPT !.fails = 0, !.ever = TRUE]
      ELSE [r EXCEPT !.fails = fails, !.open = @ \/ fails >= MaxFailures]

(* Mutant: the count is compared before it is incremented.                  *)
RecordedInRow_LateCompare(r, ok) ==
  LET fails == CountTo(MaxFailures, r.fails)
  IN  IF ok THEN [fails |-> 0, open |-> FALSE, ever |-> TRUE]
      ELSE [r EXCEPT !.fails = fails, !.open = @ \/ r.fails >= MaxFailures]

(* SQLiteProxyStorage.upsert_node_health: an insert and an update count     *)
(* alike, a missing row counts from 0.                                      *)
RecordedInRow(r, ok) ==
  LET fails == CountTo(MaxFailures, r.fails)
  IN  IF ok THEN [fails |-> 0, open |-> FALSE, ever |-> TRUE]
      ELSE [fails |-> fails, open |-> r.open \/ fails >= MaxFailures, ever |-> r.ever]

(* The entry a refresh makes: _apply_probe_status on a new NodeEntry, then  *)
(* _load_health_state with the row that was read.                          *)
Rebuilt == [p \in Pools |-> [fails |-> 0, open |-> FALSE, routeable |-> available]]

(* Mutant: the circuit of the row is not applied.                           *)
Loaded_CountOnly(e, p, r) ==
  [fails |-> r.fails, open |-> FALSE,
   routeable |-> e.routeable \/ (p = "exit" /\ r.ever)]

Loaded(e, p, r) ==
  [fails |-> r.fails, open |-> r.open,
   routeable |-> e.routeable \/ (p = "exit" /\ r.ever)]

Healthy(p) == p \in Pools /\ entry[p].routeable /\ ~entry[p].open

-----------------------------------------------------------------------------
(* The life of a loop.                                                      *)

(* HealthManager.start: a thread whose predecessor may still be at work.    *)
(* Bound: a free slot of Loops.                                             *)
Start ==
  /\ ~running /\ running' = TRUE /\ stopping' = FALSE
  /\ \E t \in Loops : loop[t] = Off /\ loop' = [loop EXCEPT ![t] = Idle]
  /\ UNCHANGED <<breaker, row, entry, environment, refreshing, streak, lost>>

(* HealthManager.stop, reached from the API and from shutdown: it joins the *)
(* thread for five seconds and returns all the same.                        *)
Stop ==
  /\ running /\ running' = FALSE /\ stopping' = TRUE
  /\ UNCHANGED <<breaker, row, entry, environment, loop, refreshing, streak, lost>>

(* The head of _probe_loop: a set event ends the thread, otherwise a cycle  *)
(* begins with the front pool.                                              *)
FirstPool == IF "front" \in Pools THEN "front" ELSE "exit"

LoopHead(t) ==
  /\ loop[t].pc = "wait"
  /\ loop' = [loop EXCEPT ![t] = IF stopping THEN Off
                                 ELSE [@ EXCEPT !.pc = "probe", !.pool = FirstPool]]
  /\ UNCHANGED <<breaker, row, entry, environment, running, stopping, refreshing, streak, lost>>

(* _probe_all_nodes once a pool is done: the exit pool follows the front    *)
(* pool when some front node is healthy at that moment, else it is skipped. *)
NextPool(l) ==
  IF l.pool = "front" /\ "exit" \in Pools THEN [Idle EXCEPT !.pc = "probe", !.pool = "exit"]
  ELSE Idle

(* One probe and _update_node_health up to step 5a.  The steps are taken    *)
(* together: the breaker is shared only with another loop, which takes its  *)
(* lock, and a refresh in between would leave what a refresh before leaves, *)
(* but for a count that step 5b makes irrelevant.                           *)
Probe(t) ==
  LET p  == loop[t].pool
      ok == works
  IN  /\ loop[t].pc = "probe"
      /\ p = "exit" => fronts \/ Healthy("front")
      /\ breaker' = RecordedInBreaker(breaker, ok)
      /\ entry' = [entry EXCEPT ![p] = RecordedInEntry(@, ok)]
      /\ streak' = IF ok THEN 0 ELSE CountTo(StreakCap, streak)
      /\ loop' = [loop EXCEPT ![t] = [@ EXCEPT !.pc = "sync", !.ok = ok, !.live = TRUE]]
      /\ UNCHANGED <<row, environment, running, stopping, refreshing, lost>>

SkipExit(t) ==
  /\ loop[t].pc = "probe" /\ loop[t].pool = "exit"
  /\ ~fronts /\ ~Healthy("front")
  /\ loop' = [loop EXCEPT ![t] = Idle]
  /\ UNCHANGED <<breaker, row, entry, environment, running, stopping, refreshing, streak, lost>>

(* Step 5b: circuit_open follows the breaker, on the entry that step 5a     *)
(* found, which a refresh may have taken out of the pool.                   *)
Sync(t) ==
  LET c == CheckOpenTimeout(breaker)
  IN  /\ loop[t].pc = "sync"
      /\ breaker' = c
      /\ entry' = IF loop[t].live
                  THEN [entry EXCEPT ![loop[t].pool].open = c.state = "open"]
                  ELSE entry
      /\ loop' = [loop EXCEPT ![t] = [@ EXCEPT !.pc = "persist", !.live = FALSE]]
      /\ UNCHANGED <<row, environment, running, stopping, refreshing, streak, lost>>

(* Step 6, _persist_health: an exception of the storage is logged and the   *)
(* row stays as it was.                                                     *)
Persist(t) ==
  /\ loop[t].pc = "persist"
  /\ \/ row' = RecordedInRow(row, loop[t].ok) /\ UNCHANGED lost
     \/ lost < MaxLost /\ lost' = lost + 1 /\ UNCHANGED row
  /\ loop' = [loop EXCEPT ![t] = NextPool(@)]
  /\ UNCHANGED <<breaker, entry, environment, running, stopping, refreshing, streak>>

-----------------------------------------------------------------------------
(* refresh_pools, which every route_request, a status with refresh, a start *)
(* and a change of a pool's filters call under the service's lock: the      *)
(* entries are replaced, then the rows are read and applied.  A probe loop  *)
(* does not take that lock and may run in between.                          *)

RefreshRebuild ==
  /\ ~refreshing /\ refreshing' = TRUE
  /\ entry' = Rebuilt
  /\ loop' = [t \in Loops |-> [loop[t] EXCEPT !.live = FALSE]]
  /\ UNCHANGED <<breaker, row, environment, running, stopping, streak, lost>>

RefreshLoad ==
  /\ refreshing /\ refreshing' = FALSE
  /\ entry' = [p \in Pools |-> Loaded(entry[p], p, row)]
  /\ UNCHANGED <<breaker, row, environment, loop, running, stopping, streak, lost>>

-----------------------------------------------------------------------------
(* The world: the node comes and goes (between the probes of its two pools  *)
(* too), as do the other fronts, the tester writes availability, time       *)
(* passes.  Steps 2 to 5b of a result take no time.      *)

NodeChanges ==
  /\ works' = ~works
  /\ UNCHANGED <<breaker, row, entry, available, fronts, loop, running, stopping,
                 refreshing, streak, lost>>

FrontsChange ==
  /\ fronts' = ~fronts
  /\ UNCHANGED <<breaker, row, entry, available, works, loop, running, stopping,
                 refreshing, streak, lost>>

TesterChanges ==
  /\ available' = ~available
  /\ UNCHANGED <<breaker, row, entry, works, fronts, loop, running, stopping,
                 refreshing, streak, lost>>

Tick ==
  /\ \A t \in Loops : loop[t].pc # "sync"
  /\ breaker.backoff > 0
  /\ breaker' = Elapse(breaker)
  /\ UNCHANGED <<row, entry, environment, loop, running, stopping, refreshing, streak, lost>>

LoopStep(t)  == LoopHead(t) \/ Probe(t) \/ SkipExit(t) \/ Sync(t) \/ Persist(t)
RefreshStep  == RefreshRebuild \/ RefreshLoad

Next ==
  \/ Start \/ Stop
  \/ \E t \in Loops : LoopStep(t)
  \/ RefreshStep
  \/ NodeChanges \/ FrontsChange \/ TesterChanges \/ Tick

(* The threads run, requests keep coming, and time does not stop (a tick is *)
(* only put off while a result is being recorded).  Whether start           *)
(* or stop is called and how the world changes is nobody's promise.         *)
Fairness ==
  /\ \A t \in Loops : WF_vars(LoopStep(t))
  /\ WF_vars(RefreshStep)
  /\ SF_vars(Tick)

Spec == Init /\ [][Next]_vars /\ Fairness

-----------------------------------------------------------------------------
(* Properties.                                                              *)

(* A failing node is not routed to: when a refresh, which every request     *)
(* makes, is over, a node that had more failures in a row than max_failures *)
(* (one may be on its way to the row, and a lost row counts one more) is    *)
(* excluded from both pools, whichever pool's probes failed.  This is for a *)
(* single probe loop: one of two may write its success after the other's    *)
(* failures.                                                                *)
DeadNodeNotRouted ==
  [][RefreshLoad /\ streak > MaxFailures + lost => \A p \in Pools : entry'[p].open]_vars

(* A node that fails every probe from some time on is at last excluded for  *)
(* good, however refreshes, lost rows and the half-open breaker interfere.  *)
DeadNodeIsExcluded ==
  <>[](~works /\ running /\ ("front" \in Pools \/ fronts))
    => <>[](~refreshing => \A p \in Pools : entry[p].open)

(* A node that is well and available from some time on is at last offered   *)
(* for good: neither the breaker, nor the row, nor an entry written late    *)
(* keeps it out.                                                            *)
LiveNodeIsOffered ==
  <>[](works /\ running /\ available /\ fronts)
    => <>[](~refreshing => \A p \in Pools : Healthy(p))
=============================================================================
