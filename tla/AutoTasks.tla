------------------------------ MODULE AutoTasks ------------------------------
(***************************************************************************)
(* The loop that starts background tasks by itself: _auto_task_loop of     *)
(* proxypool/api/app.py and its settings in api/routers/tasks.py.  Every   *)
(* five seconds it goes through three kinds of task in one order, notes    *)
(* the time for each that is due, and starts it.  A start that raises (no  *)
(* thread to be had, a speed test URL that is no longer accepted) ends     *)
(* this round, so the kinds after it wait.                                 *)
(*                                                                         *)
(* Time is counted in rounds.  What the tasks do is TaskManager's,         *)
(* Collector's and Testing's; whether one of the kind still runs is not    *)
(* looked at.                                                              *)
(***************************************************************************)
EXTENDS Naturals, Sequences

CONSTANTS
  Minutes,            \* the intervals that are configured
  RoundsPerMinute     \* 12: the loop sleeps five seconds

AutoTasksAssumption ==
  /\ Minutes \subseteq Nat \ {0} /\ \E longest \in Minutes : \A m \in Minutes : m <= longest
  /\ RoundsPerMinute \in Nat /\ RoundsPerMinute >= 3

VARIABLES
  enabled,            \* auto_task_config["enabled"]
  every,              \* the minutes between two starts of a kind; Off while it is switched off
  age,                \* the rounds since auto_task_last_run of the kind; since the
                      \* clock's start, for one that is not in it
  skipped             \* ghost: the last rounds in which the kind was due and not reached

vars == <<enabled, every, age, skipped>>

Order == <<"subscriptions_refresh", "tester_run", "speed_test">>
Kinds == DOMAIN Order
Off   == 0

(* An age counts up to the longest interval.                                *)
Longest == CHOOSE m \in Minutes : \A n \in Minutes : n <= m
MaxAge  == RoundsPerMinute * Longest

TypeOK ==
  /\ enabled \in BOOLEAN /\ every \in [Kinds -> Minutes \cup {Off}]
  /\ age \in [Kinds -> 0 .. MaxAge] /\ skipped \in [Kinds -> 0 .. Len(Order)]

(* The clock is the machine's: it may have run for long or for no time.     *)
Init ==
  /\ enabled = FALSE
  /\ every = [k \in Kinds |-> IF k = 1 THEN Longest ELSE Off]
  /\ \E up \in 0 .. MaxAge : age = [k \in Kinds |-> up]
  /\ skipped = [k \in Kinds |-> 0]

(* PUT /tasks/auto-config replaces the settings; the times stay.            *)
UpdateConfig ==
  /\ enabled' \in BOOLEAN /\ every' \in [Kinds -> Minutes \cup {Off}]
  /\ UNCHANGED <<age, skipped>>

Due(k) == every[k] # Off /\ age[k] >= RoundsPerMinute * every[k]

(* The kinds whose start this round gets to, when the one of raising fails. *)
Reached(raising) == {k \in Kinds : Due(k) /\ \A r \in raising : k <= r}

(* Mutant: the time is noted when the task has been started.                *)
Noted_Started(raising) == Reached(raising) \ raising

(* The time is noted before the task is started.                            *)
Noted(raising) == Reached(raising)

(* A round.                                                                 *)
Round ==
  /\ \E raising \in {{}} \cup {{k} : k \in {r \in Kinds : enabled /\ Due(r)}} :
       /\ age' = [k \in Kinds |-> IF enabled /\ k \in Noted(raising) THEN 1
                                  ELSE IF age[k] < MaxAge THEN age[k] + 1 ELSE MaxAge]
       /\ skipped' = [k \in Kinds |-> IF enabled /\ Due(k) /\ k \notin Reached(raising)
                                      THEN skipped[k] + 1 ELSE 0]
  /\ UNCHANGED <<enabled, every>>

Next == UpdateConfig \/ Round

Spec == Init /\ [][Next]_vars

-----------------------------------------------------------------------------
(* Properties.                                                              *)

(* A kind that is due gets its turn although the kinds before it keep       *)
(* failing to start: it is passed over at most once for each of them.       *)
EveryKindGetsItsTurn == \A k \in Kinds : skipped[k] < k
=============================================================================
