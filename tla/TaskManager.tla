----------------------------- MODULE TaskManager -----------------------------
(***************************************************************************)
(* proxypool/tasks/manager.py: background tasks, each run by a thread of   *)
(* its own, in a bounded table that API calls read, stop and delete from.  *)
(* Every access to the table is under one lock, so a step is one critical  *)
(* section; between two of them anything may happen.  The program counter  *)
(* of a task's thread names the critical section it executes next.         *)
(*                                                                         *)
(* Progress counters, messages, results and timestamps are left out: no    *)
(* decision of the code reads them.  The runner is any runner: it returns, *)
(* raises, or - when its stop callback says so - raises TaskCancelled.     *)
(***************************************************************************)
EXTENDS Naturals, Sequences, FiniteSets

CONSTANTS
  TaskId,      \* the uuids start_task draws, each of them at most once
  MaxTasks     \* TaskManager(max_tasks)

ASSUME MaxTasksAssumption == MaxTasks \in Nat \ {0}

VARIABLES
  task,        \* _tasks: status and cancel flag; "absent" when there is no entry
  order,       \* _order
  pc,          \* where the task's thread is
  late         \* history: stop_task accepted after the thread's last look at the flag

vars == <<task, order, pc, late>>

Terminal == {"success", "failed", "cancelled"}
Active   == {"queued", "running"}
Status   == {"absent"} \cup Active \cup Terminal

Unused == [status |-> "absent", cancel |-> FALSE]

Init ==
  /\ task = [t \in TaskId |-> Unused]
  /\ order = <<>>
  /\ pc = [t \in TaskId |-> "idle"]
  /\ late = [t \in TaskId |-> FALSE]

-----------------------------------------------------------------------------
(* Mutant: the entries past the limit go whatever their status is.         *)
Trimmed_Any(table, ids) ==
  IF Len(ids) <= MaxTasks THEN {}
  ELSE {ids[i] : i \in 1 .. (Len(ids) - MaxTasks)}

(* Mutant: only the oldest entry is looked at.                             *)
Trimmed_One(table, ids) ==
  IF Len(ids) <= MaxTasks \/ table[ids[1]].status \notin Terminal THEN {} ELSE {ids[1]}

(* _trim_unlocked: of the oldest entries that exceed max_tasks, those that *)
(* have ended are dropped.                                                 *)
Trimmed(table, ids) ==
  IF Len(ids) <= MaxTasks THEN {}
  ELSE {t \in {ids[i] : i \in 1 .. (Len(ids) - MaxTasks)} :
          table[t].status \in Terminal}

(* The others, as they stood: the n-th has n - 1 of them before it.        *)
Without(ids, gone) ==
  LET kept    == {i \in DOMAIN ids : ids[i] \notin gone}
      rank(i) == Cardinality({j \in kept : j <= i})
  IN  [n \in 1 .. Cardinality(kept) |-> ids[CHOOSE i \in kept : rank(i) = n]]

(* start_task, up to the creation of the thread.                           *)
StartTask(t) ==
  LET added == [task EXCEPT ![t] = [status |-> "queued", cancel |-> FALSE]]
      ids   == Append(order, t)
      gone  == Trimmed(added, ids)
  IN  /\ pc[t] = "idle"
      /\ pc' = [pc EXCEPT ![t] = "ready"]
      /\ task' = [u \in TaskId |-> IF u \in gone THEN Unused ELSE added[u]]
      /\ order' = Without(ids, gone)
      /\ UNCHANGED late

(* stop_task.                                                              *)
StopTask(t) ==
  /\ task[t].status \in Active
  /\ task' = [task EXCEPT ![t] =
                [status |-> IF @.status = "queued" THEN "cancelled" ELSE @.status,
                 cancel |-> TRUE]]
  /\ late' = [late EXCEPT ![t] = @ \/ pc[t] \in {"end_success", "end_failed"}]
  /\ UNCHANGED <<order, pc>>

(* Mutant: the order list is left to the next trim.                        *)
DeleteTask_OrderKept(t) ==
  /\ task[t].status \in Terminal
  /\ task' = [task EXCEPT ![t] = Unused]
  /\ UNCHANGED <<order, pc, late>>

(* delete_task.                                                            *)
DeleteTask(t) ==
  /\ task[t].status \in Terminal
  /\ task' = [task EXCEPT ![t] = Unused]
  /\ order' = Without(order, {t})
  /\ UNCHANGED <<pc, late>>

-----------------------------------------------------------------------------
(* _should_stop.                                                           *)
ShouldStop(t) == task[t].status = "absent" \/ task[t].cancel

(* Mutant: a terminal update does not overwrite a running status that has  *)
(* been asked to stop.                                                     *)
Updated_Dropped(t, status) ==
  IF task[t].status = "absent" \/ task[t].cancel THEN task
  ELSE [task EXCEPT ![t].status = status]

(* _update with a status: a vanished entry is left alone, and so is an     *)
(* ended one unless the new status ends it too.                            *)
Updated(t, status) ==
  IF \/ task[t].status = "absent"
     \/ task[t].status \in Terminal /\ status \notin Terminal
  THEN task
  ELSE [task EXCEPT ![t].status = status]

Goto(t, from, to) ==
  /\ pc[t] = from
  /\ pc' = [pc EXCEPT ![t] = to]

(* The first look at the stop flag.                                        *)
Begin(t) ==
  /\ Goto(t, "ready", IF ShouldStop(t) THEN "end_cancelled" ELSE "begin")
  /\ UNCHANGED <<task, order, late>>

(* The task is marked running and the runner is called.                    *)
CallRunner(t) ==
  /\ Goto(t, "begin", "running")
  /\ task' = Updated(t, "running")
  /\ UNCHANGED <<order, late>>

(* The runner returns a result, raises, or raises TaskCancelled.           *)
RunnerReturns(t) ==
  /\ Goto(t, "running", "returned")
  /\ UNCHANGED <<task, order, late>>

RunnerRaises(t) ==
  /\ Goto(t, "running", "raised")
  /\ UNCHANGED <<task, order, late>>

RunnerCancels(t) ==
  /\ ShouldStop(t)
  /\ Goto(t, "running", "end_cancelled")
  /\ UNCHANGED <<task, order, late>>

(* Mutant: a failing runner is reported failed without a look at the flag. *)
LastLook_Unchecked(t) ==
  /\ \/ Goto(t, "returned", IF ShouldStop(t) THEN "end_cancelled" ELSE "end_success")
     \/ Goto(t, "raised", "end_failed")
  /\ UNCHANGED <<task, order, late>>

(* The last look at the stop flag, after a result or an exception.         *)
LastLook(t) ==
  /\ \/ Goto(t, "returned", IF ShouldStop(t) THEN "end_cancelled" ELSE "end_success")
     \/ Goto(t, "raised", IF ShouldStop(t) THEN "end_cancelled" ELSE "end_failed")
  /\ UNCHANGED <<task, order, late>>

(* The final update.                                                       *)
Finish(t) ==
  /\ \/ Goto(t, "end_success", "done") /\ task' = Updated(t, "success")
     \/ Goto(t, "end_failed", "done") /\ task' = Updated(t, "failed")
     \/ Goto(t, "end_cancelled", "done") /\ task' = Updated(t, "cancelled")
  /\ UNCHANGED <<order, late>>

Runner(t) == RunnerReturns(t) \/ RunnerRaises(t) \/ RunnerCancels(t)

Thread(t) == Begin(t) \/ CallRunner(t) \/ Runner(t) \/ LastLook(t) \/ Finish(t)

Next ==
  \E t \in TaskId : StartTask(t) \/ StopTask(t) \/ DeleteTask(t) \/ Thread(t)

(* Threads are scheduled, and every runner of src/ ends: each of them loops*)
(* over a finite list of probes that have timeouts.                        *)
Spec == Init /\ [][Next]_vars /\ \A t \in TaskId : WF_vars(Thread(t))

-----------------------------------------------------------------------------
PC == {"idle", "ready", "begin", "running", "returned", "raised",
       "end_success", "end_failed", "end_cancelled", "done"}

(* Types.                                                                  *)
TypeOK ==
  /\ task \in [TaskId -> [status : Status, cancel : BOOLEAN]]
  /\ order \in Seq(TaskId)
  /\ pc \in [TaskId -> PC]
  /\ late \in [TaskId -> BOOLEAN]

(* The order list and the table always hold the same tasks, each once:     *)
(* list_tasks shows every task there is and _trim_unlocked can reach it.   *)
OrderIsTable ==
  /\ {order[i] : i \in 1 .. Len(order)} = {t \in TaskId : task[t].status # "absent"}
  /\ \A i, j \in 1 .. Len(order) : order[i] = order[j] => i = j

(* The table is what the calls on it assume: typed, and in step with the   *)
(* order list after any number of starts, trims and deletions.             *)
TableIsSound == TypeOK /\ OrderIsTable

(* A task that ended keeps its outcome until its entry goes: the code lets *)
(* one terminal status overwrite another, but no interleaving of the       *)
(* thread with stop_task and delete_task makes it happen.                  *)
OutcomeIsFinal ==
  [][\A t \in TaskId :
       task[t].status \in Terminal =>
         task'[t].status \in {task[t].status, "absent"}]_vars

(* No task disappears while its thread may still report an outcome for it: *)
(* neither trimming nor delete_task drops an active task.                  *)
ActiveIsKept ==
  [][\A t \in TaskId :
       task[t].status \in Active => task'[t].status # "absent"]_vars

(* A stop accepted before the thread's last look at the flag ends the task *)
(* as cancelled, whatever the runner did.                                  *)
StopInTimeCancels ==
  \A t \in TaskId :
    task[t].cancel /\ task[t].status \in {"success", "failed"} => late[t]

(* When a task is started, the table exceeds max_tasks only by active      *)
(* tasks, and these are the oldest: no ended task is kept past the limit.  *)
ExcessIsActive ==
  [][\A t \in TaskId : StartTask(t) =>
       \A i \in 1 .. Len(order') :
         i + MaxTasks <= Len(order') => task'[order'[i]].status \in Active]_vars

(* Every task ends or its entry goes.                                      *)
EveryTaskEnds ==
  \A t \in TaskId : task[t].status \in Active ~> task[t].status \notin Active

(* Seen from outside, threads, trims, stops and deletions in any order     *)
(* give every task one life: queued, running, ended, gone, never backwards *)
(* and never cancelled unasked.                                            *)
LifeAt(e, p) ==
  [phase |-> IF e.status # "absent" THEN e.status ELSE IF p = "idle" THEN "none" ELSE "gone",
   asked |-> e.cancel]

TaskLife == [t \in TaskId |-> LifeAt(task[t], pc[t])]

Lifecycle == INSTANCE TaskLifecycle WITH life <- TaskLife

LifecycleSpec == Lifecycle!LifeSpec
=============================================================================
