-------------------------- MODULE TaskManagerProofs --------------------------
(***************************************************************************)
(* The outcome of a task, for any number of tasks and any max_tasks.       *)
(*                                                                         *)
(* _update lets one terminal status overwrite another, so that outcomes    *)
(* are final is not a property of _update: it holds because of where a     *)
(* thread can be when its task has already ended.  IInv relates the two:   *)
(* only stop_task ends a task whose thread is alive, only while the thread *)
(* has not passed its last look at the stop flag, and it sets the flag.    *)
(*                                                                         *)
(* The order list needs no more than that it holds what the table holds,   *)
(* each task once; the lemma it rests on is that dropping tasks from a     *)
(* list keeps the others, each once, no nearer to the end than they were   *)
(* by more than what was dropped behind them.                              *)
(***************************************************************************)
EXTENDS TaskManager, FiniteSetTheorems, SequenceTheorems, TLAPS

TableOK ==
  /\ task \in [TaskId -> [status : Status, cancel : BOOLEAN]]
  /\ pc \in [TaskId -> PC]
  /\ late \in [TaskId -> BOOLEAN]

(* What a task's entry e may be when its thread is at p; l is late.        *)
Agrees(e, p, l) ==
  /\ p = "idle" => e.status = "absent"
  /\ p \in {"ready", "begin"} => e.status \in {"queued", "cancelled", "absent"}
  /\ p \in {"running", "returned", "raised", "end_cancelled"} =>
       e.status \in {"running", "cancelled", "absent"}
  /\ p \in {"end_success", "end_failed"} => e.status = "running" /\ (e.cancel => l)
  /\ p = "done" => e.status \notin Active
  /\ e.status = "cancelled" /\ p # "done" => e.cancel
  /\ e.status = "running" /\ p = "end_cancelled" => e.cancel
  /\ e.status \in {"queued", "absent"} => ~e.cancel
  /\ e.status \in {"success", "failed"} /\ e.cancel => l

IInv == TableOK /\ \A t \in TaskId : Agrees(task[t], pc[t], late[t])

-----------------------------------------------------------------------------
(* IInv holds initially.                                                   *)
LEMMA InitIInv == Init => IInv
BY DEF Init, IInv, TableOK, Agrees, Unused, Status, Active, Terminal, PC

(* An entry that is dropped leaves its thread in a place that fits.        *)
LEMMA DroppedAgrees ==
  ASSUME NEW e \in [status : Status, cancel : BOOLEAN], NEW p \in PC,
         NEW l \in BOOLEAN, Agrees(e, p, l), e.status \in Terminal
  PROVE  Agrees(Unused, p, l)
BY DEF Agrees, Unused, Terminal, Active, Status, PC

(* start_task.                                                             *)
LEMMA StartTaskIInv ==
  ASSUME IInv, NEW t \in TaskId, StartTask(t)
  PROVE  IInv'
<1> DEFINE new   == [status |-> "queued", cancel |-> FALSE]
           added == [task EXCEPT ![t] = new]
           gone  == Trimmed(added, Append(order, t))
<1> USE DEF IInv, TableOK
<1>1. /\ pc[t] = "idle" /\ late' = late
      /\ pc' = [pc EXCEPT ![t] = "ready"]
      /\ task' = [u \in TaskId |-> IF u \in gone THEN Unused ELSE added[u]]
  BY DEF StartTask
<1>2. new \in [status : Status, cancel : BOOLEAN] /\ Unused \in [status : Status, cancel : BOOLEAN]
  BY DEF Status, Active, Unused
<1>3. added \in [TaskId -> [status : Status, cancel : BOOLEAN]]
  BY <1>2
<1>4. \A u \in TaskId : u \in gone => added[u].status \in Terminal
  BY DEF Trimmed
<1>5. t \notin gone
  BY <1>4 DEF Terminal
<1>6. task' \in [TaskId -> [status : Status, cancel : BOOLEAN]]
  <2> HIDE DEF gone, added
  <2> QED
    BY <1>1, <1>2, <1>3
<1>7. pc' \in [TaskId -> PC]
  BY <1>1 DEF PC
<1>8. ASSUME NEW u \in TaskId PROVE Agrees(task'[u], pc'[u], late'[u])
  <2>1. CASE u = t
    <3>1. task'[u] = new /\ pc'[u] = "ready"
      BY <1>1, <1>5, <2>1
    <3>2. QED
      BY <3>1 DEF Agrees, Active
  <2>2. CASE u # t /\ u \in gone
    <3>1. task'[u] = Unused /\ pc'[u] = pc[u] /\ late'[u] = late[u]
      BY <1>1, <2>2
    <3>2. task[u].status \in Terminal
      BY <1>4, <2>2
    <3>3. QED
      BY <3>1, <3>2, DroppedAgrees
  <2>3. CASE u # t /\ u \notin gone
    <3>1. task'[u] = task[u] /\ pc'[u] = pc[u] /\ late'[u] = late[u]
      BY <1>1, <2>3
    <3>2. QED
      BY <3>1
  <2>4. QED
    BY <2>1, <2>2, <2>3
<1>9. QED
  BY <1>1, <1>6, <1>7, <1>8

(* stop_task and delete_task.                                              *)
LEMMA StopTaskIInv ==
  ASSUME IInv, NEW t \in TaskId, StopTask(t)
  PROVE  IInv'
<1> DEFINE e == [status |-> IF task[t].status = "queued" THEN "cancelled" ELSE task[t].status,
                 cancel |-> TRUE]
           l == late[t] \/ pc[t] \in {"end_success", "end_failed"}
<1>1. /\ task[t].status \in Active /\ pc' = pc
      /\ task' = [task EXCEPT ![t] = e]
      /\ late' = [late EXCEPT ![t] = l]
  BY DEF StopTask
<1>2. e \in [status : Status, cancel : BOOLEAN] /\ l \in BOOLEAN
  BY DEF IInv, TableOK, Status, Terminal
<1>3. Agrees(e, pc[t], l)
  BY <1>1 DEF IInv, TableOK, Agrees, Active, PC
<1>4. QED
  BY <1>1, <1>2, <1>3 DEF IInv, TableOK

LEMMA DeleteTaskIInv ==
  ASSUME IInv, NEW t \in TaskId, DeleteTask(t)
  PROVE  IInv'
<1>1. task[t].status \in Terminal /\ pc' = pc /\ late' = late
      /\ task' = [task EXCEPT ![t] = Unused]
  BY DEF DeleteTask
<1>2. Unused \in [status : Status, cancel : BOOLEAN]
  BY DEF Unused, Status
<1>3. Agrees(Unused, pc[t], late[t])
  BY <1>1, DroppedAgrees DEF IInv, TableOK
<1>4. QED
  BY <1>1, <1>2, <1>3 DEF IInv, TableOK

(* The steps of a thread that leave the table alone.                       *)
LEMMA LookIInv ==
  ASSUME IInv, NEW t \in TaskId, Begin(t) \/ Runner(t) \/ LastLook(t)
  PROVE  IInv'
<1> DEFINE p == pc'[t]
<1>1. task' = task /\ late' = late
  BY DEF Begin, Runner, RunnerReturns, RunnerRaises, RunnerCancels, LastLook
<1>2. pc' = [pc EXCEPT ![t] = p] /\ p \in PC
  BY DEF IInv, TableOK, PC, Goto, Begin, Runner, RunnerReturns, RunnerRaises,
         RunnerCancels, LastLook
<1>3. Agrees(task[t], p, late[t])
  <2>1. task[t].status \in Status
    BY DEF IInv, TableOK
  <2>2. CASE Begin(t)
    BY <2>1, <2>2, <1>2 DEF IInv, TableOK, Agrees, ShouldStop, Goto, Begin, Status, Active, Terminal
  <2>3. CASE Runner(t)
    BY <2>1, <2>3, <1>2
       DEF IInv, TableOK, Agrees, ShouldStop, Goto, Runner, RunnerReturns, RunnerRaises,
           RunnerCancels, Status, Active, Terminal
  <2>4. CASE LastLook(t)
    BY <2>1, <2>4, <1>2 DEF IInv, TableOK, Agrees, ShouldStop, Goto, LastLook, Status, Active, Terminal
  <2>5. QED
    BY <2>2, <2>3, <2>4
<1>4. QED
  BY <1>1, <1>2, <1>3 DEF IInv, TableOK

(* The steps of a thread that write a status.                              *)
LEMMA WriteIInv ==
  ASSUME IInv, NEW t \in TaskId, CallRunner(t) \/ Finish(t)
  PROVE  IInv'
<1> DEFINE p == pc'[t]
           e == task'[t]
<1>1. late' = late
  BY DEF CallRunner, Finish
<1>2. pc' = [pc EXCEPT ![t] = p] /\ p \in PC
  BY DEF IInv, TableOK, PC, Goto, CallRunner, Finish
<1>3. PICK s \in {"running", "success", "failed", "cancelled"} :
        /\ task' = Updated(t, s)
        /\ s = "running" => pc[t] = "begin" /\ p = "running"
        /\ s = "success" => pc[t] = "end_success" /\ p = "done"
        /\ s = "failed" => pc[t] = "end_failed" /\ p = "done"
        /\ s = "cancelled" => pc[t] = "end_cancelled" /\ p = "done"
  BY <1>2 DEF Goto, CallRunner, Finish, IInv, TableOK
<1>4. CASE task' = task
  <2>1. task[t].status = "absent" \/ (task[t].status \in Terminal /\ s \notin Terminal)
          \/ task[t].status = s
    BY <1>3, <1>4 DEF Updated, IInv, TableOK
  <2>2. Agrees(task[t], p, late[t])
    BY <1>3, <2>1 DEF IInv, TableOK, Agrees, Active, Terminal, Status
  <2>3. QED
    BY <1>1, <1>2, <1>4, <2>2 DEF IInv, TableOK
<1>5. CASE task' = [task EXCEPT ![t].status = s]
  <2>1. /\ task[t] \in [status : Status, cancel : BOOLEAN]
        /\ e = [task[t] EXCEPT !.status = s]
        /\ task' = [task EXCEPT ![t] = e]
    BY <1>5 DEF IInv, TableOK
  <2>2. e \in [status : Status, cancel : BOOLEAN] /\ e.status = s /\ e.cancel = task[t].cancel
    BY <2>1 DEF Status, Active, Terminal
  <2>3. CASE task[t].status = "absent" \/ (task[t].status \in Terminal /\ s \notin Terminal)
    <3>1. task' = task
      BY <1>3, <2>3 DEF Updated
    <3>2. QED
      BY <3>1, <1>4
  <2>4. CASE ~(task[t].status = "absent" \/ (task[t].status \in Terminal /\ s \notin Terminal))
    <3>1. Agrees(e, p, late[t])
      BY <1>3, <2>2, <2>4 DEF IInv, TableOK, Agrees, Active, Terminal, Status
    <3>2. QED
      BY <1>1, <1>2, <2>1, <2>2, <3>1 DEF IInv, TableOK
  <2>5. QED
    BY <2>3, <2>4
<1>6. QED
  BY <1>3, <1>4, <1>5 DEF Updated

(* IInv is inductive.                                                      *)
LEMMA NextIInv == IInv /\ [Next]_vars => IInv'
<1> SUFFICES ASSUME IInv, [Next]_vars PROVE IInv'
  OBVIOUS
<1>1. CASE UNCHANGED vars
  BY <1>1 DEF vars, IInv, TableOK
<1>2. CASE Next
  BY <1>2, StartTaskIInv, StopTaskIInv, DeleteTaskIInv, LookIInv, WriteIInv DEF Next, Thread
<1>3. QED
  BY <1>1, <1>2

LEMMA Inductive == Spec => []IInv
BY InitIInv, NextIInv, PTL DEF Spec

-----------------------------------------------------------------------------
(* A stop accepted in time makes the task end cancelled.                   *)
THEOREM StopInTime == Spec => []StopInTimeCancels
<1>1. IInv => StopInTimeCancels
  BY DEF IInv, Agrees, StopInTimeCancels
<1>2. QED
  BY <1>1, Inductive, PTL

(* The outcome of a task never changes while its entry is there.           *)
THEOREM OutcomesAreFinal == Spec => OutcomeIsFinal
<1> DEFINE Kept(t) == task[t].status \in Terminal =>
                        task'[t].status \in {task[t].status, "absent"}
<1>1. IInv /\ [Next]_vars => [\A t \in TaskId : Kept(t)]_vars
  <2> SUFFICES ASSUME IInv, Next, NEW u \in TaskId, task[u].status \in Terminal
               PROVE  task'[u].status \in {task[u].status, "absent"}
    BY DEF Next
  <2>1. PICK t \in TaskId : StartTask(t) \/ StopTask(t) \/ DeleteTask(t) \/ Thread(t)
    BY DEF Next
  <2>2. CASE StartTask(t)
    <3>1. pc[t] = "idle"
      BY <2>2 DEF StartTask
    <3>2. u # t
      BY <3>1 DEF IInv, TableOK, Agrees, Terminal
    <3>3. task'[u] \in {Unused, task[u]}
      BY <2>2, <3>2 DEF StartTask, IInv, TableOK
    <3>4. QED
      BY <3>3 DEF Unused
  <2>3. CASE StopTask(t) \/ DeleteTask(t)
    BY <2>3 DEF StopTask, DeleteTask, IInv, TableOK, Active, Terminal, Unused
  <2>4. CASE Thread(t)
    <3>1. CASE Begin(t) \/ Runner(t) \/ LastLook(t)
      BY <3>1 DEF Begin, Runner, RunnerReturns, RunnerRaises, RunnerCancels, LastLook
    <3>2. CASE CallRunner(t)
      BY <3>2 DEF CallRunner, Updated, IInv, TableOK, Terminal
    <3>3. CASE Finish(t)
      BY <3>3 DEF Finish, Goto, Updated, IInv, TableOK, Agrees, Terminal, Active
    <3>4. QED
      BY <2>4, <3>1, <3>2, <3>3 DEF Thread
  <2>5. QED
    BY <2>1, <2>2, <2>3, <2>4
<1>2. QED
  BY <1>1, Inductive, PTL DEF Spec, OutcomeIsFinal

(* A task that may still run is never dropped from the table.              *)
THEOREM ActiveTasksAreKept == Spec => ActiveIsKept
<1> DEFINE Kept(t) == task[t].status \in Active => task'[t].status # "absent"
<1>1. IInv /\ [Next]_vars => [\A t \in TaskId : Kept(t)]_vars
  <2> SUFFICES ASSUME IInv, Next, NEW u \in TaskId, task[u].status \in Active
               PROVE  task'[u].status # "absent"
    BY DEF Next
  <2>1. PICK t \in TaskId : StartTask(t) \/ StopTask(t) \/ DeleteTask(t) \/ Thread(t)
    BY DEF Next
  <2>2. CASE StartTask(t)
    <3> DEFINE added == [task EXCEPT ![t] = [status |-> "queued", cancel |-> FALSE]]
               gone == Trimmed(added, Append(order, t))
    <3>1. task'[u] = IF u \in gone THEN Unused ELSE added[u]
      BY <2>2 DEF StartTask
    <3>2. added[u].status \in Active
      BY DEF IInv, TableOK, Active
    <3>3. u \notin gone
      BY <3>2 DEF Trimmed, Active, Terminal
    <3>4. QED
      BY <3>1, <3>2, <3>3 DEF Active
  <2>3. CASE StopTask(t) \/ DeleteTask(t)
    BY <2>3 DEF StopTask, DeleteTask, IInv, TableOK, Active, Terminal, Unused
  <2>4. CASE Thread(t)
    <3>1. CASE Begin(t) \/ Runner(t) \/ LastLook(t)
      BY <3>1 DEF Begin, Runner, RunnerReturns, RunnerRaises, RunnerCancels, LastLook, Active
    <3>2. CASE CallRunner(t) \/ Finish(t)
      BY <3>2 DEF CallRunner, Finish, Updated, IInv, TableOK, Active
    <3>3. QED
      BY <2>4, <3>1, <3>2 DEF Thread
  <2>5. QED
    BY <2>1, <2>2, <2>3, <2>4
<1>2. QED
  BY <1>1, Inductive, PTL DEF Spec, ActiveIsKept

-----------------------------------------------------------------------------
(* The order list.                                                         *)

(* The places where the tasks that stay were, and what Without makes of it.*)
Places(ids, gone, pos) ==
  LET rest == Without(ids, gone)
  IN  /\ rest \in Seq(TaskId) /\ DOMAIN rest = 1 .. Len(rest) /\ Len(rest) \in Nat
      /\ pos \in [1 .. Len(rest) -> 1 .. Len(ids)]
      /\ \A n \in 1 .. Len(rest) : rest[n] = ids[pos[n]] /\ ids[pos[n]] \notin gone
      /\ \A m, n \in 1 .. Len(rest) : pos[m] = pos[n] => m = n
      /\ \A i \in 1 .. Len(ids) : ids[i] \notin gone => \E n \in 1 .. Len(rest) : pos[n] = i
      /\ \A n \in 1 .. Len(rest) : Len(rest) - n <= Len(ids) - pos[n]

LEMMA Remainder ==
  ASSUME NEW S, IsFiniteSet(S), NEW T \in SUBSET S
  PROVE  Cardinality(S \ T) = Cardinality(S) - Cardinality(T)
<1>1. Cardinality(S \ T) = Cardinality(S) - Cardinality(S \cap T)
  BY FS_Difference
<1>2. S \cap T = T
  OBVIOUS
<1> QED BY <1>1, <1>2

LEMMA WithoutKeepsPlaces ==
  ASSUME NEW ids \in Seq(TaskId), NEW gone
  PROVE  \E pos : Places(ids, gone, pos)
<1> DEFINE kept     == {i \in DOMAIN ids : ids[i] \notin gone}
           upto(i)  == {j \in kept : j <= i}
           rank     == [i \in kept |-> Cardinality(upto(i))]
           count    == Cardinality(kept)
           pos      == [n \in 1 .. count |-> CHOOSE i \in kept : rank[i] = n]
           rest     == Without(ids, gone)
<1>1. Len(ids) \in Nat /\ DOMAIN ids = 1 .. Len(ids) /\ kept \subseteq 1 .. Len(ids)
  OBVIOUS
<1>2. IsFiniteSet(kept) /\ count \in Nat
  <2> HIDE DEF kept
  <2>1. IsFiniteSet(1 .. Len(ids))
    BY <1>1, FS_Interval
  <2> QED BY <1>1, <2>1, FS_Subset, FS_CardinalityType
<1>3. ASSUME NEW i \in kept
      PROVE  rank[i] = Cardinality(upto(i)) /\ IsFiniteSet(upto(i)) /\ rank[i] \in 1 .. count
  <2>1. upto(i) \subseteq kept /\ i \in upto(i)
    BY <1>1
  <2> DEFINE u == upto(i)
  <2>2. rank[i] = Cardinality(u)
    OBVIOUS
  <2> HIDE DEF u, kept, rank
  <2>3. IsFiniteSet(u) /\ Cardinality(u) <= count /\ Cardinality(u) \in Nat
    BY <1>2, <2>1, FS_Subset, FS_CardinalityType DEF u
  <2>4. Cardinality(u) # 0
    BY <2>1, <2>3, FS_EmptySet DEF u
  <2> QED BY <1>2, <2>2, <2>3, <2>4 DEF u
<1>4. ASSUME NEW i \in kept, NEW j \in kept, i < j PROVE rank[i] < rank[j]
  <2> DEFINE u == upto(i)
             v == upto(j)
  <2>1. u \subseteq v /\ j \in v /\ j \notin u
    BY <1>1, <1>4
  <2>2. rank[i] = Cardinality(u) /\ rank[j] = Cardinality(v) /\ IsFiniteSet(v) /\ rank[i] \in Nat /\ rank[j] \in Nat
    <3>1. rank[i] = Cardinality(u) /\ rank[i] \in 1 .. count
      BY <1>3
    <3>2. rank[j] = Cardinality(v) /\ rank[j] \in 1 .. count /\ IsFiniteSet(v)
      BY <1>3
    <3> HIDE DEF u, v, kept, rank, count
    <3> QED BY <1>2, <3>1, <3>2
  <2> HIDE DEF u, v, kept, rank
  <2>3. Cardinality(u) <= Cardinality(v) /\ Cardinality(u) # Cardinality(v)
    BY <2>1, <2>2, FS_Subset
  <2> QED BY <2>2, <2>3
<1> HIDE DEF rank
<1>5. rank \in [kept -> 1 .. count] /\ \A i, j \in kept : rank[i] = rank[j] => i = j
  <2>1. \A i \in kept : rank[i] \in 1 .. count
    BY <1>3
  <2>2. rank \in [kept -> 1 .. count]
    BY <2>1 DEF rank
  <2>3. ASSUME NEW i \in kept, NEW j \in kept, rank[i] = rank[j] PROVE i = j
    <3>1. i \in Nat /\ j \in Nat
      BY <1>1
    <3>2. rank[i] \in Nat /\ rank[j] \in Nat
      BY <1>2, <2>1
    <3> HIDE DEF kept
    <3>3. ~(i < j) /\ ~(j < i)
      BY <1>4, <2>3, <3>2
    <3> QED BY <3>1, <3>3
  <2> QED BY <2>2, <2>3
<1> HIDE DEF kept
<1>6. \A n \in 1 .. count : \E i \in kept : rank[i] = n
  <2>1. rank \in Injection(kept, 1 .. count)
    BY <1>5 DEF Injection, IsInjective
  <2>2. IsFiniteSet(1 .. count) /\ Cardinality(1 .. count) = count
    BY <1>2, FS_Interval
  <2>3. rank \in Surjection(kept, 1 .. count)
    BY <2>1, <2>2, FS_Injection
  <2> QED BY <2>3 DEF Surjection
<1>7. \A n \in 1 .. count : pos[n] \in kept /\ rank[pos[n]] = n
  BY <1>6
<1> HIDE DEF pos
<1>8. rest = [n \in 1 .. count |-> ids[pos[n]]]
  <2>1. \A i \in kept : rank[i] = Cardinality({j \in kept : j <= i})
    BY <1>3
  <2>2. \A n \in 1 .. count : (CHOOSE i \in kept : rank[i] = n) = (CHOOSE i \in kept : Cardinality({j \in kept : j <= i}) = n)
    BY <2>1
  <2>3. \A n \in 1 .. count : pos[n] = CHOOSE i \in kept : Cardinality({j \in kept : j <= i}) = n
    BY <2>2 DEF pos
  <2>4. rest = [n \in 1 .. count |-> ids[CHOOSE i \in kept : Cardinality({j \in kept : j <= i}) = n]]
    BY DEF Without, kept
  <2> QED BY <2>3, <2>4
<1>9. \A n \in 1 .. count : pos[n] \in 1 .. Len(ids) /\ ids[pos[n]] \in TaskId /\ ids[pos[n]] \notin gone
  BY <1>1, <1>7 DEF kept
<1>10. rest \in Seq(TaskId) /\ Len(rest) = count /\ DOMAIN rest = 1 .. count
       /\ \A n \in 1 .. count : rest[n] = ids[pos[n]]
  <2>1. rest \in [1 .. count -> TaskId] /\ \A n \in 1 .. count : rest[n] = ids[pos[n]]
    BY <1>8, <1>9
  <2> HIDE DEF rest
  <2> QED BY <1>2, <2>1
<1> HIDE DEF rest
<1>11. \A i \in 1 .. Len(ids) : ids[i] \notin gone => \E n \in 1 .. count : pos[n] = i
  <2> SUFFICES ASSUME NEW i \in kept PROVE pos[rank[i]] = i /\ rank[i] \in 1 .. count
    BY <1>1 DEF kept
  <2>1. rank[i] \in 1 .. count
    BY <1>5
  <2> QED BY <1>5, <1>7, <2>1
<1>12. ASSUME NEW n \in 1 .. count PROVE count - n <= Len(ids) - pos[n]
  <2> DEFINE u == upto(pos[n])
             w == kept \ u
             after == (pos[n] + 1) .. Len(ids)
  <2>1. n = Cardinality(u) /\ IsFiniteSet(u) /\ u \subseteq kept
    BY <1>3, <1>7
  <2>2. w \subseteq after
    <3> SUFFICES ASSUME NEW j \in kept, ~(j <= pos[n]) PROVE j \in after
      OBVIOUS
    <3>1. j \in 1 .. Len(ids) /\ pos[n] \in 1 .. Len(ids)
      BY <1>1, <1>9
    <3> QED BY <1>1, <3>1
  <2>3. pos[n] \in 1 .. Len(ids)
    BY <1>9
  <2>4. IsFiniteSet(after) /\ Cardinality(after) = Len(ids) - pos[n]
    <3>1. pos[n] + 1 \in Int /\ Len(ids) \in Int /\ pos[n] + 1 <= Len(ids) + 1
      BY <1>1, <2>3
    <3>2. IsFiniteSet(after) /\ Cardinality(after) = IF pos[n] + 1 > Len(ids) THEN 0 ELSE Len(ids) - (pos[n] + 1) + 1
      BY <3>1, FS_Interval
    <3> QED BY <1>1, <2>3, <3>2
  <2> HIDE DEF u, after
  <2>5. Cardinality(w) = count - n
    BY <1>2, <2>1, Remainder
  <2> HIDE DEF w
  <2> QED BY <2>2, <2>4, <2>5, FS_Subset
<1>13. \A m, n \in 1 .. count : pos[m] = pos[n] => m = n
  BY <1>7
<1>14. pos \in [1 .. count -> 1 .. Len(ids)]
  BY <1>9 DEF pos
<1> HIDE DEF count
<1> QED
  BY <1>2, <1>9, <1>10, <1>11, <1>12, <1>13, <1>14 DEF Places, rest

(* A list holds the tasks of a table, each once.                           *)
Holds(ids, table) ==
  /\ ids \in Seq(TaskId)
  /\ \A i \in 1 .. Len(ids) : table[ids[i]].status # "absent"
  /\ \A t \in TaskId : table[t].status # "absent" => \E i \in 1 .. Len(ids) : ids[i] = t
  /\ \A i, j \in 1 .. Len(ids) : ids[i] = ids[j] => i = j

LEMMA HoldsWithout ==
  ASSUME NEW ids, NEW table, Holds(ids, table), NEW gone, NEW new,
         \A t \in TaskId : new[t].status # "absent" <=> table[t].status # "absent" /\ t \notin gone
  PROVE  Holds(Without(ids, gone), new)
<1> DEFINE rest == Without(ids, gone)
<1>1. ids \in Seq(TaskId) /\ \A i \in 1 .. Len(ids) : ids[i] \in TaskId
  BY DEF Holds
<1>2. PICK pos : Places(ids, gone, pos)
  BY <1>1, WithoutKeepsPlaces
<1> HIDE DEF rest
<1>3. /\ rest \in Seq(TaskId) /\ pos \in [1 .. Len(rest) -> 1 .. Len(ids)]
      /\ \A n \in 1 .. Len(rest) : rest[n] = ids[pos[n]] /\ ids[pos[n]] \notin gone
      /\ \A m, n \in 1 .. Len(rest) : pos[m] = pos[n] => m = n
      /\ \A i \in 1 .. Len(ids) : ids[i] \notin gone => \E n \in 1 .. Len(rest) : pos[n] = i
  BY <1>2 DEF Places, rest
<1>4. ASSUME NEW n \in 1 .. Len(rest) PROVE new[rest[n]].status # "absent"
  <2>1. /\ pos[n] \in 1 .. Len(ids) /\ rest[n] = ids[pos[n]] /\ ids[pos[n]] \notin gone
        /\ ids[pos[n]] \in TaskId
    BY <1>1, <1>3
  <2>2. table[ids[pos[n]]].status # "absent"
    BY <2>1 DEF Holds
  <2> QED BY <2>1, <2>2
<1>5. ASSUME NEW t \in TaskId, new[t].status # "absent" PROVE \E n \in 1 .. Len(rest) : rest[n] = t
  <2>1. PICK i \in 1 .. Len(ids) : ids[i] = t /\ ids[i] \notin gone
    BY <1>5 DEF Holds
  <2> QED BY <1>3, <2>1
<1>6. ASSUME NEW m \in 1 .. Len(rest), NEW n \in 1 .. Len(rest), rest[m] = rest[n] PROVE m = n
  <2>1. pos[m] \in 1 .. Len(ids) /\ pos[n] \in 1 .. Len(ids) /\ ids[pos[m]] = ids[pos[n]]
    BY <1>3, <1>6
  <2> QED BY <1>3, <2>1 DEF Holds
<1>7. Holds(rest, new)
  BY <1>3, <1>4, <1>5, <1>6 DEF Holds
<1> QED BY <1>7 DEF rest

LEMMA HoldsAppended ==
  ASSUME NEW ids, NEW table, Holds(ids, table), NEW t \in TaskId, table[t].status = "absent", NEW new,
         new[t].status # "absent", \A u \in TaskId \ {t} : new[u] = table[u]
  PROVE  Holds(Append(ids, t), new)
<1> DEFINE more == Append(ids, t)
<1>1. ids \in Seq(TaskId) /\ Len(ids) \in Nat /\ \A i \in 1 .. Len(ids) : ids[i] \in TaskId /\ ids[i] # t
  BY DEF Holds
<1>2. /\ more \in Seq(TaskId) /\ Len(more) = Len(ids) + 1 /\ more[Len(ids) + 1] = t
      /\ \A i \in 1 .. Len(ids) : more[i] = ids[i]
  BY <1>1, AppendProperties
<1> HIDE DEF more
<1>3. \A i \in 1 .. Len(more) : i = Len(ids) + 1 \/ i \in 1 .. Len(ids)
  BY <1>1, <1>2
<1>4. \A i \in 1 .. Len(more) : new[more[i]].status # "absent"
  BY <1>1, <1>2, <1>3 DEF Holds
<1>5. \A u \in TaskId : new[u].status # "absent" => \E i \in 1 .. Len(more) : more[i] = u
  <2> SUFFICES ASSUME NEW u \in TaskId, new[u].status # "absent", u # t
               PROVE  \E i \in 1 .. Len(more) : more[i] = u
    BY <1>1, <1>2
  <2>1. PICK i \in 1 .. Len(ids) : ids[i] = u
    BY DEF Holds
  <2> QED BY <1>1, <1>2, <2>1
<1>6. \A i, j \in 1 .. Len(more) : more[i] = more[j] => i = j
  BY <1>1, <1>2, <1>3 DEF Holds
<1>7. Holds(more, new)
  BY <1>2, <1>4, <1>5, <1>6 DEF Holds
<1> QED BY <1>7 DEF more

TableInv == IInv /\ Holds(order, task)

(* start_task: what the list is before the trim, and after it.             *)
LEMMA StartTaskTrims ==
  ASSUME TableInv, NEW t \in TaskId, StartTask(t)
  PROVE  LET added == [task EXCEPT ![t] = [status |-> "queued", cancel |-> FALSE]]
             ids   == Append(order, t)
             gone  == Trimmed(added, ids)
         IN  /\ Holds(ids, added) /\ Holds(order', task') /\ order' = Without(ids, gone)
             /\ \A u \in TaskId : added[u].status \in Status
             /\ \A u \in TaskId : u \notin gone => task'[u] = added[u]
<1> DEFINE new   == [status |-> "queued", cancel |-> FALSE]
           added == [task EXCEPT ![t] = new]
           ids   == Append(order, t)
           gone  == Trimmed(added, ids)
<1>1. /\ pc[t] = "idle" /\ order' = Without(ids, gone)
      /\ task' = [u \in TaskId |-> IF u \in gone THEN Unused ELSE added[u]]
  BY DEF StartTask
<1>2. task[t].status = "absent" /\ task \in [TaskId -> [status : Status, cancel : BOOLEAN]]
  BY <1>1 DEF TableInv, IInv, TableOK, Agrees
<1>3. /\ added[t].status = "queued" /\ \A u \in TaskId \ {t} : added[u] = task[u]
      /\ \A u \in TaskId : added[u].status \in Status
  BY <1>2 DEF Status, Active
<1>4. \A u \in gone : added[u].status \in Terminal
  BY DEF Trimmed
<1> HIDE DEF added, gone, ids
<1>5. Holds(ids, added)
  BY <1>2, <1>3, HoldsAppended DEF TableInv, ids
<1>6. \A u \in TaskId : task'[u].status # "absent" <=> added[u].status # "absent" /\ u \notin gone
  BY <1>1, <1>4 DEF Unused, Terminal
<1>7. Holds(order', task')
  BY <1>1, <1>5, <1>6, HoldsWithout
<1> QED
  BY <1>1, <1>3, <1>5, <1>7 DEF added, gone, ids

LEMMA TableSteps == TableInv /\ [Next]_vars => TableInv'
<1> SUFFICES ASSUME TableInv, [Next]_vars PROVE Holds(order', task')
  BY NextIInv DEF TableInv
<1> USE DEF TableInv
<1>1. ASSUME order' = order, task' \in [TaskId -> [status : Status, cancel : BOOLEAN]],
             \A u \in TaskId : task'[u].status = "absent" <=> task[u].status = "absent"
      PROVE  Holds(order', task')
  BY <1>1 DEF Holds
<1>2. task \in [TaskId -> [status : Status, cancel : BOOLEAN]]
  BY DEF IInv, TableOK
<1>3. CASE UNCHANGED vars
  BY <1>1, <1>2, <1>3 DEF vars
<1>4. ASSUME NEW t \in TaskId, StartTask(t) PROVE Holds(order', task')
  BY <1>4, StartTaskTrims
<1>5. ASSUME NEW t \in TaskId, StopTask(t) PROVE Holds(order', task')
  <2>1. task' \in [TaskId -> [status : Status, cancel : BOOLEAN]]
    BY <1>5, StopTaskIInv DEF IInv, TableOK
  <2> QED BY <1>1, <1>2, <1>5, <2>1 DEF StopTask, Active
<1>6. ASSUME NEW t \in TaskId, DeleteTask(t) PROVE Holds(order', task')
  <2> DEFINE gone == {t}
  <2>1. task' = [task EXCEPT ![t] = Unused] /\ order' = Without(order, gone)
    BY <1>6 DEF DeleteTask
  <2>2. \A u \in TaskId : task'[u].status # "absent" <=> task[u].status # "absent" /\ u \notin gone
    BY <1>2, <2>1 DEF Unused
  <2> HIDE DEF gone
  <2>3. Holds(order, task)
    OBVIOUS
  <2>4. Holds(Without(order, gone), task')
    BY ONLY <2>2, <2>3, HoldsWithout
  <2> QED BY <2>1, <2>4
<1>7. ASSUME NEW t \in TaskId, Thread(t) PROVE Holds(order', task')
  <2>1. order' = order /\ (task' = task \/ \E s \in {"running", "success", "failed", "cancelled"} : task' = Updated(t, s))
    BY <1>7 DEF Thread, Begin, CallRunner, Runner, RunnerReturns, RunnerRaises, RunnerCancels, LastLook, Finish
  <2>2. ASSUME NEW s \in {"running", "success", "failed", "cancelled"}, task' = Updated(t, s)
        PROVE  /\ task' \in [TaskId -> [status : Status, cancel : BOOLEAN]]
               /\ \A u \in TaskId : task'[u].status = "absent" <=> task[u].status = "absent"
    BY <1>2, <2>2 DEF Updated, Status, Active, Terminal
  <2> QED BY <1>1, <1>2, <2>1, <2>2
<1> QED
  BY <1>3, <1>4, <1>5, <1>6, <1>7 DEF Next

LEMMA TableInductive == Spec => []TableInv
<1>1. Init => TableInv
  <2> SUFFICES ASSUME Init PROVE Holds(order, task)
    BY InitIInv DEF TableInv
  <2>1. order = << >> /\ \A t \in TaskId : task[t].status = "absent"
    BY DEF Init, Unused
  <2>2. << >> \in Seq(TaskId) /\ Len(<< >>) = 0
    OBVIOUS
  <2> QED BY <2>1, <2>2 DEF Holds
<1> QED
  BY <1>1, TableSteps, PTL DEF Spec

(* Theorem: the table and the list of its order hold the same tasks, each  *)
(* once, after any starts, trims and deletions (_trim_unlocked and         *)
(* delete_task).                                                           *)
THEOREM TableIsAlwaysSound == Spec => []TableIsSound
<1>1. TableInv => TableIsSound
  <2> SUFFICES ASSUME TableInv PROVE TableIsSound
    OBVIOUS
  <2>1. TypeOK
    BY DEF TableInv, IInv, TableOK, TypeOK, Holds
  <2>2. OrderIsTable
    <3>1. \A i \in 1 .. Len(order) : order[i] \in TaskId
      BY DEF TableInv, Holds
    <3> QED BY <3>1 DEF TableInv, Holds, OrderIsTable
  <2> QED BY <2>1, <2>2 DEF TableIsSound
<1> QED BY <1>1, TableInductive, PTL

(* Theorem: a start leaves the table above max_tasks by active tasks only, *)
(* the oldest (_trim_unlocked).                                            *)
THEOREM ExcessIsAlwaysActive == Spec => ExcessIsActive
<1>1. TableInv /\ [Next]_vars =>
        [\A t \in TaskId : StartTask(t) =>
           \A i \in 1 .. Len(order') :
             i + MaxTasks <= Len(order') => task'[order'[i]].status \in Active]_vars
  <2> SUFFICES ASSUME TableInv, NEW t \in TaskId, StartTask(t), NEW n \in 1 .. Len(order'), n + MaxTasks <= Len(order')
               PROVE  task'[order'[n]].status \in Active
    OBVIOUS
  <2> DEFINE added == [task EXCEPT ![t] = [status |-> "queued", cancel |-> FALSE]]
             ids   == Append(order, t)
             gone  == Trimmed(added, ids)
  <2>1. /\ Holds(ids, added) /\ order' = Without(ids, gone)
        /\ \A u \in TaskId : added[u].status \in Status
        /\ \A u \in TaskId : u \notin gone => task'[u] = added[u]
    BY StartTaskTrims
  <2>2. gone = IF Len(ids) <= MaxTasks THEN {}
               ELSE {u \in {ids[i] : i \in 1 .. (Len(ids) - MaxTasks)} : added[u].status \in Terminal}
    BY DEF Trimmed
  <2> HIDE DEF added, ids, gone
  <2>3. ids \in Seq(TaskId) /\ Len(ids) \in Nat /\ MaxTasks \in Nat \ {0}
    BY <2>1, MaxTasksAssumption DEF Holds
  <2>4. PICK pos : Places(ids, gone, pos)
    BY <2>3, WithoutKeepsPlaces
  <2> DEFINE k == pos[n]
  <2>5. /\ Len(order') \in Nat /\ k \in 1 .. Len(ids) /\ order'[n] = ids[k] /\ ids[k] \notin gone
        /\ Len(order') - n <= Len(ids) - k
    BY <2>1, <2>4 DEF Places
  <2> HIDE DEF k
  <2>6. k \in 1 .. (Len(ids) - MaxTasks) /\ ~(Len(ids) <= MaxTasks)
    BY <2>3, <2>5
  <2>7. added[ids[k]].status \notin Terminal
    BY <2>2, <2>5, <2>6
  <2>8. ids[k] \in TaskId /\ added[ids[k]].status # "absent"
    BY <2>1, <2>3, <2>5 DEF Holds
  <2>9. task'[ids[k]] = added[ids[k]] /\ added[ids[k]].status \in Status
    BY <2>1, <2>5, <2>8
  <2> QED BY <2>5, <2>7, <2>8, <2>9 DEF Status
<1> QED
  BY <1>1, TableInductive, PTL DEF Spec, ExcessIsActive

-----------------------------------------------------------------------------
(* The refinement: what each step does to the lives of the tasks.          *)

(* A step that changes the entry or the thread of one task only.           *)
LEMMA OneLife ==
  ASSUME NEW t \in TaskId, TableOK, TableOK',
         \A u \in TaskId : u # t => task'[u] = task[u] /\ pc'[u] = pc[u]
  PROVE  TaskLife' = [TaskLife EXCEPT ![t] = LifeAt(task'[t], pc'[t])]
BY DEF TaskLife

(* start_task queues one task and forgets those it trims.                  *)
LEMMA StartTaskStarts ==
  ASSUME IInv, NEW t \in TaskId, StartTask(t)
  PROVE  Lifecycle!Start(t)
<1> DEFINE new   == [status |-> "queued", cancel |-> FALSE]
           added == [task EXCEPT ![t] = new]
           all   == Trimmed(added, Append(order, t))
           gone  == {u \in TaskId : u \in all}
<1>1. /\ pc[t] = "idle" /\ pc' = [pc EXCEPT ![t] = "ready"]
      /\ task' = [u \in TaskId |-> IF u \in all THEN Unused ELSE added[u]]
  BY DEF StartTask
<1>2. \A u \in gone : added[u].status \in Terminal
  BY DEF Trimmed
<1>3. ASSUME NEW u \in gone
      PROVE  /\ u # t /\ task[u].status \in Terminal
             /\ pc[u] # "idle" /\ pc'[u] = pc[u] /\ task'[u] = Unused
  <2>1. u # t /\ added[u] = task[u]
    BY <1>2 DEF IInv, TableOK, Terminal
  <2>2. task[u].status \in Terminal
    BY <1>2, <2>1
  <2>3. pc[u] # "idle"
    BY <2>2 DEF IInv, Agrees, Terminal
  <2>4. QED
    BY <1>1, <2>1, <2>2, <2>3 DEF IInv, TableOK
<1>4. TaskLife[t].phase = "none"
  BY <1>1 DEF IInv, Agrees, TaskLife, LifeAt
<1>5. gone \in SUBSET {u \in TaskId : TaskLife[u].phase \in Lifecycle!Ended}
  BY <1>3 DEF TaskLife, LifeAt, Lifecycle!Ended, Terminal
<1>6. ASSUME NEW u \in TaskId
      PROVE  LifeAt(task'[u], pc'[u]) =
               IF u = t THEN Lifecycle!At("queued")
               ELSE IF u \in gone THEN Lifecycle!At("gone") ELSE TaskLife[u]
  <2>1. CASE u = t
    <3>1. task'[u] = new
      BY <1>1, <1>3, <2>1 DEF IInv, TableOK
    <3>2. QED
      BY <3>1, <2>1 DEF LifeAt, Lifecycle!At
  <2>2. CASE u # t /\ u \in gone
    <3>1. task'[u].status = "absent" /\ task'[u].cancel = FALSE /\ pc'[u] # "idle"
      BY <1>3, <2>2 DEF Unused
    <3>2. LifeAt(task'[u], pc'[u]) = Lifecycle!At("gone")
      BY <3>1 DEF LifeAt, Lifecycle!At
    <3>3. QED
      BY <2>2, <3>2
  <2>3. CASE u # t /\ u \notin gone
    <3>1. task'[u] = task[u] /\ pc'[u] = pc[u]
      BY <1>1, <2>3 DEF IInv, TableOK
    <3>2. QED
      BY <3>1, <2>3 DEF TaskLife
  <2>4. QED
    BY <2>1, <2>2, <2>3
<1>7. TaskLife' = [u \in TaskId |->
                     IF u = t THEN Lifecycle!At("queued")
                     ELSE IF u \in gone THEN Lifecycle!At("gone") ELSE TaskLife[u]]
  <2> HIDE DEF gone
  <2> QED
    BY <1>6 DEF TaskLife
<1>8. QED
  BY <1>4, <1>5, <1>7 DEF Lifecycle!Start

(* stop_task asks, and delete_task forgets.                                *)
LEMMA StopTaskAsks ==
  ASSUME IInv, IInv', NEW t \in TaskId, StopTask(t)
  PROVE  Lifecycle!AskToStop(t)
<1>1. /\ task[t].status \in Active /\ pc' = pc
      /\ \A u \in TaskId : u # t => task'[u] = task[u]
      /\ task'[t].status = IF task[t].status = "queued" THEN "cancelled" ELSE task[t].status
      /\ task'[t].cancel = TRUE
  BY DEF StopTask, IInv, TableOK
<1>2. TaskLife' = [TaskLife EXCEPT ![t] = LifeAt(task'[t], pc'[t])]
  BY <1>1, OneLife DEF IInv
<1>3. TaskLife[t].phase = task[t].status
  BY <1>1 DEF TaskLife, LifeAt, Active
<1>4. CASE task[t].status = "queued"
  BY <1>1, <1>2, <1>3, <1>4 DEF Lifecycle!AskToStop, LifeAt
<1>5. CASE task[t].status = "running"
  <2>1. LifeAt(task'[t], pc'[t]) = [phase |-> "running", asked |-> TRUE]
    BY <1>1, <1>5 DEF LifeAt
  <2>2. QED
    BY <1>2, <1>3, <1>5, <2>1 DEF Lifecycle!AskToStop
<1>6. QED
  BY <1>1, <1>4, <1>5 DEF Active

LEMMA DeleteTaskForgets ==
  ASSUME IInv, IInv', NEW t \in TaskId, DeleteTask(t)
  PROVE  Lifecycle!Forget(t)
<1>1. /\ task[t].status \in Terminal /\ pc' = pc /\ task'[t] = Unused
      /\ \A u \in TaskId : u # t => task'[u] = task[u]
  BY DEF DeleteTask, IInv, TableOK
<1>2. TaskLife' = [TaskLife EXCEPT ![t] = LifeAt(task'[t], pc'[t])]
  BY <1>1, OneLife DEF IInv
<1>3. TaskLife[t].phase \in Lifecycle!Ended
  BY <1>1 DEF TaskLife, LifeAt, Terminal, Lifecycle!Ended
<1>4. pc[t] # "idle"
  BY <1>1 DEF IInv, Agrees, Terminal
<1>5. LifeAt(task'[t], pc'[t]) = Lifecycle!At("gone")
  BY <1>1, <1>4 DEF LifeAt, Unused, Lifecycle!At
<1>6. QED
  BY <1>2, <1>3, <1>5 DEF Lifecycle!Forget

(* A look at the flag, and the runner, change nobody's life.               *)
LEMMA LookIsSilent ==
  ASSUME IInv, IInv', NEW t \in TaskId, Begin(t) \/ Runner(t) \/ LastLook(t)
  PROVE  TaskLife' = TaskLife
<1>1. /\ task' = task /\ pc[t] # "idle" /\ pc'[t] # "idle"
      /\ \A u \in TaskId : u # t => pc'[u] = pc[u]
  BY DEF Begin, Runner, RunnerReturns, RunnerRaises, RunnerCancels, LastLook, Goto, IInv, TableOK
<1>2. \A u \in TaskId : LifeAt(task'[u], pc'[u]) = LifeAt(task[u], pc[u])
  BY <1>1 DEF LifeAt
<1>3. QED
  BY <1>2 DEF TaskLife

(* The update to running starts a queued task, and the final one ends a    *)
(* running one; of one that was cancelled or is gone they change nothing.  *)
LEMMA WriteRunsOrEnds ==
  ASSUME IInv, IInv', NEW t \in TaskId, CallRunner(t) \/ Finish(t)
  PROVE  \/ Lifecycle!Run(t)
         \/ \E outcome \in Lifecycle!Ended : Lifecycle!End(t, outcome)
         \/ TaskLife' = TaskLife
<1>1. PICK s \in {"running", "success", "failed", "cancelled"} :
        /\ task' = Updated(t, s)
        /\ s = "running" => pc[t] = "begin" /\ pc'[t] = "running"
        /\ s = "success" => pc[t] = "end_success" /\ pc'[t] = "done"
        /\ s = "failed" => pc[t] = "end_failed" /\ pc'[t] = "done"
        /\ s = "cancelled" => pc[t] = "end_cancelled" /\ pc'[t] = "done"
  BY DEF Goto, CallRunner, Finish, IInv, TableOK
<1>2. pc[t] # "idle" /\ pc'[t] # "idle" /\ \A u \in TaskId : u # t => pc'[u] = pc[u]
  BY <1>1 DEF Goto, CallRunner, Finish, IInv, TableOK
<1>3. CASE task' = task
  <2>1. \A u \in TaskId : LifeAt(task'[u], pc'[u]) = LifeAt(task[u], pc[u])
    BY <1>2, <1>3 DEF LifeAt
  <2>2. QED
    BY <2>1 DEF TaskLife
<1>4. CASE task' # task
  <2>1. /\ task' = [task EXCEPT ![t].status = s]
        /\ task[t].status # "absent" /\ ~(task[t].status \in Terminal /\ s \notin Terminal)
    BY <1>1, <1>4 DEF Updated
  <2>2. /\ \A u \in TaskId : u # t => task'[u] = task[u]
        /\ task'[t] = [task[t] EXCEPT !.status = s]
    BY <2>1 DEF IInv, TableOK
  <2>3. task'[t].status = s /\ task'[t].cancel = task[t].cancel
    BY <2>2 DEF IInv, TableOK
  <2>4. task[t].status # s
    <3>1. ASSUME task[t].status = s PROVE FALSE
      <4>1. task[t] = [task[t] EXCEPT !.status = s]
        BY <3>1 DEF IInv, TableOK
      <4>2. task' = task
        BY <2>1, <4>1 DEF IInv, TableOK
      <4>3. QED
        BY <4>2, <1>4
    <3>2. QED
      BY <3>1
  <2>5. TaskLife' = [TaskLife EXCEPT ![t] = LifeAt(task'[t], pc'[t])]
    BY <1>2, <2>2, OneLife DEF IInv
  <2>6. TaskLife[t] = [phase |-> task[t].status, asked |-> task[t].cancel]
    BY <2>1 DEF TaskLife, LifeAt
  <2>7. LifeAt(task'[t], pc'[t]) = [TaskLife[t] EXCEPT !.phase = s]
    BY <2>3, <2>6 DEF LifeAt
  <2>8. CASE s = "running"
    <3>1. task[t].status = "queued"
      BY <1>1, <2>1, <2>4, <2>8 DEF IInv, Agrees, Terminal
    <3>2. QED
      BY <3>1, <2>5, <2>6, <2>7, <2>8 DEF Lifecycle!Run
  <2>9. CASE s # "running"
    <3>1. s \in Lifecycle!Ended
      BY <2>9 DEF Lifecycle!Ended
    <3>2. task[t].status = "running" /\ (s = "cancelled" => task[t].cancel)
      BY <1>1, <2>1, <2>4, <2>9 DEF IInv, Agrees, Terminal
    <3>3. Lifecycle!End(t, s)
      BY <3>2, <2>5, <2>6, <2>7 DEF Lifecycle!End
    <3>4. QED
      BY <3>1, <3>3
  <2>10. QED
    BY <2>8, <2>9
<1>5. QED
  BY <1>3, <1>4

(* TaskManager implements TaskLifecycle: whatever threads, stops, trims    *)
(* and deletions overlap, each task is seen to live one life.              *)
THEOREM TaskManagerImplementsLifecycle == Spec => LifecycleSpec
<1>1. Init => Lifecycle!LifeInit
  BY DEF Init, Unused, TaskLife, LifeAt, Lifecycle!LifeInit, Lifecycle!At
<1>2. IInv /\ IInv' /\ [Next]_vars => [Lifecycle!LifeNext]_TaskLife
  <2> SUFFICES ASSUME IInv, IInv', [Next]_vars
               PROVE  Lifecycle!LifeNext \/ TaskLife' = TaskLife
    OBVIOUS
  <2>1. CASE UNCHANGED vars
    BY <2>1 DEF vars, TaskLife
  <2>2. ASSUME NEW t \in TaskId, StartTask(t) \/ StopTask(t) \/ DeleteTask(t)
        PROVE  Lifecycle!LifeNext
    BY <2>2, StartTaskStarts, StopTaskAsks, DeleteTaskForgets DEF Lifecycle!LifeNext
  <2>3. ASSUME NEW t \in TaskId, Thread(t)
        PROVE  Lifecycle!LifeNext \/ TaskLife' = TaskLife
    <3>1. CASE Begin(t) \/ Runner(t) \/ LastLook(t)
      BY <3>1, LookIsSilent
    <3>2. CASE CallRunner(t) \/ Finish(t)
      BY <3>2, WriteRunsOrEnds DEF Lifecycle!LifeNext
    <3>3. QED
      BY <2>3, <3>1, <3>2 DEF Thread
  <2>4. QED
    BY <2>1, <2>2, <2>3 DEF Next
<1>3. QED
  BY <1>1, <1>2, Inductive, PTL DEF Spec, LifecycleSpec, Lifecycle!LifeSpec
=============================================================================
