--------------------------- MODULE SingBoxBackend ---------------------------
(***************************************************************************)
(* The sing-box processes of proxypool/backend/singbox_manager.py.         *)
(*                                                                         *)
(* Each named instance has a Popen in _processes, a row in                 *)
(* backend_instances and a port of its own; _process is a second reference *)
(* to the process of the instance "default", the only one that the health  *)
(* loop of api/app.py watches.  start and stop hold the manager's lock,    *)
(* and write the row under it; everything else is built of such steps and  *)
(* of unlocked reads and writes of the row.  They run in three places: the *)
(* event loop (the handlers that call the manager directly), a worker      *)
(* thread (the *_async wrappers) and the health loop's thread.             *)
(***************************************************************************)
EXTENDS Integers, Sequences, FiniteSets

CONSTANTS
  Instances,        \* the instance ids, Default among them
  Default,          \* "default"
  MaxRestarts,      \* auto_restart_max
  MaxProcs          \* bound: pids; without a fresh one Popen fails

VARIABLES
  children,         \* the sing-box processes, by pid
  processes,        \* _processes: the pid of an instance's Popen
  process,          \* _process
  instanceRows,     \* backend_instances
  attempts,         \* _auto_restart_attempts
  todo,             \* what the loop and the worker have still to do
  health            \* where the health loop stands

vars == <<children, processes, process, instanceRows, attempts, todo, health>>

Procs   == 1 .. MaxProcs
NoProc  == 0
Threads == {"loop", "worker"}

(* A process answers on its port, or holds it and does not; an exited one  *)
(* is a zombie until its exit status is asked for.                         *)
Child   == [state : {"none", "up", "deaf", "zombie"}, instance : Instances]
NoChild == [state |-> "none", instance |-> Default]
RowOf   == [status : {"none", "stopped", "running", "failed", "exited"}, pid : Procs \cup {NoProc}]
NoRow   == [status |-> "none", pid |-> NoProc]

TypeOK ==
  /\ children \in [Procs -> Child]
  /\ processes \in [Instances -> Procs \cup {NoProc}]
  /\ process \in Procs \cup {NoProc}
  /\ instanceRows \in [Instances -> RowOf]
  /\ attempts \in 0 .. MaxRestarts
  /\ \A t \in Threads : Len(todo[t]) <= 3
  /\ health \in {"sleeping", "probing", "restarting"}

(* The application starts, perhaps after one that ended, however it ended:  *)
(* nothing stops the processes then, and the rows are as they were.         *)
Init ==
  /\ \E left \in SUBSET Instances :
       \E pids \in {f \in [left -> Procs] : \A i, j \in left : f[i] = f[j] => i = j} :
         /\ children = [n \in Procs |->
                          IF \E i \in left : pids[i] = n
                          THEN [state |-> "up", instance |-> CHOOSE i \in left : pids[i] = n]
                          ELSE NoChild]
         /\ instanceRows \in [Instances -> {NoRow, [status |-> "running", pid |-> 1]}]
  /\ processes = [i \in Instances |-> NoProc] /\ process = NoProc
  /\ attempts = 0
  /\ todo = [t \in Threads |-> <<>>] /\ health = "sleeping"

Running(n) == n # NoProc /\ children[n].state \in {"up", "deaf"}

(* os.kill(pid, 0): a zombie takes it.                                      *)
Exists(n) == n # NoProc /\ children[n].state # "none"

(* poll() of a Popen that has exited reaps it.                              *)
Reaped(n) == IF n # NoProc /\ ~Running(n) THEN [children EXCEPT ![n] = NoChild] ELSE children

Fresh == {n \in Procs : /\ children[n] = NoChild /\ n # process
                        /\ \A i \in Instances : n \notin {processes[i], instanceRows[i].pid}}

-----------------------------------------------------------------------------
(* start_instance and stop_instance, under the lock.                        *)

(* Mutant: the ports are not looked at before the process is started.       *)
PortAvailable_Assumed(i) == TRUE

(* _assert_inbound_ports_available: nobody holds the instance's port.       *)
PortAvailable(i) == \A n \in Procs : Running(n) => children[n].instance # i

ForgetDefault(i) == process' = IF i = Default THEN NoProc ELSE process

(* The except branch: the port is taken, the binary or a proxy is missing,  *)
(* or the process did not open its ports in four seconds and is stopped.    *)
StartFails(i) ==
  /\ ~Running(processes[i])
  /\ children' = Reaped(processes[i])
  /\ processes' = [processes EXCEPT ![i] = NoProc]
  /\ ForgetDefault(i)
  /\ instanceRows' = [instanceRows EXCEPT ![i] = [status |-> "failed", pid |-> NoProc]]
  /\ UNCHANGED attempts

StartSucceeds(i, n) ==
  /\ ~Running(processes[i]) /\ PortAvailable(i) /\ n \in Fresh
  /\ children' = [Reaped(processes[i]) EXCEPT ![n] = [state |-> "up", instance |-> i]]
  /\ processes' = [processes EXCEPT ![i] = n]
  /\ process' = IF i = Default THEN n ELSE process
  /\ instanceRows' = [instanceRows EXCEPT ![i] = [status |-> "running", pid |-> n]]
  /\ attempts' = 0

(* The instance runs already: start returns before it looks at the routes.  *)
StartReturns(i) ==
  Running(processes[i]) /\ UNCHANGED <<children, processes, process, instanceRows, attempts>>

StartInstance(i) ==
  StartReturns(i) \/ StartFails(i) \/ \E n \in Fresh : StartSucceeds(i, n)

(* update_backend_instance_status changes a row and never makes one.        *)
RowStatus(i, status, n) ==
  instanceRows' = IF instanceRows[i].status = "none" THEN instanceRows
                  ELSE [instanceRows EXCEPT ![i] = [status |-> status, pid |-> n]]

StopInstance(i) ==
  LET n == processes[i]
  IN  /\ children' = IF n = NoProc THEN children ELSE [children EXCEPT ![n] = NoChild]
      /\ processes' = [processes EXCEPT ![i] = NoProc]
      /\ ForgetDefault(i)
      /\ attempts' = IF Running(n) THEN 0 ELSE attempts
      /\ RowStatus(i, IF n # NoProc /\ ~Running(n) THEN "exited" ELSE "stopped", n)

(* is_running: a process that has exited is forgotten in _process alone.    *)
IsRunning ==
  /\ process' = IF Running(process) THEN process ELSE NoProc
  /\ children' = Reaped(process)

-----------------------------------------------------------------------------
(* The requests, as the steps a thread has to take.                         *)

Do(op, i)      == [op |-> op, instance |-> i, status |-> "none", pid |-> NoProc]
Write(i, s, n) == [op |-> "write", instance |-> i, status |-> s, pid |-> n]

Request(t, steps) == todo[t] = <<>> /\ todo' = [todo EXCEPT ![t] = steps]
Requests ==
  /\ \E i \in Instances :
       \/ Request("worker", <<Do("start", i)>>) \/ Request("worker", <<Do("stop", i)>>)
       \/ i = Default /\ Request("worker", <<Do("stop", i), Do("start", i)>>)
       \/ Request("loop", <<Do("create", i)>>) \/ Request("loop", <<Do("list", i)>>)
       \/ Request("loop", <<Do("stop", i), Do("delete", i)>>)
       \/ Request("loop", <<Do("read", i), Do("stop", i), Do("start", i)>>)
       \/ Request("loop", <<Do("read", i)>>)
       \/ i = Default /\ Request("loop", <<Do("running", i)>>)
  /\ UNCHANGED <<children, processes, process, instanceRows, attempts, health>>

Next1(t)       == todo' = [todo EXCEPT ![t] = Tail(@)]
Instead(t, ss) == todo' = [todo EXCEPT ![t] = ss]
NoProcess      == UNCHANGED <<children, processes, process, attempts>>

(* create_instance makes a stopped row, or writes an existing one back.     *)
Create(t, i) ==
  /\ instanceRows' = [instanceRows EXCEPT ![i].status = IF @ = "none" THEN "stopped" ELSE @]
  /\ NoProcess /\ Next1(t)

Delete(t, i) ==
  instanceRows' = [instanceRows EXCEPT ![i] = NoRow] /\ NoProcess /\ Next1(t)

(* set_instance_routes reads the row and writes its status and pid back     *)
(* with the new ports; it restarts what ran when it looked.                 *)
ReadRow(t, i) ==
  LET row    == instanceRows[i]
      status == IF row.status = "none" THEN "stopped" ELSE row.status
      ran    == row.status = "running" \/ Running(processes[i])
      rest   == IF ran THEN Tail(todo[t]) ELSE <<>>
  IN  /\ Instead(t, <<Write(i, status, row.pid)>> \o rest)
      /\ UNCHANGED <<children, processes, process, attempts, instanceRows>>

(* list_instances finds a row that says running without a process, and      *)
(* marks it in a second statement.                                          *)
ListRows(t, i) ==
  LET row == instanceRows[i]
  IN  /\ IF row.status = "running" /\ ~Exists(row.pid)
         THEN Instead(t, <<Write(i, "exited", row.pid)>>) ELSE Next1(t)
      /\ UNCHANGED <<children, processes, process, attempts, instanceRows>>

WriteRow(t, step) ==
  /\ instanceRows' = [instanceRows EXCEPT ![step.instance] =
                        IF step.status = "exited" /\ @.status = "none" THEN @
                        ELSE [status |-> step.status, pid |-> step.pid]]
  /\ NoProcess /\ Next1(t)

(* set_routes with auto_restart.                                            *)
RestartIfRunning(t) ==
  /\ IsRunning
  /\ IF Running(process) THEN Instead(t, <<Do("stop", Default), Do("start", Default)>>)
     ELSE Next1(t)
  /\ UNCHANGED <<processes, attempts, instanceRows>>

Step(t) ==
  LET step == Head(todo[t])
      i    == step.instance
  IN  /\ todo[t] # <<>> /\ UNCHANGED health
      /\ \/ step.op = "start"   /\ StartInstance(i) /\ Next1(t)
         \/ step.op = "stop"    /\ StopInstance(i) /\ Next1(t)
         \/ step.op = "create"  /\ Create(t, i)
         \/ step.op = "delete"  /\ Delete(t, i)
         \/ step.op = "read"    /\ ReadRow(t, i)
         \/ step.op = "list"    /\ ListRows(t, i)
         \/ step.op = "write"   /\ WriteRow(t, step)
         \/ step.op = "running" /\ RestartIfRunning(t)

-----------------------------------------------------------------------------
(* health_check of the default instance, with auto_restart and routes.      *)

(* Mutant: a restart that fails is not counted.                             *)
TryAutoRestart_Uncounted ==
  /\ health' = IF attempts < MaxRestarts THEN "restarting" ELSE "sleeping"
  /\ UNCHANGED attempts

(* Mutant: the limit is compared after it was passed.                       *)
TryAutoRestart_OneMore ==
  IF attempts <= MaxRestarts
  THEN health' = "restarting" /\ attempts' = attempts + 1
  ELSE health' = "sleeping" /\ UNCHANGED attempts

(* _try_auto_restart before it starts anything.                             *)
TryAutoRestart ==
  IF attempts < MaxRestarts
  THEN health' = "restarting" /\ attempts' = attempts + 1
  ELSE health' = "sleeping" /\ UNCHANGED attempts

(* Under the lock: the process is gone, or its ports are to be probed.      *)
HealthCheck ==
  /\ health = "sleeping"
  /\ IsRunning
  /\ IF Running(process) THEN health' = "probing" /\ UNCHANGED attempts
     ELSE TryAutoRestart
  /\ UNCHANGED <<processes, instanceRows, todo>>

(* The probe asks the ports, whoever holds them by now.                     *)
HealthProbe ==
  /\ health = "probing"
  /\ IF \E n \in Procs : children[n] = [state |-> "up", instance |-> Default]
     THEN health' = "sleeping" /\ UNCHANGED attempts
     ELSE TryAutoRestart
  /\ UNCHANGED <<children, processes, process, instanceRows, todo>>

HealthRestart ==
  health = "restarting" /\ health' = "sleeping" /\ StartInstance(Default) /\ UNCHANGED todo

-----------------------------------------------------------------------------
(* The world: a process exits, stalls or answers again.                     *)
ProcessExits(n) ==
  /\ Running(n)
  /\ children' = [children EXCEPT ![n] = IF \E i \in Instances : processes[i] = n
                                        THEN [@ EXCEPT !.state = "zombie"] ELSE NoChild]
  /\ UNCHANGED <<processes, process, instanceRows, attempts, todo, health>>

ProcessStalls(n) ==
  /\ Running(n)
  /\ children' = [children EXCEPT ![n].state = IF @ = "up" THEN "deaf" ELSE "up"]
  /\ UNCHANGED <<processes, process, instanceRows, attempts, todo, health>>

Health == HealthCheck \/ HealthProbe \/ HealthRestart

Next ==
  \/ Requests \/ \E t \in Threads : Step(t)
  \/ Health
  \/ \E n \in Procs : ProcessExits(n) \/ ProcessStalls(n)

Spec == Init /\ [][Next]_vars /\ WF_vars(Health)

-----------------------------------------------------------------------------
(* Properties.                                                              *)

(* _process is a second copy of what _processes has for the default         *)
(* instance: it names the same process or none.  Health checks and          *)
(* is_running go by the one, starts and stops by the other.                 *)
OneDefaultProcess == process \in {NoProc, processes[Default]}

(* Whatever starts, stops and restarts overlap, and whatever an earlier run *)
(* of the application left: two processes never run for one instance, and   *)
(* the two records of the default one agree.                                *)
OneProcessPerInstance ==
  /\ OneDefaultProcess
  /\ \A m, n \in Procs :
       Running(m) /\ Running(n) /\ children[m].instance = children[n].instance => m = n

(* A default instance that does not run is brought back, or its automatic   *)
(* restarts are used up.                                                    *)
RecoversOrGivesUp ==
  ~Running(processes[Default]) ~> Running(processes[Default]) \/ attempts = MaxRestarts
=============================================================================
