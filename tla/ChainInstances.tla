--------------------------- MODULE ChainInstances ---------------------------
(***************************************************************************)
(* The local proxies a chain route goes through:                           *)
(* proxypool/backend/chain_instance_manager.py keeps one row per instance  *)
(* in chain_egress_instances and starts its mihomo process through         *)
(* proxypool/backend/mihomo_manager.py.  A row is found again by an id     *)
(* built from the route; its process has a pid, holds a port and outlives  *)
(* the application.                                                        *)
(*                                                                         *)
(* Every operation is called from a handler on the event loop and blocks   *)
(* it, so operations do not overlap; they are relations between the state  *)
(* before and the possible states after, and modules that call them make   *)
(* them actions.  Processes and ports change between any two of them.      *)
(***************************************************************************)
EXTENDS Integers, FiniteSets

CONSTANTS
  Routes,       \* the routes asked for; each has its own instance
  Ports,        \* backend_default_port_range
  MaxPid        \* bound: process ids; without a fresh one a start fails

ASSUME InstancesAssumption ==
  /\ IsFiniteSet(Routes) /\ Routes # {}
  /\ Ports \subseteq Nat \ {0} /\ Ports # {}
  /\ MaxPid \in Nat

VARIABLES
  rows,         \* chain_egress_instances, by the route the id is built from
  table,        \* MihomoEgressBackend._processes, in memory
  procs,        \* the mihomo processes, by pid
  foreign       \* ports held by anybody else

Pids   == 1 .. MaxPid
NoPid  == 0
Status == {"none", "stopped", "running", "failed"}
Row    == [status : Status, port : Ports \cup {0}, pid : Pids \cup {NoPid}]
NoRow  == [status |-> "none", port |-> 0, pid |-> NoPid]

(* A process listens on its port, or holds it and does not answer in time.  *)
(* A dead child is a zombie until the backend asks for its exit status.     *)
Process == [state : {"none", "up", "deaf", "zombie"}, port : Ports \cup {0}]
Gone    == [state |-> "none", port |-> 0]

InstancesTypeOK ==
  /\ rows \in [Routes -> Row]
  /\ table \in [Routes -> Pids \cup {NoPid}]
  /\ procs \in [Pids -> Process]
  /\ foreign \subseteq Ports

InstancesInit ==
  /\ rows = [r \in Routes |-> NoRow]
  /\ table = [r \in Routes |-> NoPid]
  /\ procs = [n \in Pids |-> Gone]
  /\ foreign = {}

(* The state an operation starts from and the one it makes.                *)
State(rs, ts, ps, good) == [rows |-> rs, table |-> ts, procs |-> ps, ok |-> good]
Here == State(rows, table, procs, TRUE)
Become(s) == rows' = s.rows /\ table' = s.table /\ procs' = s.procs /\ UNCHANGED foreign

-----------------------------------------------------------------------------
(* What the manager asks of the system.                                    *)

(* _is_process_alive sends signal 0, which a zombie accepts.                *)
Alive(s, n)    == n # NoPid /\ s.procs[n].state # "none"
Answers(s, p)  == p \in foreign \/ \E n \in Pids : s.procs[n].state = "up" /\ s.procs[n].port = p
Bindable(s, p) == p \notin foreign /\ \A n \in Pids : s.procs[n].port # p

(* _allocate_port: the first port of the range that can be bound.  A port  *)
(* that a running row uses and that answers cannot be bound anyway.        *)
Allocated(s) ==
  {p \in Ports : Bindable(s, p) /\ \A q \in Ports : Bindable(s, q) => p <= q}

(* A pid no process has; the kernel reuses the pids of dead processes, one *)
(* that a row still names is not reused here.                              *)
FreshPids(s) ==
  {n \in Pids : s.procs[n] = Gone /\ \A r \in Routes : n \notin {s.rows[r].pid, s.table[r]}}

Failing(s) == State(s.rows, s.table, s.procs, FALSE)

(* upsert_chain_egress_instance: the row of an instance with a new status,  *)
(* port and pid.                                                            *)
Upserted(s, r, status, port, pid) ==
  State([s.rows EXCEPT ![r] = [status |-> status, port |-> port, pid |-> pid]],
        s.table, s.procs, s.ok)

Ended(s, r, status) == Upserted(s, r, status, s.rows[r].port, NoPid)

-----------------------------------------------------------------------------
(* MihomoEgressBackend.stop: it knows only the processes it started itself. *)
(* It terminates and, after five seconds, kills.                            *)
BackendStop(s, r) ==
  LET n == s.table[r]
  IN  State(s.rows, [s.table EXCEPT ![r] = NoPid],
            IF n = NoPid THEN s.procs ELSE [s.procs EXCEPT ![n] = Gone], s.ok)

(* stop_instance and mark_instance_failed; a missing row is an error there  *)
(* and nothing here.                                                        *)
StopInstance(s, r) ==
  Ended(BackendStop(s, r), r, "stopped")

MarkFailed(s, r) ==
  IF s.rows[r].status = "none" THEN s
  ELSE Ended(BackendStop(s, r), r, "failed")

(* Mutant: the process alone shows that the instance is live.               *)
Live_PidOnly(s, r) ==
  s.rows[r].status = "running" /\ Alive(s, s.rows[r].pid)

(* _is_instance_live: a row that says running is believed if its process is *)
(* alive and its port answers, and otherwise corrected to stopped; its      *)
(* process is not touched.                                                  *)
Live(s, r) ==
  /\ s.rows[r].status = "running"
  /\ Alive(s, s.rows[r].pid)
  /\ Answers(s, s.rows[r].port)

Stale(s, r) == s.rows[r].status = "running" /\ ~Live(s, r)

Corrected(s, r) == IF Stale(s, r) THEN Ended(s, r, "stopped") ELSE s

(* list_running_instance_ids corrects every row.                            *)
Swept(s) ==
  State([r \in Routes |-> IF Stale(s, r)
                          THEN [status |-> "stopped", port |-> s.rows[r].port, pid |-> NoPid]
                          ELSE s.rows[r]],
        s.table, s.procs, s.ok)

(* The port of the row if it can be bound, else another: the outcomes with  *)
(* a usable port, or the error when there is none.                          *)
WithPort(s, r) ==
  IF s.rows[r].port # 0 /\ Bindable(s, s.rows[r].port) THEN {s}
  ELSE IF Allocated(s) = {} THEN {Failing(s)}
  ELSE {Upserted(s, r, s.rows[r].status, p, s.rows[r].pid) : p \in Allocated(s)}

(* The rest of start_instance, MihomoEgressBackend.start and                *)
(* _wait_until_instance_ready: the binary is missing; the process becomes   *)
(* ready; or it exits or stays silent for five seconds and is stopped.  The *)
(* process that the table had for the instance is forgotten, not stopped.   *)
Spawned(s, r) ==
  LET n == CHOOSE m \in FreshPids(s) : \A k \in FreshPids(s) : m <= k
  IN  State(s.rows, [s.table EXCEPT ![r] = n],
            [m \in Pids |->
               IF m = n THEN [state |-> "up", port |-> s.rows[r].port]
               ELSE IF m = s.table[r] /\ s.procs[m].state = "zombie" THEN Gone
               ELSE s.procs[m]],
            s.ok)

(* Mutant: the row keeps the pid it was read with.                          *)
Running_OldPid(s, r) == Upserted(s, r, "running", s.rows[r].port, s.rows[r].pid)

Running(s, r) == Upserted(s, r, "running", s.rows[r].port, s.table[r])

NotReady(s, r) == Failing(Ended(BackendStop(s, r), r, "failed"))

Launched(s, r) ==
  {Failing(s)} \cup
  IF FreshPids(s) = {} THEN {}
  ELSE {Running(Spawned(s, r), r), NotReady(Spawned(s, r), r)}

Started(s, r) == UNION {IF x.ok THEN Launched(x, r) ELSE {x} : x \in WithPort(s, r)}

(* create_instance: an upsert, also over a row whose process runs.          *)
Created(s, r, p) ==
  Upserted(s, r, "stopped", p, NoPid)

(* ensure_instance: the row, created with a free port if there is none; the *)
(* live instance as it is; else a start.                                    *)
Ensured(s, r) ==
  LET new  == IF s.rows[r].status # "none" THEN {s}
              ELSE IF Allocated(s) = {} THEN {Failing(s)}
              ELSE {Created(s, r, p) : p \in Allocated(s)}
  IN  UNION {IF ~x.ok \/ Live(x, r) THEN {x} ELSE Started(Corrected(x, r), r) : x \in new}

(* rebuild_instance without new hops, as the API calls it.                  *)
Rebuilt(s, r) ==
  IF s.rows[r].status = "running" THEN Started(StopInstance(s, r), r)
  ELSE {Ended(s, r, "stopped")}

-----------------------------------------------------------------------------
(* The requests of the API, and the world.                                  *)

ApiCreate(r)  == \E p \in Ports : Become(Created(Here, r, p))
ApiStart(r)   == rows[r].status # "none" /\ \E x \in Started(Here, r) : Become(x)
ApiStop(r)    == rows[r].status # "none" /\ Become(StopInstance(Here, r))
ApiRebuild(r) == rows[r].status # "none" /\ \E x \in Rebuilt(Here, r) : Become(x)

(* A child that the table has is a zombie from then on; one that it has     *)
(* forgotten, or that an earlier run started, is gone.                      *)
ProcessDies(n) ==
  /\ procs[n].state \in {"up", "deaf"}
  /\ procs' = [procs EXCEPT ![n] = IF \E r \in Routes : table[r] = n
                                   THEN [Gone EXCEPT !.state = "zombie"] ELSE Gone]
  /\ UNCHANGED <<rows, table, foreign>>

ProcessStalls(n) ==
  /\ procs[n].state \in {"up", "deaf"}
  /\ procs' = [procs EXCEPT ![n].state = IF @ = "up" THEN "deaf" ELSE "up"]
  /\ UNCHANGED <<rows, table, foreign>>

ForeignTakes(p) ==
  /\ Bindable(Here, p) /\ foreign' = foreign \cup {p}
  /\ UNCHANGED <<rows, table, procs>>

ForeignLeaves(p) ==
  /\ p \in foreign /\ foreign' = foreign \ {p}
  /\ UNCHANGED <<rows, table, procs>>

(* The application ends, however it ends: no shutdown hook stops the mihomo *)
(* processes, and a new one knows none of them.  Zombies are inherited and  *)
(* reaped.                                                                  *)
InstancesRestart ==
  /\ table' = [r \in Routes |-> NoPid]
  /\ procs' = [n \in Pids |-> IF procs[n].state = "zombie" THEN Gone ELSE procs[n]]
  /\ UNCHANGED <<rows, foreign>>

World ==
  \/ \E n \in Pids : ProcessDies(n) \/ ProcessStalls(n)
  \/ \E p \in Ports : ForeignTakes(p) \/ ForeignLeaves(p)
=============================================================================
