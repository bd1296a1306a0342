---------------------------- MODULE RouteHealth ----------------------------
(***************************************************************************)
(* What ProxyChainService remembers about the routes of one endpoint: the  *)
(* failed routes and nodes and the routes known to be healthy, in memory,  *)
(* and the failed ones again in the database (pool/chain_service.py and    *)
(* the failed_routes tables of storage/sqlite.py).                         *)
(*                                                                         *)
(* A route is the sequence of the keys of its hops.  Time is counted in    *)
(* ticks.  An entry in memory is the number of ticks it is still in force, *)
(* 0 when there is none: the code drops expired entries when it meets them.*)
(* A row holds the ticks to its expires_at, negative when that has passed. *)
(* All of it runs on the event loop, one call at a time.                   *)
(***************************************************************************)
EXTENDS Integers, Sequences

CONSTANTS
  Node,         \* keys of the proxies
  Route,        \* the routes that occur: sequences of keys
  Cooldowns,    \* the values of cooldown_sec in use, in ticks
  HealthyTtl,   \* ttl_sec of report_endpoint_route_success, in ticks
  DayTicks,     \* ticks in a day
  DbMayFail,    \* TRUE when the database may refuse a write
  MaxRestarts   \* bound on the number of process restarts

ASSUME RouteAssumption == Route \subseteq Seq(Node) \ {<<>>}
ASSUME TimeAssumption ==
  /\ Cooldowns \subseteq Nat \ {0}
  /\ HealthyTtl \in Nat \ {0}
  /\ DayTicks \in Nat \ {0}
ASSUME BoundAssumption == DbMayFail \in BOOLEAN /\ MaxRestarts \in Nat

VARIABLES
  failedRoute,   \* _failed_endpoint_routes
  failedNode,    \* _failed_endpoint_nodes
  healthyRoute,  \* _healthy_endpoint_routes
  routeRow,      \* table failed_routes
  nodeRow,       \* table failed_route_nodes
  hour,          \* tick of the day
  restarts,      \* restarts so far
  due,           \* history: ticks a reported failure is still to be honoured
  torn           \* history: routes of which some write was refused

memory  == <<failedRoute, failedNode, healthyRoute>>
rows    == <<routeRow, nodeRow>>
history == <<due, torn>>
healthVars == <<memory, rows, hour, restarts, history>>

NodesOf(r) == {r[i] : i \in DOMAIN r}

NoRow == -DayTicks

HealthInit ==
  /\ failedRoute = [r \in Route |-> 0]
  /\ failedNode = [n \in Node |-> 0]
  /\ healthyRoute = [r \in Route |-> 0]
  /\ routeRow = [r \in Route |-> NoRow]
  /\ nodeRow = [n \in Node |-> NoRow]
  /\ hour = 0
  /\ restarts = 0
  /\ due = [r \in Route |-> 0]
  /\ torn = {}

-----------------------------------------------------------------------------
(* expires_at > datetime('now') compares "2024-05-06T..." with             *)
(* "2024-05-06 ...": the letter T is greater than the space, so a row is   *)
(* in force until the day of its expires_at is over.                       *)
InForce(row) == hour + row >= 0

(* Mutant: the database is not asked.                                      *)
RouteFailed_MemoryOnly(r) == failedRoute[r] > 0

(* _is_endpoint_route_failed: memory first, then the database.             *)
RouteFailed(r) == failedRoute[r] > 0 \/ InForce(routeRow[r])

(* _is_endpoint_node_failed.                                               *)
NodeFailed(n) == failedNode[n] > 0 \/ InForce(nodeRow[n])

Down(t) == IF t > 0 THEN t - 1 ELSE 0

(* A tick of the clock.  Rows no longer in force are never seen again.     *)
RowTick(row, nextHour) == IF nextHour + row - 1 >= 0 THEN row - 1 ELSE NoRow

HealthTick ==
  /\ hour' = IF hour + 1 = DayTicks THEN 0 ELSE hour + 1
  /\ failedRoute' = [r \in Route |-> Down(failedRoute[r])]
  /\ failedNode' = [n \in Node |-> Down(failedNode[n])]
  /\ healthyRoute' = [r \in Route |-> Down(healthyRoute[r])]
  /\ routeRow' = [r \in Route |-> RowTick(routeRow[r], hour')]
  /\ nodeRow' = [n \in Node |-> RowTick(nodeRow[n], hour')]
  /\ due' = [r \in Route |-> Down(due[r])]
  /\ UNCHANGED <<restarts, torn>>

(* How far a report gets with its writes before the database refuses one;  *)
(* the rest are skipped and the error is logged.                           *)
Written(n) == IF DbMayFail THEN 0 .. n ELSE {n}

(* Mutant: a failed route stays among the healthy ones.                    *)
FailRoute_KeepsHealthy(r, c) ==
  \E w \in Written(2) :
    /\ failedRoute' = [failedRoute EXCEPT ![r] = c]
    /\ failedNode' = [failedNode EXCEPT ![Head(r)] = c]
    /\ routeRow' = IF w >= 1 THEN [routeRow EXCEPT ![r] = c] ELSE routeRow
    /\ nodeRow' = IF w = 2 THEN [nodeRow EXCEPT ![Head(r)] = c] ELSE nodeRow
    /\ due' = [due EXCEPT ![r] = c]
    /\ torn' = IF w < 2 THEN torn \cup {r} ELSE torn
    /\ UNCHANGED <<healthyRoute, hour, restarts>>

(* report_endpoint_route_failure, but for the reporting session's lease.   *)
FailRoute(r, c) ==
  \E w \in Written(2) :
    /\ failedRoute' = [failedRoute EXCEPT ![r] = c]
    /\ healthyRoute' = [healthyRoute EXCEPT ![r] = 0]
    /\ failedNode' = [failedNode EXCEPT ![Head(r)] = c]
    /\ routeRow' = IF w >= 1 THEN [routeRow EXCEPT ![r] = c] ELSE routeRow
    /\ nodeRow' = IF w = 2 THEN [nodeRow EXCEPT ![Head(r)] = c] ELSE nodeRow
    /\ due' = [due EXCEPT ![r] = c]
    /\ torn' = IF w < 2 THEN torn \cup {r} ELSE torn
    /\ UNCHANGED <<hour, restarts>>

(* Mutant: the nodes are readmitted in memory only.                        *)
SucceedRoute_NodeRowsKept(r) ==
  /\ failedRoute' = [failedRoute EXCEPT ![r] = 0]
  /\ failedNode' = [n \in Node |-> IF n \in NodesOf(r) THEN 0 ELSE failedNode[n]]
  /\ healthyRoute' = [healthyRoute EXCEPT ![r] = HealthyTtl]
  /\ routeRow' = [routeRow EXCEPT ![r] = NoRow]
  /\ due' = [due EXCEPT ![r] = 0]
  /\ UNCHANGED <<nodeRow, hour, restarts, torn>>

(* report_endpoint_route_success.                                          *)
SucceedRoute(r) ==
  \E w \in Written(1 + Len(r)) :
    LET deleted == {r[i] : i \in {j \in DOMAIN r : j < w}}
    IN  /\ failedRoute' = [failedRoute EXCEPT ![r] = 0]
        /\ failedNode' = [n \in Node |-> IF n \in NodesOf(r) THEN 0 ELSE failedNode[n]]
        /\ healthyRoute' = [healthyRoute EXCEPT ![r] = HealthyTtl]
        /\ routeRow' = IF w >= 1 THEN [routeRow EXCEPT ![r] = NoRow] ELSE routeRow
        /\ nodeRow' = [n \in Node |-> IF n \in deleted THEN NoRow ELSE nodeRow[n]]
        /\ due' = [due EXCEPT ![r] = 0]
        /\ torn' = IF w < 1 + Len(r) THEN torn \cup {r} ELSE torn
        /\ UNCHANGED <<hour, restarts>>

Remaining(row) == IF row > 0 THEN row ELSE 0

(* A restart: _load_failed_routes.  A signature is written with ">"        *)
(* between the keys and split at ",", so only a route of one hop is found  *)
(* again under its key.                                                    *)
HealthRestart ==
  /\ restarts < MaxRestarts
  /\ restarts' = restarts + 1
  /\ failedRoute' = [r \in Route |-> IF Len(r) = 1 THEN Remaining(routeRow[r]) ELSE 0]
  /\ failedNode' = [n \in Node |-> Remaining(nodeRow[n])]
  /\ healthyRoute' = [r \in Route |-> 0]
  /\ due' = [r \in Route |-> IF r \in torn THEN 0 ELSE due[r]]
  /\ UNCHANGED <<rows, hour, torn>>

HealthNext ==
  \/ HealthTick
  \/ \E r \in Route : SucceedRoute(r) \/ \E c \in Cooldowns : FailRoute(r, c)
  \/ HealthRestart

HealthSpec == HealthInit /\ [][HealthNext]_healthVars

-----------------------------------------------------------------------------
(* Types.                                                                  *)
HealthTypeOK ==
  /\ failedRoute \in [Route -> Nat]
  /\ failedNode \in [Node -> Nat]
  /\ healthyRoute \in [Route -> 0 .. HealthyTtl]
  /\ routeRow \in [Route -> Int]
  /\ nodeRow \in [Node -> Int]
  /\ due \in [Route -> Nat]
  /\ hour \in 0 .. DayTicks - 1
  /\ restarts \in 0 .. MaxRestarts
  /\ torn \in SUBSET Route

(* A route reported failed is excluded for the whole cooldown, through     *)
(* restarts, although a restart does not find the route again in memory:   *)
(* unless the database refused the report and the process restarted.       *)
ExcludedForCooldown == \A r \in Route : due[r] > 0 => RouteFailed(r)

(* endpoint_route_health never shows a route both failed and known to be   *)
(* healthy, except when the database refused one of its reports.           *)
NotFailedAndHealthy ==
  \A r \in Route \ torn : ~(RouteFailed(r) /\ healthyRoute[r] > 0)

(* A node is left out only while a failed route starts at it, or after the *)
(* database refused to forget it: no report leaves a node behind.          *)
NodeOutWithRoute ==
  \A n \in Node : NodeFailed(n) =>
    \/ \E r \in Route : Head(r) = n /\ RouteFailed(r)
    \/ \E r \in torn : n \in NodesOf(r)

(* sqlite.py is_route_failed: "Check if a route is currently failed (not   *)
(* expired)."; a route should be failed only during its cooldown.          *)
FailureExpires == \A r \in Route : RouteFailed(r) => due[r] > 0 \/ r \in torn
=============================================================================
