----------------------- MODULE EndpointRoutingProofs -----------------------
(***************************************************************************)
(* For any nodes, routes, cooldowns and length of the day, and whatever    *)
(* writes the database refuses: a failed route stays excluded for its      *)
(* cooldown, no route is failed and known to be healthy at once, and no    *)
(* node is left out without a failed route (RouteHealth).                  *)
(*                                                                         *)
(* For any sessions, pools and times to live: the routing of an endpoint   *)
(* implements RouteHealth, and a session's lease survives crashes, keeps   *)
(* its exit and is only ever given a sound route (EndpointRouting).        *)
(***************************************************************************)
EXTENDS EndpointRouting, TLAPS

-----------------------------------------------------------------------------
(* What the two properties need to know of the types.                      *)
HealthTypes ==
  /\ failedRoute \in [Route -> Nat]
  /\ healthyRoute \in [Route -> Nat]
  /\ routeRow \in [Route -> Int]
  /\ due \in [Route -> Nat]
  /\ hour \in 0 .. DayTicks - 1

(* A failure to be honoured is in memory, and, unless a write was refused, *)
(* in the database too, for at least as long as it is to be honoured.      *)
DueIsKept ==
  \A r \in Route : due[r] > 0 =>
    /\ failedRoute[r] >= due[r] \/ routeRow[r] >= due[r]
    /\ r \notin torn => routeRow[r] >= due[r]

HealthIInv == HealthTypes /\ DueIsKept /\ NotFailedAndHealthy

(* The code's bounds on times, as the steps use them.                      *)
LEMMA Times ==
  /\ \A c \in Cooldowns : c \in Nat /\ c > 0
  /\ HealthyTtl \in Nat /\ DayTicks \in Nat /\ DayTicks > 0
  /\ NoRow \in Int /\ \A h \in 0 .. DayTicks - 1 : h + NoRow < 0
  BY TimeAssumption DEF NoRow

(* A row that is not there is in force at no time of the day.              *)
LEMMA AbsentRow ==
  ASSUME NEW h \in 0 .. DayTicks - 1
  PROVE  ~ (h + NoRow >= 0)
  BY TimeAssumption DEF NoRow

(* A tick shortens what is in memory by one, down to nothing.              *)
LEMMA DownByOne ==
  ASSUME NEW t \in Nat
  PROVE  Down(t) \in Nat /\ Down(t) <= t /\ (Down(t) > 0 => Down(t) = t - 1)
  BY DEF Down

(* The next tick of the day, and what it does to a row: one in force at    *)
(* least a tick longer goes on, one out of force stays out.                *)
LEMMA RowByOne ==
  ASSUME NEW row \in Int, NEW h \in 0 .. DayTicks - 1, NEW g,
         g = IF h + 1 = DayTicks THEN 0 ELSE h + 1
  PROVE  /\ g \in 0 .. DayTicks - 1
         /\ RowTick(row, g) \in Int
         /\ row > 0 => RowTick(row, g) = row - 1
         /\ h + row < 0 => g + RowTick(row, g) < 0
  BY Times DEF RowTick

LEMMA HealthInitially == HealthInit => HealthIInv
  BY Times DEF HealthInit, HealthIInv, HealthTypes, DueIsKept, NotFailedAndHealthy,
     RouteFailed, InForce

(* Time passes.                                                            *)
LEMMA TickKeeps ==
  ASSUME HealthIInv, HealthTick
  PROVE  HealthIInv'
<1>1. hour' \in 0 .. DayTicks - 1 /\ torn' = torn
  BY RowByOne DEF HealthIInv, HealthTypes, HealthTick
<1>2. \A r \in Route :
        /\ failedRoute'[r] = Down(failedRoute[r])
        /\ healthyRoute'[r] = Down(healthyRoute[r])
        /\ due'[r] = Down(due[r])
        /\ routeRow'[r] = RowTick(routeRow[r], hour')
  BY DEF HealthTick
<1>3. \A r \in Route :
        /\ routeRow'[r] \in Int
        /\ routeRow[r] > 0 => routeRow'[r] = routeRow[r] - 1
        /\ hour + routeRow[r] < 0 => hour' + routeRow'[r] < 0
  BY <1>2, RowByOne DEF HealthIInv, HealthTypes, HealthTick
<1>4. HealthTypes'
  BY <1>1, <1>2, <1>3, DownByOne DEF HealthIInv, HealthTypes, HealthTick
<1>5. DueIsKept'
  <2> SUFFICES ASSUME NEW r \in Route, due'[r] > 0
               PROVE  /\ failedRoute'[r] >= due'[r] \/ routeRow'[r] >= due'[r]
                      /\ r \notin torn' => routeRow'[r] >= due'[r]
    BY DEF DueIsKept
  <2>1. due[r] > 0 /\ due'[r] = due[r] - 1 /\ due[r] \in Nat
    BY <1>2, DownByOne DEF HealthIInv, HealthTypes
  <2>2. failedRoute[r] >= due[r] => failedRoute'[r] >= due'[r]
    BY <2>1, <1>2 DEF HealthIInv, HealthTypes, Down
  <2>3. routeRow[r] >= due[r] => routeRow'[r] >= due'[r]
    BY <2>1, <1>3 DEF HealthIInv, HealthTypes
  <2> QED BY <1>1, <2>1, <2>2, <2>3 DEF HealthIInv, DueIsKept
<1>6. NotFailedAndHealthy'
  <2> SUFFICES ASSUME NEW r \in Route, r \notin torn', healthyRoute'[r] > 0
               PROVE  ~ RouteFailed(r)'
    BY DEF NotFailedAndHealthy
  <2>1. healthyRoute[r] > 0
    BY <1>2, DownByOne DEF HealthIInv, HealthTypes
  <2>2. ~ (failedRoute[r] > 0) /\ ~ (hour + routeRow[r] >= 0)
    BY <2>1, <1>1 DEF HealthIInv, NotFailedAndHealthy, RouteFailed, InForce
  <2>3. ~ (failedRoute'[r] > 0)
    BY <2>2, <1>2 DEF HealthIInv, HealthTypes, Down
  <2>4. ~ (hour' + routeRow'[r] >= 0)
    BY <2>2, <1>1, <1>3 DEF HealthIInv, HealthTypes
  <2> QED BY <2>3, <2>4 DEF RouteFailed, InForce
<1> QED BY <1>4, <1>5, <1>6 DEF HealthIInv

(* A failure is reported.                                                  *)
LEMMA FailKeeps ==
  ASSUME HealthIInv, NEW r \in Route, NEW c \in Cooldowns, FailRoute(r, c)
  PROVE  HealthIInv'
<1>1. PICK w \in Written(2) :
        /\ failedRoute' = [failedRoute EXCEPT ![r] = c]
        /\ healthyRoute' = [healthyRoute EXCEPT ![r] = 0]
        /\ routeRow' = IF w >= 1 THEN [routeRow EXCEPT ![r] = c] ELSE routeRow
        /\ due' = [due EXCEPT ![r] = c]
        /\ torn' = IF w < 2 THEN torn \cup {r} ELSE torn
        /\ hour' = hour
  BY DEF FailRoute
<1>2. w \in Nat /\ c \in Nat /\ c > 0
  BY Times DEF Written
<1>3. HealthTypes'
  BY <1>1, <1>2 DEF HealthIInv, HealthTypes
<1>4. DueIsKept'
  BY <1>1, <1>2 DEF HealthIInv, HealthTypes, DueIsKept
<1>5. NotFailedAndHealthy'
  <2> SUFFICES ASSUME NEW q \in Route, q \notin torn', healthyRoute'[q] > 0
               PROVE  ~ RouteFailed(q)'
    BY DEF NotFailedAndHealthy
  <2>1. q # r /\ q \notin torn /\ healthyRoute[q] > 0
    BY <1>1 DEF HealthIInv, HealthTypes
  <2>2. failedRoute'[q] = failedRoute[q] /\ routeRow'[q] = routeRow[q]
    BY <1>1, <2>1 DEF HealthIInv, HealthTypes
  <2> QED BY <1>1, <2>1, <2>2 DEF HealthIInv, NotFailedAndHealthy, RouteFailed, InForce
<1> QED BY <1>3, <1>4, <1>5 DEF HealthIInv

(* A success is reported.                                                  *)
LEMMA SucceedKeeps ==
  ASSUME HealthIInv, NEW r \in Route, SucceedRoute(r)
  PROVE  HealthIInv'
<1>1. PICK w \in Written(1 + Len(r)) :
        /\ failedRoute' = [failedRoute EXCEPT ![r] = 0]
        /\ healthyRoute' = [healthyRoute EXCEPT ![r] = HealthyTtl]
        /\ routeRow' = IF w >= 1 THEN [routeRow EXCEPT ![r] = NoRow] ELSE routeRow
        /\ due' = [due EXCEPT ![r] = 0]
        /\ torn' = IF w < 1 + Len(r) THEN torn \cup {r} ELSE torn
        /\ hour' = hour
  BY DEF SucceedRoute
<1>2. Len(r) \in Nat /\ w \in Nat
  BY RouteAssumption DEF Written
<1>3. HealthTypes'
  BY <1>1, <1>2, Times DEF HealthIInv, HealthTypes
<1>4. DueIsKept'
  BY <1>1, <1>2 DEF HealthIInv, HealthTypes, DueIsKept
<1>5. NotFailedAndHealthy'
  <2> SUFFICES ASSUME NEW q \in Route, q \notin torn', healthyRoute'[q] > 0
               PROVE  ~ RouteFailed(q)'
    BY DEF NotFailedAndHealthy
  <2>1. CASE q = r
    <3>1. w >= 1
      BY <1>1, <1>2, <2>1
    <3>2. failedRoute'[r] = 0 /\ routeRow'[r] = NoRow
      BY <1>1, <3>1 DEF HealthIInv, HealthTypes
    <3>3. hour' \in 0 .. DayTicks - 1
      BY <1>1 DEF HealthIInv, HealthTypes
    <3>5. ~ (failedRoute'[q] > 0)
      BY <2>1, <3>2
    <3>4. ~ (hour' + NoRow >= 0)
      BY <3>3, AbsentRow
    <3>6. ~ (hour' + routeRow'[q] >= 0)
      BY <2>1, <3>2, <3>4
    <3> QED BY <3>5, <3>6 DEF RouteFailed, InForce
  <2>2. CASE q # r
    <3>1. q \notin torn /\ healthyRoute[q] > 0
      BY <1>1, <2>2 DEF HealthIInv, HealthTypes
    <3>2. failedRoute'[q] = failedRoute[q] /\ routeRow'[q] = routeRow[q]
      BY <1>1, <2>2 DEF HealthIInv, HealthTypes
    <3> QED BY <1>1, <3>1, <3>2 DEF HealthIInv, NotFailedAndHealthy, RouteFailed, InForce
  <2> QED BY <2>1, <2>2
<1> QED BY <1>3, <1>4, <1>5 DEF HealthIInv

(* The process restarts.                                                   *)
LEMMA HealthRestartKeeps ==
  ASSUME HealthIInv, HealthRestart
  PROVE  HealthIInv'
<1>1. HealthTypes'
  BY DEF HealthIInv, HealthTypes, HealthRestart, Remaining, rows
<1>2. DueIsKept'
  BY DEF HealthIInv, HealthTypes, DueIsKept, HealthRestart, rows
<1>3. NotFailedAndHealthy'
  BY DEF HealthRestart, NotFailedAndHealthy
<1> QED BY <1>1, <1>2, <1>3 DEF HealthIInv

LEMMA HealthStutterKeeps ==
  ASSUME HealthIInv, UNCHANGED healthVars
  PROVE  HealthIInv'
  BY DEF HealthIInv, HealthTypes, DueIsKept, NotFailedAndHealthy, RouteFailed, InForce,
     healthVars, memory, rows, history

LEMMA HealthAlways == HealthSpec => []HealthIInv
<1>1. HealthIInv /\ [HealthNext]_healthVars => HealthIInv'
  BY TickKeeps, FailKeeps, SucceedKeeps, HealthRestartKeeps, HealthStutterKeeps
     DEF HealthNext
<1> QED BY HealthInitially, <1>1, PTL DEF HealthSpec

-----------------------------------------------------------------------------
(* The types: the caches count down and never below nothing, the rows are  *)
(* any distance from now.                                                  *)
THEOREM HealthTypeCorrect == HealthSpec => []HealthTypeOK
<1>1. HealthInit => HealthTypeOK
  BY Times, BoundAssumption DEF HealthInit, HealthTypeOK
<1>2. HealthTypeOK /\ [HealthNext]_healthVars => HealthTypeOK'
  <2> SUFFICES ASSUME HealthTypeOK, [HealthNext]_healthVars
               PROVE  HealthTypeOK'
    OBVIOUS
  <2>1. CASE HealthTick
    <3>1. hour' \in 0 .. DayTicks - 1
      BY <2>1, RowByOne DEF HealthTypeOK, HealthTick
    <3>2. \A row \in Int : RowTick(row, hour') \in Int
      BY <2>1, RowByOne DEF HealthTypeOK, HealthTick
    <3>3. \A t \in 0 .. HealthyTtl : Down(t) \in 0 .. HealthyTtl
      BY Times DEF Down
    <3> QED BY <2>1, <3>1, <3>2, <3>3, DownByOne DEF HealthTypeOK, HealthTick
  <2>2. ASSUME NEW r \in Route, NEW c \in Cooldowns, FailRoute(r, c)
        PROVE  HealthTypeOK'
    <3>1. c \in Nat /\ c \in Int /\ 0 \in 0 .. HealthyTtl
      BY Times
    <3>2. /\ failedRoute' = [failedRoute EXCEPT ![r] = c]
          /\ failedNode' = [failedNode EXCEPT ![Head(r)] = c]
          /\ healthyRoute' = [healthyRoute EXCEPT ![r] = 0]
          /\ routeRow' \in {routeRow, [routeRow EXCEPT ![r] = c]}
          /\ nodeRow' \in {nodeRow, [nodeRow EXCEPT ![Head(r)] = c]}
          /\ due' = [due EXCEPT ![r] = c]
      BY <2>2 DEF FailRoute
    <3>3. /\ failedRoute' \in [Route -> Nat] /\ failedNode' \in [Node -> Nat]
          /\ healthyRoute' \in [Route -> 0 .. HealthyTtl] /\ due' \in [Route -> Nat]
          /\ routeRow' \in [Route -> Int] /\ nodeRow' \in [Node -> Int]
      BY <3>1, <3>2 DEF HealthTypeOK
    <3>4. /\ hour' \in 0 .. DayTicks - 1
          /\ restarts' \in 0 .. MaxRestarts
          /\ torn' \in SUBSET Route
      BY <2>2 DEF HealthTypeOK, FailRoute
    <3> QED BY <3>3, <3>4 DEF HealthTypeOK
  <2>3. ASSUME NEW r \in Route, SucceedRoute(r)
        PROVE  HealthTypeOK'
    BY <2>3, Times DEF HealthTypeOK, SucceedRoute
  <2>4. CASE HealthRestart
    BY <2>4, Times, BoundAssumption DEF HealthTypeOK, HealthRestart, Remaining, rows
  <2>5. CASE UNCHANGED healthVars
    BY <2>5 DEF HealthTypeOK, healthVars, memory, rows, history
  <2> QED BY <2>1, <2>2, <2>3, <2>4, <2>5 DEF HealthNext
<1> QED BY <1>1, <1>2, PTL DEF HealthSpec

(* A route reported failed is excluded for the whole of its cooldown,      *)
(* however often the process restarts in between.                          *)
THEOREM FailureIsHonoured == HealthSpec => []ExcludedForCooldown
<1>1. HealthIInv => ExcludedForCooldown
  BY DEF HealthIInv, HealthTypes, DueIsKept, ExcludedForCooldown, RouteFailed, InForce
<1> QED BY HealthAlways, <1>1, PTL

(* No route is failed and known to be healthy at once.                     *)
THEOREM FailedIsNotHealthy == HealthSpec => []NotFailedAndHealthy
<1>1. HealthIInv => NotFailedAndHealthy
  BY DEF HealthIInv
<1> QED BY HealthAlways, <1>1, PTL

-----------------------------------------------------------------------------
(* A node that is left out has a failed route that starts at it.  Unless a *)
(* write was refused, the row of that route is in force for as long as the *)
(* node's entry and the node's row: a report writes the three together,    *)
(* and one that forgets the route forgets the node.                        *)
Forgettable(n) == \A r \in torn : n \notin NodesOf(r)

NodeFollowsRoute(n) ==
  /\ failedNode[n] > 0 => \E r \in Route : Head(r) = n /\ routeRow[r] >= failedNode[n]
  /\ InForce(nodeRow[n]) => \E r \in Route : Head(r) = n /\ routeRow[r] >= nodeRow[n]

NodeInv == HealthTypeOK /\ \A n \in Node : Forgettable(n) => NodeFollowsRoute(n)

LEMMA FirstHop ==
  ASSUME NEW r \in Route
  PROVE  Head(r) \in Node /\ Head(r) \in NodesOf(r)
<1>1. r \in Seq(Node) /\ r # <<>>
  BY RouteAssumption
<1>2. Head(r) = r[1] /\ 1 \in DOMAIN r /\ Head(r) \in Node
  BY <1>1
<1> QED BY <1>2 DEF NodesOf

LEMMA NodeTick ==
  ASSUME NodeInv, HealthTypeOK', HealthTick
  PROVE  NodeInv'
<1> SUFFICES ASSUME NEW n \in Node, Forgettable(n)' PROVE NodeFollowsRoute(n)'
  BY DEF NodeInv
<1>1. NodeFollowsRoute(n) /\ hour \in 0 .. DayTicks - 1 /\ hour' = IF hour + 1 = DayTicks THEN 0 ELSE hour + 1
  BY DEF NodeInv, Forgettable, HealthTick, HealthTypeOK
<1>2. /\ failedNode[n] \in Nat /\ failedNode'[n] = Down(failedNode[n])
      /\ nodeRow[n] \in Int /\ nodeRow'[n] = RowTick(nodeRow[n], hour')
      /\ \A r \in Route : routeRow[r] \in Int /\ routeRow'[r] = RowTick(routeRow[r], hour')
  BY DEF NodeInv, HealthTypeOK, HealthTick
<1>3. ASSUME failedNode'[n] > 0
      PROVE  \E r \in Route : Head(r) = n /\ routeRow'[r] >= failedNode'[n]
  <2>1. failedNode[n] > 0 /\ failedNode'[n] = failedNode[n] - 1
    BY <1>2, <1>3 DEF Down
  <2>2. PICK r \in Route : Head(r) = n /\ routeRow[r] >= failedNode[n]
    BY <1>1, <2>1 DEF NodeFollowsRoute
  <2>3. routeRow'[r] = routeRow[r] - 1
    BY <1>1, <1>2, <2>1, <2>2, RowByOne
  <2> QED BY <1>2, <2>1, <2>2, <2>3
<1>4. ASSUME InForce(nodeRow[n])'
      PROVE  \E r \in Route : Head(r) = n /\ routeRow'[r] >= nodeRow'[n]
  <2>1. hour' \in 0 .. DayTicks - 1
    BY <1>1, RowByOne
  <2>2. nodeRow'[n] = nodeRow[n] - 1 /\ hour' + nodeRow[n] - 1 >= 0
    BY <1>2, <1>4, <2>1, AbsentRow DEF InForce, RowTick
  <2>3. InForce(nodeRow[n])
    BY <1>1, <1>2, <2>1, <2>2 DEF InForce
  <2>4. PICK r \in Route : Head(r) = n /\ routeRow[r] >= nodeRow[n]
    BY <1>1, <2>3 DEF NodeFollowsRoute
  <2>5. routeRow'[r] = routeRow[r] - 1
    BY <1>2, <2>1, <2>2, <2>4 DEF RowTick
  <2> QED BY <1>2, <2>2, <2>4, <2>5
<1> QED BY <1>3, <1>4 DEF NodeFollowsRoute, InForce

LEMMA NodeFail ==
  ASSUME NodeInv, HealthTypeOK', NEW q \in Route, NEW c \in Cooldowns, FailRoute(q, c)
  PROVE  NodeInv'
<1> SUFFICES ASSUME NEW n \in Node, Forgettable(n)' PROVE NodeFollowsRoute(n)'
  BY DEF NodeInv
<1>1. PICK w \in Written(2) :
        /\ failedNode' = [failedNode EXCEPT ![Head(q)] = c]
        /\ routeRow' = IF w >= 1 THEN [routeRow EXCEPT ![q] = c] ELSE routeRow
        /\ nodeRow' = IF w = 2 THEN [nodeRow EXCEPT ![Head(q)] = c] ELSE nodeRow
        /\ torn' = IF w < 2 THEN torn \cup {q} ELSE torn
        /\ hour' = hour
  BY DEF FailRoute
<1>2. w \in Nat /\ c \in Nat /\ c > 0 /\ Head(q) \in Node /\ Head(q) \in NodesOf(q)
  BY Times, FirstHop DEF Written
<1>3. /\ NodeFollowsRoute(n)
      /\ failedNode \in [Node -> Nat] /\ nodeRow \in [Node -> Int] /\ routeRow \in [Route -> Int]
  <2>1. torn \subseteq torn'
    BY <1>1
  <2> QED BY <2>1 DEF NodeInv, HealthTypeOK, Forgettable
<1>4. CASE n = Head(q)
  <2>1. ~ (w < 2)
    BY <1>1, <1>2, <1>4 DEF Forgettable
  <2>2. failedNode'[n] = c /\ routeRow'[q] = c
    BY <1>1, <1>2, <1>3, <1>4, <2>1
  <2>3. nodeRow'[n] <= c
    <3>1. w = 2
      BY <1>2, <2>1 DEF Written
    <3> QED BY <1>1, <1>2, <1>3, <1>4, <3>1
  <2> QED BY <1>2, <1>4, <2>2, <2>3 DEF NodeFollowsRoute
<1>5. CASE n # Head(q)
  <2>1. failedNode'[n] = failedNode[n] /\ nodeRow'[n] = nodeRow[n]
    BY <1>1, <1>3, <1>5
  <2>2. \A r \in Route : Head(r) = n => routeRow'[r] = routeRow[r]
    BY <1>1, <1>3, <1>5
  <2> QED BY <1>1, <1>3, <2>1, <2>2 DEF NodeFollowsRoute, InForce
<1> QED BY <1>4, <1>5

LEMMA NodeSucceed ==
  ASSUME NodeInv, HealthTypeOK', NEW q \in Route, SucceedRoute(q)
  PROVE  NodeInv'
<1> SUFFICES ASSUME NEW n \in Node, Forgettable(n)' PROVE NodeFollowsRoute(n)'
  BY DEF NodeInv
<1>1. PICK w \in Written(1 + Len(q)) :
        /\ failedNode' = [m \in Node |-> IF m \in NodesOf(q) THEN 0 ELSE failedNode[m]]
        /\ routeRow' = IF w >= 1 THEN [routeRow EXCEPT ![q] = NoRow] ELSE routeRow
        /\ nodeRow' = [m \in Node |-> IF m \in {q[i] : i \in {j \in DOMAIN q : j < w}} THEN NoRow ELSE nodeRow[m]]
        /\ torn' = IF w < 1 + Len(q) THEN torn \cup {q} ELSE torn
        /\ hour' = hour
  BY DEF SucceedRoute
<1>2. Len(q) \in Nat /\ DOMAIN q = 1 .. Len(q) /\ w \in Nat /\ Head(q) \in NodesOf(q)
  BY RouteAssumption, FirstHop DEF Written
<1>3. /\ NodeFollowsRoute(n) /\ hour \in 0 .. DayTicks - 1
      /\ failedNode \in [Node -> Nat] /\ nodeRow \in [Node -> Int] /\ routeRow \in [Route -> Int]
  <2>1. torn \subseteq torn'
    BY <1>1
  <2> QED BY <2>1 DEF NodeInv, HealthTypeOK, Forgettable
<1>4. CASE n \in NodesOf(q)
  <2>1. ~ (w < 1 + Len(q))
    BY <1>1, <1>4 DEF Forgettable
  <2>2. n \in {q[i] : i \in {j \in DOMAIN q : j < w}}
    BY <1>2, <1>4, <2>1 DEF NodesOf
  <2>3. failedNode'[n] = 0 /\ nodeRow'[n] = NoRow
    BY <1>1, <1>4, <2>2
  <2>4. ~ (hour' + nodeRow'[n] >= 0)
    BY <1>1, <1>3, <2>3, AbsentRow
  <2> QED BY <2>3, <2>4 DEF NodeFollowsRoute, InForce
<1>5. CASE n \notin NodesOf(q)
  <2>1. failedNode'[n] = failedNode[n] /\ nodeRow'[n] \in {nodeRow[n], NoRow}
    BY <1>1, <1>5
  <2>2. \A r \in Route : Head(r) = n => routeRow'[r] = routeRow[r]
    BY <1>1, <1>2, <1>3, <1>5
  <2>3. InForce(nodeRow[n])' => nodeRow'[n] = nodeRow[n] /\ InForce(nodeRow[n])
    <3>1. ~ (hour' + NoRow >= 0)
      BY <1>1, <1>3, AbsentRow
    <3> QED BY <1>1, <2>1, <3>1 DEF InForce
  <2>4. failedNode'[n] > 0 => \E r \in Route : Head(r) = n /\ routeRow'[r] >= failedNode'[n]
    BY <1>3, <2>1, <2>2 DEF NodeFollowsRoute
  <2>5. InForce(nodeRow[n])' => \E r \in Route : Head(r) = n /\ routeRow'[r] >= nodeRow'[n]
    BY <1>3, <2>2, <2>3 DEF NodeFollowsRoute
  <2> QED BY <2>4, <2>5 DEF NodeFollowsRoute, InForce
<1> QED BY <1>4, <1>5

LEMMA NodeRestart ==
  ASSUME NodeInv, HealthTypeOK', HealthRestart
  PROVE  NodeInv'
<1> SUFFICES ASSUME NEW n \in Node, Forgettable(n)' PROVE NodeFollowsRoute(n)'
  BY DEF NodeInv
<1>1. /\ NodeFollowsRoute(n) /\ UNCHANGED <<routeRow, nodeRow, hour>> /\ failedNode'[n] = Remaining(nodeRow[n])
      /\ hour \in 0 .. DayTicks - 1 /\ nodeRow[n] \in Int
  BY DEF NodeInv, Forgettable, HealthRestart, HealthTypeOK, rows
<1>2. failedNode'[n] > 0 => failedNode'[n] = nodeRow[n] /\ InForce(nodeRow[n])
  BY <1>1 DEF Remaining, InForce
<1> QED BY <1>1, <1>2 DEF NodeFollowsRoute, InForce

(* No report leaves a node behind: a node is left out only while a failed  *)
(* route starts at it, or after the database refused a write.              *)
THEOREM NodesAreLeftOutWithRoutes == HealthSpec => []NodeOutWithRoute
<1>1. HealthInit /\ HealthTypeOK => NodeInv
  <2> SUFFICES ASSUME HealthInit, HealthTypeOK, NEW n \in Node PROVE NodeFollowsRoute(n)
    BY DEF NodeInv
  <2>1. failedNode[n] = 0 /\ nodeRow[n] = NoRow /\ hour \in 0 .. DayTicks - 1
    BY DEF HealthInit, HealthTypeOK
  <2>2. ~ (hour + NoRow >= 0)
    BY <2>1, AbsentRow
  <2> QED BY <2>1, <2>2 DEF NodeFollowsRoute, InForce
<1>2. NodeInv /\ HealthTypeOK' /\ [HealthNext]_healthVars => NodeInv'
  <2> SUFFICES ASSUME NodeInv, HealthTypeOK', UNCHANGED healthVars PROVE NodeInv'
    BY NodeTick, NodeFail, NodeSucceed, NodeRestart DEF HealthNext
  <2> QED BY DEF NodeInv, Forgettable, NodeFollowsRoute, InForce, healthVars, memory, rows, history
<1>3. NodeInv => NodeOutWithRoute
  <2> SUFFICES ASSUME NodeInv, NEW n \in Node, NodeFailed(n), Forgettable(n)
               PROVE  \E r \in Route : Head(r) = n /\ RouteFailed(r)
    BY DEF NodeOutWithRoute, Forgettable
  <2>1. /\ NodeFollowsRoute(n) /\ hour \in 0 .. DayTicks - 1 /\ failedNode[n] \in Nat /\ nodeRow[n] \in Int
        /\ \A r \in Route : routeRow[r] \in Int
    BY DEF NodeInv, HealthTypeOK
  <2> QED BY <2>1 DEF NodeFollowsRoute, NodeFailed, RouteFailed, InForce
<1> QED BY <1>1, <1>2, <1>3, HealthTypeCorrect, PTL DEF HealthSpec

-----------------------------------------------------------------------------
(* What is known of the leases and of the pending reports.                 *)
LeaseRecord == [hops : Route, instance : Instance \cup {NoInstance}, left : 0 .. LeaseTtl]
RowRecord == [exit : Node, instance : Instance \cup {NoInstance}, left : -1 .. LeaseTtl]

EndpointTypes ==
  /\ up \in SUBSET Node
  /\ lease \in [Session -> {NoLease} \cup LeaseRecord]
  /\ leaseRow \in [Session -> {NoLeaseRow} \cup RowRecord]
  /\ pending \in SUBSET [session : Session \cup {Anonymous}, hops : Route]
  /\ probed \in Route \cup {<<>>}

(* A route has a last hop.                                                 *)
LEMMA LastHop ==
  ASSUME NEW r \in Route
  PROVE  r # <<>> /\ Len(r) \in 1 .. Len(r) /\ Last(r) \in Node
  BY RouteAssumption DEF Last

(* The row written for a lease is a row.                                   *)
LEMMA RowOfLease ==
  ASSUME NEW l \in LeaseRecord
  PROVE  RowOf(l) \in RowRecord
<1>1. l.hops \in Route /\ l.instance \in Instance \cup {NoInstance} /\ l.left \in 0 .. LeaseTtl
  BY DEF LeaseRecord
<1>2. l.left \in -1 .. LeaseTtl
  BY <1>1, SessionAssumption
<1> QED BY <1>1, <1>2, LastHop DEF RowOf, RowRecord

(* A lease that can be reused is one.                                      *)
LEMMA ReusableIsLease ==
  ASSUME NEW l \in {NoLease} \cup LeaseRecord, l.left > 0
  PROVE  l \in LeaseRecord
  BY DEF NoLease

(* What is selected is a route through the pools that is not excluded.     *)
LEMMA Selected ==
  ASSUME NEW r \in Selection
  PROVE  r \in Route /\ MatchesPools(r) /\ ~ RouteFailed(r)
  BY DEF Selection, Preferred, KnownHealthy, Searched

(* Binding an instance changes nothing else of a lease.                    *)
LEMMA BoundLease ==
  ASSUME NEW l \in LeaseRecord, NEW i \in Instance \cup {NoInstance}
  PROVE  /\ Bound(l, i) \in LeaseRecord
         /\ Bound(l, i).hops = l.hops
         /\ Bound(l, i).left = l.left
  BY DEF Bound, LeaseRecord

(* A routed request is a session or none, and a route.                     *)
LEMMA RequestedTypes ==
  ASSUME NEW s \in Session \cup {Anonymous}, NEW r \in Route,
         pending \in SUBSET [session : Session \cup {Anonymous}, hops : Route],
         Requested(s, r)
  PROVE  pending' \in SUBSET [session : Session \cup {Anonymous}, hops : Route]
  BY DEF Requested

LEMMA EndpointInitially == Init => EndpointTypes
  BY DEF Init, EndpointTypes

-----------------------------------------------------------------------------
(* Every step keeps the types.                                             *)
LEMMA EndpointTypesKept ==
  ASSUME EndpointTypes, [Next]_vars
  PROVE  EndpointTypes'
<1> USE DEF EndpointTypes
<1>1. ASSUME NEW s \in Session, RouteReused(s)
      PROVE  EndpointTypes'
  <2>1. lease[s] \in LeaseRecord
    BY <1>1, ReusableIsLease DEF RouteReused, Reusable
  <2>2. PICK i \in Instance \cup {NoInstance} :
          lease' = [lease EXCEPT ![s] = Bound(@, i)]
    BY <1>1 DEF RouteReused
  <2>3. lease'[s] \in LeaseRecord /\ lease' \in [Session -> {NoLease} \cup LeaseRecord]
    BY <2>1, <2>2, BoundLease
  <2>4. RowOf(lease'[s]) \in RowRecord
    BY <2>3, RowOfLease
  <2>5. leaseRow' \in [Session -> {NoLeaseRow} \cup RowRecord]
    BY <1>1, <2>4 DEF RouteReused
  <2>6. lease[s].hops \in Route
    BY <2>1 DEF LeaseRecord
  <2>7. pending' \in SUBSET [session : Session \cup {Anonymous}, hops : Route]
    BY <1>1, <2>6, RequestedTypes DEF RouteReused
  <2> QED BY <1>1, <2>3, <2>5, <2>7 DEF RouteReused
<1>2. ASSUME NEW s \in Session, RouteNew(s)
      PROVE  EndpointTypes'
  <2>1. PICK r \in Selection, i \in Instance \cup {NoInstance} :
          /\ lease' = [lease EXCEPT ![s] =
                         [hops |-> r, instance |-> i, left |-> LeaseTtl]]
          /\ leaseRow' = [leaseRow EXCEPT ![s] = RowOf(lease'[s])]
          /\ Requested(s, r)
    BY <1>2 DEF RouteNew
  <2>2. r \in Route /\ LeaseTtl \in 0 .. LeaseTtl
    BY Selected, SessionAssumption
  <2>3. [hops |-> r, instance |-> i, left |-> LeaseTtl] \in LeaseRecord
    BY <2>2 DEF LeaseRecord
  <2>4. lease'[s] \in LeaseRecord /\ lease' \in [Session -> {NoLease} \cup LeaseRecord]
    BY <2>1, <2>3
  <2>5. RowOf(lease'[s]) \in RowRecord
    BY <2>4, RowOfLease
  <2>6. leaseRow' \in [Session -> {NoLeaseRow} \cup RowRecord]
    BY <2>1, <2>5
  <2>7. pending' \in SUBSET [session : Session \cup {Anonymous}, hops : Route]
    BY <2>1, <2>2, RequestedTypes
  <2> QED BY <1>2, <2>4, <2>6, <2>7 DEF RouteNew
<1>3. ASSUME NEW s \in Session, RouteNone(s)
      PROVE  EndpointTypes'
  BY <1>3 DEF RouteNone, clients
<1>4. ASSUME RouteAnonymous
      PROVE  EndpointTypes'
  <2>1. pending' \in SUBSET [session : Session \cup {Anonymous}, hops : Route]
    BY <1>4, Selected, RequestedTypes DEF RouteAnonymous
  <2> QED BY <1>4, <2>1 DEF RouteAnonymous, leases
<1>5. ASSUME NEW p \in pending, ReportFailure(p) \/ ReportSuccess(p)
      PROVE  EndpointTypes'
  BY <1>5 DEF ReportFailure, ReportSuccess, leases
<1>6. ASSUME NEW s \in Session, ProbeStarts(s)
      PROVE  EndpointTypes'
  <2>1. lease[s].hops \in Route
    BY <1>6 DEF ProbeStarts, LeaseRecord
  <2> QED BY <1>6, <2>1 DEF ProbeStarts, leases
<1>7. CASE ProbeEnds
  BY <1>7 DEF ProbeEnds, leases
<1>8. CASE CleanupLeases
  BY <1>8 DEF CleanupLeases, clients
<1>9. ASSUME NEW n \in Node, NodeTested(n)
      PROVE  EndpointTypes'
  BY <1>9 DEF NodeTested, leases, clients
<1>10. CASE Tick
  <2>1. \A l \in LeaseRecord : [l EXCEPT !.left = Down(@)] \in LeaseRecord
    <3> SUFFICES ASSUME NEW l \in LeaseRecord
                 PROVE  [l EXCEPT !.left = Down(@)] \in LeaseRecord
      OBVIOUS
    <3>1. Down(l.left) \in 0 .. LeaseTtl
      BY SessionAssumption DEF LeaseRecord, Down
    <3> QED BY <3>1 DEF LeaseRecord
  <2>2. [NoLease EXCEPT !.left = Down(@)] = NoLease
    BY DEF NoLease, Down
  <2>3. \A w \in RowRecord : [w EXCEPT !.left = IF @ < 0 THEN @ ELSE @ - 1] \in RowRecord
    <3> SUFFICES ASSUME NEW w \in RowRecord
                 PROVE  [w EXCEPT !.left = IF @ < 0 THEN @ ELSE @ - 1] \in RowRecord
      OBVIOUS
    <3>1. (IF w.left < 0 THEN w.left ELSE w.left - 1) \in -1 .. LeaseTtl
      BY SessionAssumption DEF RowRecord
    <3> QED BY <3>1 DEF RowRecord
  <2>4. [NoLeaseRow EXCEPT !.left = IF @ < 0 THEN @ ELSE @ - 1] = NoLeaseRow
    BY DEF NoLeaseRow
  <2>5. lease' \in [Session -> {NoLease} \cup LeaseRecord]
    BY <1>10, <2>1, <2>2 DEF Tick
  <2>6. leaseRow' \in [Session -> {NoLeaseRow} \cup RowRecord]
    BY <1>10, <2>3, <2>4 DEF Tick
  <2> QED BY <1>10, <2>5, <2>6 DEF Tick, clients
<1>11. CASE Restart
  <2>1. PICK h \in [Session -> Route \cup {<<>>}] :
          /\ \A s \in Session :
               leaseRow[s] # NoLeaseRow => h[s] \in RestoredHops(leaseRow[s].exit)
          /\ lease' = [s \in Session |->
               IF leaseRow[s] = NoLeaseRow THEN NoLease
               ELSE [hops |-> h[s], instance |-> leaseRow[s].instance,
                     left |-> Remaining(leaseRow[s].left)]]
    BY <1>11 DEF Restart
  <2>2. ASSUME NEW s \in Session, leaseRow[s] # NoLeaseRow
        PROVE  lease'[s] \in LeaseRecord
    <3>1. leaseRow[s] \in RowRecord
      BY <2>2
    <3>2. h[s] \in Route
      BY <2>1, <2>2 DEF RestoredHops
    <3>3. Remaining(leaseRow[s].left) \in 0 .. LeaseTtl
      BY <3>1, SessionAssumption DEF RowRecord, Remaining
    <3>4. leaseRow[s].instance \in Instance \cup {NoInstance}
      BY <3>1 DEF RowRecord
    <3> QED BY <2>1, <2>2, <3>2, <3>3, <3>4 DEF LeaseRecord
  <2>3. lease' \in [Session -> {NoLease} \cup LeaseRecord]
    BY <2>1, <2>2
  <2> QED BY <1>11, <2>3 DEF Restart
<1>12. CASE UNCHANGED vars
  BY <1>12 DEF vars, leases, clients
<1> QED
  BY <1>1, <1>2, <1>3, <1>4, <1>5, <1>6, <1>7, <1>8, <1>9, <1>10, <1>11, <1>12 DEF Next

LEMMA EndpointTypesAlways == Spec => []EndpointTypes
  BY EndpointInitially, EndpointTypesKept, PTL DEF Spec

-----------------------------------------------------------------------------
(* The routing of an endpoint implements RouteHealth: whatever sessions,   *)
(* crashes and late reports do, the memory of routes only takes its steps. *)
THEOREM RoutingImplementsHealth == Spec => HealthSpec
<1>1. Init => HealthInit
  BY DEF Init
<1>2. EndpointTypes /\ [Next]_vars => [HealthNext]_healthVars
  <2> SUFFICES ASSUME EndpointTypes, [Next]_vars
               PROVE  HealthNext \/ UNCHANGED healthVars
    OBVIOUS
  <2>1. ASSUME NEW p \in pending, ReportFailure(p) \/ ReportSuccess(p)
        PROVE  HealthNext
    <3>1. p.hops \in Route
      BY <2>1 DEF EndpointTypes
    <3> QED BY <2>1, <3>1 DEF ReportFailure, ReportSuccess, HealthNext
  <2>2. CASE ProbeEnds
    <3>1. probed \in Route
      BY <2>2 DEF ProbeEnds, EndpointTypes
    <3> QED BY <2>2, <3>1 DEF ProbeEnds, HealthNext
  <2>3. CASE Tick
    BY <2>3 DEF Tick, HealthNext
  <2>4. CASE Restart
    BY <2>4 DEF Restart, HealthNext
  <2>5. CASE UNCHANGED vars
    BY <2>5 DEF vars
  <2>6. ASSUME NEW s \in Session,
               RouteReused(s) \/ RouteNew(s) \/ RouteNone(s) \/ ProbeStarts(s)
        PROVE  UNCHANGED healthVars
    BY <2>6 DEF RouteReused, RouteNew, RouteNone, ProbeStarts
  <2>7. CASE RouteAnonymous \/ CleanupLeases \/ \E n \in Node : NodeTested(n)
    BY <2>7 DEF RouteAnonymous, CleanupLeases, NodeTested
  <2> QED BY <2>1, <2>2, <2>3, <2>4, <2>5, <2>6, <2>7 DEF Next
<1> QED BY <1>1, <1>2, EndpointTypesAlways, PTL DEF Spec, HealthSpec

(* The types of the whole.                                                 *)
THEOREM RoutingTypeCorrect == Spec => []TypeOK
<1>1. EndpointTypes /\ HealthTypeOK => TypeOK
  BY DEF EndpointTypes, LeaseRecord, RowRecord, TypeOK
<1> QED BY <1>1, EndpointTypesAlways, RoutingImplementsHealth, HealthTypeCorrect, PTL

-----------------------------------------------------------------------------
(* A lease and its row agree while either is in force.                     *)
Durable(l, w) ==
  l.left > 0 \/ w.left > 0 => l # NoLease /\ w = RowOf(l)

LEMMA DurableKept ==
  ASSUME EndpointTypes, EndpointTypes', LeaseIsDurable, [Next]_vars
  PROVE  LeaseIsDurable'
<1> SUFFICES ASSUME NEW s \in Session
             PROVE  Durable(lease'[s], leaseRow'[s])
  BY DEF LeaseIsDurable, Durable
<1>0. /\ Durable(lease[s], leaseRow[s])
      /\ lease[s] \in {NoLease} \cup LeaseRecord
      /\ leaseRow[s] \in {NoLeaseRow} \cup RowRecord
  BY DEF LeaseIsDurable, Durable, EndpointTypes
<1>1. CASE UNCHANGED <<lease[s], leaseRow[s]>>
  BY <1>0, <1>1
<1>2. ASSUME NEW t \in Session, RouteReused(t)
      PROVE  Durable(lease'[s], leaseRow'[s])
  <2>1. CASE t # s
    BY <1>2, <2>1, <1>1 DEF RouteReused, EndpointTypes
  <2>2. CASE t = s
    <3>1. lease[s] \in LeaseRecord
      BY <1>2, <2>2, <1>0, ReusableIsLease DEF RouteReused, Reusable
    <3>2. lease'[s] \in LeaseRecord /\ leaseRow'[s] = RowOf(lease'[s])
      BY <1>2, <2>2, <3>1, BoundLease DEF RouteReused, EndpointTypes
    <3>3. lease'[s] # NoLease
      BY <3>2, LastHop DEF LeaseRecord, NoLease
    <3> QED BY <3>2, <3>3 DEF Durable
  <2> QED BY <2>1, <2>2
<1>3. ASSUME NEW t \in Session, RouteNew(t)
      PROVE  Durable(lease'[s], leaseRow'[s])
  <2>1. CASE t # s
    BY <1>3, <2>1, <1>1 DEF RouteNew, EndpointTypes
  <2>2. CASE t = s
    <3>1. PICK r \in Selection : lease'[s].hops = r /\ leaseRow'[s] = RowOf(lease'[s])
      BY <1>3, <2>2 DEF RouteNew, EndpointTypes
    <3>2. lease'[s] # NoLease
      BY <3>1, Selected, LastHop DEF NoLease
    <3> QED BY <3>1, <3>2 DEF Durable
  <2> QED BY <2>1, <2>2
<1>4. ASSUME NEW t \in Session, RouteNone(t)
      PROVE  Durable(lease'[s], leaseRow'[s])
  <2>1. leaseRow'[s] = leaseRow[s]
    BY <1>4 DEF RouteNone
  <2>2. lease'[s] = lease[s] \/ (lease'[s] = NoLease /\ ~ (lease[s].left > 0))
    BY <1>4 DEF RouteNone, EndpointTypes
  <2>3. ASSUME lease'[s] = NoLease, ~ (lease[s].left > 0)
        PROVE  ~ (leaseRow[s].left > 0)
    BY <2>3, <1>0 DEF Durable, RowOf
  <2> QED BY <2>1, <2>2, <2>3, <1>0 DEF Durable, NoLease
<1>5. ASSUME NEW p \in pending, ReportFailure(p)
      PROVE  Durable(lease'[s], leaseRow'[s])
  BY <1>5, <1>0 DEF ReportFailure, Durable, NoLease, NoLeaseRow
<1>6. CASE CleanupLeases
  <2>1. lease'[s] = IF lease[s].left > 0 THEN lease[s] ELSE NoLease
    BY <1>6 DEF CleanupLeases
  <2>2. leaseRow'[s] = IF leaseRow[s].left >= 0 THEN leaseRow[s] ELSE NoLeaseRow
    BY <1>6 DEF CleanupLeases
  <2>3. lease[s].left \in Int /\ leaseRow[s].left \in Int
    BY <1>0, SessionAssumption DEF LeaseRecord, RowRecord, NoLease, NoLeaseRow
  <2>4. CASE lease[s].left > 0
    BY <2>1, <2>2, <2>3, <2>4, <1>0 DEF Durable, RowOf
  <2>5. CASE ~ (lease[s].left > 0)
    <3>1. ~ (leaseRow[s].left > 0)
      BY <2>5, <1>0 DEF Durable, RowOf
    <3> QED BY <2>1, <2>2, <2>5, <3>1 DEF Durable, NoLease, NoLeaseRow
  <2> QED BY <2>4, <2>5
<1>7. CASE Tick
  <2>1. lease'[s] = [lease[s] EXCEPT !.left = Down(@)]
    BY <1>7 DEF Tick
  <2>2. leaseRow'[s] = [leaseRow[s] EXCEPT !.left = IF @ < 0 THEN @ ELSE @ - 1]
    BY <1>7 DEF Tick
  <2>3. lease[s].left \in Nat /\ leaseRow[s].left \in Int
    BY <1>0, SessionAssumption DEF LeaseRecord, RowRecord, NoLease, NoLeaseRow
  <2>4. /\ lease'[s].left = Down(lease[s].left)
        /\ leaseRow'[s].left = IF leaseRow[s].left < 0 THEN leaseRow[s].left
                               ELSE leaseRow[s].left - 1
    BY <2>1, <2>2, <1>0 DEF LeaseRecord, RowRecord, NoLease, NoLeaseRow
  <2> SUFFICES ASSUME lease'[s].left > 0 \/ leaseRow'[s].left > 0
               PROVE  lease'[s] # NoLease /\ leaseRow'[s] = RowOf(lease'[s])
    BY DEF Durable
  <2>5. lease[s].left > 0 \/ leaseRow[s].left > 0
    BY <2>3, <2>4 DEF Down
  <2>6. lease[s] # NoLease /\ leaseRow[s] = RowOf(lease[s])
    BY <2>5, <1>0 DEF Durable
  <2>7. lease[s] \in LeaseRecord /\ lease[s].left > 0
    BY <2>5, <2>6, <1>0 DEF RowOf
  <2>8. lease'[s] # NoLease
    BY <2>1, <2>7, LastHop DEF LeaseRecord, NoLease
  <2>9. leaseRow'[s] = RowOf(lease'[s])
    BY <2>1, <2>2, <2>6, <2>7 DEF RowOf, LeaseRecord, Down
  <2> QED BY <2>8, <2>9
<1>8. CASE Restart
  <2> DEFINE w == leaseRow[s]
  <2>1. leaseRow'[s] = w
    BY <1>8 DEF Restart
  <2>2. CASE w = NoLeaseRow
    <3>1. lease'[s] = NoLease
      BY <1>8, <2>2 DEF Restart
    <3> QED BY <2>1, <2>2, <3>1 DEF Durable, NoLease, NoLeaseRow
  <2>3. CASE w # NoLeaseRow
    <3>1. PICK r : /\ r \in RestoredHops(w.exit)
                   /\ lease'[s] = [hops |-> r, instance |-> w.instance,
                                   left |-> Remaining(w.left)]
      BY <1>8, <2>3 DEF Restart
    <3>2. r \in Route /\ Last(r) = w.exit
      BY <3>1 DEF RestoredHops
    <3>3. lease'[s] # NoLease
      BY <3>1, <3>2, LastHop DEF NoLease
    <3>4. w \in RowRecord /\ w.left \in Int
      BY <2>3, <1>0, SessionAssumption DEF RowRecord
    <3>5. w.left > 0 \/ Remaining(w.left) > 0 => w = RowOf(lease'[s])
      BY <3>1, <3>2, <3>4 DEF RowOf, RowRecord, Remaining
    <3>6. lease'[s].left = Remaining(w.left)
      BY <3>1
    <3> QED BY <2>1, <3>3, <3>5, <3>6 DEF Durable
  <2> QED BY <2>2, <2>3
<1>9. ASSUME NEW p \in pending, ReportSuccess(p)
      PROVE  Durable(lease'[s], leaseRow'[s])
  BY <1>9, <1>1 DEF ReportSuccess, leases
<1>10. ASSUME NEW t \in Session, ProbeStarts(t)
       PROVE  Durable(lease'[s], leaseRow'[s])
  BY <1>10, <1>1 DEF ProbeStarts, leases
<1>11. CASE RouteAnonymous \/ ProbeEnds \/ (\E n \in Node : NodeTested(n)) \/ UNCHANGED vars
  BY <1>11, <1>1 DEF RouteAnonymous, ProbeEnds, NodeTested, vars, leases
<1> QED
  BY <1>2, <1>3, <1>4, <1>5, <1>6, <1>7, <1>8, <1>9, <1>10, <1>11 DEF Next

(* A crash at any moment loses no session's lease and revives none.        *)
THEOREM LeasesAreDurable == Spec => []LeaseIsDurable
<1>1. Init => LeaseIsDurable
  BY DEF Init, LeaseIsDurable, NoLease, NoLeaseRow
<1> QED BY <1>1, EndpointTypesAlways, DurableKept, PTL DEF Spec

-----------------------------------------------------------------------------
(* A route newly given to a session is sound: it crosses the hops of the   *)
(* endpoint and has no failure to be honoured.                             *)
THEOREM NewRoutesAreSound == Spec => NewRouteIsSound
<1>1. EndpointTypes /\ HealthIInv /\ HealthTypeOK /\ [Next]_vars =>
        [\A s \in Session :
           lease'[s].hops # lease[s].hops /\ lease'[s] # NoLease /\ restarts' = restarts =>
             MatchesPools(lease'[s].hops) /\ due[lease'[s].hops] = 0]_vars
  <2> SUFFICES ASSUME EndpointTypes, HealthIInv, HealthTypeOK, [Next]_vars, NEW s \in Session,
                      lease'[s].hops # lease[s].hops, lease'[s] # NoLease,
                      restarts' = restarts
               PROVE  MatchesPools(lease'[s].hops) /\ due[lease'[s].hops] = 0
    OBVIOUS
  <2>1. ASSUME NEW t \in Session, RouteNew(t)
        PROVE  MatchesPools(lease'[s].hops) /\ due[lease'[s].hops] = 0
    <3>1. t = s
      BY <2>1 DEF RouteNew, EndpointTypes
    <3>2. PICK r \in Selection : lease'[s].hops = r
      BY <2>1, <3>1 DEF RouteNew, EndpointTypes
    <3>3. r \in Route /\ MatchesPools(r) /\ ~ RouteFailed(r)
      BY Selected
    <3>4. ~ (due[r] > 0) /\ due[r] \in Nat
      BY <3>3 DEF HealthIInv, HealthTypes, DueIsKept, RouteFailed, InForce
    <3> QED BY <3>2, <3>3, <3>4
  <2>2. ASSUME NEW t \in Session, RouteReused(t)
        PROVE  FALSE
    <3>1. t = s
      BY <2>2 DEF RouteReused, EndpointTypes
    <3>2. lease[s] \in LeaseRecord
      BY <2>2, <3>1, ReusableIsLease DEF RouteReused, Reusable, EndpointTypes
    <3> QED BY <2>2, <3>1, <3>2, BoundLease DEF RouteReused, EndpointTypes
  <2>3. CASE Tick
    BY <2>3 DEF Tick, EndpointTypes, LeaseRecord, NoLease
  <2>4. ~ Restart
    BY BoundAssumption DEF Restart, HealthRestart, HealthTypeOK
  <2>5. ASSUME NEW t \in Session, RouteNone(t)
        PROVE  FALSE
    BY <2>5 DEF RouteNone, EndpointTypes
  <2>6. ASSUME NEW p \in pending, ReportFailure(p)
        PROVE  FALSE
    BY <2>6 DEF ReportFailure
  <2>7. CASE CleanupLeases
    BY <2>7 DEF CleanupLeases
  <2>8. ASSUME lease' = lease
        PROVE  FALSE
    BY <2>8
  <2>9. ASSUME NEW p \in pending, ReportSuccess(p)
        PROVE  lease' = lease
    BY <2>9 DEF ReportSuccess, leases
  <2>10. CASE RouteAnonymous \/ ProbeEnds \/ UNCHANGED vars
    BY <2>8, <2>10 DEF RouteAnonymous, ProbeEnds, vars, leases
  <2>11. ASSUME NEW t \in Session, ProbeStarts(t)
         PROVE  lease' = lease
    BY <2>11 DEF ProbeStarts, leases
  <2>12. ASSUME NEW n \in Node, NodeTested(n)
         PROVE  lease' = lease
    BY <2>12 DEF NodeTested, leases
  <2> QED BY <2>1, <2>2, <2>3, <2>4, <2>5, <2>6, <2>7, <2>8, <2>9, <2>10, <2>11, <2>12 DEF Next
<1>2. Spec => []HealthIInv
  BY RoutingImplementsHealth, HealthAlways, PTL
<1>3. Spec => []HealthTypeOK
  BY RoutingImplementsHealth, HealthTypeCorrect, PTL
<1> QED BY <1>1, <1>2, <1>3, EndpointTypesAlways, PTL DEF Spec, NewRouteIsSound

-----------------------------------------------------------------------------
(* A session whose nodes are up keeps its exit until its lease ends or its *)
(* own preflight fails: the row a restart reads names the lease's exit.    *)
THEOREM SessionsKeepTheirExit == Spec => SessionKeepsExit
<1>1. EndpointTypes /\ LeaseIsDurable /\ HealthTypeOK /\ [Next]_vars =>
        [\A s \in Session :
           Reusable(lease[s]) /\ lease'[s] # NoLease =>
             /\ Last(lease'[s].hops) = Last(lease[s].hops)
             /\ restarts' = restarts => lease'[s].hops = lease[s].hops]_vars
  <2> SUFFICES ASSUME EndpointTypes, LeaseIsDurable, HealthTypeOK, [Next]_vars, NEW s \in Session,
                      Reusable(lease[s]), lease'[s] # NoLease
               PROVE  /\ Last(lease'[s].hops) = Last(lease[s].hops)
                      /\ restarts' = restarts => lease'[s].hops = lease[s].hops
    OBVIOUS
  <2> DEFINE Kept == lease'[s].hops = lease[s].hops
  <2>1. SUFFICES ASSUME ~Kept
                 PROVE  Last(lease'[s].hops) = Last(lease[s].hops) /\ restarts' # restarts
    OBVIOUS
  <2>2. lease[s] \in LeaseRecord /\ lease[s].left > 0
    BY ReusableIsLease DEF Reusable, EndpointTypes
  <2>3. lease'[s] # lease[s]
    BY <2>1
  <2>4. ASSUME NEW t \in Session, RouteReused(t)
        PROVE  FALSE
    <3>1. t = s
      BY <2>3, <2>4 DEF RouteReused, EndpointTypes
    <3> QED BY <2>1, <2>2, <2>4, <3>1, BoundLease DEF RouteReused, EndpointTypes
  <2>5. ASSUME NEW t \in Session, RouteNew(t) \/ RouteNone(t)
        PROVE  FALSE
    <3>1. t = s
      BY <2>3, <2>5 DEF RouteNew, RouteNone, EndpointTypes
    <3> QED BY <2>5, <3>1 DEF RouteNew, RouteNone
  <2>6. ASSUME NEW p \in pending, ReportFailure(p)
        PROVE  FALSE
    BY <2>3, <2>6 DEF ReportFailure
  <2>7. ~ CleanupLeases
    BY <2>3 DEF CleanupLeases
  <2>8. ~ Tick
    BY <2>1 DEF Tick, EndpointTypes, LeaseRecord, NoLease
  <2>9. ASSUME Restart
        PROVE  Last(lease'[s].hops) = Last(lease[s].hops) /\ restarts' # restarts
    <3>1. leaseRow[s] = RowOf(lease[s])
      BY <2>2 DEF LeaseIsDurable
    <3>2. leaseRow[s] # NoLeaseRow
      <4>1. leaseRow[s].left = lease[s].left
        BY <3>1 DEF RowOf
      <4> QED BY <2>2, <4>1 DEF NoLeaseRow
    <3>3. PICK r : r \in RestoredHops(leaseRow[s].exit) /\ lease'[s].hops = r
      BY <2>9, <3>2 DEF Restart
    <3>4. Last(r) = Last(lease[s].hops)
      BY <3>1, <3>3 DEF RestoredHops, RowOf
    <3>5. restarts' # restarts
      BY <2>9, BoundAssumption DEF Restart, HealthRestart, HealthTypeOK
    <3> QED BY <3>3, <3>4, <3>5
  <2>10. ASSUME NEW p \in pending, ReportSuccess(p)
         PROVE  lease' = lease
    BY <2>10 DEF ReportSuccess, leases
  <2>11. ASSUME RouteAnonymous \/ ProbeEnds \/ UNCHANGED vars
         PROVE  lease' = lease
    BY <2>11 DEF RouteAnonymous, ProbeEnds, vars, leases
  <2>12. ASSUME NEW t \in Session, ProbeStarts(t)
         PROVE  lease' = lease
    BY <2>12 DEF ProbeStarts, leases
  <2>13. ASSUME NEW n \in Node, NodeTested(n)
         PROVE  lease' = lease
    BY <2>13 DEF NodeTested, leases
  <2> QED BY <2>3, <2>4, <2>5, <2>6, <2>7, <2>8, <2>9, <2>10, <2>11, <2>12, <2>13 DEF Next
<1>2. Spec => []HealthTypeOK
  BY RoutingImplementsHealth, HealthTypeCorrect, PTL
<1> QED BY <1>1, <1>2, EndpointTypesAlways, LeasesAreDurable, PTL DEF Spec, SessionKeepsExit
=============================================================================
