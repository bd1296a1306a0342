------------------------ MODULE ConnectGatewayProofs ------------------------
(***************************************************************************)
(* Safety of ConnectGateway and of the instances under it, for any routes, *)
(* ports, process ids, connections and attempts.                           *)
(*                                                                         *)
(* The operations on instances are operators on states, so first comes     *)
(* what each of them preserves (Good), and what a state has in which       *)
(* Ensured succeeds.  A spawn puts its process in the table before the row *)
(* says so: until then the row of that one route need not be right.        *)
(***************************************************************************)
EXTENDS ConnectGateway, FiniteSetTheorems, WellFoundedInduction, TLAPS

Typed(s) ==
  /\ s.rows \in [Routes -> Row] /\ s.table \in [Routes -> Pids \cup {NoPid}]
  /\ s.procs \in [Pids -> Process] /\ s.ok \in BOOLEAN

Own(s, r) == s.rows[r].status = "running" => s.table[r] \in {s.rows[r].pid, NoPid}

Good(s) == Typed(s) /\ \A r \in Routes : Own(s, r)

GoodBut(s, r) == Typed(s) /\ \A q \in Routes \ {r} : Own(s, q)

LEMMA Constants ==
  /\ IsFiniteSet(Routes) /\ Routes # {} /\ Ports \subseteq Nat \ {0} /\ MaxPid \in Nat
  /\ ConnectAttempts \in Nat \ {0} /\ Nobody \notin Conns
  /\ NoPid \notin Pids /\ Gone \in Process
BY InstancesAssumption, GatewayAssumption DEF Pids, NoPid, Gone, Process

-----------------------------------------------------------------------------
(* The operations on instances.                                             *)

LEMMA UpsertedIsGood ==
  ASSUME NEW s, NEW r \in Routes, GoodBut(s, r),
         NEW status \in Status, NEW port \in Ports \cup {0}, NEW pid \in Pids \cup {NoPid},
         status = "running" => s.table[r] \in {pid, NoPid}
  PROVE  /\ Good(Upserted(s, r, status, port, pid))
         /\ Upserted(s, r, status, port, pid).ok = s.ok
         /\ Upserted(s, r, status, port, pid).procs = s.procs
         /\ Upserted(s, r, status, port, pid).rows[r].port = port
         /\ Upserted(s, r, status, port, pid).rows[r].status = status
<1>1. PICK row \in Row : row = [status |-> status, port |-> port, pid |-> pid]
  BY DEF Row
<1>2. Upserted(s, r, status, port, pid) = State([s.rows EXCEPT ![r] = row], s.table, s.procs, s.ok)
  BY <1>1 DEF Upserted
<1>3. row.status = status /\ row.port = port /\ row.pid = pid
  BY <1>1
<1> QED BY <1>2, <1>3 DEF State, Good, GoodBut, Typed, Own

LEMMA FailingIsGood ==
  ASSUME NEW s, Good(s)
  PROVE  Good(Failing(s)) /\ ~Failing(s).ok
BY DEF Failing, State, Good, Typed, Own

LEMMA GoodRows ==
  ASSUME NEW s, NEW r \in Routes, GoodBut(s, r)
  PROVE  /\ s.rows[r] \in Row /\ s.rows[r].status \in Status /\ s.rows[r].port \in Ports \cup {0}
         /\ s.rows[r].pid \in Pids \cup {NoPid} /\ s.table[r] \in Pids \cup {NoPid}
BY DEF GoodBut, Typed, Row

LEMMA GoodIsGoodBut ==
  ASSUME NEW s, NEW r, Good(s)
  PROVE  GoodBut(s, r)
BY DEF Good, GoodBut

LEMMA EndedIsGood ==
  ASSUME NEW s, NEW r \in Routes, GoodBut(s, r), NEW status \in {"stopped", "failed"}
  PROVE  /\ Good(Ended(s, r, status)) /\ Ended(s, r, status).ok = s.ok
         /\ Ended(s, r, status).rows[r].port = s.rows[r].port
BY GoodRows, UpsertedIsGood DEF Ended, Status

LEMMA BackendStopIsGood ==
  ASSUME NEW s, NEW r \in Routes, GoodBut(s, r)
  PROVE  Good(BackendStop(s, r)) /\ BackendStop(s, r).ok = s.ok
<1>1. s.table[r] \in Pids \cup {NoPid}
  BY GoodRows
<1>2. PICK procsLeft \in [Pids -> Process] :
        procsLeft = IF s.table[r] = NoPid THEN s.procs ELSE [s.procs EXCEPT ![s.table[r]] = Gone]
  BY <1>1, Constants DEF GoodBut, Typed
<1>3. BackendStop(s, r) = State(s.rows, [s.table EXCEPT ![r] = NoPid], procsLeft, s.ok)
  BY <1>2 DEF BackendStop
<1> QED BY <1>3 DEF State, Good, GoodBut, Typed, Own

LEMMA StopIsGood ==
  ASSUME NEW s, NEW r \in Routes, Good(s)
  PROVE  /\ Good(StopInstance(s, r)) /\ StopInstance(s, r).ok = s.ok
         /\ Good(MarkFailed(s, r))
BY GoodIsGoodBut, BackendStopIsGood, EndedIsGood DEF StopInstance, MarkFailed

LEMMA CorrectedIsGood ==
  ASSUME NEW s, NEW r \in Routes, Good(s)
  PROVE  Good(Corrected(s, r)) /\ Corrected(s, r).ok = s.ok
BY GoodIsGoodBut, EndedIsGood DEF Corrected

LEMMA SweptIsGood ==
  ASSUME NEW s, Good(s)
  PROVE  Good(Swept(s)) /\ Swept(s).ok = s.ok
<1>1. \A r \in Routes : [status |-> "stopped", port |-> s.rows[r].port, pid |-> NoPid] \in Row
  BY GoodRows, GoodIsGoodBut DEF Row, Status
<1> QED BY <1>1 DEF Swept, State, Good, Typed, Own

LEMMA WithPortIsGood ==
  ASSUME NEW s, NEW r \in Routes, Good(s), NEW x \in WithPort(s, r)
  PROVE  Good(x) /\ (x.ok => s.ok)
<1>1. CASE x = s
  BY <1>1
<1>2. CASE x = Failing(s)
  BY <1>2, FailingIsGood
<1>3. CASE \E p \in Allocated(s) : x = Upserted(s, r, s.rows[r].status, p, s.rows[r].pid)
  <2>1. PICK p \in Ports : x = Upserted(s, r, s.rows[r].status, p, s.rows[r].pid)
    BY <1>3 DEF Allocated
  <2>2. s.rows[r].status \in Status /\ s.rows[r].pid \in Pids \cup {NoPid} /\ GoodBut(s, r)
    BY GoodRows, GoodIsGoodBut
  <2>3. s.rows[r].status = "running" => s.table[r] \in {s.rows[r].pid, NoPid}
    BY DEF Good, Own
  <2> QED BY <2>1, <2>2, <2>3, UpsertedIsGood
<1> QED BY <1>1, <1>2, <1>3 DEF WithPort

LEMMA Smallest ==
  ASSUME NEW S \in SUBSET Nat, S # {}
  PROVE  \E m \in S : \A k \in S : m <= k
<1> DEFINE less == {p \in Nat \X Nat : p[1] < p[2]}
<1>1. PICK m \in S : \A k \in S : ~ (<<k, m>> \in less)
  <2>1. IsWellFoundedOn(less, Nat)
    BY NatLessThanWellFounded, Zenon DEF OpToRel
  <2> HIDE DEF less
  <2> QED BY <2>1, WFMin
<1>2. ASSUME NEW k \in S, ~ (m <= k) PROVE FALSE
  <2>1. m \in Nat /\ k \in Nat /\ k < m
    BY <1>2
  <2>2. <<k, m>> \in less
    BY ONLY <2>1
  <2> QED BY <1>1, <2>2
<1> QED BY <1>2

(* A new process answers on the port of its row.                            *)
LEMMA SpawnedIsGoodBut ==
  ASSUME NEW s, NEW r \in Routes, Good(s), FreshPids(s) # {}
  PROVE  LET x == Spawned(s, r)
         IN  /\ GoodBut(x, r) /\ x.ok = s.ok /\ x.rows = s.rows
             /\ Answers(x, s.rows[r].port) /\ x.table[r] \in Pids
<1>1. PICK n : n = CHOOSE m \in FreshPids(s) : \A k \in FreshPids(s) : m <= k
  OBVIOUS
<1>2. n \in Pids /\ n # NoPid
  <2>1. FreshPids(s) \in SUBSET Nat /\ FreshPids(s) \subseteq Pids
    BY Constants DEF FreshPids, Pids
  <2>2. \E m \in FreshPids(s) : \A k \in FreshPids(s) : m <= k
    BY <2>1, Smallest
  <2> QED BY <1>1, <2>1, <2>2, Constants
<1>3. s.rows[r].port \in Ports \cup {0}
  BY GoodRows, GoodIsGoodBut
<1>4. PICK table1 : table1 = [s.table EXCEPT ![r] = n]
  OBVIOUS
<1>8. /\ table1 \in [Routes -> Pids \cup {NoPid}]
      /\ table1[r] = n /\ \A q \in Routes \ {r} : table1[q] = s.table[q]
  <2>1. s.table \in [Routes -> Pids \cup {NoPid}] /\ n \in Pids \cup {NoPid}
    BY <1>2 DEF Good, Typed
  <2> HIDE DEF Pids, NoPid
  <2> QED BY ONLY <1>4, <2>1, r \in Routes
<1>5. PICK procs1 :
        procs1 = [m \in Pids |-> IF m = n THEN [state |-> "up", port |-> s.rows[r].port]
                                 ELSE IF m = s.table[r] /\ s.procs[m].state = "zombie" THEN Gone
                                 ELSE s.procs[m]]
  OBVIOUS
<1>6. procs1 \in [Pids -> Process] /\ procs1[n].state = "up" /\ procs1[n].port = s.rows[r].port
  BY <1>2, <1>3, <1>5, Constants DEF Good, Typed, Process
<1>7. Spawned(s, r) = State(s.rows, table1, procs1, s.ok)
  BY <1>1, <1>4, <1>5 DEF Spawned
<1> QED BY <1>2, <1>6, <1>7, <1>8 DEF State, Good, GoodBut, Typed, Own, Answers

LEMMA LaunchedIsGood ==
  ASSUME NEW s, NEW r \in Routes, Good(s), NEW x \in Launched(s, r)
  PROVE  Good(x) /\ (x.ok => Answers(x, x.rows[r].port))
<1>1. CASE x = Failing(s)
  BY <1>1, FailingIsGood
<1>2. CASE FreshPids(s) # {} /\ x \in {Running(Spawned(s, r), r), NotReady(Spawned(s, r), r)}
  <2>1. PICK y : y = Spawned(s, r)
    OBVIOUS
  <2>2. /\ GoodBut(y, r) /\ y.ok = s.ok /\ y.rows = s.rows
        /\ Answers(y, s.rows[r].port) /\ y.table[r] \in Pids
    BY <1>2, <2>1, SpawnedIsGoodBut
  <2>3. CASE x = Running(y, r)
    <3>1. y.rows[r].port \in Ports \cup {0} /\ "running" \in Status
      BY <2>2, GoodRows DEF Status
    <3>2. Good(x) /\ x.procs = y.procs /\ x.rows[r].port = y.rows[r].port
      BY <2>2, <2>3, <3>1, UpsertedIsGood DEF Running
    <3> QED BY <2>2, <3>2 DEF Answers
  <2>4. CASE x = NotReady(y, r)
    <3>1. Good(Ended(BackendStop(y, r), r, "failed"))
      BY <2>2, BackendStopIsGood, GoodIsGoodBut, EndedIsGood
    <3> QED BY <2>4, <3>1, FailingIsGood DEF NotReady
  <2> QED BY <1>2, <2>1, <2>3, <2>4
<1> QED BY <1>1, <1>2 DEF Launched

LEMMA StartedIsGood ==
  ASSUME NEW s, NEW r \in Routes, Good(s), NEW x \in Started(s, r)
  PROVE  Good(x) /\ (x.ok => Answers(x, x.rows[r].port))
<1>1. PICK y \in WithPort(s, r) : x \in IF y.ok THEN Launched(y, r) ELSE {y}
  BY DEF Started
<1> QED BY <1>1, WithPortIsGood, LaunchedIsGood

LEMMA CreatedIsGood ==
  ASSUME NEW s, NEW r \in Routes, Good(s), NEW p \in Ports
  PROVE  Good(Created(s, r, p)) /\ Created(s, r, p).ok = s.ok
<1>1. GoodBut(s, r) /\ "stopped" \in Status /\ p \in Ports \cup {0}
      /\ NoPid \in Pids \cup {NoPid} /\ "stopped" # "running"
  BY GoodIsGoodBut DEF Status
<1> QED BY <1>1, UpsertedIsGood DEF Created

(* ensure_instance: the instance that it returns answers.                   *)
LEMMA EnsuredIsGood ==
  ASSUME NEW s, NEW r \in Routes, Good(s), NEW x \in Ensured(s, r)
  PROVE  Good(x) /\ (x.ok => Answers(x, x.rows[r].port))
<1>1. PICK y : /\ \/ y = s \/ y = Failing(s)
                  \/ \E p \in Allocated(s) : y = Created(s, r, p)
               /\ x \in IF ~y.ok \/ Live(y, r) THEN {y} ELSE Started(Corrected(y, r), r)
  BY DEF Ensured
<1>2. Good(y)
  BY <1>1, FailingIsGood, CreatedIsGood DEF Allocated
<1>3. CASE x = y /\ (~y.ok \/ Live(y, r))
  BY <1>2, <1>3 DEF Live
<1>4. CASE x \in Started(Corrected(y, r), r)
  BY <1>2, <1>4, CorrectedIsGood, StartedIsGood
<1> QED BY <1>1, <1>3, <1>4

LEMMA RebuiltIsGood ==
  ASSUME NEW s, NEW r \in Routes, Good(s), NEW x \in Rebuilt(s, r)
  PROVE  Good(x)
<1>1. CASE x \in Started(StopInstance(s, r), r)
  BY <1>1, StopIsGood, StartedIsGood
<1>2. CASE x = Ended(s, r, "stopped")
  BY <1>2, GoodIsGoodBut, EndedIsGood
<1> QED BY <1>1, <1>2 DEF Rebuilt

-----------------------------------------------------------------------------
(* The gateway.                                                             *)

(* A search or a preflight under way has an attempt left to give up, and a  *)
(* preflight has a route.                                                   *)
ConnIsSound(c) ==
  /\ c.pc # "closed" => c.left >= 1 /\ c.tries >= 1
  /\ c.pc = "preflight" => c.route \in Routes

GatewayInv ==
  /\ Good(Here) /\ foreign \subseteq Ports /\ failed \subseteq Routes
  /\ conn \in [Conns -> Conn] /\ \A c \in Conns : ConnIsSound(conn[c])
  /\ calling \in Conns \cup {Nobody} /\ (calling # Nobody => conn[calling].pc = "search")

LEMMA InvIsRight == GatewayInv => RowsAreSound
BY DEF GatewayInv, Good, Typed, Own, Here, State, RowsAreSound, TypeOK, InstancesTypeOK, RunningRowIsOwn

LEMMA HereIsGood ==
  ASSUME NEW s, Good(s), Become(s)
  PROVE  Good(Here)'
BY DEF Become, Good, Typed, Own, Here, State

LEMMA InstancesStay ==
  ASSUME GatewayInv, UNCHANGED <<rows, table, procs>>
  PROVE  Good(Here)'
BY DEF GatewayInv, Good, Typed, Own, Here, State

LEMMA ClosedConn == Closed \in Conn /\ Closed.pc = "closed"
<1>1. Cardinality(Routes) \in Nat /\ ConnectAttempts \in Nat
  BY Constants, FS_CardinalityType
<1> QED BY <1>1 DEF Closed, Conn

LEMMA SomeRoute == Cardinality(Routes) \in Nat /\ Cardinality(Routes) >= 1
<1>1. Cardinality(Routes) \in Nat /\ Cardinality(Routes) # 0
  BY Constants, FS_CardinalityType, FS_EmptySet
<1> QED BY <1>1

LEMMA InitInv == Init => GatewayInv
<1> SUFFICES ASSUME Init PROVE GatewayInv
  OBVIOUS
<1>1. NoRow \in Row /\ NoRow.status # "running"
  BY DEF NoRow, Row, Status
<1>2. Good(Here)
  BY <1>1, Constants DEF Init, InstancesInit, Good, Typed, Own, Here, State
<1> QED BY <1>2, ClosedConn DEF Init, InstancesInit, GatewayInv, ConnIsSound

(* The connection that a step moves, with the loop let go or kept.          *)
LEMMA ConnMoves ==
  ASSUME GatewayInv, NEW c \in Conns, NEW new \in Conn, ConnIsSound(new),
         conn' = [conn EXCEPT ![c] = new],
         \/ calling' = Nobody
         \/ calling' = c /\ new.pc = "search"
         \/ calling = Nobody /\ UNCHANGED calling
  PROVE  /\ conn' \in [Conns -> Conn] /\ \A d \in Conns : ConnIsSound(conn[d])'
         /\ calling' \in Conns \cup {Nobody} /\ (calling' # Nobody => conn'[calling'].pc = "search")
BY Constants DEF GatewayInv, ConnIsSound

LEMMA SearchBegins ==
  ASSUME GatewayInv, NEW c \in Conns, NEW tries \in 1 .. ConnectAttempts, Searching(c, tries)
  PROVE  /\ conn' \in [Conns -> Conn] /\ \A d \in Conns : ConnIsSound(conn[d])'
         /\ calling' \in Conns \cup {Nobody} /\ (calling' # Nobody => conn'[calling'].pc = "search")
<1>1. PICK new : new = [Closed EXCEPT !.pc = "search", !.tries = tries, !.left = Cardinality(Routes)]
  OBVIOUS
<1>2. /\ new = [pc |-> new.pc, route |-> new.route, port |-> new.port,
                left |-> new.left, tries |-> new.tries, gaveUp |-> new.gaveUp]
      /\ new.pc = "search" /\ new.route = "none" /\ new.port = 0
      /\ new.left = Cardinality(Routes) /\ new.tries = tries /\ new.gaveUp \in BOOLEAN
  BY <1>1 DEF Closed
<1>3. new \in Conn /\ ConnIsSound(new) /\ new.pc = "search"
  BY <1>2, SomeRoute, Constants DEF Conn, ConnIsSound
<1> QED BY <1>1, <1>3, ConnMoves DEF Searching

LEMMA GivesUp ==
  ASSUME GatewayInv, NEW c \in Conns, conn' = [conn EXCEPT ![c] = Closed],
         calling' = Nobody \/ (calling = Nobody /\ UNCHANGED calling)
  PROVE  /\ conn' \in [Conns -> Conn] /\ \A d \in Conns : ConnIsSound(conn[d])'
         /\ calling' \in Conns \cup {Nobody} /\ (calling' # Nobody => conn'[calling'].pc = "search")
BY ClosedConn, ConnMoves DEF ConnIsSound

LEMMA NextTry ==
  ASSUME GatewayInv, NEW c \in Conns, calling = c, NEW tried \in BOOLEAN, NextAttempt(c, tried)
  PROVE  /\ conn' \in [Conns -> Conn] /\ \A d \in Conns : ConnIsSound(conn[d])'
         /\ calling' \in Conns \cup {Nobody} /\ (calling' # Nobody => conn'[calling'].pc = "search")
<1>1. conn[c] \in Conn /\ conn[c].pc = "search" /\ conn[c].left >= 1 /\ conn[c].tries >= 1
  BY Constants DEF GatewayInv, ConnIsSound
<1>2. CASE conn[c].left = 1
  BY <1>2, GivesUp DEF NextAttempt, GiveUp
<1>3. CASE conn[c].left # 1
  <2>1. PICK gave \in BOOLEAN : gave = (conn[c].gaveUp \/ tried)
    BY <1>1, Zenon
  <2>2. conn[c].left \in 0 .. Cardinality(Routes)
    BY <1>1 DEF Conn
  <2>3. PICK left \in 1 .. Cardinality(Routes) : left = conn[c].left - 1
    BY <1>1, <1>3, <2>2, SomeRoute
  <2>4. PICK new : new = [conn[c] EXCEPT !.left = left, !.gaveUp = gave]
    OBVIOUS
  <2>5. conn' = [conn EXCEPT ![c].left = left, ![c].gaveUp = gave] /\ UNCHANGED calling
    BY <1>3, <2>1, <2>3 DEF NextAttempt
  <2>6. /\ new = [pc |-> new.pc, route |-> new.route, port |-> new.port,
                  left |-> new.left, tries |-> new.tries, gaveUp |-> new.gaveUp]
        /\ new.pc = conn[c].pc /\ new.route = conn[c].route /\ new.port = conn[c].port
        /\ new.left = left /\ new.tries = conn[c].tries /\ new.gaveUp \in BOOLEAN
    BY <1>1, <2>4 DEF Conn
  <2>7. conn' = [conn EXCEPT ![c] = new]
    BY <1>1, <2>4, <2>5 DEF GatewayInv
  <2>8. new \in Conn /\ ConnIsSound(new) /\ new.pc = "search"
    BY <1>1, <2>3, <2>6, SomeRoute DEF Conn, ConnIsSound
  <2> QED BY <2>5, <2>7, <2>8, ConnMoves
<1> QED BY <1>2, <1>3

(* Found and what it hands out.                                             *)
LEMMA FoundSteps ==
  ASSUME GatewayInv, NEW c \in Conns, NEW r \in Routes, Found(c, r)
  PROVE  GatewayInv' /\ Answers(Here, conn[c].port)'
<1>1. conn[c] \in Conn /\ conn[c].pc = "search" /\ conn[c].left >= 1 /\ conn[c].tries >= 1
  BY Constants DEF GatewayInv, ConnIsSound, Found
<1>2. Good(Swept(Here))
  BY SweptIsGood DEF GatewayInv
<1>3. PICK x \in Ensured(Swept(Here), r) :
        /\ x.ok /\ Become(x) /\ calling' = Nobody
        /\ conn' = [conn EXCEPT ![c].pc = "preflight", ![c].route = r,
                                ![c].port = x.rows[r].port, ![c].gaveUp = FALSE]
  BY DEF Found
<1>4. Good(x) /\ Answers(x, x.rows[r].port)
  BY <1>2, <1>3, EnsuredIsGood
<1>5. x.rows[r].port \in Ports \cup {0}
  BY <1>4, GoodIsGoodBut, GoodRows
<1>6. PICK new : new = [conn[c] EXCEPT !.pc = "preflight", !.route = r,
                                       !.port = x.rows[r].port, !.gaveUp = FALSE]
  OBVIOUS
<1>7. /\ new = [pc |-> new.pc, route |-> new.route, port |-> new.port,
                left |-> new.left, tries |-> new.tries, gaveUp |-> new.gaveUp]
      /\ new.pc = "preflight" /\ new.route = r /\ new.port = x.rows[r].port
      /\ new.left = conn[c].left /\ new.tries = conn[c].tries /\ new.gaveUp \in BOOLEAN
  BY <1>1, <1>6 DEF Conn
<1>8. conn' = [conn EXCEPT ![c] = new]
  BY <1>1, <1>3, <1>6 DEF GatewayInv
<1>9. new \in Conn /\ ConnIsSound(new)
  BY <1>1, <1>5, <1>7 DEF Conn, ConnIsSound
<1>10. Good(Here)' /\ UNCHANGED <<failed, foreign>>
  BY <1>3, <1>4, HereIsGood DEF Found, Become
<1>11. GatewayInv'
  BY <1>3, <1>8, <1>9, <1>10, ConnMoves DEF GatewayInv
<1>12. conn'[c].port = x.rows[r].port
  BY <1>7, <1>8 DEF GatewayInv
<1>13. Answers(Here, conn[c].port)'
  <2>1. procs' = x.procs /\ foreign' = foreign
    BY <1>3 DEF Become
  <2>2. conn'[c].port \in foreign' \/ \E n \in Pids : procs'[n].state = "up" /\ procs'[n].port = conn'[c].port
    BY <1>4, <1>12, <2>1 DEF Answers
  <2> QED BY <2>2 DEF Answers, Here, State
<1> QED BY <1>11, <1>13

LEMMA AttemptSteps ==
  ASSUME GatewayInv, NEW c \in Conns, Attempt(c)
  PROVE  GatewayInv'
<1>1. Good(Swept(Here))
  BY SweptIsGood DEF GatewayInv
<1>2. CASE NoRouteLeft(c)
  <2>1. Good(Here)'
    BY <1>1, <1>2, HereIsGood DEF NoRouteLeft
  <2> QED BY <1>2, <2>1, GivesUp DEF NoRouteLeft, GiveUp, Become, GatewayInv
<1>3. CASE Skipped(c)
  <2>1. Good(Here)'
    BY <1>1, <1>3, HereIsGood DEF Skipped
  <2> QED BY <1>3, <2>1, NextTry DEF Skipped, Become, GatewayInv
<1>4. ASSUME NEW r \in Routes, NotStarted(c, r) PROVE GatewayInv'
  <2>1. PICK x \in Ensured(Swept(Here), r) :
          Become(x) /\ failed' = failed \cup {r} /\ NextAttempt(c, TRUE)
    BY <1>4 DEF NotStarted
  <2>2. Good(Here)'
    BY <1>1, <2>1, EnsuredIsGood, HereIsGood
  <2> QED BY <1>4, <2>1, <2>2, NextTry DEF NotStarted, Become, GatewayInv
<1> QED BY <1>2, <1>3, <1>4, FoundSteps DEF Attempt

LEMMA PreflightSteps ==
  ASSUME GatewayInv, NEW c \in Conns, PreflightPasses(c) \/ PreflightFails(c)
  PROVE  GatewayInv'
<1>1. conn[c] \in Conn /\ conn[c].pc = "preflight" /\ conn[c].tries >= 1 /\ conn[c].route \in Routes
  BY DEF GatewayInv, ConnIsSound, PreflightPasses, PreflightFails
<1>2. CASE PreflightPasses(c)
  BY <1>2, InstancesStay, GivesUp DEF PreflightPasses, GatewayInv
<1>3. CASE PreflightFails(c)
  <2>1. Good(Here)'
    BY <1>1, <1>3, StopIsGood, HereIsGood DEF PreflightFails, AfterFailure, GatewayInv
  <2>2. failed' \subseteq Routes /\ foreign' \subseteq Ports
    BY <1>1, <1>3 DEF PreflightFails, Become, GatewayInv
  <2>3. CASE conn[c].tries = 1
    BY <1>3, <2>1, <2>2, <2>3, GivesUp DEF PreflightFails, GiveUp, GatewayInv
  <2>4. CASE conn[c].tries # 1
    <3>1. conn[c].tries - 1 \in 1 .. ConnectAttempts
      BY <1>1, <2>4, Constants DEF Conn
    <3> QED BY <1>3, <2>1, <2>2, <2>4, <3>1, SearchBegins DEF PreflightFails, GatewayInv
  <2> QED BY <2>3, <2>4
<1> QED BY <1>2, <1>3

LEMMA ApiSteps ==
  ASSUME GatewayInv, Api
  PROVE  GatewayInv'
<1>1. PICK r \in Routes : ApiCreate(r) \/ ApiStart(r) \/ ApiStop(r) \/ ApiRebuild(r)
  BY DEF Api
<1>2. Good(Here)' /\ UNCHANGED foreign
  <2>1. Good(Here)
    BY DEF GatewayInv
  <2>2. PICK x : Good(x) /\ Become(x)
    BY <1>1, <2>1, CreatedIsGood, StartedIsGood, StopIsGood, RebuiltIsGood
       DEF ApiCreate, ApiStart, ApiStop, ApiRebuild
  <2> QED BY <2>2, HereIsGood DEF Become
<1> QED BY <1>2 DEF Api, gatewayVars, GatewayInv

LEMMA WorldSteps ==
  ASSUME GatewayInv, World, UNCHANGED gatewayVars
  PROVE  GatewayInv'
<1>1. ASSUME procs' \in [Pids -> Process], UNCHANGED <<rows, table>>, foreign' \subseteq Ports
      PROVE  GatewayInv'
  BY <1>1 DEF GatewayInv, gatewayVars, Good, Typed, Own, Here, State
<1>2. procs \in [Pids -> Process] /\ foreign \subseteq Ports
  BY DEF GatewayInv, Good, Typed, Here, State
<1>3. ASSUME NEW n \in Pids, ProcessDies(n) PROVE GatewayInv'
  <2>1. PICK left \in Process : procs' = [procs EXCEPT ![n] = left]
    <3>1. [Gone EXCEPT !.state = "zombie"] \in Process
      BY DEF Gone, Process
    <3> QED BY <1>3, <3>1, Constants DEF ProcessDies
  <2> QED BY <1>1, <1>2, <1>3, <2>1 DEF ProcessDies
<1>4. ASSUME NEW n \in Pids, ProcessStalls(n) PROVE GatewayInv'
  <2>1. PICK state \in {"deaf", "up"} : state = IF procs[n].state = "up" THEN "deaf" ELSE "up"
    OBVIOUS
  <2>2. procs' = [procs EXCEPT ![n].state = state]
    BY <1>4, <2>1 DEF ProcessStalls
  <2>3. procs' \in [Pids -> Process]
    BY <1>2, <2>2 DEF Process
  <2> QED BY <1>1, <1>2, <1>4, <2>3 DEF ProcessStalls
<1>5. ASSUME NEW p \in Ports, ForeignTakes(p) \/ ForeignLeaves(p) PROVE GatewayInv'
  BY <1>1, <1>2, <1>5 DEF ForeignTakes, ForeignLeaves
<1> QED BY <1>3, <1>4, <1>5 DEF World

LEMMA NextInv ==
  ASSUME GatewayInv, [Next]_vars
  PROVE  GatewayInv'
<1>1. ASSUME NEW c \in Conns, Request(c) PROVE GatewayInv'
  <2>1. ConnectAttempts \in 1 .. ConnectAttempts
    BY Constants
  <2> QED BY <1>1, <2>1, InstancesStay, SearchBegins DEF Request, GatewayInv
<1>2. ASSUME NEW r \in Routes, Forgiven(r) PROVE GatewayInv'
  BY <1>2, InstancesStay DEF Forgiven, GatewayInv
<1>3. CASE Restart
  <2>1. Good(Here)'
    BY <1>3, Constants DEF Restart, InstancesRestart, GatewayInv, Good, Typed, Own, Here, State
  <2> QED BY <1>3, <2>1, ClosedConn DEF Restart, InstancesRestart, GatewayInv, ConnIsSound
<1>4. CASE UNCHANGED vars
  BY <1>4, InstancesStay DEF vars, GatewayInv
<1> QED
  BY <1>1, <1>2, <1>3, <1>4, AttemptSteps, PreflightSteps, ApiSteps, WorldSteps DEF Next, Step

LEMMA InvAlways == Spec => []GatewayInv
<1> QED BY InitInv, NextInv, PTL DEF Spec

(* Theorem: a row that says running names the process in the backend's      *)
(* table, or the backend has none, and everything keeps its type: whatever  *)
(* dies, hangs and is restarted (ChainInstanceManager, MihomoEgressBackend, *)
(* ForwardProxyGateway).                                                    *)
THEOREM RowsAreAlwaysSound == Spec => []RowsAreSound
BY InvIsRight, InvAlways, PTL

(* Theorem: the port that a search hands out answers at that moment         *)
(* (_resolve_route_with_instance over ensure_instance).                     *)
THEOREM HandedOutPortsAnswer == Spec => HandedOutPortAnswers
<1>1. GatewayInv /\ [Next]_vars =>
        [\A c \in Conns : \A r \in Routes : Found(c, r) => Answers(Here, conn[c].port)']_vars
  BY FoundSteps
<1> QED BY <1>1, InvAlways, PTL DEF Spec, HandedOutPortAnswers
=============================================================================
