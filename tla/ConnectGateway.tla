--------------------------- MODULE ConnectGateway ---------------------------
(***************************************************************************)
(* CONNECT requests through an endpoint: the search for a route with an    *)
(* instance of proxypool/gateway/forward_proxy.py, the preflight loop of   *)
(* proxypool/gateway/runtime.py around it, and the instances of            *)
(* ChainInstances underneath.                                              *)
(*                                                                         *)
(* A search blocks the event loop from its first route to its answer; a    *)
(* preflight suspends, with the instance's port in hand, and anything may  *)
(* happen meanwhile.  What the chain service remembers of failed routes is *)
(* reduced to the set of them: EndpointRouting has the rest.               *)
(***************************************************************************)
EXTENDS ChainInstances

CONSTANTS
  Conns,            \* the client connections
  ConnectAttempts   \* CONNECT_ROUTE_ATTEMPTS

VARIABLES
  failed,           \* the routes the chain service excludes now
  conn,             \* the connections: where each stands, what it was given
  calling           \* the connection whose search blocks the loop, if any

gatewayVars == <<failed, conn, calling>>
vars == <<rows, table, procs, foreign, failed, conn, calling>>

Nobody == "nobody"

ASSUME GatewayAssumption == ConnectAttempts \in Nat \ {0} /\ Nobody \notin Conns

Closed == [pc |-> "closed", route |-> "none", port |-> 0,
           left |-> 0, tries |-> 0, gaveUp |-> FALSE]

(* left: the routes the search may still ask for; tries: the resolutions    *)
(* the preflight loop may still ask for; gaveUp: a route of this search has *)
(* failed.                                                                  *)
Conn == [pc : {"closed", "search", "preflight"},
         route : Routes \cup {"none"}, port : Ports \cup {0},
         left : 0 .. Cardinality(Routes), tries : 0 .. ConnectAttempts, gaveUp : BOOLEAN]

TypeOK ==
  /\ InstancesTypeOK
  /\ failed \subseteq Routes
  /\ conn \in [Conns -> Conn]
  /\ calling \in Conns \cup {Nobody}

Init ==
  /\ InstancesInit
  /\ failed = {} /\ calling = Nobody
  /\ conn = [c \in Conns |-> Closed]

-----------------------------------------------------------------------------
(* ForwardProxyGateway._route_instance_attempts: as many attempts as there  *)
(* are combinations of candidates.                                          *)
Searching(c, tries) ==
  /\ calling' = c
  /\ conn' = [conn EXCEPT ![c] = [Closed EXCEPT !.pc = "search", !.tries = tries,
                                                !.left = Cardinality(Routes)]]

Request(c) ==
  /\ calling = Nobody /\ conn[c].pc = "closed"
  /\ Searching(c, ConnectAttempts)
  /\ UNCHANGED <<rows, table, procs, foreign, failed>>

(* The search is over without an instance: the client gets an error.        *)
GiveUp(c) ==
  /\ calling' = Nobody
  /\ conn' = [conn EXCEPT ![c] = Closed]

(* report_route_failure for a route without an instance, and the next       *)
(* attempt or the end of the search.                                        *)
NextAttempt(c, tried) ==
  IF conn[c].left = 1 THEN GiveUp(c)
  ELSE /\ conn' = [conn EXCEPT ![c].left = @ - 1, ![c].gaveUp = @ \/ tried]
       /\ UNCHANGED calling

NoRouteLeft(c) ==
  /\ calling = c /\ failed = Routes
  /\ GiveUp(c) /\ Become(Swept(Here)) /\ UNCHANGED failed

(* One attempt of _resolve_route_with_instance: the chain service gives any *)
(* route it does not exclude, and the instance is ensured.                  *)
Found(c, r) ==
  /\ calling = c /\ r \notin failed /\ ~conn[c].gaveUp
  /\ \E s \in {Swept(Here)} : \E x \in Ensured(s, r) :
       /\ x.ok /\ Become(x)
       /\ calling' = Nobody
       /\ conn' = [conn EXCEPT ![c].pc = "preflight", ![c].route = r,
                               ![c].port = x.rows[r].port, ![c].gaveUp = FALSE]
  /\ UNCHANGED failed

NotStarted(c, r) ==
  /\ calling = c /\ r \notin failed /\ ~conn[c].gaveUp
  /\ \E s \in {Swept(Here)} : \E x \in Ensured(s, r) :
       /\ ~x.ok /\ Become(x)
       /\ failed' = failed \cup {r}
       /\ NextAttempt(c, TRUE)

(* A route whose signature has failed in this search is skipped; every      *)
(* route of an endpoint has the signature of its pools.                     *)
Skipped(c) ==
  /\ calling = c /\ failed # Routes /\ conn[c].gaveUp
  /\ NextAttempt(c, TRUE)
  /\ Become(Swept(Here)) /\ UNCHANGED failed

Attempt(c) ==
  \/ NoRouteLeft(c) \/ Skipped(c)
  \/ \E r \in Routes : Found(c, r) \/ NotStarted(c, r)

-----------------------------------------------------------------------------
(* _resolve_connect_route_with_preflight after the search: a request to the *)
(* target through the port that was handed out.  On success the tunnel      *)
(* opens before anything else runs, and is no longer followed here.         *)
PreflightPasses(c) ==
  /\ calling = Nobody /\ conn[c].pc = "preflight"
  /\ Answers(Here, conn[c].port)
  /\ failed' = failed \ {conn[c].route}
  /\ conn' = [conn EXCEPT ![c] = Closed]
  /\ UNCHANGED <<rows, table, procs, foreign, calling>>

(* report_route_failure: the route is excluded and its instance stopped,    *)
(* whoever else uses it.                                                    *)
AfterFailure(s, r) == MarkFailed(s, r)

PreflightFails(c) ==
  /\ calling = Nobody /\ conn[c].pc = "preflight"
  /\ failed' = failed \cup {conn[c].route}
  /\ Become(AfterFailure(Here, conn[c].route))
  /\ IF conn[c].tries = 1 THEN GiveUp(c) ELSE Searching(c, conn[c].tries - 1)

(* A failure is over: its cooldown has passed.                              *)
Forgiven(r) ==
  /\ r \in failed /\ failed' = failed \ {r}
  /\ UNCHANGED <<rows, table, procs, foreign, conn, calling>>

Api ==
  /\ calling = Nobody
  /\ \E r \in Routes : ApiCreate(r) \/ ApiStart(r) \/ ApiStop(r) \/ ApiRebuild(r)
  /\ UNCHANGED gatewayVars

Restart ==
  /\ InstancesRestart
  /\ conn' = [c \in Conns |-> Closed] /\ calling' = Nobody /\ UNCHANGED failed

Step(c) == Attempt(c) \/ PreflightPasses(c) \/ PreflightFails(c)

Next ==
  \/ \E c \in Conns : Request(c) \/ Step(c)
  \/ \E r \in Routes : Forgiven(r)
  \/ Api \/ Restart
  \/ World /\ UNCHANGED gatewayVars

Spec == Init /\ [][Next]_vars

-----------------------------------------------------------------------------
(* Properties.                                                              *)

(* What the backend would stop is what the row shows: a row that says       *)
(* running names the process in the backend's table, or the backend has     *)
(* none because the process is of an earlier run of the application.        *)
RunningRowIsOwn ==
  \A r \in Routes : rows[r].status = "running" => table[r] \in {rows[r].pid, NoPid}

(* The types, and whose the running rows are, which every operation on the  *)
(* rows goes by.                                                            *)
RowsAreSound == TypeOK /\ RunningRowIsOwn

(* The port that a search hands out answers: a stale row, of a process that *)
(* died, hangs or was orphaned, is corrected before its port is used.       *)
HandedOutPortAnswers ==
  [][\A c \in Conns : \A r \in Routes :
       Found(c, r) => Answers(Here, conn[c].port)']_vars
=============================================================================
