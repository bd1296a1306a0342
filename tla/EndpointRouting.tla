-------------------------- MODULE EndpointRouting --------------------------
(***************************************************************************)
(* Routing through one multi-hop endpoint: ProxyChainService of            *)
(* pool/chain_service.py on top of what RouteHealth remembers.  A session  *)
(* holds a lease on a route, in memory and as a row of sticky_leases; the  *)
(* row has no room for the hops but the last one.                          *)
(*                                                                         *)
(* Each call of the service runs on the event loop without a suspension.   *)
(* Its clients do suspend: the CONNECT preflight between routing a request *)
(* and reporting how the route did (gateway/runtime.py), and the gateway   *)
(* health check between reading the active route and reporting it          *)
(* (api/app.py).  Their pending reports are part of the state.             *)
(***************************************************************************)
EXTENDS RouteHealth, FiniteSets

CONSTANTS
  Session,      \* session ids
  Anonymous,    \* the empty session id
  Instance,     \* ids of the chain instances
  NoInstance,   \* the empty instance id
  Skipped,      \* no node
  Pool,         \* the endpoint's hops: for each the set of nodes of its pool
  LeaseTtl,     \* the endpoint's sticky_ttl_sec, in ticks
  MaxPending    \* bound on the number of preflights under way

ASSUME PoolAssumption ==
  /\ Pool \in Seq(SUBSET Node) \ {<<>>}
  /\ Route = UNION {[1 .. n -> Node] : n \in 1 .. Len(Pool)}
ASSUME SessionAssumption ==
  /\ Anonymous \notin Session
  /\ NoInstance \notin Instance
  /\ Skipped \notin Node
  /\ LeaseTtl \in Nat \ {0}
  /\ MaxPending \in Nat \ {0}

VARIABLES
  up,           \* nodes the storage has as available
  lease,        \* _multi_hop_leases
  leaseRow,     \* table sticky_leases
  pending,      \* requests routed, their preflight not reported yet
  probed        \* the route the gateway health check is probing

leases == <<lease, leaseRow>>
clients == <<pending, probed>>
vars == <<healthVars, up, leases, clients>>

Hops == DOMAIN Pool
Last(r) == r[Len(r)]

NoLease    == [hops |-> <<>>, instance |-> NoInstance, left |-> 0]
NoLeaseRow == [exit |-> Skipped, instance |-> NoInstance, left |-> -1]

RowOf(l) == [exit |-> Last(l.hops), instance |-> l.instance, left |-> l.left]

Init ==
  /\ HealthInit
  /\ up = Node
  /\ lease = [s \in Session |-> NoLease]
  /\ leaseRow = [s \in Session |-> NoLeaseRow]
  /\ pending = {}
  /\ probed = <<>>

-----------------------------------------------------------------------------
(* Choosing a route.                                                       *)

(* list_proxy_pool_candidates, those that are available.                   *)
Candidates(i) == Pool[i] \cap up

Distinct(r) == \A i, j \in DOMAIN r : i # j => r[i] # r[j]

(* _endpoint_route_matches_pools, and the length test before it.           *)
MatchesPools(r) ==
  /\ Len(r) = Len(Pool)
  /\ Distinct(r)
  /\ \A i \in Hops : r[i] \in Candidates(i)

(* Mutant: a route known to be healthy is not held against the pools.      *)
KnownHealthy_Anywhere == {r \in Route : healthyRoute[r] > 0 /\ ~RouteFailed(r)}

(* _pick_healthy_endpoint_route: of the routes known to be healthy, one    *)
(* that stays so for longest.                                              *)
KnownHealthy == {r \in Route : healthyRoute[r] > 0 /\ ~RouteFailed(r) /\ MatchesPools(r)}
Preferred == {r \in KnownHealthy : \A q \in KnownHealthy : healthyRoute[q] <= healthyRoute[r]}

(* _search_endpoint_hop_candidates: the first combination in the order of  *)
(* the latencies, which are any; the cap on the combinations looked at is  *)
(* above the number of those the bounds allow.                             *)
Searched ==
  {r \in Route :
     /\ MatchesPools(r)
     /\ \A i \in Hops : ~NodeFailed(r[i])
     /\ ~RouteFailed(r)}

(* _select_endpoint_hops.                                                  *)
Selection == IF Preferred # {} THEN Preferred ELSE Searched

(* _reuse_multi_hop_lease, of a lease that _get_multi_hop_lease returns.   *)
Reusable(l) == l.left > 0 /\ NodesOf(l.hops) \subseteq up

(* _load_endpoint_hop_node_keys draws a candidate for every hop from those *)
(* not drawn before, and skips a hop that has none.                        *)
Draws ==
  {d \in [Hops -> Node \cup {Skipped}] :
     \A i \in Hops :
       LET free == Candidates(i) \ {d[j] : j \in 1 .. i - 1}
       IN  IF free = {} THEN d[i] = Skipped ELSE d[i] \in free}

Drawn(d) == {i \in Hops : d[i] # Skipped}
Place(d, i) == Cardinality({j \in Drawn(d) : j <= i})

(* Mutant: the exit of the row is only used when nothing was drawn.        *)
RestoredHops_Drawn(exit) ==
  {r \in Route : \E d \in Draws :
     /\ Len(r) = IF Drawn(d) = {} THEN 1 ELSE Cardinality(Drawn(d))
     /\ Drawn(d) = {} => Last(r) = exit
     /\ \A i \in Drawn(d) : r[Place(d, i)] = d[i]}

(* The hops of a restored lease: those drawn, but the exit of the row      *)
(* takes the last place, or is alone when nothing was drawn.               *)
RestoredHops(exit) ==
  {r \in Route : \E d \in Draws :
     /\ Len(r) = IF Drawn(d) = {} THEN 1 ELSE Cardinality(Drawn(d))
     /\ Last(r) = exit
     /\ \A i \in Drawn(d) : Place(d, i) < Len(r) => r[Place(d, i)] = d[i]}

-----------------------------------------------------------------------------
(* The calls of the service.                                               *)

(* The gateway remembers a routed request while it runs the preflight; a   *)
(* route test, or a target without a preflight, is never reported on.      *)
Requested(s, r) ==
  \/ UNCHANGED pending
  \/ /\ Cardinality(pending) < MaxPending
     /\ pending' = pending \cup {[session |-> s, hops |-> r]}

(* bind_endpoint_instance_to_session, called in the same step as the       *)
(* routing when the gateway has an instance for the route.                 *)
Bound(l, i) == IF i = NoInstance THEN l ELSE [l EXCEPT !.instance = i]

(* _route_endpoint_request when the session's lease is reused...           *)
RouteReused(s) ==
  /\ Reusable(lease[s])
  /\ \E i \in Instance \cup {NoInstance} :
       lease' = [lease EXCEPT ![s] = Bound(@, i)]
  /\ leaseRow' = [leaseRow EXCEPT ![s] = RowOf(lease'[s])]
  /\ Requested(s, lease[s].hops)
  /\ UNCHANGED <<healthVars, up, probed>>

(* ... when a route is selected, the lease there may be being replaced ... *)
RouteNew(s) ==
  /\ ~Reusable(lease[s])
  /\ \E r \in Selection, i \in Instance \cup {NoInstance} :
       /\ lease' = [lease EXCEPT ![s] =
                      [hops |-> r, instance |-> i, left |-> LeaseTtl]]
       /\ leaseRow' = [leaseRow EXCEPT ![s] = RowOf(lease'[s])]
       /\ Requested(s, r)
  /\ UNCHANGED <<healthVars, up, probed>>

(* ... when there is none: an expired lease has been dropped, one whose    *)
(* nodes are down stays ...                                                *)
RouteNone(s) ==
  /\ ~Reusable(lease[s])
  /\ Selection = {}
  /\ lease' = [lease EXCEPT ![s] = IF @.left > 0 THEN @ ELSE NoLease]
  /\ UNCHANGED <<healthVars, up, leaseRow, clients>>

(* ... and when the request has no session.                                *)
RouteAnonymous ==
  /\ \E r \in Selection : Requested(Anonymous, r)
  /\ UNCHANGED <<healthVars, up, leases, probed>>

(* Mutant: the row of the reporting session's lease is left behind.        *)
ReportFailure_RowLeft(p) ==
  /\ p \in pending
  /\ \E c \in Cooldowns : FailRoute(p.hops, c)
  /\ lease' = [s \in Session |-> IF s = p.session THEN NoLease ELSE lease[s]]
  /\ pending' = pending \ {p}
  /\ UNCHANGED <<up, leaseRow, probed>>

(* A preflight fails: report_endpoint_route_failure.                       *)
ReportFailure(p) ==
  /\ p \in pending
  /\ \E c \in Cooldowns : FailRoute(p.hops, c)
  /\ lease' = [s \in Session |-> IF s = p.session THEN NoLease ELSE lease[s]]
  /\ leaseRow' = [s \in Session |-> IF s = p.session THEN NoLeaseRow ELSE leaseRow[s]]
  /\ pending' = pending \ {p}
  /\ UNCHANGED <<up, probed>>

(* A preflight succeeds: report_endpoint_route_success.                    *)
ReportSuccess(p) ==
  /\ p \in pending
  /\ SucceedRoute(p.hops)
  /\ pending' = pending \ {p}
  /\ UNCHANGED <<up, leases, probed>>

(* The gateway health check reads the active route of the endpoint ...     *)
ProbeStarts(s) ==
  /\ probed = <<>>
  /\ lease[s] # NoLease
  /\ probed' = lease[s].hops
  /\ UNCHANGED <<healthVars, up, leases, pending>>

(* Mutant: a route that answers the health check is forgiven in memory.    *)
ProbeEnds_Forgives ==
  /\ probed # <<>>
  /\ \/ \E c \in Cooldowns : FailRoute(probed, c)
     \/ /\ failedRoute' = [failedRoute EXCEPT ![probed] = 0]
        /\ UNCHANGED <<failedNode, healthyRoute, rows, hour, restarts, history>>
  /\ probed' = <<>>
  /\ UNCHANGED <<up, leases, pending>>

(* ... and reports it, without a session, if one of its nodes failed.      *)
ProbeEnds ==
  /\ probed # <<>>
  /\ (\E c \in Cooldowns : FailRoute(probed, c)) \/ UNCHANGED healthVars
  /\ probed' = <<>>
  /\ UNCHANGED <<up, leases, pending>>

(* cleanup_leases: an entry goes when now >= expires_at, a row when        *)
(* expires_at < now.                                                       *)
CleanupLeases ==
  /\ lease' = [s \in Session |-> IF lease[s].left > 0 THEN lease[s] ELSE NoLease]
  /\ leaseRow' = [s \in Session |-> IF leaseRow[s].left >= 0 THEN leaseRow[s] ELSE NoLeaseRow]
  /\ UNCHANGED <<healthVars, up, clients>>

-----------------------------------------------------------------------------
(* The world around the service.                                           *)

(* The tester finds a node available or not.                               *)
NodeTested(n) ==
  /\ up' = IF n \in up THEN up \ {n} ELSE up \cup {n}
  /\ UNCHANGED <<healthVars, leases, clients>>

Tick ==
  /\ HealthTick
  /\ lease' = [s \in Session |-> [lease[s] EXCEPT !.left = Down(@)]]
  /\ leaseRow' = [s \in Session |-> [leaseRow[s] EXCEPT !.left = IF @ < 0 THEN @ ELSE @ - 1]]
  /\ UNCHANGED <<up, clients>>

(* A restart: _load_sticky_leases, _load_failed_routes; requests and the   *)
(* health check are lost.                                                  *)
Restart ==
  /\ HealthRestart
  /\ \E h \in [Session -> Route \cup {<<>>}] :
       /\ \A s \in Session :
            leaseRow[s] # NoLeaseRow => h[s] \in RestoredHops(leaseRow[s].exit)
       /\ lease' = [s \in Session |->
            IF leaseRow[s] = NoLeaseRow THEN NoLease
            ELSE [hops |-> h[s], instance |-> leaseRow[s].instance,
                  left |-> Remaining(leaseRow[s].left)]]
  /\ pending' = {}
  /\ probed' = <<>>
  /\ UNCHANGED <<up, leaseRow>>

Next ==
  \/ \E s \in Session :
       RouteReused(s) \/ RouteNew(s) \/ RouteNone(s) \/ ProbeStarts(s)
  \/ RouteAnonymous
  \/ \E p \in pending : ReportFailure(p) \/ ReportSuccess(p)
  \/ ProbeEnds
  \/ CleanupLeases
  \/ \E n \in Node : NodeTested(n)
  \/ Tick
  \/ Restart

Spec == Init /\ [][Next]_vars

-----------------------------------------------------------------------------
(* Types.                                                                  *)
TypeOK ==
  /\ HealthTypeOK
  /\ up \in SUBSET Node
  /\ lease \in [Session -> {NoLease} \cup
       [hops : Route, instance : Instance \cup {NoInstance}, left : 0 .. LeaseTtl]]
  /\ leaseRow \in [Session -> {NoLeaseRow} \cup
       [exit : Node, instance : Instance \cup {NoInstance}, left : -1 .. LeaseTtl]]
  /\ pending \in SUBSET [session : Session \cup {Anonymous}, hops : Route]
  /\ probed \in Route \cup {<<>>}

(* HealthSpec is a property too: whatever the sessions do, the memory of   *)
(* failed and healthy routes behaves as RouteHealth says, so that all that *)
(* is shown of it there holds here.                                        *)

(* As long as a lease or its row is in force, the other is too and they    *)
(* agree: a crash at any moment loses no session and revives none.         *)
LeaseIsDurable ==
  \A s \in Session :
    lease[s].left > 0 \/ leaseRow[s].left > 0 =>
      lease[s] # NoLease /\ leaseRow[s] = RowOf(lease[s])

(* A session whose nodes are up keeps its exit until its lease ends or its *)
(* own preflight fails, through restarts too; between restarts it keeps    *)
(* the whole route.                                                        *)
SessionKeepsExit ==
  [][\A s \in Session :
       Reusable(lease[s]) /\ lease'[s] # NoLease =>
         /\ Last(lease'[s].hops) = Last(lease[s].hops)
         /\ restarts' = restarts => lease'[s].hops = lease[s].hops]_vars

(* A route newly given to a session crosses every hop of the endpoint in   *)
(* order, each by another available node of its pool, and is not one that  *)
(* failed within its cooldown.                                             *)
NewRouteIsSound ==
  [][\A s \in Session :
       lease'[s].hops # lease[s].hops /\ lease'[s] # NoLease /\ restarts' = restarts =>
         MatchesPools(lease'[s].hops) /\ due[lease'[s].hops] = 0]_vars

(* guide/gateway/README.md 20: "Endpoint hops define the ordered proxy     *)
(* pools used for multi-hop routes."; every request should cross them all. *)
EveryHopIsCrossed == \A p \in pending : Len(p.hops) = Len(Pool)
=============================================================================
