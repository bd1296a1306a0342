--------------------------- MODULE GatewayRuntime ---------------------------
(***************************************************************************)
(* The listeners of the endpoints: proxypool/gateway/runtime.py, and the   *)
(* handlers of api/routers/gateway.py that write the settings and bring    *)
(* the listeners in line with them.                                        *)
(*                                                                         *)
(* A handler runs on the event loop until it waits.  It waits for a server *)
(* to be bound and, since Python 3.12, for the connections of a server it  *)
(* closed: a tunnel may keep it waiting for as long as it likes.  Other    *)
(* handlers run meanwhile.                                                 *)
(***************************************************************************)
EXTENDS Integers, Sequences, FiniteSets

CONSTANTS
  Endpoints,        \* the rows of http_proxy_endpoints
  EndpointPorts,    \* the ports a row may name
  LegacyPort,       \* the port of the gateway's own configuration
  Handlers,         \* the requests that may be in progress
  Objects           \* bound: ForwardProxyGatewayRuntime objects and servers

Legacy == "legacy"
None   == "none"
Nobody == "nobody"

VARIABLES
  endpoints,        \* http_proxy_endpoints: enabled (with hops), and the port
  gatewayConfig,    \* the gateway's configuration: enabled, with a legacy pool
  runtimes,         \* endpoint_runtimes and legacy_runtime, by object id
  objects,          \* the runtime objects: their server and their port
  servers,          \* the servers: the port they listen on, connections or not
  tasks,            \* what each handler has still to do
  running,          \* the handler that runs, if one holds the loop
  lastError         \* an error in the last sync

vars == <<endpoints, gatewayConfig, runtimes, objects, servers, tasks, running, lastError>>

Ids   == 1 .. Objects
Ports == EndpointPorts \cup {LegacyPort}
Owners == Endpoints \cup {Legacy}

Closed == [port |-> 0, busy |-> FALSE]

TypeOK ==
  /\ endpoints \in [Endpoints -> [on : BOOLEAN, port : EndpointPorts]]
  /\ gatewayConfig \in [on : BOOLEAN, legacy : BOOLEAN]
  /\ runtimes \in [Owners -> Ids \cup {0}] /\ runtimes[Legacy] # 0
  /\ objects \in [Ids -> [server : Ids \cup {0}, port : Ports]]
  /\ servers \in [Ids -> [port : Ports \cup {0}, busy : BOOLEAN]]
  /\ running \in Handlers \cup {Nobody}
  /\ lastError \in BOOLEAN

Init ==
  /\ endpoints \in [Endpoints -> [on : {FALSE}, port : EndpointPorts]]
  /\ gatewayConfig = [on |-> FALSE, legacy |-> FALSE]
  /\ runtimes = [o \in Owners |-> IF o = Legacy THEN 1 ELSE 0]
  /\ objects = [k \in Ids |-> [server |-> 0, port |-> LegacyPort]]
  /\ servers = [s \in Ids |-> Closed]
  /\ tasks = [h \in Handlers |-> <<>>]
  /\ running = Nobody
  /\ lastError = FALSE

-----------------------------------------------------------------------------
(* What a handler has still to do: its pending operations in order.         *)

Op(op, o, k, s, p, set) ==
  [op |-> op, owner |-> o, object |-> k, server |-> s, port |-> p, active |-> set]
Serve(e, p)   == Op("serve", e, 0, 0, p, {})
StartOp(k)    == Op("start", None, k, 0, 0, {})
StopOp(k)     == Op("stop", None, k, 0, 0, {})
StaleOp(set)  == Op("stale", None, 0, 0, 0, set)
DropOp(e)     == Op("drop", e, 0, 0, 0, {})
CloseOp(k, s) == Op("closing", None, k, s, 0, {})
BindOp(k)     == Op("bind", None, k, 0, 0, {})
AssignOp(k, s) == Op("assign", None, k, s, 0, {})

Orders(S) == {f \in [1 .. Cardinality(S) -> S] : \A i, j \in DOMAIN f : f[i] = f[j] => i = j}

Served(rows) == {e \in Endpoints : rows[e].on}

(* sync reads the configuration and every row before it first waits: the    *)
(* enabled endpoints one by one, those that are not enabled any more, and   *)
(* the listener of the configuration itself; or, when the gateway is        *)
(* disabled, stop: all of them.                                             *)
SyncOps(config, rows, order) ==
  IF ~config.on THEN <<StopOp(1), StaleOp({})>>
  ELSE [i \in 1 .. Cardinality(Served(rows)) |-> Serve(order[i], rows[order[i]].port)]
         \o <<StaleOp(Served(rows)), IF config.legacy THEN StartOp(1) ELSE StopOp(1)>>

Sync(h, config, rows) ==
  /\ running' = h
  /\ \E order \in Orders(Served(rows)) :
       tasks' = [tasks EXCEPT ![h] = SyncOps(config, rows, order)]
  /\ lastError' = IF config.on THEN FALSE ELSE lastError
  /\ UNCHANGED <<runtimes, objects, servers>>

Idle(h) == running = Nobody /\ tasks[h] = <<>>

(* PUT /gateway/http-config and /http-proxy-endpoints/service-config.       *)
SetConfig(h, config) ==
  /\ Idle(h)
  /\ gatewayConfig' = config /\ UNCHANGED endpoints
  /\ Sync(h, config, endpoints)

(* POST, PUT and DELETE of an endpoint: without an enabled gateway only the *)
(* row changes.                                                             *)
SetEndpoint(h, e, row) ==
  /\ Idle(h)
  /\ endpoints' = [endpoints EXCEPT ![e] = row] /\ UNCHANGED gatewayConfig
  /\ IF gatewayConfig.on THEN Sync(h, gatewayConfig, endpoints')
     ELSE UNCHANGED <<tasks, running, runtimes, objects, servers, lastError>>

-----------------------------------------------------------------------------
(* The operations.  After each the handler goes on, waits, or ends.         *)

Holds(h, op)  == running \in {h, Nobody} /\ tasks[h] # <<>> /\ Head(tasks[h]).op = op
GoOn(h, ops)  == LET rest == ops \o Tail(tasks[h])
                 IN  /\ tasks' = [tasks EXCEPT ![h] = rest]
                     /\ running' = IF rest = <<>> THEN Nobody ELSE h
Wait(h, ops)  == tasks' = [tasks EXCEPT ![h] = ops \o Tail(@)] /\ running' = Nobody
Abort(h)      == tasks' = [tasks EXCEPT ![h] = <<>>] /\ running' = Nobody

(* The objects and servers nothing refers to.                               *)
Pending       == UNION {{tasks[h][i] : i \in DOMAIN tasks[h]} : h \in Handlers}
FreeObjects   == {k \in Ids : /\ k \notin {runtimes[o] : o \in Owners}
                              /\ k \notin {x.object : x \in Pending}}
FreeServers   == {s \in Ids : /\ servers[s] = Closed
                              /\ s \notin {objects[k].server : k \in Ids}
                              /\ s \notin {x.server : x \in Pending}}

(* The runtime of an endpoint, a new one if it has none, gets the row's     *)
(* settings and is started.                                                 *)
ServeEndpoint(h) ==
  /\ Holds(h, "serve")
  /\ LET e == Head(tasks[h]).owner
         p == Head(tasks[h]).port
     IN  \E k \in IF runtimes[e] # 0 THEN {runtimes[e]} ELSE FreeObjects :
           /\ \A j \in FreeObjects : runtimes[e] = 0 => k <= j
           /\ runtimes' = [runtimes EXCEPT ![e] = k]
           /\ objects' = [objects EXCEPT ![k] =
                            [server |-> IF runtimes[e] = 0 THEN 0 ELSE @.server, port |-> p]]
           /\ GoOn(h, <<StartOp(k)>>)
  /\ UNCHANGED <<endpoints, gatewayConfig, servers, lastError>>

CloseServer(k, s) ==
  /\ servers' = [servers EXCEPT ![s].port = 0]
  /\ objects' = IF servers[s].busy THEN objects ELSE [objects EXCEPT ![k].server = 0]

(* ForwardProxyGatewayRuntime.stop: an open connection makes it wait.       *)
StopRuntime(h) ==
  /\ Holds(h, "stop")
  /\ LET k == Head(tasks[h]).object
         s == objects[k].server
     IN  IF s = 0 THEN GoOn(h, <<>>) /\ UNCHANGED <<objects, servers>>
         ELSE /\ CloseServer(k, s)
              /\ IF servers[s].busy THEN Wait(h, <<CloseOp(k, s)>>) ELSE GoOn(h, <<>>)
  /\ UNCHANGED <<endpoints, gatewayConfig, runtimes, lastError>>

(* _matches_socket: the server listens, and where the settings say.         *)
Matches(k) == servers[objects[k].server].port = objects[k].port

(* ForwardProxyGatewayRuntime.start: a server on the right port is kept,    *)
(* another is stopped first.                                                *)
StartRuntime(h) ==
  /\ Holds(h, "start")
  /\ LET k == Head(tasks[h]).object
         s == objects[k].server
     IN  IF s = 0 THEN Wait(h, <<BindOp(k)>>) /\ UNCHANGED <<objects, servers>>
         ELSE IF Matches(k) THEN GoOn(h, <<>>) /\ UNCHANGED <<objects, servers>>
         ELSE /\ CloseServer(k, s)
              /\ IF servers[s].busy THEN Wait(h, <<CloseOp(k, s), BindOp(k)>>)
                 ELSE Wait(h, <<BindOp(k)>>)
  /\ UNCHANGED <<endpoints, gatewayConfig, runtimes, lastError>>

(* wait_closed returns: the runtime forgets its server, whichever it has by *)
(* now, and start goes on to bind.                                          *)
ServerClosed(h) ==
  /\ Holds(h, "closing")
  /\ ~servers[Head(tasks[h]).server].busy
  /\ objects' = [objects EXCEPT ![Head(tasks[h]).object].server = 0]
  /\ IF Len(tasks[h]) > 1 /\ tasks[h][2].op = "bind" THEN Wait(h, <<>>) ELSE GoOn(h, <<>>)
  /\ UNCHANGED <<endpoints, gatewayConfig, runtimes, servers, lastError>>

(* asyncio.start_server: the port is bound, and the loop runs once more     *)
(* before the runtime has the server; or the port is taken.                 *)
Bind(h) ==
  /\ Holds(h, "bind")
  /\ LET k == Head(tasks[h]).object
         p == objects[k].port
     IN  IF \E s \in Ids : servers[s].port = p
         THEN /\ objects' = [objects EXCEPT ![k].server = 0]
              /\ lastError' = TRUE
              /\ GoOn(h, <<>>) /\ UNCHANGED servers
         ELSE \E s \in FreeServers :
              /\ \A t \in FreeServers : s <= t
              /\ servers' = [servers EXCEPT ![s] = [port |-> p, busy |-> FALSE]]
              /\ Wait(h, <<AssignOp(k, s)>>) /\ UNCHANGED <<objects, lastError>>
  /\ UNCHANGED <<endpoints, gatewayConfig, runtimes>>

Assign(h) ==
  /\ Holds(h, "assign")
  /\ objects' = [objects EXCEPT ![Head(tasks[h]).object].server = Head(tasks[h]).server]
  /\ GoOn(h, <<>>)
  /\ UNCHANGED <<endpoints, gatewayConfig, runtimes, servers, lastError>>

(* The runtimes of other endpoints, as they are now: each is to be dropped. *)
FindStale(h) ==
  /\ Holds(h, "stale")
  /\ LET stale == {e \in Endpoints : runtimes[e] # 0 /\ e \notin Head(tasks[h]).active}
     IN  \E order \in Orders(stale) : GoOn(h, [i \in 1 .. Cardinality(stale) |-> DropOp(order[i])])
  /\ UNCHANGED <<endpoints, gatewayConfig, runtimes, objects, servers, lastError>>

(* Mutant: a runtime is taken out and goes on listening.                    *)
Drop_Running(h) ==
  /\ Holds(h, "drop") /\ GoOn(h, <<>>)
  /\ runtimes' = [runtimes EXCEPT ![Head(tasks[h]).owner] = 0]
  /\ UNCHANGED <<endpoints, gatewayConfig, objects, servers, lastError>>

(* A runtime is taken out and stopped; one that another handler took out    *)
(* already is a KeyError, which ends the handler.                           *)
Drop(h) ==
  /\ Holds(h, "drop")
  /\ LET e == Head(tasks[h]).owner
     IN  IF runtimes[e] = 0 THEN Abort(h) /\ UNCHANGED runtimes
         ELSE runtimes' = [runtimes EXCEPT ![e] = 0] /\ GoOn(h, <<StopOp(runtimes[e])>>)
  /\ UNCHANGED <<endpoints, gatewayConfig, objects, servers, lastError>>

HandlerStep(h) ==
  \/ ServeEndpoint(h) \/ StopRuntime(h) \/ StartRuntime(h) \/ ServerClosed(h)
  \/ Bind(h) \/ Assign(h) \/ FindStale(h) \/ Drop(h)

(* Clients come and go, while the loop is free.                             *)
ClientConnects(s) ==
  /\ running = Nobody /\ servers[s].port # 0 /\ ~servers[s].busy
  /\ servers' = [servers EXCEPT ![s].busy = TRUE]
  /\ UNCHANGED <<endpoints, gatewayConfig, runtimes, objects, tasks, running, lastError>>

ClientsLeave(s) ==
  /\ running = Nobody /\ servers[s].busy
  /\ servers' = [servers EXCEPT ![s].busy = FALSE]
  /\ UNCHANGED <<endpoints, gatewayConfig, runtimes, objects, tasks, running, lastError>>

Next ==
  \/ \E h \in Handlers :
       \/ \E config \in [on : BOOLEAN, legacy : BOOLEAN] : SetConfig(h, config)
       \/ \E e \in Endpoints : \E row \in [on : BOOLEAN, port : EndpointPorts] : SetEndpoint(h, e, row)
       \/ HandlerStep(h)
  \/ \E s \in Ids : ClientConnects(s) \/ ClientsLeave(s)

Spec == Init /\ [][Next]_vars

-----------------------------------------------------------------------------
(* Properties.                                                              *)

Settled == running = Nobody /\ \A h \in Handlers : tasks[h] = <<>>

Listens(o, p) ==
  runtimes[o] # 0 /\ objects[runtimes[o]].server # 0 /\ servers[objects[runtimes[o]].server].port = p

(* A server that listens belongs to a runtime the manager knows: otherwise  *)
(* nothing can stop it.                                                     *)
NoStrayServer ==
  \A s \in Ids : servers[s].port # 0 => \E o \in Owners : Listens(o, servers[s].port)

(* When no request is in progress, no server is beyond control, and unless  *)
(* the last sync had an error, exactly the enabled endpoints of an enabled  *)
(* gateway listen, each on the port of its row, whoever was connected while *)
(* the settings changed.                                                    *)
ListensAsConfigured ==
  Settled =>
    /\ NoStrayServer
    /\ lastError \/ \A e \in Endpoints :
         IF gatewayConfig.on /\ endpoints[e].on THEN Listens(e, endpoints[e].port)
         ELSE runtimes[e] = 0
=============================================================================
