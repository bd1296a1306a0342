---------------------------- MODULE ConfigBackup ----------------------------
(***************************************************************************)
(* Export and import of the configuration: proxypool/api/routers/          *)
(* settings.py, over the pools and the HTTP proxy endpoints of             *)
(* proxypool/storage/sqlite.py and their handlers in api/routers.          *)
(*                                                                         *)
(* A backup holds the rows with their ids.  An import makes new rows, one  *)
(* statement after another, and skips what has a name that is taken; an    *)
(* endpoint is made before its hops, which are the pool ids of the backup. *)
(* The process may end in between.  Nothing else runs during an import:    *)
(* the handler does not suspend before it asks the gateway to sync, which  *)
(* is GatewayRuntime's.  Subscriptions are Collector's; the settings of a  *)
(* backup are read and dropped, and a rollback restores nothing.           *)
(***************************************************************************)
EXTENDS Naturals, FiniteSets

CONSTANTS
  PoolNames, EndpointNames,
  MaxPoolId, MaxEndpointId    \* bounds: the rows an installation ever has

VARIABLES
  poolTable,        \* proxy_pools, by id
  endpointTable,    \* http_proxy_endpoints with http_proxy_endpoint_hops, by id
  backup,           \* the last export, kept by the user
  importing,        \* the import in progress
  moved             \* the installation is not the first one (not part of the program)

vars == <<poolTable, endpointTable, backup, importing, moved>>

PoolIds     == 1 .. MaxPoolId
EndpointIds == 1 .. MaxEndpointId

(* One hop stands for the list of them.                                     *)
HopLists == {<<>>} \cup {<<p>> : p \in PoolIds}

(* made tells the ids that AUTOINCREMENT has given out.                     *)
NoPool     == [there |-> FALSE, made |-> FALSE, name |-> "none"]
NoEndpoint == [there |-> FALSE, made |-> FALSE, name |-> "none", hops |-> <<>>]
Empty      == [pools |-> [p \in PoolIds |-> NoPool], endpoints |-> [e \in EndpointIds |-> NoEndpoint]]

(* The backup's items to be imported, and those that have been; the row     *)
(* made for each endpoint that was not skipped; half is the one that waits  *)
(* for its hops.                                                            *)
Resting == [active |-> FALSE, overwrite |-> FALSE, pools |-> {}, endpoints |-> {}, half |-> 0,
            seenPools |-> {}, seenEndpoints |-> {}, made |-> [e \in EndpointIds |-> 0]]

TypeOK ==
  /\ poolTable \in [PoolIds -> [there : BOOLEAN, made : BOOLEAN, name : PoolNames \cup {"none"}]]
  /\ \A e \in EndpointIds : endpointTable[e].hops \in HopLists
  /\ importing.pools \cap importing.seenPools = {} /\ importing.half \in EndpointIds \cup {0}
  /\ ~importing.active => importing = Resting
  /\ moved \in BOOLEAN

Init ==
  /\ poolTable = Empty.pools /\ endpointTable = Empty.endpoints /\ backup = Empty
  /\ importing = Resting /\ moved = FALSE

There(table) == {i \in DOMAIN table : table[i].there}
Names(table) == {table[i].name : i \in There(table)}

-----------------------------------------------------------------------------
(* The rows, and the handlers that make, change and delete them.            *)

NextIds(table) == {i \in DOMAIN table : ~table[i].made}

Free(table) == {i \in NextIds(table) : \A j \in NextIds(table) : i <= j}

(* create_proxy_pool.                                                       *)
PoolCreated(p, name) == poolTable' = [poolTable EXCEPT ![p] = [there |-> TRUE, made |-> TRUE, name |-> name]]

(* create_http_proxy_endpoint, where the name is unique.                    *)
EndpointCreated(e, name, hops) ==
  /\ name \notin Names(endpointTable)
  /\ endpointTable' = [endpointTable EXCEPT ![e] = [there |-> TRUE, made |-> TRUE, name |-> name, hops |-> hops]]

(* replace_http_proxy_endpoint_hops.                                        *)
HopsReplaced(e, hops) == endpointTable' = [endpointTable EXCEPT ![e].hops = hops]

Quiet == ~importing.active /\ UNCHANGED <<backup, importing, moved>>

(* The hops a user may choose: pools that are there.                        *)
Choices == {<<>>} \cup {<<p>> : p \in There(poolTable)}

CreatePool ==
  /\ Quiet /\ UNCHANGED endpointTable
  /\ \E p \in Free(poolTable), name \in PoolNames : PoolCreated(p, name)

(* A pool cannot be deleted while there is an endpoint: see Pools.          *)
DeletePool(p) ==
  /\ Quiet /\ UNCHANGED endpointTable
  /\ p \in There(poolTable) /\ There(endpointTable) = {}
  /\ poolTable' = [poolTable EXCEPT ![p] = [NoPool EXCEPT !.made = TRUE]]

CreateEndpoint ==
  /\ Quiet /\ UNCHANGED poolTable
  /\ \E e \in Free(endpointTable), name \in EndpointNames, hops \in Choices : EndpointCreated(e, name, hops)

UpdateEndpoint(e) ==
  /\ Quiet /\ UNCHANGED poolTable
  /\ e \in There(endpointTable)
  /\ \E hops \in Choices : HopsReplaced(e, hops)

DeleteEndpoint(e) ==
  /\ Quiet /\ UNCHANGED poolTable
  /\ e \in There(endpointTable)
  /\ endpointTable' = [endpointTable EXCEPT ![e] = [NoEndpoint EXCEPT !.made = TRUE]]

-----------------------------------------------------------------------------
(* Export and import.                                                       *)

Export ==
  /\ ~importing.active
  /\ backup' = [pools |-> poolTable, endpoints |-> endpointTable]
  /\ UNCHANGED <<poolTable, endpointTable, importing, moved>>

StartImport ==
  /\ ~importing.active
  /\ \E overwrite, pools, endpoints \in BOOLEAN :
       importing' = [Resting EXCEPT !.active = TRUE, !.overwrite = overwrite,
                       !.pools = IF pools THEN There(backup.pools) ELSE {},
                       !.endpoints = IF endpoints THEN There(backup.endpoints) ELSE {}]
  /\ UNCHANGED <<poolTable, endpointTable, backup, moved>>

(* Mutant: what would be overwritten is left out.                           *)
Skips_Overwrite(table, name) == name \in Names(table) \/ importing.overwrite

(* With overwrite_existing a taken name is not skipped; but nothing is      *)
(* overwritten either: a second pool of that name is made, and an endpoint  *)
(* cannot be, which is an error for that item.                              *)
Skips(table, name) == name \in Names(table) /\ ~importing.overwrite

ImportPool(p) ==
  /\ p \in importing.pools
  /\ IF Skips(poolTable, backup.pools[p].name) THEN UNCHANGED poolTable
     ELSE \E q \in Free(poolTable) : PoolCreated(q, backup.pools[p].name)
  /\ importing' = [importing EXCEPT !.pools = @ \ {p}, !.seenPools = @ \cup {p}]
  /\ UNCHANGED <<endpointTable, backup, moved>>

Seen(e) == [importing EXCEPT !.endpoints = @ \ {e}, !.seenEndpoints = @ \cup {e}]

ImportEndpoint(e) ==
  /\ importing.pools = {} /\ importing.half = 0 /\ e \in importing.endpoints
  /\ IF Skips(endpointTable, backup.endpoints[e].name) \/ backup.endpoints[e].name \in Names(endpointTable)
     THEN importing' = Seen(e) /\ UNCHANGED endpointTable
     ELSE \E f \in Free(endpointTable) :
            /\ EndpointCreated(f, backup.endpoints[e].name, <<>>)
            /\ importing' = [importing EXCEPT !.half = e, !.made[e] = f]
  /\ UNCHANGED <<poolTable, backup, moved>>

ImportHops ==
  /\ importing.half # 0
  /\ HopsReplaced(importing.made[importing.half], backup.endpoints[importing.half].hops)
  /\ importing' = [Seen(importing.half) EXCEPT !.half = 0]
  /\ UNCHANGED <<poolTable, backup, moved>>

(* The import is done, or the process ends.                                 *)
EndImport ==
  importing.active /\ importing' = Resting /\ UNCHANGED <<poolTable, endpointTable, backup, moved>>

(* The backup is taken to a new installation.                               *)
Reinstall ==
  /\ ~importing.active /\ moved' = TRUE
  /\ poolTable' = Empty.pools /\ endpointTable' = Empty.endpoints
  /\ UNCHANGED <<backup, importing>>

Next ==
  \/ CreatePool \/ CreateEndpoint \/ Export \/ StartImport \/ ImportHops \/ EndImport \/ Reinstall
  \/ \E p \in PoolIds : DeletePool(p) \/ ImportPool(p)
  \/ \E e \in EndpointIds : UpdateEndpoint(e) \/ DeleteEndpoint(e) \/ ImportEndpoint(e)

Spec == Init /\ [][Next]_vars

-----------------------------------------------------------------------------
(* Properties.                                                              *)

(* What an import has passed is there and means what it did: a pool and an  *)
(* endpoint of every name, and for an endpoint that was not skipped a row   *)
(* with the backup's hops.  Within one installation, a new pool is never    *)
(* one that an endpoint, of the table or of the backup, already names: a    *)
(* restored endpoint may have a hop that is no longer there, but never      *)
(* another pool than the one it had.                                        *)
RestoredIsThere ==
  /\ [](\A p \in importing.seenPools : backup.pools[p].name \in Names(poolTable))
  /\ [](\A e \in importing.seenEndpoints :
          LET f == importing.made[e]
          IN  /\ backup.endpoints[e].name \in Names(endpointTable)
              /\ f # 0 => endpointTable[f].there /\ endpointTable[f].hops = backup.endpoints[e].hops)
  /\ [][\A p \in PoolIds :
          ~poolTable[p].there /\ poolTable'[p].there /\ ~moved =>
            /\ \A e \in There(endpointTable) : endpointTable[e].hops # <<p>>
            /\ \A e \in There(backup.endpoints) : backup.endpoints[e].hops # <<p>>]_vars
=============================================================================
