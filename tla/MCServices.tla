----------------------------- MODULE MCServices -----------------------------
(***************************************************************************)
(* The components of the application that share no state, in one model:    *)
(* the endpoints' listeners, the upgrade of the database, collections,     *)
(* published pools, the backup of the configuration and the guard of the   *)
(* API.  focus says which of them moves; the others stay where they start, *)
(* so the state spaces add and do not multiply.                            *)
(***************************************************************************)
EXTENDS Integers, Sequences, FiniteSets

CONSTANTS
  Endpoints, EndpointPorts, LegacyPort, Handlers, Objects,
  Sessions,
  Keys, Urls, MaxCollectors, MaxProxyCount, MaxSubs, MaxStarted,
  Countries, MaxPoolId, MaxSubId,
  PoolNames, EndpointNames, MaxEndpointId,
  Requests, Paths, Batch, MaxReads, MaxWrites, Kept, MaxConcurrent, MaxNow, MaxArrivals

VARIABLES
  focus,
  endpoints, gatewayConfig, runtimes, objects, servers, tasks, running, lastError,
  tables, leases, legacy, start, interrupted,
  proxies, subscriptions, jobs, started,
  pools, published, named, hasEndpoints, syncInterrupted,
  poolTable, endpointTable, backup, importing, moved,
  requests, slots, timestamps, lastCleanup, now, tracesOpen, counted, admitted, answered

runtimeVars == <<endpoints, gatewayConfig, runtimes, objects, servers, tasks, running, lastError>>
schemaVars  == <<tables, leases, legacy, start, interrupted>>
collectVars == <<proxies, subscriptions, jobs, started>>
poolVars    == <<pools, published, named, hasEndpoints, syncInterrupted>>
backupVars  == <<poolTable, endpointTable, backup, importing, moved>>
guardVars   == <<requests, slots, timestamps, lastCleanup, now, tracesOpen, counted, admitted, answered>>

vars == <<focus, runtimeVars, schemaVars, collectVars, poolVars, backupVars, guardVars>>

(* An URL serves nothing, or more nodes than there is room for.             *)
Texts == {<<>>, <<"k1", "k2", "k3">>}

(* Requests ask for every node, for those that do not answer although they  *)
(* are said to be available, or for one country and then for another.       *)
All == [mode |-> "none", available |-> "none", country |-> "none", countries |-> {}, fast |-> FALSE]
RawFilters ==
  {All, [All EXCEPT !.mode = "unreachable", !.available = "true"],
   [All EXCEPT !.country = "A", !.countries = {"B"}]}

Runtime    == INSTANCE GatewayRuntime
Upgrade    == INSTANCE SchemaUpgrade
Collecting == INSTANCE Collector
Publishing == INSTANCE Pools WITH endpoints <- hasEndpoints, interrupted <- syncInterrupted
Backups    == INSTANCE ConfigBackup
Guard      == INSTANCE ApiGuard

ASSUME ServicesAssumption ==
  /\ Runtime!Legacy \notin Endpoints /\ LegacyPort \in Nat \ {0} /\ EndpointPorts \subseteq Nat \ {0}
  /\ Objects \in Nat \ {0}
  /\ \A text \in Texts : \A i, j \in DOMAIN text : text[i] \in Keys /\ (text[i] = text[j] => i = j)
  /\ RawFilters \subseteq Publishing!Filter
  /\ {MaxCollectors, MaxProxyCount, MaxSubs, MaxStarted} \subseteq Nat
  /\ Collecting!NoUrl \notin Urls
  /\ Publishing!Nothing \notin Countries
  /\ {MaxPoolId, MaxSubId, MaxEndpointId} \subseteq Nat
  /\ IsFiniteSet(Endpoints) /\ IsFiniteSet(Requests)
  /\ Guard!Nowhere \notin Paths /\ Batch \subseteq Paths
  /\ {MaxReads, MaxWrites, MaxConcurrent, MaxNow, MaxArrivals, Kept} \subseteq Nat
  /\ MaxWrites <= MaxReads /\ Kept >= Guard!Window

(* A component that does not move has no endpoint settings yet, and an      *)
(* empty database.                                                          *)
Init ==
  /\ focus \in {"runtime", "schema", "collect", "pool", "backup", "guard"}
  /\ Runtime!Init /\ Upgrade!Init /\ Collecting!Init /\ Publishing!Init
  /\ Backups!Init /\ Guard!Init
  /\ focus # "runtime" => \A e \in Endpoints : endpoints[e].port = LegacyPort
  /\ focus # "schema" => \A t \in DOMAIN tables : tables[t] = {}

(* Each component's steps, while it is the one that moves.                  *)
RuntimeNext == /\ focus = "runtime" /\ Runtime!Next
               /\ UNCHANGED <<focus, schemaVars, collectVars, poolVars, backupVars, guardVars>>
UpgradeNext == /\ focus = "schema" /\ Upgrade!Next
               /\ UNCHANGED <<focus, runtimeVars, collectVars, poolVars, backupVars, guardVars>>
CollectNext == /\ focus = "collect" /\ Collecting!Next
               /\ UNCHANGED <<focus, runtimeVars, schemaVars, poolVars, backupVars, guardVars>>
PoolNext    == /\ focus = "pool" /\ Publishing!Next
               /\ UNCHANGED <<focus, runtimeVars, schemaVars, collectVars, backupVars, guardVars>>
BackupNext  == /\ focus = "backup" /\ Backups!Next
               /\ UNCHANGED <<focus, runtimeVars, schemaVars, collectVars, poolVars, guardVars>>
GuardNext   == /\ focus = "guard" /\ Guard!Next
               /\ UNCHANGED <<focus, runtimeVars, schemaVars, collectVars, poolVars, backupVars>>

Next == RuntimeNext \/ UpgradeNext \/ CollectNext \/ PoolNext \/ BackupNext \/ GuardNext

Spec == Init /\ [][Next]_vars

-----------------------------------------------------------------------------
(* What is checked of them; each module says what its properties mean.      *)

(* The types of all.                                                        *)
TypeOK ==
  /\ Runtime!TypeOK /\ Upgrade!TypeOK /\ Collecting!TypeOK
  /\ Publishing!TypeOK /\ Backups!TypeOK /\ Guard!TypeOK

(* GatewayRuntime: what listens is what the settings say, between requests, *)
(* and no server listens that nothing can stop.                             *)
ListensAsConfigured == Runtime!ListensAsConfigured

(* SchemaUpgrade: an interrupted upgrade deletes no lease, and an           *)
(* application that has started finds its columns and leases.               *)
UpgradeIsSafe == Upgrade!UpgradeIsSafe

(* Collector: collections, imports and deletions that overlap keep the      *)
(* limit, one row per URL, and what was deleted.                            *)
CollectorsDoNotClash == Collecting!CollectorsDoNotClash

(* Pools: a pool has a published subscription of its own, and nothing of    *)
(* earlier pools.                                                           *)
OwnSubscription == Publishing!OwnSubscription

(* Pools: a synced pool of plain filters serves its nodes.                  *)
PlainSyncServesThePool == Publishing!PlainSyncServesThePool

(* ConfigBackup: what an import has passed is there and means what it did.  *)
RestoredIsThere == Backups!RestoredIsThere

(* ApiGuard: the slots taken are those of the requests in progress, and a   *)
(* request is recorded once.                                                *)
SlotsAreHeld == Guard!SlotsAreHeld

(* ApiGuard: no span of a window admits more than the rate, and no refusal  *)
(* is reckoned from anything but what was admitted.                         *)
RateIsKept == Guard!RateIsKept
=============================================================================
