------------------------------- MODULE Pools -------------------------------
(***************************************************************************)
(* The proxy pools a user makes, and the subscriptions they are published  *)
(* as: proxypool/pool/service.py, the handlers of api/routers/pools.py and *)
(* subscriptions.py, and the filters of storage/_helpers.py.               *)
(*                                                                         *)
(* A pool keeps its filters; the gateway routes through the nodes they     *)
(* match.  Publishing a pool writes what a published subscription keeps of *)
(* the filters into a row of its own, and whoever has its address gets the *)
(* links of the nodes those match.  A handler is one step, but a process   *)
(* may end between two of its statements.                                  *)
(***************************************************************************)
EXTENDS Naturals, FiniteSets

CONSTANTS
  Countries,        \* the countries nodes are in
  RawFilters,       \* the filters requests carry: a set of Filter
  MaxPoolId,        \* bound: the pools ever made
  MaxSubId          \* bound: the published subscriptions ever made

VARIABLES
  pools,            \* proxy_pools, by id
  published,        \* published_subscriptions, by id
  named,            \* the pools that session rules and leases name
  endpoints,        \* whether http_proxy_endpoints has a row
  interrupted       \* a sync was interrupted (not part of the program)

vars == <<pools, published, named, endpoints, interrupted>>

PoolIds == 1 .. MaxPoolId
SubIds  == 1 .. MaxSubId
Nothing == "none"

(* mode stands for route_mode_filter; country for itself and for the other  *)
(* filters that ask for one value; fast for latency_min, latency_max and    *)
(* freshness_hours.                                                         *)
Filter == [mode      : {Nothing, "direct", "chain", "unreachable"},
           available : {Nothing, "true", "false"},
           country   : {Nothing} \cup Countries,
           countries : SUBSET Countries,
           fast      : BOOLEAN]
NoFilter == [mode |-> Nothing, available |-> Nothing, country |-> Nothing, countries |-> {}, fast |-> FALSE]

(* What the filters can see of a node.                                      *)
Node == [available : BOOLEAN, fronts : BOOLEAN, country : Countries, fast : BOOLEAN]

(* made and used tell the ids that AUTOINCREMENT has given out.             *)
NoPool == [there |-> FALSE, made |-> FALSE, filters |-> NoFilter, sub |-> 0, synced |-> FALSE]
NoSub  == [there |-> FALSE, made |-> FALSE, filters |-> NoFilter, pool |-> 0]

TypeOK ==
  /\ \A p \in PoolIds : /\ pools[p].filters \in Filter /\ pools[p].sub \in SubIds \cup {0}
                        /\ pools[p].filters.country # Nothing => pools[p].filters.countries = {}
  /\ \A s \in SubIds : /\ published[s].filters \in Filter /\ published[s].pool \in PoolIds \cup {0}
                       /\ published[s].filters.countries = {} /\ ~published[s].filters.fast
  /\ named \subseteq PoolIds /\ endpoints \in BOOLEAN /\ interrupted \in BOOLEAN

Init ==
  /\ pools = [p \in PoolIds |-> NoPool]
  /\ published = [s \in SubIds |-> NoSub]
  /\ named = {} /\ endpoints = FALSE /\ interrupted = FALSE

-----------------------------------------------------------------------------
(* The filters.                                                             *)

(* _normalize_published_subscription_filters: a fixed list of keys.         *)
PublishedFilters(f) ==
  [f EXCEPT !.available = IF f.mode # Nothing THEN Nothing ELSE @, !.countries = {}, !.fast = FALSE]

(* Mutant: one country and several are both kept.                           *)
PoolFilters_Both(f) == [PublishedFilters(f) EXCEPT !.countries = f.countries, !.fast = f.fast]

(* _normalize_pool_filters: some more keys.                                 *)
PoolFilters(f) ==
  [PublishedFilters(f) EXCEPT !.countries = f.countries, !.fast = f.fast,
                              !.country = IF f.countries # {} THEN Nothing ELSE @]

(* list_proxies_filtered, with the arguments that the filters give.         *)
Matches(n, f) ==
  /\ f.mode = "direct" => n.available /\ ~n.fronts
  /\ f.mode = "chain" => n.available /\ n.fronts
  /\ f.mode = "unreachable" => ~n.available
  /\ f.mode = Nothing /\ f.available # Nothing => n.available = (f.available = "true")
  /\ f.country # Nothing => n.country = f.country
  /\ f.countries # {} => n.country \in f.countries
  /\ f.fast => n.fast

Candidates(f) == {n \in Node : Matches(n, f)}

(* Mutant: only available nodes, whatever the filters say.                  *)
Links_Available(f) == {n \in Candidates(f) : n.available}

(* get_subscription_links: available nodes, where the filters do not say.   *)
Links(f) ==
  {n \in Candidates(f) : f.mode = Nothing /\ f.available = Nothing => n.available}

-----------------------------------------------------------------------------
(* The rows.                                                                *)

(* Mutant: the ids of deleted rows are given out again.                     *)
NextId_Reused(table) == {i \in DOMAIN table : ~table[i].there}

NextId(table) == {i \in DOMAIN table : ~table[i].made}

Fresh(table) == {i \in NextId(table) : \A j \in NextId(table) : i <= j}

CreatePool(f) ==
  /\ \E p \in Fresh(pools) :
       pools' = [pools EXCEPT ![p] = [NoPool EXCEPT !.there = TRUE, !.made = TRUE, !.filters = PoolFilters(f)]]
  /\ UNCHANGED <<published, named, endpoints, interrupted>>

UpdatePool(p, f) ==
  /\ pools[p].there
  /\ pools' = [pools EXCEPT ![p].filters = PoolFilters(f), ![p].synced = FALSE]
  /\ UNCHANGED <<published, named, endpoints, interrupted>>

(* _cleanup_published_subscription.                                         *)
Cleaned(p) == IF pools[p].sub = 0 THEN published ELSE [published EXCEPT ![pools[p].sub].there = FALSE]

(* DELETE /pools/{id}.  While there is an endpoint, whichever pools it      *)
(* uses, the handler asks the storage for a method it does not have.        *)
DeletePool(p) ==
  /\ pools[p].there /\ ~endpoints
  /\ published' = Cleaned(p)
  /\ pools' = [pools EXCEPT ![p] = [NoPool EXCEPT !.made = TRUE]]
  /\ UNCHANGED <<named, endpoints, interrupted>>

(* sync_pool for the first time makes the row, and then links it.           *)
PublishPool(p) ==
  /\ pools[p].there /\ pools[p].sub = 0
  /\ \E s \in Fresh(published), ends \in BOOLEAN :
       /\ published' = [published EXCEPT ![s] =
            [there |-> TRUE, made |-> TRUE, filters |-> PublishedFilters(pools[p].filters), pool |-> p]]
       /\ pools' = IF ends THEN pools
                   ELSE [pools EXCEPT ![p].sub = s, ![p].synced = TRUE]
       /\ interrupted' = (interrupted \/ ends)
  /\ UNCHANGED <<named, endpoints>>

(* Later it writes the filters again: an error if that row was deleted.     *)
SyncPool(p) ==
  /\ pools[p].there /\ pools[p].sub # 0 /\ published[pools[p].sub].there
  /\ published' = [published EXCEPT ![pools[p].sub].filters = PublishedFilters(pools[p].filters)]
  /\ pools' = [pools EXCEPT ![p].synced = TRUE]
  /\ UNCHANGED <<named, endpoints, interrupted>>

(* The pools whose subscription a request changes are not told.             *)
Unsynced(s) == [p \in PoolIds |-> [pools[p] EXCEPT !.synced = @ /\ pools[p].sub # s]]

CreatePublished(f) ==
  /\ \E s \in Fresh(published) :
       published' = [published EXCEPT ![s] =
         [there |-> TRUE, made |-> TRUE, filters |-> PublishedFilters(f), pool |-> 0]]
  /\ UNCHANGED <<pools, named, endpoints, interrupted>>

UpdatePublished(s, f) ==
  /\ published[s].there
  /\ published' = [published EXCEPT ![s].filters = PublishedFilters(f)]
  /\ pools' = Unsynced(s)
  /\ UNCHANGED <<named, endpoints, interrupted>>

DeletePublished(s) ==
  /\ published[s].there
  /\ published' = [published EXCEPT ![s].there = FALSE]
  /\ pools' = Unsynced(s)
  /\ UNCHANGED <<named, endpoints, interrupted>>

(* A session rule, or a lease, for a pool there is; deleting the pool       *)
(* leaves it.                                                               *)
NamePool(p) ==
  pools[p].there /\ named' = named \cup {p} /\ UNCHANGED <<pools, published, endpoints, interrupted>>

ForgetPool(p) ==
  p \in named /\ named' = named \ {p} /\ UNCHANGED <<pools, published, endpoints, interrupted>>

EndpointsChange ==
  endpoints' = ~endpoints /\ UNCHANGED <<pools, published, named, interrupted>>

Next ==
  \/ \E f \in RawFilters : CreatePool(f) \/ CreatePublished(f)
  \/ \E p \in PoolIds :
       \/ DeletePool(p) \/ PublishPool(p) \/ SyncPool(p) \/ NamePool(p) \/ ForgetPool(p)
       \/ \E f \in RawFilters : UpdatePool(p, f)
  \/ \E s \in SubIds : DeletePublished(s) \/ \E f \in RawFilters : UpdatePublished(s, f)
  \/ EndpointsChange

Spec == Init /\ [][Next]_vars

-----------------------------------------------------------------------------
(* Properties.                                                              *)

(* A pool has what is its own.  Two pools never publish into one            *)
(* subscription, nor does a pool take over one that a user made, also when  *)
(* it still names a row that was deleted; unless a sync was interrupted, a  *)
(* subscription made for a pool goes with it, and no pool has two; and a    *)
(* new pool has no session rules and no leases, though those of deleted     *)
(* pools are left behind.                                                   *)
OwnSubscription ==
  /\ [](\A p \in PoolIds :
          pools[p].there /\ pools[p].sub # 0 => published[pools[p].sub].pool = p)
  /\ [](\A s \in SubIds :
          published[s].there /\ published[s].pool # 0 =>
            interrupted \/ (pools[published[s].pool].there /\ pools[published[s].pool].sub = s))
  /\ [][\A p \in PoolIds : ~pools[p].there /\ pools'[p].there => p \notin named']_vars

(* A pool whose filters a subscription can keep serves, once synced, the    *)
(* links of its own candidates: the available ones, where its filters do    *)
(* not say.                                                                 *)
PlainSyncServesThePool ==
  \A p \in PoolIds :
    LET f == pools[p].filters
    IN  pools[p].there /\ pools[p].synced /\ f.countries = {} /\ ~f.fast =>
          Links(published[pools[p].sub].filters) =
            {n \in Candidates(f) : n.available \/ \A m \in Candidates(f) : ~m.available}
=============================================================================
