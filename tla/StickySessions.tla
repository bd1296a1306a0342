--------------------------- MODULE StickySessions ---------------------------
(***************************************************************************)
(* Single-hop sessions: StickyRouter (pool/sticky_router.py) and the calls *)
(* of ProxyChainService (pool/chain_service.py) that persist its leases.   *)
(* A session is a pair of session id and pool id, the key of a lease.      *)
(*                                                                         *)
(* Calls are made on the event loop and do not suspend; between them the   *)
(* probe thread and the pool refresh change the entries of the nodes.  The *)
(* front node of an answer is remembered nowhere, so that only the         *)
(* existence of one other than the exit matters here.                      *)
(***************************************************************************)
EXTENDS Integers, FiniteSets

CONSTANTS
  Session,      \* keys of leases
  Front,        \* nodes of the front pool
  Exit,         \* nodes of the exit pool, which may be in the front pool too
  Ip,           \* egress addresses
  Unknown,      \* the empty address
  Nobody,       \* no node
  Latency,      \* latency of each exit node, 0 when not measured
  LeaseTtl,     \* sticky_ttl_sec, in ticks
  MaxLoad,      \* bound on the load counted for the unknown address
  MaxRestarts   \* bound on the number of process restarts

ASSUME NodeAssumption ==
  /\ Nobody \notin Exit
  /\ Latency \in [Exit -> Nat]
ASSUME IpAssumption == Unknown \notin Ip
ASSUME SessionAssumption == IsFiniteSet(Session)
ASSUME TimeAssumption == LeaseTtl \in Nat \ {0}
ASSUME BoundAssumption == MaxLoad \in Nat /\ MaxRestarts \in Nat

VARIABLES
  upFront,      \* front nodes routeable, with a closed circuit
  upExit,       \* the same of the exit nodes
  egress,       \* egress_ip of the exit nodes' entries
  lease,        \* _leases
  load,         \* _ip_load
  row,          \* table sticky_leases
  answer,       \* what the call just made answered
  unsaved,      \* history: sessions with a lease no call has persisted
  restarts      \* restarts so far

nodes == <<upFront, upExit, egress>>
leases == <<lease, load>>
vars == <<nodes, leases, row, answer, unsaved, restarts>>

Address == Ip \cup {Unknown}
NoLease == [exit |-> Nobody, ip |-> Unknown, left |-> 0]
NoRow   == [NoLease EXCEPT !.left = -1]
NoAnswer == [session |-> {}, exit |-> Nobody]
Answer(s, x) == [session |-> {s}, exit |-> x]

Init ==
  /\ upFront = Front /\ upExit = Exit
  /\ egress = [x \in Exit |-> Unknown]
  /\ lease = [s \in Session |-> NoLease]
  /\ load = [ip \in Address |-> 0]
  /\ row = [s \in Session |-> NoRow]
  /\ answer = NoAnswer
  /\ unsaved = {}
  /\ restarts = 0

-----------------------------------------------------------------------------
(* The load of an address.                                                 *)

Holders(table, ip) == {s \in DOMAIN table : table[s] # NoLease /\ table[s].ip = ip}

Acquired(counts, ip) == [counts EXCEPT ![ip] = @ + 1]

(* _remove_lease: a lease without an address releases nothing.             *)
Released(counts, l) ==
  IF l.ip = Unknown THEN counts
  ELSE [counts EXCEPT ![l.ip] = IF @ > 1 THEN @ - 1 ELSE 0]

(* _calculate_score.                                                       *)
Score(counts, x) ==
  IF Latency[x] = 0 THEN counts[egress[x]] ELSE (counts[egress[x]] + 1) * Latency[x]

(* _p2c_select: the better of two that are drawn.                          *)
Chosen(counts, exits) ==
  {x \in exits :
     exits = {x} \/ \E y \in exits \ {x} : Score(counts, x) <= Score(counts, y)}

-----------------------------------------------------------------------------
(* StickyRouter.route.                                                     *)

(* _select_front_for_exit finds one.                                       *)
HasFront(x) == upFront \ {x} # {}

(* Mutant: no other exit is looked for.                                    *)
Kept_ExitOnly(l) == {x \in upExit : x = l.exit /\ egress[x] = l.ip}

SameIp(ip) == {x \in upExit : egress[x] = ip}
NotSlower(x, y) == Latency[y] = 0 \/ (Latency[x] # 0 /\ Latency[x] <= Latency[y])

(* _try_reuse_lease: the exit of the lease, or _find_same_ip_exit.         *)
Kept(l) ==
  IF l.exit \in SameIp(l.ip) THEN {l.exit}
  ELSE {x \in SameIp(l.ip) : \A y \in SameIp(l.ip) : NotSlower(x, y)}

(* The lease is in force and gives a pair of nodes.                        *)
Reused(s) ==
  /\ lease[s].left > 0
  /\ \E x \in Kept(lease[s]) : HasFront(x) /\ answer' = Answer(s, x)
  /\ UNCHANGED leases

(* It is not: _get_lease has dropped it if it expired.                     *)
Stale(s) ==
  \/ lease[s].left = 0
  \/ Kept(lease[s]) = {}
  \/ \E x \in Kept(lease[s]) : ~HasFront(x)

Current(s) == IF lease[s].left = 0 THEN Released(load, lease[s]) ELSE load
Remains(s) == IF lease[s].left = 0 THEN NoLease ELSE lease[s]

(* _select_distinct_pair: the second draw is made when the first exit is   *)
(* the only front.                                                         *)
Selected(counts) ==
  LET first == Chosen(counts, upExit)
  IN  {x \in first \cup UNION {Chosen(counts, upExit \ {y}) : y \in {z \in first : ~HasFront(z)}} :
         HasFront(x)}

(* Mutant: the lease that is replaced is not released.                     *)
LoadWith_NotReleased(counts, old, ip) == Acquired(counts, ip)

(* _create_lease removes the lease there may be.                           *)
LoadWith(counts, old, ip) == Acquired(Released(counts, old), ip)

Created(s) ==
  /\ Stale(s)
  /\ \E x \in Selected(Current(s)) :
       /\ egress[x] = Unknown => load[Unknown] < MaxLoad
       /\ answer' = Answer(s, x)
       /\ lease' = [lease EXCEPT ![s] = [exit |-> x, ip |-> egress[x], left |-> LeaseTtl]]
       /\ load' = LoadWith(Current(s), Remains(s), egress[x])

(* No pair: None is returned, before the lease is looked at when a pool    *)
(* has no healthy node.                                                    *)
NoRoute(s) ==
  /\ upFront # {} /\ upExit # {}
  /\ Stale(s)
  /\ Selected(Current(s)) = {}
  /\ answer' = NoAnswer
  /\ lease' = [lease EXCEPT ![s] = Remains(s)]
  /\ load' = Current(s)

-----------------------------------------------------------------------------
(* The calls of the service.                                               *)

(* route_request: the session's lease is persisted with every answer.      *)
RouteRequest(s) ==
  /\ \/ /\ Reused(s) \/ Created(s)
        /\ row' = [row EXCEPT ![s] = lease'[s]]
        /\ unsaved' = unsaved \ {s}
     \/ NoRoute(s) /\ UNCHANGED <<row, unsaved>>
  /\ UNCHANGED <<nodes, restarts>>

(* inherit_lease: the target session is routed, and not persisted.         *)
InheritLease(s, t) ==
  /\ lease[s] # NoLease
  /\ Reused(t) \/ Created(t) \/ NoRoute(t)
  /\ unsaved' = IF lease'[t] = lease[t] THEN unsaved ELSE unsaved \cup {t}
  /\ UNCHANGED <<nodes, row, restarts>>

(* bind_instance_to_session; the instance itself is left out.              *)
BindInstance(s) ==
  /\ lease[s] # NoLease
  /\ row' = [row EXCEPT ![s] = lease[s]]
  /\ unsaved' = unsaved \ {s}
  /\ answer' = NoAnswer
  /\ UNCHANGED <<nodes, leases, restarts>>

(* Mutant: the row is left behind.                                         *)
DeleteLease_RowLeft(s) ==
  /\ lease' = [lease EXCEPT ![s] = NoLease]
  /\ load' = Released(load, lease[s])
  /\ unsaved' = unsaved \ {s}
  /\ answer' = NoAnswer
  /\ UNCHANGED <<nodes, row, restarts>>

(* delete_lease.                                                           *)
DeleteLease(s) ==
  /\ lease' = [lease EXCEPT ![s] = NoLease]
  /\ load' = Released(load, lease[s])
  /\ row' = [row EXCEPT ![s] = NoRow]
  /\ unsaved' = unsaved \ {s}
  /\ answer' = NoAnswer
  /\ UNCHANGED <<nodes, restarts>>

Expired == {s \in Session : lease[s] # NoLease /\ lease[s].left = 0}

(* cleanup_leases: leases go when now >= expires_at, rows when             *)
(* expires_at < now.                                                       *)
CleanupLeases ==
  /\ lease' = [s \in Session |-> IF s \in Expired THEN NoLease ELSE lease[s]]
  /\ load' = [ip \in Address |->
       IF ip = Unknown THEN load[ip]
       ELSE LET gone == Cardinality({s \in Expired : lease[s].ip = ip})
            IN  IF load[ip] > gone THEN load[ip] - gone ELSE 0]
  /\ row' = [s \in Session |-> IF row[s].left < 0 THEN NoRow ELSE row[s]]
  /\ answer' = NoAnswer
  /\ UNCHANGED <<nodes, unsaved, restarts>>

RestoredLease(r) ==
  IF r = NoRow THEN NoLease ELSE [r EXCEPT !.left = IF @ > 0 THEN @ ELSE 0]

(* A restart: _load_sticky_leases, expired rows too.                       *)
Restart ==
  /\ restarts < MaxRestarts
  /\ restarts' = restarts + 1
  /\ lease' = [s \in Session |-> RestoredLease(row[s])]
  /\ load' = [ip \in Address |->
       IF ip = Unknown THEN 0 ELSE Cardinality(Holders(lease', ip))]
  /\ unsaved' = {}
  /\ answer' = NoAnswer
  /\ UNCHANGED <<nodes, row>>

-----------------------------------------------------------------------------
(* The world: time passes, probes and refreshes change the entries.        *)
Tick ==
  /\ lease' = [s \in Session |->
       IF lease[s].left > 0 THEN [lease[s] EXCEPT !.left = @ - 1] ELSE lease[s]]
  /\ row' = [s \in Session |->
       IF row[s].left > -1 THEN [row[s] EXCEPT !.left = @ - 1] ELSE row[s]]
  /\ answer' = NoAnswer
  /\ UNCHANGED <<nodes, load, unsaved, restarts>>

Flip(set, n) == IF n \in set THEN set \ {n} ELSE set \cup {n}

NodeChanges ==
  /\ \/ \E f \in Front : upFront' = Flip(upFront, f) /\ UNCHANGED <<upExit, egress>>
     \/ \E x \in Exit : upExit' = Flip(upExit, x) /\ UNCHANGED <<upFront, egress>>
     \/ \E x \in Exit, ip \in Address :
          egress' = [egress EXCEPT ![x] = ip] /\ UNCHANGED <<upFront, upExit>>
  /\ answer' = NoAnswer
  /\ UNCHANGED <<leases, row, unsaved, restarts>>

Next ==
  \/ \E s \in Session : RouteRequest(s) \/ BindInstance(s) \/ DeleteLease(s)
  \/ \E s, t \in Session : InheritLease(s, t)
  \/ CleanupLeases \/ Restart \/ Tick \/ NodeChanges

Spec == Init /\ [][Next]_vars

-----------------------------------------------------------------------------
LeaseRecord == [exit : Exit, ip : Address, left : 0 .. LeaseTtl]
RowRecord   == [exit : Exit, ip : Address, left : -1 .. LeaseTtl]

(* Types.                                                                  *)
TypeOK ==
  /\ upFront \in SUBSET Front /\ upExit \in SUBSET Exit
  /\ egress \in [Exit -> Address]
  /\ lease \in [Session -> {NoLease} \cup LeaseRecord]
  /\ load \in [Address -> Nat]
  /\ row \in [Session -> {NoRow} \cup RowRecord]
  /\ unsaved \in SUBSET Session
  /\ restarts \in 0 .. MaxRestarts

(* The load of a known address, which the selection of exits weighs, is    *)
(* the number of leases on it: none is counted twice or for ever when      *)
(* leases are replaced, deleted, expire or are restored.                   *)
LoadCountsLeases ==
  \A ip \in Ip : load[ip] = Cardinality(Holders(lease, ip))

(* Apart from leases inherited and not used yet, a lease in force is what  *)
(* its row says and a row in force what its lease says, so that a crash    *)
(* neither loses a session nor revives one that was deleted.               *)
LeaseIsDurable ==
  \A s \in Session \ unsaved :
    lease[s].left > 0 \/ row[s].left > 0 => lease[s] = row[s]

(* A session with a lease on a known address is answered with an exit on   *)
(* that address as long as there is one, and a front for it.               *)
SessionKeepsIp ==
  [][\A s \in Session :
       (/\ answer'.session = {s}
        /\ lease[s].left > 0
        /\ lease[s].ip # Unknown
        /\ SameIp(lease[s].ip) # {}
        /\ \A x \in SameIp(lease[s].ip) : HasFront(x))
       => egress[answer'.exit] = lease[s].ip]_vars
=============================================================================
