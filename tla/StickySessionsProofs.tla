------------------------ MODULE StickySessionsProofs ------------------------
(***************************************************************************)
(* Theorems about StickySessions: the load of an address is the number of  *)
(* leases on it, and leases agree with their rows.                         *)
(***************************************************************************)
EXTENDS StickySessions, FiniteSetTheorems, WellFoundedInduction, TLAPS

Slot  == {NoLease} \cup LeaseRecord
Table == [Session -> Slot]

(* The counts are those of the table.                                      *)
Counted(counts, table) ==
  /\ counts \in [Address -> Nat]
  /\ \A ip \in Ip : counts[ip] = Cardinality(Holders(table, ip))

-----------------------------------------------------------------------------
(* Sets of holders.                                                        *)

LEMMA HoldersAreFinite ==
  ASSUME NEW t \in Table, NEW ip
  PROVE  IsFiniteSet(Holders(t, ip)) /\ Holders(t, ip) \subseteq Session
<1>1. Holders(t, ip) \in SUBSET Session
  BY DEF Holders, Table
<1> QED BY <1>1, FS_Subset, SessionAssumption

LEMMA OnAddress ==
  ASSUME NEW t \in Table, NEW ip \in Ip
  PROVE  Holders(t, ip) = {s \in Session : t[s].ip = ip}
<1>1. DOMAIN t = Session
  BY DEF Table
<1>2. NoLease.ip # ip
  BY IpAssumption DEF NoLease
<1> QED BY <1>1, <1>2 DEF Holders

LEMMA HoldersAfter ==
  ASSUME NEW t \in Table, NEW s \in Session, NEW l \in Slot, NEW ip \in Ip
  PROVE  /\ [t EXCEPT ![s] = l] \in Table
         /\ l.ip = ip => Holders([t EXCEPT ![s] = l], ip) = Holders(t, ip) \cup {s}
         /\ l.ip # ip => Holders([t EXCEPT ![s] = l], ip) = Holders(t, ip) \ {s}
<1> DEFINE u == [t EXCEPT ![s] = l]
<1>1. u \in Table
  BY DEF Table
<1>2. Holders(u, ip) = {r \in Session : u[r].ip = ip}
  BY <1>1, OnAddress
<1>3. Holders(t, ip) = {r \in Session : t[r].ip = ip}
  BY OnAddress
<1>4. u[s] = l /\ \A r \in Session \ {s} : u[r] = t[r]
  BY DEF Table
<1> HIDE DEF u
<1> QED BY <1>1, <1>2, <1>3, <1>4 DEF u

LEMMA SlotIp ==
  ASSUME NEW l \in Slot
  PROVE  l.ip \in Address
BY DEF Slot, LeaseRecord, NoLease, Address

-----------------------------------------------------------------------------
(* _remove_lease and _create_lease keep the counts.                        *)

LEMMA ReleasedCounts ==
  ASSUME NEW counts, NEW t \in Table, Counted(counts, t), NEW s \in Session
  PROVE  Counted(Released(counts, t[s]), [t EXCEPT ![s] = NoLease])
<1> DEFINE u == [t EXCEPT ![s] = NoLease]
           c == Released(counts, t[s])
<1>0. counts \in [Address -> Nat] /\ t[s] \in Slot /\ t[s].ip \in Address
  BY SlotIp DEF Counted, Table
<1>1. c \in [Address -> Nat]
  BY <1>0 DEF Released
<1>2. ASSUME NEW ip \in Ip PROVE c[ip] = Cardinality(Holders(u, ip))
  <2>1. NoLease \in Slot /\ NoLease.ip # ip
    BY <1>2, IpAssumption DEF Slot, NoLease
  <2>2. Holders(u, ip) = Holders(t, ip) \ {s}
    BY <2>1, HoldersAfter
  <2>3. Cardinality(Holders(u, ip)) =
          IF s \in Holders(t, ip) THEN Cardinality(Holders(t, ip)) - 1
          ELSE Cardinality(Holders(t, ip))
    BY <2>2, HoldersAreFinite, FS_RemoveElement
  <2>4. counts[ip] = Cardinality(Holders(t, ip)) /\ counts[ip] \in Nat /\ ip \in Address
    BY <1>0 DEF Counted, Address
  <2>5. s \in Holders(t, ip) <=> t[s].ip = ip
    BY OnAddress
  <2>6. CASE t[s].ip = ip
    <3>1. Cardinality(Holders(t, ip)) # 0
      BY <2>5, <2>6, HoldersAreFinite, FS_EmptySet
    <3>2. c[ip] = IF counts[ip] > 1 THEN counts[ip] - 1 ELSE 0
      BY <1>0, <2>4, <2>6, IpAssumption DEF Released
    <3> HIDE DEF c, u
    <3> QED BY <2>3, <2>4, <2>5, <2>6, <3>1, <3>2
  <2>7. CASE t[s].ip # ip
    <3>1. c[ip] = counts[ip]
      BY <1>0, <2>4, <2>7 DEF Released
    <3> HIDE DEF c, u
    <3> QED BY <2>3, <2>4, <2>5, <2>7, <3>1
  <2> QED BY <2>6, <2>7
<1> QED BY <1>1, <1>2 DEF Counted

LEMMA AcquiredCounts ==
  ASSUME NEW counts, NEW t \in Table, Counted(counts, t), NEW s \in Session,
         t[s] = NoLease, NEW l \in LeaseRecord
  PROVE  Counted(Acquired(counts, l.ip), [t EXCEPT ![s] = l])
<1> DEFINE u == [t EXCEPT ![s] = l]
           c == Acquired(counts, l.ip)
<1>0. counts \in [Address -> Nat] /\ l \in Slot /\ l.ip \in Address
  BY SlotIp DEF Counted, Slot
<1>1. c \in [Address -> Nat]
  BY <1>0 DEF Acquired
<1>2. ASSUME NEW ip \in Ip PROVE c[ip] = Cardinality(Holders(u, ip))
  <2>1. counts[ip] = Cardinality(Holders(t, ip)) /\ counts[ip] \in Nat /\ ip \in Address
    BY <1>0 DEF Counted, Address
  <2>2. s \notin Holders(t, ip)
    BY OnAddress, IpAssumption DEF NoLease
  <2>3. CASE l.ip = ip
    <3>1. Holders(u, ip) = Holders(t, ip) \cup {s}
      BY <1>0, <2>3, HoldersAfter
    <3>2. Cardinality(Holders(u, ip)) = Cardinality(Holders(t, ip)) + 1
      BY <2>2, <3>1, HoldersAreFinite, FS_AddElement
    <3>3. c[ip] = counts[ip] + 1
      BY <1>0, <2>1, <2>3 DEF Acquired
    <3> HIDE DEF c, u
    <3> QED BY <2>1, <3>2, <3>3
  <2>4. CASE l.ip # ip
    <3>0. Holders(u, ip) = Holders(t, ip) \ {s}
      BY <1>0, <2>4, HoldersAfter
    <3>1. Holders(u, ip) = Holders(t, ip)
      <4> HIDE DEF u
      <4> QED BY <2>2, <3>0
    <3>2. c[ip] = counts[ip]
      BY <1>0, <2>1, <2>4 DEF Acquired
    <3> HIDE DEF c, u
    <3> QED BY <2>1, <3>1, <3>2
  <2> QED BY <2>3, <2>4
<1> QED BY <1>1, <1>2 DEF Counted

(* What Created and NoRoute make of the counts.                            *)
LEMMA CurrentCounts ==
  ASSUME Counted(load, lease), lease \in Table, NEW s \in Session
  PROVE  /\ Counted(Current(s), [lease EXCEPT ![s] = Remains(s)])
         /\ [lease EXCEPT ![s] = Remains(s)] \in Table
         /\ Remains(s) \in Slot
<1>1. CASE lease[s].left = 0
  <2>1. Counted(Released(load, lease[s]), [lease EXCEPT ![s] = NoLease])
    BY ReleasedCounts
  <2>2. Current(s) = Released(load, lease[s]) /\ Remains(s) = NoLease
    BY <1>1 DEF Current, Remains
  <2>3. [lease EXCEPT ![s] = NoLease] \in Table
    BY DEF Table, Slot
  <2> QED BY <2>1, <2>2, <2>3 DEF Slot
<1>2. CASE lease[s].left # 0
  <2>1. [lease EXCEPT ![s] = lease[s]] = lease /\ lease[s] \in Slot
    BY DEF Table
  <2>2. Current(s) = load /\ Remains(s) = lease[s]
    BY <1>2 DEF Current, Remains
  <2> QED BY <2>1, <2>2
<1> QED BY <1>1, <1>2

LEMMA CreatedCounts ==
  ASSUME Counted(load, lease), lease \in Table, NEW s \in Session,
         NEW l \in LeaseRecord
  PROVE  /\ Counted(LoadWith(Current(s), Remains(s), l.ip), [lease EXCEPT ![s] = l])
         /\ [lease EXCEPT ![s] = l] \in Table
<1> DEFINE t == [lease EXCEPT ![s] = Remains(s)]
           u == [lease EXCEPT ![s] = NoLease]
<1>1. Counted(Current(s), t) /\ t \in Table
  BY CurrentCounts
<1>2. t[s] = Remains(s) /\ [t EXCEPT ![s] = NoLease] = u
  BY DEF Table
<1>3. Counted(Released(Current(s), Remains(s)), u)
  <2> HIDE DEF t, u
  <2>1. Counted(Released(Current(s), t[s]), [t EXCEPT ![s] = NoLease])
    BY <1>1, ReleasedCounts
  <2> QED BY <1>2, <2>1
<1>4. u \in Table /\ u[s] = NoLease /\ [u EXCEPT ![s] = l] = [lease EXCEPT ![s] = l]
  BY DEF Table, Slot
<1>5. Counted(Acquired(Released(Current(s), Remains(s)), l.ip), [lease EXCEPT ![s] = l])
  <2> HIDE DEF t, u
  <2>1. Counted(Acquired(Released(Current(s), Remains(s)), l.ip), [u EXCEPT ![s] = l])
    BY <1>3, <1>4, AcquiredCounts
  <2> QED BY <1>4, <2>1
<1>6. [lease EXCEPT ![s] = l] \in Table
  BY DEF Table, Slot
<1> QED BY <1>5, <1>6 DEF LoadWith

-----------------------------------------------------------------------------
(* The inductive invariant.                                                *)

Rows == [Session -> {NoRow} \cup RowRecord]

IInv ==
  /\ upFront \in SUBSET Front /\ upExit \in SUBSET Exit
  /\ egress \in [Exit -> Address]
  /\ lease \in Table
  /\ Counted(load, lease)
  /\ row \in Rows
  /\ unsaved \in SUBSET Session
  /\ restarts \in 0 .. MaxRestarts
  /\ LeaseIsDurable

LEMMA SelectedIsExit ==
  ASSUME IInv, NEW counts, NEW x \in Selected(counts)
  PROVE  x \in Exit /\ egress[x] \in Address
<1>1. \A exits \in SUBSET Exit : Chosen(counts, exits) \subseteq Exit
  BY DEF Chosen
<1>2. x \in Exit
  BY <1>1 DEF Selected, IInv
<1> QED BY <1>2 DEF IInv

(* Whatever routing does, only the session's lease changes, and to one in  *)
(* force or to what remained of it.                                        *)
LEMMA Routed ==
  ASSUME IInv, NEW s \in Session, Reused(s) \/ Created(s) \/ NoRoute(s)
  PROVE  /\ lease' \in Table
         /\ Counted(load', lease')
         /\ \A r \in Session \ {s} : lease'[r] = lease[r]
         /\ Reused(s) \/ Created(s) => lease'[s] \in LeaseRecord
         /\ NoRoute(s) => lease'[s] = Remains(s)
<1>1. CASE Reused(s)
  <2>1. lease' = lease /\ load' = load /\ lease[s] # NoLease
    BY <1>1 DEF Reused, leases, NoLease
  <2>2. lease[s] \in LeaseRecord
    BY <2>1 DEF IInv, Table, Slot
  <2>3. NoRoute(s) => lease'[s] = Remains(s)
    BY DEF NoRoute, IInv, Table
  <2> QED BY <2>1, <2>2, <2>3 DEF IInv
<1>2. CASE Created(s)
  <2>1. PICK x \in Selected(Current(s)) :
          /\ lease' = [lease EXCEPT ![s] = [exit |-> x, ip |-> egress[x], left |-> LeaseTtl]]
          /\ load' = LoadWith(Current(s), Remains(s), egress[x])
    BY <1>2 DEF Created
  <2> DEFINE l == [exit |-> x, ip |-> egress[x], left |-> LeaseTtl]
  <2>2. l \in LeaseRecord /\ l.ip = egress[x]
    BY SelectedIsExit, TimeAssumption DEF LeaseRecord
  <2>3. lease' = [lease EXCEPT ![s] = l] /\ load' = LoadWith(Current(s), Remains(s), l.ip)
    BY <2>1, <2>2
  <2> HIDE DEF l
  <2>4. Counted(load', lease') /\ lease' \in Table
    BY <2>2, <2>3, CreatedCounts DEF IInv
  <2>5. lease'[s] = l /\ \A r \in Session \ {s} : lease'[r] = lease[r]
    BY <2>3 DEF IInv, Table
  <2>6. NoRoute(s) => lease'[s] = Remains(s)
    BY DEF NoRoute, IInv, Table
  <2> QED BY <2>2, <2>4, <2>5, <2>6
<1>3. CASE NoRoute(s)
  <2>1. lease' = [lease EXCEPT ![s] = Remains(s)] /\ load' = Current(s)
    BY <1>3 DEF NoRoute
  <2>2. Counted(load', lease') /\ lease' \in Table
    BY <2>1, CurrentCounts DEF IInv
  <2>3. lease'[s] = Remains(s) /\ \A r \in Session \ {s} : lease'[r] = lease[r]
    BY <2>1 DEF IInv, Table
  <2>4. ~ Created(s) /\ ~ Reused(s)
    <3>1. Selected(Current(s)) = {}
      BY <1>3 DEF NoRoute
    <3>2. ~ Created(s)
      BY <3>1 DEF Created
    <3>3. ~ Reused(s)
      BY <1>3 DEF NoRoute, Reused, Answer, NoAnswer
    <3> QED BY <3>2, <3>3
  <2> QED BY <2>2, <2>3, <2>4
<1> QED BY <1>1, <1>2, <1>3

-----------------------------------------------------------------------------
(* Clean-up, time and restarts.                                            *)

LEMMA CleanupCounts ==
  ASSUME IInv, CleanupLeases
  PROVE  lease' \in Table /\ Counted(load', lease')
<1>1. lease' = [s \in Session |-> IF s \in Expired THEN NoLease ELSE lease[s]]
  BY DEF CleanupLeases
<1>2. lease' \in Table
  BY <1>1 DEF Table, Slot, IInv
<1>3. /\ lease \in Table
      /\ load \in [Address -> Nat]
      /\ \A ip \in Ip : load[ip] = Cardinality(Holders(lease, ip))
  BY DEF IInv, Counted
<1>4. ASSUME NEW ip \in Ip
      PROVE  /\ load'[ip] \in Nat
             /\ load'[ip] = Cardinality(Holders(lease', ip))
  <2> DEFINE before == Holders(lease, ip)
             gone == {s \in Expired : lease[s].ip = ip}
  <2>1. gone \subseteq before
    BY <1>3, OnAddress DEF Expired
  <2>2. Holders(lease', ip) = before \ gone
    <3>1. Holders(lease', ip) = {s \in Session : lease'[s].ip = ip}
      BY <1>2, OnAddress
    <3>2. before = {s \in Session : lease[s].ip = ip}
      BY <1>3, OnAddress
    <3>3. NoLease.ip # ip
      BY <1>4, IpAssumption DEF NoLease
    <3> QED BY <1>1, <3>1, <3>2, <3>3 DEF Expired
  <2>3. load'[ip] = IF load[ip] > Cardinality(gone) THEN load[ip] - Cardinality(gone) ELSE 0
    BY <1>4, IpAssumption DEF CleanupLeases, Address
  <2>4. IsFiniteSet(before) /\ load[ip] = Cardinality(before) /\ load[ip] \in Nat
    BY <1>3, HoldersAreFinite DEF Address
  <2> HIDE DEF before, gone
  <2>5. IsFiniteSet(gone) /\ before \cap gone = gone
    BY <2>1, <2>4, FS_Subset
  <2>6. /\ Cardinality(before \ gone) = Cardinality(before) - Cardinality(gone)
        /\ Cardinality(gone) <= Cardinality(before)
    <3>1. Cardinality(before \ gone) = Cardinality(before) - Cardinality(before \cap gone)
      BY <2>4, FS_Difference
    <3>2. Cardinality(gone) <= Cardinality(before)
      BY <2>1, <2>4, FS_Subset
    <3> QED BY <2>5, <3>1, <3>2
  <2>7. Cardinality(gone) \in Nat
    BY <2>5, FS_CardinalityType
  <2> QED BY <2>2, <2>3, <2>4, <2>6, <2>7
<1>5. load' \in [Address -> Nat]
  <2>1. DOMAIN load' = Address /\ load' = [ip \in Address |-> load'[ip]]
    BY DEF CleanupLeases
  <2>2. load'[Unknown] = load[Unknown] /\ load[Unknown] \in Nat
    BY <1>3 DEF CleanupLeases, Address
  <2>3. \A ip \in Address : load'[ip] \in Nat
    BY <1>4, <2>2 DEF Address
  <2> QED BY <2>1, <2>3
<1> QED BY <1>2, <1>4, <1>5 DEF Counted

LEMMA TickCounts ==
  ASSUME IInv, Tick
  PROVE  lease' \in Table /\ Counted(load', lease')
<1>1. lease' = [s \in Session |->
         IF lease[s].left > 0 THEN [lease[s] EXCEPT !.left = @ - 1] ELSE lease[s]]
  BY DEF Tick
<1>2. lease \in Table /\ load' = load /\ Counted(load, lease)
  BY DEF Tick, IInv
<1>3. ASSUME NEW s \in Session
      PROVE  lease'[s] \in Slot /\ lease'[s].ip = lease[s].ip
  <2>1. CASE lease[s].left > 0
    <3>1. lease[s] \in LeaseRecord
      BY <1>2, <2>1 DEF Table, Slot, NoLease
    <3>2. lease'[s] = [lease[s] EXCEPT !.left = @ - 1]
      BY <1>1, <2>1
    <3> QED BY <2>1, <3>1, <3>2, TimeAssumption DEF LeaseRecord, Slot
  <2>2. CASE ~ (lease[s].left > 0)
    BY <1>1, <1>2, <2>2 DEF Table
  <2> QED BY <2>1, <2>2
<1>4. lease' \in Table
  BY <1>1, <1>3 DEF Table
<1>5. \A ip \in Ip : Holders(lease', ip) = Holders(lease, ip)
  <2> SUFFICES ASSUME NEW ip \in Ip
               PROVE  Holders(lease', ip) = Holders(lease, ip)
    OBVIOUS
  <2>1. Holders(lease', ip) = {s \in Session : lease'[s].ip = ip}
    BY <1>4, OnAddress
  <2>2. Holders(lease, ip) = {s \in Session : lease[s].ip = ip}
    BY <1>2, OnAddress
  <2> QED BY <1>3, <2>1, <2>2
<1> QED BY <1>2, <1>4, <1>5 DEF Counted

LEMMA RestoredIsSlot ==
  ASSUME NEW r \in {NoRow} \cup RowRecord
  PROVE  /\ RestoredLease(r) \in Slot
         /\ RestoredLease(r).left > 0 \/ r.left > 0 => RestoredLease(r) = r
<1>1. CASE r = NoRow
  BY <1>1 DEF RestoredLease, Slot, NoRow, NoLease
<1>2. CASE r # NoRow
  <2>1. r \in RowRecord
    BY <1>2
  <2>2. RestoredLease(r) = [r EXCEPT !.left = IF @ > 0 THEN @ ELSE 0]
    BY <1>2 DEF RestoredLease
  <2>3. RestoredLease(r) \in LeaseRecord
    BY <2>1, <2>2, TimeAssumption DEF LeaseRecord, RowRecord
  <2>4. RestoredLease(r).left > 0 \/ r.left > 0 => RestoredLease(r) = r
    BY <2>1, <2>2 DEF RowRecord
  <2> QED BY <2>3, <2>4 DEF Slot
<1> QED BY <1>1, <1>2

LEMMA RestartCounts ==
  ASSUME IInv, Restart
  PROVE  lease' \in Table /\ Counted(load', lease')
<1>1. lease' = [s \in Session |-> RestoredLease(row[s])]
  BY DEF Restart
<1>2. lease' \in Table
  BY <1>1, RestoredIsSlot DEF IInv, Table, Rows
<1>3. load' = [ip \in Address |->
         IF ip = Unknown THEN 0 ELSE Cardinality(Holders(lease', ip))]
  BY DEF Restart
<1>4. \A ip : Cardinality(Holders(lease', ip)) \in Nat
  BY <1>2, HoldersAreFinite, FS_CardinalityType
<1>5. load' \in [Address -> Nat]
  BY <1>3, <1>4
<1>6. \A ip \in Ip : load'[ip] = Cardinality(Holders(lease', ip))
  BY <1>3, IpAssumption DEF Address
<1> QED BY <1>2, <1>5, <1>6 DEF Counted

-----------------------------------------------------------------------------
(* The invariant holds.                                                    *)

LEMMA InitIInv == Init => IInv
<1> SUFFICES ASSUME Init PROVE IInv
  OBVIOUS
<1>1. lease \in Table /\ row \in Rows
  BY DEF Init, Table, Slot, Rows
<1>2. load \in [Address -> Nat] /\ \A ip \in Ip : load[ip] = 0
  BY DEF Init, Address
<1>3. \A ip \in Ip : Holders(lease, ip) = {}
  BY DEF Init, Holders
<1>4. Counted(load, lease)
  BY <1>2, <1>3, FS_EmptySet DEF Counted
<1>5. LeaseIsDurable
  BY DEF Init, LeaseIsDurable, NoLease, NoRow
<1>6. restarts \in 0 .. MaxRestarts
  BY BoundAssumption DEF Init
<1> QED BY <1>1, <1>4, <1>5, <1>6 DEF Init, IInv, Address

LEMMA RouteRequestIInv ==
  ASSUME IInv, NEW s \in Session, RouteRequest(s)
  PROVE  IInv'
<1>1. Reused(s) \/ Created(s) \/ NoRoute(s)
  BY DEF RouteRequest
<1>2. /\ lease' \in Table
      /\ Counted(load', lease')
      /\ \A r \in Session \ {s} : lease'[r] = lease[r]
      /\ Reused(s) \/ Created(s) => lease'[s] \in LeaseRecord
      /\ NoRoute(s) => lease'[s] = Remains(s)
  BY <1>1, Routed
<1>3. row' \in Rows /\ unsaved' \in SUBSET Session /\ LeaseIsDurable'
  <2>1. CASE /\ Reused(s) \/ Created(s)
             /\ row' = [row EXCEPT ![s] = lease'[s]]
             /\ unsaved' = unsaved \ {s}
    <3>1. lease'[s] \in RowRecord
      BY <1>2, <2>1, TimeAssumption DEF LeaseRecord, RowRecord
    <3>2. row' \in Rows /\ row'[s] = lease'[s] /\ \A r \in Session \ {s} : row'[r] = row[r]
      BY <2>1, <3>1 DEF IInv, Rows
    <3>3. LeaseIsDurable'
      BY <1>2, <2>1, <3>2 DEF IInv, LeaseIsDurable
    <3> QED BY <2>1, <3>2, <3>3 DEF IInv
  <2>2. CASE NoRoute(s) /\ UNCHANGED <<row, unsaved>>
    <3>1. lease'[s] = Remains(s)
      BY <1>2, <2>2
    <3>2. CASE lease[s].left # 0
      <4>1. lease'[s] = lease[s]
        BY <3>1, <3>2 DEF Remains
      <4> QED BY <1>2, <2>2, <4>1 DEF IInv, LeaseIsDurable
    <3>3. CASE lease[s].left = 0
      <4>1. lease'[s] = NoLease /\ ~ (NoLease.left > 0)
        BY <3>1, <3>3 DEF Remains, NoLease
      <4>2. s \notin unsaved => ~ (row[s].left > 0)
        <5>1. s \notin unsaved /\ row[s].left > 0 => lease[s] = row[s]
          BY DEF IInv, LeaseIsDurable
        <5> QED BY <3>3, <5>1
      <4> QED BY <1>2, <2>2, <4>1, <4>2 DEF IInv, LeaseIsDurable
    <3> QED BY <3>2, <3>3
  <2> QED BY <2>1, <2>2 DEF RouteRequest
<1> QED BY <1>2, <1>3 DEF RouteRequest, IInv, nodes

LEMMA InheritLeaseIInv ==
  ASSUME IInv, NEW s \in Session, NEW t \in Session, InheritLease(s, t)
  PROVE  IInv'
<1>1. /\ lease' \in Table
      /\ Counted(load', lease')
      /\ \A r \in Session \ {t} : lease'[r] = lease[r]
  BY Routed DEF InheritLease
<1>2. unsaved' = IF lease'[t] = lease[t] THEN unsaved ELSE unsaved \cup {t}
  BY DEF InheritLease
<1>3. UNCHANGED <<nodes, row, restarts>>
  BY DEF InheritLease
<1>4. \A r \in Session \ unsaved' : r \notin unsaved /\ lease'[r] = lease[r]
  BY <1>1, <1>2
<1>5. LeaseIsDurable'
  BY <1>3, <1>4 DEF IInv, LeaseIsDurable
<1>6. unsaved' \in SUBSET Session
  BY <1>2 DEF IInv
<1> QED BY <1>1, <1>3, <1>5, <1>6 DEF IInv, nodes

LEMMA BindInstanceIInv ==
  ASSUME IInv, NEW s \in Session, BindInstance(s)
  PROVE  IInv'
<1>1. /\ lease[s] # NoLease /\ row' = [row EXCEPT ![s] = lease[s]]
      /\ unsaved' = unsaved \ {s} /\ UNCHANGED <<nodes, leases, restarts>>
  BY DEF BindInstance
<1>2. lease[s] \in RowRecord
  BY <1>1 DEF IInv, Table, Slot, LeaseRecord, RowRecord
<1>3. row' \in Rows /\ row'[s] = lease[s] /\ \A r \in Session \ {s} : row'[r] = row[r]
  BY <1>1, <1>2 DEF IInv, Rows
<1>4. LeaseIsDurable'
  BY <1>1, <1>3 DEF IInv, LeaseIsDurable, leases
<1> QED BY <1>1, <1>3, <1>4 DEF IInv, nodes, leases

LEMMA DeleteLeaseIInv ==
  ASSUME IInv, NEW s \in Session, DeleteLease(s)
  PROVE  IInv'
<1>1. /\ lease' = [lease EXCEPT ![s] = NoLease] /\ load' = Released(load, lease[s])
      /\ row' = [row EXCEPT ![s] = NoRow]
      /\ unsaved' = unsaved \ {s} /\ UNCHANGED <<nodes, restarts>>
  BY DEF DeleteLease
<1>2. lease' \in Table /\ Counted(load', lease')
  <2>1. lease \in Table /\ Counted(load, lease)
    BY DEF IInv
  <2>2. Counted(load', lease')
    BY <1>1, <2>1, ReleasedCounts
  <2>3. lease' \in Table
    BY <1>1, <2>1 DEF Table, Slot
  <2> QED BY <2>2, <2>3
<1>3. row' \in Rows
  BY <1>1 DEF IInv, Rows
<1>4. /\ ~ (lease'[s].left > 0) /\ ~ (row'[s].left > 0)
      /\ \A r \in Session \ {s} : lease'[r] = lease[r] /\ row'[r] = row[r]
  BY <1>1 DEF IInv, Table, Rows, NoLease, NoRow
<1>5. LeaseIsDurable'
  BY <1>1, <1>4 DEF IInv, LeaseIsDurable
<1> QED BY <1>1, <1>2, <1>3, <1>5 DEF IInv, nodes

LEMMA CleanupLeasesIInv ==
  ASSUME IInv, CleanupLeases
  PROVE  IInv'
<1>1. lease' \in Table /\ Counted(load', lease')
  BY CleanupCounts
<1>2. /\ lease' = [s \in Session |-> IF s \in Expired THEN NoLease ELSE lease[s]]
      /\ row' = [s \in Session |-> IF row[s].left < 0 THEN NoRow ELSE row[s]]
      /\ UNCHANGED <<nodes, unsaved, restarts>>
  BY DEF CleanupLeases
<1>3. row' \in Rows
  BY <1>2 DEF IInv, Rows
<1>4. ASSUME NEW s \in Session \ unsaved', lease'[s].left > 0 \/ row'[s].left > 0
      PROVE  lease'[s] = row'[s]
  <2>1. lease'[s].left > 0 => s \notin Expired
    BY <1>2 DEF NoLease
  <2>2. row'[s].left > 0 => ~ (row[s].left < 0)
    BY <1>2 DEF NoRow
  <2>3. lease[s].left > 0 \/ row[s].left > 0
    BY <1>2, <1>4, <2>1, <2>2
  <2>4. lease[s] = row[s]
    BY <1>2, <1>4, <2>3 DEF IInv, LeaseIsDurable
  <2>5. s \notin Expired /\ ~ (row[s].left < 0)
    <3>1. lease[s].left \in Int
      BY TimeAssumption DEF IInv, Table, Slot, LeaseRecord, NoLease
    <3> QED BY <2>3, <2>4, <3>1 DEF Expired
  <2> QED BY <1>2, <2>4, <2>5
<1>5. LeaseIsDurable'
  BY <1>4 DEF LeaseIsDurable
<1> QED BY <1>1, <1>2, <1>3, <1>5 DEF IInv, nodes

LEMMA RestartIInv ==
  ASSUME IInv, Restart
  PROVE  IInv'
<1>1. lease' \in Table /\ Counted(load', lease')
  BY RestartCounts
<1>2. /\ lease' = [s \in Session |-> RestoredLease(row[s])]
      /\ unsaved' = {} /\ UNCHANGED <<nodes, row>>
  BY DEF Restart
<1>3. LeaseIsDurable'
  BY <1>2, RestoredIsSlot DEF IInv, Rows, LeaseIsDurable
<1>4. restarts' \in 0 .. MaxRestarts
  BY BoundAssumption DEF Restart, IInv
<1> QED BY <1>1, <1>2, <1>3, <1>4 DEF IInv, nodes

LEMMA TickIInv ==
  ASSUME IInv, Tick
  PROVE  IInv'
<1>1. lease' \in Table /\ Counted(load', lease')
  BY TickCounts
<1>2. /\ lease' = [s \in Session |->
           IF lease[s].left > 0 THEN [lease[s] EXCEPT !.left = @ - 1] ELSE lease[s]]
      /\ row' = [s \in Session |->
           IF row[s].left > -1 THEN [row[s] EXCEPT !.left = @ - 1] ELSE row[s]]
      /\ UNCHANGED <<nodes, unsaved, restarts>>
  BY DEF Tick
<1>3. ASSUME NEW s \in Session
      PROVE  /\ row'[s] \in {NoRow} \cup RowRecord
             /\ row'[s].left > 0 => row[s].left > 0
             /\ lease'[s].left > 0 => lease[s].left > 0
  <2>1. row[s] \in {NoRow} \cup RowRecord /\ lease[s] \in Slot
    BY DEF IInv, Rows, Table
  <2>2. CASE row[s].left > -1
    <3>1. row[s] \in RowRecord
      BY <2>1, <2>2 DEF NoRow, NoLease
    <3>2. row'[s] = [row[s] EXCEPT !.left = @ - 1]
      BY <1>2, <2>2
    <3>3. row'[s] \in RowRecord /\ row'[s].left = row[s].left - 1
      BY <2>2, <3>1, <3>2, TimeAssumption DEF RowRecord
    <3>4. row[s].left \in Int
      BY <3>1 DEF RowRecord
    <3>5. lease'[s].left > 0 => lease[s].left > 0
      BY <1>2
    <3> QED BY <3>3, <3>4, <3>5
  <2>3. CASE ~ (row[s].left > -1)
    BY <1>2, <2>1, <2>3
  <2> QED BY <2>2, <2>3
<1>4. row' \in Rows
  BY <1>2, <1>3 DEF Rows
<1>5. ASSUME NEW s \in Session \ unsaved', lease'[s].left > 0 \/ row'[s].left > 0
      PROVE  lease'[s] = row'[s]
  <2>1. lease[s].left > 0 \/ row[s].left > 0
    BY <1>3, <1>5
  <2>2. lease[s] = row[s]
    BY <1>2, <1>5, <2>1 DEF IInv, LeaseIsDurable
  <2>3. lease[s].left > 0 /\ row[s].left > -1
    <3>1. lease[s].left \in Int
      BY TimeAssumption DEF IInv, Table, Slot, LeaseRecord, NoLease
    <3> QED BY <2>1, <2>2, <3>1
  <2> QED BY <1>2, <2>2, <2>3
<1>6. LeaseIsDurable'
  BY <1>5 DEF LeaseIsDurable
<1> QED BY <1>1, <1>2, <1>4, <1>6 DEF IInv, nodes

LEMMA NodeChangesIInv ==
  ASSUME IInv, NodeChanges
  PROVE  IInv'
<1>1. UNCHANGED <<leases, row, unsaved, restarts>>
  BY DEF NodeChanges
<1>2. /\ upFront' \in SUBSET Front /\ upExit' \in SUBSET Exit
      /\ egress' \in [Exit -> Address]
  BY DEF NodeChanges, Flip, IInv
<1>3. LeaseIsDurable'
  BY <1>1 DEF IInv, LeaseIsDurable, leases
<1> QED BY <1>1, <1>2, <1>3 DEF IInv, leases

LEMMA NextIInv == IInv /\ [Next]_vars => IInv'
<1> SUFFICES ASSUME IInv, [Next]_vars PROVE IInv'
  OBVIOUS
<1>1. ASSUME NEW s \in Session, RouteRequest(s) PROVE IInv'
  BY <1>1, RouteRequestIInv
<1>2. ASSUME NEW s \in Session, BindInstance(s) PROVE IInv'
  BY <1>2, BindInstanceIInv
<1>3. ASSUME NEW s \in Session, DeleteLease(s) PROVE IInv'
  BY <1>3, DeleteLeaseIInv
<1>4. ASSUME NEW s \in Session, NEW t \in Session, InheritLease(s, t) PROVE IInv'
  BY <1>4, InheritLeaseIInv
<1>5. CASE CleanupLeases
  BY <1>5, CleanupLeasesIInv
<1>6. CASE Restart
  BY <1>6, RestartIInv
<1>7. CASE Tick
  BY <1>7, TickIInv
<1>8. CASE NodeChanges
  BY <1>8, NodeChangesIInv
<1>9. CASE UNCHANGED vars
  <2>1. UNCHANGED <<upFront, upExit, egress, lease, load, row, unsaved, restarts>>
    BY <1>9 DEF vars, nodes, leases
  <2>2. LeaseIsDurable'
    BY <2>1 DEF IInv, LeaseIsDurable
  <2> QED BY <2>1, <2>2 DEF IInv
<1> QED BY <1>1, <1>2, <1>3, <1>4, <1>5, <1>6, <1>7, <1>8, <1>9 DEF Next

LEMMA IInvHolds == Spec => []IInv
BY InitIInv, NextIInv, PTL DEF Spec

-----------------------------------------------------------------------------
(* Theorems.                                                               *)

(* What StickyRouter and the table of leases hold has its types.           *)
THEOREM StickyTypeCorrect == Spec => []TypeOK
<1>1. IInv => TypeOK
  <2> SUFFICES ASSUME IInv PROVE TypeOK
    OBVIOUS
  <2>1. lease \in [Session -> {NoLease} \cup LeaseRecord]
    BY DEF IInv, Table, Slot
  <2>2. row \in [Session -> {NoRow} \cup RowRecord]
    BY DEF IInv, Rows
  <2>3. load \in [Address -> Nat]
    BY DEF IInv, Counted
  <2> QED BY <2>1, <2>2, <2>3 DEF IInv, TypeOK
<1> QED BY <1>1, IInvHolds, PTL

(* _ip_load of a known address is always the number of leases on it.       *)
THEOREM LoadIsExact == Spec => []LoadCountsLeases
<1>1. IInv => LoadCountsLeases
  BY DEF IInv, Counted, LoadCountsLeases
<1> QED BY <1>1, IInvHolds, PTL

(* Leases in force and rows in force agree, inherited ones apart.          *)
THEOREM StickyLeasesAreDurable == Spec => []LeaseIsDurable
<1>1. IInv => LeaseIsDurable
  BY DEF IInv
<1> QED BY <1>1, IInvHolds, PTL

-----------------------------------------------------------------------------
(* Sessions keep their address.                                            *)

(* Of exits on an address there is always one that is not slower.          *)
LEMMA FastestExists ==
  ASSUME NEW S \in SUBSET Exit, S # {}
  PROVE  \E x \in S : \A y \in S : NotSlower(x, y)
<1> DEFINE timed == {x \in S : Latency[x] # 0}
           times == {Latency[x] : x \in timed}
           less  == {p \in Nat \X Nat : p[1] < p[2]}
<1>1. \A x \in S : Latency[x] \in Nat
  BY NodeAssumption
<1>2. CASE timed = {}
  BY <1>2 DEF NotSlower
<1>3. CASE timed # {}
  <2>1. times \subseteq Nat /\ times # {}
    BY <1>1, <1>3
  <2>2. PICK m \in times : \A n \in times : ~ (<<n, m>> \in less)
    <3>1. IsWellFoundedOn(less, Nat)
      BY NatLessThanWellFounded, Zenon DEF OpToRel
    <3> HIDE DEF times, less
    <3> QED BY <2>1, <3>1, WFMin
  <2> HIDE DEF times
  <2>3. \A n \in times : m <= n
    <3> SUFFICES ASSUME NEW n \in times, ~ (m <= n) PROVE FALSE
      OBVIOUS
    <3>1. m \in Nat /\ n \in Nat /\ n < m
      BY <2>1
    <3>2. <<n, m>> \in less
      BY ONLY <3>1
    <3> QED BY <2>2, <3>2
  <2>4. PICK x \in timed : m = Latency[x]
    BY DEF times
  <2>5. \A y \in S : NotSlower(x, y)
    BY <2>3, <2>4 DEF times, NotSlower
  <2> QED BY <2>4, <2>5
<1> QED BY <1>2, <1>3

LEMMA AnswerKeepsIp ==
  ASSUME IInv, NEW s \in Session, Reused(s) \/ Created(s) \/ NoRoute(s),
         answer'.session # {},
         lease[s].left > 0,
         SameIp(lease[s].ip) # {},
         \A x \in SameIp(lease[s].ip) : HasFront(x)
  PROVE  answer'.session = {s} /\ egress[answer'.exit] = lease[s].ip
<1>1. Kept(lease[s]) \subseteq SameIp(lease[s].ip)
  BY DEF Kept
<1>2. Kept(lease[s]) # {}
  <2>1. SameIp(lease[s].ip) \in SUBSET Exit
    BY DEF SameIp, IInv
  <2>2. PICK x \in SameIp(lease[s].ip) : \A y \in SameIp(lease[s].ip) : NotSlower(x, y)
    BY <2>1, FastestExists
  <2> QED BY <2>2 DEF Kept
<1>3. ~ Stale(s)
  BY <1>1, <1>2 DEF Stale
<1>4. Reused(s)
  BY <1>3 DEF Created, NoRoute
<1>5. PICK x \in Kept(lease[s]) : answer' = Answer(s, x)
  BY <1>4 DEF Reused
<1>6. egress[x] = lease[s].ip
  BY <1>1 DEF SameIp
<1> QED BY <1>5, <1>6 DEF Answer

(* A session that is answered while its lease is in force keeps its        *)
(* address if an exit that is up has it, with a front to reach it.         *)
THEOREM SessionsKeepTheirIp == Spec => SessionKeepsIp
<1>1. IInv /\ [Next]_vars =>
        [\A s \in Session :
           (/\ answer'.session = {s}
            /\ lease[s].left > 0
            /\ lease[s].ip # Unknown
            /\ SameIp(lease[s].ip) # {}
            /\ \A x \in SameIp(lease[s].ip) : HasFront(x))
           => egress[answer'.exit] = lease[s].ip]_vars
  <2> SUFFICES ASSUME IInv, Next, NEW s \in Session,
                      answer'.session = {s}, lease[s].left > 0,
                      SameIp(lease[s].ip) # {},
                      \A x \in SameIp(lease[s].ip) : HasFront(x)
               PROVE  egress[answer'.exit] = lease[s].ip
    OBVIOUS
  <2>1. PICK r \in Session : Reused(r) \/ Created(r) \/ NoRoute(r)
    <3>1. NoAnswer.session # {s}
      BY DEF NoAnswer
    <3>2. answer' # NoAnswer
      BY <3>1
    <3> QED BY <3>2 DEF Next, RouteRequest, InheritLease, BindInstance, DeleteLease,
                        CleanupLeases, Restart, Tick, NodeChanges
  <2>2. r = s
    <3>1. answer' = NoAnswer \/ \E x : answer' = Answer(r, x)
      BY <2>1 DEF Reused, Created, NoRoute
    <3> QED BY <3>1 DEF Answer, NoAnswer
  <2> QED BY <2>1, <2>2, AnswerKeepsIp
<1> QED BY <1>1, IInvHolds, PTL DEF Spec, SessionKeepsIp
=============================================================================
