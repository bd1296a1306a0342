--------------------------- MODULE ServicesProofs ---------------------------
(***************************************************************************)
(* Proofs about the components of the application, for every value of the  *)
(* constants that ServicesAssumption admits: each section has the          *)
(* inductive invariant of one component, and the last one takes them to    *)
(* the specification of the whole.                                         *)
(*                                                                         *)
(*   GuardInv    a slot for each request in a handler, and the times of    *)
(*               the last window still kept;                               *)
(*   SchemaInv   what the stages of the upgrade have done, and where the   *)
(*               leases are when one is interrupted;                       *)
(*   PoolInv     a pool and its subscription name each other;              *)
(*   BackupInv   rows that are named were made, and each endpoint that an  *)
(*               import has passed has a row of its own;                   *)
(*   CollectInv  a collection answers for each node of the catalogue, and  *)
(*               for no more than it has counted;                          *)
(*   ListenInv   what the handler has begun, and what waits behind it.     *)
(***************************************************************************)
EXTENDS MCServices, FiniteSetTheorems, SequenceTheorems, WellFoundedInduction, TLAPS

-----------------------------------------------------------------------------
(* ApiGuard.                                                                *)

(* The times the limiter keeps are of requests it admitted, and those of    *)
(* the last window are all there.                                           *)
StampOf(a) == [n |-> a.n, at |-> a.at]
StampsAreKept(p) ==
  /\ IsFiniteSet(admitted[p])
  /\ \A a \in admitted[p] : a.n < Guard!Arrived /\ a.at <= now
  /\ \A a, b \in admitted[p] : a.n = b.n => a = b
  /\ timestamps[p] \subseteq {StampOf(a) : a \in admitted[p]}
  /\ \A a \in admitted[p] : now - a.at < Guard!Window => StampOf(a) \in timestamps[p]

RatesAreKept(p) ==
  \A t \in Guard!Times :
    /\ Cardinality(Guard!InSpan(p, t, DOMAIN Guard!Rate)) <= MaxReads
    /\ Cardinality(Guard!InSpan(p, t, {"POST"})) <= MaxWrites

GuardTypes ==
  /\ requests \in [Requests -> Paths \cup {Guard!Nowhere}]
  /\ slots \in [Batch -> 0 .. MaxConcurrent]
  /\ timestamps \in [Paths -> SUBSET Guard!Stamp]
  /\ admitted \in [Paths -> SUBSET Guard!Passed]
  /\ lastCleanup \in 0 .. now /\ now \in Guard!Times
  /\ tracesOpen \in Nat /\ counted \in Nat

GuardInv ==
  /\ GuardTypes
  /\ tracesOpen \in Cardinality(Guard!InHandler(Paths)) .. MaxArrivals
  /\ \A p \in Batch : slots[p] = Cardinality(Guard!InHandler({p}))
  /\ counted = answered
  /\ \A p \in Paths : StampsAreKept(p) /\ RatesAreKept(p)

LEMMA GuardAssumptions ==
  /\ IsFiniteSet(Requests)
  /\ Guard!Nowhere \notin Paths /\ Batch \subseteq Paths
  /\ MaxReads \in Nat /\ MaxWrites \in Nat /\ MaxConcurrent \in Nat /\ MaxNow \in Nat
  /\ MaxArrivals \in Nat /\ Kept \in Nat
  /\ MaxWrites <= MaxReads /\ Kept >= Guard!Window
BY ServicesAssumption

(* The cardinality an instance takes is that of its module's environment.   *)
LEMMA GuardCardinality ==
  ASSUME NEW S
  PROVE  Guard!Cardinality(S) = Cardinality(S)
BY DEF Guard!Cardinality, Cardinality, Guard!IsFiniteSet, IsFiniteSet

(* A handler more or less in a set of paths.                                *)
LEMMA InHandlerFinite ==
  ASSUME NEW S
  PROVE  IsFiniteSet(Guard!InHandler(S)) /\ Cardinality(Guard!InHandler(S)) \in Nat
BY GuardAssumptions, FS_Subset, FS_CardinalityType DEF Guard!InHandler

LEMMA HandlerEntered ==
  ASSUME requests \in [Requests -> Paths \cup {Guard!Nowhere}],
         NEW r \in Requests, NEW p \in Paths, NEW S, Guard!Nowhere \notin S,
         requests[r] = Guard!Nowhere, requests' = [requests EXCEPT ![r] = p]
  PROVE  Cardinality(Guard!InHandler(S))' =
           IF p \in S THEN Cardinality(Guard!InHandler(S)) + 1 ELSE Cardinality(Guard!InHandler(S))
<1>1. Guard!InHandler(S)' = IF p \in S THEN Guard!InHandler(S) \cup {r} ELSE Guard!InHandler(S)
  BY DEF Guard!InHandler
<1>2. r \notin Guard!InHandler(S)
  BY DEF Guard!InHandler
<1> QED
  BY <1>1, <1>2, InHandlerFinite, FS_AddElement

LEMMA HandlerLeft ==
  ASSUME requests \in [Requests -> Paths \cup {Guard!Nowhere}],
         NEW r \in Requests, NEW S, Guard!Nowhere \notin S,
         requests' = [requests EXCEPT ![r] = Guard!Nowhere]
  PROVE  Cardinality(Guard!InHandler(S))' =
           IF requests[r] \in S THEN Cardinality(Guard!InHandler(S)) - 1
           ELSE Cardinality(Guard!InHandler(S))
<1>1. Guard!InHandler(S)' = Guard!InHandler(S) \ {r}
  BY DEF Guard!InHandler
<1>2. r \in Guard!InHandler(S) <=> requests[r] \in S
  BY DEF Guard!InHandler
<1>3. Guard!InHandler(S) \ {r} = Guard!InHandler(S) \/ requests[r] \in S
  BY <1>2
<1> QED
  BY <1>1, <1>2, <1>3, InHandlerFinite, FS_RemoveElement

(* In the window the limiter counts exactly the requests admitted.          *)
LEMMA WindowIsSpan ==
  ASSUME NEW p \in Paths, StampsAreKept(p), now \in Guard!Times,
         admitted \in [Paths -> SUBSET Guard!Passed]
  PROVE  LET span == Guard!InSpan(p, now, DOMAIN Guard!Rate)
         IN  /\ Guard!InWindow(timestamps[p]) = {StampOf(a) : a \in span}
             /\ IsFiniteSet(span)
             /\ Cardinality(Guard!InWindow(timestamps[p])) = Cardinality(span)
             /\ Cardinality(span) \in Nat
<1> DEFINE span   == Guard!InSpan(p, now, DOMAIN Guard!Rate)
           window == Guard!InWindow(timestamps[p])
           f      == [a \in span |-> StampOf(a)]
<1>1. \A a \in admitted[p] : a.at <= now /\ a.method \in DOMAIN Guard!Rate
  BY DEF StampsAreKept, Guard!Passed
<1>2. span = {a \in admitted[p] : now - a.at < Guard!Window}
  BY <1>1 DEF Guard!InSpan
<1>3. window = {StampOf(a) : a \in span}
  <2>1. ASSUME NEW x \in window PROVE x \in {StampOf(a) : a \in span}
    <3>1. PICK a \in admitted[p] : x = StampOf(a)
      BY DEF StampsAreKept, Guard!InWindow
    <3>2. x.at = a.at
      BY <3>1 DEF StampOf
    <3> QED BY <1>2, <3>1, <3>2 DEF Guard!InWindow
  <2>2. ASSUME NEW a \in span PROVE StampOf(a) \in window
    <3>1. StampOf(a) \in timestamps[p]
      BY <1>2 DEF StampsAreKept
    <3> QED BY <1>2, <3>1 DEF Guard!InWindow, StampOf
  <2> QED BY <2>1, <2>2
<1>4. IsFiniteSet(span)
  BY <1>2, FS_Subset DEF StampsAreKept
<1>5. f \in Bijection(span, window)
  <2>1. f \in [span -> window] /\ \A x \in window : \E a \in span : f[a] = x
    BY <1>3
  <2>2. ASSUME NEW a \in span, NEW b \in span, f[a] = f[b] PROVE a = b
    <3>1. a.n = b.n
      BY <2>2 DEF StampOf
    <3> QED BY <1>2, <3>1 DEF StampsAreKept
  <2> QED BY <2>1, <2>2 DEF Bijection, Injection, Surjection, IsInjective
<1>6. Cardinality(window) = Cardinality(span)
  BY <1>4, <1>5, FS_Bijection DEF ExistsBijection
<1> QED
  BY <1>3, <1>4, <1>6, FS_CardinalityType

(* A clean-up takes nothing from the window.                                *)
LEMMA CleanedKeepsWindow ==
  ASSUME NEW p \in Paths, timestamps \in [Paths -> SUBSET Guard!Stamp], now \in Guard!Times
  PROVE  /\ Guard!Cleaned(timestamps[p]) \subseteq timestamps[p]
         /\ Guard!InWindow(Guard!Cleaned(timestamps[p])) = Guard!InWindow(timestamps[p])
BY GuardAssumptions DEF Guard!Cleaned, Guard!InWindow, Guard!Stamp, Guard!Times, Guard!Window

(* A request that is refused leaves rates and stamps as they were.          *)
LEMMA RefusedKeeps ==
  ASSUME GuardTypes, NEW p \in Paths, NEW q \in Paths, NEW method \in DOMAIN Guard!Rate,
         StampsAreKept(q), RatesAreKept(q),
         Guard!IsLimited(p, method, TRUE), now' = now, Guard!Arrived' = Guard!Arrived + 1
  PROVE  (StampsAreKept(q) /\ RatesAreKept(q))'
<1>1. admitted' = admitted
  BY DEF Guard!IsLimited
<1>2. timestamps'[q] = Guard!InWindow(Guard!Cleaned(timestamps[q])) \/ timestamps'[q] = Guard!Cleaned(timestamps[q])
  BY DEF Guard!IsLimited, Guard!Recorded
<1>3. timestamps'[q] \subseteq timestamps[q] /\ Guard!InWindow(timestamps[q]) \subseteq timestamps'[q]
  BY <1>2, CleanedKeepsWindow DEF GuardTypes, Guard!InWindow
<1>4. \A a \in admitted[q] : now - a.at < Guard!Window => StampOf(a) \in timestamps'[q]
  BY <1>3 DEF StampsAreKept, Guard!InWindow, StampOf
<1>5. \A a \in admitted[q] : a.n \in Nat
  BY GuardAssumptions DEF GuardTypes, Guard!Passed
<1>6. StampsAreKept(q)'
  BY <1>1, <1>3, <1>4, <1>5 DEF StampsAreKept, GuardTypes, Guard!Arrived, StampOf
<1>7. RatesAreKept(q)'
  BY <1>1 DEF RatesAreKept, Guard!InSpan
<1> QED BY <1>6, <1>7

(* A request that is admitted was the first beyond what its window has.     *)
LEMMA AdmittedKeeps ==
  ASSUME GuardTypes, NEW p \in Paths, NEW q \in Paths, NEW method \in DOMAIN Guard!Rate,
         StampsAreKept(q), RatesAreKept(q), Guard!Arrived < MaxArrivals,
         Guard!IsLimited(p, method, FALSE), now' = now, Guard!Arrived' = Guard!Arrived + 1
  PROVE  (StampsAreKept(q) /\ RatesAreKept(q))'
<1> DEFINE new   == [n |-> Guard!Arrived, at |-> now, method |-> method]
           kept  == Guard!InWindow(Guard!Cleaned(timestamps[p]))
<1>1. CASE q # p
  <2>1. admitted'[q] = admitted[q] /\ timestamps'[q] = Guard!Cleaned(timestamps[q])
    BY <1>1 DEF Guard!IsLimited, GuardTypes
  <2>2. timestamps'[q] \subseteq timestamps[q] /\ Guard!InWindow(timestamps[q]) \subseteq timestamps'[q]
    BY <2>1, CleanedKeepsWindow DEF GuardTypes, Guard!InWindow
  <2>3. \A a \in admitted[q] : now - a.at < Guard!Window => StampOf(a) \in timestamps'[q]
    BY <2>2 DEF StampsAreKept, Guard!InWindow, StampOf
  <2>4. \A a \in admitted[q] : a.n \in Nat
    BY GuardAssumptions DEF GuardTypes, Guard!Passed
  <2>5. StampsAreKept(q)'
    BY <2>1, <2>2, <2>3, <2>4 DEF StampsAreKept, GuardTypes, Guard!Arrived, StampOf
  <2>6. RatesAreKept(q)'
    BY <2>1 DEF RatesAreKept, Guard!InSpan
  <2> QED BY <2>5, <2>6
<1>2. CASE q = p
  <2>1. /\ admitted'[p] = admitted[p] \cup {new}
        /\ timestamps'[p] = kept \cup {StampOf(new)}
        /\ Cardinality(kept) < Guard!Rate[method]
    <3>1. ~(Cardinality(kept) >= Guard!Rate[method])
      BY GuardCardinality DEF Guard!IsLimited
    <3>2. Cardinality(kept) \in Nat /\ Guard!Rate[method] \in Nat
      BY <1>2, WindowIsSpan, CleanedKeepsWindow, GuardAssumptions DEF GuardTypes, Guard!Rate
    <3>3. Cardinality(kept) < Guard!Rate[method]
      BY <3>1, <3>2
    <3> QED BY <3>3 DEF Guard!IsLimited, Guard!Recorded, GuardTypes, StampOf
  <2>2. kept = Guard!InWindow(timestamps[p])
    BY CleanedKeepsWindow DEF GuardTypes
  <2>3. StampsAreKept(p)'
    <3>1. IsFiniteSet(admitted'[p])
      BY <1>2, <2>1, FS_AddElement DEF StampsAreKept
    <3>2. \A a \in admitted[p] : a.n \in Nat /\ a.at \in Nat /\ a.n < Guard!Arrived /\ a.at <= now
      BY <1>2, GuardAssumptions DEF GuardTypes, Guard!Passed, Guard!Times, StampsAreKept
    <3>3. \A a \in admitted'[p] : a.n < Guard!Arrived' /\ a.at <= now'
      BY <2>1, <3>2, GuardAssumptions DEF GuardTypes, Guard!Arrived, Guard!Times
    <3>4. \A a, b \in admitted'[p] : a.n = b.n => a = b
      BY <1>2, <2>1, <3>2 DEF StampsAreKept
    <3>5. timestamps'[p] \subseteq {StampOf(a) : a \in admitted'[p]}
      BY <1>2, <2>1, <2>2 DEF StampsAreKept, Guard!InWindow
    <3>6. \A a \in admitted[p] : now - a.at < Guard!Window => StampOf(a) \in kept
      BY <1>2, <2>2 DEF StampsAreKept, Guard!InWindow, StampOf
    <3>7. \A a \in admitted'[p] : now' - a.at < Guard!Window => StampOf(a) \in timestamps'[p]
      BY <2>1, <3>6
    <3> QED BY <3>1, <3>3, <3>4, <3>5, <3>7 DEF StampsAreKept
  <2>4. RatesAreKept(p)'
    <3> SUFFICES ASSUME NEW t \in Guard!Times
                 PROVE  /\ Cardinality(Guard!InSpan(p, t, DOMAIN Guard!Rate)') <= MaxReads
                        /\ Cardinality(Guard!InSpan(p, t, {"POST"})') <= MaxWrites
      BY DEF RatesAreKept, Guard!Times, Guard!InSpan
    <3> DEFINE all    == Guard!InSpan(p, t, DOMAIN Guard!Rate)
               posts  == Guard!InSpan(p, t, {"POST"})
               latest == Guard!InSpan(p, now, DOMAIN Guard!Rate)
    <3>1. /\ Cardinality(all) <= MaxReads /\ Cardinality(posts) <= MaxWrites
      BY <1>2 DEF RatesAreKept
    <3>2. CASE t < now
      <4>1. all' = all /\ posts' = posts
        BY <2>1, <3>2, GuardAssumptions DEF GuardTypes, Guard!InSpan, Guard!Times
      <4> QED BY <3>1, <4>1
    <3>3. CASE t >= now
      <4>1. \A a \in admitted[p] : a.at \in Nat /\ a.at <= now /\ a.method \in DOMAIN Guard!Rate
        BY <1>2, GuardAssumptions DEF GuardTypes, Guard!Passed, Guard!Times, StampsAreKept
      <4>2. all \subseteq latest
        BY <3>3, <4>1, GuardAssumptions DEF GuardTypes, Guard!InSpan, Guard!Times, Guard!Window
      <4>3. all' \subseteq latest \cup {new}
        BY <2>1, <4>2 DEF Guard!InSpan
      <4>4. posts' \subseteq IF method = "POST" THEN latest \cup {new} ELSE posts
        BY <2>1, <4>2, <4>1 DEF Guard!InSpan, Guard!Rate
      <4>5. /\ IsFiniteSet(latest) /\ Cardinality(latest) \in Nat
            /\ Cardinality(latest) < Guard!Rate[method]
        BY <1>2, <2>1, <2>2, WindowIsSpan DEF GuardTypes
      <4>6. IsFiniteSet(latest \cup {new}) /\ Cardinality(latest \cup {new}) <= Guard!Rate[method]
        <5>1. Guard!Rate[method] \in Nat
          BY GuardAssumptions DEF Guard!Rate
        <5>2. /\ IsFiniteSet(latest \cup {new})
              /\ \/ Cardinality(latest \cup {new}) = Cardinality(latest)
                 \/ Cardinality(latest \cup {new}) = Cardinality(latest) + 1
          <6> HIDE DEF latest, new
          <6> QED BY <4>5, FS_AddElement
        <5> HIDE DEF latest, new
        <5> QED BY <4>5, <5>1, <5>2
      <4>7. /\ IsFiniteSet(all') /\ Cardinality(all') <= Guard!Rate[method]
        <5>1. IsFiniteSet(all') /\ Cardinality(all') <= Cardinality(latest \cup {new})
          BY <4>3, <4>6, FS_Subset
        <5>2. Cardinality(all') \in Nat /\ Cardinality(latest \cup {new}) \in Nat
          BY <4>6, <5>1, FS_CardinalityType
        <5> QED BY <4>6, <5>1, <5>2, GuardAssumptions DEF Guard!Rate
      <4>8. Cardinality(posts') <= MaxWrites
        <5>1. CASE method = "POST"
          <6>1. posts' \subseteq all'
            BY DEF Guard!InSpan, Guard!Rate
          <6>2. Cardinality(posts') <= Cardinality(all') /\ IsFiniteSet(posts')
            BY <4>7, <6>1, FS_Subset
          <6>3. Cardinality(posts') \in Nat /\ Cardinality(all') \in Nat
            BY <4>7, <6>2, FS_CardinalityType
          <6> QED BY <4>7, <5>1, <6>2, <6>3, GuardAssumptions DEF Guard!Rate
        <5>2. CASE method # "POST"
          <6>1. IsFiniteSet(posts)
            BY <1>2, FS_Subset DEF StampsAreKept, Guard!InSpan
          <6>2. Cardinality(posts') <= Cardinality(posts) /\ IsFiniteSet(posts')
            BY <4>4, <5>2, <6>1, FS_Subset
          <6>3. Cardinality(posts') \in Nat /\ Cardinality(posts) \in Nat
            BY <6>1, <6>2, FS_CardinalityType
          <6> QED BY <3>1, <6>2, <6>3, GuardAssumptions
        <5> QED BY <5>1, <5>2
      <4> QED
        BY <4>7, <4>8, FS_CardinalityType, GuardAssumptions DEF Guard!Rate
    <3> QED
      BY <3>2, <3>3, GuardAssumptions DEF Guard!Times, GuardTypes
  <2> QED BY <1>2, <2>3, <2>4
<1> QED BY <1>1, <1>2

LEMMA LimiterKeepsTypes ==
  ASSUME GuardTypes, NEW p \in Paths, NEW method \in DOMAIN Guard!Rate, NEW limited \in BOOLEAN,
         Guard!Arrived < MaxArrivals, Guard!IsLimited(p, method, limited)
  PROVE  /\ timestamps' \in [Paths -> SUBSET Guard!Stamp] /\ admitted' \in [Paths -> SUBSET Guard!Passed]
         /\ lastCleanup' \in 0 .. now
<1>1. Guard!Arrived \in 0 .. MaxArrivals
  BY GuardAssumptions DEF GuardTypes, Guard!Arrived
<1>2. [n |-> Guard!Arrived, at |-> now] \in Guard!Stamp
  BY <1>1 DEF GuardTypes, Guard!Stamp
<1>3. [n |-> Guard!Arrived, at |-> now, method |-> method] \in Guard!Passed
  BY <1>1 DEF GuardTypes, Guard!Passed
<1>4. admitted' \in [Paths -> SUBSET Guard!Passed]
  BY <1>3 DEF Guard!IsLimited, GuardTypes
<1>5. \A q \in Paths : Guard!Cleaned(timestamps[q]) \subseteq Guard!Stamp
  BY DEF GuardTypes, Guard!Cleaned
<1>6. timestamps' \in [Paths -> SUBSET Guard!Stamp]
  BY <1>2, <1>5 DEF Guard!IsLimited, Guard!Recorded, Guard!InWindow
<1>7. lastCleanup' \in 0 .. now
  BY GuardAssumptions DEF Guard!IsLimited, GuardTypes, Guard!Times
<1> QED BY <1>4, <1>6, <1>7

(* Each step of the guard.                                                  *)
LEMMA GuardStarts == Guard!Init => GuardInv
<1> SUFFICES ASSUME Guard!Init PROVE GuardInv
  OBVIOUS
<1>1. \A S : Guard!Nowhere \notin S => Guard!InHandler(S) = {}
  BY DEF Guard!Init, Guard!InHandler
<1>2. Cardinality(Guard!InHandler(Paths)) = 0 /\ \A p \in Batch : Cardinality(Guard!InHandler({p})) = 0
  BY <1>1, FS_EmptySet, GuardAssumptions
<1>3. GuardTypes
  BY GuardAssumptions DEF Guard!Init, GuardTypes, Guard!Times
<1>4. \A p \in Paths : StampsAreKept(p)
  BY FS_EmptySet DEF Guard!Init, StampsAreKept
<1>5. \A p \in Paths : RatesAreKept(p)
  <2>1. \A p \in Paths, t \in Guard!Times : \A M : Guard!InSpan(p, t, M) = {}
    BY DEF Guard!Init, Guard!InSpan
  <2> QED BY <2>1, FS_EmptySet, GuardAssumptions DEF RatesAreKept
<1> QED
  BY <1>2, <1>3, <1>4, <1>5, GuardAssumptions DEF GuardInv, Guard!Init

LEMMA GuardTicks ==
  ASSUME GuardInv, Guard!Tick
  PROVE  GuardInv'
<1>1. GuardTypes'
  BY GuardAssumptions DEF GuardInv, GuardTypes, Guard!Tick, Guard!Times
<1>2. \A S : Guard!InHandler(S)' = Guard!InHandler(S)
  BY DEF Guard!Tick, Guard!InHandler
<1>3. ASSUME NEW p \in Paths PROVE StampsAreKept(p)' /\ RatesAreKept(p)'
  <2>1. \A a \in admitted[p] : a.at \in Nat
    BY GuardAssumptions DEF GuardInv, GuardTypes, Guard!Passed, Guard!Times
  <2>2. StampsAreKept(p)'
    BY <2>1, GuardAssumptions
    DEF GuardInv, GuardTypes, Guard!Tick, StampsAreKept, Guard!Arrived, Guard!Window, Guard!Times
  <2>3. RatesAreKept(p)'
    BY DEF GuardInv, Guard!Tick, RatesAreKept, Guard!InSpan
  <2> QED BY <2>2, <2>3
<1> QED
  BY <1>1, <1>2, <1>3 DEF GuardInv, Guard!Tick

(* A request that comes no further than the limiter.                        *)
LEMMA GuardRefuses ==
  ASSUME GuardInv, NEW r \in Requests,
         \/ Guard!Unauthorized(r)
         \/ \E p \in Paths, method \in DOMAIN Guard!Rate : Guard!Limited(r, p, method)
  PROVE  GuardInv'
<1>1. /\ Guard!Arrives(r) /\ tracesOpen' = tracesOpen + 1
      /\ UNCHANGED <<requests, slots, now, counted, answered>>
  BY DEF Guard!Unauthorized, Guard!Limited, Guard!Arrives
<1>2. Guard!Arrived < MaxArrivals /\ Guard!Arrived' = Guard!Arrived + 1
  BY <1>1 DEF Guard!Arrives, Guard!Arrived, GuardInv, GuardTypes
<1>3. \A S : Guard!InHandler(S)' = Guard!InHandler(S)
  BY <1>1 DEF Guard!InHandler
<1>4. tracesOpen' \in Nat /\ tracesOpen' \in Cardinality(Guard!InHandler(Paths))' .. MaxArrivals
  BY <1>1, <1>2, <1>3, InHandlerFinite, GuardAssumptions DEF Guard!Arrived, GuardInv, GuardTypes
<1>5. /\ timestamps' \in [Paths -> SUBSET Guard!Stamp] /\ admitted' \in [Paths -> SUBSET Guard!Passed]
      /\ lastCleanup' \in 0 .. now
      /\ \A p \in Paths : StampsAreKept(p)' /\ RatesAreKept(p)'
  <2>1. CASE Guard!Unauthorized(r)
    <3>1. UNCHANGED <<timestamps, lastCleanup, now, admitted>>
      BY <2>1 DEF Guard!Unauthorized
    <3>2. ASSUME NEW p \in Paths PROVE StampsAreKept(p)' /\ RatesAreKept(p)'
      <4>1. \A a \in admitted[p] : a.n \in Nat
        BY GuardAssumptions DEF GuardInv, GuardTypes, Guard!Passed
      <4>2. StampsAreKept(p)'
        BY <1>2, <3>1, <4>1 DEF GuardInv, GuardTypes, StampsAreKept, Guard!Arrived
      <4>3. RatesAreKept(p)'
        BY <3>1 DEF GuardInv, RatesAreKept, Guard!InSpan
      <4> QED BY <4>2, <4>3
    <3> QED BY <3>1, <3>2 DEF GuardInv, GuardTypes
  <2>2. CASE \E p \in Paths, method \in DOMAIN Guard!Rate : Guard!Limited(r, p, method)
    <3>1. PICK p \in Paths, method \in DOMAIN Guard!Rate, limited \in BOOLEAN :
            Guard!IsLimited(p, method, limited)
      BY <2>2 DEF Guard!Limited
    <3>2. \A q \in Paths : StampsAreKept(q)' /\ RatesAreKept(q)'
      BY <1>1, <1>2, <3>1, RefusedKeeps, AdmittedKeeps DEF GuardInv
    <3>3. /\ timestamps' \in [Paths -> SUBSET Guard!Stamp] /\ admitted' \in [Paths -> SUBSET Guard!Passed]
          /\ lastCleanup' \in 0 .. now
      BY <1>2, <3>1, LimiterKeepsTypes DEF GuardInv
    <3> QED BY <3>2, <3>3
  <2> QED BY <2>1, <2>2
<1> QED
  BY <1>1, <1>3, <1>4, <1>5 DEF GuardInv, GuardTypes

LEMMA GuardAdmits ==
  ASSUME GuardInv, NEW r \in Requests, NEW p \in Paths, NEW method \in DOMAIN Guard!Rate,
         Guard!Admitted(r, p, method)
  PROVE  GuardInv'
<1>1. /\ requests[r] = Guard!Nowhere /\ Guard!Arrived < MaxArrivals /\ tracesOpen' = tracesOpen + 1
      /\ Guard!IsLimited(p, method, FALSE) /\ now' = now /\ counted' = counted /\ answered' = answered
      /\ p \in Batch => slots[p] < MaxConcurrent
  BY DEF Guard!Admitted, Guard!Arrives
<1>2. Guard!Arrived' = Guard!Arrived + 1
  BY <1>1 DEF Guard!Arrived, GuardInv, GuardTypes
<1>3. \A q \in Paths : StampsAreKept(q)' /\ RatesAreKept(q)'
  BY <1>1, <1>2, AdmittedKeeps DEF GuardInv
<1>4. /\ timestamps' \in [Paths -> SUBSET Guard!Stamp] /\ admitted' \in [Paths -> SUBSET Guard!Passed]
      /\ lastCleanup' \in 0 .. now
  BY <1>1, LimiterKeepsTypes DEF GuardInv
<1>5. tracesOpen + 1 <= MaxArrivals
  BY <1>1, GuardAssumptions DEF GuardInv, GuardTypes, Guard!Arrived
<1>6. CASE UNCHANGED <<requests, slots>>
  <2>1. \A S : Guard!InHandler(S)' = Guard!InHandler(S)
    BY <1>6 DEF Guard!InHandler
  <2>2. tracesOpen' \in Nat /\ tracesOpen' \in Cardinality(Guard!InHandler(Paths))' .. MaxArrivals
    BY <1>1, <1>5, <2>1, InHandlerFinite, GuardAssumptions DEF GuardInv, GuardTypes
  <2> QED BY <1>1, <1>3, <1>4, <1>6, <2>1, <2>2 DEF GuardInv, GuardTypes
<1>7. CASE /\ requests' = [requests EXCEPT ![r] = p]
           /\ slots' = IF p \in Batch THEN [slots EXCEPT ![p] = @ + 1] ELSE slots
  <2>1. \A S : Guard!Nowhere \notin S =>
          Cardinality(Guard!InHandler(S))' =
            IF p \in S THEN Cardinality(Guard!InHandler(S)) + 1 ELSE Cardinality(Guard!InHandler(S))
    BY <1>1, <1>7, HandlerEntered DEF GuardInv, GuardTypes
  <2>2. tracesOpen' \in Nat /\ tracesOpen' \in Cardinality(Guard!InHandler(Paths))' .. MaxArrivals
    <3>1. Cardinality(Guard!InHandler(Paths))' = Cardinality(Guard!InHandler(Paths)) + 1
      BY <2>1, GuardAssumptions
    <3> QED BY <1>1, <1>5, <3>1, InHandlerFinite, GuardAssumptions DEF GuardInv, GuardTypes
  <2>3. \A b \in Batch : slots[b] \in 0 .. MaxConcurrent
    BY DEF GuardInv, GuardTypes
  <2>4. slots' \in [Batch -> 0 .. MaxConcurrent]
    BY <1>1, <1>7, <2>3, GuardAssumptions DEF GuardInv, GuardTypes
  <2>5. \A b \in Batch : slots'[b] = Cardinality(Guard!InHandler({b}))'
    <3> SUFFICES ASSUME NEW b \in Batch PROVE slots'[b] = Cardinality(Guard!InHandler({b}))'
      OBVIOUS
    <3>1. Cardinality(Guard!InHandler({b}))' =
            IF p = b THEN Cardinality(Guard!InHandler({b})) + 1 ELSE Cardinality(Guard!InHandler({b}))
      BY <2>1, GuardAssumptions
    <3> QED BY <1>7, <3>1 DEF GuardInv, GuardTypes
  <2>6. requests' \in [Requests -> Paths \cup {Guard!Nowhere}]
    BY <1>7 DEF GuardInv, GuardTypes
  <2> QED BY <1>1, <1>3, <1>4, <2>2, <2>4, <2>5, <2>6 DEF GuardInv, GuardTypes
<1> QED
  BY <1>6, <1>7 DEF Guard!Admitted

LEMMA GuardEnds ==
  ASSUME GuardInv, NEW r \in Requests, Guard!Ends(r)
  PROVE  GuardInv'
<1> DEFINE p == requests[r]
<1>1. /\ p # Guard!Nowhere /\ p \in Paths
      /\ requests' = [requests EXCEPT ![r] = Guard!Nowhere]
      /\ slots' = IF p \in Batch THEN [slots EXCEPT ![p] = @ - 1] ELSE slots
      /\ UNCHANGED <<timestamps, lastCleanup, now, admitted>>
      /\ \/ counted' = counted + 1 /\ tracesOpen' = tracesOpen - 1 /\ answered' = answered + 1
         \/ UNCHANGED <<tracesOpen, counted, answered>>
  BY DEF Guard!Ends, Guard!Released, Guard!EndRequest, GuardInv, GuardTypes
<1>2. requests' \in [Requests -> Paths \cup {Guard!Nowhere}]
  BY <1>1 DEF GuardInv, GuardTypes
<1>3. \A S : Guard!Nowhere \notin S =>
        Cardinality(Guard!InHandler(S))' =
          IF p \in S THEN Cardinality(Guard!InHandler(S)) - 1 ELSE Cardinality(Guard!InHandler(S))
  BY <1>1, HandlerLeft DEF GuardInv, GuardTypes
<1>4. \A S : Cardinality(Guard!InHandler(S))' \in Nat
  BY GuardAssumptions, FS_Subset, FS_CardinalityType DEF Guard!InHandler
<1>5. /\ tracesOpen' \in Nat /\ counted' \in Nat /\ counted' = answered'
      /\ tracesOpen' \in Cardinality(Guard!InHandler(Paths))' .. MaxArrivals
  <2>1. Cardinality(Guard!InHandler(Paths))' = Cardinality(Guard!InHandler(Paths)) - 1
    BY <1>1, <1>3, GuardAssumptions
  <2> QED BY <1>1, <1>4, <2>1, InHandlerFinite, GuardAssumptions DEF GuardInv, GuardTypes
<1>6. ASSUME NEW b \in Batch
      PROVE  slots'[b] = Cardinality(Guard!InHandler({b}))' /\ slots'[b] \in 0 .. MaxConcurrent
  <2>1. Cardinality(Guard!InHandler({b}))' =
          IF p = b THEN Cardinality(Guard!InHandler({b})) - 1 ELSE Cardinality(Guard!InHandler({b}))
    BY <1>3, GuardAssumptions
  <2>2. Cardinality(Guard!InHandler({b}))' \in Nat
    BY <1>4
  <2>3. slots[b] = Cardinality(Guard!InHandler({b})) /\ slots[b] \in 0 .. MaxConcurrent
    BY DEF GuardInv, GuardTypes
  <2>4. slots'[b] = IF p = b THEN slots[b] - 1 ELSE slots[b]
    BY <1>1 DEF GuardInv, GuardTypes
  <2> QED BY <2>1, <2>2, <2>3, <2>4, GuardAssumptions
<1>7. slots' \in [Batch -> 0 .. MaxConcurrent]
  <2>1. DOMAIN slots' = Batch /\ slots' = [b \in Batch |-> slots'[b]]
    BY <1>1 DEF GuardInv, GuardTypes
  <2> QED BY <1>6, <2>1
<1>8. ASSUME NEW q \in Paths PROVE StampsAreKept(q)' /\ RatesAreKept(q)'
  <2>1. Guard!Arrived' = Guard!Arrived
    BY <1>1 DEF Guard!Arrived, GuardInv, GuardTypes
  <2> QED BY <1>1, <2>1 DEF GuardInv, StampsAreKept, RatesAreKept, Guard!InSpan
<1> QED
  BY <1>1, <1>2, <1>5, <1>6, <1>7, <1>8 DEF GuardInv, GuardTypes

LEMMA GuardSteps ==
  ASSUME GuardInv, [Guard!Next]_guardVars
  PROVE  GuardInv'
<1>1. CASE Guard!Terminating \/ UNCHANGED guardVars
  <2>1. UNCHANGED guardVars
    BY <1>1 DEF Guard!Terminating, Guard!vars, guardVars
  <2>2. \A S : Guard!InHandler(S)' = Guard!InHandler(S)
    BY <2>1 DEF guardVars, Guard!InHandler
  <2> QED
    BY <2>1, <2>2 DEF guardVars, GuardInv, GuardTypes, StampsAreKept, RatesAreKept, Guard!InSpan, Guard!Arrived
<1> QED
  BY <1>1, GuardTicks, GuardRefuses, GuardAdmits, GuardEnds DEF Guard!Next

(* What the invariant says of the properties.                               *)
LEMMA GuardIsSound == GuardInv => Guard!TypeOK /\ Guard!SlotsAreHeld /\ Guard!RateIsKept
<1> SUFFICES ASSUME GuardInv PROVE Guard!TypeOK /\ Guard!SlotsAreHeld /\ Guard!RateIsKept
  OBVIOUS
<1>1. Guard!TypeOK
  BY GuardCardinality DEF GuardInv, GuardTypes, Guard!TypeOK
<1>2. Guard!SlotsAreHeld
  BY GuardCardinality DEF GuardInv, Guard!SlotsAreHeld
<1>3. ASSUME NEW p \in Paths
      PROVE  Guard!InWindow(timestamps[p])
               = {[n |-> a.n, at |-> a.at] : a \in Guard!InSpan(p, now, DOMAIN Guard!Rate)}
  BY WindowIsSpan DEF GuardInv, GuardTypes, StampOf
<1>4. Guard!RateIsKept
  BY <1>3, GuardCardinality DEF GuardInv, RatesAreKept, Guard!RateIsKept
<1> QED BY <1>1, <1>2, <1>4

-----------------------------------------------------------------------------
(* The upgrade of the database.                                             *)

(* Rows in a renamed table mean that no earlier form of the table is there, *)
(* and outside an interrupted start, that their copying is under way.       *)
SchemaInv ==
  /\ tables \in [proxies : SUBSET Upgrade!Current.proxies, chain : SUBSET Upgrade!Current.chain,
                 leases : Upgrade!LeaseTables]
  /\ leases \subseteq Sessions /\ legacy \subseteq Sessions
  /\ start \in Upgrade!Stages /\ interrupted \in BOOLEAN
  /\ start \in {"leases", "renamed", "created", "open"} =>
       tables.proxies = Upgrade!Current.proxies /\ tables.chain = Upgrade!Current.chain
  /\ start \in {"created", "open"} => tables.leases = Upgrade!Current.leases
  /\ legacy # {} => tables.leases \in {{}, Upgrade!Current.leases}
  /\ legacy = {} \/ interrupted \/ start \in {"renamed", "created"}

LEMMA SchemaStarts == Upgrade!Init => SchemaInv
<1> SUFFICES ASSUME Upgrade!Init PROVE SchemaInv
  OBVIOUS
<1>1. Upgrade!OldTables \subseteq [proxies : SUBSET Upgrade!Current.proxies,
                                  chain : SUBSET Upgrade!Current.chain, leases : Upgrade!LeaseTables]
  <2>1. /\ {{}} \cup {{"key"} \cup c : c \in SUBSET (Upgrade!Current.proxies \ {"key"})}
             \subseteq SUBSET Upgrade!Current.proxies
        /\ {{}} \cup {{"instance"} \cup c : c \in SUBSET (Upgrade!Current.chain \ {"instance"})}
             \subseteq SUBSET Upgrade!Current.chain
    BY DEF Upgrade!Current
  <2> HIDE DEF Upgrade!Current
  <2> QED BY <2>1 DEF Upgrade!OldTables
<1> QED
  BY <1>1 DEF Upgrade!Init, SchemaInv, Upgrade!Stages

LEMMA SchemaIsRight == SchemaInv => Upgrade!TypeOK
BY DEF SchemaInv, Upgrade!TypeOK

LEMMA SchemaSteps ==
  ASSUME SchemaInv, [Upgrade!Next]_schemaVars
  PROVE  SchemaInv' /\ leases \cup legacy \subseteq leases' \cup legacy'
<1>9. Upgrade!Next \/ UNCHANGED schemaVars
  OBVIOUS
<1> USE DEF SchemaInv, Upgrade!Current, Upgrade!LeaseTables, Upgrade!Stages
<1>1. CASE Upgrade!Script
  BY <1>1 DEF Upgrade!Script
<1>2. CASE Upgrade!EnsureColumns
  <2>1. CASE tables' = Upgrade!AddColumns /\ start' = "leases" /\ UNCHANGED interrupted
    <3>1. /\ tables'.proxies = Upgrade!Current.proxies /\ tables'.chain = Upgrade!Current.chain
          /\ tables'.leases = tables.leases
          /\ tables' \in [proxies : SUBSET Upgrade!Current.proxies, chain : SUBSET Upgrade!Current.chain,
                          leases : Upgrade!LeaseTables]
      BY <2>1 DEF Upgrade!AddColumns
    <3> QED BY <1>2, <2>1, <3>1 DEF Upgrade!EnsureColumns
  <2>2. ASSUME NEW c \in SUBSET Upgrade!Current.proxies,
               tables' = [tables EXCEPT !.proxies = @ \cup c], start' = "closed", interrupted' = TRUE
        PROVE  SchemaInv' /\ leases \cup legacy \subseteq leases' \cup legacy'
    <3>1. /\ tables'.leases = tables.leases
          /\ tables' \in [proxies : SUBSET Upgrade!Current.proxies, chain : SUBSET Upgrade!Current.chain,
                          leases : Upgrade!LeaseTables]
      BY <2>2
    <3> QED BY <1>2, <2>2, <3>1 DEF Upgrade!EnsureColumns
  <2>3. ASSUME NEW c \in SUBSET Upgrade!Current.chain,
               tables' = [tables EXCEPT !.proxies = Upgrade!Current.proxies, !.chain = @ \cup c],
               start' = "closed", interrupted' = TRUE
        PROVE  SchemaInv' /\ leases \cup legacy \subseteq leases' \cup legacy'
    <3>1. /\ tables'.leases = tables.leases
          /\ tables' \in [proxies : SUBSET Upgrade!Current.proxies, chain : SUBSET Upgrade!Current.chain,
                          leases : Upgrade!LeaseTables]
      BY <2>3
    <3> QED BY <1>2, <2>3, <3>1 DEF Upgrade!EnsureColumns
  <2> QED BY <1>2, <2>1, <2>2, <2>3 DEF Upgrade!EnsureColumns
<1>3. CASE Upgrade!AddInstanceId
  BY <1>3 DEF Upgrade!AddInstanceId
<1>4. CASE Upgrade!RenameLeases
  BY <1>4 DEF Upgrade!RenameLeases
<1>5. CASE Upgrade!CreateLeases
  BY <1>5 DEF Upgrade!CreateLeases
<1>6. CASE Upgrade!Commit
  BY <1>6 DEF Upgrade!Commit, Upgrade!CopyLeases
<1>7. CASE Upgrade!Crash \/ Upgrade!Restart
  BY <1>7 DEF Upgrade!Crash, Upgrade!Restart
<1>8. CASE UNCHANGED schemaVars
  BY <1>8 DEF schemaVars
<1> QED
  BY <1>1, <1>2, <1>3, <1>4, <1>5, <1>6, <1>7, <1>8 DEF Upgrade!Next

-----------------------------------------------------------------------------
(* Pools and published subscriptions.                                       *)

PoolRow == [there : BOOLEAN, made : BOOLEAN, filters : Publishing!Filter,
            sub : Publishing!SubIds \cup {0}, synced : BOOLEAN]
SubRow  == [there : BOOLEAN, made : BOOLEAN, filters : Publishing!Filter,
            pool : Publishing!PoolIds \cup {0}]

(* A pool and its subscription name each other, and only ids that were      *)
(* given out are named.                                                     *)
PoolIsSound(p) ==
  /\ pools[p].filters.country # Publishing!Nothing => pools[p].filters.countries = {}
  /\ pools[p].there => pools[p].made
  /\ p \in named => pools[p].made
  /\ pools[p].sub # 0 => /\ pools[p].there
                         /\ published[pools[p].sub].made /\ published[pools[p].sub].pool = p
  /\ pools[p].synced => /\ pools[p].sub # 0
                        /\ published[pools[p].sub].filters = Publishing!PublishedFilters(pools[p].filters)

SubIsSound(s) ==
  /\ published[s].filters.countries = {} /\ ~published[s].filters.fast
  /\ published[s].there \/ published[s].pool # 0 => published[s].made
  /\ published[s].there /\ published[s].pool # 0 => syncInterrupted \/ pools[published[s].pool].sub = s

PoolTypes ==
  /\ pools \in [Publishing!PoolIds -> PoolRow] /\ published \in [Publishing!SubIds -> SubRow]
  /\ named \subseteq Publishing!PoolIds /\ hasEndpoints \in BOOLEAN /\ syncInterrupted \in BOOLEAN

PoolInv ==
  /\ PoolTypes
  /\ \A p \in Publishing!PoolIds : PoolIsSound(p)
  /\ \A s \in Publishing!SubIds : SubIsSound(s)

(* A new pool is of an id that nothing names.                               *)
NewPoolsAreUnnamed ==
  \A p \in Publishing!PoolIds : ~pools[p].there /\ pools'[p].there => p \notin named'

LEMMA Zero == 0 \notin Publishing!SubIds /\ 0 \notin Publishing!PoolIds
BY ServicesAssumption DEF Publishing!SubIds, Publishing!PoolIds

LEMMA FiltersKept ==
  ASSUME NEW f \in Publishing!Filter
  PROVE  /\ Publishing!PublishedFilters(f) \in Publishing!Filter
         /\ Publishing!PublishedFilters(f).countries = {} /\ ~Publishing!PublishedFilters(f).fast
         /\ Publishing!PoolFilters(f) \in Publishing!Filter
         /\ Publishing!PoolFilters(f).country # Publishing!Nothing => Publishing!PoolFilters(f).countries = {}
BY DEF Publishing!Filter, Publishing!PublishedFilters, Publishing!PoolFilters

(* What a subscription keeps of plain filters matches the same nodes, of    *)
(* which it serves the available ones where the filters leave that open.    *)
LEMMA PlainLinks ==
  ASSUME NEW f \in Publishing!Filter, f.countries = {}, ~f.fast
  PROVE  Publishing!Links(Publishing!PublishedFilters(f)) =
           {n \in Publishing!Candidates(f) : n.available \/ \A m \in Publishing!Candidates(f) : ~m.available}
<1> DEFINE kept == Publishing!PublishedFilters(f)
<1>1. /\ kept.mode = f.mode /\ kept.country = f.country /\ kept.countries = f.countries
      /\ kept.fast = f.fast
      /\ kept.available = IF f.mode # Publishing!Nothing THEN Publishing!Nothing ELSE f.available
  BY DEF Publishing!PublishedFilters, Publishing!Filter
<1>2. Publishing!Candidates(kept) = Publishing!Candidates(f)
  BY <1>1 DEF Publishing!Candidates, Publishing!Matches, Publishing!Filter
<1>3. CASE f.mode = Publishing!Nothing /\ f.available = Publishing!Nothing
  <2>1. ASSUME NEW n \in Publishing!Candidates(f)
        PROVE  \E m \in Publishing!Candidates(f) : m.available
    <3> DEFINE m == [n EXCEPT !.available = TRUE]
    <3>1. n \in Publishing!Node /\ Publishing!Matches(n, f)
      BY DEF Publishing!Candidates
    <3>2. m \in Publishing!Node /\ m.available /\ m.country = n.country /\ m.fast = n.fast
      BY <3>1 DEF Publishing!Node
    <3>3. Publishing!Matches(m, f)
      BY <1>3, <3>1, <3>2 DEF Publishing!Matches, Publishing!Nothing
    <3> QED BY <3>2, <3>3 DEF Publishing!Candidates
  <2>2. Publishing!Links(kept) = {n \in Publishing!Candidates(f) : n.available}
    BY <1>1, <1>2, <1>3 DEF Publishing!Links
  <2> QED BY <2>1, <2>2
<1>4. CASE ~(f.mode = Publishing!Nothing /\ f.available = Publishing!Nothing)
  <2>1. Publishing!Links(kept) = Publishing!Candidates(f)
    BY <1>1, <1>2, <1>4 DEF Publishing!Links
  <2>2. (\A n \in Publishing!Candidates(f) : n.available) \/ \A n \in Publishing!Candidates(f) : ~n.available
    BY <1>4 DEF Publishing!Candidates, Publishing!Matches, Publishing!Filter, Publishing!Node, Publishing!Nothing
  <2> QED BY <2>1, <2>2
<1> QED BY <1>3, <1>4

LEMMA PoolStarts == Publishing!Init => PoolInv
<1> SUFFICES ASSUME Publishing!Init PROVE PoolInv
  OBVIOUS
<1>1. Publishing!NoPool \in PoolRow /\ Publishing!NoSub \in SubRow
  BY DEF Publishing!NoPool, Publishing!NoSub, PoolRow, SubRow, Publishing!NoFilter, Publishing!Filter
<1>2. PoolTypes
  BY <1>1 DEF Publishing!Init, PoolTypes
<1> QED
  BY <1>2 DEF Publishing!Init, PoolInv, PoolIsSound, SubIsSound, Publishing!NoPool, Publishing!NoSub, Publishing!NoFilter

(* A step that leaves every subscription as it is, and no pool's            *)
(* subscription to another.                                                 *)
LEMMA PoolStepsPools ==
  ASSUME PoolInv, UNCHANGED <<published, syncInterrupted>>, NEW p \in Publishing!PoolIds,
         PoolTypes', PoolIsSound(p)', pools'[p].sub = pools[p].sub,
         \A q \in Publishing!PoolIds \ {p} : pools'[q] = pools[q],
         named' \subseteq named \cup {p}
  PROVE  PoolInv'
<1>1. ASSUME NEW q \in Publishing!PoolIds, q # p PROVE PoolIsSound(q)'
  BY <1>1 DEF PoolInv, PoolIsSound
<1>2. \A q \in Publishing!PoolIds : pools'[q].sub = pools[q].sub
  BY <1>1
<1>3. ASSUME NEW s \in Publishing!SubIds PROVE SubIsSound(s)'
  BY <1>2, <1>3 DEF PoolInv, SubIsSound, PoolTypes, SubRow
<1> QED BY <1>1, <1>3 DEF PoolInv

LEMMA PoolSteps ==
  ASSUME PoolInv, [Publishing!Next]_poolVars
  PROVE  PoolInv' /\ NewPoolsAreUnnamed
<1> USE DEF PoolInv
<1>1. ASSUME NEW f \in RawFilters, Publishing!CreatePool(f)
      PROVE  PoolInv' /\ NewPoolsAreUnnamed
  <2> DEFINE row == [Publishing!NoPool EXCEPT !.there = TRUE, !.made = TRUE, !.filters = Publishing!PoolFilters(f)]
  <2>1. f \in Publishing!Filter
    BY ServicesAssumption
  <2>2. PICK p \in Publishing!PoolIds : ~pools[p].made /\ pools' = [pools EXCEPT ![p] = row]
    BY <1>1 DEF Publishing!CreatePool, Publishing!Fresh, Publishing!NextId, PoolTypes
  <2>3. /\ row \in PoolRow /\ row.there /\ row.made /\ row.sub = 0 /\ ~row.synced
        /\ row.filters = Publishing!PoolFilters(f)
    BY <2>1, FiltersKept DEF PoolRow, Publishing!NoPool
  <2> HIDE DEF row
  <2>4. /\ pools'[p] = row /\ PoolTypes' /\ UNCHANGED <<published, named, syncInterrupted>>
        /\ \A q \in Publishing!PoolIds \ {p} : pools'[q] = pools[q]
    BY <1>1, <2>2, <2>3 DEF Publishing!CreatePool, PoolTypes
  <2>5. pools[p].sub = 0 /\ p \notin named
    BY <2>2 DEF PoolIsSound
  <2>6. PoolIsSound(p)'
    BY <2>1, <2>3, <2>4, FiltersKept DEF PoolIsSound
  <2>7. PoolInv'
    BY <2>3, <2>4, <2>5, <2>6, PoolStepsPools
  <2> QED BY <2>4, <2>5, <2>7 DEF NewPoolsAreUnnamed
<1>2. ASSUME NEW p \in Publishing!PoolIds, NEW f \in RawFilters, Publishing!UpdatePool(p, f)
      PROVE  PoolInv' /\ NewPoolsAreUnnamed
  <2>1. f \in Publishing!Filter
    BY ServicesAssumption
  <2>2. /\ pools'[p].there = pools[p].there /\ pools'[p].made = pools[p].made /\ pools'[p].sub = pools[p].sub
        /\ ~pools'[p].synced /\ pools'[p].filters = Publishing!PoolFilters(f)
        /\ PoolTypes' /\ UNCHANGED <<published, named, syncInterrupted>>
        /\ \A q \in Publishing!PoolIds \ {p} : pools'[q] = pools[q]
    BY <1>2, <2>1, FiltersKept DEF Publishing!UpdatePool, PoolTypes, PoolRow
  <2>3. PoolIsSound(p)'
    BY <2>1, <2>2, FiltersKept DEF PoolIsSound
  <2>4. PoolInv'
    BY <2>2, <2>3, PoolStepsPools
  <2> QED BY <2>2, <2>4 DEF NewPoolsAreUnnamed
<1>3. ASSUME NEW p \in Publishing!PoolIds, Publishing!DeletePool(p)
      PROVE  PoolInv' /\ NewPoolsAreUnnamed
  <2> DEFINE row == [Publishing!NoPool EXCEPT !.made = TRUE]
  <2>1. /\ row \in PoolRow /\ ~row.there /\ row.made /\ row.sub = 0 /\ ~row.synced
        /\ row.filters.country = Publishing!Nothing
    BY DEF PoolRow, Publishing!NoPool, Publishing!NoFilter, Publishing!Filter
  <2> HIDE DEF row
  <2>2. /\ pools' = [pools EXCEPT ![p] = row] /\ UNCHANGED <<named, hasEndpoints, syncInterrupted>>
        /\ pools[p].there /\ published' = Publishing!Cleaned(p)
    BY <1>3 DEF Publishing!DeletePool, row
  <2>3. /\ published' \in [Publishing!SubIds -> SubRow]
        /\ \A s \in Publishing!SubIds :
             /\ published'[s].filters = published[s].filters /\ published'[s].made = published[s].made
             /\ published'[s].pool = published[s].pool
             /\ published'[s].there => published[s].there /\ pools[p].sub # s
    BY <2>2, Zero DEF Publishing!Cleaned, PoolTypes, PoolRow, SubRow
  <2>4. PoolTypes'
    BY <2>1, <2>2, <2>3 DEF PoolTypes
  <2>5. pools'[p] = row /\ \A q \in Publishing!PoolIds \ {p} : pools'[q] = pools[q]
    BY <2>2 DEF PoolTypes
  <2>6. \A q \in Publishing!PoolIds : pools[q].sub \in Publishing!SubIds \cup {0}
    BY DEF PoolTypes, PoolRow
  <2>7. \A q \in Publishing!PoolIds : PoolIsSound(q)'
    BY <2>1, <2>2, <2>3, <2>5, <2>6 DEF PoolIsSound
  <2>8. ASSUME NEW s \in Publishing!SubIds PROVE SubIsSound(s)'
    <3>1. published[s].pool \in Publishing!PoolIds \cup {0}
      BY DEF PoolTypes, SubRow
    <3>2. SubIsSound(s)
      OBVIOUS
    <3>3. CASE published[s].pool = p
      BY <2>2, <2>3, <3>2, <3>3, Zero DEF SubIsSound
    <3>4. CASE published[s].pool # p
      <4>1. published[s].pool # 0 => pools'[published[s].pool] = pools[published[s].pool]
        BY <2>5, <3>1, <3>4
      <4> QED BY <2>2, <2>3, <3>2, <4>1 DEF SubIsSound
    <3> QED BY <3>3, <3>4
  <2> QED BY <2>1, <2>4, <2>5, <2>7, <2>8 DEF NewPoolsAreUnnamed
<1>4. ASSUME NEW p \in Publishing!PoolIds, Publishing!PublishPool(p)
      PROVE  PoolInv' /\ NewPoolsAreUnnamed
  <2>1. PICK s \in Publishing!SubIds, ends \in BOOLEAN :
          /\ ~published[s].made
          /\ published' = [published EXCEPT ![s] =
               [there |-> TRUE, made |-> TRUE, filters |-> Publishing!PublishedFilters(pools[p].filters), pool |-> p]]
          /\ pools' = IF ends THEN pools ELSE [pools EXCEPT ![p].sub = s, ![p].synced = TRUE]
          /\ syncInterrupted' = (syncInterrupted \/ ends)
          /\ pools[p].there /\ pools[p].sub = 0 /\ UNCHANGED <<named, hasEndpoints>>
    BY <1>4 DEF Publishing!PublishPool, Publishing!Fresh, Publishing!NextId, PoolTypes
  <2>2. pools[p].filters \in Publishing!Filter
    BY DEF PoolTypes, PoolRow
  <2>3. /\ published' \in [Publishing!SubIds -> SubRow]
        /\ published'[s].there /\ published'[s].made /\ published'[s].pool = p
        /\ published'[s].filters = Publishing!PublishedFilters(pools[p].filters)
        /\ \A t \in Publishing!SubIds \ {s} : published'[t] = published[t]
    BY <2>1, <2>2, FiltersKept DEF PoolTypes, SubRow
  <2>4. /\ pools' \in [Publishing!PoolIds -> PoolRow]
        /\ pools'[p].there = pools[p].there /\ pools'[p].made = pools[p].made
        /\ pools'[p].filters = pools[p].filters
        /\ IF ends THEN pools'[p] = pools[p] ELSE pools'[p].sub = s /\ pools'[p].synced
        /\ \A q \in Publishing!PoolIds \ {p} : pools'[q] = pools[q]
    BY <2>1 DEF PoolTypes, PoolRow
  <2>5. PoolTypes'
    BY <2>1, <2>3, <2>4 DEF PoolTypes
  <2>6. \A q \in Publishing!PoolIds : pools[q].sub \in Publishing!SubIds \cup {0}
    BY DEF PoolTypes, PoolRow
  <2>7. ASSUME NEW q \in Publishing!PoolIds PROVE PoolIsSound(q)'
    <3>1. PoolIsSound(q) /\ PoolIsSound(p)
      OBVIOUS
    <3>2. CASE q = p
      BY <2>1, <2>3, <2>4, <3>1, <3>2, Zero DEF PoolIsSound
    <3>3. CASE q # p
      <4>1. pools[q].sub # s
        BY <2>1, <3>1, Zero DEF PoolIsSound
      <4> QED BY <2>1, <2>3, <2>4, <2>6, <3>1, <3>3, <4>1 DEF PoolIsSound
    <3> QED BY <3>2, <3>3
  <2>8. ASSUME NEW t \in Publishing!SubIds PROVE SubIsSound(t)'
    <3>1. SubIsSound(t) /\ published[t].pool \in Publishing!PoolIds \cup {0}
      BY DEF PoolTypes, SubRow
    <3>2. CASE t = s
      BY <2>1, <2>2, <2>3, <2>4, <3>2, FiltersKept DEF SubIsSound
    <3>3. CASE t # s
      <4>1. published'[t] = published[t]
        BY <2>3, <3>3
      <4>2. published[t].there /\ published[t].pool = p => syncInterrupted
        BY <2>1, <3>1, Zero DEF SubIsSound
      <4>3. published[t].pool \notin {0, p} => pools'[published[t].pool] = pools[published[t].pool]
        BY <2>4, <3>1
      <4>4. syncInterrupted => syncInterrupted'
        BY <2>1
      <4> QED BY <3>1, <4>1, <4>2, <4>3, <4>4, Zero DEF SubIsSound
    <3> QED BY <3>2, <3>3
  <2> QED BY <2>4, <2>5, <2>7, <2>8 DEF NewPoolsAreUnnamed
<1>5. ASSUME NEW p \in Publishing!PoolIds, Publishing!SyncPool(p)
      PROVE  PoolInv' /\ NewPoolsAreUnnamed
  <2> DEFINE s == pools[p].sub
  <2>1. s \in Publishing!SubIds /\ s # 0 /\ pools[p].filters \in Publishing!Filter
    BY <1>5 DEF Publishing!SyncPool, PoolTypes, PoolRow
  <2>2. /\ published' \in [Publishing!SubIds -> SubRow]
        /\ published'[s].filters = Publishing!PublishedFilters(pools[p].filters)
        /\ \A t \in Publishing!SubIds :
             /\ published'[t].there = published[t].there /\ published'[t].made = published[t].made
             /\ published'[t].pool = published[t].pool
             /\ t # s => published'[t].filters = published[t].filters
    BY <1>5, <2>1, FiltersKept DEF Publishing!SyncPool, PoolTypes, SubRow
  <2>3. /\ pools' \in [Publishing!PoolIds -> PoolRow]
        /\ \A q \in Publishing!PoolIds :
             /\ pools'[q].there = pools[q].there /\ pools'[q].made = pools[q].made
             /\ pools'[q].sub = pools[q].sub /\ pools'[q].filters = pools[q].filters
             /\ q # p => pools'[q].synced = pools[q].synced
    BY <1>5 DEF Publishing!SyncPool, PoolTypes, PoolRow
  <2>4. UNCHANGED <<named, hasEndpoints, syncInterrupted>>
    BY <1>5 DEF Publishing!SyncPool
  <2>5. PoolTypes'
    BY <2>2, <2>3, <2>4 DEF PoolTypes
  <2>6. \A q \in Publishing!PoolIds : pools[q].sub \in Publishing!SubIds \cup {0}
    BY DEF PoolTypes, PoolRow
  <2>7. ASSUME NEW q \in Publishing!PoolIds PROVE PoolIsSound(q)'
    <3>1. PoolIsSound(q) /\ PoolIsSound(p)
      OBVIOUS
    <3>2. CASE q = p
      BY <2>1, <2>2, <2>3, <2>4, <3>1, <3>2 DEF PoolIsSound
    <3>3. CASE q # p
      <4>1. pools[q].sub # s
        BY <2>1, <3>1, <3>3 DEF PoolIsSound
      <4> QED BY <2>2, <2>3, <2>4, <2>6, <3>1, <3>3, <4>1 DEF PoolIsSound
    <3> QED BY <3>2, <3>3
  <2>8. ASSUME NEW t \in Publishing!SubIds PROVE SubIsSound(t)'
    <3>1. SubIsSound(t) /\ published[t].pool \in Publishing!PoolIds \cup {0}
      BY DEF PoolTypes, SubRow
    <3>2. published'[t].filters.countries = {} /\ ~published'[t].filters.fast
      BY <2>1, <2>2, <3>1, FiltersKept DEF SubIsSound
    <3> QED BY <2>2, <2>3, <2>4, <3>1, <3>2 DEF SubIsSound
  <2> QED BY <2>3, <2>5, <2>7, <2>8 DEF NewPoolsAreUnnamed
<1>6. ASSUME NEW f \in RawFilters, Publishing!CreatePublished(f)
      PROVE  PoolInv' /\ NewPoolsAreUnnamed
  <2>1. PICK s \in Publishing!SubIds :
          /\ ~published[s].made
          /\ published' = [published EXCEPT ![s] =
               [there |-> TRUE, made |-> TRUE, filters |-> Publishing!PublishedFilters(f), pool |-> 0]]
          /\ UNCHANGED <<pools, named, hasEndpoints, syncInterrupted>>
    BY <1>6 DEF Publishing!CreatePublished, Publishing!Fresh, Publishing!NextId, PoolTypes
  <2>2. f \in Publishing!Filter
    BY ServicesAssumption
  <2>3. /\ published' \in [Publishing!SubIds -> SubRow]
        /\ published'[s].there /\ published'[s].made /\ published'[s].pool = 0
        /\ published'[s].filters = Publishing!PublishedFilters(f)
        /\ \A t \in Publishing!SubIds \ {s} : published'[t] = published[t]
    BY <2>1, <2>2, FiltersKept DEF PoolTypes, SubRow
  <2>4. PoolTypes'
    BY <2>1, <2>3 DEF PoolTypes
  <2>5. \A q \in Publishing!PoolIds : pools[q].sub \in Publishing!SubIds \cup {0}
    BY DEF PoolTypes, PoolRow
  <2>6. ASSUME NEW q \in Publishing!PoolIds PROVE PoolIsSound(q)'
    <3>1. PoolIsSound(q)
      OBVIOUS
    <3>2. pools[q].sub # s
      BY <2>1, <3>1, Zero DEF PoolIsSound
    <3> QED BY <2>1, <2>3, <2>5, <3>1, <3>2 DEF PoolIsSound
  <2>7. \A t \in Publishing!SubIds : SubIsSound(t)'
    BY <2>1, <2>2, <2>3, FiltersKept DEF SubIsSound
  <2> QED BY <2>1, <2>4, <2>6, <2>7 DEF NewPoolsAreUnnamed
<1>7. ASSUME NEW s \in Publishing!SubIds,
             \/ Publishing!DeletePublished(s) \/ \E f \in RawFilters : Publishing!UpdatePublished(s, f)
      PROVE  PoolInv' /\ NewPoolsAreUnnamed
  <2>1. /\ pools' = Publishing!Unsynced(s) /\ UNCHANGED <<named, hasEndpoints, syncInterrupted>>
        /\ published' \in [Publishing!SubIds -> SubRow]
        /\ \A t \in Publishing!SubIds :
             /\ published'[t].made = published[t].made /\ published'[t].pool = published[t].pool
             /\ published'[t].there => published[t].there
             /\ published'[t].filters.countries = {} /\ ~published'[t].filters.fast
             /\ t # s => published'[t] = published[t]
    <3>1. \A t \in Publishing!SubIds : published[t].filters.countries = {} /\ ~published[t].filters.fast
      BY DEF SubIsSound
    <3>2. CASE Publishing!DeletePublished(s)
      BY <3>1, <3>2 DEF Publishing!DeletePublished, PoolTypes, SubRow
    <3>3. CASE \E f \in RawFilters : Publishing!UpdatePublished(s, f)
      <4>1. PICK f \in RawFilters : Publishing!UpdatePublished(s, f)
        BY <3>3
      <4>2. f \in Publishing!Filter
        BY ServicesAssumption
      <4> QED BY <3>1, <4>1, <4>2, FiltersKept DEF Publishing!UpdatePublished, PoolTypes, SubRow
    <3> QED BY <1>7, <3>2, <3>3
  <2>2. /\ pools' \in [Publishing!PoolIds -> PoolRow]
        /\ \A q \in Publishing!PoolIds :
             /\ pools'[q].there = pools[q].there /\ pools'[q].made = pools[q].made
             /\ pools'[q].sub = pools[q].sub /\ pools'[q].filters = pools[q].filters
             /\ pools'[q].synced => pools[q].synced /\ pools[q].sub # s
    <3> SUFFICES ASSUME NEW q \in Publishing!PoolIds
                 PROVE  /\ pools'[q] \in PoolRow
                        /\ pools'[q].there = pools[q].there /\ pools'[q].made = pools[q].made
                        /\ pools'[q].sub = pools[q].sub /\ pools'[q].filters = pools[q].filters
                        /\ pools'[q].synced => pools[q].synced /\ pools[q].sub # s
      BY <2>1 DEF Publishing!Unsynced
    <3>1. pools'[q] = [pools[q] EXCEPT !.synced = pools[q].synced /\ pools[q].sub # s]
      BY <2>1 DEF Publishing!Unsynced
    <3>2. pools[q] \in PoolRow /\ (pools[q].synced /\ pools[q].sub # s) \in BOOLEAN
      BY DEF PoolTypes
    <3>3. pools'[q].synced = (pools[q].synced /\ pools[q].sub # s)
      BY <3>1, <3>2 DEF PoolRow
    <3> QED BY <3>1, <3>2, <3>3 DEF PoolRow
  <2>3. PoolTypes'
    BY <2>1, <2>2 DEF PoolTypes
  <2>4. \A q \in Publishing!PoolIds : pools[q].sub \in Publishing!SubIds \cup {0}
    BY DEF PoolTypes, PoolRow
  <2>5. ASSUME NEW q \in Publishing!PoolIds PROVE PoolIsSound(q)'
    <3>1. PoolIsSound(q)
      OBVIOUS
    <3> QED BY <2>1, <2>2, <2>4, <3>1 DEF PoolIsSound
  <2>6. ASSUME NEW t \in Publishing!SubIds PROVE SubIsSound(t)'
    <3>1. SubIsSound(t) /\ published[t].pool \in Publishing!PoolIds \cup {0}
      BY DEF PoolTypes, SubRow
    <3> QED BY <2>1, <2>2, <3>1 DEF SubIsSound
  <2> QED BY <2>2, <2>3, <2>5, <2>6 DEF NewPoolsAreUnnamed
<1>8. ASSUME NEW p \in Publishing!PoolIds, Publishing!NamePool(p)
      PROVE  PoolInv' /\ NewPoolsAreUnnamed
  <2>1. pools[p].there /\ named' = named \cup {p} /\ UNCHANGED <<pools, published, hasEndpoints, syncInterrupted>>
    BY <1>8 DEF Publishing!NamePool
  <2>2. PoolTypes' /\ PoolIsSound(p)'
    BY <2>1 DEF PoolTypes, PoolIsSound
  <2> QED BY <2>1, <2>2, PoolStepsPools DEF NewPoolsAreUnnamed
<1>9. CASE (\E p \in Publishing!PoolIds : Publishing!ForgetPool(p)) \/ Publishing!EndpointsChange \/ UNCHANGED poolVars
  <2>1. /\ UNCHANGED <<pools, published, syncInterrupted>> /\ named' \subseteq named
        /\ hasEndpoints' \in BOOLEAN
    BY <1>9 DEF Publishing!ForgetPool, Publishing!EndpointsChange, poolVars, PoolTypes
  <2> QED BY <2>1 DEF PoolTypes, PoolIsSound, SubIsSound, NewPoolsAreUnnamed
<1>10. Publishing!Next \/ UNCHANGED poolVars
  OBVIOUS
<1> QED
  BY <1>1, <1>2, <1>3, <1>4, <1>5, <1>6, <1>7, <1>8, <1>9, <1>10 DEF Publishing!Next

LEMMA PoolIsRight == PoolInv => Publishing!TypeOK /\ Publishing!PlainSyncServesThePool
<1> SUFFICES ASSUME PoolInv PROVE Publishing!TypeOK /\ Publishing!PlainSyncServesThePool
  OBVIOUS
<1>1. Publishing!TypeOK
  BY DEF PoolInv, PoolTypes, PoolIsSound, SubIsSound, PoolRow, SubRow, Publishing!TypeOK
<1>2. Publishing!PlainSyncServesThePool
  BY PlainLinks DEF PoolInv, PoolTypes, PoolIsSound, PoolRow, Publishing!PlainSyncServesThePool
<1> QED BY <1>1, <1>2

-----------------------------------------------------------------------------
(* The backup of the configuration.                                         *)

BackupPool     == [there : BOOLEAN, made : BOOLEAN, name : PoolNames \cup {"none"}]
BackupEndpoint == [there : BOOLEAN, made : BOOLEAN, name : EndpointNames \cup {"none"},
                   hops : Backups!HopLists]
PoolRows       == [Backups!PoolIds -> BackupPool]
EndpointRows   == [Backups!EndpointIds -> BackupEndpoint]

BackupTypes ==
  /\ poolTable \in PoolRows /\ endpointTable \in EndpointRows
  /\ backup \in [pools : PoolRows, endpoints : EndpointRows]
  /\ importing \in [active : BOOLEAN, overwrite : BOOLEAN,
                    pools : SUBSET Backups!PoolIds, seenPools : SUBSET Backups!PoolIds,
                    endpoints : SUBSET Backups!EndpointIds, seenEndpoints : SUBSET Backups!EndpointIds,
                    half : Backups!EndpointIds \cup {0},
                    made : [Backups!EndpointIds -> Backups!EndpointIds \cup {0}]]
  /\ moved \in BOOLEAN

(* Only ids that were given out are of rows or named by hops.               *)
RowsAreMade ==
  /\ \A p \in Backups!PoolIds : poolTable[p].there => poolTable[p].made
  /\ \A e \in Backups!EndpointIds : endpointTable[e].there => endpointTable[e].made
  /\ ~moved => \A p \in Backups!PoolIds, e \in Backups!EndpointIds :
       endpointTable[e].hops = <<p>> \/ backup.endpoints[e].hops = <<p>> => poolTable[p].made

(* The import: each endpoint it has passed has a row of its own, and the    *)
(* one in between has a row without hops.                                   *)
ImportIsSound ==
  /\ ~importing.active => importing = Backups!Resting
  /\ importing.pools \cap importing.seenPools = {}
  /\ importing.endpoints \cap importing.seenEndpoints = {}
  /\ importing.half # 0 =>
       LET f == importing.made[importing.half]
       IN  /\ importing.half \notin importing.seenEndpoints /\ f # 0 /\ endpointTable[f].there
           /\ endpointTable[f].name = backup.endpoints[importing.half].name
  /\ \A e \in Backups!EndpointIds : importing.made[e] # 0 =>
       /\ endpointTable[importing.made[e]].made
       /\ e \in importing.seenEndpoints \cup {importing.half}
       /\ \A f \in Backups!EndpointIds : importing.made[e] = importing.made[f] => e = f
  /\ \A p \in importing.seenPools : backup.pools[p].name \in Backups!Names(poolTable)
  /\ \A e \in importing.seenEndpoints :
       LET f == importing.made[e]
       IN  /\ backup.endpoints[e].name \in Backups!Names(endpointTable)
           /\ f # 0 => endpointTable[f].there /\ endpointTable[f].hops = backup.endpoints[e].hops

BackupInv == BackupTypes /\ RowsAreMade /\ ImportIsSound

NewPoolsAreNotHops ==
  \A p \in Backups!PoolIds : ~poolTable[p].there /\ poolTable'[p].there /\ ~moved =>
    /\ \A e \in Backups!There(endpointTable) : endpointTable[e].hops # <<p>>
    /\ \A e \in Backups!There(backup.endpoints) : backup.endpoints[e].hops # <<p>>

LEMMA NoId == 0 \notin Backups!EndpointIds /\ 0 \notin Backups!PoolIds
BY ServicesAssumption DEF Backups!EndpointIds, Backups!PoolIds

LEMMA RestingTypes ==
  /\ Backups!Resting \in [active : BOOLEAN, overwrite : BOOLEAN,
                    pools : SUBSET Backups!PoolIds, seenPools : SUBSET Backups!PoolIds,
                    endpoints : SUBSET Backups!EndpointIds, seenEndpoints : SUBSET Backups!EndpointIds,
                    half : Backups!EndpointIds \cup {0},
                    made : [Backups!EndpointIds -> Backups!EndpointIds \cup {0}]]
  /\ Backups!Empty.pools \in PoolRows /\ Backups!Empty.endpoints \in EndpointRows
  /\ Backups!NoPool \in BackupPool /\ Backups!NoEndpoint \in BackupEndpoint
<1>1. Backups!NoPool \in BackupPool
  BY DEF Backups!NoPool, BackupPool
<1>2. Backups!NoEndpoint \in BackupEndpoint
  BY DEF Backups!NoEndpoint, BackupEndpoint, Backups!HopLists
<1>3. Backups!Resting \in [active : BOOLEAN, overwrite : BOOLEAN,
                    pools : SUBSET Backups!PoolIds, seenPools : SUBSET Backups!PoolIds,
                    endpoints : SUBSET Backups!EndpointIds, seenEndpoints : SUBSET Backups!EndpointIds,
                    half : Backups!EndpointIds \cup {0},
                    made : [Backups!EndpointIds -> Backups!EndpointIds \cup {0}]]
  BY DEF Backups!Resting
<1> QED
  BY <1>1, <1>2, <1>3 DEF Backups!Empty, PoolRows, EndpointRows

(* Nothing is said of an import that has passed nothing.                    *)
LEMMA RestIsSound ==
  ASSUME importing'.seenPools = {}, importing'.seenEndpoints = {}, importing'.half = 0,
         importing'.made = Backups!Resting.made, importing'.active \/ importing' = Backups!Resting
  PROVE  ImportIsSound'
BY DEF ImportIsSound, Backups!Resting

LEMMA BackupStarts == Backups!Init => BackupInv
<1> SUFFICES ASSUME Backups!Init PROVE BackupInv
  OBVIOUS
<1>1. BackupTypes
  BY RestingTypes DEF Backups!Init, BackupTypes, Backups!Empty
<1>2. RowsAreMade
  BY DEF Backups!Init, RowsAreMade, Backups!Empty, Backups!NoPool, Backups!NoEndpoint
<1>3. ImportIsSound
  BY DEF Backups!Init, ImportIsSound, Backups!Resting
<1> QED BY <1>1, <1>2, <1>3 DEF BackupInv

(* What a user does between imports.                                        *)
LEMMA QuietSteps ==
  ASSUME BackupInv, Backups!Quiet, poolTable' \in PoolRows, endpointTable' \in EndpointRows,
         \A p \in Backups!PoolIds : /\ poolTable[p].made \/ poolTable'[p].there => poolTable'[p].made
                                    /\ poolTable[p].made /\ poolTable'[p].there => poolTable[p].there,
         \A e \in Backups!EndpointIds :
           /\ endpointTable'[e].there => endpointTable'[e].made
           /\ \/ endpointTable'[e].hops = endpointTable[e].hops \/ endpointTable'[e].hops = <<>>
              \/ \E p \in Backups!PoolIds : poolTable[p].made /\ endpointTable'[e].hops = <<p>>
  PROVE  BackupInv' /\ NewPoolsAreNotHops
<1>1. ~importing.active /\ importing = Backups!Resting /\ UNCHANGED <<backup, importing, moved>>
  BY DEF BackupInv, ImportIsSound, Backups!Quiet
<1>2. BackupTypes'
  BY <1>1 DEF BackupInv, BackupTypes
<1>3. RowsAreMade'
  <2>1. ASSUME NEW p \in Backups!PoolIds, NEW e \in Backups!EndpointIds, ~moved,
               endpointTable'[e].hops = <<p>>
        PROVE  poolTable[p].made
    <3>1. CASE endpointTable'[e].hops = endpointTable[e].hops
      BY <2>1, <3>1 DEF BackupInv, RowsAreMade
    <3>2. CASE endpointTable'[e].hops # endpointTable[e].hops
      <4>1. PICK q \in Backups!PoolIds : poolTable[q].made /\ endpointTable'[e].hops = <<q>>
        BY <2>1, <3>2
      <4>2. q = p
        BY <2>1, <4>1
      <4> QED BY <4>1, <4>2
    <3> QED BY <3>1, <3>2
  <2> QED BY <1>1, <2>1 DEF BackupInv, RowsAreMade
<1>4. ImportIsSound'
  BY <1>1 DEF ImportIsSound, Backups!Resting
<1>5. NewPoolsAreNotHops
  BY DEF BackupInv, BackupTypes, RowsAreMade, NewPoolsAreNotHops, Backups!There, EndpointRows
<1> QED BY <1>2, <1>3, <1>4, <1>5 DEF BackupInv

LEMMA UserSteps ==
  ASSUME BackupInv,
         \/ Backups!CreatePool \/ Backups!CreateEndpoint
         \/ \E p \in Backups!PoolIds : Backups!DeletePool(p)
         \/ \E e \in Backups!EndpointIds : Backups!UpdateEndpoint(e) \/ Backups!DeleteEndpoint(e)
  PROVE  BackupInv' /\ NewPoolsAreNotHops
<1> USE DEF BackupInv
<1>1. CASE Backups!CreatePool
  <2>1. PICK p \in Backups!PoolIds, name \in PoolNames :
          ~poolTable[p].made /\ poolTable' = [poolTable EXCEPT ![p] = [there |-> TRUE, made |-> TRUE, name |-> name]]
    BY <1>1 DEF Backups!CreatePool, Backups!Free, Backups!NextIds, Backups!PoolCreated, BackupTypes, PoolRows
  <2>2. Backups!Quiet /\ endpointTable' = endpointTable
    BY <1>1 DEF Backups!CreatePool
  <2>3. poolTable' \in PoolRows /\ poolTable'[p].there /\ poolTable'[p].made
        /\ \A q \in Backups!PoolIds \ {p} : poolTable'[q] = poolTable[q]
    BY <2>1 DEF BackupTypes, PoolRows, BackupPool
  <2> QED BY <2>1, <2>2, <2>3, QuietSteps DEF BackupTypes, RowsAreMade
<1>2. ASSUME NEW p \in Backups!PoolIds, Backups!DeletePool(p)
      PROVE  BackupInv' /\ NewPoolsAreNotHops
  <2>1. Backups!Quiet /\ endpointTable' = endpointTable
    BY <1>2 DEF Backups!DeletePool
  <2>2. /\ poolTable' \in PoolRows /\ ~poolTable'[p].there /\ poolTable'[p].made
        /\ \A q \in Backups!PoolIds \ {p} : poolTable'[q] = poolTable[q]
    BY <1>2, RestingTypes DEF Backups!DeletePool, BackupTypes, PoolRows, BackupPool, Backups!NoPool
  <2> QED BY <2>1, <2>2, QuietSteps DEF BackupTypes, RowsAreMade
<1>3. CASE Backups!CreateEndpoint
  <2>1. PICK e \in Backups!EndpointIds, name \in EndpointNames, hops \in Backups!Choices :
          endpointTable' = [endpointTable EXCEPT ![e] =
                             [there |-> TRUE, made |-> TRUE, name |-> name, hops |-> hops]]
    BY <1>3 DEF Backups!CreateEndpoint, Backups!Free, Backups!NextIds, Backups!EndpointCreated,
                BackupTypes, EndpointRows
  <2>2. Backups!Quiet /\ poolTable' = poolTable
    BY <1>3 DEF Backups!CreateEndpoint
  <2>3. hops = <<>> \/ \E p \in Backups!PoolIds : poolTable[p].made /\ hops = <<p>>
    BY DEF Backups!Choices, Backups!There, BackupTypes, PoolRows, RowsAreMade
  <2>4. hops \in Backups!HopLists
    BY <2>3 DEF Backups!HopLists
  <2>5. /\ endpointTable' \in EndpointRows /\ endpointTable'[e].made /\ endpointTable'[e].hops = hops
        /\ \A f \in Backups!EndpointIds \ {e} : endpointTable'[f] = endpointTable[f]
    BY <2>1, <2>4 DEF BackupTypes, EndpointRows, BackupEndpoint
  <2> QED BY <2>2, <2>3, <2>5, QuietSteps DEF BackupTypes, RowsAreMade
<1>4. ASSUME NEW e \in Backups!EndpointIds, Backups!UpdateEndpoint(e)
      PROVE  BackupInv' /\ NewPoolsAreNotHops
  <2>1. PICK hops \in Backups!Choices : endpointTable' = [endpointTable EXCEPT ![e].hops = hops]
    BY <1>4 DEF Backups!UpdateEndpoint, Backups!HopsReplaced
  <2>2. Backups!Quiet /\ poolTable' = poolTable
    BY <1>4 DEF Backups!UpdateEndpoint
  <2>3. hops = <<>> \/ \E p \in Backups!PoolIds : poolTable[p].made /\ hops = <<p>>
    BY DEF Backups!Choices, Backups!There, BackupTypes, PoolRows, RowsAreMade
  <2>4. hops \in Backups!HopLists
    BY <2>3 DEF Backups!HopLists
  <2>5. /\ endpointTable' \in EndpointRows /\ endpointTable'[e].hops = hops
        /\ endpointTable'[e].made = endpointTable[e].made /\ endpointTable'[e].there = endpointTable[e].there
        /\ \A f \in Backups!EndpointIds \ {e} : endpointTable'[f] = endpointTable[f]
    <3> DEFINE row == [endpointTable[e] EXCEPT !.hops = hops]
    <3>1. endpointTable' = [endpointTable EXCEPT ![e] = row] /\ endpointTable[e] \in BackupEndpoint
      BY <2>1 DEF BackupTypes, EndpointRows
    <3>2. /\ row \in BackupEndpoint /\ row.hops = hops
          /\ row.made = endpointTable[e].made /\ row.there = endpointTable[e].there
      BY <2>4, <3>1 DEF BackupEndpoint
    <3> HIDE DEF row
    <3> QED BY <3>1, <3>2 DEF BackupTypes, EndpointRows
  <2> QED BY <2>2, <2>3, <2>5, QuietSteps DEF BackupTypes, RowsAreMade
<1>5. ASSUME NEW e \in Backups!EndpointIds, Backups!DeleteEndpoint(e)
      PROVE  BackupInv' /\ NewPoolsAreNotHops
  <2>1. Backups!Quiet /\ poolTable' = poolTable
    BY <1>5 DEF Backups!DeleteEndpoint
  <2>2. /\ endpointTable' \in EndpointRows /\ endpointTable'[e].hops = <<>> /\ endpointTable'[e].made
        /\ \A f \in Backups!EndpointIds \ {e} : endpointTable'[f] = endpointTable[f]
    BY <1>5, RestingTypes DEF Backups!DeleteEndpoint, BackupTypes, EndpointRows, BackupEndpoint, Backups!NoEndpoint
  <2> QED BY <2>1, <2>2, QuietSteps DEF BackupTypes, RowsAreMade
<1> QED BY <1>1, <1>2, <1>3, <1>4, <1>5

(* Export, the ends of an import, and a new installation.                   *)
LEMMA TransferSteps ==
  ASSUME BackupInv, Backups!Export \/ Backups!StartImport \/ Backups!EndImport \/ Backups!Reinstall
  PROVE  BackupInv' /\ NewPoolsAreNotHops
<1> USE DEF BackupInv
<1>1. CASE Backups!Export
  <2>1. /\ ~importing.active /\ importing = Backups!Resting
        /\ UNCHANGED <<poolTable, endpointTable, importing, moved>>
        /\ backup'.pools = poolTable /\ backup'.endpoints = endpointTable
        /\ backup' \in [pools : PoolRows, endpoints : EndpointRows]
    BY <1>1 DEF Backups!Export, BackupTypes, ImportIsSound
  <2>2. BackupTypes' /\ RowsAreMade'
    BY <2>1 DEF BackupTypes, RowsAreMade
  <2>3. ImportIsSound'
    BY <2>1, RestIsSound DEF Backups!Resting
  <2> QED BY <2>1, <2>2, <2>3 DEF NewPoolsAreNotHops
<1>2. CASE Backups!StartImport
  <2>1. PICK overwrite \in BOOLEAN, fromPools \in SUBSET Backups!PoolIds, fromEndpoints \in SUBSET Backups!EndpointIds :
          importing' = [Backups!Resting EXCEPT !.active = TRUE, !.overwrite = overwrite,
                          !.pools = fromPools, !.endpoints = fromEndpoints]
    <3>1. /\ Backups!There(backup.pools) \subseteq Backups!PoolIds
          /\ Backups!There(backup.endpoints) \subseteq Backups!EndpointIds
      BY DEF BackupTypes, PoolRows, EndpointRows, Backups!There
    <3> QED BY <1>2, <3>1 DEF Backups!StartImport
  <2>2. /\ importing'.seenPools = {} /\ importing'.seenEndpoints = {} /\ importing'.half = 0
        /\ importing'.made = Backups!Resting.made /\ importing'.active
    BY <2>1 DEF Backups!Resting
  <2>3. BackupTypes'
    BY <1>2, <2>1, RestingTypes DEF Backups!StartImport, BackupTypes
  <2>4. UNCHANGED <<poolTable, endpointTable, backup, moved>>
    BY <1>2 DEF Backups!StartImport
  <2> QED BY <2>2, <2>3, <2>4, RestIsSound DEF RowsAreMade, NewPoolsAreNotHops
<1>3. CASE Backups!EndImport
  <2>1. importing' = Backups!Resting /\ UNCHANGED <<poolTable, endpointTable, backup, moved>>
    BY <1>3 DEF Backups!EndImport
  <2>2. ImportIsSound'
    BY <2>1, RestIsSound DEF Backups!Resting
  <2> QED BY <2>1, <2>2, RestingTypes DEF BackupTypes, RowsAreMade, NewPoolsAreNotHops
<1>4. CASE Backups!Reinstall
  <2>1. /\ moved' = TRUE /\ poolTable' = Backups!Empty.pools /\ endpointTable' = Backups!Empty.endpoints
        /\ UNCHANGED <<backup, importing>> /\ importing = Backups!Resting
    BY <1>4 DEF Backups!Reinstall, ImportIsSound
  <2>2. /\ \A p \in Backups!PoolIds : ~poolTable'[p].there
        /\ \A e \in Backups!EndpointIds : ~endpointTable'[e].there
    BY <2>1 DEF Backups!Empty, Backups!NoPool, Backups!NoEndpoint
  <2>3. BackupTypes' /\ RowsAreMade'
    BY <2>1, <2>2, RestingTypes DEF BackupTypes, RowsAreMade
  <2>4. ImportIsSound'
    BY <2>1, RestIsSound DEF Backups!Resting
  <2> QED BY <2>2, <2>3, <2>4 DEF NewPoolsAreNotHops
<1> QED BY <1>1, <1>2, <1>3, <1>4

(* The names of a table, as a row is made or changed.                       *)
LEMMA NamesKept ==
  ASSUME NEW table, NEW next, DOMAIN next = DOMAIN table,
         \A i \in DOMAIN table : table[i].there => next[i].there /\ next[i].name = table[i].name
  PROVE  Backups!Names(table) \subseteq Backups!Names(next)
BY DEF Backups!Names, Backups!There

LEMMA ImportPoolSteps ==
  ASSUME BackupInv, NEW p \in Backups!PoolIds, Backups!ImportPool(p)
  PROVE  BackupInv' /\ NewPoolsAreNotHops
<1> USE DEF BackupInv
<1> DEFINE name == backup.pools[p].name
<1>1. /\ p \in importing.pools /\ UNCHANGED <<endpointTable, backup, moved>>
      /\ importing' = [importing EXCEPT !.pools = @ \ {p}, !.seenPools = @ \cup {p}]
      /\ name \in PoolNames \cup {"none"}
  BY DEF Backups!ImportPool, BackupTypes, PoolRows, BackupPool
<1>2. \/ poolTable' = poolTable /\ name \in Backups!Names(poolTable)
      \/ \E q \in Backups!PoolIds : /\ ~poolTable[q].made
                                    /\ poolTable' = [poolTable EXCEPT ![q] = [there |-> TRUE, made |-> TRUE, name |-> name]]
  BY DEF Backups!ImportPool, Backups!Skips, Backups!Free, Backups!NextIds, Backups!PoolCreated,
         BackupTypes, PoolRows
<1>3. /\ poolTable' \in PoolRows
      /\ \A q \in Backups!PoolIds : /\ poolTable[q].made \/ poolTable'[q].there => poolTable'[q].made
                                    /\ poolTable[q].made /\ poolTable'[q].there => poolTable[q].there
      /\ name \in Backups!Names(poolTable)'
      /\ Backups!Names(poolTable) \subseteq Backups!Names(poolTable)'
  <2>1. CASE poolTable' = poolTable /\ name \in Backups!Names(poolTable)
    BY <2>1 DEF BackupTypes, RowsAreMade
  <2>2. ASSUME NEW q \in Backups!PoolIds, ~poolTable[q].made,
               poolTable' = [poolTable EXCEPT ![q] = [there |-> TRUE, made |-> TRUE, name |-> name]]
        PROVE  <1>3!1 /\ <1>3!2 /\ <1>3!3 /\ <1>3!4
    <3>1. /\ poolTable' \in PoolRows /\ poolTable'[q].there /\ poolTable'[q].made /\ poolTable'[q].name = name
          /\ \A r \in Backups!PoolIds \ {q} : poolTable'[r] = poolTable[r]
          /\ DOMAIN poolTable' = Backups!PoolIds /\ DOMAIN poolTable = Backups!PoolIds
      BY <1>1, <2>2 DEF BackupTypes, PoolRows, BackupPool
    <3>2. name \in Backups!Names(poolTable)'
      BY <3>1 DEF Backups!Names, Backups!There
    <3>3. Backups!Names(poolTable) \subseteq Backups!Names(poolTable')
      <4>1. \A r \in Backups!PoolIds :
              poolTable[r].there => poolTable'[r].there /\ poolTable'[r].name = poolTable[r].name
        BY <2>2, <3>1 DEF RowsAreMade
      <4> QED BY <3>1, <4>1, NamesKept
    <3> QED BY <2>2, <3>1, <3>2, <3>3 DEF RowsAreMade, Backups!Names, Backups!There
  <2> QED BY <1>2, <2>1, <2>2
<1>4. /\ importing'.active = importing.active /\ importing'.half = importing.half
      /\ importing'.made = importing.made /\ importing'.endpoints = importing.endpoints
      /\ importing'.seenEndpoints = importing.seenEndpoints
      /\ importing'.pools = importing.pools \ {p} /\ importing'.seenPools = importing.seenPools \cup {p}
  BY <1>1 DEF BackupTypes
<1>5. BackupTypes'
  BY <1>1, <1>3 DEF BackupTypes
<1>6. RowsAreMade'
  BY <1>1, <1>3 DEF RowsAreMade
<1>7. importing.active
  BY <1>1 DEF ImportIsSound, Backups!Resting
<1>8. ImportIsSound'
  BY <1>1, <1>3, <1>4, <1>7 DEF ImportIsSound
<1>9. NewPoolsAreNotHops
  BY <1>3 DEF BackupTypes, RowsAreMade, NewPoolsAreNotHops, Backups!There, EndpointRows
<1> QED BY <1>5, <1>6, <1>8, <1>9

LEMMA ImportEndpointSteps ==
  ASSUME BackupInv, NEW e \in Backups!EndpointIds, Backups!ImportEndpoint(e)
  PROVE  BackupInv' /\ NewPoolsAreNotHops
<1> USE DEF BackupInv
<1> DEFINE name == backup.endpoints[e].name
<1>1. /\ importing.half = 0 /\ e \in importing.endpoints /\ UNCHANGED <<poolTable, backup, moved>>
      /\ name \in EndpointNames \cup {"none"}
  BY DEF Backups!ImportEndpoint, BackupTypes, EndpointRows, BackupEndpoint
<1>2. e \notin importing.seenEndpoints /\ importing.made[e] = 0
  BY <1>1, NoId DEF ImportIsSound
<1>3. importing.active
  BY <1>1 DEF ImportIsSound, Backups!Resting
<1>4. CASE name \in Backups!Names(endpointTable)
  <2>1. importing' = Backups!Seen(e) /\ endpointTable' = endpointTable
    BY <1>4 DEF Backups!ImportEndpoint
  <2>2. /\ importing'.active = importing.active /\ importing'.half = importing.half
        /\ importing'.made = importing.made /\ importing'.endpoints = importing.endpoints \ {e}
        /\ importing'.seenEndpoints = importing.seenEndpoints \cup {e}
        /\ importing'.pools = importing.pools /\ importing'.seenPools = importing.seenPools
    BY <2>1 DEF BackupTypes, Backups!Seen
  <2>3. BackupTypes'
    BY <1>1, <2>1 DEF BackupTypes, Backups!Seen
  <2>4. ImportIsSound'
    BY <1>1, <1>2, <1>3, <1>4, <2>1, <2>2 DEF ImportIsSound
  <2> QED BY <1>1, <2>1, <2>3, <2>4 DEF RowsAreMade, NewPoolsAreNotHops
<1>5. CASE name \notin Backups!Names(endpointTable)
  <2>1. PICK f \in Backups!EndpointIds :
          /\ ~endpointTable[f].made
          /\ endpointTable' = [endpointTable EXCEPT ![f] = [there |-> TRUE, made |-> TRUE, name |-> name, hops |-> <<>>]]
          /\ importing' = [importing EXCEPT !.half = e, !.made[e] = f]
    BY <1>5 DEF Backups!ImportEndpoint, Backups!Skips, Backups!Free, Backups!NextIds,
                Backups!EndpointCreated, BackupTypes, EndpointRows
  <2>2. /\ endpointTable' \in EndpointRows /\ endpointTable'[f].there /\ endpointTable'[f].made
        /\ endpointTable'[f].name = name /\ endpointTable'[f].hops = <<>>
        /\ \A g \in Backups!EndpointIds \ {f} : endpointTable'[g] = endpointTable[g]
        /\ DOMAIN endpointTable' = Backups!EndpointIds /\ DOMAIN endpointTable = Backups!EndpointIds
    BY <1>1, <2>1 DEF BackupTypes, EndpointRows, BackupEndpoint, Backups!HopLists
  <2>3. /\ importing'.active = importing.active /\ importing'.half = e
        /\ importing'.made = [importing.made EXCEPT ![e] = f] /\ importing'.endpoints = importing.endpoints
        /\ importing'.seenEndpoints = importing.seenEndpoints
        /\ importing'.pools = importing.pools /\ importing'.seenPools = importing.seenPools
        /\ importing'.overwrite = importing.overwrite
    BY <2>1 DEF BackupTypes
  <2>4. importing.made \in [Backups!EndpointIds -> Backups!EndpointIds \cup {0}]
    BY DEF BackupTypes
  <2>5. /\ importing'.made \in [Backups!EndpointIds -> Backups!EndpointIds \cup {0}]
        /\ importing'.made[e] = f /\ \A g \in Backups!EndpointIds \ {e} : importing'.made[g] = importing.made[g]
    BY <2>3, <2>4
  <2>6. BackupTypes'
    BY <1>1, <2>1, <2>2, <2>5 DEF BackupTypes
  <2>7. RowsAreMade'
    <3>1. ASSUME NEW p \in Backups!PoolIds, NEW g \in Backups!EndpointIds, ~moved, endpointTable'[g].hops = <<p>>
          PROVE  poolTable[p].made
      <4>1. g # f
        <5>1. <<p>> # <<>>
          OBVIOUS
        <5>2. endpointTable'[f].hops # <<p>>
          BY <2>2, <5>1, Zenon
        <5> QED BY <3>1, <5>2
      <4> QED BY <2>2, <3>1, <4>1 DEF RowsAreMade
    <3> QED BY <1>1, <2>2, <3>1 DEF RowsAreMade
  <2>8. \A g \in Backups!EndpointIds : importing.made[g] # f
    BY <2>1, NoId DEF ImportIsSound
  <2>9. Backups!Names(endpointTable) \subseteq Backups!Names(endpointTable')
    <3>1. \A g \in Backups!EndpointIds :
            endpointTable[g].there => endpointTable'[g].there /\ endpointTable'[g].name = endpointTable[g].name
      BY <2>1, <2>2 DEF RowsAreMade
    <3> QED BY <2>2, <3>1, NamesKept
  <2>10. ImportIsSound'
    <3>1. ASSUME NEW g \in Backups!EndpointIds, importing'.made[g] # 0
          PROVE  /\ endpointTable'[importing'.made[g]].made
                 /\ g \in importing'.seenEndpoints \cup {importing'.half}
                 /\ \A h \in Backups!EndpointIds : importing'.made[g] = importing'.made[h] => g = h
      <4>1. CASE g = e
        BY <2>2, <2>3, <2>5, <2>8, <4>1 DEF ImportIsSound
      <4>2. CASE g # e
        BY <1>1, <2>2, <2>3, <2>4, <2>5, <2>8, <3>1, <4>2, NoId DEF ImportIsSound
      <4> QED BY <4>1, <4>2
    <3>2. ASSUME NEW g \in importing'.seenEndpoints
          PROVE  /\ backup'.endpoints[g].name \in Backups!Names(endpointTable)'
                 /\ importing'.made[g] # 0 => /\ endpointTable'[importing'.made[g]].there
                                              /\ endpointTable'[importing'.made[g]].hops = backup'.endpoints[g].hops
      <4>1. g \in importing.seenEndpoints /\ g \in Backups!EndpointIds /\ g # e
        BY <1>2, <2>3 DEF BackupTypes
      <4>2. backup.endpoints[g].name \in Backups!Names(endpointTable')
        BY <2>9, <4>1 DEF ImportIsSound
      <4>3. importing'.made[g] = importing.made[g]
        BY <2>5, <4>1
      <4>4. importing.made[g] # 0 => endpointTable'[importing.made[g]] = endpointTable[importing.made[g]]
        BY <2>2, <2>4, <2>8, <4>1
      <4> QED BY <1>1, <4>1, <4>2, <4>3, <4>4 DEF ImportIsSound, Backups!Names, Backups!There
    <3>3. importing'.half \notin importing'.seenEndpoints /\ importing'.made[importing'.half] = f /\ f # 0
      BY <1>2, <2>3, <2>5, NoId
    <3> QED BY <1>1, <1>3, <2>2, <2>3, <3>1, <3>2, <3>3 DEF ImportIsSound
  <2> QED BY <1>1, <2>6, <2>7, <2>10 DEF NewPoolsAreNotHops
<1> QED BY <1>4, <1>5

LEMMA ImportHopsSteps ==
  ASSUME BackupInv, Backups!ImportHops
  PROVE  BackupInv' /\ NewPoolsAreNotHops
<1> USE DEF BackupInv
<1> DEFINE e == importing.half
           f == importing.made[importing.half]
<1>1. /\ e # 0 /\ e \in Backups!EndpointIds /\ f \in Backups!EndpointIds
      /\ UNCHANGED <<poolTable, backup, moved>>
      /\ e \notin importing.seenEndpoints /\ endpointTable[f].there /\ endpointTable[f].name = backup.endpoints[e].name
      /\ importing.active
  BY DEF Backups!ImportHops, BackupTypes, ImportIsSound, Backups!Resting
<1>2. backup.endpoints[e].hops \in Backups!HopLists
  BY <1>1 DEF BackupTypes, EndpointRows, BackupEndpoint
<1>3. /\ endpointTable' \in EndpointRows /\ endpointTable'[f].hops = backup.endpoints[e].hops
      /\ \A g \in Backups!EndpointIds :
           /\ endpointTable'[g].there = endpointTable[g].there /\ endpointTable'[g].made = endpointTable[g].made
           /\ endpointTable'[g].name = endpointTable[g].name
           /\ g # f => endpointTable'[g] = endpointTable[g]
      /\ DOMAIN endpointTable' = Backups!EndpointIds /\ DOMAIN endpointTable = Backups!EndpointIds
  <2> DEFINE row == [endpointTable[f] EXCEPT !.hops = backup.endpoints[e].hops]
  <2>1. endpointTable' = [endpointTable EXCEPT ![f] = row] /\ endpointTable[f] \in BackupEndpoint
    BY <1>1 DEF Backups!ImportHops, Backups!HopsReplaced, BackupTypes, EndpointRows
  <2>2. /\ row \in BackupEndpoint /\ row.hops = backup.endpoints[e].hops /\ row.name = endpointTable[f].name
        /\ row.made = endpointTable[f].made /\ row.there = endpointTable[f].there
    BY <1>2, <2>1 DEF BackupEndpoint
  <2> HIDE DEF row
  <2> QED BY <1>1, <2>1, <2>2 DEF BackupTypes, EndpointRows
<1>4. importing' = [Backups!Seen(e) EXCEPT !.half = 0]
  BY DEF Backups!ImportHops
<1>5. /\ importing'.active = importing.active /\ importing'.half = 0 /\ importing'.made = importing.made
      /\ importing'.endpoints = importing.endpoints \ {e}
      /\ importing'.seenEndpoints = importing.seenEndpoints \cup {e}
      /\ importing'.pools = importing.pools /\ importing'.seenPools = importing.seenPools
  BY <1>4 DEF BackupTypes, Backups!Seen
<1>6. BackupTypes'
  BY <1>1, <1>3, <1>4 DEF BackupTypes, Backups!Seen
<1>7. RowsAreMade'
  BY <1>1, <1>3 DEF RowsAreMade
<1>8. Backups!Names(endpointTable) \subseteq Backups!Names(endpointTable')
  BY <1>3, NamesKept
<1>9. backup.endpoints[e].name \in Backups!Names(endpointTable)
  BY <1>1, <1>3 DEF Backups!Names, Backups!There
<1>10. ImportIsSound'
  <2>1. ASSUME NEW g \in importing'.seenEndpoints
        PROVE  /\ backup'.endpoints[g].name \in Backups!Names(endpointTable)'
               /\ importing'.made[g] # 0 => /\ endpointTable'[importing'.made[g]].there
                                            /\ endpointTable'[importing'.made[g]].hops = backup'.endpoints[g].hops
    <3>1. Backups!Names(endpointTable)' = Backups!Names(endpointTable')
      BY DEF Backups!Names, Backups!There
    <3>2. CASE g = e
      BY <1>1, <1>3, <1>5, <1>8, <1>9, <3>1, <3>2
    <3>3. CASE g # e
      <4>1. g \in importing.seenEndpoints /\ g \in Backups!EndpointIds
        BY <1>5, <3>3, <2>1 DEF BackupTypes
      <4>2. importing.made[g] # 0 => importing.made[g] # f /\ importing.made[g] \in Backups!EndpointIds
        BY <1>1, <3>3, <4>1 DEF ImportIsSound, BackupTypes
      <4> QED BY <1>1, <1>3, <1>5, <1>8, <3>1, <4>1, <4>2 DEF ImportIsSound
    <3> QED BY <3>2, <3>3
  <2>2. ASSUME NEW g \in Backups!EndpointIds, importing'.made[g] # 0
        PROVE  /\ endpointTable'[importing'.made[g]].made
               /\ g \in importing'.seenEndpoints \cup {importing'.half}
               /\ \A h \in Backups!EndpointIds : importing'.made[g] = importing'.made[h] => g = h
    <3>1. importing.made[g] \in Backups!EndpointIds
      BY <1>5, <2>2 DEF BackupTypes
    <3> QED BY <1>3, <1>5, <2>2, <3>1 DEF ImportIsSound
  <2> QED BY <1>1, <1>5, <2>1, <2>2 DEF ImportIsSound
<1> QED BY <1>1, <1>6, <1>7, <1>10 DEF NewPoolsAreNotHops

LEMMA BackupSteps ==
  ASSUME BackupInv, [Backups!Next]_backupVars
  PROVE  BackupInv' /\ NewPoolsAreNotHops
<1>1. CASE UNCHANGED backupVars
  BY <1>1 DEF backupVars, BackupInv, BackupTypes, RowsAreMade, ImportIsSound, NewPoolsAreNotHops,
              Backups!Names, Backups!There
<1>2. CASE Backups!Next
  BY <1>2, UserSteps, TransferSteps, ImportPoolSteps, ImportEndpointSteps, ImportHopsSteps DEF Backups!Next
<1> QED BY <1>1, <1>2

LEMMA BackupIsRight == BackupInv => Backups!TypeOK
BY DEF BackupInv, BackupTypes, ImportIsSound, PoolRows, EndpointRows, BackupPool, BackupEndpoint, Backups!TypeOK

-----------------------------------------------------------------------------
(* Collections.                                                             *)

ToCollect == [id : Collecting!Ids \cup {0}, url : Urls \cup {Collecting!NoUrl}]
Job == [stage : Collecting!Stages, todo : Seq(ToCollect), left : Seq(Keys), count : Nat,
        found : {"", "nodes", "none", "broken"}, again : BOOLEAN]

(* What is to be looked up by its URL has one.                              *)
JobIsSound(job) ==
  /\ job \in Job
  /\ job.stage \notin {"idle", "next"} => job.todo # <<>>
  /\ \A n \in 1 .. Len(job.todo) :
       n > 1 \/ job.stage \in {"next", "ref", "create", "retry"} => job.todo[n].url \in Urls

RowsAreSound ==
  /\ subscriptions \in [Collecting!Ids -> Collecting!Row]
  /\ \A i \in Collecting!Ids : subscriptions[i].there => subscriptions[i].url \in Urls
  /\ \A i, j \in Collecting!Rows : subscriptions[i].url = subscriptions[j].url => i = j

(* Each node has a collection that answers for it.  A collection answers    *)
(* for no more than the limit, nor, while it may insert, for more than it   *)
(* has counted.                                                             *)
Answers(owned) ==
  /\ owned \in [Collecting!Collectors -> SUBSET Keys]
  /\ \A x \in proxies : \E c \in Collecting!Collectors : x \in owned[c]
  /\ \A c \in Collecting!Collectors :
       /\ IsFiniteSet(owned[c]) /\ Cardinality(owned[c]) <= MaxProxyCount
       /\ jobs[c].stage = "collect" /\ jobs[c].count < MaxProxyCount => Cardinality(owned[c]) <= jobs[c].count

CollectInv ==
  /\ proxies \subseteq Keys /\ IsFiniteSet(proxies) /\ started \in 0 .. MaxStarted
  /\ jobs \in [Collecting!Collectors -> Job]
  /\ \A c \in Collecting!Collectors : JobIsSound(jobs[c])
  /\ RowsAreSound
  /\ \E owned : Answers(owned)

GoneStayGone ==
  \A i \in Collecting!Ids :
    ~subscriptions[i].there /\ subscriptions[i].url # Collecting!NoUrl => ~subscriptions'[i].there

LEMMA CollectAssumptions ==
  /\ MaxCollectors \in Nat /\ MaxProxyCount \in Nat /\ MaxSubs \in Nat /\ MaxStarted \in Nat
  /\ Collecting!NoUrl \notin Urls
  /\ \A text \in Texts : text \in Seq(Keys)
<1>1. \A text \in Texts : text \in Seq(Keys)
  <2>1. <<"k1", "k2", "k3">> \in Seq(Keys)
    <3>1. <<"k1", "k2", "k3">> \in Texts
      BY DEF Texts
    <3>2. \A i \in 1 .. 3 : <<"k1", "k2", "k3">>[i] \in Keys
      BY <3>1, ServicesAssumption
    <3> QED BY <3>2
  <2>2. << >> \in Seq(Keys)
    OBVIOUS
  <2> QED BY <2>1, <2>2 DEF Texts
<1> QED BY <1>1, ServicesAssumption

LEMMA CollectCardinality ==
  ASSUME NEW S
  PROVE  Collecting!Cardinality(S) = Cardinality(S)
BY DEF Collecting!Cardinality, Cardinality, Collecting!IsFiniteSet, IsFiniteSet

(* A set of nodes that the collections answer for is within their limits.   *)
LEMMA Shares ==
  ASSUME NEW S, NEW C, IsFiniteSet(C), NEW n \in Nat, NEW owned,
         \A x \in S : \E c \in C : x \in owned[c],
         \A c \in C : IsFiniteSet(owned[c]) /\ Cardinality(owned[c]) <= n
  PROVE  Cardinality(S) <= n * Cardinality(C)
<1> DEFINE places == C \X (1 .. n)
           owner  == [x \in S |-> CHOOSE c \in C : x \in owned[c]]
           number == [c \in C |-> CHOOSE f : f \in Injection(owned[c], 1 .. n)]
           place  == [x \in S |-> <<owner[x], number[owner[x]][x]>>]
<1>1. \A x \in S : owner[x] \in C /\ x \in owned[owner[x]]
  OBVIOUS
<1>2. ASSUME NEW c \in C PROVE number[c] \in Injection(owned[c], 1 .. n)
  <2>1. \E f : f \in Injection(owned[c], 1 .. n)
    <3>1. Cardinality(owned[c]) \in Nat
      BY FS_CardinalityType
    <3>2. PICK g : g \in Bijection(1 .. Cardinality(owned[c]), owned[c])
      BY FS_CardinalityType DEF ExistsBijection
    <3> DEFINE f == [x \in owned[c] |-> CHOOSE k \in 1 .. Cardinality(owned[c]) : g[k] = x]
    <3>3. f \in Injection(owned[c], 1 .. n)
      <4>1. \A x \in owned[c] : f[x] \in 1 .. Cardinality(owned[c]) /\ g[f[x]] = x
        BY <3>2 DEF Bijection, Surjection
      <4>2. \A x \in owned[c] : f[x] \in 1 .. n
        BY <3>1, <4>1
      <4> HIDE DEF f
      <4>3. f \in [owned[c] -> 1 .. n]
        BY <4>2 DEF f
      <4>4. \A x, y \in owned[c] : f[x] = f[y] => x = y
        BY <4>1
      <4> QED BY <4>3, <4>4 DEF Injection, IsInjective
    <3> QED BY <3>3
  <2> QED BY <2>1
<1> HIDE DEF owner, number
<1>3. place \in Injection(S, places)
  <2>1. ASSUME NEW x \in S PROVE place[x] = <<owner[x], number[owner[x]][x]>> /\ place[x] \in places
    <3>1. number[owner[x]][x] \in 1 .. n
      BY <1>1, <1>2 DEF Injection
    <3> QED BY <1>1, <3>1
  <2>2. ASSUME NEW x \in S, NEW y \in S, place[x] = place[y] PROVE x = y
    <3>1. owner[x] = owner[y] /\ number[owner[x]][x] = number[owner[y]][y]
      BY <2>1, <2>2
    <3>2. number[owner[x]] \in Injection(owned[owner[x]], 1 .. n) /\ x \in owned[owner[x]] /\ y \in owned[owner[x]]
      BY <1>1, <1>2, <3>1
    <3> QED BY <3>1, <3>2 DEF Injection, IsInjective
  <2>3. place \in [S -> places]
    BY <2>1
  <2> HIDE DEF place, places
  <2> QED BY <2>2, <2>3 DEF Injection, IsInjective
<1>4. IsFiniteSet(places) /\ Cardinality(places) = Cardinality(C) * n
  <2>1. IsFiniteSet(1 .. n) /\ Cardinality(1 .. n) = n
    BY FS_Interval
  <2> QED BY <2>1, FS_Product
<1> HIDE DEF places, place
<1>5. Cardinality(S) <= Cardinality(C) * n
  BY <1>3, <1>4, FS_Injection
<1>6. Cardinality(C) \in Nat
  BY FS_CardinalityType
<1> QED BY <1>5, <1>6

LEMMA LimitHolds ==
  ASSUME CollectInv
  PROVE  Cardinality(proxies) <= MaxProxyCount * Cardinality(Collecting!Collectors)
<1>1. PICK owned : Answers(owned)
  BY DEF CollectInv
<1>2. IsFiniteSet(Collecting!Collectors)
  BY FS_Interval, CollectAssumptions DEF Collecting!Collectors
<1> QED
  BY <1>1, <1>2, Shares, CollectAssumptions DEF Answers

LEMMA NextUnused ==
  ASSUME Collecting!Unused # {}
  PROVE  (CHOOSE i \in Collecting!Unused : \A j \in Collecting!Unused : i <= j) \in Collecting!Unused
<1> DEFINE less == {p \in Nat \X Nat : p[1] < p[2]}
<1>1. Collecting!Unused \subseteq Nat
  BY CollectAssumptions DEF Collecting!Unused, Collecting!Ids
<1>2. PICK m \in Collecting!Unused : \A n \in Collecting!Unused : ~ (<<n, m>> \in less)
  <2>1. IsWellFoundedOn(less, Nat)
    BY NatLessThanWellFounded, Zenon DEF OpToRel
  <2> HIDE DEF less
  <2> QED BY <1>1, <2>1, WFMin
<1>3. \A n \in Collecting!Unused : m <= n
  <2> SUFFICES ASSUME NEW n \in Collecting!Unused, ~ (m <= n) PROVE FALSE
    OBVIOUS
  <2>1. m \in Nat /\ n \in Nat /\ n < m
    BY <1>1
  <2>2. <<n, m>> \in less
    BY ONLY <2>1
  <2> QED BY <1>2, <2>2
<1> QED BY <1>3

LEMMA CollectStarts == Collecting!Init => CollectInv
<1> SUFFICES ASSUME Collecting!Init PROVE CollectInv
  OBVIOUS
<1>1. JobIsSound(Collecting!Idle)
  BY DEF JobIsSound, Job, Collecting!Idle, Collecting!Stages
<1>2. jobs \in [Collecting!Collectors -> Job] /\ \A c \in Collecting!Collectors : JobIsSound(jobs[c])
  BY <1>1 DEF Collecting!Init, JobIsSound
<1>3. RowsAreSound
  BY DEF Collecting!Init, RowsAreSound, Collecting!NoRow, Collecting!Row, Collecting!Rows
<1>4. Answers([c \in Collecting!Collectors |-> {}])
  <2> DEFINE none == [c \in Collecting!Collectors |-> {}]
  <2>1. none \in [Collecting!Collectors -> SUBSET Keys] /\ \A c \in Collecting!Collectors : none[c] = {}
    OBVIOUS
  <2> HIDE DEF none
  <2>2. IsFiniteSet({}) /\ Cardinality({}) = 0
    BY FS_EmptySet
  <2>3. proxies = {} /\ \A c \in Collecting!Collectors : jobs[c].stage = "idle"
    BY DEF Collecting!Init, Collecting!Idle
  <2>4. Answers(none)
    <3> SUFFICES ASSUME NEW c \in Collecting!Collectors
                 PROVE  /\ IsFiniteSet(none[c]) /\ Cardinality(none[c]) <= MaxProxyCount
                        /\ jobs[c].stage # "collect"
      BY <2>1, <2>3 DEF Answers
    <3>1. none[c] = {} /\ jobs[c].stage = "idle"
      BY <2>1, <2>3
    <3>2. IsFiniteSet(none[c]) /\ Cardinality(none[c]) = 0
      BY <2>2, <3>1
    <3> QED BY <3>1, <3>2, CollectAssumptions
  <2> QED BY <2>4 DEF none
<1>5. proxies = {} /\ started = 0
  BY DEF Collecting!Init
<1> QED
  BY <1>2, <1>3, <1>4, <1>5, FS_EmptySet, CollectAssumptions DEF CollectInv

(* The rows.                                                                *)
LEMMA RowInserted ==
  ASSUME RowsAreSound, NEW url \in Urls, Collecting!Insertable(url), Collecting!Unused # {},
         subscriptions' = Collecting!Inserted(url)
  PROVE  RowsAreSound' /\ GoneStayGone
<1> DEFINE id  == CHOOSE i \in Collecting!Unused : \A j \in Collecting!Unused : i <= j
           row == [there |-> TRUE, url |-> url, enabled |-> TRUE, status |-> ""]
<1>1. id \in Collecting!Ids /\ subscriptions[id].url = Collecting!NoUrl
  BY NextUnused DEF Collecting!Unused
<1>2. subscriptions' = [subscriptions EXCEPT ![id] = row]
  BY DEF Collecting!Inserted
<1> HIDE DEF id
<1>6. row \in Collecting!Row /\ row.there /\ row.url = url
  BY DEF Collecting!Row
<1> HIDE DEF row
<1>3. /\ subscriptions' \in [Collecting!Ids -> Collecting!Row]
      /\ subscriptions'[id] = row /\ \A i \in Collecting!Ids \ {id} : subscriptions'[i] = subscriptions[i]
  BY <1>1, <1>2, <1>6 DEF RowsAreSound
<1>4. \A i \in Collecting!Ids \ {id} : subscriptions'[i].there => subscriptions'[i].url # url
  BY <1>3 DEF Collecting!Insertable, Collecting!Rows
<1>5. RowsAreSound'
  BY <1>3, <1>4, <1>6 DEF RowsAreSound, Collecting!Rows
<1> QED
  BY <1>1, <1>3, <1>5 DEF GoneStayGone

(* A change that makes no row and brings none back.                         *)
LEMMA RowsChanged ==
  ASSUME RowsAreSound, subscriptions' \in [Collecting!Ids -> Collecting!Row],
         \A i \in Collecting!Ids : /\ subscriptions'[i].there => subscriptions[i].there
                                   /\ subscriptions'[i].url = subscriptions[i].url
  PROVE  RowsAreSound' /\ GoneStayGone
BY DEF RowsAreSound, GoneStayGone, Collecting!Rows

LEMMA RowRenamed ==
  ASSUME RowsAreSound, NEW i \in Collecting!Rows, NEW url \in Urls, Collecting!Insertable(url),
         subscriptions' = [subscriptions EXCEPT ![i].url = url]
  PROVE  RowsAreSound' /\ GoneStayGone
<1>1. i \in Collecting!Ids /\ subscriptions[i].there
  BY DEF Collecting!Rows
<1>2. /\ subscriptions' \in [Collecting!Ids -> Collecting!Row]
      /\ subscriptions'[i].url = url /\ subscriptions'[i].there
      /\ \A j \in Collecting!Ids \ {i} : subscriptions'[j] = subscriptions[j]
  BY <1>1 DEF RowsAreSound, Collecting!Row
<1>3. \A j \in Collecting!Ids \ {i} : subscriptions'[j].there => subscriptions'[j].url # url
  BY <1>2 DEF Collecting!Insertable, Collecting!Rows
<1>4. RowsAreSound'
  BY <1>2, <1>3 DEF RowsAreSound, Collecting!Rows
<1> QED BY <1>1, <1>2, <1>4 DEF GoneStayGone

LEMMA EditSteps ==
  ASSUME CollectInv, Collecting!Edit
  PROVE  CollectInv' /\ GoneStayGone
<1> USE DEF CollectInv
<1>1. ASSUME RowsAreSound', GoneStayGone, UNCHANGED <<proxies, jobs, started>>
      PROVE  CollectInv' /\ GoneStayGone
  BY <1>1 DEF Answers
<1>2. ASSUME NEW url \in Urls, Collecting!CreateSubscription(url)
      PROVE  CollectInv' /\ GoneStayGone
  BY <1>1, <1>2, RowInserted DEF Collecting!CreateSubscription
<1>3. ASSUME NEW i \in Collecting!Ids, Collecting!UpdateSubscription(i)
      PROVE  CollectInv' /\ GoneStayGone
  <2>1. i \in Collecting!Rows /\ UNCHANGED <<proxies, jobs, started>>
    BY <1>3 DEF Collecting!UpdateSubscription
  <2>2. CASE subscriptions' = [subscriptions EXCEPT ![i].enabled = ~@]
    <3>1. /\ subscriptions' \in [Collecting!Ids -> Collecting!Row]
          /\ \A j \in Collecting!Ids : /\ subscriptions'[j].there = subscriptions[j].there
                                        /\ subscriptions'[j].url = subscriptions[j].url
      BY <2>2 DEF RowsAreSound, Collecting!Row
    <3> QED BY <1>1, <2>1, <3>1, RowsChanged
  <2>3. CASE \E url \in Urls : Collecting!Insertable(url) /\ subscriptions' = [subscriptions EXCEPT ![i].url = url]
    BY <1>1, <2>1, <2>3, RowRenamed
  <2> QED BY <1>3, <2>2, <2>3 DEF Collecting!UpdateSubscription
<1>4. ASSUME NEW set, subscriptions' = Collecting!Gone(set), UNCHANGED <<proxies, jobs, started>>
      PROVE  CollectInv' /\ GoneStayGone
  <2>1. ASSUME NEW i \in Collecting!Ids
        PROVE  /\ subscriptions'[i] \in Collecting!Row /\ subscriptions'[i].url = subscriptions[i].url
               /\ subscriptions'[i].there => subscriptions[i].there
    <3>1. subscriptions[i] \in Collecting!Row
      BY DEF RowsAreSound
    <3> QED BY <1>4, <3>1 DEF Collecting!Gone, Collecting!Row
  <2>2. subscriptions' \in [Collecting!Ids -> Collecting!Row]
    BY <1>4, <2>1 DEF Collecting!Gone
  <2> QED BY <1>1, <1>4, <2>1, <2>2, RowsChanged
<1>5. ASSUME NEW i \in Collecting!Ids, Collecting!DeleteSubscription(i)
      PROVE  CollectInv' /\ GoneStayGone
  BY <1>4, <1>5 DEF Collecting!DeleteSubscription
<1>6. ASSUME NEW all \in BOOLEAN, Collecting!DeleteUnavailableSubscriptions(all)
      PROVE  CollectInv' /\ GoneStayGone
  BY <1>4, <1>6 DEF Collecting!DeleteUnavailableSubscriptions
<1>7. CASE Collecting!DeleteProxies
  <2>1. proxies' \subseteq proxies /\ UNCHANGED <<subscriptions, jobs, started>>
    BY <1>7 DEF Collecting!DeleteProxies
  <2>2. IsFiniteSet(proxies')
    BY <2>1, FS_Subset
  <2>3. RowsAreSound' /\ GoneStayGone
    BY <2>1 DEF RowsAreSound, GoneStayGone, Collecting!Rows
  <2> QED BY <2>1, <2>2, <2>3 DEF Answers
<1> QED
  BY <1>2, <1>3, <1>5, <1>6, <1>7 DEF Collecting!Edit

(* The jobs.                                                                *)
LEMMA JobMoves ==
  ASSUME CollectInv, NEW c \in Collecting!Collectors, NEW job, JobIsSound(job), job.stage # "collect",
         Collecting!Becomes(c, job), proxies' = proxies, started' \in 0 .. MaxStarted, RowsAreSound'
  PROVE  CollectInv'
<1>1. /\ jobs' \in [Collecting!Collectors -> Job] /\ jobs'[c] = job
      /\ \A d \in Collecting!Collectors \ {c} : jobs'[d] = jobs[d]
  BY DEF CollectInv, JobIsSound, Collecting!Becomes
<1>2. PICK owned : Answers(owned)
  BY DEF CollectInv
<1>3. Answers(owned)'
  BY <1>1, <1>2 DEF Answers
<1>4. \A d \in Collecting!Collectors : JobIsSound(jobs'[d])
  BY <1>1 DEF CollectInv
<1> QED
  BY <1>1, <1>3, <1>4 DEF CollectInv

LEMMA JobAtRest == JobIsSound(Collecting!Idle) /\ Collecting!Idle.stage = "idle"
BY DEF JobIsSound, Job, Collecting!Idle, Collecting!Stages

LEMMA NewJob ==
  ASSUME NEW stage \in Collecting!Stages, NEW todo \in Seq(ToCollect)
  PROVE  /\ [Collecting!Idle EXCEPT !.stage = stage, !.todo = todo] \in Job
         /\ [Collecting!Idle EXCEPT !.stage = stage, !.todo = todo].todo = todo
         /\ [Collecting!Idle EXCEPT !.stage = stage, !.todo = todo].stage = stage
<1>1. Collecting!Idle \in Job
  BY JobAtRest DEF JobIsSound
<1> QED BY <1>1 DEF Job

(* Another stage of the same subscription.                                  *)
LEMMA JobStaged ==
  ASSUME NEW old, JobIsSound(old), old.todo # <<>>, NEW job \in Job, job.todo = old.todo,
         job.stage \in {"ref", "create", "retry"} => old.stage \in {"next", "ref", "create", "retry"},
         job.stage # "next"
  PROVE  JobIsSound(job)
BY DEF JobIsSound

LEMMA JobRests ==
  ASSUME NEW c \in Collecting!Collectors, JobIsSound(jobs[c]), jobs[c].todo # <<>>
  PROVE  JobIsSound(Collecting!Rest(c)) /\ Collecting!Rest(c).stage = "next"
<1> DEFINE todo == jobs[c].todo
<1>1. jobs[c] \in Job /\ todo \in Seq(ToCollect)
  BY DEF JobIsSound, Job
<1>2. /\ Tail(todo) \in Seq(ToCollect) /\ Len(Tail(todo)) = Len(todo) - 1
      /\ \A n \in 1 .. Len(Tail(todo)) : Tail(todo)[n] = todo[n + 1] /\ n + 1 \in 1 .. Len(todo)
  BY <1>1
<1>3. /\ Collecting!Rest(c) \in Job /\ Collecting!Rest(c).todo = Tail(todo) /\ Collecting!Rest(c).stage = "next"
  BY <1>1, <1>2 DEF Collecting!Rest, Job, Collecting!Stages
<1>4. \A n \in 1 .. Len(Tail(todo)) : Tail(todo)[n].url \in Urls
  <2> SUFFICES ASSUME NEW n \in 1 .. Len(Tail(todo)) PROVE Tail(todo)[n].url \in Urls
    OBVIOUS
  <2>1. n + 1 > 1 /\ n + 1 \in 1 .. Len(todo) /\ Tail(todo)[n] = todo[n + 1]
    BY <1>2
  <2> QED BY <2>1 DEF JobIsSound
<1> QED BY <1>3, <1>4 DEF JobIsSound

LEMMA StartSteps ==
  ASSUME CollectInv, NEW c \in Collecting!Collectors,
         \/ Collecting!Refresh(c) \/ \E i \in Collecting!Ids : Collecting!RefreshOne(c, i)
         \/ \E text \in Texts : \E refs \in {<<>>} \cup {<<url>> : url \in Urls} : Collecting!Import(c, text, refs)
  PROVE  CollectInv' /\ subscriptions' = subscriptions
<1> USE DEF CollectInv
<1>1. proxies' = proxies /\ subscriptions' = subscriptions /\ started' \in 0 .. MaxStarted
  <2>1. Collecting!Start(c)
    BY DEF Collecting!Refresh, Collecting!RefreshOne, Collecting!Import
  <2>2. started < MaxStarted /\ started' = started + 1 /\ UNCHANGED <<proxies, subscriptions>>
    BY <2>1 DEF Collecting!Start
  <2> QED BY <2>2, CollectAssumptions
<1>2. RowsAreSound'
  BY <1>1 DEF RowsAreSound, Collecting!Rows
<1>3. ASSUME NEW job, JobIsSound(job), job.stage # "collect", Collecting!Becomes(c, job)
      PROVE  CollectInv'
  BY <1>1, <1>2, <1>3, JobMoves
<1>4. \A i \in Collecting!Rows : i \in Collecting!Ids /\ subscriptions[i].url \in Urls
  BY DEF RowsAreSound, Collecting!Rows
<1>5. CASE Collecting!Refresh(c)
  <2>1. PICK order \in Collecting!SetToAllKPermutations(Collecting!Enabled) :
          Collecting!Becomes(c, [Collecting!Idle EXCEPT !.stage = "next",
            !.todo = [n \in DOMAIN order |-> [id |-> order[n], url |-> subscriptions[order[n]].url]]])
    BY <1>5 DEF Collecting!Refresh
  <2>2. PICK len \in Nat : order \in [1 .. len -> Collecting!Enabled]
    <3>1. PICK s \in SUBSET Collecting!Enabled : order \in Collecting!SetToSeqs(s)
      BY DEF Collecting!SetToAllKPermutations
    <3>2. order \in [1 .. Collecting!Cardinality(s) -> s]
      BY <3>1 DEF Collecting!SetToSeqs
    <3>3. IsFiniteSet(s)
      <4>1. s \subseteq 1 .. MaxSubs
        BY DEF Collecting!Enabled, Collecting!Rows, Collecting!Ids
      <4>2. IsFiniteSet(1 .. MaxSubs)
        BY FS_Interval, CollectAssumptions
      <4> QED BY <4>1, <4>2, FS_Subset
    <3>4. Collecting!Cardinality(s) \in Nat
      BY <3>3, CollectCardinality, FS_CardinalityType
    <3> QED BY <3>2, <3>4
  <2> DEFINE todo == [n \in DOMAIN order |-> [id |-> order[n], url |-> subscriptions[order[n]].url]]
             job  == [Collecting!Idle EXCEPT !.stage = "next", !.todo = todo]
  <2>3. \A n \in 1 .. len : order[n] \in Collecting!Ids /\ subscriptions[order[n]].url \in Urls
    BY <1>4, <2>2 DEF Collecting!Enabled
  <2>4. /\ todo \in Seq(ToCollect) /\ Len(todo) = len
        /\ \A n \in 1 .. len : todo[n].url \in Urls
    <3>1. DOMAIN order = 1 .. len
      BY <2>2
    <3>2. \A n \in 1 .. len : [id |-> order[n], url |-> subscriptions[order[n]].url] \in ToCollect
      BY <2>3 DEF ToCollect
    <3>3. todo \in [1 .. len -> ToCollect]
      BY <3>1, <3>2
    <3>4. \A n \in 1 .. len : todo[n].url \in Urls
      BY <2>3, <3>1
    <3> HIDE DEF todo
    <3> QED BY <3>3, <3>4
  <2> HIDE DEF todo
  <2>5. job \in Job /\ job.todo = todo /\ job.stage = "next"
    <3>1. "next" \in Collecting!Stages
      BY DEF Collecting!Stages
    <3> QED BY <2>4, <3>1, NewJob
  <2>6. JobIsSound(job)
    BY <2>4, <2>5 DEF JobIsSound
  <2>7. Collecting!Becomes(c, job)
    BY <2>1 DEF todo
  <2> HIDE DEF job
  <2> QED BY <1>1, <1>3, <2>5, <2>6, <2>7
<1>6. ASSUME NEW i \in Collecting!Ids, Collecting!RefreshOne(c, i)
      PROVE  CollectInv'
  <2> DEFINE todo == <<[id |-> i, url |-> subscriptions[i].url]>>
             job  == [Collecting!Idle EXCEPT !.stage = "fetch", !.todo = todo]
  <2>1. i \in Collecting!Rows /\ Collecting!Becomes(c, job)
    BY <1>6 DEF Collecting!RefreshOne
  <2>2. todo \in Seq(ToCollect) /\ Len(todo) = 1 /\ todo[1].url \in Urls
    BY <1>4, <2>1 DEF ToCollect
  <2>3. todo # <<>>
    OBVIOUS
  <2> HIDE DEF todo
  <2>4. job \in Job /\ job.todo = todo /\ job.stage = "fetch"
    <3>1. "fetch" \in Collecting!Stages
      BY DEF Collecting!Stages
    <3> QED BY <2>2, <3>1, NewJob
  <2> HIDE DEF job
  <2>5. JobIsSound(job)
    <3>1. \A n \in 1 .. Len(todo) : n = 1
      BY ONLY <2>2
    <3>2. \A n \in 1 .. Len(todo) : todo[n].url \in Urls
      BY ONLY <2>2, <3>1
    <3> QED BY ONLY <2>3, <2>4, <3>2 DEF JobIsSound
  <2> QED BY <1>3, <2>1, <2>4, <2>5
<1>7. ASSUME NEW text \in Texts, NEW refs \in {<<>>} \cup {<<url>> : url \in Urls}, Collecting!Import(c, text, refs)
      PROVE  CollectInv'
  <2> DEFINE first == <<[id |-> 0, url |-> Collecting!NoUrl]>>
             more  == [n \in DOMAIN refs |-> [id |-> 0, url |-> refs[n]]]
             todo  == first \o more
             job   == [Collecting!Idle EXCEPT !.stage = "count", !.left = text, !.todo = todo]
  <2>1. Collecting!Becomes(c, job)
    BY <1>7 DEF Collecting!Import
  <2>2. refs \in Seq(Urls)
    <3>1. CASE refs = <<>>
      BY <3>1
    <3>2. ASSUME NEW url \in Urls, refs = <<url>> PROVE refs \in Seq(Urls)
      BY <3>2
    <3> QED BY <3>1, <3>2
  <2>3. first \in Seq(ToCollect) /\ Len(first) = 1
    BY DEF ToCollect
  <2>4. /\ more \in Seq(ToCollect)
        /\ \A n \in 1 .. Len(more) : more[n].url \in Urls
    <3>1. DOMAIN refs = 1 .. Len(refs) /\ Len(refs) \in Nat /\ \A n \in 1 .. Len(refs) : refs[n] \in Urls
      BY <2>2
    <3>2. \A n \in 1 .. Len(refs) : [id |-> 0, url |-> refs[n]] \in ToCollect
      BY <3>1 DEF ToCollect
    <3>3. more \in [1 .. Len(refs) -> ToCollect]
      BY <3>1, <3>2
    <3>4. \A n \in 1 .. Len(refs) : more[n].url \in Urls
      BY <3>1
    <3> HIDE DEF more
    <3> QED BY <3>1, <3>3, <3>4
  <2> HIDE DEF first, more
  <2>5. /\ todo \in Seq(ToCollect) /\ Len(todo) = 1 + Len(more)
        /\ \A n \in 1 .. Len(todo) : n > 1 => todo[n] = more[n - 1] /\ n - 1 \in 1 .. Len(more)
    <3>1. /\ todo \in Seq(ToCollect) /\ Len(todo) = Len(first) + Len(more)
          /\ \A n \in 1 .. Len(first) + Len(more) :
               todo[n] = IF n <= Len(first) THEN first[n] ELSE more[n - Len(first)]
      BY <2>3, <2>4, ConcatProperties
    <3> HIDE DEF todo
    <3>2. Len(more) \in Nat
      BY <2>4
    <3> QED BY <2>3, <3>1, <3>2
  <2> HIDE DEF todo
  <2>6. job \in Job /\ job.todo = todo /\ job.stage = "count"
    <3>1. "count" \in Collecting!Stages /\ text \in Seq(Keys)
      BY CollectAssumptions DEF Collecting!Stages
    <3>2. Collecting!Idle \in Job
      BY JobAtRest DEF JobIsSound
    <3> QED BY <2>5, <3>1, <3>2 DEF Job
  <2>7. JobIsSound(job)
    BY <2>4, <2>5, <2>6 DEF JobIsSound
  <2> HIDE DEF job
  <2> QED BY <1>3, <2>1, <2>6, <2>7
<1> QED BY <1>1, <1>5, <1>6, <1>7

(* What is at hand after the first stage.                                   *)
LEMMA AtWork ==
  ASSUME CollectInv, NEW c \in Collecting!Collectors
  PROVE  /\ JobIsSound(jobs[c]) /\ jobs[c] \in Job
         /\ jobs[c].stage \notin {"idle", "next"} => jobs[c].todo # <<>>
         /\ jobs[c].todo # <<>> =>
              /\ Collecting!Item(c) = jobs[c].todo[1] /\ Collecting!Item(c) \in ToCollect
              /\ jobs[c].stage \in {"next", "ref", "create", "retry"} => Collecting!Item(c).url \in Urls
<1>1. JobIsSound(jobs[c]) /\ jobs[c] \in Job
  BY DEF CollectInv
<1>2. jobs[c].todo \in Seq(ToCollect)
  BY <1>1 DEF Job
<1>3. ASSUME jobs[c].todo # <<>>
      PROVE  Collecting!Item(c) = jobs[c].todo[1] /\ Collecting!Item(c) \in ToCollect /\ 1 \in 1 .. Len(jobs[c].todo)
  BY <1>2, <1>3, HeadTailProperties, EmptySeq DEF Collecting!Item
<1> QED BY <1>1, <1>3 DEF JobIsSound

(* The subscription that is worked on gets its id.                          *)
LEMMA ItemFound ==
  ASSUME NEW old, JobIsSound(old), old.todo # <<>>, NEW i \in Collecting!Ids
  PROVE  /\ JobIsSound([old EXCEPT !.stage = "fetch", !.todo[1].id = i])
         /\ [old EXCEPT !.stage = "fetch", !.todo[1].id = i].stage = "fetch"
<1> DEFINE todo == [old.todo EXCEPT ![1].id = i]
           job  == [old EXCEPT !.stage = "fetch", !.todo[1].id = i]
<1>1. old \in Job /\ old.todo \in Seq(ToCollect)
  BY DEF JobIsSound, Job
<1>2. Len(old.todo) \in Nat /\ 1 \in 1 .. Len(old.todo) /\ old.todo \in [1 .. Len(old.todo) -> ToCollect]
  BY <1>1, EmptySeq
<1>3. old.todo[1] \in ToCollect
  BY <1>2
<1>4. [old.todo[1] EXCEPT !.id = i] \in ToCollect /\ [old.todo[1] EXCEPT !.id = i].url = old.todo[1].url
  BY <1>3 DEF ToCollect
<1>5. /\ todo \in [1 .. Len(old.todo) -> ToCollect]
      /\ \A n \in 1 .. Len(old.todo) : todo[n].url = old.todo[n].url
  BY <1>2, <1>4
<1> HIDE DEF todo
<1>6. todo \in Seq(ToCollect) /\ Len(todo) = Len(old.todo)
  BY <1>2, <1>5
<1>7. job \in Job /\ job.todo = todo /\ job.stage = "fetch"
  BY <1>1, <1>6 DEF Job, todo, Collecting!Stages
<1> HIDE DEF job
<1>8. todo # <<>>
  BY <1>2, <1>6, EmptySeq
<1>9. JobIsSound(job)
  BY <1>5, <1>6, <1>7, <1>8 DEF JobIsSound
<1> QED BY <1>7, <1>9 DEF job

LEMMA MarkedRows ==
  ASSUME RowsAreSound, NEW item \in ToCollect, NEW status \in {"success", "failed"},
         subscriptions' = Collecting!Marked(item, status)
  PROVE  RowsAreSound' /\ GoneStayGone
<1>1. CASE subscriptions' = subscriptions
  BY <1>1 DEF RowsAreSound, GoneStayGone, Collecting!Rows
<1>2. CASE subscriptions' = [subscriptions EXCEPT ![item.id].status = status]
  <2>1. ASSUME NEW i \in Collecting!Ids
        PROVE  /\ subscriptions'[i] \in Collecting!Row /\ subscriptions'[i].url = subscriptions[i].url
               /\ subscriptions'[i].there = subscriptions[i].there
    <3>1. subscriptions \in [Collecting!Ids -> Collecting!Row] /\ subscriptions[i] \in Collecting!Row
      BY DEF RowsAreSound
    <3>2. CASE i # item.id
      BY <1>2, <3>1, <3>2
    <3>3. CASE i = item.id
      <4>1. subscriptions'[i] = [subscriptions[i] EXCEPT !.status = status]
        BY <1>2, <3>1, <3>3
      <4> QED BY <3>1, <4>1 DEF Collecting!Row
    <3> QED BY <3>2, <3>3
  <2>2. subscriptions' \in [Collecting!Ids -> Collecting!Row]
    <3>1. DOMAIN subscriptions' = Collecting!Ids /\ subscriptions' = [i \in Collecting!Ids |-> subscriptions'[i]]
      BY <1>2 DEF RowsAreSound
    <3> QED BY <2>1, <3>1
  <2> QED BY <2>1, <2>2, RowsChanged
<1> QED BY <1>1, <1>2 DEF Collecting!Marked

LEMMA CountSteps ==
  ASSUME CollectInv, NEW c \in Collecting!Collectors, Collecting!Count(c), started' = started
  PROVE  CollectInv'
<1> DEFINE job == [jobs[c] EXCEPT !.stage = "collect", !.count = Cardinality(proxies),
                     !.found = IF jobs[c].left = <<>> THEN "none" ELSE "nodes"]
<1>1. jobs[c].stage = "count" /\ Collecting!Becomes(c, job) /\ UNCHANGED <<proxies, subscriptions>>
  BY CollectCardinality DEF Collecting!Count, Collecting!At
<1>2. Cardinality(proxies) \in Nat
  BY FS_CardinalityType DEF CollectInv
<1>3. JobIsSound(jobs[c]) /\ jobs[c] \in Job /\ jobs[c].todo # <<>>
  BY <1>1, AtWork
<1>4. /\ job \in Job /\ job.todo = jobs[c].todo /\ job.stage = "collect" /\ job.count = Cardinality(proxies)
  BY <1>2, <1>3 DEF Job, Collecting!Stages
<1> HIDE DEF job
<1>5. JobIsSound(job)
  BY <1>3, <1>4, JobStaged
<1>6. /\ jobs' \in [Collecting!Collectors -> Job] /\ jobs'[c] = job
      /\ \A d \in Collecting!Collectors \ {c} : jobs'[d] = jobs[d]
  BY <1>1, <1>4 DEF CollectInv, Collecting!Becomes
<1>7. PICK owned : Answers(owned)
  BY DEF CollectInv
<1>8. \E new : Answers(new)'
  <2>1. CASE Cardinality(proxies) >= MaxProxyCount
    <3>1. Answers(owned)'
      BY <1>1, <1>2, <1>4, <1>6, <1>7, <2>1, CollectAssumptions DEF Answers
    <3> QED BY <3>1
  <2>2. CASE Cardinality(proxies) < MaxProxyCount
    <3>1. PICK new : /\ new \in [Collecting!Collectors -> SUBSET Keys] /\ new[c] = proxies
                     /\ \A d \in Collecting!Collectors \ {c} : new[d] = owned[d]
      <4>1. LET new == [owned EXCEPT ![c] = proxies]
            IN  /\ new \in [Collecting!Collectors -> SUBSET Keys] /\ new[c] = proxies
                /\ \A d \in Collecting!Collectors \ {c} : new[d] = owned[d]
        BY <1>7 DEF Answers, CollectInv
      <4> QED BY <4>1
    <3>2. \A x \in proxies : x \in new[c]
      BY <3>1
    <3>3. IsFiniteSet(new[c]) /\ Cardinality(new[c]) = Cardinality(proxies)
      BY <3>1 DEF CollectInv
    <3>4. ASSUME NEW d \in Collecting!Collectors
          PROVE  /\ IsFiniteSet(new[d]) /\ Cardinality(new[d]) <= MaxProxyCount
                 /\ jobs'[d].stage = "collect" /\ jobs'[d].count < MaxProxyCount =>
                      Cardinality(new[d]) <= jobs'[d].count
      <4>1. CASE d = c
        BY <1>2, <1>4, <1>6, <2>2, <3>3, <4>1, CollectAssumptions
      <4>2. CASE d # c
        BY <1>6, <1>7, <3>1, <4>2 DEF Answers
      <4> QED BY <4>1, <4>2
    <3>5. proxies' = proxies
      BY <1>1
    <3>6. Answers(new)'
      BY <3>1, <3>2, <3>4, <3>5 DEF Answers
    <3> QED BY <3>6
  <2> QED BY <1>2, <2>1, <2>2, CollectAssumptions
<1>9. \A d \in Collecting!Collectors : JobIsSound(jobs'[d])
  BY <1>5, <1>6 DEF CollectInv
<1>10. RowsAreSound'
  BY <1>1 DEF CollectInv, RowsAreSound, Collecting!Rows
<1> QED BY <1>1, <1>6, <1>8, <1>9, <1>10 DEF CollectInv

LEMMA CollectNodeSteps ==
  ASSUME CollectInv, NEW c \in Collecting!Collectors, Collecting!CollectNode(c), started' = started
  PROVE  CollectInv'
<1> DEFINE read == [jobs[c] EXCEPT !.left = Tail(@)]
           key  == Head(jobs[c].left)
<1>1. jobs[c].stage = "collect" /\ jobs[c].left # <<>> /\ subscriptions' = subscriptions
  BY DEF Collecting!CollectNode, Collecting!At
<1>2. JobIsSound(jobs[c]) /\ jobs[c] \in Job /\ jobs[c].todo # <<>>
  BY <1>1, AtWork
<1>3. Tail(jobs[c].left) \in Seq(Keys) /\ key \in Keys
  BY <1>1, <1>2, HeadTailProperties DEF Job
<1>4. /\ read \in Job /\ read.todo = jobs[c].todo /\ read.stage = "collect" /\ read.count = jobs[c].count
      /\ jobs[c].count \in Nat
  BY <1>1, <1>2, <1>3 DEF Job
<1> HIDE DEF read, key
<1>5. PICK owned : Answers(owned)
  BY DEF CollectInv
<1>6. RowsAreSound'
  BY <1>1 DEF CollectInv, RowsAreSound, Collecting!Rows
<1>7. ASSUME NEW job \in Job, job.todo = jobs[c].todo, job.stage = "collect", Collecting!Becomes(c, job)
      PROVE  /\ jobs' \in [Collecting!Collectors -> Job] /\ jobs'[c] = job
             /\ \A d \in Collecting!Collectors \ {c} : jobs'[d] = jobs[d]
             /\ \A d \in Collecting!Collectors : JobIsSound(jobs'[d])
  <2>1. /\ jobs' \in [Collecting!Collectors -> Job] /\ jobs'[c] = job
        /\ \A d \in Collecting!Collectors \ {c} : jobs'[d] = jobs[d]
    BY <1>7 DEF CollectInv, Collecting!Becomes
  <2>2. JobIsSound(job)
    BY <1>2, <1>7, JobStaged
  <2> QED BY <2>1, <2>2 DEF CollectInv
<1>8. CASE Collecting!Becomes(c, read) /\ proxies' = proxies
  <2>1. Answers(owned)'
    BY <1>1, <1>4, <1>5, <1>7, <1>8 DEF Answers
  <2> QED BY <1>4, <1>6, <1>7, <1>8, <2>1 DEF CollectInv
<1>9. CASE /\ ~(jobs[c].count >= MaxProxyCount) /\ proxies' = proxies \cup {key} /\ key \notin proxies
           /\ Collecting!Becomes(c, [read EXCEPT !.count = @ + 1])
  <2> DEFINE job == [read EXCEPT !.count = read.count + 1]
  <2>1. job \in Job /\ job.todo = jobs[c].todo /\ job.stage = "collect" /\ job.count = jobs[c].count + 1
    <3>1. read.count + 1 \in Nat
      BY <1>4
    <3> QED BY <1>4, <3>1 DEF Job
  <2>2. Collecting!Becomes(c, job)
    <3>1. job = [read EXCEPT !.count = @ + 1]
      OBVIOUS
    <3> QED BY <1>9, <3>1
  <2> HIDE DEF job
  <2>3. /\ jobs' \in [Collecting!Collectors -> Job] /\ jobs'[c] = job
        /\ \A d \in Collecting!Collectors \ {c} : jobs'[d] = jobs[d]
        /\ \A d \in Collecting!Collectors : JobIsSound(jobs'[d])
    BY <1>7, <2>1, <2>2
  <2>4. PICK new : /\ new \in [Collecting!Collectors -> SUBSET Keys] /\ new[c] = owned[c] \cup {key}
                   /\ \A d \in Collecting!Collectors \ {c} : new[d] = owned[d]
    <3>1. LET new == [owned EXCEPT ![c] = owned[c] \cup {key}]
          IN  /\ new \in [Collecting!Collectors -> SUBSET Keys] /\ new[c] = owned[c] \cup {key}
              /\ \A d \in Collecting!Collectors \ {c} : new[d] = owned[d]
      BY <1>3, <1>5 DEF Answers
    <3> QED BY <3>1
  <2>5. IsFiniteSet(owned[c]) /\ Cardinality(owned[c]) <= jobs[c].count /\ Cardinality(owned[c]) \in Nat
    BY <1>1, <1>4, <1>5, <1>9, FS_CardinalityType, CollectAssumptions DEF Answers
  <2>6. /\ IsFiniteSet(new[c]) /\ Cardinality(new[c]) \in Nat /\ Cardinality(new[c]) <= Cardinality(owned[c]) + 1
    <3>1. PICK had : had = owned[c]
      OBVIOUS
    <3>2. IsFiniteSet(had) /\ Cardinality(had) \in Nat /\ new[c] = had \cup {key}
      BY <2>4, <2>5, <3>1
    <3>3. /\ IsFiniteSet(had \cup {key})
          /\ Cardinality(had \cup {key}) = IF key \in had THEN Cardinality(had) ELSE Cardinality(had) + 1
      BY ONLY <3>2, FS_AddElement
    <3> QED BY ONLY <3>1, <3>2, <3>3
  <2>7. Cardinality(new[c]) <= jobs[c].count + 1 /\ jobs[c].count + 1 <= MaxProxyCount
    BY <1>4, <1>9, <2>5, <2>6, CollectAssumptions
  <2>8. Answers(new)'
    <3>1. \A x \in proxies' : \E d \in Collecting!Collectors : x \in new[d]
      BY <1>5, <1>9, <2>4 DEF Answers
    <3>2. ASSUME NEW d \in Collecting!Collectors
          PROVE  /\ IsFiniteSet(new[d]) /\ Cardinality(new[d]) <= MaxProxyCount
                 /\ jobs'[d].stage = "collect" /\ jobs'[d].count < MaxProxyCount =>
                      Cardinality(new[d]) <= jobs'[d].count
      <4>1. CASE d = c
        BY <1>4, <2>1, <2>3, <2>6, <2>7, <4>1, CollectAssumptions
      <4>2. CASE d # c
        BY <1>5, <2>3, <2>4, <4>2 DEF Answers
      <4> QED BY <4>1, <4>2
    <3> QED BY <2>4, <3>1, <3>2 DEF Answers
  <2>9. proxies' \subseteq Keys /\ IsFiniteSet(proxies')
    BY <1>3, <1>9, FS_AddElement DEF CollectInv
  <2> QED BY <1>6, <2>3, <2>8, <2>9 DEF CollectInv
<1>10. CASE proxies' = proxies \cup {key} /\ key \in proxies /\ Collecting!Becomes(c, read)
  <2>1. proxies' = proxies
    BY <1>10
  <2> QED BY <1>8, <1>10, <2>1
<1> QED
  BY <1>8, <1>9, <1>10 DEF Collecting!CollectNode, Collecting!Full, read, key

(* The other steps of a collection.                                         *)
LEMMA JobSteps ==
  ASSUME CollectInv, NEW c \in Collecting!Collectors, started' = started,
         \/ Collecting!Continue(c) \/ Collecting!FindRef(c) \/ Collecting!MissRef(c) \/ Collecting!CreateRef(c)
         \/ Collecting!Fetch(c) \/ Collecting!Collected(c) \/ Collecting!Mark(c)
  PROVE  CollectInv' /\ GoneStayGone
<1> DEFINE old == jobs[c]
<1>1. /\ JobIsSound(old) /\ old \in Job /\ started' \in 0 .. MaxStarted
      /\ old.stage \notin {"idle", "next"} => old.todo # <<>>
  BY AtWork DEF CollectInv
<1>2. subscriptions' = subscriptions => RowsAreSound' /\ GoneStayGone
  BY DEF CollectInv, RowsAreSound, GoneStayGone, Collecting!Rows
<1>3. ASSUME NEW job, JobIsSound(job), job.stage # "collect", Collecting!Becomes(c, job),
             UNCHANGED <<proxies, subscriptions>>
      PROVE  CollectInv' /\ GoneStayGone
  BY <1>1, <1>2, <1>3, JobMoves
<1>4. ASSUME NEW job \in Job, job.todo = old.todo, old.todo # <<>>, job.stage \notin {"next", "collect"},
             job.stage \in {"ref", "create", "retry"} => old.stage \in {"next", "ref", "create", "retry"},
             Collecting!Becomes(c, job), UNCHANGED <<proxies, subscriptions>>
      PROVE  CollectInv' /\ GoneStayGone
  BY <1>1, <1>3, <1>4, JobStaged
<1>5. CASE Collecting!Continue(c)
  <2>1. old.stage = "next" /\ UNCHANGED <<proxies, subscriptions>>
    BY <1>5 DEF Collecting!Continue, Collecting!At
  <2>2. CASE Collecting!Becomes(c, Collecting!Idle)
    BY <1>3, <2>1, <2>2, JobAtRest
  <2>3. ASSUME NEW stage \in {"ref", "fetch"}, old.todo # <<>>,
               Collecting!Becomes(c, [old EXCEPT !.stage = stage])
        PROVE  CollectInv' /\ GoneStayGone
    <3>1. [old EXCEPT !.stage = stage] \in Job /\ [old EXCEPT !.stage = stage].todo = old.todo
          /\ [old EXCEPT !.stage = stage].stage = stage
      BY <1>1 DEF Job, Collecting!Stages
    <3> QED BY <1>4, <2>1, <2>3, <3>1
  <2> QED BY <1>5, <2>2, <2>3 DEF Collecting!Continue
<1>6. CASE Collecting!FindRef(c)
  <2>1. /\ old.stage \in {"ref", "retry"} /\ UNCHANGED <<proxies, subscriptions>>
        /\ \E i \in Collecting!Ids : Collecting!Becomes(c, [old EXCEPT !.stage = "fetch", !.todo[1].id = i])
    BY <1>6 DEF Collecting!FindRef, Collecting!At, Collecting!Rows
  <2> HIDE DEF old
  <2>2. PICK i \in Collecting!Ids : Collecting!Becomes(c, [old EXCEPT !.stage = "fetch", !.todo[1].id = i])
    BY <2>1
  <2>3. /\ JobIsSound([old EXCEPT !.stage = "fetch", !.todo[1].id = i])
        /\ [old EXCEPT !.stage = "fetch", !.todo[1].id = i].stage # "collect"
    BY <1>1, <2>1, ItemFound
  <2> QED BY <1>3, <2>1, <2>2, <2>3
<1>7. CASE Collecting!MissRef(c)
  <2>1. old.stage \in {"ref", "retry"} /\ UNCHANGED <<proxies, subscriptions>>
    BY <1>7 DEF Collecting!MissRef, Collecting!At
  <2>2. CASE Collecting!Becomes(c, Collecting!Idle)
    BY <1>3, <2>1, <2>2, JobAtRest
  <2>3. CASE Collecting!Becomes(c, [old EXCEPT !.stage = "create"])
    <3>1. /\ [old EXCEPT !.stage = "create"] \in Job /\ [old EXCEPT !.stage = "create"].todo = old.todo
          /\ [old EXCEPT !.stage = "create"].stage = "create"
      BY <1>1 DEF Job, Collecting!Stages
    <3> QED BY <1>1, <1>4, <2>1, <2>3, <3>1
  <2> QED BY <1>7, <2>2, <2>3 DEF Collecting!MissRef
<1>8. CASE Collecting!CreateRef(c)
  <2>1. old.stage = "create" /\ proxies' = proxies /\ old.todo # <<>>
    BY <1>1, <1>8 DEF Collecting!CreateRef, Collecting!At
  <2>2. CASE Collecting!Becomes(c, [old EXCEPT !.stage = "retry"]) /\ subscriptions' = subscriptions
    <3>1. /\ [old EXCEPT !.stage = "retry"] \in Job /\ [old EXCEPT !.stage = "retry"].todo = old.todo
          /\ [old EXCEPT !.stage = "retry"].stage = "retry"
      BY <1>1 DEF Job, Collecting!Stages
    <3> QED BY <1>4, <2>1, <2>2, <3>1
  <2>3. ASSUME Collecting!Insertable(Collecting!Item(c).url), Collecting!Unused # {}
        PROVE  CollectInv' /\ GoneStayGone
    <3> DEFINE id  == CHOOSE i \in Collecting!Unused : \A j \in Collecting!Unused : i <= j
               job == [old EXCEPT !.stage = "fetch", !.todo[1].id = id]
    <3>1. /\ subscriptions' = Collecting!Inserted(Collecting!Item(c).url) /\ Collecting!Becomes(c, job)
      BY <1>8, <2>3 DEF Collecting!CreateRef
    <3>2. Collecting!Item(c).url \in Urls
      BY <2>1, AtWork
    <3>3. RowsAreSound' /\ GoneStayGone
      BY <2>3, <3>1, <3>2, RowInserted DEF CollectInv
    <3>4. id \in Collecting!Ids
      BY <2>3, NextUnused DEF Collecting!Unused
    <3> HIDE DEF id, old
    <3>5. JobIsSound(job) /\ job.stage = "fetch"
      BY <1>1, <2>1, <3>4, ItemFound
    <3> HIDE DEF job
    <3> QED BY <1>1, <2>1, <3>1, <3>3, <3>5, JobMoves
  <2> QED BY <1>8, <2>2, <2>3 DEF Collecting!CreateRef
<1>9. CASE Collecting!Fetch(c)
  <2>1. old.stage = "fetch" /\ old.todo # <<>> /\ UNCHANGED <<proxies, subscriptions>>
    BY <1>1, <1>9 DEF Collecting!Fetch, Collecting!At
  <2>2. ASSUME NEW job \in Job, job.todo = old.todo, job.stage \in {"count", "fetch", "mark"}, Collecting!Becomes(c, job)
        PROVE  CollectInv' /\ GoneStayGone
    BY <1>4, <2>1, <2>2
  <2>3. ASSUME NEW through \in BOOLEAN, NEW text \in Texts,
               Collecting!Becomes(c, [old EXCEPT !.stage = "count", !.left = text, !.again = ~through])
        PROVE  CollectInv' /\ GoneStayGone
    <3> DEFINE job == [old EXCEPT !.stage = "count", !.left = text, !.again = ~through]
    <3>1. job \in Job /\ job.todo = old.todo /\ job.stage = "count"
      BY <1>1, CollectAssumptions DEF Job, Collecting!Stages
    <3> QED BY <2>2, <2>3, <3>1
  <2>4. CASE Collecting!Becomes(c, [old EXCEPT !.again = TRUE])
    <3>1. /\ [old EXCEPT !.again = TRUE] \in Job /\ [old EXCEPT !.again = TRUE].todo = old.todo
          /\ [old EXCEPT !.again = TRUE].stage = "fetch"
      BY <1>1, <2>1 DEF Job
    <3> QED BY <2>2, <2>4, <3>1
  <2>5. CASE Collecting!Becomes(c, [old EXCEPT !.stage = "mark", !.found = IF @ = "" THEN "broken" ELSE @])
    <3> DEFINE job == [old EXCEPT !.stage = "mark", !.found = IF @ = "" THEN "broken" ELSE @]
    <3>1. job \in Job /\ job.todo = old.todo /\ job.stage = "mark"
      BY <1>1 DEF Job, Collecting!Stages
    <3> QED BY <2>2, <2>5, <3>1
  <2> QED BY <1>9, <2>3, <2>4, <2>5 DEF Collecting!Fetch
<1>10. CASE Collecting!Collected(c)
  <2>1. old.stage = "collect" /\ old.todo # <<>> /\ UNCHANGED <<proxies, subscriptions>>
    BY <1>1, <1>10 DEF Collecting!Collected, Collecting!At
  <2>2. CASE Collecting!Becomes(c, Collecting!Rest(c))
    BY <1>1, <1>3, <2>1, <2>2, JobRests
  <2>3. CASE Collecting!Becomes(c, [old EXCEPT !.stage = "fetch", !.again = TRUE])
    <3> DEFINE job == [old EXCEPT !.stage = "fetch", !.again = TRUE]
    <3>1. job \in Job /\ job.todo = old.todo /\ job.stage = "fetch"
      BY <1>1 DEF Job, Collecting!Stages
    <3> QED BY <1>4, <2>1, <2>3, <3>1
  <2>4. CASE Collecting!Becomes(c, [old EXCEPT !.stage = "mark"])
    <3> DEFINE job == [old EXCEPT !.stage = "mark"]
    <3>1. job \in Job /\ job.todo = old.todo /\ job.stage = "mark"
      BY <1>1 DEF Job, Collecting!Stages
    <3> QED BY <1>4, <2>1, <2>4, <3>1
  <2> QED BY <1>10, <2>2, <2>3, <2>4 DEF Collecting!Collected
<1>11. CASE Collecting!Mark(c)
  <2>1. /\ old.stage = "mark" /\ old.todo # <<>> /\ proxies' = proxies
        /\ Collecting!Becomes(c, Collecting!Rest(c))
    BY <1>1, <1>11 DEF Collecting!Mark, Collecting!At
  <2>2. PICK status \in {"success", "failed"} : subscriptions' = Collecting!Marked(Collecting!Item(c), status)
    BY <1>11 DEF Collecting!Mark, Collecting!Statuses
  <2>3. RowsAreSound' /\ GoneStayGone
    <3>1. Collecting!Item(c) \in ToCollect
      BY <2>1, AtWork
    <3> QED BY <2>2, <3>1, MarkedRows DEF CollectInv
  <2>4. JobIsSound(Collecting!Rest(c)) /\ Collecting!Rest(c).stage = "next"
    BY <1>1, <2>1, JobRests
  <2> QED BY <1>1, <2>1, <2>3, <2>4, JobMoves
<1> QED
  BY <1>5, <1>6, <1>7, <1>8, <1>9, <1>10, <1>11

LEMMA CollectSteps ==
  ASSUME CollectInv, [Collecting!Next]_collectVars
  PROVE  CollectInv' /\ GoneStayGone
<1>1. ASSUME UNCHANGED collectVars
      PROVE  CollectInv' /\ GoneStayGone
  BY <1>1 DEF collectVars, CollectInv, RowsAreSound, Answers, GoneStayGone, Collecting!Rows
<1>2. CASE Collecting!Edit
  BY <1>2, EditSteps
<1>3. CASE Collecting!Terminating
  BY <1>1, <1>3 DEF Collecting!Terminating, Collecting!vars, collectVars
<1>4. subscriptions' = subscriptions => GoneStayGone
  BY DEF GoneStayGone
<1>5. ASSUME NEW c \in Collecting!Collectors,
             \/ Collecting!Refresh(c) \/ \E i \in Collecting!Ids : Collecting!RefreshOne(c, i)
             \/ \E text \in Texts : \E refs \in {<<>>} \cup {<<url>> : url \in Urls} : Collecting!Import(c, text, refs)
      PROVE  CollectInv' /\ GoneStayGone
  BY <1>4, <1>5, StartSteps
<1>6. ASSUME NEW c \in Collecting!Collectors, Collecting!Step(c), started' = started
      PROVE  CollectInv' /\ GoneStayGone
  <2>1. CASE Collecting!Count(c)
    BY <1>4, <1>6, <2>1, CountSteps DEF Collecting!Count
  <2>2. CASE Collecting!CollectNode(c)
    BY <1>4, <1>6, <2>2, CollectNodeSteps DEF Collecting!CollectNode
  <2> QED BY <1>6, <2>1, <2>2, JobSteps DEF Collecting!Step
<1> QED
  BY <1>1, <1>2, <1>3, <1>5, <1>6 DEF Collecting!Next

LEMMA CollectIsRight == CollectInv => Collecting!TypeOK
<1> SUFFICES ASSUME CollectInv PROVE Collecting!TypeOK
  OBVIOUS
<1>1. ASSUME NEW c \in Collecting!Collectors
      PROVE  /\ jobs[c].stage \in Collecting!Stages /\ Collecting!Range(jobs[c].left) \subseteq Keys
             /\ jobs[c].found \in {"", "nodes", "none", "broken"}
             /\ \A i \in DOMAIN jobs[c].todo :
                  /\ jobs[c].todo[i].id \in Collecting!Ids \cup {0}
                  /\ jobs[c].todo[i].url \in Urls \cup {Collecting!NoUrl}
  <2>1. jobs[c] \in Job
    BY DEF CollectInv
  <2>2. jobs[c].left \in Seq(Keys) /\ jobs[c].todo \in Seq(ToCollect)
    BY <2>1 DEF Job
  <2>3. \A i \in DOMAIN jobs[c].todo : jobs[c].todo[i] \in ToCollect
    BY <2>2
  <2>4. Collecting!Range(jobs[c].left) \subseteq Keys
    BY <2>2 DEF Collecting!Range
  <2> QED BY <2>1, <2>3, <2>4 DEF Job, ToCollect
<1> QED
  BY <1>1 DEF CollectInv, RowsAreSound, Collecting!TypeOK

-----------------------------------------------------------------------------
(* The listeners.                                                           *)

(* An operation names what it works on.                                     *)
ListenerOps ==
  {x \in [op : {"serve", "start", "stop", "stale", "drop", "closing", "bind", "assign"},
          owner : Endpoints \cup {Runtime!None}, object : Runtime!Ids \cup {0}, server : Runtime!Ids \cup {0},
          port : EndpointPorts \cup {0}, active : SUBSET Endpoints] :
     /\ x.op \in {"serve", "drop"} => x.owner \in Endpoints
     /\ x.op = "serve" => x.port \in EndpointPorts
     /\ x.op \in {"start", "stop", "closing", "bind", "assign"} => x.object \in Runtime!Ids
     /\ x.op \in {"closing", "assign"} => x.server \in Runtime!Ids}

RuntimeInv == Runtime!TypeOK /\ tasks \in [Handlers -> Seq(ListenerOps)]

LEMMA RuntimeAssumptions ==
  /\ Runtime!Legacy \notin Endpoints /\ 1 \in Runtime!Ids /\ 0 \notin Runtime!Ids
  /\ \A S \in SUBSET Endpoints : Runtime!Cardinality(S) \in Nat
<1>1. 1 \in Runtime!Ids /\ 0 \notin Runtime!Ids
  BY ServicesAssumption DEF Runtime!Ids
<1>2. ASSUME NEW S \in SUBSET Endpoints PROVE Runtime!Cardinality(S) \in Nat
  <2>1. Runtime!Cardinality(S) = Cardinality(S)
    BY DEF Runtime!Cardinality, Cardinality, Runtime!IsFiniteSet, IsFiniteSet
  <2>2. IsFiniteSet(S)
    BY ServicesAssumption, FS_Subset
  <2> QED BY <2>1, <2>2, FS_CardinalityType
<1> QED BY <1>1, <1>2, ServicesAssumption

LEMMA Operations ==
  /\ \A e \in Endpoints, p \in EndpointPorts : Runtime!Serve(e, p) \in ListenerOps
  /\ \A k \in Runtime!Ids : {Runtime!StartOp(k), Runtime!StopOp(k), Runtime!BindOp(k)} \subseteq ListenerOps
  /\ \A S \in SUBSET Endpoints : Runtime!StaleOp(S) \in ListenerOps
  /\ \A e \in Endpoints : Runtime!DropOp(e) \in ListenerOps
  /\ \A k, s \in Runtime!Ids : {Runtime!CloseOp(k, s), Runtime!AssignOp(k, s)} \subseteq ListenerOps
BY DEF ListenerOps, Runtime!Op, Runtime!Serve, Runtime!StartOp, Runtime!StopOp, Runtime!BindOp, Runtime!StaleOp,
       Runtime!DropOp, Runtime!CloseOp, Runtime!AssignOp

LEMMA RuntimeStarts == Runtime!Init => RuntimeInv
<1> SUFFICES ASSUME Runtime!Init PROVE RuntimeInv
  OBVIOUS
<1>1. endpoints \in [Endpoints -> [on : BOOLEAN, port : EndpointPorts]]
  BY DEF Runtime!Init
<1>2. runtimes \in [Runtime!Owners -> Runtime!Ids \cup {0}] /\ runtimes[Runtime!Legacy] # 0
  BY RuntimeAssumptions DEF Runtime!Init, Runtime!Owners
<1>3. /\ objects \in [Runtime!Ids -> [server : Runtime!Ids \cup {0}, port : Runtime!Ports]]
      /\ servers \in [Runtime!Ids -> [port : Runtime!Ports \cup {0}, busy : BOOLEAN]]
  BY DEF Runtime!Init, Runtime!Ports, Runtime!Closed
<1>4. tasks \in [Handlers -> Seq(ListenerOps)]
  <2>1. << >> \in Seq(ListenerOps)
    OBVIOUS
  <2> QED BY <2>1 DEF Runtime!Init
<1> QED
  BY <1>1, <1>2, <1>3, <1>4 DEF RuntimeInv, Runtime!TypeOK, Runtime!Init

LEMMA HandlerGoesOn ==
  ASSUME tasks \in [Handlers -> Seq(ListenerOps)], NEW h \in Handlers, tasks[h] # <<>>, NEW ops \in Seq(ListenerOps),
         Runtime!GoOn(h, ops) \/ Runtime!Wait(h, ops) \/ Runtime!Abort(h)
  PROVE  tasks' \in [Handlers -> Seq(ListenerOps)] /\ running' \in Handlers \cup {Runtime!Nobody}
<1>1. Tail(tasks[h]) \in Seq(ListenerOps)
  BY HeadTailProperties
<1>2. ops \o Tail(tasks[h]) \in Seq(ListenerOps)
  BY <1>1, ConcatProperties
<1>3. << >> \in Seq(ListenerOps)
  OBVIOUS
<1> QED BY <1>2, <1>3 DEF Runtime!GoOn, Runtime!Wait, Runtime!Abort

LEMMA SyncSteps ==
  ASSUME RuntimeInv, NEW h \in Handlers, NEW config, NEW rows \in [Endpoints -> [on : BOOLEAN, port : EndpointPorts]],
         Runtime!Sync(h, config, rows)
  PROVE  /\ tasks' \in [Handlers -> Seq(ListenerOps)] /\ running' \in Handlers \cup {Runtime!Nobody}
         /\ lastError' \in BOOLEAN /\ UNCHANGED <<runtimes, objects, servers>>
<1> DEFINE served == Runtime!Served(rows)
<1>1. PICK order \in Runtime!Orders(served) : tasks' = [tasks EXCEPT ![h] = Runtime!SyncOps(config, rows, order)]
  BY DEF Runtime!Sync
<1>2. served \subseteq Endpoints
  BY DEF Runtime!Served
<1>3. Runtime!Cardinality(served) \in Nat /\ order \in [1 .. Runtime!Cardinality(served) -> served]
  BY <1>1, <1>2, RuntimeAssumptions DEF Runtime!Orders
<1> DEFINE len   == Runtime!Cardinality(served)
           serve == [i \in 1 .. len |-> Runtime!Serve(order[i], rows[order[i]].port)]
           last  == <<Runtime!StaleOp(served), IF config.legacy THEN Runtime!StartOp(1) ELSE Runtime!StopOp(1)>>
<1>4. serve \in Seq(ListenerOps)
  <2>1. ASSUME NEW i \in 1 .. len PROVE Runtime!Serve(order[i], rows[order[i]].port) \in ListenerOps
    BY <1>2, <1>3, Operations
  <2>2. serve \in [1 .. len -> ListenerOps]
    BY <2>1
  <2> HIDE DEF serve
  <2> QED BY <1>3, <2>2
<1>5. last \in Seq(ListenerOps) /\ <<Runtime!StopOp(1), Runtime!StaleOp({})>> \in Seq(ListenerOps)
  <2>1. /\ Runtime!StaleOp(served) \in ListenerOps /\ Runtime!StaleOp({}) \in ListenerOps
        /\ Runtime!StartOp(1) \in ListenerOps /\ Runtime!StopOp(1) \in ListenerOps
    BY <1>2, Operations, RuntimeAssumptions
  <2> QED BY <2>1
<1> HIDE DEF serve, last
<1>6. Runtime!SyncOps(config, rows, order) \in Seq(ListenerOps)
  <2>1. serve \o last \in Seq(ListenerOps)
    BY <1>4, <1>5, ConcatProperties
  <2> QED BY <1>5, <2>1 DEF Runtime!SyncOps, serve, last
<1>7. tasks' \in [Handlers -> Seq(ListenerOps)]
  BY <1>1, <1>6 DEF RuntimeInv
<1> QED
  BY <1>7 DEF Runtime!Sync, RuntimeInv, Runtime!TypeOK

LEMMA RuntimeSteps ==
  ASSUME RuntimeInv, [Runtime!Next]_runtimeVars
  PROVE  RuntimeInv'
<1> USE DEF RuntimeInv
<1>1. CASE UNCHANGED runtimeVars
  BY <1>1 DEF runtimeVars, Runtime!TypeOK
<1>2. ASSUME NEW h \in Handlers, NEW config \in [on : BOOLEAN, legacy : BOOLEAN], Runtime!SetConfig(h, config)
      PROVE  RuntimeInv'
  <2>1. Runtime!Sync(h, config, endpoints) /\ gatewayConfig' = config /\ endpoints' = endpoints
    BY <1>2 DEF Runtime!SetConfig
  <2>2. endpoints \in [Endpoints -> [on : BOOLEAN, port : EndpointPorts]]
    BY DEF Runtime!TypeOK
  <2>3. /\ tasks' \in [Handlers -> Seq(ListenerOps)] /\ running' \in Handlers \cup {Runtime!Nobody}
        /\ lastError' \in BOOLEAN /\ UNCHANGED <<runtimes, objects, servers>>
    BY <2>1, <2>2, SyncSteps
  <2> QED BY <2>1, <2>3 DEF Runtime!TypeOK
<1>3. ASSUME NEW h \in Handlers, NEW e \in Endpoints, NEW row \in [on : BOOLEAN, port : EndpointPorts],
             Runtime!SetEndpoint(h, e, row)
      PROVE  RuntimeInv'
  <2>1. /\ endpoints' \in [Endpoints -> [on : BOOLEAN, port : EndpointPorts]] /\ gatewayConfig' = gatewayConfig
        /\ \/ Runtime!Sync(h, gatewayConfig, endpoints')
           \/ UNCHANGED <<tasks, running, runtimes, objects, servers, lastError>>
    BY <1>3 DEF Runtime!SetEndpoint, Runtime!TypeOK
  <2>2. CASE UNCHANGED <<tasks, running, runtimes, objects, servers, lastError>>
    BY <2>1, <2>2 DEF Runtime!TypeOK
  <2>3. ASSUME NEW config, NEW rows \in [Endpoints -> [on : BOOLEAN, port : EndpointPorts]],
               Runtime!Sync(h, config, rows)
        PROVE  RuntimeInv'
    <3>1. /\ tasks' \in [Handlers -> Seq(ListenerOps)] /\ running' \in Handlers \cup {Runtime!Nobody}
          /\ lastError' \in BOOLEAN /\ UNCHANGED <<runtimes, objects, servers>>
      BY <2>3, SyncSteps
    <3> QED BY <2>1, <3>1 DEF Runtime!TypeOK
  <2> QED BY <2>1, <2>2, <2>3
<1>4. ASSUME NEW h \in Handlers, NEW op, Runtime!Holds(h, op)
      PROVE  tasks[h] # <<>> /\ Head(tasks[h]) \in ListenerOps /\ Head(tasks[h]).op = op
  BY <1>4, HeadTailProperties DEF Runtime!Holds
<1>5. ASSUME NEW h \in Handlers, tasks[h] # <<>>, NEW ops \in Seq(ListenerOps),
             Runtime!GoOn(h, ops) \/ Runtime!Wait(h, ops) \/ Runtime!Abort(h)
      PROVE  tasks' \in [Handlers -> Seq(ListenerOps)] /\ running' \in Handlers \cup {Runtime!Nobody}
  BY <1>5, HandlerGoesOn
<1>6. << >> \in Seq(ListenerOps)
  OBVIOUS
<1>7. ASSUME NEW h \in Handlers, Runtime!ServeEndpoint(h) PROVE RuntimeInv'
  <2> DEFINE e == Head(tasks[h]).owner
             p == Head(tasks[h]).port
  <2>1. Runtime!Holds(h, "serve") /\ UNCHANGED <<endpoints, gatewayConfig, servers, lastError>>
    BY <1>7 DEF Runtime!ServeEndpoint
  <2>2. tasks[h] # <<>> /\ e \in Endpoints /\ p \in EndpointPorts
    BY <1>4, <2>1 DEF ListenerOps
  <2>3. PICK k \in IF runtimes[e] # 0 THEN {runtimes[e]} ELSE Runtime!FreeObjects :
          /\ runtimes' = [runtimes EXCEPT ![e] = k]
          /\ objects' = [objects EXCEPT ![k] = [server |-> IF runtimes[e] = 0 THEN 0 ELSE @.server, port |-> p]]
          /\ Runtime!GoOn(h, <<Runtime!StartOp(k)>>)
    BY <1>7 DEF Runtime!ServeEndpoint
  <2> HIDE DEF e, p
  <2>4. k \in Runtime!Ids
    BY <2>2, <2>3 DEF Runtime!TypeOK, Runtime!FreeObjects, Runtime!Owners
  <2>5. tasks' \in [Handlers -> Seq(ListenerOps)] /\ running' \in Handlers \cup {Runtime!Nobody}
    <3>1. <<Runtime!StartOp(k)>> \in Seq(ListenerOps)
      BY <2>4, Operations
    <3> QED BY <1>5, <2>2, <2>3, <3>1
  <2>6. runtimes' \in [Runtime!Owners -> Runtime!Ids \cup {0}] /\ runtimes'[Runtime!Legacy] # 0
    BY <2>2, <2>3, <2>4, RuntimeAssumptions DEF Runtime!TypeOK, Runtime!Owners
  <2>7. objects' \in [Runtime!Ids -> [server : Runtime!Ids \cup {0}, port : Runtime!Ports]]
    BY <2>2, <2>3, <2>4 DEF Runtime!TypeOK, Runtime!Ports
  <2> QED BY <2>1, <2>5, <2>6, <2>7 DEF Runtime!TypeOK
<1>8. ASSUME NEW k \in Runtime!Ids, objects[k].server # 0, Runtime!CloseServer(k, objects[k].server)
      PROVE  /\ objects' \in [Runtime!Ids -> [server : Runtime!Ids \cup {0}, port : Runtime!Ports]]
             /\ servers' \in [Runtime!Ids -> [port : Runtime!Ports \cup {0}, busy : BOOLEAN]]
  <2>1. objects[k].server \in Runtime!Ids
    BY <1>8 DEF Runtime!TypeOK
  <2> QED BY <1>8, <2>1 DEF Runtime!CloseServer, Runtime!TypeOK
<1>9. ASSUME NEW h \in Handlers, Runtime!StopRuntime(h) PROVE RuntimeInv'
  <2> DEFINE k == Head(tasks[h]).object
             s == objects[k].server
  <2>1. Runtime!Holds(h, "stop") /\ UNCHANGED <<endpoints, gatewayConfig, runtimes, lastError>>
    BY <1>9 DEF Runtime!StopRuntime
  <2>2. tasks[h] # <<>> /\ k \in Runtime!Ids /\ s \in Runtime!Ids \cup {0}
    BY <1>4, <2>1 DEF ListenerOps, Runtime!TypeOK
  <2>3. CASE s = 0
    <3>1. Runtime!GoOn(h, <<>>) /\ UNCHANGED <<objects, servers>>
      BY <1>9, <2>3 DEF Runtime!StopRuntime
    <3> QED BY <1>5, <1>6, <2>1, <2>2, <3>1 DEF Runtime!TypeOK
  <2>4. CASE s # 0
    <3>1. /\ Runtime!CloseServer(k, s)
          /\ Runtime!Wait(h, <<Runtime!CloseOp(k, s)>>) \/ Runtime!GoOn(h, <<>>)
      BY <1>9, <2>4 DEF Runtime!StopRuntime
    <3> HIDE DEF k
    <3>2. <<Runtime!CloseOp(k, s)>> \in Seq(ListenerOps)
      BY <2>2, <2>4, Operations
    <3>3. tasks' \in [Handlers -> Seq(ListenerOps)] /\ running' \in Handlers \cup {Runtime!Nobody}
      BY <1>5, <1>6, <2>2, <3>1, <3>2
    <3> QED BY <1>8, <2>1, <2>2, <2>4, <3>1, <3>3 DEF Runtime!TypeOK
  <2> QED BY <2>3, <2>4
<1>10. ASSUME NEW h \in Handlers, Runtime!StartRuntime(h) PROVE RuntimeInv'
  <2> DEFINE k == Head(tasks[h]).object
             s == objects[k].server
  <2>1. Runtime!Holds(h, "start") /\ UNCHANGED <<endpoints, gatewayConfig, runtimes, lastError>>
    BY <1>10 DEF Runtime!StartRuntime
  <2>2. tasks[h] # <<>> /\ k \in Runtime!Ids /\ s \in Runtime!Ids \cup {0}
    BY <1>4, <2>1 DEF ListenerOps, Runtime!TypeOK
  <2>3. ASSUME UNCHANGED <<objects, servers>>, Runtime!GoOn(h, <<>>) \/ Runtime!Wait(h, <<Runtime!BindOp(k)>>)
        PROVE  RuntimeInv'
    <3>1. <<Runtime!BindOp(k)>> \in Seq(ListenerOps)
      BY <2>2, Operations
    <3> HIDE DEF k
    <3>2. tasks' \in [Handlers -> Seq(ListenerOps)] /\ running' \in Handlers \cup {Runtime!Nobody}
      BY <1>5, <1>6, <2>2, <2>3, <3>1
    <3> QED BY <2>1, <2>3, <3>2 DEF Runtime!TypeOK
  <2>4. ASSUME s # 0, Runtime!CloseServer(k, s),
               Runtime!Wait(h, <<Runtime!CloseOp(k, s), Runtime!BindOp(k)>>) \/ Runtime!Wait(h, <<Runtime!BindOp(k)>>)
        PROVE  RuntimeInv'
    <3> HIDE DEF k
    <3>1. <<Runtime!BindOp(k)>> \in Seq(ListenerOps) /\ <<Runtime!CloseOp(k, s), Runtime!BindOp(k)>> \in Seq(ListenerOps)
      BY <2>2, <2>4, Operations
    <3>2. tasks' \in [Handlers -> Seq(ListenerOps)] /\ running' \in Handlers \cup {Runtime!Nobody}
      BY <1>5, <2>2, <2>4, <3>1
    <3> QED BY <1>8, <2>1, <2>2, <2>4, <3>2 DEF Runtime!TypeOK
  <2> QED BY <1>10, <2>3, <2>4 DEF Runtime!StartRuntime
<1>11. ASSUME NEW h \in Handlers, Runtime!ServerClosed(h) PROVE RuntimeInv'
  <2>1. /\ Runtime!Holds(h, "closing") /\ UNCHANGED <<endpoints, gatewayConfig, runtimes, servers, lastError>>
        /\ objects' = [objects EXCEPT ![Head(tasks[h]).object].server = 0]
        /\ Runtime!Wait(h, <<>>) \/ Runtime!GoOn(h, <<>>)
    BY <1>11 DEF Runtime!ServerClosed
  <2>2. tasks[h] # <<>> /\ Head(tasks[h]).object \in Runtime!Ids
    BY <1>4, <2>1 DEF ListenerOps
  <2>3. objects' \in [Runtime!Ids -> [server : Runtime!Ids \cup {0}, port : Runtime!Ports]]
    BY <2>1, <2>2 DEF Runtime!TypeOK
  <2> QED BY <1>5, <1>6, <2>1, <2>2, <2>3 DEF Runtime!TypeOK
<1>12. ASSUME NEW h \in Handlers, Runtime!Bind(h) PROVE RuntimeInv'
  <2> DEFINE k == Head(tasks[h]).object
             p == objects[k].port
  <2>1. Runtime!Holds(h, "bind") /\ UNCHANGED <<endpoints, gatewayConfig, runtimes>>
    BY <1>12 DEF Runtime!Bind
  <2>2. tasks[h] # <<>> /\ k \in Runtime!Ids /\ p \in Runtime!Ports
    BY <1>4, <2>1 DEF ListenerOps, Runtime!TypeOK
  <2>3. CASE /\ objects' = [objects EXCEPT ![k].server = 0] /\ lastError' = TRUE
             /\ Runtime!GoOn(h, <<>>) /\ UNCHANGED servers
    <3>1. objects' \in [Runtime!Ids -> [server : Runtime!Ids \cup {0}, port : Runtime!Ports]]
      BY <2>2, <2>3 DEF Runtime!TypeOK
    <3> QED BY <1>5, <1>6, <2>1, <2>2, <2>3, <3>1 DEF Runtime!TypeOK
  <2>4. ASSUME NEW s \in Runtime!FreeServers, servers' = [servers EXCEPT ![s] = [port |-> p, busy |-> FALSE]],
               Runtime!Wait(h, <<Runtime!AssignOp(k, s)>>), UNCHANGED <<objects, lastError>>
        PROVE  RuntimeInv'
    <3> HIDE DEF k, p
    <3>1. s \in Runtime!Ids
      BY DEF Runtime!FreeServers
    <3>2. <<Runtime!AssignOp(k, s)>> \in Seq(ListenerOps)
      BY <2>2, <3>1, Operations
    <3>3. servers' \in [Runtime!Ids -> [port : Runtime!Ports \cup {0}, busy : BOOLEAN]]
      BY <2>2, <2>4, <3>1 DEF Runtime!TypeOK
    <3> QED BY <1>5, <2>1, <2>2, <2>4, <3>2, <3>3 DEF Runtime!TypeOK
  <2> QED BY <1>12, <2>3, <2>4 DEF Runtime!Bind
<1>13. ASSUME NEW h \in Handlers, Runtime!Assign(h) PROVE RuntimeInv'
  <2>1. /\ Runtime!Holds(h, "assign") /\ UNCHANGED <<endpoints, gatewayConfig, runtimes, servers, lastError>>
        /\ objects' = [objects EXCEPT ![Head(tasks[h]).object].server = Head(tasks[h]).server]
        /\ Runtime!GoOn(h, <<>>)
    BY <1>13 DEF Runtime!Assign
  <2>2. tasks[h] # <<>> /\ Head(tasks[h]).object \in Runtime!Ids /\ Head(tasks[h]).server \in Runtime!Ids
    BY <1>4, <2>1 DEF ListenerOps
  <2>3. objects' \in [Runtime!Ids -> [server : Runtime!Ids \cup {0}, port : Runtime!Ports]]
    BY <2>1, <2>2 DEF Runtime!TypeOK
  <2> QED BY <1>5, <1>6, <2>1, <2>2, <2>3 DEF Runtime!TypeOK
<1>14. ASSUME NEW h \in Handlers, Runtime!FindStale(h) PROVE RuntimeInv'
  <2> DEFINE stale == {e \in Endpoints : runtimes[e] # 0 /\ e \notin Head(tasks[h]).active}
  <2>1. Runtime!Holds(h, "stale") /\ UNCHANGED <<endpoints, gatewayConfig, runtimes, objects, servers, lastError>>
    BY <1>14 DEF Runtime!FindStale
  <2>2. PICK order \in Runtime!Orders(stale) :
          Runtime!GoOn(h, [i \in 1 .. Runtime!Cardinality(stale) |-> Runtime!DropOp(order[i])])
    BY <1>14 DEF Runtime!FindStale
  <2>3. stale \subseteq Endpoints
    OBVIOUS
  <2> HIDE DEF stale
  <2> DEFINE len  == Runtime!Cardinality(stale)
             drop == [i \in 1 .. len |-> Runtime!DropOp(order[i])]
  <2>4. len \in Nat /\ order \in [1 .. len -> stale]
    BY <2>2, <2>3, RuntimeAssumptions DEF Runtime!Orders
  <2>5. drop \in Seq(ListenerOps)
    <3>1. ASSUME NEW i \in 1 .. len PROVE Runtime!DropOp(order[i]) \in ListenerOps
      BY <2>3, <2>4, Operations
    <3>2. drop \in [1 .. len -> ListenerOps]
      BY <3>1
    <3> HIDE DEF drop
    <3> QED BY <2>4, <3>2
  <2>6. Runtime!GoOn(h, drop)
    BY <2>2
  <2> HIDE DEF drop
  <2>7. tasks[h] # <<>>
    BY <1>4, <2>1
  <2> QED BY <1>5, <2>1, <2>5, <2>6, <2>7 DEF Runtime!TypeOK
<1>15. ASSUME NEW h \in Handlers, Runtime!Drop(h) PROVE RuntimeInv'
  <2> DEFINE e == Head(tasks[h]).owner
  <2>1. Runtime!Holds(h, "drop") /\ UNCHANGED <<endpoints, gatewayConfig, objects, servers, lastError>>
    BY <1>15 DEF Runtime!Drop
  <2>2. tasks[h] # <<>> /\ e \in Endpoints /\ runtimes[e] \in Runtime!Ids \cup {0}
    BY <1>4, <2>1 DEF ListenerOps, Runtime!TypeOK, Runtime!Owners
  <2>3. CASE runtimes[e] = 0
    <3>1. Runtime!Abort(h) /\ UNCHANGED runtimes
      BY <1>15, <2>3 DEF Runtime!Drop
    <3> QED BY <1>5, <1>6, <2>1, <2>2, <3>1 DEF Runtime!TypeOK
  <2>4. CASE runtimes[e] # 0
    <3>1. runtimes' = [runtimes EXCEPT ![e] = 0] /\ Runtime!GoOn(h, <<Runtime!StopOp(runtimes[e])>>)
      BY <1>15, <2>4 DEF Runtime!Drop
    <3> HIDE DEF e
    <3>2. <<Runtime!StopOp(runtimes[e])>> \in Seq(ListenerOps)
      BY <2>2, <2>4, Operations
    <3>3. runtimes' \in [Runtime!Owners -> Runtime!Ids \cup {0}] /\ runtimes'[Runtime!Legacy] # 0
      BY <2>2, <3>1, RuntimeAssumptions DEF Runtime!TypeOK, Runtime!Owners
    <3> QED BY <1>5, <2>1, <2>2, <3>1, <3>2, <3>3 DEF Runtime!TypeOK
  <2> QED BY <2>3, <2>4
<1>16. ASSUME NEW s \in Runtime!Ids, Runtime!ClientConnects(s) \/ Runtime!ClientsLeave(s) PROVE RuntimeInv'
  <2>1. PICK busy \in BOOLEAN : servers' = [servers EXCEPT ![s].busy = busy]
    BY <1>16 DEF Runtime!ClientConnects, Runtime!ClientsLeave
  <2>2. UNCHANGED <<endpoints, gatewayConfig, runtimes, objects, tasks, running, lastError>>
    BY <1>16 DEF Runtime!ClientConnects, Runtime!ClientsLeave
  <2>3. servers' \in [Runtime!Ids -> [port : Runtime!Ports \cup {0}, busy : BOOLEAN]]
    BY <2>1 DEF Runtime!TypeOK
  <2> QED BY <2>2, <2>3 DEF Runtime!TypeOK
<1> QED
  BY <1>1, <1>2, <1>3, <1>7, <1>9, <1>10, <1>11, <1>12, <1>13, <1>14, <1>15, <1>16 DEF Runtime!Next, Runtime!HandlerStep

(* One handler at a time.  What it has begun is at the front of its queue,  *)
(* and says which listener is between two states; behind it waits what is   *)
(* still to be done, so that each row is served, being served or to be      *)
(* served, and each other runtime gone or to be found.                      *)
Wanted == IF gatewayConfig.on THEN Runtime!Served(endpoints) ELSE {}

Waiting(x) ==
  \/ \E e \in Wanted : x = Runtime!Serve(e, endpoints[e].port)
  \/ x = Runtime!StaleOp(Wanted)
  \/ \E e \in Endpoints \ Wanted : x = Runtime!DropOp(e) /\ runtimes[e] # 0
  \/ x \in {Runtime!StartOp(1), Runtime!StopOp(1)}

QueueIsSound(later) ==
  /\ later \in Seq(ListenerOps)
  /\ \A i \in 1 .. Len(later) : Waiting(later[i])
  /\ \A i, j \in 1 .. Len(later) :
       /\ later[i].op = "stale" /\ later[j].op \in {"stale", "drop"} => i = j
       /\ later[i].op = "drop" /\ later[j] = later[i] => i = j

Starting == {"start", "restart", "bind", "assign"}
Kinds    == Starting \cup {"none", "stop", "closing"}
Begun(kind, k, s) ==
  CASE kind = "none"    -> <<>>
    [] kind = "start"   -> <<Runtime!StartOp(k)>>
    [] kind = "stop"    -> <<Runtime!StopOp(k)>>
    [] kind = "closing" -> <<Runtime!CloseOp(k, s)>>
    [] kind = "restart" -> <<Runtime!CloseOp(k, s), Runtime!BindOp(k)>>
    [] kind = "bind"    -> <<Runtime!BindOp(k)>>
    [] kind = "assign"  -> <<Runtime!AssignOp(k, s)>>

Owned(k) == \E o \in Runtime!Owners : runtimes[o] = k

BegunIsSound(kind, k, s) ==
  /\ kind \in Starting => Owned(k) /\ \A e \in Wanted : runtimes[e] = k => objects[k].port = endpoints[e].port
  /\ kind \in {"stop", "closing"} => \A e \in Endpoints : runtimes[e] # k
  /\ kind \in {"closing", "restart"} => objects[k].server = s /\ servers[s].port = 0
  /\ kind \in {"bind", "assign"} => objects[k].server = 0
  /\ kind = "assign" => servers[s].port = objects[k].port /\ \A l \in Runtime!Ids : objects[l].server # s

ServersAreSound(kind, k, s) ==
  /\ \A l, m \in Runtime!Ids : objects[l].server = objects[m].server /\ objects[l].server # 0 => l = m
  /\ \A l \in Runtime!Ids : objects[l].server # 0 => Owned(l) \/ (kind \in {"stop", "closing"} /\ l = k)
  /\ \A t \in Runtime!Ids : servers[t].port # 0 =>
       (\E l \in Runtime!Ids : objects[l].server = t) \/ (kind = "assign" /\ t = s)

RuntimesDiffer ==
  /\ runtimes[Runtime!Legacy] = 1
  /\ \A o, p \in Runtime!Owners : runtimes[o] = runtimes[p] /\ runtimes[o] # 0 => o = p

RowsAreServed(kind, k, later) ==
  /\ lastError \/ \A e \in Wanted :
       \/ Runtime!Listens(e, endpoints[e].port)
       \/ \E i \in 1 .. Len(later) : later[i] = Runtime!Serve(e, endpoints[e].port)
       \/ kind \in Starting /\ runtimes[e] = k
  /\ \A e \in Endpoints \ Wanted :
       runtimes[e] = 0 \/ \E i \in 1 .. Len(later) : later[i] \in {Runtime!StaleOp(Wanted), Runtime!DropOp(e)}

Doing(kind, k, s, later) ==
  /\ kind \in Kinds /\ k \in Runtime!Ids /\ s \in Runtime!Ids
  /\ QueueIsSound(later) /\ BegunIsSound(kind, k, s) /\ ServersAreSound(kind, k, s)
  /\ RowsAreServed(kind, k, later)

ListenInv(h) ==
  /\ RuntimeInv /\ RuntimesDiffer
  /\ \E kind, k, s, later : tasks[h] = Begun(kind, k, s) \o later /\ Doing(kind, k, s, later)

LEMMA Fields ==
  /\ \A e, p : Runtime!Serve(e, p).op = "serve" /\ Runtime!Serve(e, p).owner = e /\ Runtime!Serve(e, p).port = p
  /\ \A k : /\ Runtime!StartOp(k).op = "start" /\ Runtime!StartOp(k).object = k
            /\ Runtime!StopOp(k).op = "stop" /\ Runtime!StopOp(k).object = k
            /\ Runtime!BindOp(k).op = "bind" /\ Runtime!BindOp(k).object = k
  /\ \A S : Runtime!StaleOp(S).op = "stale" /\ Runtime!StaleOp(S).active = S
  /\ \A e : Runtime!DropOp(e).op = "drop" /\ Runtime!DropOp(e).owner = e
  /\ \A k, s : /\ Runtime!CloseOp(k, s).op = "closing" /\ Runtime!CloseOp(k, s).object = k /\ Runtime!CloseOp(k, s).server = s
               /\ Runtime!AssignOp(k, s).op = "assign" /\ Runtime!AssignOp(k, s).object = k /\ Runtime!AssignOp(k, s).server = s
BY DEF Runtime!Op, Runtime!Serve, Runtime!StartOp, Runtime!StopOp, Runtime!BindOp, Runtime!StaleOp, Runtime!DropOp, Runtime!CloseOp, Runtime!AssignOp

LEMMA WantedRows == Wanted \subseteq Endpoints
BY DEF Wanted, Runtime!Served

LEMMA TailOf ==
  ASSUME NEW S, NEW q \in Seq(S), q # <<>>
  PROVE  /\ Head(q) \in S /\ Head(q) = q[1] /\ 1 \in 1 .. Len(q)
         /\ Tail(q) \in Seq(S) /\ Len(Tail(q)) = Len(q) - 1
         /\ \A j \in 1 .. Len(Tail(q)) : Tail(q)[j] = q[j + 1] /\ j + 1 \in 1 .. Len(q)
         /\ \A i \in 1 .. Len(q) : i = 1 \/ \E j \in 1 .. Len(Tail(q)) : i = j + 1
<1>1. Len(q) \in Nat \ {0}
  BY EmptySeq
<1>2. /\ Tail(q) \in Seq(S) /\ Len(Tail(q)) = Len(q) - 1
      /\ \A j \in 1 .. Len(Tail(q)) : Tail(q)[j] = q[j + 1]
  BY HeadTailProperties
<1>3. ASSUME NEW i \in 1 .. Len(q), i # 1 PROVE \E j \in 1 .. Len(Tail(q)) : i = j + 1
  <2>1. i - 1 \in 1 .. Len(Tail(q)) /\ i = (i - 1) + 1
    BY <1>1, <1>2, <1>3
  <2> QED BY <2>1
<1> QED BY <1>1, <1>2, <1>3, HeadTailProperties

LEMMA PushedOne ==
  ASSUME NEW S, NEW x \in S, NEW later \in Seq(S)
  PROVE  <<x>> \o later # <<>> /\ Head(<<x>> \o later) = x /\ Tail(<<x>> \o later) = later
<1> DEFINE q == <<x>> \o later
<1>1. /\ q \in Seq(S) /\ Len(q) = 1 + Len(later) /\ Len(later) \in Nat /\ q[1] = x
      /\ \A i \in 1 .. Len(later) : q[i + 1] = later[i]
  BY ConcatProperties
<1> HIDE DEF q
<1>2. q # <<>>
  BY <1>1, EmptySeq
<1>3. Head(q) = x /\ Tail(q) \in Seq(S) /\ Len(Tail(q)) = Len(later)
      /\ \A j \in 1 .. Len(later) : Tail(q)[j] = later[j]
  BY <1>1, <1>2, TailOf
<1>4. Tail(q) = later
  BY <1>3, SeqEqual
<1> QED BY <1>2, <1>3, <1>4 DEF q

(* What is at the front.                                                    *)
AtFront(h, kind, k, s, later) ==
  /\ kind = "none" => later # <<>> /\ tasks[h] = later /\ Head(later).op \in {"serve", "stale", "drop"}
  /\ kind \notin {"none", "restart"} => Begun(kind, k, s) = <<Head(tasks[h])>> /\ Tail(tasks[h]) = later
  /\ kind = "restart" => Head(tasks[h]) = Runtime!CloseOp(k, s) /\ Tail(tasks[h]) = <<Runtime!BindOp(k)>> \o later
  /\ (Len(tasks[h]) > 1 /\ tasks[h][2].op = "bind") <=> kind = "restart"

LEMMA PushedTwo ==
  ASSUME NEW S, NEW x \in S, NEW y \in S, NEW later \in Seq(S)
  PROVE  /\ <<x, y>> \o later = <<x>> \o (<<y>> \o later)
         /\ Len(<<x, y>> \o later) > 1 /\ (<<x, y>> \o later)[2] = y
<1> DEFINE q == <<x, y>> \o later
           r == <<y>> \o later
           p == <<x>> \o r
<1>1. <<x, y>> \in Seq(S) /\ Len(<<x, y>>) = 2 /\ <<x>> \in Seq(S) /\ Len(<<x>>) = 1
      /\ <<y>> \in Seq(S) /\ Len(<<y>>) = 1 /\ Len(later) \in Nat
  OBVIOUS
<1>2. /\ q \in Seq(S) /\ Len(q) = 2 + Len(later)
      /\ \A i \in 1 .. Len(q) : q[i] = IF i <= 2 THEN <<x, y>>[i] ELSE later[i - 2]
  BY <1>1, ConcatProperties
<1>3. /\ r \in Seq(S) /\ Len(r) = 1 + Len(later)
      /\ \A i \in 1 .. Len(r) : r[i] = IF i <= 1 THEN <<y>>[i] ELSE later[i - 1]
  BY <1>1, ConcatProperties
<1> HIDE DEF q, r
<1>4. /\ p \in Seq(S) /\ Len(p) = 1 + Len(r)
      /\ \A i \in 1 .. Len(p) : p[i] = IF i <= 1 THEN <<x>>[i] ELSE r[i - 1]
  BY <1>1, <1>3, ConcatProperties
<1> HIDE DEF p
<1>5. ASSUME NEW i \in 1 .. Len(q) PROVE q[i] = p[i]
  <2>1. i \in 1 .. Len(p) /\ i \in Nat /\ i >= 1
    BY <1>1, <1>2, <1>3, <1>4
  <2>2. CASE i = 1
    BY <1>2, <1>4, <2>1, <2>2
  <2>3. CASE i = 2
    <3>1. 1 \in 1 .. Len(r)
      BY <1>1, <1>3
    <3> QED BY <1>2, <1>3, <1>4, <2>1, <2>3, <3>1
  <2>4. CASE i > 2
    <3>1. i - 1 \in 1 .. Len(r) /\ ~(i - 1 <= 1) /\ (i - 1) - 1 = i - 2
      BY <1>1, <1>2, <1>3, <2>1, <2>4
    <3>2. ~(i <= 2) /\ ~(i <= 1)
      BY <2>1, <2>4
    <3>3. q[i] = later[i - 2]
      BY <1>2, <3>2
    <3>4. p[i] = r[i - 1]
      BY <1>4, <2>1, <3>2
    <3>5. r[i - 1] = later[(i - 1) - 1]
      BY <1>3, <3>1
    <3> QED BY <3>1, <3>3, <3>4, <3>5
  <2> QED BY <2>1, <2>2, <2>3, <2>4
<1>6. q = p
  BY <1>1, <1>2, <1>3, <1>4, <1>5, SeqEqual
<1>7. Len(q) > 1 /\ q[2] = y
  BY <1>1, <1>2
<1> QED BY <1>6, <1>7 DEF q, p, r

LEMMA WaitingOps ==
  ASSUME NEW x, Waiting(x)
  PROVE  /\ x.op \in {"serve", "stale", "drop", "start", "stop"}
         /\ x.op \in {"start", "stop"} => x \in {Runtime!StartOp(1), Runtime!StopOp(1)}
         /\ x.op = "serve" => \E e \in Wanted : x = Runtime!Serve(e, endpoints[e].port)
         /\ x.op = "stale" => x = Runtime!StaleOp(Wanted)
         /\ x.op = "drop" => \E e \in Endpoints \ Wanted : x = Runtime!DropOp(e) /\ runtimes[e] # 0
BY Fields DEF Waiting

LEMMA QueueTail ==
  ASSUME NEW later, QueueIsSound(later), later # <<>>
  PROVE  QueueIsSound(Tail(later)) /\ Waiting(Head(later)) /\ Head(later) \in ListenerOps
<1>1. later \in Seq(ListenerOps)
  BY DEF QueueIsSound
<1>2. /\ Head(later) \in ListenerOps /\ Head(later) = later[1] /\ 1 \in 1 .. Len(later)
      /\ Tail(later) \in Seq(ListenerOps)
      /\ \A j \in 1 .. Len(Tail(later)) : Tail(later)[j] = later[j + 1] /\ j + 1 \in 1 .. Len(later) /\ j \in Nat
  BY <1>1, TailOf
<1>3. ASSUME NEW i \in 1 .. Len(Tail(later)), NEW j \in 1 .. Len(Tail(later)), i + 1 = j + 1 PROVE i = j
  BY <1>3
<1> QED BY <1>2, <1>3 DEF QueueIsSound

(* What waits behind the first operation still waits when that is begun.    *)
LEMMA StillWaiting ==
  ASSUME NEW later \in Seq(ListenerOps), later # <<>>, NEW i \in 1 .. Len(later), later[i] # Head(later)
  PROVE  \E j \in 1 .. Len(Tail(later)) : Tail(later)[j] = later[i]
<1>1. i # 1
  BY TailOf
<1>2. PICK j \in 1 .. Len(Tail(later)) : i = j + 1
  BY <1>1, TailOf
<1>3. Tail(later)[j] = later[i]
  BY <1>2, TailOf
<1> QED BY <1>3

LEMMA Front ==
  ASSUME NEW h \in Handlers, ListenInv(h), tasks[h] # <<>>
  PROVE  \E kind, k, s, later : Doing(kind, k, s, later) /\ AtFront(h, kind, k, s, later)
<1>1. PICK kind, k, s, later : tasks[h] = Begun(kind, k, s) \o later /\ Doing(kind, k, s, later)
  BY DEF ListenInv
<1>2. later \in Seq(ListenerOps) /\ QueueIsSound(later) /\ k \in Runtime!Ids /\ s \in Runtime!Ids /\ kind \in Kinds
  BY <1>1 DEF Doing, QueueIsSound
<1>3. CASE kind = "none"
  <2>1. tasks[h] = later /\ later # <<>>
    <3>1. Begun(kind, k, s) = <<>>
      BY <1>3 DEF Begun
    <3> QED BY <1>1, <1>2, <3>1, ConcatEmptySeq
  <2>2. Waiting(Head(later)) /\ QueueIsSound(Tail(later))
    BY <1>2, <2>1, QueueTail
  <2>3. ~ (Len(later) > 1 /\ later[2].op = "bind")
    <3> SUFFICES ASSUME Len(later) > 1 PROVE later[2].op # "bind"
      OBVIOUS
    <3>1. 2 \in 1 .. Len(later)
      BY <1>2
    <3>2. Waiting(later[2])
      BY <1>2, <3>1 DEF QueueIsSound
    <3> QED BY <3>2, WaitingOps
  <2>4. CASE Head(later).op \in {"serve", "stale", "drop"}
    <3>1. AtFront(h, kind, k, s, later)
      BY <1>3, <2>1, <2>3, <2>4 DEF AtFront
    <3> QED BY <1>1, <3>1
  <2>5. CASE Head(later).op \in {"start", "stop"}
    <3> DEFINE begins == Head(later).op
               rest   == Tail(later)
    <3>1. Head(later) \in {Runtime!StartOp(1), Runtime!StopOp(1)}
      BY <2>2, <2>5, WaitingOps
    <3>2. Begun(begins, 1, s) = <<Head(later)>> /\ begins \in Kinds
      BY <3>1, Fields DEF Begun, Kinds, Starting
    <3>3. 1 \in Runtime!Ids /\ runtimes[Runtime!Legacy] = 1 /\ \A e \in Endpoints : runtimes[e] # 1
      BY RuntimeAssumptions DEF ListenInv, RuntimesDiffer, Runtime!Owners
    <3>4. Owned(1)
      BY <3>3 DEF Owned, Runtime!Owners
    <3>5. BegunIsSound(begins, 1, s)
      BY <2>5, <3>3, <3>4, WantedRows DEF BegunIsSound, Starting
    <3>6. ServersAreSound(begins, 1, s)
      BY <1>1, <1>3, <2>5 DEF Doing, ServersAreSound
    <3>7. RowsAreServed(begins, 1, rest)
      <4>1. ASSUME NEW i \in 1 .. Len(later), later[i].op \in {"serve", "stale", "drop"}
            PROVE  \E j \in 1 .. Len(rest) : rest[j] = later[i]
        BY <1>2, <2>1, <2>5, <4>1, StillWaiting
      <4>2. ASSUME NEW e \in Wanted, NEW i \in 1 .. Len(later), later[i] = Runtime!Serve(e, endpoints[e].port)
            PROVE  \E j \in 1 .. Len(rest) : rest[j] = Runtime!Serve(e, endpoints[e].port)
        BY <4>1, <4>2, Fields
      <4>3. ASSUME NEW e \in Endpoints \ Wanted, NEW i \in 1 .. Len(later),
                   later[i] \in {Runtime!StaleOp(Wanted), Runtime!DropOp(e)}
            PROVE  \E j \in 1 .. Len(rest) : rest[j] \in {Runtime!StaleOp(Wanted), Runtime!DropOp(e)}
        <5>1. later[i].op \in {"stale", "drop"}
          BY <4>3, Fields
        <5> QED BY <4>1, <4>3, <5>1
      <4>4. RowsAreServed("none", k, later)
        BY <1>1, <1>3 DEF Doing
      <4> HIDE DEF rest, begins
      <4> QED BY <4>2, <4>3, <4>4 DEF RowsAreServed, Starting
    <3>8. Doing(begins, 1, s, rest)
      BY <1>2, <2>2, <3>2, <3>3, <3>5, <3>6, <3>7 DEF Doing
    <3>9. AtFront(h, begins, 1, s, rest)
      BY <2>1, <2>3, <2>5, <3>2 DEF AtFront
    <3> QED BY <3>8, <3>9
  <2> QED BY <2>2, <2>4, <2>5, WaitingOps
<1>4. ASSUME NEW x \in ListenerOps, Begun(kind, k, s) = <<x>>, kind \notin {"none", "restart"}
      PROVE  AtFront(h, kind, k, s, later)
  <2>1. Head(tasks[h]) = x /\ Tail(tasks[h]) = later
    BY <1>1, <1>2, <1>4, PushedOne
  <2>2. ~ (Len(tasks[h]) > 1 /\ tasks[h][2].op = "bind")
    <3> SUFFICES ASSUME Len(tasks[h]) > 1 PROVE tasks[h][2].op # "bind"
      OBVIOUS
    <3>1. tasks[h] \in Seq(ListenerOps)
      BY DEF ListenInv, RuntimeInv
    <3>2. 1 \in 1 .. Len(later) /\ later[1] = tasks[h][2]
      BY <2>1, <3>1, TailOf
    <3>3. Waiting(later[1])
      BY <1>2, <3>2 DEF QueueIsSound
    <3> QED BY <3>2, <3>3, WaitingOps
  <2> QED BY <1>4, <2>1, <2>2 DEF AtFront
<1>5. /\ Runtime!StartOp(k) \in ListenerOps /\ Runtime!StopOp(k) \in ListenerOps /\ Runtime!BindOp(k) \in ListenerOps
      /\ Runtime!CloseOp(k, s) \in ListenerOps /\ Runtime!AssignOp(k, s) \in ListenerOps
  BY <1>2, Operations
<1>6. CASE kind \in {"start", "stop", "closing", "bind", "assign"}
  <2>1. \E x \in ListenerOps : Begun(kind, k, s) = <<x>>
    BY <1>5, <1>6 DEF Begun
  <2>2. AtFront(h, kind, k, s, later)
    BY <1>4, <1>6, <2>1
  <2> QED BY <1>1, <2>2
<1>7. CASE kind = "restart"
  <2> DEFINE x == Runtime!CloseOp(k, s)
             y == Runtime!BindOp(k)
  <2>1. tasks[h] = <<x, y>> \o later
    BY <1>1, <1>7 DEF Begun
  <2>2. x \in ListenerOps /\ y \in ListenerOps /\ y.op = "bind" /\ <<y>> \o later \in Seq(ListenerOps)
    BY <1>2, <1>5, Fields
  <2>3. /\ <<x, y>> \o later = <<x>> \o (<<y>> \o later)
        /\ Len(<<x, y>> \o later) > 1 /\ (<<x, y>> \o later)[2] = y
    BY <1>2, <1>5, PushedTwo
  <2> DEFINE more == <<y>> \o later
  <2>4. tasks[h] = <<x>> \o more /\ Len(tasks[h]) > 1 /\ tasks[h][2] = y /\ more \in Seq(ListenerOps)
    BY <2>1, <2>2, <2>3
  <2> HIDE DEF x, y, more
  <2>5. Head(tasks[h]) = x /\ Tail(tasks[h]) = more
    BY <2>2, <2>4, PushedOne
  <2>6. AtFront(h, kind, k, s, later)
    BY <1>7, <2>2, <2>4, <2>5 DEF AtFront, x, y, more
  <2> QED BY <1>1, <2>6
<1> QED BY <1>2, <1>3, <1>6, <1>7 DEF Kinds, Starting

LEMMA SameRows ==
  ASSUME UNCHANGED <<endpoints, gatewayConfig>>
  PROVE  Wanted' = Wanted
BY DEF Wanted, Runtime!Served

(* The queue is none the worse for a change that takes no runtime out.      *)
LEMMA QueueKept ==
  ASSUME NEW later, QueueIsSound(later), UNCHANGED <<endpoints, gatewayConfig>>,
         \A e \in Endpoints : runtimes[e] # 0 => runtimes'[e] # 0
  PROVE  QueueIsSound(later)'
<1>1. Wanted' = Wanted
  BY SameRows
<1>2. ASSUME NEW x, Waiting(x) PROVE Waiting(x)'
  BY <1>1, <1>2 DEF Waiting
<1> QED BY <1>2 DEF QueueIsSound

(* A step of one listener.                                                  *)
LEMMA ObjectStep ==
  ASSUME NEW h \in Handlers, RuntimeInv, RuntimeInv', RuntimesDiffer,
         NEW kind, NEW k, NEW s, NEW later, Doing(kind, k, s, later),
         NEW new \in Kinds, NEW t \in Runtime!Ids, tasks'[h] = Begun(new, k, t) \o later,
         UNCHANGED <<endpoints, gatewayConfig, runtimes>>, lastError => lastError',
         \A l \in Runtime!Ids \ {k} :
           /\ objects'[l] = objects[l]
           /\ objects[l].server # 0 => servers'[objects[l].server].port = servers[objects[l].server].port,
         BegunIsSound(new, k, t)', ServersAreSound(new, k, t)',
         \A e \in Wanted : runtimes[e] = k =>
           \/ new \in Starting \/ lastError'
           \/ objects'[k].server # 0 /\ servers'[objects'[k].server].port = endpoints[e].port
  PROVE  ListenInv(h)'
<1>1. Wanted' = Wanted /\ RuntimesDiffer'
  BY SameRows DEF RuntimesDiffer
<1>2. QueueIsSound(later)'
  BY QueueKept DEF Doing
<1>3. RowsAreServed(new, k, later)'
  <2>1. \A e \in Endpoints \ Wanted :
          runtimes[e] = 0 \/ \E i \in 1 .. Len(later) : later[i] \in {Runtime!StaleOp(Wanted), Runtime!DropOp(e)}
    BY DEF Doing, RowsAreServed
  <2>2. ASSUME ~lastError', NEW e \in Wanted
        PROVE  \/ Runtime!Listens(e, endpoints[e].port)'
               \/ \E i \in 1 .. Len(later) : later[i] = Runtime!Serve(e, endpoints[e].port)
               \/ new \in Starting /\ runtimes[e] = k
    <3>1. \/ Runtime!Listens(e, endpoints[e].port)
          \/ \E i \in 1 .. Len(later) : later[i] = Runtime!Serve(e, endpoints[e].port)
          \/ runtimes[e] = k
      BY <2>2 DEF Doing, RowsAreServed
    <3>2. CASE runtimes[e] = k
      <4>1. k # 0 /\ k \in Runtime!Ids
        BY RuntimeAssumptions DEF Doing
      <4> QED BY <2>2, <3>2, <4>1 DEF Runtime!Listens
    <3>3. CASE runtimes[e] # k /\ Runtime!Listens(e, endpoints[e].port)
      <4> DEFINE l == runtimes[e]
      <4>1. l \in Runtime!Ids \ {k} /\ objects[l].server # 0 /\ servers[objects[l].server].port = endpoints[e].port
        BY <3>3, WantedRows DEF Runtime!Listens, RuntimeInv, Runtime!TypeOK, Runtime!Owners
      <4>2. /\ runtimes'[e] = l /\ l # 0 /\ objects'[l] = objects[l] /\ endpoints' = endpoints
            /\ servers'[objects[l].server].port = servers[objects[l].server].port
        BY <3>3, <4>1 DEF Runtime!Listens
      <4> HIDE DEF l
      <4> QED BY <4>1, <4>2 DEF Runtime!Listens
    <3> QED BY <3>1, <3>2, <3>3
  <2> QED BY <1>1, <2>1, <2>2 DEF RowsAreServed
<1>4. Doing(new, k, t, later)'
  BY <1>2, <1>3 DEF Doing
<1> QED BY <1>1, <1>4 DEF ListenInv, Begun

(* A server is closed; while a client is connected it is still the          *)
(* listener's.                                                              *)
LEMMA ServerCloses ==
  ASSUME RuntimeInv, NEW kind, NEW k \in Runtime!Ids, NEW s, ServersAreSound(kind, k, s), kind # "assign",
         NEW t \in Runtime!Ids, objects[k].server = t, Runtime!CloseServer(k, t), runtimes' = runtimes,
         NEW new \in Kinds \ {"assign"},
         Owned(k) \/ new \in {"stop", "closing"} \/ ~servers[t].busy
  PROVE  /\ \A l \in Runtime!Ids \ {k} :
              /\ objects'[l] = objects[l]
              /\ objects[l].server # 0 => servers'[objects[l].server].port = servers[objects[l].server].port
         /\ servers'[t].port = 0 /\ objects'[k].port = objects[k].port
         /\ objects'[k].server = IF servers[t].busy THEN t ELSE 0
         /\ ServersAreSound(new, k, t)'
<1>1. t # 0 /\ objects[k] \in [server : Runtime!Ids \cup {0}, port : Runtime!Ports]
  BY RuntimeAssumptions DEF RuntimeInv, Runtime!TypeOK
<1>2. /\ servers'[t].port = 0 /\ \A u \in Runtime!Ids \ {t} : servers'[u] = servers[u]
      /\ objects'[k].server = (IF servers[t].busy THEN t ELSE 0) /\ objects'[k].port = objects[k].port
      /\ \A l \in Runtime!Ids \ {k} : objects'[l] = objects[l]
  BY <1>1 DEF Runtime!CloseServer, RuntimeInv, Runtime!TypeOK
<1>3. \A l \in Runtime!Ids \ {k} : objects[l].server # t
  BY <1>1 DEF ServersAreSound
<1>4. \A l \in Runtime!Ids \ {k} : objects[l].server # 0 => servers'[objects[l].server] = servers[objects[l].server]
  BY <1>2, <1>3 DEF RuntimeInv, Runtime!TypeOK
<1>5. ServersAreSound(new, k, t)'
  <2>1. \A l \in Runtime!Ids : Owned(l)' <=> Owned(l)
    BY DEF Owned
  <2>2. \A l, m \in Runtime!Ids : objects'[l].server = objects'[m].server /\ objects'[l].server # 0 => l = m
    BY <1>1, <1>2, <1>3 DEF ServersAreSound
  <2>3. \A l \in Runtime!Ids : objects'[l].server # 0 => Owned(l) \/ (new \in {"stop", "closing"} /\ l = k)
    BY <1>2 DEF ServersAreSound
  <2>4. ASSUME NEW u \in Runtime!Ids, servers'[u].port # 0 PROVE \E l \in Runtime!Ids : objects'[l].server = u
    <3>1. u # t /\ servers[u].port # 0
      BY <1>2, <2>4
    <3>2. PICK l \in Runtime!Ids : objects[l].server = u
      BY <3>1 DEF ServersAreSound
    <3> QED BY <1>2, <3>1, <3>2
  <2> QED BY <2>1, <2>2, <2>3, <2>4 DEF ServersAreSound
<1> QED BY <1>2, <1>4, <1>5

(* A listener without a server.                                             *)
LEMMA ServerForgotten ==
  ASSUME RuntimeInv, NEW kind, NEW k \in Runtime!Ids, NEW s, ServersAreSound(kind, k, s), kind # "assign",
         objects' = [objects EXCEPT ![k].server = 0], UNCHANGED <<servers, runtimes>>,
         objects[k].server # 0 => servers[objects[k].server].port = 0,
         NEW new \in Kinds, NEW t
  PROVE  /\ \A l \in Runtime!Ids \ {k} :
              /\ objects'[l] = objects[l]
              /\ objects[l].server # 0 => servers'[objects[l].server].port = servers[objects[l].server].port
         /\ objects'[k].server = 0 /\ objects'[k].port = objects[k].port
         /\ ServersAreSound(new, k, t)'
<1>1. objects[k] \in [server : Runtime!Ids \cup {0}, port : Runtime!Ports]
  BY DEF RuntimeInv, Runtime!TypeOK
<1>2. /\ objects'[k].server = 0 /\ objects'[k].port = objects[k].port
      /\ \A l \in Runtime!Ids \ {k} : objects'[l] = objects[l]
  BY <1>1 DEF RuntimeInv, Runtime!TypeOK
<1>3. ServersAreSound(new, k, t)'
  <2>1. \A l \in Runtime!Ids : Owned(l)' <=> Owned(l)
    BY DEF Owned
  <2>2. \A l, m \in Runtime!Ids : objects'[l].server = objects'[m].server /\ objects'[l].server # 0 => l = m
    BY <1>2 DEF ServersAreSound
  <2>3. \A l \in Runtime!Ids : objects'[l].server # 0 => Owned(l)
    BY <1>2 DEF ServersAreSound
  <2>4. ASSUME NEW u \in Runtime!Ids, servers'[u].port # 0 PROVE \E l \in Runtime!Ids : objects'[l].server = u
    <3>1. PICK l \in Runtime!Ids : objects[l].server = u
      BY <2>4 DEF ServersAreSound
    <3>2. u # 0
      BY RuntimeAssumptions
    <3> QED BY <1>2, <2>4, <3>1, <3>2
  <2> QED BY <2>1, <2>2, <2>3, <2>4 DEF ServersAreSound
<1> QED BY <1>2, <1>3

(* A handler's step begins with what is at the front.                       *)
LEMMA FrontKinds ==
  ASSUME NEW h \in Handlers, RuntimeInv, NEW kind, NEW k, NEW s, NEW later,
         Doing(kind, k, s, later), AtFront(h, kind, k, s, later), NEW op, Runtime!Holds(h, op)
  PROVE  /\ kind = "none" <=> op \in {"serve", "stale", "drop"}
         /\ kind \in {"start", "stop", "bind", "assign"} <=> op = kind /\ op \in {"start", "stop", "bind", "assign"}
         /\ kind \in {"closing", "restart"} <=> op = "closing"
         /\ kind # "none" => /\ Head(tasks[h]).object = k
                             /\ kind \in {"closing", "restart", "assign"} => Head(tasks[h]).server = s
         /\ tasks[h] # <<>> /\ Head(tasks[h]).op = op
<1>1. tasks[h] # <<>> /\ Head(tasks[h]).op = op
  BY DEF Runtime!Holds
<1>2. CASE kind = "none"
  BY <1>1, <1>2 DEF AtFront
<1>3. CASE kind = "restart"
  <2>1. Head(tasks[h]) = Runtime!CloseOp(k, s)
    BY <1>3 DEF AtFront
  <2> QED BY <1>1, <1>3, <2>1, Fields
<1>4. CASE kind \notin {"none", "restart"}
  <2>1. <<Head(tasks[h])>> = Begun(kind, k, s) /\ kind \in Kinds
    BY <1>4 DEF AtFront, Doing
  <2> DEFINE x == Head(tasks[h])
  <2> HIDE DEF x
  <2>2. \/ kind = "start" /\ x = Runtime!StartOp(k)
        \/ kind = "stop" /\ x = Runtime!StopOp(k)
        \/ kind = "closing" /\ x = Runtime!CloseOp(k, s)
        \/ kind = "bind" /\ x = Runtime!BindOp(k)
        \/ kind = "assign" /\ x = Runtime!AssignOp(k, s)
    <3>1. <<x>> = Begun(kind, k, s)
      BY <2>1 DEF x
    <3>2. \A y : <<x>> = <<y>> => x = y
      OBVIOUS
    <3> QED BY <1>4, <2>1, <3>1, <3>2 DEF Begun, Kinds, Starting
  <2>3. x.op = op /\ x = Head(tasks[h])
    BY <1>1 DEF x
  <2> QED BY <1>1, <1>4, <2>2, <2>3, Fields
<1> QED BY <1>2, <1>3, <1>4

(* The tasks after a step.                                                  *)
LEMMA Moved ==
  ASSUME RuntimeInv, NEW h \in Handlers, NEW ops, Runtime!GoOn(h, ops) \/ Runtime!Wait(h, ops)
  PROVE  tasks'[h] = ops \o Tail(tasks[h])
BY DEF RuntimeInv, Runtime!GoOn, Runtime!Wait

(* stop.                                                                    *)
LEMMA StopMoves ==
  ASSUME NEW h \in Handlers, RuntimeInv, RuntimeInv', RuntimesDiffer,
         NEW k, NEW s, NEW later, Doing("stop", k, s, later), AtFront(h, "stop", k, s, later),
         Head(tasks[h]).object = k, Runtime!StopRuntime(h)
  PROVE  ListenInv(h)'
<1>0. PICK t : t = objects[k].server
  OBVIOUS
<1>1. /\ UNCHANGED <<endpoints, gatewayConfig, runtimes, lastError>> /\ Tail(tasks[h]) = later
      /\ later \in Seq(ListenerOps) /\ k \in Runtime!Ids /\ s \in Runtime!Ids /\ t \in Runtime!Ids \cup {0}
      /\ ServersAreSound("stop", k, s) /\ \A e \in Endpoints : runtimes[e] # k
  BY <1>0 DEF Runtime!StopRuntime, AtFront, Doing, QueueIsSound, RuntimeInv, Runtime!TypeOK, BegunIsSound
<1>2. \A e \in Wanted : runtimes[e] # k
  BY <1>1, WantedRows
<1>3. CASE t = 0
  <2>1. Runtime!GoOn(h, <<>>) /\ UNCHANGED <<objects, servers>>
    BY <1>0, <1>3 DEF Runtime!StopRuntime
  <2>2. tasks'[h] = Begun("none", k, s) \o later
    BY <1>1, <2>1, Moved DEF Begun
  <2>3. BegunIsSound("none", k, s)'
    BY DEF BegunIsSound, Starting
  <2>4. ServersAreSound("none", k, s)'
    BY <1>0, <1>1, <1>3, <2>1 DEF ServersAreSound, Owned
  <2>5. "none" \in Kinds
    BY DEF Kinds
  <2> QED BY <1>1, <1>2, <2>1, <2>2, <2>3, <2>4, <2>5, ObjectStep
<1>4. CASE t # 0
  <2>1. Runtime!CloseServer(k, t) /\ IF servers[t].busy THEN Runtime!Wait(h, <<Runtime!CloseOp(k, t)>>) ELSE Runtime!GoOn(h, <<>>)
    BY <1>0, <1>4 DEF Runtime!StopRuntime
  <2>6. PICK new \in {"closing", "none"} : servers[t].busy <=> new = "closing"
    OBVIOUS
  <2>2. t \in Runtime!Ids
    BY <1>1, <1>4
  <2>3. tasks'[h] = Begun(new, k, t) \o later
    BY <1>1, <2>1, <2>6, Moved DEF Begun
  <2>4. new \in Kinds \ {"assign"} /\ (new \in {"stop", "closing"} \/ ~servers[t].busy)
    BY <2>6 DEF Kinds
  <2>5. /\ \A l \in Runtime!Ids \ {k} :
              /\ objects'[l] = objects[l]
              /\ objects[l].server # 0 => servers'[objects[l].server].port = servers[objects[l].server].port
        /\ servers'[t].port = 0 /\ objects'[k].server = IF servers[t].busy THEN t ELSE 0
        /\ ServersAreSound(new, k, t)'
    BY <1>0, <1>1, <2>1, <2>2, <2>4, ServerCloses
  <2>7. BegunIsSound(new, k, t)'
    BY <1>1, <2>5, <2>6 DEF BegunIsSound, Starting
  <2> QED BY <1>1, <1>2, <2>2, <2>3, <2>4, <2>5, <2>7, ObjectStep
<1> QED BY <1>3, <1>4

(* start.                                                                   *)
LEMMA StartMoves ==
  ASSUME NEW h \in Handlers, RuntimeInv, RuntimeInv', RuntimesDiffer,
         NEW k, NEW s, NEW later, Doing("start", k, s, later), AtFront(h, "start", k, s, later),
         Head(tasks[h]).object = k, Runtime!StartRuntime(h)
  PROVE  ListenInv(h)'
<1>0. PICK t : t = objects[k].server
  OBVIOUS
<1>1. /\ UNCHANGED <<endpoints, gatewayConfig, runtimes, lastError>> /\ Tail(tasks[h]) = later
      /\ later \in Seq(ListenerOps) /\ k \in Runtime!Ids /\ s \in Runtime!Ids /\ t \in Runtime!Ids \cup {0}
      /\ ServersAreSound("start", k, s) /\ Owned(k)
      /\ \A e \in Wanted : runtimes[e] = k => objects[k].port = endpoints[e].port
  BY <1>0 DEF Runtime!StartRuntime, AtFront, Doing, QueueIsSound, RuntimeInv, Runtime!TypeOK, BegunIsSound, Starting
<1>2. Owned(k)' /\ Wanted' = Wanted
  BY <1>1, SameRows DEF Owned
<1>3. CASE t = 0
  <2>1. Runtime!Wait(h, <<Runtime!BindOp(k)>>) /\ UNCHANGED <<objects, servers>>
    BY <1>0, <1>3 DEF Runtime!StartRuntime
  <2>2. tasks'[h] = Begun("bind", k, s) \o later
    BY <1>1, <2>1, Moved DEF Begun
  <2>3. BegunIsSound("bind", k, s)'
    BY <1>0, <1>1, <1>2, <1>3, <2>1 DEF BegunIsSound, Starting
  <2>4. ServersAreSound("bind", k, s)'
    BY <1>1, <2>1 DEF ServersAreSound, Owned
  <2>5. "bind" \in Kinds /\ "bind" \in Starting
    BY DEF Kinds, Starting
  <2> QED BY <1>1, <2>1, <2>2, <2>3, <2>4, <2>5, ObjectStep
<1>4. CASE t # 0 /\ Runtime!Matches(k)
  <2>1. Runtime!GoOn(h, <<>>) /\ UNCHANGED <<objects, servers>>
    BY <1>0, <1>4 DEF Runtime!StartRuntime
  <2>2. tasks'[h] = Begun("none", k, s) \o later
    BY <1>1, <2>1, Moved DEF Begun
  <2>3. BegunIsSound("none", k, s)'
    BY DEF BegunIsSound, Starting
  <2>4. ServersAreSound("none", k, s)'
    BY <1>1, <2>1 DEF ServersAreSound, Owned
  <2>5. \A e \in Wanted : runtimes[e] = k =>
          objects'[k].server # 0 /\ servers'[objects'[k].server].port = endpoints[e].port
    BY <1>0, <1>1, <1>4, <2>1 DEF Runtime!Matches
  <2>6. "none" \in Kinds
    BY DEF Kinds
  <2> QED BY <1>1, <2>1, <2>2, <2>3, <2>4, <2>5, <2>6, ObjectStep
<1>5. CASE t # 0 /\ ~Runtime!Matches(k)
  <2>1. Runtime!CloseServer(k, t) /\ IF servers[t].busy THEN Runtime!Wait(h, <<Runtime!CloseOp(k, t), Runtime!BindOp(k)>>)
                               ELSE Runtime!Wait(h, <<Runtime!BindOp(k)>>)
    BY <1>0, <1>5 DEF Runtime!StartRuntime
  <2>2. PICK new \in {"restart", "bind"} : servers[t].busy <=> new = "restart"
    OBVIOUS
  <2>3. t \in Runtime!Ids
    BY <1>1, <1>5
  <2>4. tasks'[h] = Begun(new, k, t) \o later
    BY <1>1, <2>1, <2>2, Moved DEF Begun
  <2>5. new \in Kinds \ {"assign"} /\ new \in Starting
    BY DEF Kinds, Starting
  <2>6. /\ \A l \in Runtime!Ids \ {k} :
              /\ objects'[l] = objects[l]
              /\ objects[l].server # 0 => servers'[objects[l].server].port = servers[objects[l].server].port
        /\ servers'[t].port = 0 /\ objects'[k].port = objects[k].port
        /\ objects'[k].server = IF servers[t].busy THEN t ELSE 0
        /\ ServersAreSound(new, k, t)'
    BY <1>0, <1>1, <2>1, <2>3, <2>5, ServerCloses
  <2>7. BegunIsSound(new, k, t)'
    BY <1>1, <1>2, <2>2, <2>6 DEF BegunIsSound, Starting
  <2> QED BY <1>1, <2>3, <2>4, <2>5, <2>6, <2>7, ObjectStep
<1> QED BY <1>3, <1>4, <1>5

(* A server is closed at last.                                              *)
LEMMA ClosedMoves ==
  ASSUME NEW h \in Handlers, RuntimeInv, RuntimeInv', RuntimesDiffer,
         NEW kind \in {"closing", "restart"}, NEW k, NEW s, NEW later,
         Doing(kind, k, s, later), AtFront(h, kind, k, s, later),
         Head(tasks[h]).object = k, Runtime!ServerClosed(h)
  PROVE  ListenInv(h)'
<1>1. /\ UNCHANGED <<endpoints, gatewayConfig, runtimes, servers, lastError>>
      /\ objects' = [objects EXCEPT ![k].server = 0]
      /\ later \in Seq(ListenerOps) /\ k \in Runtime!Ids /\ s \in Runtime!Ids
      /\ ServersAreSound(kind, k, s) /\ BegunIsSound(kind, k, s) /\ servers[objects[k].server].port = 0
  BY DEF Runtime!ServerClosed, Doing, QueueIsSound, BegunIsSound
<1>2. PICK new \in {"none", "bind"} : kind = "restart" <=> new = "bind"
  OBVIOUS
<1>3. new \in Kinds /\ kind # "assign"
  BY DEF Kinds, Starting
<1>4. tasks'[h] = Begun(new, k, s) \o later
  <2>1. tasks'[h] = <<>> \o Tail(tasks[h])
    BY Moved DEF Runtime!ServerClosed
  <2>2. CASE kind = "closing"
    BY <1>2, <2>1, <2>2 DEF AtFront, Begun
  <2>3. CASE kind = "restart"
    <3>1. Runtime!BindOp(k) \in ListenerOps
      BY <1>1, Operations
    <3>2. Tail(tasks[h]) = <<Runtime!BindOp(k)>> \o later /\ Begun(new, k, s) = <<Runtime!BindOp(k)>>
      BY <1>2, <2>3 DEF AtFront, Begun
    <3>3. <<Runtime!BindOp(k)>> \o later \in Seq(ListenerOps)
      BY <1>1, <3>1, ConcatProperties
    <3>4. <<>> \o (<<Runtime!BindOp(k)>> \o later) = <<Runtime!BindOp(k)>> \o later
      BY <3>3, ConcatEmptySeq
    <3> QED BY <2>1, <3>2, <3>4
  <2> QED BY <2>2, <2>3
<1>5. /\ \A l \in Runtime!Ids \ {k} :
            /\ objects'[l] = objects[l]
            /\ objects[l].server # 0 => servers'[objects[l].server].port = servers[objects[l].server].port
      /\ objects'[k].server = 0 /\ objects'[k].port = objects[k].port
      /\ ServersAreSound(new, k, s)'
  BY <1>1, <1>3, ServerForgotten
<1>6. Wanted' = Wanted /\ (Owned(k) => Owned(k)')
  BY <1>1, SameRows DEF Owned
<1>7. BegunIsSound(new, k, s)'
  BY <1>1, <1>2, <1>5, <1>6 DEF BegunIsSound, Starting
<1>8. \A e \in Wanted : runtimes[e] = k => new \in Starting
  BY <1>1, <1>2, WantedRows DEF BegunIsSound, Starting
<1> QED BY <1>1, <1>3, <1>4, <1>5, <1>7, <1>8, ObjectStep

(* The bind, and what it brings.                                            *)
LEMMA BindMoves ==
  ASSUME NEW h \in Handlers, RuntimeInv, RuntimeInv', RuntimesDiffer,
         NEW k, NEW s, NEW later, Doing("bind", k, s, later), AtFront(h, "bind", k, s, later),
         Head(tasks[h]).object = k, Runtime!Bind(h)
  PROVE  ListenInv(h)'
<1>1. /\ UNCHANGED <<endpoints, gatewayConfig, runtimes>> /\ Tail(tasks[h]) = later
      /\ later \in Seq(ListenerOps) /\ k \in Runtime!Ids /\ s \in Runtime!Ids
      /\ ServersAreSound("bind", k, s) /\ Owned(k) /\ objects[k].server = 0
      /\ \A e \in Wanted : runtimes[e] = k => objects[k].port = endpoints[e].port
  BY DEF Runtime!Bind, AtFront, Doing, QueueIsSound, BegunIsSound, Starting
<1>2. Owned(k)' /\ Wanted' = Wanted
  BY <1>1, SameRows DEF Owned
<1>3. CASE objects' = [objects EXCEPT ![k].server = 0] /\ lastError' = TRUE /\ Runtime!GoOn(h, <<>>) /\ UNCHANGED servers
  <2>1. tasks'[h] = Begun("none", k, s) \o later
    BY <1>1, <1>3, Moved DEF Begun
  <2>2. "none" \in Kinds
    BY DEF Kinds
  <2>3. /\ \A l \in Runtime!Ids \ {k} :
              /\ objects'[l] = objects[l]
              /\ objects[l].server # 0 => servers'[objects[l].server].port = servers[objects[l].server].port
        /\ ServersAreSound("none", k, s)'
    BY <1>1, <1>3, <2>2, ServerForgotten
  <2>4. BegunIsSound("none", k, s)'
    BY DEF BegunIsSound, Starting
  <2> QED BY <1>1, <1>3, <2>1, <2>2, <2>3, <2>4, ObjectStep
<1>4. ASSUME NEW u \in Runtime!FreeServers, servers' = [servers EXCEPT ![u] = [port |-> objects[k].port, busy |-> FALSE]],
             Runtime!Wait(h, <<Runtime!AssignOp(k, u)>>), UNCHANGED <<objects, lastError>>
      PROVE  ListenInv(h)'
  <2>1. u \in Runtime!Ids /\ \A l \in Runtime!Ids : objects[l].server # u
    BY DEF Runtime!FreeServers
  <2>2. servers'[u].port = objects[k].port /\ \A w \in Runtime!Ids \ {u} : servers'[w] = servers[w]
    BY <1>4, <2>1 DEF RuntimeInv, Runtime!TypeOK
  <2>3. tasks'[h] = Begun("assign", k, u) \o later
    BY <1>1, <1>4, Moved DEF Begun
  <2>4. "assign" \in Kinds /\ "assign" \in Starting
    BY DEF Kinds, Starting
  <2>5. \A l \in Runtime!Ids : objects[l].server # 0 => servers'[objects[l].server].port = servers[objects[l].server].port
    <3>1. \A l \in Runtime!Ids : objects[l].server # 0 => objects[l].server \in Runtime!Ids \ {u}
      BY <2>1 DEF RuntimeInv, Runtime!TypeOK
    <3> QED BY <2>2, <3>1
  <2>6. BegunIsSound("assign", k, u)'
    BY <1>1, <1>2, <1>4, <2>1, <2>2 DEF BegunIsSound, Starting
  <2>7. ServersAreSound("assign", k, u)'
    BY <1>1, <1>4, <2>2 DEF ServersAreSound, Owned
  <2> QED BY <1>1, <1>4, <2>1, <2>3, <2>4, <2>5, <2>6, <2>7, ObjectStep
<1> QED BY <1>3, <1>4 DEF Runtime!Bind

LEMMA AssignMoves ==
  ASSUME NEW h \in Handlers, RuntimeInv, RuntimeInv', RuntimesDiffer,
         NEW k, NEW s, NEW later, Doing("assign", k, s, later), AtFront(h, "assign", k, s, later),
         Head(tasks[h]).object = k, Head(tasks[h]).server = s, Runtime!Assign(h)
  PROVE  ListenInv(h)'
<1>1. /\ UNCHANGED <<endpoints, gatewayConfig, runtimes, servers, lastError>> /\ Tail(tasks[h]) = later
      /\ objects' = [objects EXCEPT ![k].server = s] /\ Runtime!GoOn(h, <<>>)
      /\ later \in Seq(ListenerOps) /\ k \in Runtime!Ids /\ s \in Runtime!Ids
      /\ ServersAreSound("assign", k, s) /\ BegunIsSound("assign", k, s)
  BY DEF Runtime!Assign, AtFront, Doing, QueueIsSound
<1>2. /\ objects[k].server = 0 /\ Owned(k) /\ servers[s].port = objects[k].port
      /\ \A l \in Runtime!Ids : objects[l].server # s
      /\ \A e \in Wanted : runtimes[e] = k => objects[k].port = endpoints[e].port
  BY <1>1 DEF BegunIsSound, Starting
<1>3. objects'[k].server = s /\ s # 0 /\ \A l \in Runtime!Ids \ {k} : objects'[l] = objects[l]
  BY <1>1, RuntimeAssumptions DEF RuntimeInv, Runtime!TypeOK
<1>4. tasks'[h] = Begun("none", k, s) \o later
  BY <1>1, Moved DEF Begun
<1>5. "none" \in Kinds
  BY DEF Kinds
<1>6. BegunIsSound("none", k, s)'
  BY DEF BegunIsSound, Starting
<1>7. ServersAreSound("none", k, s)'
  <2>1. \A l \in Runtime!Ids : Owned(l)' <=> Owned(l)
    BY <1>1 DEF Owned
  <2>2. \A l, m \in Runtime!Ids : objects'[l].server = objects'[m].server /\ objects'[l].server # 0 => l = m
    BY <1>1, <1>2, <1>3 DEF ServersAreSound
  <2>3. \A l \in Runtime!Ids : objects'[l].server # 0 => Owned(l)
    BY <1>1, <1>2, <1>3 DEF ServersAreSound
  <2>4. ASSUME NEW u \in Runtime!Ids, servers'[u].port # 0 PROVE \E l \in Runtime!Ids : objects'[l].server = u
    <3>1. u # 0
      BY RuntimeAssumptions
    <3>2. CASE u = s
      BY <1>1, <1>3, <3>2
    <3>3. CASE u # s
      <4>1. PICK l \in Runtime!Ids : objects[l].server = u
        BY <1>1, <2>4, <3>3 DEF ServersAreSound
      <4> QED BY <1>2, <1>3, <3>1, <4>1
    <3> QED BY <3>2, <3>3
  <2> QED BY <2>1, <2>2, <2>3, <2>4 DEF ServersAreSound
<1>8. \A e \in Wanted : runtimes[e] = k => objects'[k].server # 0 /\ servers'[objects'[k].server].port = endpoints[e].port
  BY <1>1, <1>2, <1>3
<1> QED BY <1>1, <1>3, <1>4, <1>5, <1>6, <1>7, <1>8, ObjectStep

(* A row is served by the runtime it has, or by a new one.                  *)
LEMMA ServeMoves ==
  ASSUME NEW h \in Handlers, RuntimeInv, RuntimeInv', RuntimesDiffer,
         NEW k, NEW s, NEW later, Doing("none", k, s, later), tasks[h] = later, later # <<>>,
         Runtime!ServeEndpoint(h)
  PROVE  ListenInv(h)'
<1>1. /\ UNCHANGED <<endpoints, gatewayConfig, servers, lastError>> /\ Head(later).op = "serve"
      /\ QueueIsSound(later) /\ later \in Seq(ListenerOps) /\ s \in Runtime!Ids
      /\ ServersAreSound("none", k, s) /\ RowsAreServed("none", k, later)
  BY DEF Runtime!ServeEndpoint, Runtime!Holds, Doing, QueueIsSound
<1>2. PICK e \in Wanted : Head(later) = Runtime!Serve(e, endpoints[e].port)
  BY <1>1, QueueTail, WaitingOps
<1>3. PICK l \in IF runtimes[e] # 0 THEN {runtimes[e]} ELSE Runtime!FreeObjects :
        /\ runtimes' = [runtimes EXCEPT ![e] = l]
        /\ objects' = [objects EXCEPT ![l] =
                         [server |-> IF runtimes[e] = 0 THEN 0 ELSE @.server, port |-> endpoints[e].port]]
        /\ Runtime!GoOn(h, <<Runtime!StartOp(l)>>)
  <2>1. Head(tasks[h]).owner = e /\ Head(tasks[h]).port = endpoints[e].port
    BY <1>2, Fields
  <2> QED BY ONLY <2>1, Runtime!ServeEndpoint(h) DEF Runtime!ServeEndpoint
<1>4. /\ e \in Endpoints /\ e \in Runtime!Owners /\ Wanted' = Wanted /\ Wanted \subseteq Endpoints
      /\ runtimes \in [Runtime!Owners -> Runtime!Ids \cup {0}] /\ objects \in [Runtime!Ids -> [server : Runtime!Ids \cup {0}, port : Runtime!Ports]]
  BY <1>1, SameRows, WantedRows DEF Runtime!Owners, RuntimeInv, Runtime!TypeOK
<1>5. l \in Runtime!Ids /\ l # 0 /\ (runtimes[e] = l \/ (runtimes[e] = 0 /\ \A o \in Runtime!Owners : runtimes[o] # l))
  <2>1. CASE runtimes[e] # 0
    BY <1>3, <1>4, <2>1
  <2>2. CASE runtimes[e] = 0
    BY <1>3, <2>2, RuntimeAssumptions DEF Runtime!FreeObjects
  <2> QED BY <2>1, <2>2
<1>6. runtimes'[e] = l /\ \A o \in Runtime!Owners \ {e} : runtimes'[o] = runtimes[o]
  BY <1>3, <1>4
<1>7. /\ objects'[l].port = endpoints[e].port /\ \A m \in Runtime!Ids \ {l} : objects'[m] = objects[m]
      /\ \A m \in Runtime!Ids : objects'[m].server = objects[m].server
  <2>1. runtimes[e] = 0 => objects[l].server = 0
    BY <1>1, <1>5 DEF ServersAreSound, Owned
  <2> QED BY <1>3, <1>4, <1>5, <2>1
<1>8. RuntimesDiffer'
  <2>1. e # Runtime!Legacy
    BY <1>4, RuntimeAssumptions
  <2> QED BY <1>5, <1>6, <2>1 DEF RuntimesDiffer, Runtime!Owners
<1>9. \A w \in Wanted : runtimes'[w] = l => w = e
  BY <1>4, <1>5, <1>6, <1>8 DEF RuntimesDiffer, Runtime!Owners
<1>10. QueueIsSound(Tail(later))'
  <2>1. \A w \in Endpoints : runtimes[w] # 0 => runtimes'[w] # 0
    BY <1>5, <1>6 DEF Runtime!Owners
  <2>2. QueueIsSound(Tail(later))
    BY <1>1, QueueTail
  <2> QED BY <1>1, <2>1, <2>2, QueueKept
<1>11. BegunIsSound("start", l, s)'
  BY <1>1, <1>4, <1>6, <1>7, <1>9 DEF BegunIsSound, Owned, Starting
<1>12. ServersAreSound("start", l, s)'
  <2>1. ASSUME NEW m \in Runtime!Ids, Owned(m) PROVE Owned(m)'
    BY <1>4, <1>5, <1>6, <2>1, RuntimeAssumptions DEF Owned
  <2> QED BY <1>1, <1>7, <2>1 DEF ServersAreSound
<1>13. RowsAreServed("start", l, Tail(later))'
  <2>1. ASSUME NEW x, x # Head(later), \E i \in 1 .. Len(later) : later[i] = x
        PROVE  \E j \in 1 .. Len(Tail(later)) : Tail(later)[j] = x
    BY <1>1, <2>1, StillWaiting
  <2>2. ASSUME ~lastError', NEW w \in Wanted \ {e}
        PROVE  \/ Runtime!Listens(w, endpoints[w].port)'
               \/ \E i \in 1 .. Len(Tail(later)) : Tail(later)[i] = Runtime!Serve(w, endpoints[w].port)
    <3>1. Runtime!Listens(w, endpoints[w].port) => Runtime!Listens(w, endpoints[w].port)'
      <4>1. SUFFICES ASSUME Runtime!Listens(w, endpoints[w].port) PROVE Runtime!Listens(w, endpoints[w].port)'
        OBVIOUS
      <4>2. PICK m : m = runtimes[w]
        OBVIOUS
      <4>3. m \in Runtime!Ids \ {l} /\ runtimes'[w] = m
        BY <1>4, <1>6, <1>9, <4>1, <4>2 DEF Runtime!Listens, Runtime!Owners
      <4> QED BY <1>1, <1>7, <4>1, <4>2, <4>3 DEF Runtime!Listens
    <3>2. Runtime!Serve(w, endpoints[w].port) # Head(later)
      BY <1>2, Fields
    <3>3. Runtime!Listens(w, endpoints[w].port) \/ \E i \in 1 .. Len(later) : later[i] = Runtime!Serve(w, endpoints[w].port)
      BY <1>1, <2>2 DEF RowsAreServed, Starting
    <3> QED BY <2>1, <3>1, <3>2, <3>3
  <2>3. ASSUME NEW w \in Endpoints \ Wanted, runtimes'[w] # 0
        PROVE  \E i \in 1 .. Len(Tail(later)) : Tail(later)[i] \in {Runtime!StaleOp(Wanted), Runtime!DropOp(w)}
    <3>1. runtimes[w] # 0
      BY <1>2, <1>6, <2>3 DEF Runtime!Owners
    <3>2. PICK i \in 1 .. Len(later) : later[i] \in {Runtime!StaleOp(Wanted), Runtime!DropOp(w)}
      BY <1>1, <2>3, <3>1 DEF RowsAreServed
    <3>3. later[i] # Head(later)
      BY <1>1, <3>2, Fields
    <3> QED BY <2>1, <3>2, <3>3
  <2> QED BY <1>1, <1>4, <1>6, <2>2, <2>3 DEF RowsAreServed, Starting
<1>14. tasks'[h] = Begun("start", l, s) \o Tail(later)
  BY <1>3, Moved DEF Begun
<1>15. Doing("start", l, s, Tail(later))'
  BY <1>1, <1>5, <1>10, <1>11, <1>12, <1>13 DEF Doing, Kinds, Starting
<1> QED BY <1>8, <1>14, <1>15 DEF ListenInv, Begun

(* An order names every member of its set once.                             *)
LEMMA OrderCovers ==
  ASSUME NEW S \in SUBSET Endpoints, NEW order \in Runtime!Orders(S)
  PROVE  /\ Runtime!Cardinality(S) \in Nat /\ order \in [1 .. Runtime!Cardinality(S) -> S]
         /\ \A i, j \in 1 .. Runtime!Cardinality(S) : order[i] = order[j] => i = j
         /\ \A e \in S : \E i \in 1 .. Runtime!Cardinality(S) : order[i] = e
<1>1. IsFiniteSet(S)
  BY ServicesAssumption, FS_Subset
<1>2. PICK n : n = Runtime!Cardinality(S)
  OBVIOUS
<1>3. n = Cardinality(S) /\ n \in Nat
  <2>1. Runtime!Cardinality(S) = Cardinality(S)
    BY DEF Runtime!Cardinality, Cardinality, Runtime!IsFiniteSet, IsFiniteSet
  <2> QED BY <1>1, <1>2, <2>1, FS_CardinalityType
<1>4. order \in [1 .. n -> S] /\ \A i, j \in 1 .. n : order[i] = order[j] => i = j
  BY <1>2 DEF Runtime!Orders
<1>5. order \in Injection(1 .. n, S)
  BY <1>4 DEF Injection, IsInjective
<1>6. Cardinality(1 .. n) = Cardinality(S)
  BY <1>3, FS_Interval
<1>7. order \in Surjection(1 .. n, S)
  BY <1>1, <1>5, <1>6, FS_Injection
<1>8. \A e \in S : \E i \in 1 .. n : order[i] = e
  BY <1>7 DEF Surjection
<1> QED BY <1>2, <1>3, <1>4, <1>8

(* One queue before another.                                                *)
LEMMA Joined ==
  ASSUME NEW S, NEW p \in Seq(S), NEW q \in Seq(S)
  PROVE  /\ p \o q \in Seq(S)
         /\ \A i \in 1 .. Len(p \o q) :
              \/ i \in 1 .. Len(p) /\ (p \o q)[i] = p[i]
              \/ \E j \in 1 .. Len(q) : i = Len(p) + j /\ (p \o q)[i] = q[j]
         /\ \A i \in 1 .. Len(p) : i \in 1 .. Len(p \o q) /\ (p \o q)[i] = p[i]
         /\ \A j \in 1 .. Len(q) : Len(p) + j \in 1 .. Len(p \o q) /\ (p \o q)[Len(p) + j] = q[j]
<1>1. PICK r : r = p \o q
  OBVIOUS
<1>2. /\ r \in Seq(S) /\ Len(r) = Len(p) + Len(q) /\ Len(p) \in Nat /\ Len(q) \in Nat
      /\ \A i \in 1 .. Len(r) : r[i] = IF i <= Len(p) THEN p[i] ELSE q[i - Len(p)]
  BY <1>1, ConcatProperties
<1>3. PICK n : n = Len(p)
  OBVIOUS
<1>4. PICK m : m = Len(q)
  OBVIOUS
<1>5. ASSUME NEW i \in 1 .. Len(r), ~ (i <= n) PROVE i - n \in 1 .. m /\ i = n + (i - n) /\ r[i] = q[i - n]
  BY <1>2, <1>3, <1>4, <1>5
<1>6. ASSUME NEW i \in 1 .. Len(r), i <= n PROVE i \in 1 .. n /\ r[i] = p[i]
  BY <1>2, <1>3, <1>6
<1>7. ASSUME NEW i \in 1 .. n PROVE i \in 1 .. Len(r) /\ r[i] = p[i]
  BY <1>2, <1>3
<1>8. ASSUME NEW j \in 1 .. m PROVE n + j \in 1 .. Len(r) /\ r[n + j] = q[j]
  <2>1. n + j \in 1 .. Len(r) /\ ~ (n + j <= n) /\ (n + j) - n = j
    BY <1>2, <1>3, <1>4
  <2> QED BY <1>2, <1>3, <2>1
<1>9. ASSUME NEW i \in 1 .. Len(r)
      PROVE  (i \in 1 .. n /\ r[i] = p[i]) \/ \E j \in 1 .. m : i = n + j /\ r[i] = q[j]
  BY <1>5, <1>6
<1> QED BY <1>1, <1>2, <1>3, <1>4, <1>7, <1>8, <1>9

(* The runtimes that are not wanted are found, and each is to be dropped.   *)
LEMMA StaleMoves ==
  ASSUME NEW h \in Handlers, RuntimeInv, RuntimeInv', RuntimesDiffer,
         NEW k, NEW s, NEW later, Doing("none", k, s, later), tasks[h] = later, later # <<>>,
         Runtime!FindStale(h)
  PROVE  ListenInv(h)'
<1>1. /\ UNCHANGED <<endpoints, gatewayConfig, runtimes, objects, servers, lastError>> /\ Head(later).op = "stale"
      /\ QueueIsSound(later) /\ later \in Seq(ListenerOps)
      /\ ServersAreSound("none", k, s) /\ RowsAreServed("none", k, later)
  BY DEF Runtime!FindStale, Runtime!Holds, Doing, QueueIsSound
<1>2. Head(later) = Runtime!StaleOp(Wanted) /\ Wanted' = Wanted
  BY <1>1, QueueTail, WaitingOps, SameRows
<1>3. PICK stale : stale = {e \in Endpoints : runtimes[e] # 0 /\ e \notin Wanted}
  OBVIOUS
<1>4. PICK order \in Runtime!Orders(stale) : Runtime!GoOn(h, [i \in 1 .. Runtime!Cardinality(stale) |-> Runtime!DropOp(order[i])])
  <2>1. Head(tasks[h]).active = Wanted
    BY <1>2, Fields
  <2> QED BY ONLY <1>3, <2>1, Runtime!FindStale(h) DEF Runtime!FindStale
<1>5. PICK n : n = Runtime!Cardinality(stale)
  OBVIOUS
<1>6. /\ n \in Nat /\ order \in [1 .. n -> stale] /\ stale \in SUBSET Endpoints
      /\ \A i, j \in 1 .. n : order[i] = order[j] => i = j
      /\ \A e \in stale : \E i \in 1 .. n : order[i] = e
  <2>1. stale \in SUBSET Endpoints
    BY <1>3
  <2> QED BY ONLY <1>5, <2>1, order \in Runtime!Orders(stale), OrderCovers
<1>7. PICK drops : drops = [i \in 1 .. n |-> Runtime!DropOp(order[i])]
  OBVIOUS
<1>8. drops \in Seq(ListenerOps) /\ Len(drops) = n /\ \A i \in 1 .. n : drops[i] = Runtime!DropOp(order[i])
  <2>1. drops \in [1 .. n -> ListenerOps]
    BY <1>6, <1>7, Operations
  <2> QED BY <1>6, <1>7, <2>1
<1>9. /\ Tail(later) \in Seq(ListenerOps) /\ QueueIsSound(Tail(later))
      /\ \A j \in 1 .. Len(Tail(later)) : Tail(later)[j].op \notin {"stale", "drop"}
  <2>1. QueueIsSound(Tail(later)) /\ Tail(later) \in Seq(ListenerOps)
    BY <1>1, QueueTail DEF QueueIsSound
  <2>2. ASSUME NEW j \in 1 .. Len(Tail(later)), Tail(later)[j].op \in {"stale", "drop"} PROVE FALSE
    <3>1. /\ Head(later) = later[1] /\ 1 \in 1 .. Len(later) /\ Tail(later)[j] = later[j + 1] /\ j + 1 \in 1 .. Len(later)
      BY <1>1, TailOf
    <3>2. 1 = j + 1
      BY <1>1, <2>2, <3>1 DEF QueueIsSound
    <3> QED BY <3>2
  <2> QED BY <2>1, <2>2
<1>10. PICK rest : rest = drops \o Tail(later)
  OBVIOUS
<1>11. /\ rest \in Seq(ListenerOps)
       /\ \A i \in 1 .. Len(rest) :
            \/ i \in 1 .. n /\ rest[i] = Runtime!DropOp(order[i])
            \/ \E j \in 1 .. Len(Tail(later)) : i = n + j /\ rest[i] = Tail(later)[j]
       /\ \A i \in 1 .. n : i \in 1 .. Len(rest) /\ rest[i] = Runtime!DropOp(order[i])
       /\ \A j \in 1 .. Len(Tail(later)) : n + j \in 1 .. Len(rest) /\ rest[n + j] = Tail(later)[j]
  <2>1. PICK more : more = Tail(later)
    OBVIOUS
  <2>2. more \in Seq(ListenerOps) /\ drops \in Seq(ListenerOps)
    BY <1>8, <1>9, <2>1
  <2>3. /\ drops \o more \in Seq(ListenerOps)
        /\ \A i \in 1 .. Len(drops \o more) :
             \/ i \in 1 .. Len(drops) /\ (drops \o more)[i] = drops[i]
             \/ \E j \in 1 .. Len(more) : i = Len(drops) + j /\ (drops \o more)[i] = more[j]
        /\ \A i \in 1 .. Len(drops) : i \in 1 .. Len(drops \o more) /\ (drops \o more)[i] = drops[i]
        /\ \A j \in 1 .. Len(more) : Len(drops) + j \in 1 .. Len(drops \o more) /\ (drops \o more)[Len(drops) + j] = more[j]
    BY ONLY <2>2, Joined
  <2>4. rest = drops \o more
    BY ONLY <1>10, <2>1
  <2>5. rest \in Seq(ListenerOps)
    BY ONLY <2>3, <2>4
  <2>6. ASSUME NEW i \in 1 .. Len(rest)
        PROVE  \/ i \in 1 .. n /\ rest[i] = Runtime!DropOp(order[i])
               \/ \E j \in 1 .. Len(more) : i = n + j /\ rest[i] = more[j]
    BY ONLY <1>8, <2>3, <2>4, <2>6
  <2>7. \A i \in 1 .. n : i \in 1 .. Len(rest) /\ rest[i] = Runtime!DropOp(order[i])
    BY ONLY <1>8, <2>3, <2>4
  <2>8. \A j \in 1 .. Len(more) : n + j \in 1 .. Len(rest) /\ rest[n + j] = more[j]
    BY ONLY <1>8, <2>3, <2>4
  <2> QED BY ONLY <2>1, <2>5, <2>6, <2>7, <2>8
<1>12. tasks'[h] = Begun("none", k, s) \o rest
  <2>1. tasks'[h] = rest
    BY <1>4, <1>5, <1>7, <1>10, Moved
  <2>2. Begun("none", k, s) = <<>>
    BY DEF Begun
  <2> QED BY <1>11, <2>1, <2>2, ConcatEmptySeq
<1>13. QueueIsSound(rest)'
  <2>1. QueueIsSound(Tail(later))'
    BY <1>1, <1>9, QueueKept
  <2>2. ASSUME NEW i \in 1 .. n PROVE Waiting(Runtime!DropOp(order[i]))'
    BY <1>1, <1>2, <1>3, <1>6 DEF Waiting
  <2>3. \A i \in 1 .. Len(rest) : Waiting(rest[i])'
    BY <1>11, <2>1, <2>2 DEF QueueIsSound
  <2>4. \A i \in 1 .. Len(rest) : rest[i].op # "stale"
    BY <1>9, <1>11, Fields
  <2>5. ASSUME NEW i \in 1 .. Len(rest), NEW j \in 1 .. Len(rest), rest[i].op = "drop", rest[j] = rest[i] PROVE i = j
    <3>1. i \in 1 .. n /\ rest[i] = Runtime!DropOp(order[i])
      BY ONLY <1>9, <1>11, <2>5, i \in 1 .. Len(rest)
    <3>2. j \in 1 .. n /\ rest[j] = Runtime!DropOp(order[j])
      <4>1. rest[j].op = "drop"
        BY <2>5
      <4> QED BY ONLY <1>9, <1>11, <4>1, j \in 1 .. Len(rest)
    <3>3. order[i] = order[j]
      BY <2>5, <3>1, <3>2, Fields
    <3> QED BY <1>6, <3>1, <3>2, <3>3
  <2> QED BY <1>11, <2>3, <2>4, <2>5 DEF QueueIsSound
<1>14. RowsAreServed("none", k, rest)'
  <2>1. ASSUME NEW e \in Wanted, \E i \in 1 .. Len(later) : later[i] = Runtime!Serve(e, endpoints[e].port)
        PROVE  \E i \in 1 .. Len(rest) : rest[i] = Runtime!Serve(e, endpoints[e].port)
    <3>1. Runtime!Serve(e, endpoints[e].port) # Head(later)
      BY <1>2, Fields
    <3>2. PICK j \in 1 .. Len(Tail(later)) : Tail(later)[j] = Runtime!Serve(e, endpoints[e].port)
      BY <1>1, <2>1, <3>1, StillWaiting
    <3> QED BY ONLY <1>11, <3>2, j \in 1 .. Len(Tail(later))
  <2>2. ASSUME NEW e \in Endpoints \ Wanted, runtimes[e] # 0
        PROVE  \E i \in 1 .. Len(rest) : rest[i] = Runtime!DropOp(e)
    <3>1. PICK i \in 1 .. n : order[i] = e
      BY <1>3, <1>6, <2>2
    <3> QED BY <1>11, <3>1
  <2>3. \A e \in Wanted : Runtime!Listens(e, endpoints[e].port)' <=> Runtime!Listens(e, endpoints[e].port)
    BY <1>1 DEF Runtime!Listens
  <2> QED BY <1>1, <1>2, <2>1, <2>2, <2>3 DEF RowsAreServed, Starting
<1>15. BegunIsSound("none", k, s)' /\ ServersAreSound("none", k, s)'
  BY <1>1 DEF BegunIsSound, ServersAreSound, Starting, Owned
<1>16. Doing("none", k, s, rest)'
  BY <1>13, <1>14, <1>15 DEF Doing
<1>17. RuntimesDiffer'
  BY <1>1 DEF RuntimesDiffer
<1> QED BY <1>12, <1>16, <1>17 DEF ListenInv, Begun

(* A runtime is taken out, and its listener is to be stopped.               *)
LEMMA DropMoves ==
  ASSUME NEW h \in Handlers, RuntimeInv, RuntimeInv', RuntimesDiffer,
         NEW k, NEW s, NEW later, Doing("none", k, s, later), tasks[h] = later, later # <<>>,
         Runtime!Drop(h)
  PROVE  ListenInv(h)'
<1>1. /\ UNCHANGED <<endpoints, gatewayConfig, objects, servers, lastError>> /\ Head(later).op = "drop"
      /\ QueueIsSound(later) /\ later \in Seq(ListenerOps) /\ s \in Runtime!Ids
      /\ ServersAreSound("none", k, s) /\ RowsAreServed("none", k, later)
  BY DEF Runtime!Drop, Runtime!Holds, Doing, QueueIsSound
<1>2. PICK e \in Endpoints \ Wanted : Head(later) = Runtime!DropOp(e) /\ runtimes[e] # 0
  BY <1>1, QueueTail, WaitingOps
<1>3. PICK l : l = runtimes[e]
  OBVIOUS
<1>4. runtimes' = [runtimes EXCEPT ![e] = 0] /\ Runtime!GoOn(h, <<Runtime!StopOp(l)>>)
  <2>1. Head(tasks[h]).owner = e
    BY <1>2, Fields
  <2> QED BY ONLY <1>2, <1>3, <2>1, Runtime!Drop(h) DEF Runtime!Drop
<1>5. /\ Wanted' = Wanted /\ Wanted \subseteq Endpoints /\ e \in Runtime!Owners /\ e # Runtime!Legacy
      /\ runtimes \in [Runtime!Owners -> Runtime!Ids \cup {0}]
  BY <1>1, <1>2, SameRows, WantedRows, RuntimeAssumptions DEF Runtime!Owners, RuntimeInv, Runtime!TypeOK
<1>6. l \in Runtime!Ids /\ l # 0 /\ runtimes'[e] = 0 /\ \A o \in Runtime!Owners \ {e} : runtimes'[o] = runtimes[o] /\ runtimes[o] # l
  BY <1>2, <1>3, <1>4, <1>5 DEF RuntimesDiffer
<1>7. RuntimesDiffer'
  BY <1>5, <1>6 DEF RuntimesDiffer, Runtime!Owners
<1>8. QueueIsSound(Tail(later))'
  <2>1. QueueIsSound(Tail(later))
    BY <1>1, QueueTail
  <2>2. ASSUME NEW j \in 1 .. Len(Tail(later)) PROVE Waiting(Tail(later)[j])'
    <3>1. /\ Head(later) = later[1] /\ 1 \in 1 .. Len(later) /\ Tail(later)[j] = later[j + 1] /\ j + 1 \in 1 .. Len(later)
          /\ j + 1 # 1
      BY <1>1, TailOf
    <3>2. Tail(later)[j] # Head(later)
      BY <1>1, <3>1 DEF QueueIsSound
    <3>3. Waiting(Tail(later)[j])
      BY <2>1 DEF QueueIsSound
    <3>4. ASSUME NEW w \in Endpoints \ Wanted, Tail(later)[j] = Runtime!DropOp(w), runtimes[w] # 0 PROVE runtimes'[w] # 0
      BY <1>2, <1>6, <3>2, <3>4 DEF Runtime!Owners
    <3> QED BY <1>1, <1>5, <3>3, <3>4 DEF Waiting
  <2> QED BY <2>1, <2>2 DEF QueueIsSound
<1>9. BegunIsSound("stop", l, s)'
  BY <1>6 DEF BegunIsSound, Starting, Runtime!Owners
<1>10. ServersAreSound("stop", l, s)'
  <2>1. ASSUME NEW m \in Runtime!Ids, Owned(m) PROVE Owned(m)' \/ m = l
    BY <1>3, <1>6, <2>1 DEF Owned
  <2> QED BY <1>1, <2>1 DEF ServersAreSound
<1>11. RowsAreServed("stop", l, Tail(later))'
  <2>1. ASSUME NEW x, x # Head(later), \E i \in 1 .. Len(later) : later[i] = x
        PROVE  \E j \in 1 .. Len(Tail(later)) : Tail(later)[j] = x
    BY <1>1, <2>1, StillWaiting
  <2>2. ASSUME ~lastError', NEW w \in Wanted
        PROVE  \/ Runtime!Listens(w, endpoints[w].port)'
               \/ \E i \in 1 .. Len(Tail(later)) : Tail(later)[i] = Runtime!Serve(w, endpoints[w].port)
    <3>1. runtimes'[w] = runtimes[w]
      BY <1>2, <1>5, <1>6 DEF Runtime!Owners
    <3>2. Runtime!Serve(w, endpoints[w].port) # Head(later)
      BY <1>2, Fields
    <3>3. Runtime!Listens(w, endpoints[w].port) \/ \E i \in 1 .. Len(later) : later[i] = Runtime!Serve(w, endpoints[w].port)
      BY <1>1, <2>2 DEF RowsAreServed, Starting
    <3>4. Runtime!Listens(w, endpoints[w].port) => Runtime!Listens(w, endpoints[w].port)'
      BY <1>1, <3>1 DEF Runtime!Listens
    <3> QED BY <2>1, <3>2, <3>3, <3>4
  <2>3. ASSUME NEW w \in Endpoints \ Wanted, runtimes'[w] # 0
        PROVE  \E i \in 1 .. Len(Tail(later)) : Tail(later)[i] \in {Runtime!StaleOp(Wanted), Runtime!DropOp(w)}
    <3>1. runtimes[w] # 0 /\ w # e
      BY <1>6, <2>3 DEF Runtime!Owners
    <3>2. PICK i \in 1 .. Len(later) : later[i] \in {Runtime!StaleOp(Wanted), Runtime!DropOp(w)}
      BY <1>1, <2>3, <3>1 DEF RowsAreServed
    <3>3. later[i] # Head(later)
      BY <1>2, <3>1, <3>2, Fields
    <3> QED BY <2>1, <3>2, <3>3
  <2> QED BY <1>1, <1>5, <2>2, <2>3 DEF RowsAreServed
<1>12. tasks'[h] = Begun("stop", l, s) \o Tail(later)
  BY <1>4, Moved DEF Begun
<1>13. Doing("stop", l, s, Tail(later))'
  BY <1>1, <1>6, <1>8, <1>9, <1>10, <1>11 DEF Doing, Kinds, Starting
<1> QED BY <1>7, <1>12, <1>13 DEF ListenInv, Begun

LEMMA AtRest ==
  ASSUME NEW h \in Handlers, ListenInv(h), tasks[h] = <<>>
  PROVE  \E k, s : Doing("none", k, s, <<>>)
<1>1. PICK kind, k, s, later : tasks[h] = Begun(kind, k, s) \o later /\ Doing(kind, k, s, later)
  BY DEF ListenInv
<1>2. later \in Seq(ListenerOps) /\ k \in Runtime!Ids /\ s \in Runtime!Ids /\ kind \in Kinds
  BY <1>1 DEF Doing, QueueIsSound
<1>3. /\ Runtime!StartOp(k) \in ListenerOps /\ Runtime!StopOp(k) \in ListenerOps /\ Runtime!BindOp(k) \in ListenerOps
      /\ Runtime!CloseOp(k, s) \in ListenerOps /\ Runtime!AssignOp(k, s) \in ListenerOps
  BY <1>2, Operations
<1>4. CASE kind = "none"
  <2>1. Begun(kind, k, s) = <<>>
    BY <1>4 DEF Begun
  <2>2. later = <<>>
    BY <1>1, <1>2, <2>1, ConcatEmptySeq
  <2> QED BY <1>1, <1>4, <2>2
<1>5. CASE kind \in {"start", "stop", "closing", "bind", "assign"}
  <2>1. PICK x \in ListenerOps : Begun(kind, k, s) = <<x>>
    BY <1>3, <1>5 DEF Begun
  <2> QED BY <1>1, <1>2, <2>1, PushedOne
<1>6. CASE kind = "restart"
  <2>1. PICK x \in ListenerOps, y \in ListenerOps : Begun(kind, k, s) = <<x, y>>
    BY <1>3, <1>6 DEF Begun
  <2>2. Len(tasks[h]) > 1
    BY <1>1, <1>2, <2>1, PushedTwo
  <2> QED BY <2>2
<1> QED BY <1>2, <1>4, <1>5, <1>6 DEF Kinds, Starting

(* A new round: every row that is wanted is to be served, and the other     *)
(* runtimes are to be found.                                                *)
LEMMA SyncMoves ==
  ASSUME NEW h \in Handlers, RuntimeInv, RuntimeInv', ListenInv(h), tasks[h] = <<>>,
         NEW config, NEW rows, endpoints' = rows, gatewayConfig' = config, Runtime!Sync(h, config, rows)
  PROVE  ListenInv(h)'
<1>1. PICK k, s : Doing("none", k, s, <<>>)
  BY AtRest
<1>2. /\ RuntimesDiffer' /\ BegunIsSound("none", k, s)' /\ ServersAreSound("none", k, s)'
      /\ k \in Runtime!Ids /\ s \in Runtime!Ids
  BY <1>1 DEF ListenInv, RuntimesDiffer, Doing, BegunIsSound, ServersAreSound, Runtime!Sync, Starting, Owned
<1>3. PICK served : served = Runtime!Served(rows)
  OBVIOUS
<1>4. served \in SUBSET Endpoints /\ Wanted' = IF config.on THEN served ELSE {}
  BY <1>3 DEF Runtime!Served, Wanted
<1>5. PICK order \in Runtime!Orders(served) : tasks' = [tasks EXCEPT ![h] = Runtime!SyncOps(config, rows, order)]
  BY <1>3 DEF Runtime!Sync
<1>6. PICK later : later = Runtime!SyncOps(config, rows, order)
  OBVIOUS
<1>7. tasks'[h] = later
  BY <1>5, <1>6 DEF RuntimeInv
<1>8. later \in Seq(ListenerOps)
  BY <1>7 DEF RuntimeInv
<1>9. QueueIsSound(later)' /\ RowsAreServed("none", k, later)'
  <2>1. CASE ~config.on
    <3>1. later = <<Runtime!StopOp(1), Runtime!StaleOp({})>> /\ Wanted' = {}
      BY <1>4, <1>6, <2>1 DEF Runtime!SyncOps
    <3>2. Len(later) = 2 /\ later[1] = Runtime!StopOp(1) /\ later[2] = Runtime!StaleOp({})
      BY <3>1
    <3>3. Waiting(Runtime!StopOp(1))' /\ Waiting(Runtime!StaleOp({}))'
      BY <3>1 DEF Waiting
    <3>4. QueueIsSound(later)'
      <4>1. \A i \in 1 .. Len(later) : i = 1 \/ i = 2
        BY <3>2
      <4>2. later[1].op = "stop" /\ later[2].op = "stale"
        BY <3>2, Fields
      <4> QED BY <1>8, <3>2, <3>3, <4>1, <4>2 DEF QueueIsSound
    <3>5. 2 \in 1 .. Len(later)
      BY <3>2
    <3>6. RowsAreServed("none", k, later)'
      BY <3>1, <3>2, <3>5 DEF RowsAreServed
    <3> QED BY <3>4, <3>6
  <2>2. CASE config.on
    <3>1. PICK n : n = Runtime!Cardinality(served)
      OBVIOUS
    <3>2. /\ n \in Nat /\ order \in [1 .. n -> served] /\ \A e \in served : \E i \in 1 .. n : order[i] = e
      BY ONLY <1>4, <3>1, order \in Runtime!Orders(served), OrderCovers
    <3>3. PICK serves : serves = [i \in 1 .. n |-> Runtime!Serve(order[i], rows[order[i]].port)]
      OBVIOUS
    <3>4. PICK last \in {Runtime!StartOp(1), Runtime!StopOp(1)} : last = IF config.legacy THEN Runtime!StartOp(1) ELSE Runtime!StopOp(1)
      OBVIOUS
    <3>5. PICK ending : ending = <<Runtime!StaleOp(served), last>>
      OBVIOUS
    <3>6. later = serves \o ending
      BY <1>3, <1>6, <2>2, <3>1, <3>3, <3>4, <3>5 DEF Runtime!SyncOps
    <3>7. serves \in Seq(ListenerOps) /\ Len(serves) = n /\ \A i \in 1 .. n : serves[i] = Runtime!Serve(order[i], rows[order[i]].port)
      <4>1. \A e \in Endpoints : rows[e].port \in EndpointPorts
        BY DEF RuntimeInv, Runtime!TypeOK
      <4>2. serves \in [1 .. n -> ListenerOps]
        BY <1>4, <3>2, <3>3, <4>1, Operations
      <4> QED BY <3>2, <3>3, <4>2
    <3>8. /\ ending \in Seq(ListenerOps) /\ Len(ending) = 2 /\ ending[1] = Runtime!StaleOp(served) /\ ending[2] = last
          /\ \A j \in 1 .. Len(ending) : j = 1 \/ j = 2
      <4>1. Runtime!StaleOp(served) \in ListenerOps /\ last \in ListenerOps
        BY <1>4, Operations, RuntimeAssumptions
      <4> QED BY <3>5, <4>1
    <3>9. /\ \A i \in 1 .. Len(later) :
               \/ i \in 1 .. n /\ later[i] = Runtime!Serve(order[i], rows[order[i]].port)
               \/ \E j \in 1 .. Len(ending) : i = n + j /\ later[i] = ending[j]
          /\ \A i \in 1 .. n : i \in 1 .. Len(later) /\ later[i] = Runtime!Serve(order[i], rows[order[i]].port)
          /\ \A j \in 1 .. Len(ending) : n + j \in 1 .. Len(later) /\ later[n + j] = ending[j]
      <4>1. /\ \A i \in 1 .. Len(serves \o ending) :
                 \/ i \in 1 .. Len(serves) /\ (serves \o ending)[i] = serves[i]
                 \/ \E j \in 1 .. Len(ending) : i = Len(serves) + j /\ (serves \o ending)[i] = ending[j]
            /\ \A i \in 1 .. Len(serves) : i \in 1 .. Len(serves \o ending) /\ (serves \o ending)[i] = serves[i]
            /\ \A j \in 1 .. Len(ending) : /\ Len(serves) + j \in 1 .. Len(serves \o ending)
                                           /\ (serves \o ending)[Len(serves) + j] = ending[j]
        <5>1. serves \in Seq(ListenerOps) /\ ending \in Seq(ListenerOps)
          BY <3>7, <3>8
        <5> QED BY ONLY <5>1, Joined
      <4> QED BY ONLY <3>6, <3>7, <4>1
    <3>10. ASSUME NEW i \in 1 .. Len(later)
           PROVE  \/ \E e \in served : later[i] = Runtime!Serve(e, rows[e].port)
                  \/ i = n + 1 /\ later[i] = Runtime!StaleOp(served)
                  \/ later[i] \in {Runtime!StartOp(1), Runtime!StopOp(1)}
      <4>1. CASE i \in 1 .. n /\ later[i] = Runtime!Serve(order[i], rows[order[i]].port)
        BY <3>2, <4>1
      <4>2. CASE \E j \in 1 .. Len(ending) : i = n + j /\ later[i] = ending[j]
        BY <3>4, <3>8, <4>2
      <4> QED BY <3>9, <4>1, <4>2
    <3>11. QueueIsSound(later)'
      <4>1. \A i \in 1 .. Len(later) : Waiting(later[i])'
        BY <1>4, <2>2, <3>10 DEF Waiting
      <4>2. ASSUME NEW i \in 1 .. Len(later), later[i].op \in {"stale", "drop"} PROVE i = n + 1 /\ later[i].op = "stale"
        BY <3>10, <4>2, Fields
      <4>3. \A i, j \in 1 .. Len(later) :
              /\ later[i].op = "stale" /\ later[j].op \in {"stale", "drop"} => i = j
              /\ later[i].op = "drop" /\ later[j] = later[i] => i = j
        BY <4>2
      <4> QED BY <1>8, <4>1, <4>3 DEF QueueIsSound
    <3>12. RowsAreServed("none", k, later)'
      <4>1. ASSUME NEW e \in served PROVE \E i \in 1 .. Len(later) : later[i] = Runtime!Serve(e, rows[e].port)
        <5>1. PICK i \in 1 .. n : order[i] = e
          BY <3>2
        <5> QED BY <3>9, <5>1
      <4>2. \E i \in 1 .. Len(later) : later[i] = Runtime!StaleOp(served)
        <5>1. 1 \in 1 .. Len(ending)
          BY <3>8
        <5> QED BY <3>8, <3>9, <5>1
      <4>3. Wanted' = served
        BY <1>4, <2>2
      <4> QED BY <4>1, <4>2, <4>3 DEF RowsAreServed
    <3> QED BY <3>11, <3>12
  <2> QED BY <2>1, <2>2
<1>10. Doing("none", k, s, later)'
  BY <1>2, <1>9 DEF Doing, Kinds
<1>11. tasks'[h] = Begun("none", k, s) \o later
  <2>1. Begun("none", k, s) = <<>>
    BY DEF Begun
  <2> QED BY <1>7, <1>8, <2>1, ConcatEmptySeq
<1> QED BY <1>2, <1>10, <1>11 DEF ListenInv, Begun

(* A change that the listeners do not see.                                  *)
LEMMA QuietMoves ==
  ASSUME NEW h \in Handlers, RuntimeInv', ListenInv(h), UNCHANGED <<runtimes, objects, tasks, lastError>>,
         Wanted' = Wanted, \A e \in Wanted : endpoints'[e] = endpoints[e],
         \A t \in Runtime!Ids : servers'[t].port = servers[t].port
  PROVE  ListenInv(h)'
<1>1. PICK kind, k, s, later : tasks[h] = Begun(kind, k, s) \o later /\ Doing(kind, k, s, later)
  BY DEF ListenInv
<1>2. RuntimesDiffer'
  BY DEF ListenInv, RuntimesDiffer
<1>3. k \in Runtime!Ids /\ s \in Runtime!Ids /\ kind \in Kinds
  BY <1>1 DEF Doing
<1>4. QueueIsSound(later)'
  <2>1. ASSUME NEW x, Waiting(x) PROVE Waiting(x)'
    BY <2>1 DEF Waiting
  <2> QED BY <1>1, <2>1 DEF Doing, QueueIsSound
<1>5. BegunIsSound(kind, k, s)'
  BY <1>1, <1>3 DEF Doing, BegunIsSound, Owned
<1>6. ServersAreSound(kind, k, s)'
  BY <1>1 DEF Doing, ServersAreSound, Owned
<1>7. RowsAreServed(kind, k, later)'
  <2>1. ASSUME NEW e \in Wanted, Runtime!Listens(e, endpoints[e].port) PROVE Runtime!Listens(e, endpoints[e].port)'
    <3>1. PICK l : l = runtimes[e]
      OBVIOUS
    <3>2. l \in Runtime!Ids /\ objects[l].server \in Runtime!Ids
      BY <2>1, <3>1, WantedRows DEF Runtime!Listens, ListenInv, RuntimeInv, Runtime!TypeOK, Runtime!Owners
    <3> QED BY <2>1, <3>1, <3>2 DEF Runtime!Listens
  <2> QED BY <1>1, <2>1 DEF Doing, RowsAreServed
<1>8. Doing(kind, k, s, later)'
  BY <1>3, <1>4, <1>5, <1>6, <1>7 DEF Doing
<1> QED BY <1>1, <1>2, <1>8 DEF ListenInv, Begun

LEMMA ListenStarts ==
  ASSUME NEW h \in Handlers, Runtime!Init
  PROVE  ListenInv(h)
<1>1. RuntimeInv /\ tasks[h] = <<>> /\ 1 \in Runtime!Ids /\ 0 \notin Runtime!Ids /\ Wanted = {}
  BY RuntimeStarts, RuntimeAssumptions DEF Runtime!Init, Wanted
<1>2. RuntimesDiffer
  BY DEF Runtime!Init, RuntimesDiffer, Runtime!Owners
<1>3. QueueIsSound(<<>>)
  <2>1. \A i \in 1 .. Len(<<>>) : FALSE
    OBVIOUS
  <2> QED BY <2>1 DEF QueueIsSound
<1>4. BegunIsSound("none", 1, 1)
  BY DEF BegunIsSound, Starting
<1>5. ServersAreSound("none", 1, 1)
  BY DEF Runtime!Init, Runtime!Closed, ServersAreSound
<1>6. RowsAreServed("none", 1, <<>>)
  BY <1>1, RuntimeAssumptions DEF Runtime!Init, Runtime!Owners, RowsAreServed
<1>7. Doing("none", 1, 1, <<>>)
  BY <1>1, <1>3, <1>4, <1>5, <1>6 DEF Doing, Kinds
<1>8. tasks[h] = Begun("none", 1, 1) \o <<>>
  BY <1>1, ConcatEmptySeq DEF Begun
<1> QED BY <1>1, <1>2, <1>7, <1>8 DEF ListenInv

LEMMA HandlerMoves ==
  ASSUME NEW h \in Handlers, ListenInv(h), RuntimeInv', Runtime!HandlerStep(h)
  PROVE  ListenInv(h)'
<1>1. RuntimeInv /\ RuntimesDiffer
  BY DEF ListenInv
<1>2. PICK op \in {"serve", "stop", "start", "closing", "bind", "assign", "stale", "drop"} :
        /\ Runtime!Holds(h, op)
        /\ op = "serve" => Runtime!ServeEndpoint(h)
        /\ op = "stop" => Runtime!StopRuntime(h)
        /\ op = "start" => Runtime!StartRuntime(h)
        /\ op = "closing" => Runtime!ServerClosed(h)
        /\ op = "bind" => Runtime!Bind(h)
        /\ op = "assign" => Runtime!Assign(h)
        /\ op = "stale" => Runtime!FindStale(h)
        /\ op = "drop" => Runtime!Drop(h)
  <2>1. CASE Runtime!ServeEndpoint(h)
    BY <2>1 DEF Runtime!ServeEndpoint
  <2>2. CASE Runtime!StopRuntime(h)
    BY <2>2 DEF Runtime!StopRuntime
  <2>3. CASE Runtime!StartRuntime(h)
    BY <2>3 DEF Runtime!StartRuntime
  <2>4. CASE Runtime!ServerClosed(h)
    BY <2>4 DEF Runtime!ServerClosed
  <2>5. CASE Runtime!Bind(h)
    BY <2>5 DEF Runtime!Bind
  <2>6. CASE Runtime!Assign(h)
    BY <2>6 DEF Runtime!Assign
  <2>7. CASE Runtime!FindStale(h)
    BY <2>7 DEF Runtime!FindStale
  <2>8. CASE Runtime!Drop(h)
    BY <2>8 DEF Runtime!Drop
  <2> QED BY <2>1, <2>2, <2>3, <2>4, <2>5, <2>6, <2>7, <2>8 DEF Runtime!HandlerStep
<1>3. tasks[h] # <<>>
  BY <1>2 DEF Runtime!Holds
<1>4. PICK kind, k, s, later : Doing(kind, k, s, later) /\ AtFront(h, kind, k, s, later)
  BY <1>3, Front
<1>5. /\ kind = "none" <=> op \in {"serve", "stale", "drop"}
      /\ kind \in {"start", "stop", "bind", "assign"} <=> op = kind /\ op \in {"start", "stop", "bind", "assign"}
      /\ kind \in {"closing", "restart"} <=> op = "closing"
      /\ kind # "none" => /\ Head(tasks[h]).object = k
                          /\ kind \in {"closing", "restart", "assign"} => Head(tasks[h]).server = s
  BY <1>1, <1>2, <1>4, FrontKinds
<1>6. /\ kind = "none" => tasks[h] = later /\ later # <<>>
      /\ kind \in {"none", "start", "stop", "closing", "restart", "bind", "assign"}
  BY <1>4 DEF AtFront, Doing, Kinds, Starting
<1>7. CASE op = "serve"
  BY <1>1, <1>2, <1>4, <1>5, <1>6, <1>7, ServeMoves
<1>8. CASE op = "stale"
  BY <1>1, <1>2, <1>4, <1>5, <1>6, <1>8, StaleMoves
<1>9. CASE op = "drop"
  <2>1. tasks[h] = later /\ later # <<>> /\ Doing("none", k, s, later) /\ Runtime!Drop(h)
    BY <1>2, <1>4, <1>5, <1>6, <1>9
  <2> QED BY <1>1, <2>1, DropMoves
<1>10. CASE op = "stop"
  <2>1. kind = "stop" /\ Head(tasks[h]).object = k /\ Runtime!StopRuntime(h)
    BY <1>2, <1>5, <1>6, <1>10
  <2>2. Doing("stop", k, s, later) /\ AtFront(h, "stop", k, s, later)
    BY <1>4, <2>1
  <2> QED BY <1>1, <2>1, <2>2, StopMoves
<1>11. CASE op = "start"
  <2>1. kind = "start" /\ Head(tasks[h]).object = k /\ Runtime!StartRuntime(h)
    BY <1>2, <1>5, <1>6, <1>11
  <2>2. Doing("start", k, s, later) /\ AtFront(h, "start", k, s, later)
    BY <1>4, <2>1
  <2> QED BY <1>1, <2>1, <2>2, StartMoves
<1>12. CASE op = "closing"
  <2>1. kind \in {"closing", "restart"} /\ Head(tasks[h]).object = k /\ Runtime!ServerClosed(h)
    BY <1>2, <1>5, <1>12
  <2> QED BY <1>1, <1>4, <2>1, ClosedMoves
<1>13. CASE op = "bind"
  <2>1. kind = "bind" /\ Head(tasks[h]).object = k /\ Runtime!Bind(h)
    BY <1>2, <1>5, <1>6, <1>13
  <2>2. Doing("bind", k, s, later) /\ AtFront(h, "bind", k, s, later)
    BY <1>4, <2>1
  <2> QED BY <1>1, <2>1, <2>2, BindMoves
<1>14. CASE op = "assign"
  <2>1. kind = "assign" /\ Head(tasks[h]).object = k /\ Head(tasks[h]).server = s /\ Runtime!Assign(h)
    BY <1>2, <1>5, <1>6, <1>14
  <2>2. Doing("assign", k, s, later) /\ AtFront(h, "assign", k, s, later)
    BY <1>4, <2>1
  <2> QED BY <1>1, <2>1, <2>2, AssignMoves
<1> QED BY <1>2, <1>7, <1>8, <1>9, <1>10, <1>11, <1>12, <1>13, <1>14

LEMMA ListenSteps ==
  ASSUME NEW h, Handlers = {h}, ListenInv(h), [Runtime!Next]_runtimeVars
  PROVE  ListenInv(h)'
<1>1. h \in Handlers /\ RuntimeInv /\ RuntimeInv'
  BY RuntimeSteps DEF ListenInv
<1>2. CASE UNCHANGED runtimeVars
  <2>1. UNCHANGED <<endpoints, gatewayConfig, runtimes, objects, servers, tasks, lastError>>
    BY <1>2 DEF runtimeVars
  <2> QED BY <1>1, <2>1, SameRows, QuietMoves
<1>3. ASSUME NEW config, Runtime!SetConfig(h, config) PROVE ListenInv(h)'
  <2>1. /\ tasks[h] = <<>> /\ gatewayConfig' = config /\ endpoints' = endpoints /\ Runtime!Sync(h, config, endpoints)
    BY <1>3 DEF Runtime!SetConfig, Runtime!Idle
  <2> QED BY <1>1, <2>1, SyncMoves
<1>4. ASSUME NEW e, NEW row, Runtime!SetEndpoint(h, e, row) PROVE ListenInv(h)'
  <2>1. tasks[h] = <<>> /\ gatewayConfig' = gatewayConfig
    BY <1>4 DEF Runtime!SetEndpoint, Runtime!Idle
  <2>2. CASE gatewayConfig.on
    <3>1. Runtime!Sync(h, gatewayConfig, endpoints')
      BY <1>4, <2>2 DEF Runtime!SetEndpoint
    <3>2. PICK rows : rows = endpoints'
      OBVIOUS
    <3>3. PICK config : config = gatewayConfig
      OBVIOUS
    <3>4. Runtime!Sync(h, config, rows) /\ endpoints' = rows /\ gatewayConfig' = config
      BY <2>1, <3>1, <3>2, <3>3
    <3> QED BY ONLY <1>1, <2>1, <3>4, ListenInv(h), SyncMoves
  <2>3. CASE ~gatewayConfig.on
    <3>1. UNCHANGED <<tasks, running, runtimes, objects, servers, lastError>>
      BY <1>4, <2>3 DEF Runtime!SetEndpoint
    <3>2. Wanted = {} /\ Wanted' = {}
      BY <2>1, <2>3 DEF Wanted
    <3> QED BY <1>1, <3>1, <3>2, QuietMoves
  <2> QED BY <2>2, <2>3
<1>5. CASE Runtime!HandlerStep(h)
  BY <1>1, <1>5, HandlerMoves
<1>6. ASSUME NEW s \in Runtime!Ids, Runtime!ClientConnects(s) \/ Runtime!ClientsLeave(s) PROVE ListenInv(h)'
  <2>1. UNCHANGED <<endpoints, gatewayConfig, runtimes, objects, tasks, running, lastError>>
    BY <1>6 DEF Runtime!ClientConnects, Runtime!ClientsLeave
  <2>2. \A t \in Runtime!Ids : servers'[t].port = servers[t].port
    <3>1. servers \in [Runtime!Ids -> [port : Runtime!Ports \cup {0}, busy : BOOLEAN]]
      BY <1>1 DEF RuntimeInv, Runtime!TypeOK
    <3>2. PICK b : servers' = [servers EXCEPT ![s].busy = b]
      BY <1>6 DEF Runtime!ClientConnects, Runtime!ClientsLeave
    <3> QED BY <3>1, <3>2
  <2> QED BY <1>1, <2>1, <2>2, SameRows, QuietMoves
<1> QED BY <1>2, <1>3, <1>4, <1>5, <1>6 DEF Runtime!Next

LEMMA ListensRight ==
  ASSUME NEW h, Handlers = {h}, ListenInv(h)
  PROVE  Runtime!ListensAsConfigured
<1> SUFFICES ASSUME Runtime!Settled
             PROVE  /\ Runtime!NoStrayServer
                    /\ lastError \/ \A e \in Endpoints :
                         IF gatewayConfig.on /\ endpoints[e].on THEN Runtime!Listens(e, endpoints[e].port)
                         ELSE runtimes[e] = 0
  BY DEF Runtime!ListensAsConfigured
<1>1. h \in Handlers /\ tasks[h] = <<>> /\ RuntimeInv
  BY DEF Runtime!Settled, ListenInv
<1>2. PICK k, s : Doing("none", k, s, <<>>)
  BY <1>1, AtRest
<1>3. Runtime!NoStrayServer
  <2> SUFFICES ASSUME NEW t \in Runtime!Ids, servers[t].port # 0 PROVE \E o \in Runtime!Owners : Runtime!Listens(o, servers[t].port)
    BY DEF Runtime!NoStrayServer
  <2>1. PICK l \in Runtime!Ids : objects[l].server = t
    BY <1>2 DEF Doing, ServersAreSound
  <2>2. l # 0 /\ t # 0
    BY RuntimeAssumptions
  <2>3. PICK o \in Runtime!Owners : runtimes[o] = l
    BY <1>2, <2>1, <2>2 DEF Doing, ServersAreSound, Owned
  <2> QED BY <2>1, <2>2, <2>3 DEF Runtime!Listens
<1>4. RowsAreServed("none", k, <<>>) /\ \A i \in 1 .. Len(<<>>) : FALSE
  BY <1>2 DEF Doing
<1>5. \A e \in Endpoints : e \in Wanted <=> gatewayConfig.on /\ endpoints[e].on
  BY DEF Wanted, Runtime!Served
<1>6. lastError \/ \A e \in Wanted : Runtime!Listens(e, endpoints[e].port)
  BY <1>4 DEF RowsAreServed, Starting
<1>7. \A e \in Endpoints \ Wanted : runtimes[e] = 0
  BY <1>4 DEF RowsAreServed
<1> QED BY <1>3, <1>5, <1>6, <1>7

-----------------------------------------------------------------------------
(* The application.                                                         *)

(* A step of the application is a step of one component and leaves the      *)
(* others alone, so it is a step or a stutter of each.                      *)
LEMMA OneMoves ==
  ASSUME [Next]_vars
  PROVE  /\ [Runtime!Next]_runtimeVars /\ [Upgrade!Next]_schemaVars /\ [Collecting!Next]_collectVars
         /\ [Publishing!Next]_poolVars /\ [Backups!Next]_backupVars /\ [Guard!Next]_guardVars
BY DEF Next, vars, RuntimeNext, UpgradeNext, CollectNext, PoolNext, BackupNext, GuardNext

(* Theorem: an interrupted upgrade of the database deletes no lease, and an *)
(* application that has started finds every column and lease (_init_db and  *)
(* _ensure_columns).                                                        *)
THEOREM UpgradeIsSafeAlways == Spec => UpgradeIsSafe
<1>1. Init => SchemaInv
  BY SchemaStarts DEF Init
<1>2. SchemaInv /\ [Next]_vars => SchemaInv'
  BY OneMoves, SchemaSteps
<1>3. SchemaInv /\ [Next]_vars => [leases \cup legacy \subseteq leases' \cup legacy']_schemaVars
  BY OneMoves, SchemaSteps
<1>4. SchemaInv => (start = "open" => /\ \A t \in DOMAIN tables : tables[t] = Upgrade!Current[t]
                                      /\ interrupted \/ legacy = {})
  BY DEF SchemaInv, Upgrade!Current
<1>5. schemaVars = Upgrade!vars
  BY DEF schemaVars, Upgrade!vars
<1> QED
  BY <1>1, <1>2, <1>3, <1>4, <1>5, PTL DEF Spec, UpgradeIsSafe, Upgrade!UpgradeIsSafe, schemaVars, Upgrade!vars

(* Theorem: a slot is taken exactly as long as a request is in its handler, *)
(* and a request is recorded once (security_guard).                         *)
THEOREM SlotsAreHeldAlways == Spec => []SlotsAreHeld
<1>1. Init => GuardInv
  BY GuardStarts DEF Init
<1>2. GuardInv /\ [Next]_vars => GuardInv'
  BY OneMoves, GuardSteps
<1>3. GuardInv => SlotsAreHeld
  BY GuardIsSound DEF SlotsAreHeld
<1> QED BY <1>1, <1>2, <1>3, PTL DEF Spec

(* Theorem: whatever the rates, no span of a window admits more than its    *)
(* rate, and what a refusal is reckoned from are the requests admitted      *)
(* (RateLimiter.is_limited).                                                *)
THEOREM RateIsKeptAlways == Spec => []RateIsKept
<1>1. Init => GuardInv
  BY GuardStarts DEF Init
<1>2. GuardInv /\ [Next]_vars => GuardInv'
  BY OneMoves, GuardSteps
<1>3. GuardInv => RateIsKept
  BY GuardIsSound DEF RateIsKept
<1> QED BY <1>1, <1>2, <1>3, PTL DEF Spec

(* Theorem: a pool's subscription is its own, goes with it unless a sync    *)
(* was interrupted, and a new pool inherits nothing (pool/service.py).      *)
THEOREM OwnSubscriptionAlways == Spec => OwnSubscription
<1>1. Init => PoolInv
  BY PoolStarts DEF Init
<1>2. PoolInv /\ [Next]_vars => PoolInv'
  BY OneMoves, PoolSteps
<1>3. PoolInv /\ [Next]_vars =>
        [\A p \in Publishing!PoolIds : ~pools[p].there /\ pools'[p].there => p \notin named']_(Publishing!vars)
  BY OneMoves, PoolSteps DEF NewPoolsAreUnnamed
<1>4. PoolInv =>
        /\ \A p \in Publishing!PoolIds : pools[p].there /\ pools[p].sub # 0 => published[pools[p].sub].pool = p
        /\ \A s \in Publishing!SubIds : published[s].there /\ published[s].pool # 0 =>
             syncInterrupted \/ (pools[published[s].pool].there /\ pools[published[s].pool].sub = s)
  <2> SUFFICES ASSUME PoolInv, NEW s \in Publishing!SubIds, published[s].there, published[s].pool # 0, ~syncInterrupted
               PROVE  pools[published[s].pool].there /\ pools[published[s].pool].sub = s
    BY DEF PoolInv, PoolIsSound
  <2>1. published[s].pool \in Publishing!PoolIds
    BY DEF PoolInv, PoolTypes, SubRow
  <2> QED BY <2>1, Zero DEF PoolInv, PoolIsSound, SubIsSound
<1> QED
  BY <1>1, <1>2, <1>3, <1>4, PTL DEF Spec, OwnSubscription, Publishing!OwnSubscription

(* Theorem: once synced, a pool of plain filters is served the available    *)
(* nodes of its own candidates (_normalize_published_subscription_filters   *)
(* and get_subscription_links).                                             *)
THEOREM PlainSyncServesThePoolAlways == Spec => []PlainSyncServesThePool
<1>1. Init => PoolInv
  BY PoolStarts DEF Init
<1>2. PoolInv /\ [Next]_vars => PoolInv'
  BY OneMoves, PoolSteps
<1>3. PoolInv => PlainSyncServesThePool
  BY PoolIsRight DEF PlainSyncServesThePool
<1> QED BY <1>1, <1>2, <1>3, PTL DEF Spec

(* Theorem: what an import has passed is there and means what it did, and   *)
(* within an installation no new pool is one that an endpoint names         *)
(* (import_config and export_config).                                       *)
THEOREM RestoredIsThereAlways == Spec => RestoredIsThere
<1>1. Init => BackupInv
  BY BackupStarts DEF Init
<1>2. BackupInv /\ [Next]_vars => BackupInv'
  BY OneMoves, BackupSteps
<1>3. BackupInv /\ [Next]_vars =>
        [\A p \in Backups!PoolIds :
          ~poolTable[p].there /\ poolTable'[p].there /\ ~moved =>
            /\ \A e \in Backups!There(endpointTable) : endpointTable[e].hops # <<p>>
            /\ \A e \in Backups!There(backup.endpoints) : backup.endpoints[e].hops # <<p>>]_(Backups!vars)
  BY OneMoves, BackupSteps DEF NewPoolsAreNotHops
<1>4. BackupInv =>
        /\ \A p \in importing.seenPools : backup.pools[p].name \in Backups!Names(poolTable)
        /\ \A e \in importing.seenEndpoints :
             LET f == importing.made[e]
             IN  /\ backup.endpoints[e].name \in Backups!Names(endpointTable)
                 /\ f # 0 => endpointTable[f].there /\ endpointTable[f].hops = backup.endpoints[e].hops
  BY DEF BackupInv, ImportIsSound
<1> QED
  BY <1>1, <1>2, <1>3, <1>4, PTL DEF Spec, RestoredIsThere, Backups!RestoredIsThere

(* Theorem: however collections, imports and deletions overlap, the         *)
(* catalogue stays within one filling for each collection, an URL has one   *)
(* row, and a deleted subscription is not brought back (CollectorService    *)
(* and mark_subscription_result).                                           *)
THEOREM CollectorsDoNotClashAlways == Spec => CollectorsDoNotClash
<1>1. Init => CollectInv
  BY CollectStarts DEF Init
<1>2. CollectInv /\ [Next]_vars => CollectInv'
  BY OneMoves, CollectSteps
<1>3. CollectInv /\ [Next]_vars =>
        [\A i \in Collecting!Ids :
          ~subscriptions[i].there /\ subscriptions[i].url # Collecting!NoUrl
            => ~subscriptions'[i].there]_(Collecting!vars)
  BY OneMoves, CollectSteps DEF GoneStayGone
<1>4. CollectInv =>
        /\ Collecting!Cardinality(proxies) <= MaxProxyCount * Collecting!Cardinality(Collecting!Collectors)
        /\ \A i, j \in Collecting!Rows : subscriptions[i].url = subscriptions[j].url => i = j
  BY LimitHolds, CollectCardinality DEF CollectInv, RowsAreSound
<1> QED
  BY <1>1, <1>2, <1>3, <1>4, PTL DEF Spec, CollectorsDoNotClash, Collecting!CollectorsDoNotClash

(* Theorem: once the requests are served, no server listens that no runtime *)
(* of the manager has, and unless the last sync had an error, exactly the   *)
(* enabled endpoints of an enabled gateway listen, each on the port of its  *)
(* row, whatever connections kept a server from closing meanwhile (sync,    *)
(* start and stop of gateway/runtime.py).  One request at a time: when two  *)
(* overlap, sync does not hold the listeners together.                      *)
THEOREM ListensAsConfiguredAlways ==
  ASSUME NEW h, Handlers = {h}
  PROVE  Spec => []ListensAsConfigured
<1>1. Init => ListenInv(h)
  BY ListenStarts DEF Init
<1>2. ListenInv(h) /\ [Next]_vars => ListenInv(h)'
  BY OneMoves, ListenSteps
<1>3. ListenInv(h) => ListensAsConfigured
  BY ListensRight DEF ListensAsConfigured
<1> QED BY <1>1, <1>2, <1>3, PTL DEF Spec

(* Theorem: type correctness of the six components; of the collections, the *)
(* listeners and the imports it needs what is said of their pending work.   *)
THEOREM ServicesTypes == Spec => []TypeOK
<1> DEFINE Inv == RuntimeInv /\ SchemaInv /\ CollectInv /\ PoolInv /\ BackupInv /\ GuardInv
<1>1. Init => Inv
  BY RuntimeStarts, SchemaStarts, CollectStarts, PoolStarts, BackupStarts, GuardStarts DEF Init
<1>2. Inv /\ [Next]_vars => Inv'
  BY OneMoves, RuntimeSteps, SchemaSteps, CollectSteps, PoolSteps, BackupSteps, GuardSteps
<1>3. Inv => TypeOK
  BY CollectIsRight, PoolIsRight, BackupIsRight, GuardIsSound, SchemaIsRight DEF TypeOK, RuntimeInv
<1> QED BY <1>1, <1>2, <1>3, PTL DEF Spec
=============================================================================
