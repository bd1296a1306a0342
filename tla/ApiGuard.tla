------------------------------ MODULE ApiGuard ------------------------------
(***************************************************************************)
(* The middleware security_guard of proxypool/api/app.py: the rate limiter *)
(* and the slots for batch requests of api/security.py, and the traces of  *)
(* api/monitoring.py.                                                      *)
(*                                                                         *)
(* A request passes the checks in one go on the event loop; then its       *)
(* handler runs, beside others, until it answers, raises or is cancelled.  *)
(* The clock counts halves of the minute that is both the window of every  *)
(* rate and the interval of the clean-up.  Only the length of the list of  *)
(* times is ever asked, so it is the set of them, each told from others of *)
(* its time by the number of its request.                                  *)
(***************************************************************************)
EXTENDS Integers, FiniteSets

CONSTANTS
  Requests,         \* the requests that may be in progress
  Paths,            \* "client:path", what the rates go by
  Batch,            \* those of them whose concurrency is limited
  MaxReads,         \* the rate of a GET ...
  MaxWrites,        \* ... and of a POST, PUT or DELETE
  Kept,             \* how long _cleanup_old_entries keeps a timestamp: an hour
  MaxConcurrent,    \* the slots of a batch path
  MaxNow,           \* bound: the clock
  MaxArrivals       \* bound: the requests of the whole run

VARIABLES
  requests,         \* the path of each request that is in its handler
  slots,            \* ConcurrentRequestLimiter._counts
  timestamps,       \* RateLimitEntry.timestamps
  lastCleanup,      \* _last_cleanup
  now,              \* the clock
  tracesOpen,       \* _active_requests: how many
  counted,          \* the requests the performance monitor has recorded
  admitted,         \* what the limiter let pass, never forgotten ...
  answered          \* ... and the answers (not part of the program)

vars == <<requests, slots, timestamps, lastCleanup, now, tracesOpen, counted, admitted, answered>>

Nowhere == "nowhere"
Window  == 2
Times   == 0 .. MaxNow
Rate    == [GET |-> MaxReads, POST |-> MaxWrites]

InHandler(set) == {r \in Requests : requests[r] \in set}

(* The requests there have been; each leaves its trace open or is counted.  *)
Arrived == tracesOpen + counted
Stamp   == [n : 0 .. MaxArrivals, at : Times]
Passed  == [n : 0 .. MaxArrivals, at : Times, method : DOMAIN Rate]

TypeOK ==
  /\ requests \in [Requests -> Paths \cup {Nowhere}]
  /\ slots \in [Batch -> 0 .. MaxConcurrent]
  /\ timestamps \in [Paths -> SUBSET Stamp] /\ admitted \in [Paths -> SUBSET Passed]
  /\ lastCleanup \in 0 .. now /\ now \in Times
  /\ tracesOpen \in Cardinality(InHandler(Paths)) .. MaxArrivals

Init ==
  /\ requests = [r \in Requests |-> Nowhere]
  /\ slots = [p \in Batch |-> 0]
  /\ timestamps = [p \in Paths |-> {}] /\ admitted = [p \in Paths |-> {}]
  /\ lastCleanup = 0 /\ now = 0
  /\ tracesOpen = 0 /\ counted = 0 /\ answered = 0

-----------------------------------------------------------------------------
(* RateLimiter.is_limited.                                                  *)

(* Mutant: the clean-up, too, looks back half a minute only.                *)
Cleaned_Early(stamps) ==
  IF now - lastCleanup < Window THEN stamps ELSE {x \in stamps : x.at > now - 1}

(* _cleanup_old_entries.                                                    *)
Cleaned(stamps) ==
  IF now - lastCleanup < Window THEN stamps ELSE {x \in stamps : x.at > now - Kept}

InWindow(stamps) == {x \in stamps : now - x.at < Window}

(* entry.record, of the requests that are not limited.                      *)
Recorded(stamps, limited) == IF limited THEN stamps ELSE stamps \cup {[n |-> Arrived, at |-> now]}

(* The entry of the path keeps what is in the window, all others what the   *)
(* clean-up leaves.                                                         *)
IsLimited(p, method, limited) ==
  LET stamps == InWindow(Cleaned(timestamps[p]))
  IN  /\ limited = (Cardinality(stamps) >= Rate[method])
      /\ timestamps' = [q \in Paths |-> IF q = p THEN Recorded(stamps, limited) ELSE Cleaned(timestamps[q])]
      /\ lastCleanup' = IF now - lastCleanup < Window THEN lastCleanup ELSE now
      /\ admitted' = IF limited THEN admitted
                     ELSE [admitted EXCEPT ![p] = @ \cup {[n |-> Arrived, at |-> now, method |-> method]}]

-----------------------------------------------------------------------------
(* security_guard.                                                          *)

Arrives(r) ==
  requests[r] = Nowhere /\ Arrived < MaxArrivals /\ tracesOpen' = tracesOpen + 1

(* 401 without the key, 414 for a long URL.                                 *)
Unauthorized(r) ==
  /\ Arrives(r)
  /\ UNCHANGED <<requests, slots, timestamps, lastCleanup, now, counted, admitted, answered>>

(* 429, and 429 for a batch request that finds no slot, which is recorded   *)
(* all the same.                                                            *)
Limited(r, p, method) ==
  /\ Arrives(r)
  /\ \E limited \in BOOLEAN :
       /\ IsLimited(p, method, limited)
       /\ limited \/ (p \in Batch /\ slots[p] >= MaxConcurrent)
  /\ UNCHANGED <<requests, slots, now, counted, answered>>

(* Into the handler; or 413 for a large body, which takes a slot and gives  *)
(* it back within the step.                                                 *)
Admitted(r, p, method) ==
  /\ Arrives(r)
  /\ IsLimited(p, method, FALSE)
  /\ p \in Batch => slots[p] < MaxConcurrent
  /\ \/ UNCHANGED <<requests, slots>>
     \/ /\ requests' = [requests EXCEPT ![r] = p]
        /\ slots' = IF p \in Batch THEN [slots EXCEPT ![p] = @ + 1] ELSE slots
  /\ UNCHANGED <<now, counted, answered>>

(* Mutant: the slot is given back with the answer and not in the finally    *)
(* clause.                                                                  *)
Released_Answered(p, response) ==
  IF p \in Batch /\ response THEN [slots EXCEPT ![p] = @ - 1] ELSE slots

Released(p, response) == IF p \in Batch THEN [slots EXCEPT ![p] = @ - 1] ELSE slots

(* end_request pops the trace: the second call, in the finally clause,      *)
(* finds none.                                                              *)
EndRequest == counted' = counted + 1 /\ tracesOpen' = tracesOpen - 1

(* The handler answers, or raises or is cancelled before there is a         *)
(* response, which ends no trace.                                           *)
Ends(r) ==
  /\ requests[r] # Nowhere
  /\ requests' = [requests EXCEPT ![r] = Nowhere]
  /\ \E response \in BOOLEAN :
       /\ slots' = Released(requests[r], response)
       /\ IF response THEN EndRequest /\ answered' = answered + 1
          ELSE UNCHANGED <<tracesOpen, counted, answered>>
  /\ UNCHANGED <<timestamps, lastCleanup, now, admitted>>

Tick ==
  /\ now < MaxNow /\ now' = now + 1
  /\ UNCHANGED <<requests, slots, timestamps, lastCleanup, tracesOpen, counted, admitted, answered>>

(* Within the bounds nothing is left to happen.                             *)
Terminating ==
  now = MaxNow /\ InHandler(Paths) = {} /\ Arrived >= MaxArrivals /\ UNCHANGED vars

Next ==
  \/ Tick \/ Terminating
  \/ \E r \in Requests :
       \/ Unauthorized(r) \/ Ends(r)
       \/ \E p \in Paths, method \in DOMAIN Rate : Limited(r, p, method) \/ Admitted(r, p, method)

Spec == Init /\ [][Next]_vars

-----------------------------------------------------------------------------
(* Properties.                                                              *)

(* A slot is taken exactly as long as a request is in its handler, however  *)
(* requests are refused, raise or are cancelled: none is lost for good.     *)
(* And a request is recorded once, though both ways out of the guard end    *)
(* its trace.                                                               *)
SlotsAreHeld ==
  /\ \A p \in Batch : slots[p] = Cardinality(InHandler({p}))
  /\ counted = answered

InSpan(p, t, methods) ==
  {a \in admitted[p] : a.at <= t /\ t - a.at < Window /\ a.method \in methods}

(* In no minute, wherever it begins, are more requests of a client for a    *)
(* path admitted than the rate of its reads, nor more writes than that of   *)
(* writes, though the two share one entry.  And what a refusal is reckoned  *)
(* from are the requests that were admitted, all of them and no others:     *)
(* being refused does not put the next admission off.                       *)
RateIsKept ==
  \A p \in Paths :
    /\ \A t \in Times :
         /\ Cardinality(InSpan(p, t, DOMAIN Rate)) <= MaxReads
         /\ Cardinality(InSpan(p, t, {"POST"})) <= MaxWrites
    /\ InWindow(timestamps[p]) = {[n |-> a.n, at |-> a.at] : a \in InSpan(p, now, DOMAIN Rate)}
=============================================================================
