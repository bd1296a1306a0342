------------------------------ MODULE Testing ------------------------------
(***************************************************************************)
(* What the tests write to the rows of proxies: proxypool/tester/          *)
(* service.py, the speed test and the gateway's health check of            *)
(* api/app.py, and the statements of storage/sqlite.py they use.           *)
(*                                                                         *)
(* A run takes its nodes from the rows once, looks at them for minutes,    *)
(* and writes each result to whatever row has the key by then.  Runs       *)
(* overlap with each other, with imports and with deletions.               *)
(***************************************************************************)
EXTENDS Integers, FiniteSets

CONSTANTS
  Nodes,            \* the nodes (normalized_key)
  MaxRuns,          \* bound: the runs that are in progress at a time
  MaxFailCount      \* max_fail_count of run_batch, 20

VARIABLES
  rows,             \* the rows of proxies
  runs,             \* the runs
  fresh             \* a row's fronts are those of the last look at its node
                    \* (not part of the program)

vars == <<rows, runs, fresh>>

Runs == 1 .. MaxRuns

Kinds == {"batch", "one", "other", "gateway"}
Row   == [there : BOOLEAN, available : BOOLEAN, fails : 0 .. MaxFailCount, fronts : SUBSET Nodes]
New   == [there |-> TRUE, available |-> FALSE, fails |-> 0, fronts |-> {}]
NoRow == [New EXCEPT !.there = FALSE]
Idle  == [kind |-> "none", left |-> {}, fallback |-> {}, stopped |-> FALSE, waiting |-> FALSE, late |-> 0]

TypeOK ==
  /\ rows \in [Nodes -> Row]
  /\ \A r \in Runs : /\ runs[r].kind \in Kinds \cup {"none"} /\ runs[r].left \subseteq Nodes
                     /\ runs[r].fallback \subseteq Nodes
  /\ fresh \in [Nodes -> BOOLEAN]

Init ==
  /\ rows = [n \in Nodes |-> NoRow]
  /\ runs = [r \in Runs |-> Idle]
  /\ fresh = [n \in Nodes |-> TRUE]

There == {n \in Nodes : rows[n].there}

-----------------------------------------------------------------------------
(* The statements.                                                          *)

(* upsert_proxy: a known row keeps what the tests wrote.                    *)
Upsert(n) == rows' = [rows EXCEPT ![n].there = TRUE]

Without(set) == [n \in Nodes |-> IF n \in set THEN NoRow ELSE rows[n]]

Capped(k) == IF k < MaxFailCount THEN k ELSE MaxFailCount

(* Mutant: the fronts are only written when there are any.                  *)
Tested_KeepFronts(row, available, fronts) ==
  IF available
  THEN [row EXCEPT !.available = TRUE, !.fails = 0, !.fronts = IF fronts = {} THEN @ ELSE fronts]
  ELSE [row EXCEPT !.available = FALSE, !.fails = Capped(@ + 1)]

(* update_test_result (fail_count matters up to MaxFailCount).              *)
Tested(row, available, fronts) ==
  IF available THEN [row EXCEPT !.available = TRUE, !.fails = 0, !.fronts = fronts]
  ELSE [row EXCEPT !.available = FALSE, !.fails = Capped(@ + 1), !.fronts = fronts]

(* An UPDATE of a row that is gone changes nothing.                         *)
Write(n, row) == rows' = IF rows[n].there THEN [rows EXCEPT ![n] = row] ELSE rows

(* delete_stale_unavailable.                                                *)
Stale == {n \in There : ~rows[n].available /\ rows[n].fails >= MaxFailCount}

-----------------------------------------------------------------------------
(* A run.                                                                   *)

(* get_candidates_for_test and its like, with whatever filters and limit.  *)
(* "other" is the check of openai, for available nodes, and the speed test. *)
Begin(r, kind) ==
  /\ runs[r].kind = "none" /\ \A q \in Runs : runs[q].kind = "none" => r <= q
  /\ \E left \in (SUBSET There) \ {{}} :
       \E fallback \in IF kind \in {"batch", "one"} THEN {{}} \cup {{f} : f \in There} ELSE {{}} :
         /\ kind = "one" => Cardinality(left) = 1
         /\ runs' = [runs EXCEPT ![r] = [Idle EXCEPT !.kind = kind, !.left = left, !.fallback = fallback]]
  /\ UNCHANGED <<rows, fresh>>

(* stop_task, for the kinds that are tasks.                                 *)
RequestStop(r) ==
  /\ runs[r].kind \in {"batch", "other"} /\ ~runs[r].stopped
  /\ runs' = [runs EXCEPT ![r].stopped = TRUE]
  /\ UNCHANGED <<rows, fresh>>

(* stop_cb before each result is waited for: a run that is to stop drops    *)
(* the looks under way.                                                     *)
Checked(r) ==
  runs' = [runs EXCEPT ![r] = IF @.stopped THEN Idle ELSE [@ EXCEPT !.waiting = TRUE]]

NextResult(r) ==
  /\ runs[r].left # {} /\ ~runs[r].waiting
  /\ Checked(r)
  /\ UNCHANGED <<rows, fresh>>

Done(r, n) ==
  runs' = [runs EXCEPT ![r].left = @ \ {n}, ![r].waiting = FALSE,
                       ![r].late = IF runs[r].stopped THEN @ + 1 ELSE @]

Found(n, fronts) == fresh' = [fresh EXCEPT ![n] = ~rows[n].there \/ rows'[n].fronts = fronts]

(* Directly, or else through each of the fallback fronts; whatever the look *)
(* says goes into the row.                                                  *)
TestResult(r, n) ==
  /\ runs[r].kind \in {"batch", "one"}
  /\ \/ Write(n, Tested(rows[n], TRUE, {})) /\ Found(n, {})
     \/ \E fronts \in SUBSET (runs[r].fallback \ {n}) :
          Write(n, Tested(rows[n], fronts # {}, fronts)) /\ Found(n, fronts)

(* The gateway's check looks through the front of the route in use, and     *)
(* leaves that out of what it writes.                                       *)
GatewayResult(r, n) ==
  /\ runs[r].kind = "gateway"
  /\ \E available \in BOOLEAN : Write(n, Tested(rows[n], available, {})) /\ Found(n, {})

(* update_openai_result and update_speed_test_result write columns of their *)
(* own.                                                                     *)
OpenaiResult(r) == runs[r].kind = "other" /\ UNCHANGED <<rows, fresh>>
SpeedResult(r)  == runs[r].kind = "other" /\ UNCHANGED <<rows, fresh>>

Result(r) ==
  /\ runs[r].waiting
  /\ \E n \in runs[r].left :
       Done(r, n) /\ (TestResult(r, n) \/ GatewayResult(r, n) \/ OpenaiResult(r) \/ SpeedResult(r))

(* The end of a batch that was not stopped.                                 *)
End(r) ==
  /\ runs[r].kind # "none" /\ runs[r].left = {}
  /\ rows' = IF runs[r].kind = "batch" THEN Without(Stale) ELSE rows
  /\ runs' = [runs EXCEPT ![r] = Idle]
  /\ UNCHANGED fresh

-----------------------------------------------------------------------------
(* Meanwhile: imports and deletions.                                        *)
Import(n) == Upsert(n) /\ UNCHANGED <<runs, fresh>>

DeleteUnavailable ==
  rows' = Without({n \in There : ~rows[n].available}) /\ UNCHANGED <<runs, fresh>>

DeleteByKeys(n) == rows' = Without({n}) /\ UNCHANGED <<runs, fresh>>

Step(r) == NextResult(r) \/ Result(r) \/ End(r)

Next ==
  \/ \E r \in Runs : (\E kind \in Kinds : Begin(r, kind)) \/ RequestStop(r) \/ Step(r)
  \/ DeleteUnavailable
  \/ \E n \in Nodes : Import(n) \/ DeleteByKeys(n)

Spec == Init /\ [][Next]_vars

-----------------------------------------------------------------------------
(* Properties.                                                              *)

(* Whatever runs, health checks and imports overlap, what is on record of a *)
(* node is of one look: a node that is offered has no failures, and the     *)
(* fronts are those through which it was last reached.  It is why           *)
(* mark_unavailable_by_fail_count, which looks for available nodes with     *)
(* failures, finds none.  And a run that was told to stop writes the result *)
(* it waits for and no other, however many of its looks are under way.      *)
RowIsOfOneLook ==
  /\ \A n \in Nodes : (rows[n].available => rows[n].fails = 0) /\ (rows[n].fronts # {} => fresh[n])
  /\ \A r \in Runs : runs[r].late <= 1
=============================================================================
