--------------------------- MODULE SchemaUpgrade ---------------------------
(***************************************************************************)
(* Opening a database of an earlier version: _init_db and _ensure_columns  *)
(* of proxypool/storage/sqlite.py.                                         *)
(*                                                                         *)
(* Statements of a script, ALTER TABLE, and a CREATE TABLE outside a       *)
(* transaction are durable one by one; the first INSERT opens a            *)
(* transaction, which the commit at the end of _init_db makes durable.  A  *)
(* table is the set of its columns, the empty set when there is none.      *)
(***************************************************************************)
EXTENDS FiniteSets

CONSTANT Sessions           \* the sessions with a lease in the old database

VARIABLES
  tables,           \* proxies, chain_egress_instances and sticky_leases
  leases,           \* the rows of sticky_leases, by session
  legacy,           \* the rows of sticky_leases_legacy or ..._legacy_v2
  start,            \* where the start of the application stands
  interrupted       \* a start was interrupted (not part of the program)

vars == <<tables, leases, legacy, start, interrupted>>

(* "country" stands for the columns of proxies that the script indexes,     *)
(* "fail_count" for the others added since; "route_signature" likewise.     *)
Current ==
  [proxies |-> {"key", "country", "fail_count"},
   chain   |-> {"instance", "endpoint_id", "route_signature"},
   leases  |-> {"session_id", "instance_id", "endpoint_id"}]
Indexed ==
  [proxies |-> {"country"}, chain |-> {"endpoint_id"}, leases |-> {"session_id"}]

(* What the tables of a database in use may have been.                      *)
LeaseTables == {{}, {"account"}, {"session_id"}, {"session_id", "instance_id"}, Current.leases}
OldTables ==
  {t \in [proxies : {{}} \cup {{"key"} \cup c : c \in SUBSET (Current.proxies \ {"key"})},
          chain   : {{}} \cup {{"instance"} \cup c : c \in SUBSET (Current.chain \ {"instance"})},
          leases  : LeaseTables] : t.proxies = {} => t.chain = {} /\ t.leases = {}}

Stages == {"closed", "script", "columns", "leases", "renamed", "created", "open", "failed"}

TypeOK ==
  /\ tables.proxies \subseteq Current.proxies /\ tables.chain \subseteq Current.chain
  /\ tables.leases \in LeaseTables
  /\ leases \subseteq Sessions /\ legacy \subseteq Sessions
  /\ start \in Stages /\ interrupted \in BOOLEAN

Init ==
  /\ tables \in OldTables
  /\ leases = IF tables.leases = {} THEN {} ELSE Sessions
  /\ legacy = {} /\ start = "closed" /\ interrupted = FALSE

(* The script makes the tables there are none of, then indexes them.        *)
Script ==
  /\ start = "closed"
  /\ tables' = [t \in DOMAIN tables |-> IF tables[t] = {} THEN Current[t] ELSE tables[t]]
  /\ start' = IF \A t \in DOMAIN tables : Indexed[t] \subseteq tables'[t] THEN "script" ELSE "failed"
  /\ UNCHANGED <<leases, legacy, interrupted>>

(* The ALTER TABLEs of _ensure_columns, each only where its column lacks.   *)
AddColumns == [tables EXCEPT !.proxies = Current.proxies, !.chain = Current.chain]

(* Any number of them may be done when the process ends, those of proxies   *)
(* before those of chain_egress_instances.                                  *)
EnsureColumns ==
  /\ start = "script"
  /\ \/ tables' = AddColumns /\ start' = "leases" /\ UNCHANGED interrupted
     \/ /\ \/ \E c \in SUBSET Current.proxies : tables' = [tables EXCEPT !.proxies = @ \cup c]
           \/ \E c \in SUBSET Current.chain :
                tables' = [tables EXCEPT !.proxies = Current.proxies, !.chain = @ \cup c]
        /\ start' = "closed" /\ interrupted' = TRUE
  /\ UNCHANGED <<leases, legacy>>

(* A table of sessions without instances gets that column in place.         *)
AddInstanceId ==
  /\ start = "leases" /\ tables.leases = {"session_id"}
  /\ tables' = [tables EXCEPT !.leases = @ \cup {"instance_id"}]
  /\ UNCHANGED <<leases, legacy, start, interrupted>>

(* A table of accounts, or one without endpoints, is renamed, which is      *)
(* durable at once.                                                         *)
RenameLeases ==
  /\ start = "leases" /\ tables.leases \in {{"account"}, {"session_id", "instance_id"}}
  /\ legacy' = leases /\ leases' = {}
  /\ tables' = [tables EXCEPT !.leases = {}]
  /\ start' = "renamed" /\ UNCHANGED interrupted

CreateLeases ==
  /\ start = "renamed"
  /\ tables' = [tables EXCEPT !.leases = Current.leases]
  /\ start' = "created" /\ UNCHANGED <<leases, legacy, interrupted>>

(* Mutant: the renamed table is dropped and its rows are not copied.        *)
CopyLeases_Dropped == leases' = leases /\ legacy' = {}

(* INSERT ... SELECT and DROP TABLE, in one transaction.                    *)
CopyLeases == leases' = leases \cup legacy /\ legacy' = {}

Commit ==
  /\ \/ start = "created" /\ CopyLeases
     \/ start = "leases" /\ tables.leases = Current.leases /\ UNCHANGED <<leases, legacy>>
  /\ start' = "open" /\ UNCHANGED <<tables, interrupted>>

(* The process ends: what was not committed is undone, and the next start   *)
(* finds what was.                                                          *)
Crash ==
  /\ start \notin {"closed", "open", "failed"}
  /\ start' = "closed" /\ interrupted' = TRUE
  /\ UNCHANGED <<tables, leases, legacy>>

Restart ==
  start \in {"open", "failed"} /\ start' = "closed" /\ UNCHANGED <<tables, leases, legacy, interrupted>>

Next ==
  \/ Script \/ EnsureColumns \/ AddInstanceId \/ RenameLeases \/ CreateLeases
  \/ Commit \/ Crash \/ Restart

Spec == Init /\ [][Next]_vars

-----------------------------------------------------------------------------
(* Properties.                                                              *)

(* However often a start is interrupted, an upgrade deletes no lease: it is *)
(* in sticky_leases or in the renamed table.  And an application that has   *)
(* started finds every column it will name, and unless a start was          *)
(* interrupted every lease where it looks for it.                           *)
UpgradeIsSafe ==
  /\ [][leases \cup legacy \subseteq leases' \cup legacy']_vars
  /\ [](start = "open" =>
          /\ \A t \in DOMAIN tables : tables[t] = Current[t]
          /\ interrupted \/ legacy = {})

(* A database whose leases are kept by account opens: that is what the      *)
(* first renaming is for, and what its test says.  It does not hold: the    *)
(* script, which runs first, indexes session_id.                            *)
AccountsAreMigrated ==
  start = "failed" =>
    tables.leases # {"account"} \/ \E t \in {"proxies", "chain"} : tables[t] # Current[t]
=============================================================================
