----------------------------- MODULE Collector -----------------------------
(***************************************************************************)
(* Collecting nodes from subscriptions and uploads:                        *)
(* proxypool/collector/service.py, the rows of subscriptions and the       *)
(* inserts into proxies of storage/sqlite.py, and the handlers and tasks   *)
(* of routers/subscriptions.py, routers/proxies.py and api/app.py that     *)
(* start a collection or edit the subscriptions meanwhile.                 *)
(*                                                                         *)
(* A collection runs in a thread and holds no lock: each statement on the  *)
(* database is a step of its own.  It works on the subscriptions as they   *)
(* were when it began, and on the number of nodes there were when it began *)
(* on a text.                                                              *)
(***************************************************************************)
EXTENDS Integers, Sequences, FiniteSets, SequencesExt

CONSTANTS
  Keys,             \* the nodes (normalized_key)
  Urls,             \* the subscription URLs
  Texts,            \* what an URL may serve: sequences of nodes
  MaxCollectors,    \* bound: the collections that run at a time
  MaxProxyCount,    \* max_proxy_count
  MaxSubs,          \* bound: subscriptions ever created
  MaxStarted        \* bound: collections ever started

VARIABLES
  proxies,          \* the keys of the rows of proxies
  subscriptions,    \* the rows of subscriptions, by id
  jobs,             \* the collections
  started           \* how many there were (not part of the program)

Collectors == 1 .. MaxCollectors

vars == <<proxies, subscriptions, jobs, started>>

Ids    == 1 .. MaxSubs
NoUrl  == "nourl"
Row    == [there : BOOLEAN, url : Urls \cup {NoUrl}, enabled : BOOLEAN,
           status : {"", "success", "failed"}]
NoRow  == [there |-> FALSE, url |-> NoUrl, enabled |-> FALSE, status |-> ""]
Idle   == [stage |-> "idle", todo |-> <<>>, left |-> <<>>, count |-> 0, found |-> "", again |-> FALSE]
Stages == {"idle", "next", "ref", "create", "retry", "fetch", "count", "collect", "mark"}

TypeOK ==
  /\ proxies \subseteq Keys
  /\ subscriptions \in [Ids -> Row]
  /\ started \in 0 .. MaxStarted
  /\ \A c \in Collectors :
       /\ jobs[c].stage \in Stages /\ Range(jobs[c].left) \subseteq Keys
       /\ jobs[c].found \in {"", "nodes", "none", "broken"}
       /\ \A i \in DOMAIN jobs[c].todo :
            jobs[c].todo[i].id \in Ids \cup {0} /\ jobs[c].todo[i].url \in Urls \cup {NoUrl}

Init ==
  /\ proxies = {} /\ started = 0
  /\ subscriptions = [i \in Ids |-> NoRow]
  /\ jobs = [c \in Collectors |-> Idle]

Rows    == {i \in Ids : subscriptions[i].there}
Enabled == {i \in Rows : subscriptions[i].enabled}
Unused  == {i \in Ids : subscriptions[i].url = NoUrl}

-----------------------------------------------------------------------------
(* The rows.  An id is never given twice (AUTOINCREMENT).                   *)

Insertable(url) == \A i \in Rows : subscriptions[i].url # url

Inserted(url) ==
  LET id == CHOOSE i \in Unused : \A j \in Unused : i <= j
  IN  [subscriptions EXCEPT ![id] = [there |-> TRUE, url |-> url, enabled |-> TRUE, status |-> ""]]

CreateSubscription(url) ==
  /\ Insertable(url) /\ Unused # {}
  /\ subscriptions' = Inserted(url)
  /\ UNCHANGED <<proxies, jobs, started>>

UpdateSubscription(i) ==
  /\ i \in Rows
  /\ \/ subscriptions' = [subscriptions EXCEPT ![i].enabled = ~@]
     \/ \E url \in Urls : Insertable(url) /\ subscriptions' = [subscriptions EXCEPT ![i].url = url]
  /\ UNCHANGED <<proxies, jobs, started>>

Gone(set) == [i \in Ids |-> IF i \in set THEN [subscriptions[i] EXCEPT !.there = FALSE, !.status = ""]
                            ELSE subscriptions[i]]

DeleteSubscription(i) ==
  /\ i \in Rows
  /\ subscriptions' = Gone({i})
  /\ UNCHANGED <<proxies, jobs, started>>

DeleteUnavailableSubscriptions(includeDisabled) ==
  LET set == {i \in Rows : \/ subscriptions[i].status = "failed"
                           \/ includeDisabled /\ ~subscriptions[i].enabled}
  IN  /\ set # {}
      /\ subscriptions' = Gone(set)
      /\ UNCHANGED <<proxies, jobs, started>>

DeleteProxies ==
  /\ \E set \in (SUBSET proxies) \ {{}} : proxies' = proxies \ set
  /\ UNCHANGED <<subscriptions, jobs, started>>

(* Mutant: the result is written as a new row when there is none.           *)
Marked_Upsert(item, status) ==
  [subscriptions EXCEPT ![item.id].status = status, ![item.id].there = TRUE]

(* mark_subscription_result: nothing when the row is gone.                  *)
Marked(item, status) ==
  IF subscriptions[item.id].there THEN [subscriptions EXCEPT ![item.id].status = status]
  ELSE subscriptions

-----------------------------------------------------------------------------
(* A collection.                                                            *)

Becomes(c, job) == jobs' = [jobs EXCEPT ![c] = job]
At(c, stage)    == jobs[c].stage = stage
Item(c)         == Head(jobs[c].todo)
Rest(c)         == [jobs[c] EXCEPT !.stage = "next", !.todo = Tail(@), !.count = 0, !.found = "", !.again = FALSE]

Start(c) ==
  /\ At(c, "idle") /\ \A d \in Collectors : At(d, "idle") => c <= d
  /\ started < MaxStarted /\ started' = started + 1
  /\ UNCHANGED <<proxies, subscriptions>>

(* A refresh takes the subscriptions as they are now.  An import has URLs,  *)
(* or texts that name URLs.                                                 *)
Refresh(c) ==
  /\ Start(c)
  /\ \E order \in SetToAllKPermutations(Enabled) :
       /\ Len(order) = Cardinality(Enabled)
       /\ Becomes(c, [Idle EXCEPT !.stage = "next",
                        !.todo = [n \in DOMAIN order |->
                                    [id |-> order[n], url |-> subscriptions[order[n]].url]]])

RefreshOne(c, i) ==
  /\ Start(c) /\ i \in Rows
  /\ Becomes(c, [Idle EXCEPT !.stage = "fetch", !.todo = <<[id |-> i, url |-> subscriptions[i].url]>>])

Import(c, text, refs) ==
  /\ Start(c)
  /\ Becomes(c, [Idle EXCEPT !.stage = "count", !.left = text,
                   !.todo = <<[id |-> 0, url |-> NoUrl]>> \o [n \in DOMAIN refs |-> [id |-> 0, url |-> refs[n]]]])

(* A refresh that is a task may be stopped before each subscription.        *)
Continue(c) ==
  /\ At(c, "next")
  /\ \/ jobs[c].todo = <<>> /\ Becomes(c, Idle)
     \/ jobs[c].todo # <<>> /\ Item(c).id # 0 /\ Becomes(c, Idle)
     \/ /\ jobs[c].todo # <<>>
        /\ Becomes(c, [jobs[c] EXCEPT !.stage = IF Item(c).id = 0 THEN "ref" ELSE "fetch"])
  /\ UNCHANGED <<proxies, subscriptions>>

(* _ensure_subscription_for_url finds the row of the URL ...                *)
FindRef(c) ==
  /\ At(c, "ref") \/ At(c, "retry")
  /\ \E i \in Rows :
       /\ subscriptions[i].url = Item(c).url
       /\ Becomes(c, [jobs[c] EXCEPT !.stage = "fetch", !.todo[1].id = i])
  /\ UNCHANGED <<proxies, subscriptions>>

(* ... or makes it.  When another import made it first it looks again, and  *)
(* ends with an error if that row is gone already.                          *)
MissRef(c) ==
  /\ At(c, "ref") \/ At(c, "retry")
  /\ \A i \in Rows : subscriptions[i].url # Item(c).url
  /\ Becomes(c, IF At(c, "retry") THEN Idle ELSE [jobs[c] EXCEPT !.stage = "create"])
  /\ UNCHANGED <<proxies, subscriptions>>

CreateRef(c) ==
  /\ At(c, "create")
  /\ IF Insertable(Item(c).url) /\ Unused # {}
     THEN /\ subscriptions' = Inserted(Item(c).url)
          /\ Becomes(c, [jobs[c] EXCEPT !.stage = "fetch",
                           !.todo[1].id = CHOOSE i \in Unused : \A j \in Unused : i <= j])
     ELSE Becomes(c, [jobs[c] EXCEPT !.stage = "retry"]) /\ UNCHANGED subscriptions
  /\ UNCHANGED proxies

(* The text, through the update proxy if that setting names a node; if it   *)
(* fails, or brought no node, without.                                      *)
Fetch(c) ==
  /\ At(c, "fetch")
  /\ \/ \E through \in BOOLEAN, text \in Texts :
          /\ through => ~jobs[c].again /\ proxies # {}
          /\ Becomes(c, [jobs[c] EXCEPT !.stage = "count", !.left = text, !.again = ~through])
     \/ ~jobs[c].again /\ proxies # {} /\ Becomes(c, [jobs[c] EXCEPT !.again = TRUE])
     \/ Becomes(c, [jobs[c] EXCEPT !.stage = "mark", !.found = IF @ = "" THEN "broken" ELSE @])
  /\ UNCHANGED <<proxies, subscriptions>>

Count(c) ==
  /\ At(c, "count")
  /\ Becomes(c, [jobs[c] EXCEPT !.stage = "collect", !.count = Cardinality(proxies),
                               !.found = IF jobs[c].left = <<>> THEN "none" ELSE "nodes"])
  /\ UNCHANGED <<proxies, subscriptions>>

(* At the limit even a node that is known already is not updated.           *)
Full(count) == count >= MaxProxyCount

(* upsert_proxy of the text's next node.                                    *)
CollectNode(c) ==
  /\ At(c, "collect") /\ jobs[c].left # <<>>
  /\ LET job == [jobs[c] EXCEPT !.left = Tail(@)]
         key == Head(jobs[c].left)
     IN  IF Full(jobs[c].count) THEN Becomes(c, job) /\ UNCHANGED proxies
         ELSE /\ proxies' = proxies \cup {key}
              /\ Becomes(c, IF key \in proxies THEN job ELSE [job EXCEPT !.count = @ + 1])
  /\ UNCHANGED subscriptions

Collected(c) ==
  /\ At(c, "collect") /\ jobs[c].left = <<>>
  /\ Becomes(c, CASE Item(c).id = 0 -> Rest(c)
                  [] jobs[c].found = "none" /\ ~jobs[c].again ->
                       [jobs[c] EXCEPT !.stage = "fetch", !.again = TRUE]
                  [] OTHER -> [jobs[c] EXCEPT !.stage = "mark"])
  /\ UNCHANGED <<proxies, subscriptions>>

(* A text without a line counts as a success, one of invalid lines does not.*)
Statuses(found) ==
  CASE found = "nodes" -> {"success"} [] found = "none" -> {"success", "failed"} [] OTHER -> {"failed"}

Mark(c) ==
  /\ At(c, "mark")
  /\ \E status \in Statuses(jobs[c].found) : subscriptions' = Marked(Item(c), status)
  /\ Becomes(c, Rest(c))
  /\ UNCHANGED proxies

Step(c) ==
  \/ Continue(c) \/ FindRef(c) \/ MissRef(c) \/ CreateRef(c) \/ Fetch(c) \/ Count(c)
  \/ CollectNode(c) \/ Collected(c) \/ Mark(c)

Edit ==
  \/ \E url \in Urls : CreateSubscription(url)
  \/ \E i \in Ids : UpdateSubscription(i) \/ DeleteSubscription(i)
  \/ \E all \in BOOLEAN : DeleteUnavailableSubscriptions(all)
  \/ DeleteProxies

(* Within the bounds nothing is left to be done.                            *)
Terminating == started = MaxStarted /\ (\A c \in Collectors : At(c, "idle")) /\ UNCHANGED vars

Next ==
  \/ Edit \/ Terminating
  \/ \E c \in Collectors :
       \/ Refresh(c)
       \/ \E i \in Ids : RefreshOne(c, i)
       \/ \E text \in Texts : \E refs \in {<<>>} \cup {<<url>> : url \in Urls} : Import(c, text, refs)
       \/ Step(c) /\ UNCHANGED started

Spec == Init /\ [][Next]_vars

-----------------------------------------------------------------------------
(* Properties.                                                              *)

(* What overlapping collections, imports and deletions may not do.  Each    *)
(* collection may fill the catalogue once more, from a count that is out of *)
(* date, and it never grows beyond that; an URL has one row, however many   *)
(* imports name it at a time; and a subscription that was deleted while it  *)
(* was being refreshed is not brought back by the result.                   *)
CollectorsDoNotClash ==
  /\ [](Cardinality(proxies) <= MaxProxyCount * Cardinality(Collectors))
  /\ [](\A i, j \in Rows : subscriptions[i].url = subscriptions[j].url => i = j)
  /\ [][\A i \in Ids : ~subscriptions[i].there /\ subscriptions[i].url # NoUrl
                         => ~subscriptions'[i].there]_vars
=============================================================================
