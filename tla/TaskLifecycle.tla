---------------------------- MODULE TaskLifecycle ----------------------------
(***************************************************************************)
(* What proxypool/tasks/manager.py promises those who start, list, stop    *)
(* and delete background tasks: the life of a task, without the table, the *)
(* order list, the threads and the places where these look at the flag.    *)
(* TaskManager implements it.                                              *)
(***************************************************************************)
CONSTANT TaskId      \* the tasks

VARIABLE life        \* the phase of each task, and whether it was asked to stop

Ended  == {"success", "failed", "cancelled"}
Phases == {"none", "queued", "running", "gone"} \cup Ended

At(phase) == [phase |-> phase, asked |-> FALSE]

LifeInit == life = [t \in TaskId |-> At("none")]

(* A task is queued; ended ones may have to go to make room.               *)
Start(t) ==
  /\ life[t].phase = "none"
  /\ \E gone \in SUBSET {u \in TaskId : life[u].phase \in Ended} :
       life' = [u \in TaskId |->
                  IF u = t THEN At("queued") ELSE IF u \in gone THEN At("gone") ELSE life[u]]

Run(t) ==
  life[t].phase = "queued" /\ life' = [life EXCEPT ![t].phase = "running"]

(* A queued task is cancelled on the spot, a running one is asked.         *)
AskToStop(t) ==
  \/ /\ life[t].phase = "queued"
     /\ life' = [life EXCEPT ![t] = [phase |-> "cancelled", asked |-> TRUE]]
  \/ /\ life[t].phase = "running"
     /\ life' = [life EXCEPT ![t] = [phase |-> "running", asked |-> TRUE]]

(* It ends as it likes, but as cancelled only if it was asked to stop.     *)
End(t, outcome) ==
  /\ life[t].phase = "running"
  /\ outcome = "cancelled" => life[t].asked
  /\ life' = [life EXCEPT ![t].phase = outcome]

(* What has ended may go, and does not come back.                          *)
Forget(t) ==
  life[t].phase \in Ended /\ life' = [life EXCEPT ![t] = At("gone")]

LifeNext ==
  \E t \in TaskId :
    \/ Start(t) \/ Run(t) \/ AskToStop(t) \/ Forget(t)
    \/ \E outcome \in Ended : End(t, outcome)

LifeSpec == LifeInit /\ [][LifeNext]_life
=============================================================================
