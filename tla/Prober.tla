------------------------------- MODULE Prober -------------------------------
(***************************************************************************)
(* One look at a node through a sing-box of its own:                       *)
(* proxypool/tester/singbox.py, and the fetch of a subscription through a  *)
(* node in collector/fetcher.py, which is built the same way.              *)
(*                                                                         *)
(* A look asks the kernel for a free port and gives it back, starts a      *)
(* sing-box that is to listen there, waits until something does, and runs  *)
(* curl through it.  Many looks run at a time, as threads or coroutines.   *)
(***************************************************************************)
EXTENDS Naturals, FiniteSets

CONSTANTS
  Probes,           \* the looks that may run at a time
  ProbePorts        \* the local ports

Front  == "front"
Tcp    == "tcp"
Nobody == "nobody"
NoPort == 0

VARIABLES
  probes,           \* where each look stands
  boxes,            \* its sing-box
  answers,          \* what it said when it last ended, and of which node
  shared            \* two looks were given one port (not part of the program)

vars == <<probes, boxes, answers, shared>>

(* What the looks tell apart: a plain probe, one through a front proxy, and *)
(* the others, which only run one curl.  A node is named after the look at  *)
(* it.                                                                      *)
Modes  == {"probe", "front", "curl"}
Stages == {"idle", "given", "waiting", "curl", "unlock", "fallback", "stopping"}
Idle   == [stage |-> "idle", mode |-> "probe", port |-> NoPort]
Unavailable == [available |-> FALSE, of |-> Nobody, unlockOf |-> Nobody]
Reached(node) == [available |-> TRUE, of |-> node, unlockOf |-> Nobody]

TypeOK ==
  /\ probes \in [Probes -> [stage : Stages, mode : Modes, port : ProbePorts \cup {NoPort}]]
  /\ boxes \in [Probes -> {"none", "starting", "up", "exited"}]
  /\ answers \in [Probes -> [available : BOOLEAN, of : Probes \cup {Front, Tcp, Nobody},
                           unlockOf : Probes \cup {Front, Nobody}]]
  /\ shared \in BOOLEAN

Init ==
  /\ probes = [p \in Probes |-> Idle]
  /\ boxes = [p \in Probes |-> "none"]
  /\ answers = [p \in Probes |-> Unavailable]
  /\ shared = FALSE

Listeners(port) == {q \in Probes : boxes[q] = "up" /\ probes[q].port = port}

-----------------------------------------------------------------------------
(* Going on to a stage; the end, with an answer; or the finally clause.     *)

To(p, stage)  == probes' = [probes EXCEPT ![p].stage = stage]
Says(p, a)    == answers' = [answers EXCEPT ![p] = a]
Finally(p)    == IF boxes[p] = "none" THEN probes' = [probes EXCEPT ![p] = Idle] ELSE To(p, "stopping")
Gives(p, a)   == Says(p, a) /\ Finally(p)

(* Only a plain probe tries a connection to the node itself instead.        *)
GivesUp(p) ==
  \/ probes[p].mode = "probe" /\ To(p, "fallback") /\ UNCHANGED answers
  \/ probes[p].mode # "probe" /\ Gives(p, Unavailable)

(* _find_free_port: nobody listens there now, and nobody is kept from       *)
(* being given it as well.                                                  *)
FindPort(p, mode) ==
  \E port \in ProbePorts :
    /\ Listeners(port) = {}
    /\ probes' = [probes EXCEPT ![p] = [stage |-> "given", mode |-> mode, port |-> port]]
    /\ shared' = (shared \/ \E q \in Probes \ {p} : probes[q].port = port)

(* The protocol may be unknown to sing-box, or sing-box missing, or there   *)
(* may be no socket: then there is no sing-box at all.                      *)
Begin(p, mode) ==
  /\ probes[p].stage = "idle" /\ Says(p, Unavailable) /\ UNCHANGED boxes
  /\ FindPort(p, mode) \/ UNCHANGED <<probes, shared>>

(* probe and probe_async: without a sing-box a connection to the node is    *)
(* tried.                                                                   *)
LookAtNode(p) ==
  \/ Begin(p, "probe")
  \/ /\ probes[p].stage = "idle" /\ Says(p, Unavailable)
     /\ To(p, "fallback") /\ UNCHANGED <<boxes, shared>>

LookThroughFront(p) == Begin(p, "front")

(* The looks that want the text or the speed of one URL.                    *)
SpeedTest(p)     == Begin(p, "curl")
FetchText(p)     == Begin(p, "curl")
FetchJson(p)     == Begin(p, "curl")

Spawn(p) ==
  /\ probes[p].stage = "given"
  /\ boxes' = [boxes EXCEPT ![p] = "starting"] /\ To(p, "waiting")
  /\ UNCHANGED <<answers, shared>>

(* _wait_port: whatever listens there will do.  curl may be missing, which  *)
(* the looks that only run one find before they start.                      *)
Connected(p) ==
  /\ probes[p].stage = "waiting" /\ Listeners(probes[p].port) # {}
  /\ \/ To(p, "curl") /\ UNCHANGED answers
     \/ probes[p].mode \in {"probe", "front"} /\ GivesUp(p)
  /\ UNCHANGED <<boxes, shared>>

(* Whether the sing-box has exited is not looked at: the time runs out.     *)
StartupTimeout(p) ==
  /\ probes[p].stage = "waiting"
  /\ GivesUp(p) /\ UNCHANGED <<boxes, shared>>

(* Mutant: with a front proxy, the route ends at the front.                 *)
FinalNode_Front(q) == IF probes[q].mode = "front" THEN Front ELSE q

(* The node where the route of a sing-box's configuration ends.             *)
FinalNode(q) == q

(* curl tries the test URLs in turn; without a listener all of them fail.   *)
(* With --max-time each of them ends.  A node that answered is then asked   *)
(* for openai.                                                              *)
Curl(p) ==
  /\ probes[p].stage = "curl"
  /\ \/ \E q \in Listeners(probes[p].port) :
          IF probes[p].mode = "curl" THEN Gives(p, Reached(FinalNode(q)))
          ELSE Says(p, Reached(FinalNode(q))) /\ To(p, "unlock")
     \/ Gives(p, Unavailable)
  /\ UNCHANGED <<boxes, shared>>

(* _check_openai_unlock: a second curl through whatever listens by then; if *)
(* it fails nothing is said of openai, and the node stays available.        *)
Unlock(p) ==
  /\ probes[p].stage = "unlock"
  /\ \/ \E q \in Listeners(probes[p].port) : Gives(p, [answers[p] EXCEPT !.unlockOf = FinalNode(q)])
     \/ Finally(p) /\ UNCHANGED answers
  /\ UNCHANGED <<boxes, shared>>

(* _tcp_fallback, within the try: the sing-box still runs.                  *)
Fallback(p) ==
  /\ probes[p].stage = "fallback"
  /\ Gives(p, Reached(Tcp)) \/ Gives(p, Unavailable)
  /\ UNCHANGED <<boxes, shared>>

(* Mutant: a sing-box that ignores SIGTERM is left alone.                   *)
StopProcess_TermOnly(p) ==
  \/ boxes' = [boxes EXCEPT ![p] = "none"]
  \/ boxes[p] # "exited" /\ UNCHANGED boxes

(* _stop_process: SIGTERM, and SIGKILL after a second.                      *)
StopProcess(p) == boxes' = [boxes EXCEPT ![p] = "none"]

Stop(p) ==
  /\ probes[p].stage = "stopping"
  /\ StopProcess(p)
  /\ probes' = [probes EXCEPT ![p] = Idle]
  /\ UNCHANGED <<answers, shared>>

-----------------------------------------------------------------------------
(* The sing-box binds its port, or exits: because the port is taken, or for *)
(* reasons of its own; or it never comes up.                                *)
BoxBinds(p) ==
  /\ boxes[p] = "starting"
  /\ boxes' = [boxes EXCEPT ![p] = IF Listeners(probes[p].port) = {} THEN "up" ELSE "exited"]
  /\ UNCHANGED <<probes, answers, shared>>

BoxExits(p) ==
  /\ boxes[p] \in {"starting", "up"}
  /\ boxes' = [boxes EXCEPT ![p] = "exited"]
  /\ UNCHANGED <<probes, answers, shared>>

Step(p) ==
  \/ Spawn(p) \/ Connected(p) \/ StartupTimeout(p) \/ Curl(p) \/ Unlock(p) \/ Fallback(p) \/ Stop(p)

Next ==
  \E p \in Probes :
    \/ LookAtNode(p) \/ LookThroughFront(p) \/ SpeedTest(p) \/ FetchText(p) \/ FetchJson(p)
    \/ Step(p) \/ BoxBinds(p) \/ BoxExits(p)

Spec == Init /\ [][Next]_vars /\ \A p \in Probes : WF_vars(Step(p))

-----------------------------------------------------------------------------
(* Properties.                                                              *)

(* Unless two looks were given one port at a time, what is said of a node   *)
(* was measured at that node, or is that its address takes a connection;    *)
(* what is said of openai, always at that node.                             *)
(* With a shared port it need not be: _wait_port finds the sing-box of the  *)
(* other look.                                                              *)
AnswerIsOfTheNode ==
  \A p \in Probes : answers[p].available /\ ~shared =>
    answers[p].of \in {p, Tcp} /\ answers[p].unlockOf \in {p, Nobody}

(* A look ends, whatever its sing-box does, and its sing-box with it: no    *)
(* process or port is left behind by a batch of thousands.                  *)
EveryLookEnds ==
  \A p \in Probes : probes[p].stage # "idle" ~> probes[p].stage = "idle" /\ boxes[p] = "none"
=============================================================================
