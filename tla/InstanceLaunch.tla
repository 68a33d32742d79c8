---------------------------- MODULE InstanceLaunch ---------------------------
(***************************************************************************)
(* One instance for many launches: every start of the program tries to     *)
(* hand its request to the process that answers at the socket, and becomes *)
(* that process when nobody does. Processes race each other through        *)
(* probe, unlink, bind and listen; they quit, crash, and answer too late.  *)
(***************************************************************************)
EXTENDS Naturals, FiniteSets

CONSTANTS
    Procs,        \* the launches, each with one request, named like it
    Alone,        \* those that were given --new-instance
    Services,     \* those the session bus started, whose request comes later
    OldVersion,   \* those of another version, whose messages only they understand
    MaxCrashes    \* bound: how many processes are killed

None == "none"

VARIABLES
    pc,          \* where each process is
    path,        \* whose socket is at the path, dead or alive, or None
    listening,   \* the processes with a socket that takes connections
    serving,     \* those of them that read the connections
    backlog,     \* per process, the clients it has not accepted yet
    peer,        \* per client, the process it is connected to
    acked,       \* the clients that were answered
    forward,     \* the services that found another instance
    called,      \* the processes whose request has been made
    opened,      \* per request, the processes that opened it
    crashed      \* the processes that were killed

sockets == <<path, listening, serving, backlog>>
requests == <<peer, acked, forward, called, opened>>
vars == <<pc, sockets, requests, crashed>>

TypeOK ==
    /\ pc \in [Procs -> {"off", "connect", "retry", "ack", "start", "probe", "unlink",
                         "bind", "listen", "running", "exited"}]
    /\ path \in Procs \cup {None}
    /\ serving \subseteq listening /\ listening \subseteq Procs
    /\ backlog \in [Procs -> SUBSET Procs]
    /\ peer \in [Procs -> Procs \cup {None}]
    /\ opened \in [Procs -> SUBSET Procs]

Init ==
    /\ pc = [p \in Procs |-> "off"]
    /\ path = None
    /\ listening = {} /\ serving = {}
    /\ backlog = [p \in Procs |-> {}]
    /\ peer = [p \in Procs |-> None]
    /\ acked = {} /\ forward = {} /\ called = {}
    /\ opened = [p \in Procs |-> {}]
    /\ crashed = {}

Goto(p, where) == pc' = [pc EXCEPT ![p] = where]
Open(p, request) == opened' = [opened EXCEPT ![request] = @ \cup {p}]

(* A connection is taken when there is a socket and its process listens. *)
Answers == path \in listening

(* main(): only an ordinary launch tries to hand over. *)
Launch(p) ==
    /\ pc[p] = "off"
    /\ Goto(p, IF p \in Alone \cup Services THEN "start" ELSE "connect")
    /\ called' = called \cup ({p} \ Services)
    /\ UNCHANGED <<sockets, peer, acked, forward, opened, crashed>>

GiveUp(p) == Goto(p, IF p \in Services THEN "running" ELSE "start")

(* A service that is refused shows the request itself from now on. *)
ShowHere(p) ==
    /\ GiveUp(p)
    /\ forward' = forward \ {p}
    /\ IF p \in Services THEN Open(p, p) ELSE opened' = opened

(* A file that nobody answers at is tried again for as long as it is there. *)
ConnectSlip(p) ==
    /\ pc[p] \in {"connect", "retry"}
    /\ \/ /\ Answers
          /\ Goto(p, "ack")
          /\ backlog' = [backlog EXCEPT ![path] = @ \cup {p}]
          /\ peer' = [peer EXCEPT ![p] = path]
          /\ UNCHANGED <<forward, opened>>
       \/ /\ ~Answers /\ path # None
          /\ Goto(p, "retry")
          /\ UNCHANGED <<backlog, peer, forward, opened>>
       \/ /\ ~Answers /\ path = None
          /\ ShowHere(p)
          /\ UNCHANGED <<backlog, peer>>
    /\ UNCHANGED <<path, listening, serving, acked, called, crashed>>

Connect(p) ==
    /\ pc[p] \in {"connect", "retry"}
    /\ \/ /\ Answers
          /\ Goto(p, "ack")
          /\ backlog' = [backlog EXCEPT ![path] = @ \cup {p}]
          /\ peer' = [peer EXCEPT ![p] = path]
          /\ UNCHANGED <<forward, opened>>
       \/ /\ ~Answers /\ path # None /\ pc[p] = "connect"
          /\ Goto(p, "retry")
          /\ UNCHANGED <<backlog, peer, forward, opened>>
       \/ /\ ~Answers /\ ~(path # None /\ pc[p] = "connect")
          /\ ShowHere(p)
          /\ UNCHANGED <<backlog, peer>>
    /\ UNCHANGED <<path, listening, serving, acked, called, crashed>>

HandedOver(p) ==
    /\ pc[p] = "ack" /\ p \in acked
    /\ Goto(p, IF p \in Services THEN "running" ELSE "exited")
    /\ UNCHANGED <<sockets, requests, crashed>>

(* The connection was closed without an answer, or 50 ms are over; in that *)
(* case the message stays where it is.                                      *)
NotAcked(p) ==
    /\ pc[p] = "ack" /\ p \notin acked
    /\ ShowHere(p)
    /\ UNCHANGED <<sockets, peer, acked, called, crashed>>

(* startUp(): its own request first, then the socket. *)
StartUp(p) ==
    /\ pc[p] = "start"
    /\ Goto(p, IF p \in Alone THEN "running" ELSE "probe")
    /\ IF p \in Services THEN opened' = opened ELSE Open(p, p)
    /\ UNCHANGED <<sockets, peer, acked, forward, called, crashed>>

Probe(p) ==
    /\ pc[p] = "probe"
    /\ Goto(p, CASE path = None -> "bind" [] Answers -> "running" [] OTHER -> "unlink")
    /\ forward' = IF Answers THEN forward \cup ({p} \cap Services) ELSE forward
    /\ UNCHANGED <<sockets, peer, acked, called, opened, crashed>>

Unlink(p) ==
    /\ pc[p] = "unlink"
    /\ path' = None
    /\ Goto(p, "bind")
    /\ UNCHANGED <<listening, serving, backlog, requests, crashed>>

Bind(p) ==
    /\ pc[p] = "bind"
    /\ \/ /\ path = None
          /\ path' = p
          /\ Goto(p, "listen")
          /\ forward' = forward
       \/ /\ path # None
          /\ path' = path
          /\ Goto(p, "running")
          /\ forward' = forward \cup ({p} \cap Services)
    /\ UNCHANGED <<listening, serving, backlog, peer, acked, called, opened, crashed>>

Listen(p) ==
    /\ pc[p] = "listen"
    /\ listening' = listening \cup {p}
    /\ Goto(p, "running")
    /\ UNCHANGED <<path, serving, backlog, requests, crashed>>

(* A start-up task after the first paint; it drains what came before it. *)
StartServing(p) ==
    /\ pc[p] = "running" /\ p \in listening \ serving
    /\ serving' = serving \cup {p}
    /\ UNCHANGED <<pc, path, listening, backlog, requests, crashed>>

Understood(p, c) == p \in OldVersion <=> c \in OldVersion

(* The answer is sent before the message is read. *)
OnNewConnectionSlip(p) ==
    /\ pc[p] = "running" /\ p \in serving
    /\ \E c \in backlog[p] :
          /\ backlog' = [backlog EXCEPT ![p] = @ \ {c}]
          /\ acked' = acked \cup {c}
          /\ IF Understood(p, c) THEN Open(p, c) ELSE opened' = opened
    /\ UNCHANGED <<pc, path, listening, serving, peer, forward, called, crashed>>

OnNewConnection(p) ==
    /\ pc[p] = "running" /\ p \in serving
    /\ \E c \in backlog[p] :
          /\ backlog' = [backlog EXCEPT ![p] = @ \ {c}]
          /\ IF Understood(p, c) THEN acked' = acked \cup {c} /\ Open(p, c)
                              ELSE UNCHANGED <<acked, opened>>
    /\ UNCHANGED <<pc, path, listening, serving, peer, forward, called, crashed>>

(* A FileManager1 call for a process the bus started. *)
ShowRequested(p) ==
    /\ pc[p] = "running" /\ p \in Services \ called
    /\ called' = called \cup {p}
    /\ IF p \in forward THEN Goto(p, "connect") /\ opened' = opened
                        ELSE pc' = pc /\ Open(p, p)
    /\ UNCHANGED <<sockets, peer, acked, forward, crashed>>

Gone(p) ==
    /\ Goto(p, "exited")
    /\ listening' = listening \ {p}
    /\ serving' = serving \ {p}
    /\ backlog' = [backlog EXCEPT ![p] = {}]

HasWindow(p) == p \notin Services \/ \E r \in Procs : p \in opened[r]

(* closeServer() removes the file at the path, whoever's it is by now. A  *)
(* service without a window leaves when it has been idle.                  *)
Quit(p) ==
    /\ pc[p] = "running"
    /\ HasWindow(p) \/ p \in Services
    /\ Gone(p)
    /\ path' = IF p \in listening THEN None ELSE path
    /\ UNCHANGED <<requests, crashed>>

Crash(p) ==
    /\ pc[p] \notin {"off", "exited"}
    /\ Cardinality(crashed) < MaxCrashes
    /\ crashed' = crashed \cup {p}
    /\ Gone(p)
    /\ UNCHANGED <<path, requests>>

Step(p) ==
    \/ Connect(p) \/ HandedOver(p) \/ NotAcked(p)
    \/ StartUp(p) \/ Probe(p) \/ Unlink(p) \/ Bind(p) \/ Listen(p) \/ StartServing(p)
    \/ OnNewConnection(p)

Next == \E p \in Procs : Step(p) \/ Launch(p) \/ ShowRequested(p) \/ Quit(p) \/ Crash(p)

Spec == Init /\ [][Next]_vars
FairSpec == Spec /\ \A p \in Procs : WF_vars(Step(p))

-----------------------------------------------------------------------------
(* No request is lost: a process that exits because another took its       *)
(* request, or that is running, had it opened; and nobody opens it but     *)
(* itself and the one process it was sent to, however the two instances    *)
(* that found one stale socket, a late answer, a crash or a version that   *)
(* is not understood may interleave.                                       *)
NoRequestLost ==
    \A p \in Procs :
        /\ opened[p] \subseteq {p, peer[p]}
        /\ pc[p] \in {"running", "exited"} /\ p \in called /\ p \notin crashed => opened[p] # {}

(* "a hang is not" acceptable (SingleInstance.cpp:163): every request is   *)
(* opened by somebody, unless its process is killed.                       *)
Asked(p) == p \in called
Answered(p) == opened[p] # {} \/ p \in crashed

LaunchesEnd == \A p \in Procs : Asked(p) ~> Answered(p)
-----------------------------------------------------------------------------
(* What the proofs rest on *)

(* A client is waiting with the process it connected to, and has done so   *)
(* once at most; what was answered has been opened.                        *)
ClientInv ==
    \A c \in Procs :
        /\ \A p \in Procs : c \in backlog[p] => peer[c] = p
        /\ opened[c] \subseteq {c, peer[c]}
        /\ c \in acked => opened[c] # {}
        /\ pc[c] = "off" => c \notin called
        /\ pc[c] \in {"connect", "retry"} => c \in called
        /\ pc[c] \in {"connect", "retry"} \/ c \notin called =>
               /\ opened[c] \subseteq {c}
               /\ \A p \in Procs : c \notin backlog[p]

(* A request that has been made is open once its process has started up,   *)
(* or was taken by another.                                                *)
OpenInv ==
    \A p \in Procs :
        pc[p] \in {"probe", "unlink", "bind", "listen", "running", "exited"} /\ p \in called =>
            p \in crashed \/ opened[p] # {}

(* Services start up before they have a request. *)
ServiceInv ==
    \A p \in Services \cap Procs :
        pc[p] \in {"off", "start", "probe", "unlink", "bind", "listen"} => p \notin called

LaunchInv == ClientInv /\ OpenInv /\ ServiceInv
=============================================================================
