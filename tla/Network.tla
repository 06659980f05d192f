------------------------------- MODULE Network -------------------------------
(***************************************************************************)
(* LxaNetwork.run (lxa_iobus/network.py): the life of a bus connection and *)
(* the tasks it gathers -- the interface watcher, the send and receive     *)
(* threads, the scan that gives node ids to new devices and lists them,    *)
(* and the ping that takes silent nodes off the list.                      *)
(*                                                                         *)
(* One step of the scan, "search", is the whole of module FastScan, and    *)
(* one ping or one enumeration stands for the SDO calls of module          *)
(* SdoClient.  The devices are external: each has a node id of its own,    *)
(* kept apart here from the id under which the server lists it, and drops  *)
(* that id when nobody polls it (docstring of ServerTimeout).  All of them *)
(* have a locator, so that a ping reaches them; module Directory has those *)
(* without, and the steps of an enumeration.                               *)
(***************************************************************************)
EXTENDS Integers

CONSTANTS
    Nodes,        \* devices that may be plugged in
    NoNode,       \* stands for an id that is not listed
    Enumerating,  \* devices whose firmware lists its protocols
    LastId,       \* highest id that _gen_canopen_node_id offers (128)
    IspId,        \* id of a device in its bootloader (125)
    MayRefuse,    \* a ping may be answered by an SDO abort
    MaxLosses,    \* bound: messages lost on a working bus
    MaxUnplugs,   \* bound: devices taken off the bus
    MaxDowns      \* bound: times the CAN interface goes down

ASSUME NetworkAssumption ==
    /\ NoNode \notin Nodes /\ Enumerating \subseteq Nodes
    /\ LastId \in Nat \ {0} /\ IspId \in 1..LastId
    /\ MayRefuse \in BOOLEAN
    /\ MaxLosses \in Nat /\ MaxUnplugs \in Nat /\ MaxDowns \in Nat

Ids == 1..LastId
NodeIds == Ids \ {IspId}

VARIABLES
    running,   \* LxaNetwork._running
    ifState,   \* LxaNetwork._interface_state
    run,       \* where run() is
    watch,     \* update_interface_state is running
    threads,   \* the send and receive threads are running
    scan,      \* where lss_fast_scan is
    target,    \* the local variables lss and node_id of lss_fast_scan
    inSetup,   \* LxaNetwork._node_in_setup
    ping,      \* where lss_ping is
    todo,      \* ids it still has to ping in this round
    nodes,     \* LxaNetwork.nodes: the listed device of each node id
    killed,    \* a thread has sent SIGTERM to the process
    ifUp,      \* operstate of the interface
    on,        \* devices with power on the bus
    config,    \* devices in LSS configuration mode
    devId,     \* devId[n]: the node id device n answers to, or 0
    losses, unplugs, downs

life    == <<running, ifState, run, watch, threads>>
scanner == <<scan, target, inSetup>>
pinger  == <<ping, todo>>
server  == <<life, scanner, pinger, nodes, killed>>
devices == <<on, config, devId>>
bounds  == <<losses, unplugs, downs>>
vars    == <<server, ifUp, devices, bounds>>

-----------------------------------------------------------------------------
NoTarget == [node |-> NoNode, id |-> 0]
Nothing == [i \in Ids |-> NoNode]

(* A server starts on a bus where an earlier one may have left node ids.   *)
Init ==
    /\ running = TRUE /\ ifState = FALSE /\ run = "await"
    /\ watch = FALSE /\ threads = FALSE
    /\ scan = "off" /\ target = NoTarget /\ inSetup = NoTarget
    /\ ping = "off" /\ todo = {}
    /\ nodes = Nothing
    /\ killed = FALSE
    /\ ifUp \in BOOLEAN
    /\ on \in SUBSET Nodes
    /\ config \in SUBSET on
    /\ devId \in [Nodes -> {0} \cup NodeIds]
    /\ \A n \in Nodes \ on : devId[n] = 0
    /\ losses = 0 /\ unplugs = 0 /\ downs = 0

Listed(n) == \E i \in Ids : nodes[i] = n
InReach(n) == \E i \in Ids : nodes[i] = n /\ devId[n] = i
Hearing(i) == {n \in on : devId[n] = i}
Unconfigured == {n \in on \ config : devId[n] = 0}

Reachable == ifUp /\ threads

(* A request and its reply make it (ok), or one of them does not.          *)
Exchange(ok) ==
    \/ ok = Reachable /\ UNCHANGED losses
    \/ ~ok /\ Reachable /\ losses < MaxLosses /\ losses' = losses + 1

-----------------------------------------------------------------------------
(* run: wait for the interface, open the bus, gather the tasks.            *)

Connected == running /\ ifState

OpenBus ==
    /\ run = "await" /\ running /\ ifUp
    /\ run' = "gather" /\ ifState' = TRUE
    /\ watch' = TRUE /\ threads' = TRUE
    /\ scan' = "enter" /\ ping' = "sleep"
    /\ UNCHANGED <<running, target, inSetup, todo, nodes, killed>>
    /\ UNCHANGED <<ifUp, devices, bounds>>

(* The interface goes away between the check and the opening of the bus.   *)
OpenBusFails ==
    /\ run = "await" /\ running /\ ifUp /\ downs < MaxDowns
    /\ run' = "raised" /\ ifState' = TRUE
    /\ ifUp' = FALSE /\ downs' = downs + 1
    /\ UNCHANGED <<running, watch, threads, scanner, pinger, nodes, killed>>
    /\ UNCHANGED <<devices, losses, unplugs>>

EndRun ==
    /\ run = "await" /\ ~running /\ run' = "ended"
    /\ UNCHANGED <<running, ifState, watch, threads, scanner, pinger>>
    /\ UNCHANGED <<nodes, killed, ifUp, devices, bounds>>

(* Mutant: the nodes of the old connection stay listed.                    *)
KeepNodes ==
    /\ run = "gather" /\ ~watch /\ ~threads /\ scan = "off" /\ ping = "off"
    /\ run' = "await"
    /\ UNCHANGED <<running, ifState, watch, threads, scanner, pinger, nodes>>
    /\ UNCHANGED <<killed, ifUp, devices, bounds>>

(* All gathered tasks have returned: forget the nodes and start again.     *)
Disconnect ==
    /\ run = "gather" /\ ~watch /\ ~threads /\ scan = "off" /\ ping = "off"
    /\ run' = "await" /\ nodes' = Nothing
    /\ UNCHANGED <<running, ifState, watch, threads, scanner, pinger, killed>>
    /\ UNCHANGED <<ifUp, devices, bounds>>

Shutdown ==
    /\ running /\ running' = FALSE
    /\ UNCHANGED <<ifState, run, watch, threads, scanner, pinger, nodes>>
    /\ UNCHANGED <<killed, ifUp, devices, bounds>>

UpdateInterfaceState ==
    /\ watch
    /\ ifState' = IF running THEN ifUp ELSE ifState
    /\ watch' = (running /\ ifUp)
    /\ UNCHANGED <<running, run, threads, scanner, pinger, nodes, killed>>
    /\ UNCHANGED <<ifUp, devices, bounds>>

(* Mutant: the threads do not look at the state of the interface.          *)
ThreadsIgnoreInterface ==
    /\ threads /\ ~running /\ threads' = FALSE
    /\ UNCHANGED <<running, ifState, run, watch, scanner, pinger, nodes>>
    /\ UNCHANGED <<killed, ifUp, devices, bounds>>

(* Mutant: the threads do not look at _running.                            *)
ThreadsIgnoreShutdown ==
    /\ threads /\ ~ifState /\ threads' = FALSE
    /\ UNCHANGED <<running, ifState, run, watch, scanner, pinger, nodes>>
    /\ UNCHANGED <<killed, ifUp, devices, bounds>>

(* An idle send or receive thread sees that the connection is over.        *)
ThreadsReturn ==
    /\ threads /\ ~Connected /\ threads' = FALSE
    /\ UNCHANGED <<running, ifState, run, watch, scanner, pinger, nodes>>
    /\ UNCHANGED <<killed, ifUp, devices, bounds>>

(* A busy one gets an error other than ENOBUFS from a socket whose         *)
(* interface is down.  With ENOBUFS, as on a bus that is off, the frame is *)
(* dropped and the thread goes on.                                         *)
ThreadsFail ==
    /\ threads /\ ~ifUp /\ killed' = TRUE
    /\ UNCHANGED <<life, scanner, pinger, nodes, ifUp, devices, bounds>>

-----------------------------------------------------------------------------
(* lss_fast_scan.  lss_request raises LxaShutdown when the connection is   *)
(* over, and the loop ends then too.                                       *)

ScanShutdown ==
    /\ scan \in {"enter", "invalidate", "leave",
                 "search", "configure", "operate"}
    /\ ~Connected
    /\ scan' = "off"
    /\ UNCHANGED <<life, target, inSetup, pinger, nodes, killed>>
    /\ UNCHANGED <<ifUp, devices, bounds>>

ScanAt(here, there) ==
    /\ scan = here /\ Connected /\ scan' = there
    /\ UNCHANGED <<life, pinger, killed, ifUp, on, unplugs, downs>>

SwitchAllToConfiguration ==
    /\ ScanAt("enter", "invalidate")
    /\ \E ok \in BOOLEAN :
          Exchange(ok) /\ config' = IF ok THEN on ELSE config
    /\ UNCHANGED <<target, inSetup, nodes, devId>>

(* Mutant: the ids of the last run stay valid.                             *)
KeepNodeIds ==
    /\ ScanAt("invalidate", "leave")
    /\ UNCHANGED <<target, inSetup, nodes, config, devId, losses>>

InvalidateNodeIds ==
    /\ ScanAt("invalidate", "leave")
    /\ \E ok \in BOOLEAN :
          /\ Exchange(ok)
          /\ devId' = [n \in Nodes |->
                          IF ok /\ n \in config THEN 0 ELSE devId[n]]
    /\ UNCHANGED <<target, inSetup, nodes, config>>

SwitchAllToOperation ==
    /\ \/ ScanAt("leave", "search") /\ UNCHANGED inSetup
       \/ ScanAt("operate", "enumerate") /\ inSetup' = target
    /\ \E ok \in BOOLEAN :
          Exchange(ok) /\ config' = IF ok THEN {} ELSE config
    /\ UNCHANGED <<target, nodes, devId>>

(* Mutant: the ids in use are not looked at.                               *)
LowestNodeId(i) == i \in NodeIds /\ \A j \in NodeIds : i <= j

(* Mutant: the id of the bootloader is not left out.                       *)
FreeIdWithIsp(i) ==
    LET free == {j \in Ids : nodes[j] = NoNode}
    IN  IF free = {} THEN i = 0
        ELSE i \in free /\ \A j \in free : i <= j

(* _gen_canopen_node_id returns i: the lowest id not listed, or 0 (None).  *)
GenCanopenNodeId(i) ==
    LET free == {j \in NodeIds : nodes[j] = NoNode}
    IN  IF free = {} THEN i = 0
        ELSE i \in free /\ \A j \in free : i <= j

(* fast_scan_known_range_all finds a device: FoundIsSelected of FastScan   *)
(* says that the device is in configuration mode then.                     *)
Search ==
    /\ Reachable
    /\ ScanAt("search", "configure")
    /\ \E n \in Unconfigured, i \in {0} \cup Ids :
          /\ GenCanopenNodeId(i)
          /\ config' = config \cup {n}
          /\ target' = [node |-> n, id |-> i]
    /\ UNCHANGED <<inSetup, nodes, devId, losses>>

(* It selects a device but the reply is lost, so it returns None.          *)
SearchInVain ==
    /\ Reachable
    /\ ScanAt("search", "search")
    /\ losses < MaxLosses /\ losses' = losses + 1
    /\ \E n \in Unconfigured : config' = config \cup {n}
    /\ UNCHANGED <<target, inSetup, nodes, devId>>

(* gen_lss_configure_node_id_message takes 0..127 without the ISP id.      *)
Configurable(i) == i \in NodeIds /\ i < LastId

ConfigureNodeId ==
    /\ Configurable(target.id)
    /\ ScanAt("configure", "operate")
    /\ \E ok \in BOOLEAN :
          /\ Exchange(ok)
          /\ devId' = [n \in Nodes |->
                          IF ok /\ n \in config THEN target.id ELSE devId[n]]
    /\ UNCHANGED <<target, inSetup, nodes, config>>

(* An exception leaves lss_fast_scan, and with it gather and run; the      *)
(* other tasks go on.                                                      *)
ScanRaises ==
    /\ scan' = "raised" /\ run' = "raised"
    /\ UNCHANGED <<running, ifState, watch, threads, target, inSetup>>
    /\ UNCHANGED <<pinger, nodes, killed, ifUp, devices, unplugs, downs>>

NoMoreIds ==
    /\ scan = "configure" /\ Connected /\ ~Configurable(target.id)
    /\ ScanRaises /\ UNCHANGED losses

(* setup_object_directory until the protocols are known.  The id is not    *)
(* listed yet, so replies go to the node in setup.                         *)
Enumerate ==
    /\ scan = "enumerate"
    /\ Hearing(target.id) \cap Enumerating # {}
    /\ Reachable
    /\ scan' = "objects"
    /\ UNCHANGED <<life, target, inSetup, pinger, nodes, killed>>
    /\ UNCHANGED <<ifUp, devices, bounds>>

(* The device aborts the read of its protocols, and the handler of the     *)
(* abort asks the node for an attribute it does not have.                  *)
EnumerateRefused ==
    /\ scan = "enumerate"
    /\ Hearing(target.id) \ Enumerating # {} /\ Reachable
    /\ ScanRaises /\ UNCHANGED losses

EnumerateTimeout ==
    /\ scan = "enumerate"
    /\ \/ Hearing(target.id) = {} /\ UNCHANGED losses
       \/ Exchange(FALSE)
    /\ ScanRaises

(* The set up of the single protocols, in which every failure is caught.   *)
List ==
    /\ scan = "objects"
    /\ scan' = "search"
    /\ nodes' = [nodes EXCEPT ![target.id] = target.node]
    /\ inSetup' = NoTarget
    /\ UNCHANGED <<life, target, pinger, killed, ifUp, devices, bounds>>

-----------------------------------------------------------------------------
(* lss_ping: every two seconds, each id of a copy of the list.             *)

PingRound ==
    /\ ping = "sleep" /\ todo = {}
    /\ IF Connected
          THEN todo' = {i \in Ids : nodes[i] # NoNode} /\ UNCHANGED ping
          ELSE ping' = "off" /\ UNCHANGED todo
    /\ UNCHANGED <<life, scanner, nodes, killed, ifUp, devices, bounds>>

PingAnswered(i) ==
    /\ i \in todo /\ Hearing(i) # {} /\ Reachable
    /\ todo' = todo \ {i}
    /\ UNCHANGED <<life, scanner, ping, nodes, killed, ifUp, devices, bounds>>

(* Mutant: a node that does not answer stays on the list.                  *)
PingTimeoutKeepsNode(i) ==
    /\ i \in todo
    /\ \/ Hearing(i) = {} /\ UNCHANGED losses
       \/ Exchange(FALSE)
    /\ todo' = todo \ {i}
    /\ UNCHANGED <<life, scanner, ping, nodes, killed, ifUp, devices>>
    /\ UNCHANGED <<unplugs, downs>>

PingTimeout(i) ==
    /\ i \in todo
    /\ \/ Hearing(i) = {} /\ UNCHANGED losses
       \/ Exchange(FALSE)
    /\ todo' = todo \ {i}
    /\ nodes' = [nodes EXCEPT ![i] = NoNode]
    /\ UNCHANGED <<life, scanner, ping, killed, ifUp, devices>>
    /\ UNCHANGED <<unplugs, downs>>

(* Any exception but TimeoutError ends lss_ping without a warning.         *)
PingRefused(i) ==
    /\ MayRefuse /\ i \in todo /\ Hearing(i) # {} /\ Reachable
    /\ ping' = "off" /\ todo' = {}
    /\ UNCHANGED <<life, scanner, nodes, killed, ifUp, devices, bounds>>

-----------------------------------------------------------------------------
(* The interface and the devices.                                          *)

InterfaceDown ==
    /\ ifUp /\ downs < MaxDowns
    /\ ifUp' = FALSE /\ downs' = downs + 1
    /\ UNCHANGED <<server, devices, losses, unplugs>>

InterfaceUp ==
    /\ ~ifUp /\ ifUp' = TRUE
    /\ UNCHANGED <<server, devices, bounds>>

Plug(n) ==
    /\ n \notin on /\ on' = on \cup {n}
    /\ UNCHANGED <<server, ifUp, config, devId, bounds>>

Unplug(n) ==
    /\ n \in on /\ unplugs < MaxUnplugs
    /\ on' = on \ {n} /\ config' = config \ {n}
    /\ devId' = [devId EXCEPT ![n] = 0]
    /\ unplugs' = unplugs + 1
    /\ UNCHANGED <<server, ifUp, losses, downs>>

(* The server polls an id that it pings or sets up.                        *)
Polled(i) ==
    /\ Reachable /\ ~killed
    /\ \/ ping # "off" /\ nodes[i] # NoNode
       \/ scan \in {"operate", "enumerate", "objects"} /\ target.id = i

(* A device that nobody polls resets its node id.                          *)
Expire(n) ==
    /\ devId[n] # 0 /\ ~Polled(devId[n])
    /\ devId' = [devId EXCEPT ![n] = 0]
    /\ UNCHANGED <<server, ifUp, on, config, bounds>>

-----------------------------------------------------------------------------
Run ==
    \/ OpenBus \/ OpenBusFails \/ EndRun \/ Disconnect \/ Shutdown
    \/ UpdateInterfaceState \/ ThreadsReturn \/ ThreadsFail

Scan ==
    \/ ScanShutdown
    \/ SwitchAllToConfiguration \/ InvalidateNodeIds \/ SwitchAllToOperation
    \/ Search \/ SearchInVain \/ ConfigureNodeId \/ NoMoreIds
    \/ Enumerate \/ EnumerateRefused \/ EnumerateTimeout \/ List

Ping ==
    \/ PingRound
    \/ \E i \in Ids : PingAnswered(i) \/ PingTimeout(i) \/ PingRefused(i)

Bus ==
    \/ InterfaceDown \/ InterfaceUp
    \/ \E n \in Nodes : Plug(n) \/ Unplug(n) \/ Expire(n)

Next == (~killed /\ (Run \/ Scan \/ Ping)) \/ Bus

Spec == Init /\ [][Next]_vars

(* The event loop and the threads run, an interface that is down comes up  *)
(* again, and a device that is not polled times out.                       *)
Fairness ==
    /\ WF_vars(~killed /\ (OpenBus \/ EndRun \/ Disconnect))
    /\ WF_vars(~killed /\ UpdateInterfaceState)
    /\ WF_vars(~killed /\ ThreadsReturn)
    /\ WF_vars(~killed /\ Scan)
    /\ WF_vars(~killed /\ Ping)
    /\ WF_vars(InterfaceUp)
    /\ \A n \in Nodes : WF_vars(Expire(n))

FairSpec == Spec /\ Fairness

-----------------------------------------------------------------------------
Targets == [node: Nodes, id: {0} \cup NodeIds] \cup {NoTarget}

TypeOK ==
    /\ running \in BOOLEAN /\ ifState \in BOOLEAN
    /\ run \in {"await", "gather", "raised", "ended"}
    /\ watch \in BOOLEAN /\ threads \in BOOLEAN
    /\ scan \in {"off", "enter", "invalidate", "leave", "search", "configure",
                 "operate", "enumerate", "objects", "raised"}
    /\ target \in Targets /\ inSetup \in Targets
    /\ ping \in {"off", "sleep"} /\ todo \subseteq NodeIds
    /\ nodes \in [Ids -> Nodes \cup {NoNode}] /\ nodes[IspId] = NoNode
    /\ killed \in BOOLEAN /\ ifUp \in BOOLEAN
    /\ on \subseteq Nodes /\ config \subseteq on
    /\ devId \in [Nodes -> {0} \cup NodeIds]
    /\ losses \in Nat /\ unplugs \in Nat /\ downs \in Nat

(* What is sent to a listed node reaches no other device: two devices      *)
(* never answer to one listed id (_gen_canopen_node_id and lss_fast_scan,  *)
(* network.py:413-508).                                                    *)
ListedIsAddressed ==
    \A i \in NodeIds : nodes[i] # NoNode => Hearing(i) \subseteq {nodes[i]}

(* A new connection starts from an empty list, so that no node of an old   *)
(* one keeps an id that the scan is about to take away (run,               *)
(* network.py:565-571).                                                    *)
FreshStart ==
    scan \in {"enter", "invalidate", "leave"} =>
        nodes = Nothing /\ inSetup = NoTarget

Serving == ~killed /\ running /\ run \in {"await", "gather"}

(* Every device that stays on the bus gets listed as long as the server    *)
(* serves, whoever else comes and goes (lss_fast_scan and lss_ping,        *)
(* network.py:423-525).                                                    *)
EveryNodeListed ==
    \A n \in Nodes : n \in on ~> InReach(n) \/ n \notin on \/ ~Serving

(* After an outage that the watcher has seen, all tasks of the old         *)
(* connection return and a new one is opened (run, network.py:543-571).    *)
OutageIsOvercome == ~ifState ~> (run = "gather" /\ ifState) \/ ~Serving

(* Without the escape: the server does not stop listing new devices.       *)
AlwaysListing ==
    \A n \in Nodes : n \in on ~> InReach(n) \/ n \notin on \/ ~running

(* A device that is gone leaves the list, even when the scan has ended     *)
(* (lss_ping, network.py:513-525).                                         *)
GoneLeaveList ==
    \A n \in Nodes :
        n \notin on ~> ~Listed(n) \/ n \in on \/ ~running \/ killed

(* After shutdown every task returns and run ends (network.py:532-571).    *)
ShutdownEnds == ~running ~> run \in {"ended", "raised"} \/ killed

=============================================================================
