------------------------------ MODULE Directory ------------------------------
(***************************************************************************)
(* The objects of a node, from the moment its device has a node id until   *)
(* it is taken off the list: ObjectDirectory.scan reads which protocols    *)
(* the device reports and sets them up one by one, lss_fast_scan lists the *)
(* node, info fills its cache, get_status iterates the list, ping looks    *)
(* whether the device is there, and the receive thread hands every reply   *)
(* to the node object it takes for the right one.                          *)
(*                                                                         *)
(* A call is one exchange of module SdoClient, whose lock lets one caller  *)
(* at a time have one for a node object.  Node ids are given as in module  *)
(* Network, whose outages and shutdowns are left out.  Of the values that  *)
(* info caches, which are all read in the same way, there are two: the     *)
(* name, which ping reads as well, and the software version.               *)
(***************************************************************************)
EXTENDS Integers, Sequences, FiniteSets

CONSTANTS
    Devices,      \* devices that may be on the bus
    NoDevice,     \* device of a node object that is not made yet
    LastId,       \* highest node id
    Reports,      \* Reports[d]: protocols the firmware of d lists
    Refuses,      \* Refuses[d]: those whose set-up ends in an error: another
                  \* version, more than 16 pins, an SDO abort
    MaxNodes,     \* bound: node objects made
    MaxInFlight,  \* bound: replies on the bus
    MaxUpsets     \* bound: devices that leave, frames lost or late

ASSUME DirectoryAssumption ==
    /\ NoDevice \notin Devices
    /\ LastId \in Nat \ {0} /\ MaxNodes \in Nat \ {0}
    /\ MaxInFlight \in Nat /\ MaxUpsets \in Nat
    /\ DOMAIN Reports = Devices /\ DOMAIN Refuses = Devices

VARIABLES
    present,   \* devices on the bus
    devId,     \* devId[d]: the node id d answers to, or 0
    fw,        \* fw[d]: what is installed on d, renewed when d comes back
    made,      \* node objects made; they are numbered in this order
    node,      \* node[k]: node object k
    nodes,     \* LxaNetwork.nodes: the node object of each id, or 0
    call,      \* call[k]: the exchange for which node object k is locked
    wire,      \* replies on the bus
    rx,        \* the reply the receive thread has, and its way on
    alive,     \* no SIGTERM was sent
    scan,      \* where lss_fast_scan is
    inSetup,   \* LxaNetwork._node_in_setup, or 0
    plan,      \* which of Reads ObjectDirectory.scan still has to do
    ping,      \* lss_ping is running
    todo,      \* node objects it still has to ping in this round
    status,    \* the iteration of get_status over the list
    stray,     \* a request has reached a device it was not meant for
    late,      \* a reply has come after its time-out
    upsets

devices == <<present, devId, fw>>
scanner == <<scan, inSetup, plan, made>>
pinger  == <<ping, todo>>
bounds  == <<stray, late, upsets>>
vars    == <<devices, node, nodes, call, wire, rx, alive, scanner, pinger,
             status, bounds>>

-----------------------------------------------------------------------------
(* Objects of the directory and what their set-up reads.                   *)

Ids == 1..LastId
NodeObjects == 1..MaxNodes

(* The sub-indices of the classes that are read, as <<class, method>>.     *)
SupportedProtocols(sub) == <<"supported_protocols", sub>>
Outputs(sub)       == <<"outputs", sub>>
Inputs(sub)        == <<"inputs", sub>>
Timers(sub)        == <<"timers", sub>>
Triggers(sub)      == <<"triggers", sub>>
Adc(sub)           == <<"adc", sub>>
ServerTimeout(sub) == <<"server_timeout", sub>>

Name    == <<"manufacturer_device_name", "name">>
Version == <<"manufacturer_software_version", "version">>
Located == <<"locator", "state">>

(* The exchanges of scan() in their order: that of SupportedProtocols and  *)
(* those of the new() of each class.                                       *)
Reads ==
    << SupportedProtocols("protocol"),
       Timers("version"), Timers("channel_count_out"), Timers("channel_count_in"),
       Triggers("version"), Triggers("channel_count"),
       ServerTimeout("version"),
       Adc("protocol_version"), Adc("channel_count"),
       Inputs("_channel_count"), Inputs("pin_count"),
       Outputs("_channel_count"), Outputs("pin_count") >>

Directory == {Reads[n] : n \in DOMAIN Reads} \cup {Name, Version, Located}

(* Classes without new() are made without an exchange.                     *)
WithNew == {"timers", "triggers", "server_timeout", "adc", "inputs", "outputs"}
WithoutNew == {"version_info", "locator", "bootloader", "chip_uid"}
Known == WithNew \cup WithoutNew

(* Only a new() can raise.                                                 *)
ASSUME RefusesAssumption == \A d \in Devices : Refuses[d] \subseteq WithNew

(* The first reply tells a version, the last one the number of pins.       *)
Telling == {"version", "protocol_version", "pin_count"}

PlanFor(protocols) == {n \in DOMAIN Reads : Reads[n][1] \in protocols \cap WithNew}
Without(p, reads) == {n \in reads : Reads[n][1] # p}

(* Mutant: an object is made for every protocol a device lists.            *)
MadeForAny(reported) == reported

MadeAtOnce(reported) == reported \cap WithoutNew

(* What can be set up on a device.                                         *)
Offer == [d \in Devices |-> (Reports[d] \cap Known) \ Refuses[d]]

Unread(info) == {o \in {Name, Version} : info[o] = {}}
FirstUnread(info) == IF info[Name] = {} THEN Name ELSE Version

-----------------------------------------------------------------------------
NoFrame  == [id |-> 0, obj |-> Name, dev |-> NoDevice, fw |-> 0]
NoCall   == [by |-> "nobody", obj |-> Name, reply |-> NoFrame]
NoRoute  == [to |-> "nowhere", frame |-> NoFrame]
NoStatus == [at |-> 0, size |-> 0, offered |-> 0, came |-> 0, want |-> Name]
NoInfo   == [o \in {Name, Version} |-> {}]

(* Mutant: what is known about a device is kept for the next node object.  *)
NodeWithOldInfo(d, i) ==
    LET old == {k \in 1..made : node[k].dev = d} IN
    [dev |-> d, id |-> i, od |-> {}, lost |-> {},
     info |-> IF old = {} THEN NoInfo ELSE node[CHOOSE k \in old : TRUE].info]

(* A new node object: the dev field is not known to the program.           *)
NewNode(d, i) == [dev |-> d, id |-> i, od |-> {}, lost |-> {}, info |-> NoInfo]

Empty == NewNode(NoDevice, 0)

Init ==
    /\ present \in SUBSET Devices
    /\ devId = [d \in Devices |-> 0] /\ fw = [d \in Devices |-> 0]
    /\ made = 0 /\ node = [k \in NodeObjects |-> Empty]
    /\ nodes = [i \in Ids |-> 0]
    /\ call = [k \in NodeObjects |-> NoCall] /\ wire = {} /\ rx = NoRoute
    /\ alive = TRUE
    /\ scan = "search" /\ inSetup = 0 /\ plan = {}
    /\ ping = TRUE /\ todo = {}
    /\ status = NoStatus
    /\ stray = FALSE /\ late = FALSE /\ upsets = 0

Listed == {nodes[i] : i \in {j \in Ids : nodes[j] # 0}}
Hearing(i) == {d \in present : devId[d] = i}

(* Bound: when exchanges have been mixed up, the calls that are under way  *)
(* are followed to their ends and nothing new begins.                      *)
Mixed == stray \/ late

-----------------------------------------------------------------------------
(* sdo_read of a node object: who has the lock asks, every device with the *)
(* node id answers.                                                        *)

(* A node object that is on the list, or about to be, is asked for its     *)
(* device; one that a caller still has afterwards should reach nobody.     *)
Meant(k) ==
    IF nodes[node[k].id] = k \/ inSetup = k THEN {node[k].dev} ELSE {}

Ask(k, who, o) ==
    /\ call' = [call EXCEPT ![k] = [by |-> who, obj |-> o, reply |-> NoFrame]]
    /\ LET i == node[k].id IN
          /\ wire' = wire \cup {[id |-> i, obj |-> o, dev |-> d, fw |-> fw[d]] :
                                   d \in Hearing(i)}
          /\ Cardinality(wire') <= MaxInFlight
          /\ stray' = (stray \/ Hearing(i) \ Meant(k) # {})

Waits(k, who) == call[k].by = who /\ call[k].reply = NoFrame
Answered(k, who) == call[k].by = who /\ call[k].reply # NoFrame

Release(k) == call' = [call EXCEPT ![k] = NoCall]

(* The reply is that to the object asked for, or sdo_read raises.          *)
Matches(k) == call[k].reply.obj = call[k].obj

UnderWay(k) ==
    \/ \E f \in wire : f.id = node[k].id
    \/ rx # NoRoute /\ rx.frame.id = node[k].id

(* wait_for gives up: nothing comes, or it comes too late.                 *)
TimesOut(k, who) ==
    /\ Waits(k, who)
    /\ IF UnderWay(k)
          THEN upsets < MaxUpsets /\ upsets' = upsets + 1 /\ late' = TRUE
          ELSE UNCHANGED <<upsets, late>>

-----------------------------------------------------------------------------
(* recv: the receive thread looks a node up in two steps, the test and the *)
(* use.  set_sdo_response, which SdoClient takes apart, is one step here.  *)

RxTake(f) ==
    /\ rx = NoRoute /\ f \in wire
    /\ wire' = wire \ {f}
    /\ rx' = IF nodes[f.id] # 0 THEN [frame |-> f, to |-> "listed"]
             ELSE IF inSetup # 0 THEN [frame |-> f, to |-> "setup"]
             ELSE NoRoute
    /\ UNCHANGED <<devices, node, nodes, call, alive, scanner, pinger, status>>
    /\ UNCHANGED bounds

Receiver == IF rx.to = "listed" THEN nodes[rx.frame.id] ELSE inSetup

RxGive ==
    /\ rx # NoRoute /\ Receiver # 0
    /\ call' = IF call[Receiver] # NoCall /\ call[Receiver].reply = NoFrame
                  THEN [call EXCEPT ![Receiver].reply = rx.frame] ELSE call
    /\ rx' = NoRoute
    /\ UNCHANGED <<devices, node, nodes, wire, alive, scanner, pinger, status>>
    /\ UNCHANGED bounds

(* What was there for the test is not there for the use: the handler of    *)
(* the exception sends SIGTERM to the process, whose end is not modelled.  *)
RxCrash ==
    /\ rx # NoRoute /\ Receiver = 0
    /\ alive' = FALSE /\ rx' = NoRoute
    /\ UNCHANGED <<devices, node, nodes, call, wire, scanner, pinger, status>>
    /\ UNCHANGED bounds

-----------------------------------------------------------------------------
(* lss_fast_scan from the id of a device found to its place in the list.   *)

FreeId(i) == nodes[i] = 0 /\ \A j \in Ids : j < i => nodes[j] # 0

Found(d) ==
    /\ ~Mixed /\ scan = "search" /\ made < MaxNodes
    /\ d \in present /\ devId[d] = 0
    /\ \E i \in Ids :
          /\ FreeId(i)
          /\ devId' = [devId EXCEPT ![d] = i]
          /\ node' = [node EXCEPT ![made + 1] = NewNode(d, i)]
    /\ made' = made + 1 /\ inSetup' = made + 1
    /\ scan' = "setup" /\ plan' = {1}
    /\ UNCHANGED <<present, fw, nodes, call, wire, rx, alive, pinger, status>>
    /\ UNCHANGED bounds

AskNext(reads) ==
    \E n \in reads :
        (\A m \in reads : n <= m) /\ Ask(inSetup, "scan", Reads[n])

ScanAsk ==
    /\ scan = "setup" /\ call[inSetup] = NoCall
    /\ AskNext(plan)
    /\ UNCHANGED <<devices, node, nodes, rx, alive, scanner, pinger, status>>
    /\ UNCHANGED <<late, upsets>>

Enumerating == scan = "setup" /\ 1 \in plan
SettingUp   == scan = "setup" /\ 1 \notin plan

(* Mutant: the node is on the list while it is set up.                     *)
ProceedListed(n, reads) ==
    /\ node' = [node EXCEPT ![inSetup] = n]
    /\ plan' = reads
    /\ nodes' = [nodes EXCEPT ![n.id] = inSetup]
    /\ IF reads = {}
          THEN /\ scan' = "search" /\ inSetup' = 0
               /\ Release(inSetup) /\ UNCHANGED <<wire, stray>>
          ELSE /\ AskNext(reads)
               /\ UNCHANGED <<scan, inSetup>>
    /\ UNCHANGED <<devices, rx, alive, made, pinger, status>>

(* The node object becomes n and the next read is sent, or else the node   *)
(* is listed.                                                              *)
Proceed(n, reads) ==
    /\ node' = [node EXCEPT ![inSetup] = n]
    /\ plan' = reads
    /\ IF reads = {}
          THEN /\ nodes' = [nodes EXCEPT ![n.id] = inSetup]
               /\ scan' = "search" /\ inSetup' = 0
               /\ Release(inSetup) /\ UNCHANGED <<wire, stray>>
          ELSE /\ AskNext(reads)
               /\ UNCHANGED <<nodes, scan, inSetup>>
    /\ UNCHANGED <<devices, rx, alive, made, pinger, status>>

Enumerate ==
    LET k == inSetup
        reported == Reports[call[k].reply.dev]
    IN  /\ Enumerating /\ Answered(k, "scan") /\ Matches(k)
        /\ Proceed([node[k] EXCEPT !.od = MadeAtOnce(reported)],
                   PlanFor(reported))
        /\ UNCHANGED <<upsets, late>>

(* An exception leaves scan(), lss_fast_scan and run.                      *)
EnumerateFails ==
    /\ Enumerating
    /\ \/ /\ Answered(inSetup, "scan") /\ ~Matches(inSetup)
          /\ UNCHANGED <<upsets, late>>
       \/ TimesOut(inSetup, "scan")
    /\ Release(inSetup) /\ scan' = "raised"
    /\ UNCHANGED <<devices, node, nodes, wire, rx, alive, inSetup, plan, made>>
    /\ UNCHANGED <<pinger, status, stray>>

(* Mutant: an error ends the set-up of the node.                           *)
SkipRest(p) == {}

Skip(p) == Without(p, plan)

(* _try_protocol_setup: one exchange of the new() of a class.              *)
ProtocolRead ==
    LET k == inSetup IN
    \E n \in plan :
        LET p == Reads[n][1]
            left == plan \ {n}
        IN  /\ call[k].obj = Reads[n]
            /\ SettingUp /\ Answered(k, "scan") /\ Matches(k)
            /\ IF p \in Refuses[call[k].reply.dev] /\ Reads[n][2] \in Telling
                  THEN Proceed(node[k], Skip(p))
                  ELSE Proceed([node[k] EXCEPT !.od =
                                   IF Without(p, left) = left THEN @ \cup {p} ELSE @],
                               left)
            /\ UNCHANGED <<upsets, late>>

(* Every exception is caught and logged; the node goes without p.          *)
ProtocolFails ==
    LET k == inSetup
        p == call[k].obj[1]
    IN  /\ SettingUp
        /\ \/ Answered(k, "scan") /\ ~Matches(k) /\ UNCHANGED <<upsets, late>>
           \/ TimesOut(k, "scan")
        /\ Proceed([node[k] EXCEPT !.lost = @ \cup {p}], Skip(p))

-----------------------------------------------------------------------------
(* lss_ping and LxaBaseNode.ping.                                          *)

(* Mutant: every node is pinged by its name.                               *)
PingByName(k) == Name

PingObject(k) == IF "locator" \in node[k].od THEN Located ELSE Name
PingCached(k) == PingObject(k) = Name /\ node[k].info[Name] # {}

PingRound ==
    /\ ~Mixed /\ ping /\ todo = {} /\ todo' = Listed
    /\ UNCHANGED <<devices, node, nodes, call, wire, rx, alive, scanner, ping>>
    /\ UNCHANGED <<status, bounds>>

PingAsk(k) ==
    /\ k \in todo /\ ~PingCached(k)
    /\ \A j \in NodeObjects : call[j].by # "ping"
    /\ call[k] = NoCall /\ Ask(k, "ping", PingObject(k))
    /\ UNCHANGED <<devices, node, nodes, rx, alive, scanner, pinger, status>>
    /\ UNCHANGED <<late, upsets>>

(* Without a locator the name is read, from the second time on from the    *)
(* cache and not from the device.                                          *)
PingFromCache(k) ==
    /\ k \in todo /\ PingCached(k) /\ call[k].by # "ping"
    /\ todo' = todo \ {k}
    /\ UNCHANGED <<devices, node, nodes, call, wire, rx, alive, scanner, ping>>
    /\ UNCHANGED <<status, bounds>>

Remember(k) ==
    LET c == call[k] IN
    node' = [node EXCEPT ![k].info =
                [@ EXCEPT ![c.obj] = {[dev |-> c.reply.dev, fw |-> c.reply.fw]}]]

PingAnswered(k) ==
    /\ Answered(k, "ping") /\ Matches(k) /\ Release(k)
    /\ todo' = todo \ {k}
    /\ IF call[k].obj = Name THEN Remember(k) ELSE UNCHANGED node
    /\ UNCHANGED <<devices, nodes, wire, rx, alive, scanner, ping, status>>
    /\ UNCHANGED bounds

(* Any exception but TimeoutError ends the task.                           *)
PingFails(k) ==
    /\ Answered(k, "ping") /\ ~Matches(k) /\ Release(k)
    /\ ping' = FALSE /\ todo' = {}
    /\ UNCHANGED <<devices, node, nodes, wire, rx, alive, scanner, status>>
    /\ UNCHANGED bounds

(* Mutant: the time a ping waits for the lock counts as well.              *)
PingGivesUp(k) ==
    /\ k \in todo /\ call[k] # NoCall /\ call[k].reply = NoFrame
    /\ call' = IF call[k].by = "ping" THEN [call EXCEPT ![k] = NoCall] ELSE call
    /\ todo' = todo \ {k}
    /\ nodes' = [nodes EXCEPT ![node[k].id] = 0]
    /\ UNCHANGED <<devices, node, wire, rx, alive, scanner, ping, status>>
    /\ UNCHANGED bounds

PingTimesOut(k) ==
    /\ TimesOut(k, "ping") /\ Release(k)
    /\ todo' = todo \ {k}
    /\ nodes' = [nodes EXCEPT ![node[k].id] = 0]
    /\ UNCHANGED <<devices, node, wire, rx, alive, scanner, ping, status>>
    /\ UNCHANGED stray

-----------------------------------------------------------------------------
(* get_status: for node in self.network.nodes.values(), with the reads of  *)
(* info() in the loop; whatever is cached is taken without an await.       *)

(* The loop is over: what it has collected is part of a message now, or an *)
(* exception ends the request.  Nothing else depends on which.             *)
StatusEnds == status' = NoStatus

(* Node objects listed so far.                                             *)
Came == IF inSetup = 0 THEN made ELSE made - 1

(* The entries of the dict are in the order the node objects were made in. *)
(* Its iterator keeps a position among slots, those of deleted entries     *)
(* included: an insertion that finds no slot left moves the entries up,    *)
(* and the iterator passes over entries it has not offered.  When slots    *)
(* are used up is left open.                                               *)
Passed(at, came) ==
    IF Came = came THEN {at} ELSE {k \in 0..MaxNodes : at <= k}

(* To the next await: the iterator raises when the size of the dict is not *)
(* what it was at the start, or when it has offered as many entries        *)
(* already and there is one more.                                          *)
StatusGoesOn(at, size, offered, came, info) ==
    IF Cardinality(Listed) # size THEN StatusEnds
    ELSE \E past \in Passed(at, came) :
        LET rest == {k \in Listed : k > past}
            slow == {k \in rest : Unread(info[k]) # {}}
        IN  IF slow = {} THEN StatusEnds
            ELSE \E k \in slow :
                LET now == offered + Cardinality({j \in rest : j <= k}) IN
                /\ \A j \in slow : k <= j
                /\ IF now > size THEN StatusEnds
                   ELSE status' = [at |-> k, size |-> size, offered |-> now,
                                   came |-> Came, want |-> FirstUnread(info[k])]

StatusStarts ==
    /\ ~Mixed /\ status = NoStatus
    /\ StatusGoesOn(0, Cardinality(Listed), 0, Came,
                    [k \in NodeObjects |-> node[k].info])
    /\ UNCHANGED <<devices, node, nodes, call, wire, rx, alive, scanner>>
    /\ UNCHANGED <<pinger, bounds>>

StatusAsk ==
    /\ status # NoStatus /\ call[status.at] = NoCall
    /\ Ask(status.at, "status", status.want)
    /\ UNCHANGED <<devices, node, nodes, rx, alive, scanner, pinger, status>>
    /\ UNCHANGED <<late, upsets>>

StatusRead ==
    LET k == status.at IN
    /\ status # NoStatus /\ Answered(k, "status") /\ Matches(k)
    /\ Release(k) /\ Remember(k)
    /\ IF Unread(node'[k].info) # {}
          THEN status' = [status EXCEPT !.want = FirstUnread(node'[k].info)]
          ELSE StatusGoesOn(status.at, status.size, status.offered, status.came,
                            [j \in NodeObjects |-> node'[j].info])
    /\ UNCHANGED <<devices, nodes, wire, rx, alive, scanner, pinger, bounds>>

(* The exception of info() ends the request.                               *)
StatusFails ==
    LET k == status.at IN
    /\ status # NoStatus
    /\ \/ Answered(k, "status") /\ ~Matches(k) /\ UNCHANGED <<upsets, late>>
       \/ TimesOut(k, "status")
    /\ Release(k) /\ StatusEnds
    /\ UNCHANGED <<devices, node, nodes, wire, rx, alive, scanner, pinger>>
    /\ UNCHANGED stray

-----------------------------------------------------------------------------
(* The bus and the devices.                                                *)

Lose(f) ==
    /\ ~Mixed /\ f \in wire /\ upsets < MaxUpsets
    /\ wire' = wire \ {f} /\ upsets' = upsets + 1
    /\ UNCHANGED <<devices, node, nodes, call, rx, alive, scanner, pinger>>
    /\ UNCHANGED <<status, stray, late>>

(* A device is unplugged, or reset to its boot loader.                     *)
Leave(d) ==
    /\ ~Mixed /\ d \in present /\ upsets < MaxUpsets /\ upsets' = upsets + 1
    /\ present' = present \ {d} /\ devId' = [devId EXCEPT ![d] = 0]
    /\ UNCHANGED <<fw, node, nodes, call, wire, rx, alive, scanner, pinger>>
    /\ UNCHANGED <<status, stray, late>>

(* It comes back with another firmware.                                    *)
Join(d) ==
    /\ ~Mixed /\ d \notin present /\ present' = present \cup {d}
    /\ fw' = [fw EXCEPT ![d] = @ + 1]
    /\ UNCHANGED <<devId, node, nodes, call, wire, rx, alive, scanner, pinger>>
    /\ UNCHANGED <<status, bounds>>

(* A request goes to the id now and then.                                  *)
Polled(i) ==
    \/ nodes[i] # 0 /\ ping /\ ~PingCached(nodes[i])
    \/ inSetup # 0 /\ scan = "setup" /\ node[inSetup].id = i

Expire(d) ==
    /\ ~Mixed /\ devId[d] # 0 /\ ~Polled(devId[d])
    /\ devId' = [devId EXCEPT ![d] = 0]
    /\ UNCHANGED <<present, fw, node, nodes, call, wire, rx, alive, scanner>>
    /\ UNCHANGED <<pinger, status, bounds>>

-----------------------------------------------------------------------------
Receive == (\E f \in wire : RxTake(f)) \/ RxGive \/ RxCrash

Scan ==
    \/ \E d \in Devices : Found(d)
    \/ ScanAsk \/ Enumerate \/ EnumerateFails \/ ProtocolRead \/ ProtocolFails

Ping ==
    \/ PingRound
    \/ \E k \in NodeObjects :
          \/ PingAsk(k) \/ PingFromCache(k) \/ PingAnswered(k)
          \/ PingFails(k) \/ PingTimesOut(k)

StatusGoes == StatusAsk \/ StatusRead \/ StatusFails

Bus ==
    \/ \E f \in wire : Lose(f)
    \/ \E d \in Devices : Leave(d) \/ Join(d) \/ Expire(d)

Next == Receive \/ Scan \/ Ping \/ StatusStarts \/ StatusGoes \/ Bus

Spec == Init /\ [][Next]_vars

(* The receive thread and the tasks run and every exchange ends; a caller  *)
(* that waits for the lock of a node, which is FIFO, gets its turn.  The   *)
(* scan may as well hang: no property needs it.                            *)
Fairness == WF_vars(Receive) /\ SF_vars(Ping) /\ WF_vars(StatusGoes)

FairSpec == Spec /\ Fairness

-----------------------------------------------------------------------------
Frames == [id : Ids, obj : Directory, dev : Devices, fw : Nat]

Calls == [by : {"nobody", "scan", "ping", "status"}, obj : Directory,
          reply : Frames \cup {NoFrame}]

Nodes == [dev : Devices \cup {NoDevice}, id : 0..LastId, od : SUBSET Known,
          lost : SUBSET WithNew,
          info : [{Name, Version} -> SUBSET [dev : Devices, fw : Nat]]]

Loops == [at : NodeObjects, size : Nat, offered : Nat, came : Nat,
          want : {Name, Version}]

(* The state of the bus, of the node objects and of the tasks keeps to its *)
(* types: what is set up is never an object the server does not know, and  *)
(* every call is for an object of the directory.                           *)
TypeOK ==
    /\ present \subseteq Devices
    /\ devId \in [Devices -> 0..LastId] /\ fw \in [Devices -> Nat]
    /\ made \in 0..MaxNodes /\ node \in [NodeObjects -> Nodes]
    /\ nodes \in [Ids -> 0..MaxNodes]
    /\ call \in [NodeObjects -> Calls] /\ wire \subseteq Frames
    /\ \/ rx = NoRoute
       \/ rx \in [to : {"listed", "setup"}, frame : Frames]
    /\ scan \in {"search", "setup", "raised"} /\ inSetup \in 0..MaxNodes
    /\ plan \subseteq DOMAIN Reads
    /\ ping \in BOOLEAN /\ todo \subseteq NodeObjects
    /\ \/ status = NoStatus
       \/ status \in Loops
    /\ alive \in BOOLEAN /\ stray \in BOOLEAN /\ late \in BOOLEAN
    /\ upsets \in Nat

(* The receive thread looks a node up twice, network.py:236-240, while the *)
(* other tasks take nodes off the list and finish the set-up: as long as   *)
(* every exchange is answered in time or not at all it never finds nothing *)
(* in between, which would end the server.                                 *)
ReceiverSurvives == Mixed \/ alive

(* object_directory.py:991-1003: a protocol that cannot be set up costs    *)
(* the node that protocol and no other.  What is listed can do everything  *)
(* the device offers, but for the protocols whose exchange was lost.       *)
FailuresAreContained ==
    Mixed \/ \A k \in Listed : node[k].od = Offer[node[k].dev] \ node[k].lost

(* What info() serves from the cache of a node, base_node.py:56-93, is     *)
(* what its device runs now, however often the device was flashed or       *)
(* replugged, as long as the device has the id the node is listed under.   *)
InfoIsCurrent ==
    Mixed \/ \A k \in Listed, o \in {Name, Version} :
        LET d == node[k].dev IN
        devId[d] = node[k].id =>
            node[k].info[o] \subseteq {[dev |-> d, fw |-> fw[d]]}

(* info(), base_node.py:56-93, reads its values one by one, for a status   *)
(* request or a ping, while the device may be flashed, replugged and       *)
(* listed anew and the node object be dropped: what one node object has    *)
(* collected is never part of one firmware and part of another.            *)
InfoIsOfOneFirmware ==
    Mixed \/ \A k \in 1..made :
        \A r, q \in node[k].info[Name] \cup node[k].info[Version] : r = q

(* The list of nodes is used as module Inventory describes.                *)
NoEntry == [dev |-> NoDevice, od |-> {}]
Entry(k) == IF k = 0 THEN NoEntry ELSE [dev |-> node[k].dev, od |-> node[k].od]

Abstract == INSTANCE Inventory WITH
    Objects <- Known, listed <- [i \in Ids |-> Entry(nodes[i])], mixed <- Mixed

(* An entry appears complete, network.py:485-503, with objects of its      *)
(* device, does not change while it is listed and goes as a whole.         *)
ImplementsInventory == Abstract!Spec

(* lss_ping, network.py:510-525, takes a node off the list when its device *)
(* no longer has the id, however the reads of the status compete with the  *)
(* ping for the lock of the node: unless exchanges are mixed up, which may *)
(* end the ping task.  The node needs a locator: the ping of any other is  *)
(* answered from the cache for ever.                                       *)
Stale(k) ==
    /\ k \in Listed /\ "locator" \in node[k].od
    /\ devId[node[k].dev] # node[k].id

StaleLeave ==
    \A k \in NodeObjects : Stale(k) ~> (k \notin Listed \/ Mixed)

=============================================================================
