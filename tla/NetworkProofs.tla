---------------------------- MODULE NetworkProofs ----------------------------
(***************************************************************************)
(* Proofs about Network for any devices and ids: its type invariant, and   *)
(* that a new connection starts from an empty list, whatever the bus and   *)
(* the interface do; and that, on a bus that loses nothing, what is sent   *)
(* to a listed node reaches no other device.                               *)
(***************************************************************************)
EXTENDS Network, TLAPS

(* No message is lost and the interface stays up once it is up, so that a  *)
(* connected server reaches every device that has power.                   *)
Steady ==
    /\ losses = 0 /\ downs = 0
    /\ ifState => ifUp
    /\ watch => ifState
    /\ running /\ ifState => threads
    /\ scan # "off" => ifState

(* While the scan waits for a new connection nothing is listed; until it   *)
(* has taken the old ids away nothing is either.                           *)
NothingYet ==
    /\ run = "await" => scan = "off" /\ nodes = Nothing
    /\ scan \in {"enter", "invalidate", "leave"} => nodes = Nothing

(* Only devices with power have an id, and old ids are taken away in two   *)
(* steps.                                                                  *)
IdsNeedPower ==
    /\ \A n \in Nodes : devId[n] # 0 => n \in on
    /\ scan = "invalidate" => \A n \in Nodes : devId[n] # 0 => n \in config
    /\ scan = "leave" => \A n \in Nodes : devId[n] = 0

(* Only the device found is in configuration mode.                         *)
OneConfigured ==
    /\ scan \in {"search", "enumerate", "objects"} => config = {}
    /\ scan \in {"configure", "operate"} => config \subseteq {target.node}

(* The id chosen is not listed, and only the device found answers to it.   *)
ChosenIsFree ==
    /\ scan \in {"configure", "operate", "enumerate", "objects"}
         => target.node \in Nodes
            /\ (target.id # 0 => nodes[target.id] = NoNode)
    /\ scan \in {"operate", "enumerate", "objects"}
         => target.id # 0
            /\ \A n \in Nodes : devId[n] = target.id => n = target.node

(* A device that has an id is listed under it or about to be.              *)
IdsAreKnown ==
    running /\ scan \in {"search", "configure", "operate",
                         "enumerate", "objects"}
      => \A n \in Nodes : devId[n] # 0 =>
            \/ nodes[devId[n]] = n
            \/ /\ scan \in {"operate", "enumerate", "objects"}
               /\ target.node = n /\ target.id = devId[n]

Addressing ==
    /\ NothingYet /\ IdsNeedPower /\ OneConfigured
    /\ ChosenIsFree /\ IdsAreKnown /\ ListedIsAddressed

NInv == TypeOK /\ Steady /\ Addressing

-----------------------------------------------------------------------------
(* Every step keeps the types.                                             *)
LEMMA TypeStep == TypeOK /\ [Next]_vars => TypeOK'
<1> SUFFICES ASSUME TypeOK, [Next]_vars PROVE TypeOK'
  OBVIOUS
<1>a. OpenBusFails => ifState' \in BOOLEAN /\ ifUp' \in BOOLEAN
                        /\ run' = "raised"
  BY DEF OpenBusFails
<1>b. Shutdown => running' \in BOOLEAN
  BY DEF Shutdown
<1>c. ThreadsReturn => threads' \in BOOLEAN
  BY DEF ThreadsReturn
<1>d. InterfaceDown => ifUp' \in BOOLEAN
  BY DEF InterfaceDown
<1> USE NetworkAssumption DEF TypeOK, Ids, NodeIds, Targets, NoTarget, life,
        scanner, pinger, server, devices, bounds

<1>1. CASE OpenBus
  BY <1>1 DEF OpenBus
<1>2. CASE OpenBusFails
  <2>1. ifState' \in BOOLEAN /\ ifUp' \in BOOLEAN /\ run' = "raised"
    BY <1>2, <1>a
  <2>2. downs' \in Nat
    BY <1>2 DEF OpenBusFails
  <2>3. UNCHANGED <<running, watch, threads, scan, target, inSetup, ping, todo,
                    nodes, killed, on, config, devId, losses, unplugs>>
    BY <1>2 DEF OpenBusFails
  <2> QED BY <2>1, <2>2, <2>3
<1>3. CASE EndRun
  BY <1>3 DEF EndRun
<1>4. CASE Disconnect
  BY <1>4 DEF Disconnect, Nothing
<1>5. CASE Shutdown
  <2>1. running' \in BOOLEAN
    BY <1>5, <1>b
  <2>2. UNCHANGED <<ifState, run, watch, threads, scan, target, inSetup, ping,
                    todo, nodes, killed, ifUp, on, config, devId, losses,
                    unplugs, downs>>
    BY <1>5 DEF Shutdown
  <2> QED BY <2>1, <2>2
<1>6. CASE UpdateInterfaceState
  BY <1>6 DEF UpdateInterfaceState
<1>7. CASE ThreadsReturn
  <2>1. threads' \in BOOLEAN
    BY <1>7, <1>c
  <2>2. UNCHANGED <<running, ifState, run, watch, scan, target, inSetup, ping,
                    todo, nodes, killed, ifUp, on, config, devId, losses,
                    unplugs, downs>>
    BY <1>7 DEF ThreadsReturn
  <2> QED BY <2>1, <2>2
<1>8. CASE ThreadsFail
  BY <1>8 DEF ThreadsFail
<1>9. CASE ScanShutdown
  BY <1>9 DEF ScanShutdown
<1>10. CASE SwitchAllToConfiguration
  BY <1>10 DEF SwitchAllToConfiguration, ScanAt, Exchange
<1>11. CASE InvalidateNodeIds
  BY <1>11 DEF InvalidateNodeIds, ScanAt, Exchange
<1>12. CASE SwitchAllToOperation
  <2>1. losses' \in Nat
    BY <1>12 DEF SwitchAllToOperation, Exchange
  <2>2. config' \subseteq on /\ inSetup' \in Targets
    BY <1>12 DEF SwitchAllToOperation
  <2>3. scan' \in {"search", "enumerate"}
    BY <1>12 DEF SwitchAllToOperation, ScanAt
  <2>4. UNCHANGED <<running, ifState, run, watch, threads, target, ping, todo,
                    nodes, killed, ifUp, on, devId, unplugs, downs>>
    BY <1>12 DEF SwitchAllToOperation, ScanAt
  <2> QED BY <2>1, <2>2, <2>3, <2>4
<1>13. CASE Search
  BY <1>13 DEF Search, ScanAt, Unconfigured, GenCanopenNodeId
<1>14. CASE SearchInVain
  BY <1>14 DEF SearchInVain, ScanAt, Unconfigured
<1>15. CASE ConfigureNodeId
  BY <1>15 DEF ConfigureNodeId, ScanAt, Exchange, Configurable
<1>16. CASE NoMoreIds
  BY <1>16 DEF NoMoreIds, ScanRaises
<1>17. CASE Enumerate
  BY <1>17 DEF Enumerate
<1>18. CASE EnumerateRefused
  BY <1>18 DEF EnumerateRefused, ScanRaises
<1>19. CASE EnumerateTimeout
  BY <1>19 DEF EnumerateTimeout, ScanRaises, Exchange
<1>20. CASE List
  <2>1. nodes' = [nodes EXCEPT ![target.id] = target.node]
    BY <1>20 DEF List
  <2>2. nodes' \in [Ids -> Nodes \cup {NoNode}] /\ nodes'[IspId] = NoNode
    <3>1. target.node \in Nodes \cup {NoNode} /\ target.id # IspId
      <4>1. CASE target = NoTarget
        BY <4>1
      <4>2. CASE target \in [node: Nodes, id: {0} \cup NodeIds]
        BY <4>2
      <4> QED BY <4>1, <4>2
    <3> QED BY <2>1, <3>1
  <2>3. scan' = "search" /\ inSetup' = NoTarget
    BY <1>20 DEF List
  <2>4. UNCHANGED <<running, ifState, run, watch, threads, target, ping, todo,
                    killed, ifUp, on, config, devId, losses, unplugs, downs>>
    BY <1>20 DEF List
  <2> QED BY <2>2, <2>3, <2>4
<1>21. CASE PingRound
  BY <1>21 DEF PingRound
<1>22. ASSUME NEW i \in Ids, PingAnswered(i) PROVE TypeOK'
  BY <1>22 DEF PingAnswered
<1>23. ASSUME NEW i \in Ids, PingTimeout(i) PROVE TypeOK'
  BY <1>23 DEF PingTimeout, Exchange
<1>24. ASSUME NEW i \in Ids, PingRefused(i) PROVE TypeOK'
  BY <1>24 DEF PingRefused
<1>25. CASE InterfaceDown
  <2>1. ifUp' \in BOOLEAN
    BY <1>25, <1>d
  <2>2. downs' \in Nat
    BY <1>25 DEF InterfaceDown
  <2>3. UNCHANGED <<running, ifState, run, watch, threads, scan, target,
                    inSetup, ping, todo, nodes, killed, on, config, devId,
                    losses, unplugs>>
    BY <1>25 DEF InterfaceDown
  <2> QED BY <2>1, <2>2, <2>3
<1>26. CASE InterfaceUp
  BY <1>26 DEF InterfaceUp
<1>27. ASSUME NEW n \in Nodes, Plug(n) PROVE TypeOK'
  BY <1>27 DEF Plug
<1>28. ASSUME NEW n \in Nodes, Unplug(n) PROVE TypeOK'
  BY <1>28 DEF Unplug
<1>29. ASSUME NEW n \in Nodes, Expire(n) PROVE TypeOK'
  BY <1>29 DEF Expire
<1>30. CASE UNCHANGED vars
  BY <1>30 DEF vars
<1> QED
  BY <1>1, <1>2, <1>3, <1>4, <1>5, <1>6, <1>7, <1>8, <1>9, <1>10, <1>11, <1>12,
      <1>13, <1>14, <1>15, <1>16, <1>17, <1>18, <1>19, <1>20, <1>21, <1>22,
      <1>23, <1>24, <1>25, <1>26, <1>27, <1>28, <1>29, <1>30 DEF Next, Run,
      Scan, Ping, Bus

(* The initial states have the types.                                      *)
LEMMA NetworkInit == Init => TypeOK
<1> SUFFICES ASSUME Init PROVE TypeOK
  OBVIOUS
<1>1. /\ running \in BOOLEAN /\ ifState \in BOOLEAN /\ watch \in BOOLEAN
      /\ threads \in BOOLEAN /\ killed \in BOOLEAN /\ ifUp \in BOOLEAN
  BY DEF Init
<1>2. /\ run = "await" /\ scan = "off" /\ ping = "off" /\ todo = {}
      /\ target \in Targets /\ inSetup \in Targets
      /\ losses \in Nat /\ unplugs \in Nat /\ downs \in Nat
  BY DEF Init, Targets
<1>3. /\ on \subseteq Nodes /\ config \subseteq on
      /\ devId \in [Nodes -> {0} \cup NodeIds]
  BY DEF Init
<1>4. nodes \in [Ids -> Nodes \cup {NoNode}] /\ nodes[IspId] = NoNode
  BY NetworkAssumption DEF Init, Nothing, Ids
<1> QED BY <1>1, <1>2, <1>3, <1>4 DEF TypeOK

(* Every variable keeps its type, and the id of the bootloader is never    *)
(* listed (_gen_canopen_node_id, network.py:413-421).                      *)
THEOREM NetworkTypeCorrect == Spec => []TypeOK
BY NetworkInit, TypeStep, PTL DEF Spec

-----------------------------------------------------------------------------
(* Only a node that is being set up is in setup; a scan that has raised    *)
(* never returns to the start.                                             *)
SetupOver ==
    scan \notin {"enumerate", "objects", "raised"} => inSetup = NoTarget

Fresh == NothingYet /\ SetupOver

(* Most steps leave the list and the node in setup alone.                  *)
LEMMA FreshKept ==
  ASSUME Fresh, UNCHANGED <<nodes, inSetup>>,
         run' = run /\ scan' = scan
  PROVE  Fresh'
BY DEF Fresh, NothingYet, SetupOver, Nothing, NoTarget

(* A run that waits has an empty list and no scan, and a scan that raises  *)
(* ends the run, so nothing is carried over to the next connection.        *)
LEMMA FreshStep ==
  ASSUME Fresh, [Next]_vars
  PROVE  Fresh'
<1> USE DEF life, scanner, pinger, server, devices, bounds
<1>1. CASE OpenBus
  BY <1>1 DEF OpenBus, Fresh, NothingYet, SetupOver, Nothing, NoTarget
<1>2. CASE OpenBusFails
  BY <1>2 DEF OpenBusFails, Fresh, NothingYet, SetupOver, Nothing, NoTarget
<1>3. CASE EndRun
  BY <1>3 DEF EndRun, Fresh, NothingYet, SetupOver, Nothing, NoTarget
<1>4. CASE Disconnect
  BY <1>4 DEF Disconnect, Fresh, NothingYet, SetupOver, Nothing, NoTarget
<1>5. CASE Shutdown \/ UpdateInterfaceState \/ ThreadsReturn \/ ThreadsFail
  BY <1>5, FreshKept
  DEF Shutdown, UpdateInterfaceState, ThreadsReturn, ThreadsFail
<1>6. CASE ScanShutdown
  BY <1>6 DEF ScanShutdown, Fresh, NothingYet, SetupOver, Nothing, NoTarget
<1>7. CASE SwitchAllToConfiguration
  BY <1>7
  DEF SwitchAllToConfiguration, ScanAt, Fresh, NothingYet, SetupOver, Nothing,
      NoTarget
<1>8. CASE InvalidateNodeIds
  BY <1>8
  DEF InvalidateNodeIds, ScanAt, Fresh, NothingYet, SetupOver, Nothing, NoTarget
<1>9. CASE SwitchAllToOperation
  BY <1>9
  DEF SwitchAllToOperation, ScanAt, Fresh, NothingYet, SetupOver, Nothing,
      NoTarget
<1>10. CASE Search \/ SearchInVain \/ ConfigureNodeId
  BY <1>10
  DEF Search, SearchInVain, ConfigureNodeId, ScanAt, Fresh, NothingYet,
      SetupOver, Nothing, NoTarget
<1>11. CASE NoMoreIds \/ EnumerateRefused \/ EnumerateTimeout
  BY <1>11
  DEF NoMoreIds, EnumerateRefused, EnumerateTimeout, ScanRaises, Fresh,
      NothingYet, SetupOver
<1>12. CASE Enumerate
  BY <1>12 DEF Enumerate, Fresh, NothingYet, SetupOver
<1>13. CASE List
  <2>1. scan = "objects" /\ scan' = "search" /\ inSetup' = NoTarget /\ run' = run
    BY <1>13 DEF List
  <2> QED BY <2>1 DEF Fresh, NothingYet, SetupOver, NoTarget
<1>14. CASE PingRound
  BY <1>14, FreshKept DEF PingRound
<1>15. ASSUME NEW i \in Ids, PingAnswered(i) \/ PingRefused(i) PROVE Fresh'
  BY <1>15, FreshKept DEF PingAnswered, PingRefused
<1>16. ASSUME NEW i \in Ids, PingTimeout(i) PROVE Fresh'
  <2>1. /\ UNCHANGED <<run, scan, inSetup>>
        /\ nodes' = [nodes EXCEPT ![i] = NoNode]
    BY <1>16 DEF PingTimeout
  <2>2. nodes = Nothing => nodes' = Nothing
    BY <2>1 DEF Nothing
  <2> QED BY <2>1, <2>2 DEF Fresh, NothingYet, SetupOver, Nothing, NoTarget
<1>17. CASE InterfaceDown \/ InterfaceUp
  BY <1>17, FreshKept DEF InterfaceDown, InterfaceUp
<1>18. ASSUME NEW n \in Nodes, Plug(n) \/ Unplug(n) \/ Expire(n)
       PROVE  Fresh'
  BY <1>18, FreshKept DEF Plug, Unplug, Expire
<1>19. CASE UNCHANGED vars
  BY <1>19, FreshKept DEF vars
<1> QED
  BY <1>1, <1>2, <1>3, <1>4, <1>5, <1>6, <1>7, <1>8, <1>9, <1>10, <1>11, <1>12,
     <1>13, <1>14, <1>15, <1>16, <1>17, <1>18, <1>19
  DEF Next, Run, Scan, Ping, Bus

(* However often the interface goes down and whatever the tasks were doing *)
(* then, a scan that takes the old node ids away finds an empty list and   *)
(* no node in setup (run, network.py:565-571).                             *)
THEOREM StartsAreFresh == Spec => []FreshStart
<1>1. Init => Fresh
  BY DEF Init, Fresh, NothingYet, SetupOver
<1>2. Fresh /\ [Next]_vars => Fresh'
  BY FreshStep
<1>3. Fresh => FreshStart
  BY DEF Fresh, NothingYet, SetupOver, FreshStart
<1> QED BY <1>1, <1>2, <1>3, PTL DEF Spec

-----------------------------------------------------------------------------
(* Without losses and outages the server stays in reach of the devices.    *)
LEMMA SteadyStep ==
  ASSUME MaxLosses = 0, MaxDowns = 0, TypeOK, Steady, [Next]_vars
  PROVE  Steady'
<1> USE DEF Steady, life, scanner, pinger, server, devices, bounds
<1>1. CASE OpenBus
  BY <1>1 DEF OpenBus
<1>2. CASE OpenBusFails
  BY <1>2 DEF OpenBusFails
<1>3. CASE EndRun
  BY <1>3 DEF EndRun
<1>4. CASE Disconnect
  BY <1>4 DEF Disconnect
<1>5. CASE Shutdown
  BY <1>5 DEF Shutdown
<1>6. CASE UpdateInterfaceState
  BY <1>6 DEF UpdateInterfaceState
<1>7. CASE ThreadsReturn
  BY <1>7 DEF ThreadsReturn, Connected
<1>8. CASE ThreadsFail
  BY <1>8 DEF ThreadsFail
<1>9. CASE ScanShutdown
  BY <1>9 DEF ScanShutdown
<1>10. CASE SwitchAllToConfiguration
  BY <1>10 DEF SwitchAllToConfiguration, ScanAt, Exchange
<1>11. CASE InvalidateNodeIds
  BY <1>11 DEF InvalidateNodeIds, ScanAt, Exchange
<1>12. CASE SwitchAllToOperation
  BY <1>12 DEF SwitchAllToOperation, ScanAt, Exchange
<1>13. CASE Search
  BY <1>13 DEF Search, ScanAt
<1>14. CASE SearchInVain
  BY <1>14 DEF SearchInVain, ScanAt
<1>15. CASE ConfigureNodeId
  BY <1>15 DEF ConfigureNodeId, ScanAt, Exchange
<1>16. CASE NoMoreIds
  BY <1>16 DEF NoMoreIds, ScanRaises
<1>17. CASE Enumerate
  BY <1>17 DEF Enumerate
<1>18. CASE EnumerateRefused
  BY <1>18 DEF EnumerateRefused, ScanRaises
<1>19. CASE EnumerateTimeout
  BY <1>19 DEF EnumerateTimeout, ScanRaises, Exchange
<1>20. CASE List
  BY <1>20 DEF List
<1>21. CASE PingRound
  BY <1>21 DEF PingRound
<1>22. ASSUME NEW i \in Ids, PingAnswered(i) PROVE Steady'
  BY <1>22 DEF PingAnswered
<1>23. ASSUME NEW i \in Ids, PingTimeout(i) PROVE Steady'
  BY <1>23 DEF PingTimeout, Exchange
<1>24. ASSUME NEW i \in Ids, PingRefused(i) PROVE Steady'
  BY <1>24 DEF PingRefused
<1>25. CASE InterfaceDown
  BY <1>25 DEF InterfaceDown
<1>26. CASE InterfaceUp
  BY <1>26 DEF InterfaceUp
<1>27. ASSUME NEW n \in Nodes, Plug(n) \/ Unplug(n) \/ Expire(n)
       PROVE  Steady'
  BY <1>27 DEF Plug, Unplug, Expire
<1>28. CASE UNCHANGED vars
  BY <1>28 DEF vars
<1> QED
  BY <1>1, <1>2, <1>3, <1>4, <1>5, <1>6, <1>7, <1>8, <1>9, <1>10, <1>11, <1>12,
     <1>13, <1>14, <1>15, <1>16, <1>17, <1>18, <1>19, <1>20, <1>21, <1>22,
     <1>23, <1>24, <1>25, <1>26, <1>27, <1>28 DEF Next, Run, Scan, Ping, Bus

(* A connected server gets every answer.                                   *)
LEMMA SteadyReaches ==
  ASSUME MaxLosses = 0, Steady, Connected
  PROVE  Reachable /\ ~Exchange(FALSE)
BY DEF Steady, Connected, Reachable, Exchange

-----------------------------------------------------------------------------
(* Steps of the other tasks that touch neither ids nor the list.           *)
LEMMA QuietStep ==
  ASSUME NInv, UNCHANGED <<scan, target, nodes, on, config, devId>>,
         running' => running, run' = "await" => run = "await"
  PROVE  Addressing'
<1>1. NothingYet'
  BY DEF NInv, Addressing, NothingYet, Nothing
<1>2. IdsNeedPower' /\ OneConfigured' /\ ChosenIsFree'
  BY DEF NInv, Addressing, IdsNeedPower, OneConfigured, ChosenIsFree
<1>3. IdsAreKnown'
  BY DEF NInv, Addressing, IdsAreKnown
<1>4. ListedIsAddressed'
  BY DEF NInv, Addressing, ListedIsAddressed, Hearing
<1> QED BY <1>1, <1>2, <1>3, <1>4 DEF Addressing

(* Every step keeps what is known of the ids, case by case.                *)
LEMMA AddressStep ==
  ASSUME MaxLosses = 0, MaxDowns = 0, NInv, TypeOK', [Next]_vars
  PROVE  Addressing'
<1> USE DEF life, scanner, pinger, server, devices, bounds
<1>1. CASE OpenBus
  <2>1. /\ UNCHANGED <<running, target, nodes, on, config, devId>>
        /\ scan = "off" /\ scan' = "enter" /\ run' = "gather"
        /\ nodes = Nothing
    BY <1>1 DEF OpenBus, NInv, Addressing, NothingYet
  <2> QED
    BY <2>1 DEF NInv, Addressing, NothingYet, Nothing, IdsNeedPower,
       OneConfigured, ChosenIsFree, IdsAreKnown, ListedIsAddressed, Hearing
<1>2. CASE OpenBusFails
  BY <1>2 DEF OpenBusFails, NInv, Steady
<1>3. CASE EndRun
  BY <1>3, QuietStep DEF EndRun
<1>4. CASE Disconnect
  <2>1. /\ UNCHANGED <<running, scan, target, on, config, devId>>
        /\ scan = "off" /\ nodes' = Nothing
    BY <1>4 DEF Disconnect
  <2> QED
    BY <2>1 DEF NInv, Addressing, NothingYet, Nothing, IdsNeedPower,
       OneConfigured, ChosenIsFree, IdsAreKnown, ListedIsAddressed, Hearing,
       NodeIds
<1>5. CASE Shutdown
  BY <1>5, QuietStep DEF Shutdown
<1>6. CASE UpdateInterfaceState
  BY <1>6, QuietStep DEF UpdateInterfaceState
<1>7. CASE ThreadsReturn
  BY <1>7, QuietStep DEF ThreadsReturn
<1>8. CASE ThreadsFail
  BY <1>8, QuietStep DEF ThreadsFail
<1>9. CASE ScanShutdown
  BY <1>9 DEF ScanShutdown, NInv, Addressing, NothingYet, Nothing,
     IdsNeedPower, OneConfigured, ChosenIsFree, IdsAreKnown,
     ListedIsAddressed, Hearing
<1>10. CASE SwitchAllToConfiguration
  <2>1. /\ UNCHANGED <<running, run, target, nodes, on, devId>>
        /\ scan = "enter" /\ scan' = "invalidate" /\ Connected
    BY <1>10 DEF SwitchAllToConfiguration, ScanAt
  <2>2. config' = on
    BY <1>10, <2>1, SteadyReaches DEF SwitchAllToConfiguration, NInv
  <2> QED
    BY <2>1, <2>2 DEF NInv, Addressing, NothingYet, Nothing, IdsNeedPower,
       OneConfigured, ChosenIsFree, IdsAreKnown, ListedIsAddressed, Hearing
<1>11. CASE InvalidateNodeIds
  <2>1. /\ UNCHANGED <<running, run, target, nodes, on, config>>
        /\ scan = "invalidate" /\ scan' = "leave" /\ Connected
    BY <1>11 DEF InvalidateNodeIds, ScanAt
  <2>2. devId' = [n \in Nodes |-> IF n \in config THEN 0 ELSE devId[n]]
    BY <1>11, <2>1, SteadyReaches DEF InvalidateNodeIds, NInv
  <2>3. \A n \in Nodes : devId'[n] = 0
    BY <2>1, <2>2 DEF NInv, Addressing, IdsNeedPower
  <2>4. nodes = Nothing
    BY <2>1 DEF NInv, Addressing, NothingYet
  <2> QED
    BY <2>1, <2>3, <2>4 DEF NInv, Addressing, NothingYet, Nothing, NodeIds,
       IdsNeedPower, OneConfigured, ChosenIsFree, IdsAreKnown,
       ListedIsAddressed, Hearing
<1>12. CASE SwitchAllToOperation
  <2>1. /\ UNCHANGED <<running, run, target, nodes, on, devId>> /\ Connected
        /\ \/ scan = "leave" /\ scan' = "search"
           \/ scan = "operate" /\ scan' = "enumerate"
    BY <1>12 DEF SwitchAllToOperation, ScanAt
  <2>2. config' = {}
    BY <1>12, <2>1, SteadyReaches DEF SwitchAllToOperation, NInv
  <2> QED
    BY <2>1, <2>2 DEF NInv, Addressing, NothingYet, Nothing, IdsNeedPower,
       OneConfigured, ChosenIsFree, IdsAreKnown, ListedIsAddressed, Hearing
<1>13. CASE Search
  <2>1. /\ UNCHANGED <<running, run, nodes, on, devId>>
        /\ scan = "search" /\ scan' = "configure"
    BY <1>13 DEF Search, ScanAt
  <2>2. PICK n \in Unconfigured, i \in {0} \cup Ids :
           /\ GenCanopenNodeId(i) /\ config' = config \cup {n}
           /\ target' = [node |-> n, id |-> i]
    BY <1>13 DEF Search
  <2>3. config' = {n} /\ target'.node = n /\ target'.id = i /\ n \in Nodes
    BY <2>1, <2>2 DEF NInv, TypeOK, Addressing, OneConfigured, Unconfigured
  <2>4. i # 0 => nodes[i] = NoNode
    BY <2>2 DEF GenCanopenNodeId
  <2> QED
    BY <2>1, <2>3, <2>4 DEF NInv, Addressing, NothingYet, Nothing,
       IdsNeedPower, OneConfigured, ChosenIsFree, IdsAreKnown,
       ListedIsAddressed, Hearing
<1>14. CASE SearchInVain
  BY <1>14 DEF SearchInVain, NInv, Steady
<1>15. CASE ConfigureNodeId
  <2>1. /\ UNCHANGED <<running, run, target, nodes, on, config>>
        /\ scan = "configure" /\ scan' = "operate" /\ Connected
        /\ target.id \in NodeIds /\ running
    BY <1>15 DEF ConfigureNodeId, ScanAt, Configurable, Connected
  <2>2. devId' = [n \in Nodes |->
                    IF n \in config THEN target.id ELSE devId[n]]
    BY <1>15, <2>1, SteadyReaches DEF ConfigureNodeId, NInv
  <2>3. /\ target.node \in Nodes /\ nodes[target.id] = NoNode
        /\ target.id # 0 /\ config \subseteq {target.node}
        /\ config \subseteq on
    BY <2>1, NetworkAssumption
       DEF NInv, TypeOK, Addressing, ChosenIsFree, OneConfigured, NodeIds, Ids
  <2>4. \A n \in Nodes : devId[n] # target.id
    BY <2>1, <2>3, NetworkAssumption DEF NInv, Addressing, IdsAreKnown
  <2>5. \A n \in Nodes : IF n \in config
                            THEN n = target.node /\ devId'[n] = target.id
                            ELSE devId'[n] = devId[n]
    BY <2>2, <2>3
  <2>6. NothingYet' /\ OneConfigured'
    BY <2>1, <2>3 DEF NInv, Addressing, NothingYet, OneConfigured, Nothing
  <2>7. IdsNeedPower' /\ ChosenIsFree'
    BY <2>1, <2>3, <2>4, <2>5 DEF NInv, Addressing, IdsNeedPower, ChosenIsFree
  <2>8. IdsAreKnown'
    BY <2>1, <2>3, <2>5 DEF NInv, Addressing, IdsAreKnown
  <2>9. ListedIsAddressed'
    BY <2>1, <2>3, <2>5 DEF NInv, Addressing, ListedIsAddressed, Hearing,
       TypeOK
  <2> QED BY <2>6, <2>7, <2>8, <2>9 DEF Addressing
<1>16. CASE NoMoreIds
  BY <1>16 DEF NoMoreIds, ScanRaises, NInv, Addressing, NothingYet, Nothing,
     IdsNeedPower, OneConfigured, ChosenIsFree, IdsAreKnown,
     ListedIsAddressed, Hearing
<1>17. CASE Enumerate
  BY <1>17 DEF Enumerate, NInv, Addressing, NothingYet, Nothing,
     IdsNeedPower, OneConfigured, ChosenIsFree, IdsAreKnown,
     ListedIsAddressed, Hearing
<1>18. CASE EnumerateRefused
  BY <1>18 DEF EnumerateRefused, ScanRaises, NInv, Addressing, NothingYet,
     Nothing, IdsNeedPower, OneConfigured, ChosenIsFree, IdsAreKnown,
     ListedIsAddressed, Hearing
<1>19. CASE EnumerateTimeout
  BY <1>19 DEF EnumerateTimeout, ScanRaises, NInv, Addressing, NothingYet,
     Nothing, IdsNeedPower, OneConfigured, ChosenIsFree, IdsAreKnown,
     ListedIsAddressed, Hearing
<1>20. CASE List
  <2>1. /\ UNCHANGED <<running, run, target, on, config, devId>>
        /\ scan = "objects" /\ scan' = "search"
        /\ nodes' = [nodes EXCEPT ![target.id] = target.node]
    BY <1>20 DEF List
  <2>2. /\ target.node \in Nodes /\ target.id # 0
        /\ \A n \in Nodes : devId[n] = target.id => n = target.node
        /\ nodes \in [Ids -> Nodes \cup {NoNode}] /\ config = {}
        /\ on \subseteq Nodes /\ devId \in [Nodes -> {0} \cup NodeIds]
    BY <2>1 DEF NInv, TypeOK, Addressing, ChosenIsFree, OneConfigured
  <2>3. \A i \in Ids : nodes'[i] = IF i = target.id THEN target.node
                                                   ELSE nodes[i]
    BY <2>1, <2>2
  <2>4. NothingYet' /\ IdsNeedPower' /\ OneConfigured' /\ ChosenIsFree'
    BY <2>1, <2>2 DEF NInv, Steady, Addressing, NothingYet, IdsNeedPower,
       OneConfigured, ChosenIsFree
  <2>5. IdsAreKnown'
    BY <2>1, <2>2, <2>3 DEF NInv, Addressing, IdsAreKnown, NodeIds
  <2>6. ListedIsAddressed'
    BY <2>1, <2>2, <2>3 DEF NInv, Addressing, ListedIsAddressed, Hearing,
       NodeIds
  <2> QED BY <2>4, <2>5, <2>6 DEF Addressing
<1>21. CASE PingRound
  BY <1>21, QuietStep DEF PingRound
<1>22. ASSUME NEW i \in Ids, PingAnswered(i) PROVE Addressing'
  BY <1>22, QuietStep DEF PingAnswered
<1>23. ASSUME NEW i \in Ids, PingTimeout(i) PROVE Addressing'
  <2>1. /\ UNCHANGED <<running, run, scan, target, on, config, devId>>
        /\ nodes' = [nodes EXCEPT ![i] = NoNode]
        /\ Hearing(i) = {} \/ Exchange(FALSE)
    BY <1>23 DEF PingTimeout
  <2>2. /\ nodes \in [Ids -> Nodes \cup {NoNode}]
        /\ on \subseteq Nodes /\ devId \in [Nodes -> {0} \cup NodeIds]
    BY DEF NInv, TypeOK
  <2>3. \A j \in Ids : nodes'[j] = IF j = i THEN NoNode ELSE nodes[j]
    BY <2>1, <2>2
  <2>4. nodes = Nothing => nodes' = Nothing
    BY <2>1, <2>2 DEF Nothing
  <2>5. NothingYet' /\ IdsNeedPower' /\ OneConfigured' /\ ChosenIsFree'
    BY <2>1, <2>2, <2>3, <2>4, NetworkAssumption
       DEF NInv, TypeOK, Targets, NoTarget, NodeIds, Addressing, NothingYet,
       IdsNeedPower, OneConfigured, ChosenIsFree
  <2>6. IdsAreKnown'
    <3> SUFFICES ASSUME running, scan # "off", NEW n \in Nodes, devId[n] = i,
                        i # 0, nodes[i] = n
                 PROVE  FALSE
      BY <2>1, <2>2, <2>3 DEF NInv, Addressing, IdsAreKnown, NodeIds
    <3>1. Connected
      BY DEF NInv, Steady, Connected
    <3>2. Hearing(i) = {}
      BY <2>1, <3>1, SteadyReaches DEF NInv
    <3> QED BY <3>2 DEF NInv, Addressing, IdsNeedPower, Hearing
  <2>7. ListedIsAddressed'
    BY <2>1, <2>2, <2>3 DEF NInv, Addressing, ListedIsAddressed, Hearing,
       NodeIds
  <2> QED BY <2>5, <2>6, <2>7 DEF Addressing
<1>24. ASSUME NEW i \in Ids, PingRefused(i) PROVE Addressing'
  BY <1>24, QuietStep DEF PingRefused
<1>25. CASE InterfaceDown
  BY <1>25 DEF InterfaceDown, NInv, Steady
<1>26. CASE InterfaceUp
  BY <1>26, QuietStep DEF InterfaceUp
<1>27. ASSUME NEW n \in Nodes, Plug(n) PROVE Addressing'
  <2>1. /\ UNCHANGED <<running, run, scan, target, nodes, config, devId>>
        /\ n \notin on /\ on' = on \cup {n}
    BY <1>27 DEF Plug
  <2>2. devId[n] = 0
    BY <2>1 DEF NInv, Addressing, IdsNeedPower
  <2>3. NothingYet' /\ OneConfigured' /\ ChosenIsFree' /\ IdsAreKnown'
    BY <2>1 DEF NInv, Addressing, NothingYet, Nothing, OneConfigured,
       ChosenIsFree, IdsAreKnown
  <2>4. IdsNeedPower'
    BY <2>1 DEF NInv, Addressing, IdsNeedPower
  <2>5. ListedIsAddressed'
    BY <2>1, <2>2, NetworkAssumption DEF NInv, Addressing, ListedIsAddressed,
       Hearing, NodeIds, Ids
  <2> QED BY <2>3, <2>4, <2>5 DEF Addressing
<1>28. ASSUME NEW n \in Nodes, Unplug(n) PROVE Addressing'
  <2>1. /\ UNCHANGED <<running, run, scan, target, nodes>>
        /\ on' = on \ {n} /\ config' = config \ {n}
        /\ devId' = [devId EXCEPT ![n] = 0]
    BY <1>28 DEF Unplug
  <2>2. \A m \in Nodes : devId'[m] = IF m = n THEN 0 ELSE devId[m]
    BY <2>1 DEF NInv, TypeOK
  <2>3. NothingYet' /\ OneConfigured'
    BY <2>1 DEF NInv, Addressing, NothingYet, Nothing, OneConfigured
  <2>4. IdsNeedPower'
    BY <2>1, <2>2 DEF NInv, Addressing, IdsNeedPower
  <2>5. ChosenIsFree'
    BY <2>1, <2>2 DEF NInv, Addressing, ChosenIsFree
  <2>6. IdsAreKnown'
    BY <2>1, <2>2 DEF NInv, Addressing, IdsAreKnown
  <2>7. ListedIsAddressed'
    BY <2>1, <2>2, NetworkAssumption DEF NInv, TypeOK, Addressing,
       ListedIsAddressed, Hearing, NodeIds, Ids
  <2> QED BY <2>3, <2>4, <2>5, <2>6, <2>7 DEF Addressing
<1>29. ASSUME NEW n \in Nodes, Expire(n) PROVE Addressing'
  <2>1. /\ UNCHANGED <<running, run, scan, target, nodes, on, config>>
        /\ devId' = [devId EXCEPT ![n] = 0]
    BY <1>29 DEF Expire
  <2>2. \A m \in Nodes : devId'[m] = IF m = n THEN 0 ELSE devId[m]
    BY <2>1 DEF NInv, TypeOK
  <2>3. NothingYet' /\ IdsNeedPower' /\ OneConfigured' /\ ChosenIsFree'
    BY <2>1, <2>2 DEF NInv, TypeOK, Addressing, NothingYet, Nothing,
       IdsNeedPower, OneConfigured, ChosenIsFree
  <2>4. IdsAreKnown'
    BY <2>1, <2>2 DEF NInv, Addressing, IdsAreKnown
  <2>5. ListedIsAddressed'
    BY <2>1, <2>2, NetworkAssumption DEF NInv, TypeOK, Addressing,
       ListedIsAddressed, Hearing, NodeIds, Ids
  <2> QED BY <2>3, <2>4, <2>5 DEF Addressing
<1>30. CASE UNCHANGED vars
  BY <1>30, QuietStep DEF vars
<1> QED
  BY <1>1, <1>2, <1>3, <1>4, <1>5, <1>6, <1>7, <1>8, <1>9, <1>10, <1>11, <1>12,
     <1>13, <1>14, <1>15, <1>16, <1>17, <1>18, <1>19, <1>20, <1>21, <1>22,
     <1>23, <1>24, <1>25, <1>26, <1>27, <1>28, <1>29, <1>30
     DEF Next, Run, Scan, Ping, Bus

(* On a bus that loses no message and whose interface stays up, two        *)
(* devices never answer to one listed id: the scan has taken every old id  *)
(* away before it lists anything, gives an id only to the one device in    *)
(* configuration mode, and an id is freed only when nobody answers to it   *)
(* (lss_fast_scan and lss_ping, network.py:413-525).                       *)
THEOREM IdsAreUnique ==
  ASSUME MaxLosses = 0, MaxDowns = 0
  PROVE  Spec => []ListedIsAddressed
<1>1. Init => NInv
  <2> SUFFICES ASSUME Init PROVE NInv
    OBVIOUS
  <2>1. TypeOK
    BY NetworkInit
  <2>2. Steady
    BY DEF Init, Steady
  <2>3. Addressing
    BY DEF Init, Nothing, Addressing, NothingYet, IdsNeedPower, OneConfigured,
       ChosenIsFree, IdsAreKnown, ListedIsAddressed, NodeIds
  <2> QED BY <2>1, <2>2, <2>3 DEF NInv
<1>2. NInv /\ [Next]_vars => NInv'
  BY TypeStep, SteadyStep, AddressStep DEF NInv
<1>3. NInv => ListedIsAddressed
  BY DEF NInv, Addressing
<1> QED
  BY <1>1, <1>2, <1>3, PTL DEF Spec

=============================================================================
