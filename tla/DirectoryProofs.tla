-------------------------- MODULE DirectoryProofs --------------------------
(***************************************************************************)
(* Theorems about module Directory, for any number of devices, node ids    *)
(* and node objects.  The invariant has five parts: where node objects may *)
(* be (Shape), what is under way on the bus and for whom (Traffic), how    *)
(* current it is (Current), that it fits what was collected before (Whole) *)
(* and how far the set-up has come (Built).  All but the first are kept    *)
(* only until exchanges are mixed up.                                      *)
(***************************************************************************)
EXTENDS Directory, FiniteSetTheorems, TLAPS

(* A node object is made, set up, listed and dropped in this order; who    *)
(* has its lock is the task that works on it.                              *)
MadeInOrder ==
    \A k \in NodeObjects :
        IF k > made THEN call[k] = NoCall
        ELSE node[k].dev \in Devices /\ node[k].id \in Ids

ListedById ==
    \A i \in Ids : nodes[i] # 0 =>
        nodes[i] <= made /\ node[nodes[i]].id = i /\ nodes[i] # inSetup

SetUpApart ==
    /\ (inSetup = 0) <=> (scan = "search")
    /\ inSetup # 0 =>
          /\ inSetup = made /\ nodes[node[inSetup].id] = 0
          /\ call[inSetup].by \in {"nobody", "scan"}
          /\ node[inSetup].info = NoInfo
    /\ scan = "setup" => plan # {}

Owned ==
    /\ \A k \in NodeObjects :
          /\ call[k].by = "nobody" => call[k] = NoCall
          /\ call[k].by = "scan" =>
                /\ scan = "setup" /\ k = inSetup
                /\ \E n \in plan : call[k].obj = Reads[n]
          /\ call[k].by = "ping" => k \in todo
          /\ call[k].by = "status" => status.at = k
    /\ \A j, k \in NodeObjects : call[j].by = "ping" /\ call[k].by = "ping" => j = k
    /\ \A k \in todo : k <= made /\ nodes[node[k].id] = k
    /\ status.at # 0 => status.at <= made /\ status.at # inSetup

Absent == \A d \in Devices \ present : devId[d] = 0

Shape == MadeInOrder /\ ListedById /\ SetUpApart /\ Owned /\ Absent

(* Every frame answers the request of the node object the receive thread   *)
(* will take for the right one, and there is one at a time for each.       *)
AboutNow(k) == nodes[node[k].id] = k \/ inSetup = k

Answers(f, k) ==
    /\ f.id = node[k].id /\ f.dev = node[k].dev /\ f.obj = call[k].obj

AwaitedBy(f, k) ==
    /\ call[k].by # "nobody" /\ call[k].reply = NoFrame
    /\ AboutNow(k) /\ Answers(f, k)

UnderWayNow == wire \cup (IF rx = NoRoute THEN {} ELSE {rx.frame})

Traffic ==
    /\ \A f \in UnderWayNow : \E k \in 1..made : AwaitedBy(f, k)
    /\ \A f, g \in wire : f.id = g.id => f = g
    /\ rx # NoRoute =>
          /\ \A f \in wire : f.id # rx.frame.id
          /\ (rx.to = "listed") <=> (nodes[rx.frame.id] # 0)
    /\ \A k \in NodeObjects :
          call[k].reply # NoFrame => Answers(call[k].reply, k)
    /\ alive

(* Nothing that is read is older than the time its device got its node id. *)
Current ==
    /\ \A f \in UnderWayNow : devId[f.dev] = f.id => f.fw = fw[f.dev]
    /\ \A k \in 1..made : AboutNow(k) /\ devId[node[k].dev] = node[k].id =>
          /\ call[k].reply # NoFrame => call[k].reply.fw = fw[node[k].dev]
          /\ \A o \in {Name, Version} :
                node[k].info[o] \subseteq {[dev |-> node[k].dev, fw |-> fw[node[k].dev]]}

(* What a node object has collected, a reply to it, or one that it awaits,  *)
(* are of the same device and firmware, also after it was dropped.         *)
Source(f) == [dev |-> f.dev, fw |-> f.fw]
Seen(k) == node[k].info[Name] \cup node[k].info[Version]

Whole ==
    \A k \in 1..made :
        /\ \A r, q \in Seen(k) : r = q
        /\ \A f \in UnderWayNow :
              AwaitedBy(f, k) => \A r \in Seen(k) : r = Source(f)
        /\ call[k].reply # NoFrame => \A r \in Seen(k) : r = Source(call[k].reply)

(* The protocols still to be set up, and how each of the others is         *)
(* accounted for: it is there, or was lost, or is refused, and what is     *)
(* refused is still to be told so.                                         *)
Pending(reads) == {Reads[n][1] : n \in reads}

HalfBuilt(n, reads) ==
    /\ 1 \notin reads /\ Pending(reads) \subseteq Reports[n.dev] \cap WithNew
    /\ Pending(reads) \cap n.lost = {}
    /\ n.od = (Offer[n.dev] \ n.lost) \ Pending(reads)
    /\ \A r \in reads, m \in DOMAIN Reads :
          /\ Reads[m][1] = Reads[r][1] /\ Reads[m][2] \in Telling
          /\ Reads[r][1] \in Refuses[n.dev]
          => m \in reads

Built ==
    /\ \A k \in Listed : node[k].od = Offer[node[k].dev] \ node[k].lost
    /\ scan = "setup" =>
          LET n == node[inSetup] IN
          IF 1 \in plan THEN plan = {1} /\ n.od = {} /\ n.lost = {}
          ELSE HalfBuilt(n, plan)

IInv ==
    /\ TypeOK /\ Shape
    /\ ~Mixed => Traffic /\ Current /\ Whole /\ Built

-----------------------------------------------------------------------------
(* What the proofs need of the table of exchanges: the first one is that   *)
(* of the enumeration and every class with new() has one that tells        *)
(* whether it can be set up.                                               *)
LEMMA ReadsDomain == DOMAIN Reads = 1..13
BY DEF Reads, SupportedProtocols, Outputs, Inputs, Timers, Triggers, Adc,
   ServerTimeout

LEMMA ReadsOfClasses == \A n \in DOMAIN Reads : n # 1 => Reads[n][1] \in WithNew
BY DEF Reads, SupportedProtocols, Outputs, Inputs, Timers, Triggers, Adc,
   ServerTimeout, WithNew

LEMMA ReadsTell ==
    \A p \in WithNew : \E m \in DOMAIN Reads : Reads[m][1] = p /\ Reads[m][2] \in Telling
<1>1. Reads[2] = <<"timers", "version">> /\ Reads[5] = <<"triggers", "version">>
      /\ Reads[7] = <<"server_timeout", "version">>
      /\ Reads[8] = <<"adc", "protocol_version">>
      /\ Reads[11] = <<"inputs", "pin_count">>
      /\ Reads[13] = <<"outputs", "pin_count">>
  BY DEF Reads, SupportedProtocols, Outputs, Inputs, Timers, Triggers, Adc,
     ServerTimeout
<1>2. QED
  BY <1>1, ReadsDomain DEF WithNew, Telling

LEMMA ReadsInDirectory == \A n \in DOMAIN Reads : Reads[n] \in Directory
BY DEF Directory

-----------------------------------------------------------------------------
(* Sending a request keeps the types.                                      *)
LEMMA AskTypes ==
    ASSUME TypeOK, NEW k \in NodeObjects, NEW who \in {"scan", "ping", "status"},
           NEW o \in Directory, node[k].id \in Ids, Ask(k, who, o)
    PROVE  /\ call' \in [NodeObjects -> Calls] /\ wire' \subseteq Frames
           /\ stray' \in BOOLEAN
<1>1. call' \in [NodeObjects -> Calls]
  <2>1. [by |-> who, obj |-> o, reply |-> NoFrame] \in Calls
    BY DEF Calls
  <2>2. QED
    BY <2>1 DEF TypeOK, Ask
<1>2. wire' \subseteq Frames
  BY DEF TypeOK, Ask, Hearing, Frames, Ids
<1>3. stray' \in BOOLEAN
  BY DEF TypeOK, Ask
<1>4. QED
  BY <1>1, <1>2, <1>3

(* So does giving the lock back.                                           *)
LEMMA ReleaseTypes ==
    ASSUME TypeOK, NEW k, Release(k)
    PROVE  call' \in [NodeObjects -> Calls]
<1>1. NoCall \in Calls
  BY DEF NoCall, Calls, Directory
<1>2. QED
  BY <1>1 DEF TypeOK, Release

(* A reply that has come is a frame.                                       *)
LEMMA AnsweredByFrame ==
    ASSUME TypeOK, NEW k \in NodeObjects, NEW who, Answered(k, who)
    PROVE  call[k].reply \in Frames
BY DEF TypeOK, Answered, Calls

LEMMA RememberTypes ==
    ASSUME TypeOK, NEW k \in NodeObjects, NEW who, Answered(k, who), Remember(k)
    PROVE  node' \in [NodeObjects -> Nodes]
<1>1. call[k].reply \in Frames
  BY AnsweredByFrame
<1>2. node[k] \in Nodes
  BY DEF TypeOK
<1> DEFINE read == {[dev |-> call[k].reply.dev, fw |-> call[k].reply.fw]}
           info == [node[k].info EXCEPT ![call[k].obj] = read]
<1>3. read \in SUBSET [dev : Devices, fw : Nat]
  BY <1>1 DEF Frames
<1>4. info \in [{Name, Version} -> SUBSET [dev : Devices, fw : Nat]]
  BY <1>2, <1>3 DEF Nodes
<1>5. [node[k] EXCEPT !.info = info] \in Nodes
  <2> HIDE DEF info
  <2>1. QED
    BY <1>2, <1>4 DEF Nodes
<1>6. node' = [node EXCEPT ![k] = [node[k] EXCEPT !.info = info]]
  BY DEF Remember
<1>7. QED
  <2> HIDE DEF info
  <2>1. QED
    BY <1>5, <1>6 DEF TypeOK

(* Where the set-up is: a made node object with a node id.                 *)
LEMMA SetUpNode ==
    ASSUME TypeOK, Shape, scan = "setup"
    PROVE  /\ inSetup \in NodeObjects /\ inSetup = made
           /\ node[inSetup].dev \in Devices /\ node[inSetup].id \in Ids
           /\ nodes[node[inSetup].id] = 0
           /\ call[inSetup].by \in {"nobody", "scan"} /\ plan # {}
BY DirectoryAssumption DEF TypeOK, Shape, SetUpApart, MadeInOrder, NodeObjects

(* What an exchange of the set-up changes in a node object.                *)
LEMMA NodeWithObjects ==
    ASSUME TypeOK, NEW k \in NodeObjects, NEW reported
    PROVE  LET n == [node[k] EXCEPT !.od = MadeAtOnce(reported)]
           IN  /\ n \in Nodes /\ n.id = node[k].id /\ n.dev = node[k].dev
               /\ n.info = node[k].info
<1>1. node[k] \in Nodes
  BY DEF TypeOK
<1>2. MadeAtOnce(reported) \in SUBSET Known
  BY DEF MadeAtOnce, Known
<1> DEFINE Info == [{Name, Version} -> SUBSET [dev : Devices, fw : Nat]]
<1>3. Nodes = [dev : Devices \cup {NoDevice}, id : 0..LastId, od : SUBSET Known,
               lost : SUBSET WithNew, info : Info]
  BY DEF Nodes
<1> HIDE DEF Info
<1>4. QED
  BY <1>1, <1>2, <1>3

LEMMA NodeWithLoss ==
    ASSUME TypeOK, NEW k \in NodeObjects, NEW p \in WithNew
    PROVE  LET n == [node[k] EXCEPT !.lost = @ \cup {p}]
           IN  /\ n \in Nodes /\ n.id = node[k].id /\ n.dev = node[k].dev
               /\ n.info = node[k].info
<1>1. node[k] \in Nodes
  BY DEF TypeOK
<1> DEFINE Info == [{Name, Version} -> SUBSET [dev : Devices, fw : Nat]]
<1>2. Nodes = [dev : Devices \cup {NoDevice}, id : 0..LastId, od : SUBSET Known,
               lost : SUBSET WithNew, info : Info]
  BY DEF Nodes
<1> HIDE DEF Info
<1>3. node[k].lost \cup {p} \in SUBSET WithNew
  BY <1>1, <1>2
<1>4. QED
  BY <1>1, <1>2, <1>3

(* What the ping and the status work on.                                   *)
LEMMA PingNode ==
    ASSUME TypeOK, Shape, NEW k \in todo
    PROVE  /\ k \in NodeObjects /\ k <= made /\ nodes[node[k].id] = k
           /\ node[k].dev \in Devices /\ node[k].id \in Ids
           /\ k \in Listed /\ k # inSetup
<1>1. k \in NodeObjects /\ k <= made /\ nodes[node[k].id] = k
  BY DEF TypeOK, Shape, Owned
<1>2. node[k].dev \in Devices /\ node[k].id \in Ids
  BY <1>1, DirectoryAssumption DEF TypeOK, Shape, MadeInOrder, NodeObjects
<1>3. k # 0
  BY <1>1 DEF NodeObjects
<1>4. k \in Listed /\ k # inSetup
  BY <1>1, <1>2, <1>3 DEF Listed, Shape, ListedById
<1>5. QED
  BY <1>1, <1>2, <1>4

LEMMA StatusNode ==
    ASSUME TypeOK, Shape, status # NoStatus
    PROVE  /\ status.at \in NodeObjects /\ status.at <= made
           /\ node[status.at].dev \in Devices /\ node[status.at].id \in Ids
           /\ status.at # inSetup
           /\ status.want \in {Name, Version}
BY DEF TypeOK, Loops, Shape, Owned, MadeInOrder, NodeObjects

LEMMA ListedNode ==
    ASSUME TypeOK, Shape, NEW k \in Listed
    PROVE  /\ k \in NodeObjects /\ k <= made /\ nodes[node[k].id] = k
           /\ node[k].dev \in Devices /\ node[k].id \in Ids
           /\ k # inSetup
BY DEF TypeOK, Shape, MadeInOrder, NodeObjects, Listed, ListedById

-----------------------------------------------------------------------------
(* The set-up goes on to the next exchange or lists the node.              *)
LEMMA ProceedTypes ==
    ASSUME TypeOK, Shape, scan = "setup", NEW n \in Nodes, n.id = node[inSetup].id,
           NEW reads \in SUBSET DOMAIN Reads, Proceed(n, reads)
    PROVE  /\ node' \in [NodeObjects -> Nodes] /\ nodes' \in [Ids -> 0..MaxNodes]
           /\ call' \in [NodeObjects -> Calls] /\ wire' \subseteq Frames
           /\ stray' \in BOOLEAN /\ scan' \in {"search", "setup", "raised"}
           /\ inSetup' \in 0..MaxNodes /\ plan' \subseteq DOMAIN Reads
<1>1. inSetup \in NodeObjects /\ n.id \in Ids
  BY SetUpNode
<1>2. node' \in [NodeObjects -> Nodes] /\ plan' \subseteq DOMAIN Reads
  BY <1>1 DEF TypeOK, Proceed
<1>3. CASE reads = {}
  <2>1. nodes' \in [Ids -> 0..MaxNodes]
    BY <1>1, <1>3 DEF TypeOK, Proceed, NodeObjects
  <2>2. call' \in [NodeObjects -> Calls]
    BY <1>3, ReleaseTypes DEF Proceed
  <2>3. QED
    BY <1>2, <1>3, <2>1, <2>2, DirectoryAssumption DEF TypeOK, Proceed
<1>4. CASE reads # {}
  <2>1. PICK m \in reads : Ask(inSetup, "scan", Reads[m])
    BY <1>4 DEF Proceed, AskNext
  <2>2. Reads[m] \in Directory
    BY ReadsInDirectory
  <2>3. call' \in [NodeObjects -> Calls] /\ wire' \subseteq Frames /\ stray' \in BOOLEAN
    BY <1>1, <2>1, <2>2, AskTypes
  <2>4. QED
    BY <1>2, <1>4, <2>3 DEF TypeOK, Proceed
<1>5. QED
  BY <1>3, <1>4

LEMMA TimesOutTypes ==
    ASSUME TypeOK, NEW k, NEW who, TimesOut(k, who)
    PROVE  upsets' \in Nat /\ late' \in BOOLEAN
<1>1. CASE UnderWay(k)
  BY <1>1 DEF TypeOK, TimesOut
<1>2. CASE ~UnderWay(k)
  <2>1. upsets' = upsets /\ late' = late
    BY <1>2 DEF TimesOut
  <2>2. QED
    BY <2>1 DEF TypeOK
<1>3. QED
  BY <1>1, <1>2

LEMMA ReceiveTypes ==
    ASSUME TypeOK, Shape, Receive
    PROVE  TypeOK'
<1>1. ASSUME NEW f \in wire, RxTake(f)
      PROVE  TypeOK'
  BY <1>1 DEF TypeOK, RxTake, devices, scanner, pinger, bounds
<1>2. CASE RxGive
  <2>1. rx.frame \in Frames /\ Receiver \in NodeObjects
    BY <1>2 DEF TypeOK, RxGive, Receiver, NodeObjects, Frames, NoRoute
  <2>2. [call[Receiver] EXCEPT !.reply = rx.frame] \in Calls
    BY <2>1 DEF TypeOK, Calls
  <2>3. call' \in [NodeObjects -> Calls]
    BY <1>2, <2>1, <2>2 DEF TypeOK, RxGive
  <2>4. QED
    BY <1>2, <2>3 DEF TypeOK, RxGive, devices, scanner, pinger, bounds
<1>3. CASE RxCrash
  BY <1>3 DEF TypeOK, RxCrash, devices, scanner, pinger, bounds
<1>4. QED
  BY <1>1, <1>2, <1>3 DEF Receive

LEMMA ScanTypes ==
    ASSUME TypeOK, Shape, Scan
    PROVE  TypeOK'
<1>1. ASSUME NEW d \in Devices, Found(d)
      PROVE  TypeOK'
  <2>1. made + 1 \in NodeObjects /\ made + 1 \in 0..MaxNodes
    BY <1>1, DirectoryAssumption DEF TypeOK, Found, NodeObjects
  <2>2. PICK i \in Ids : devId' = [devId EXCEPT ![d] = i]
                        /\ node' = [node EXCEPT ![made + 1] = NewNode(d, i)]
    BY <1>1 DEF Found
  <2>3. NewNode(d, i) \in Nodes
    <3>1. NoInfo \in [{Name, Version} -> SUBSET [dev : Devices, fw : Nat]]
      BY DEF NoInfo
    <3>2. i \in 0..LastId
      BY DirectoryAssumption DEF Ids
    <3>3. QED
      BY <3>1, <3>2 DEF NewNode, Nodes
  <2>4. node' \in [NodeObjects -> Nodes] /\ devId' \in [Devices -> 0..LastId]
    <3>1. i \in 0..LastId
      BY DirectoryAssumption DEF Ids
    <3>2. QED
      BY <2>1, <2>2, <2>3, <3>1 DEF TypeOK
  <2>5. QED
    BY <1>1, <2>1, <2>4, ReadsDomain DEF TypeOK, Found, pinger, bounds
<1>2. CASE ScanAsk
  <2>1. PICK m \in plan : Ask(inSetup, "scan", Reads[m])
    BY <1>2 DEF ScanAsk, AskNext
  <2>2. Reads[m] \in Directory
    BY ReadsInDirectory DEF TypeOK
  <2>3. call' \in [NodeObjects -> Calls] /\ wire' \subseteq Frames /\ stray' \in BOOLEAN
    BY <1>2, <2>1, <2>2, AskTypes, SetUpNode DEF ScanAsk
  <2>4. QED
    BY <1>2, <2>3 DEF TypeOK, ScanAsk, devices, scanner, pinger
<1>3. CASE Enumerate
  <2> DEFINE reported == Reports[call[inSetup].reply.dev]
             n == [node[inSetup] EXCEPT !.od = MadeAtOnce(reported)]
  <2>1. n \in Nodes /\ n.id = node[inSetup].id
    BY <1>3, SetUpNode, NodeWithObjects DEF Enumerate, Enumerating
  <2>2. PlanFor(reported) \in SUBSET DOMAIN Reads
    BY DEF PlanFor
  <2>3. scan = "setup" /\ Proceed(n, PlanFor(reported))
    BY <1>3 DEF Enumerate, Enumerating
  <2> HIDE DEF n
  <2>4. QED
    BY <1>3, <2>1, <2>2, <2>3, ProceedTypes
       DEF TypeOK, Enumerate, Proceed, devices, pinger
<1>4. CASE EnumerateFails
  <2>1. call' \in [NodeObjects -> Calls]
    BY <1>4, ReleaseTypes DEF EnumerateFails
  <2>2. upsets' \in Nat /\ late' \in BOOLEAN
    BY <1>4, TimesOutTypes DEF TypeOK, EnumerateFails
  <2>3. QED
    BY <1>4, <2>1, <2>2 DEF TypeOK, EnumerateFails, devices, pinger
<1>5. CASE ProtocolRead
  <2>1. PICK m \in plan :
          /\ SettingUp
          /\ LET p == Reads[m][1]
                 left == plan \ {m}
             IN  \/ Proceed(node[inSetup], Skip(p))
                 \/ Proceed([node[inSetup] EXCEPT !.od =
                       IF Without(p, left) = left THEN @ \cup {p} ELSE @], left)
    BY <1>5 DEF ProtocolRead
  <2>2. node[inSetup] \in Nodes /\ scan = "setup" /\ Reads[m][1] \in WithNew
    BY <2>1, SetUpNode, ReadsOfClasses DEF TypeOK, SettingUp
  <2> DEFINE p == Reads[m][1]
             left == plan \ {m}
             n == [node[inSetup] EXCEPT !.od =
                      IF Without(p, left) = left THEN @ \cup {p} ELSE @]
  <2>3. n \in Nodes /\ n.id = node[inSetup].id
    BY <2>2 DEF Nodes, Known
  <2>4. left \in SUBSET DOMAIN Reads /\ Skip(p) \in SUBSET DOMAIN Reads
    BY DEF TypeOK, Skip, Without
  <2>5. Proceed(node[inSetup], Skip(p)) \/ Proceed(n, left)
    BY <2>1
  <2>6. UNCHANGED <<upsets, late>>
    BY <1>5 DEF ProtocolRead
  <2> HIDE DEF n, left, p
  <2>7. CASE Proceed(node[inSetup], Skip(p))
    BY <2>2, <2>4, <2>6, <2>7, ProceedTypes DEF TypeOK, Proceed, devices, pinger
  <2>8. CASE Proceed(n, left)
    BY <2>2, <2>3, <2>4, <2>6, <2>8, ProceedTypes DEF TypeOK, Proceed, devices, pinger
  <2>9. QED
    BY <2>5, <2>7, <2>8
<1>6. CASE ProtocolFails
  <2> DEFINE p == call[inSetup].obj[1]
             n == [node[inSetup] EXCEPT !.lost = @ \cup {p}]
  <2>1. scan = "setup" /\ 1 \notin plan /\ Proceed(n, Skip(p))
    BY <1>6 DEF ProtocolFails, SettingUp
  <2>2. inSetup \in NodeObjects /\ call[inSetup].by = "scan"
    BY <1>6, SetUpNode, <2>1 DEF ProtocolFails, Answered, TimesOut, Waits
  <2>3. p \in WithNew
    BY <2>1, <2>2, ReadsOfClasses DEF TypeOK, Shape, Owned
  <2>4. n \in Nodes /\ n.id = node[inSetup].id
    BY <2>2, <2>3, NodeWithLoss
  <2>5. Skip(p) \in SUBSET DOMAIN Reads
    BY DEF TypeOK, Skip, Without
  <2>6. upsets' \in Nat /\ late' \in BOOLEAN
    BY <1>6, TimesOutTypes DEF TypeOK, ProtocolFails
  <2> HIDE DEF n, p
  <2>7. QED
    BY <2>1, <2>4, <2>5, <2>6, ProceedTypes DEF TypeOK, Proceed, devices, pinger
<1>7. QED
  BY <1>1, <1>2, <1>3, <1>4, <1>5, <1>6 DEF Scan

LEMMA PingTypes ==
    ASSUME TypeOK, Shape, Ping
    PROVE  TypeOK'
<1>1. CASE PingRound
  <2>1. Listed \subseteq NodeObjects
    BY ListedNode
  <2>2. QED
    BY <1>1, <2>1 DEF TypeOK, PingRound, devices, scanner, bounds
<1>2. ASSUME NEW k \in NodeObjects, PingAsk(k)
      PROVE  TypeOK'
  <2>1. PingObject(k) \in Directory /\ node[k].id \in Ids /\ Ask(k, "ping", PingObject(k))
    BY <1>2, PingNode DEF PingAsk, PingObject, Directory
  <2>2. call' \in [NodeObjects -> Calls] /\ wire' \subseteq Frames /\ stray' \in BOOLEAN
    BY <2>1, AskTypes
  <2>3. QED
    BY <1>2, <2>2 DEF TypeOK, PingAsk, devices, scanner, pinger
<1>3. ASSUME NEW k \in NodeObjects, PingFromCache(k)
      PROVE  TypeOK'
  BY <1>3 DEF TypeOK, PingFromCache, devices, scanner, bounds
<1>4. ASSUME NEW k \in NodeObjects, PingAnswered(k)
      PROVE  TypeOK'
  <2>1. call' \in [NodeObjects -> Calls]
    BY <1>4, ReleaseTypes DEF PingAnswered
  <2>2. node' \in [NodeObjects -> Nodes]
    BY <1>4, RememberTypes DEF TypeOK, PingAnswered
  <2>3. QED
    BY <1>4, <2>1, <2>2 DEF TypeOK, PingAnswered, devices, scanner, bounds
<1>5. ASSUME NEW k \in NodeObjects, PingFails(k)
      PROVE  TypeOK'
  <2>1. call' \in [NodeObjects -> Calls]
    BY <1>5, ReleaseTypes DEF PingFails
  <2>2. QED
    BY <1>5, <2>1 DEF TypeOK, PingFails, devices, scanner, bounds
<1>6. ASSUME NEW k \in NodeObjects, PingTimesOut(k)
      PROVE  TypeOK'
  <2>1. call' \in [NodeObjects -> Calls] /\ upsets' \in Nat /\ late' \in BOOLEAN
    BY <1>6, ReleaseTypes, TimesOutTypes DEF PingTimesOut
  <2>2. nodes' \in [Ids -> 0..MaxNodes]
    <3>1. 0 \in 0..MaxNodes
      BY DirectoryAssumption
    <3>2. QED
      BY <1>6, <3>1 DEF TypeOK, PingTimesOut
  <2>3. QED
    BY <1>6, <2>1, <2>2 DEF TypeOK, PingTimesOut, devices, scanner
<1>7. QED
  BY <1>1, <1>2, <1>3, <1>4, <1>5, <1>6 DEF Ping

(* The loop of the status stays within the list.                           *)
LEMMA ListedSize ==
    ASSUME TypeOK, Shape
    PROVE  IsFiniteSet(Listed) /\ Cardinality(Listed) \in Nat
<1>1. IsFiniteSet(NodeObjects)
  BY FS_Interval, DirectoryAssumption DEF NodeObjects
<1>2. Listed \subseteq NodeObjects
  BY ListedNode
<1>3. QED
  BY <1>1, <1>2, FS_Subset, FS_CardinalityType

LEMMA CameTypes ==
    ASSUME TypeOK, Shape
    PROVE  Came \in Nat
BY DirectoryAssumption DEF TypeOK, Shape, SetUpApart, Came

LEMMA StatusTypes ==
    ASSUME TypeOK, Shape, NEW at, NEW size \in Nat, NEW offered \in Nat, NEW came,
           NEW info, StatusGoesOn(at, size, offered, came, info)
    PROVE  /\ status' = NoStatus \/ status' \in Loops
           /\ status'.at # 0 => status'.at \in Listed
<1>1. CASE StatusEnds
  BY <1>1 DEF StatusEnds, NoStatus
<1>2. CASE ~StatusEnds
  <2>1. PICK past \in Passed(at, came) :
          LET rest == {k \in Listed : k > past}
              slow == {k \in rest : Unread(info[k]) # {}}
          IN  \E k \in slow :
                status' = [at |-> k, size |-> size,
                           offered |-> offered + Cardinality({j \in rest : j <= k}),
                           came |-> Came, want |-> FirstUnread(info[k])]
    BY <1>2 DEF StatusGoesOn
  <2> DEFINE rest == {k \in Listed : k > past}
  <2>2. PICK k \in rest :
          status' = [at |-> k, size |-> size,
                     offered |-> offered + Cardinality({j \in rest : j <= k}),
                     came |-> Came, want |-> FirstUnread(info[k])]
    BY <2>1
  <2>3. Cardinality({j \in rest : j <= k}) \in Nat
    <3>1. {j \in rest : j <= k} \subseteq Listed
      OBVIOUS
    <3>2. QED
      BY <3>1, ListedSize, FS_Subset, FS_CardinalityType
  <2>4. k \in Listed /\ k \in NodeObjects
    BY ListedNode
  <2>5. FirstUnread(info[k]) \in {Name, Version}
    BY DEF FirstUnread
  <2> DEFINE now == offered + Cardinality({j \in rest : j <= k})
  <2>6. now \in Nat
    BY <2>3
  <2> HIDE DEF now
  <2>7. status' = [at |-> k, size |-> size, offered |-> now, came |-> Came,
                   want |-> FirstUnread(info[k])]
    BY <2>2 DEF now
  <2>8. QED
    BY <2>4, <2>5, <2>6, <2>7, CameTypes DEF Loops
<1>3. QED
  BY <1>1, <1>2

LEMMA StatusStays ==
    ASSUME TypeOK, Shape, StatusRead
    PROVE  /\ status' = NoStatus \/ status' \in Loops
           /\ \/ status'.at = status.at
              \/ status'.at # 0 => status'.at \in Listed
<1> DEFINE info == [j \in NodeObjects |-> node'[j].info]
<1>1. status \in Loops
  BY DEF TypeOK, StatusRead
<1>2. CASE Unread(node'[status.at].info) # {}
  <2>1. status' = [status EXCEPT !.want = FirstUnread(node'[status.at].info)]
    BY <1>2 DEF StatusRead
  <2>2. QED
    BY <1>1, <2>1 DEF Loops, FirstUnread
<1>3. CASE ~(Unread(node'[status.at].info) # {})
  <2>1. StatusGoesOn(status.at, status.size, status.offered, status.came, info)
    BY <1>3 DEF StatusRead
  <2>2. status.size \in Nat /\ status.offered \in Nat
    BY <1>1 DEF Loops
  <2> HIDE DEF info
  <2>3. QED
    BY <2>1, <2>2, StatusTypes
<1>4. QED
  BY <1>2, <1>3

LEMMA StatusBegins ==
    ASSUME TypeOK, Shape, StatusStarts
    PROVE  /\ status' = NoStatus \/ status' \in Loops
           /\ status'.at # 0 => status'.at \in Listed
<1> DEFINE info == [k \in NodeObjects |-> node[k].info]
<1>1. StatusGoesOn(0, Cardinality(Listed), 0, Came, info)
  BY DEF StatusStarts
<1> HIDE DEF info
<1>2. QED
  BY <1>1, ListedSize, StatusTypes

LEMMA ReaderTypes ==
    ASSUME TypeOK, Shape, StatusStarts \/ StatusGoes
    PROVE  TypeOK'
<1>1. CASE StatusStarts
  BY <1>1, StatusBegins DEF TypeOK, StatusStarts, devices, scanner, pinger, bounds
<1>2. CASE StatusAsk
  <2>1. status.at \in NodeObjects /\ status.want \in Directory
        /\ node[status.at].id \in Ids
    BY <1>2, StatusNode DEF StatusAsk, Directory
  <2>2. call' \in [NodeObjects -> Calls] /\ wire' \subseteq Frames /\ stray' \in BOOLEAN
    BY <1>2, <2>1, AskTypes DEF StatusAsk
  <2>3. QED
    BY <1>2, <2>2 DEF TypeOK, StatusAsk, devices, scanner, pinger
<1>3. CASE StatusRead
  <2>1. call' \in [NodeObjects -> Calls]
    BY <1>3, ReleaseTypes DEF StatusRead
  <2>2. node' \in [NodeObjects -> Nodes]
    BY <1>3, RememberTypes, StatusNode DEF StatusRead
  <2>3. QED
    BY <1>3, <2>1, <2>2, StatusStays DEF TypeOK, StatusRead, devices, scanner, pinger, bounds
<1>4. CASE StatusFails
  <2>1. call' \in [NodeObjects -> Calls]
    BY <1>4, ReleaseTypes DEF StatusFails
  <2>2. upsets' \in Nat /\ late' \in BOOLEAN
    BY <1>4, TimesOutTypes DEF TypeOK, StatusFails
  <2>3. QED
    BY <1>4, <2>1, <2>2 DEF TypeOK, StatusFails, StatusEnds, devices, scanner, pinger
<1>5. QED
  BY <1>1, <1>2, <1>3, <1>4 DEF StatusGoes

LEMMA BusTypes ==
    ASSUME TypeOK, Bus
    PROVE  TypeOK'
<1>1. ASSUME NEW f \in wire, Lose(f)
      PROVE  TypeOK'
  BY <1>1 DEF TypeOK, Lose, devices, scanner, pinger
<1>2. ASSUME NEW d \in Devices, Leave(d)
      PROVE  TypeOK'
  BY <1>2, DirectoryAssumption DEF TypeOK, Leave, scanner, pinger
<1>3. ASSUME NEW d \in Devices, Join(d)
      PROVE  TypeOK'
  BY <1>3 DEF TypeOK, Join, scanner, pinger, bounds
<1>4. ASSUME NEW d \in Devices, Expire(d)
      PROVE  TypeOK'
  BY <1>4, DirectoryAssumption DEF TypeOK, Expire, scanner, pinger, bounds
<1>5. QED
  BY <1>1, <1>2, <1>3, <1>4 DEF Bus

LEMMA TypeStep ==
    ASSUME TypeOK, Shape, [Next]_vars
    PROVE  TypeOK'
<1>1. CASE UNCHANGED vars
  BY <1>1 DEF TypeOK, vars, devices, scanner, pinger, bounds
<1>2. QED
  BY <1>1, ReceiveTypes, ScanTypes, PingTypes, ReaderTypes, BusTypes DEF Next

-----------------------------------------------------------------------------
(* What the task with the lock does to the node objects.                   *)
LEMMA ReceiveShape ==
    ASSUME TypeOK, Shape, Receive
    PROVE  Shape'
<1>1. ASSUME NEW f \in wire, RxTake(f)
      PROVE  Shape'
  BY <1>1 DEF Shape, MadeInOrder, ListedById, SetUpApart, Owned, Absent,
              RxTake, devices, scanner, pinger, bounds
<1>2. CASE RxGive
  <2>1. UNCHANGED <<present, devId, made, node, nodes, scan, inSetup, plan, todo, status>>
    BY <1>2 DEF RxGive, devices, scanner, pinger
  <2>2. \A k \in NodeObjects :
          /\ call'[k].by = call[k].by /\ call'[k].obj = call[k].obj
          /\ call[k] = NoCall => call'[k] = NoCall
    BY <1>2 DEF TypeOK, RxGive, Calls
  <2>3. inSetup # 0 => inSetup \in NodeObjects
    BY DirectoryAssumption DEF TypeOK, NodeObjects
  <2>4. QED
    BY <2>1, <2>2, <2>3 DEF Shape, MadeInOrder, ListedById, SetUpApart, Owned, Absent
<1>3. CASE RxCrash
  BY <1>3 DEF Shape, MadeInOrder, ListedById, SetUpApart, Owned, Absent,
              RxCrash, devices, scanner, pinger, bounds
<1>4. QED
  BY <1>1, <1>2, <1>3 DEF Receive

LEMMA BusShape ==
    ASSUME TypeOK, Shape, Bus
    PROVE  Shape'
<1>1. UNCHANGED <<made, node, nodes, call, scan, inSetup, plan, todo, status>>
  BY DEF Bus, Lose, Leave, Join, Expire, scanner, pinger
<1>2. Absent'
  <2>1. CASE \E f \in wire : Lose(f)
    BY <2>1 DEF Shape, Absent, Lose, devices
  <2>2. CASE \E d \in Devices : Leave(d)
    BY <2>2 DEF TypeOK, Shape, Absent, Leave
  <2>3. CASE \E d \in Devices : Join(d)
    BY <2>3 DEF TypeOK, Shape, Absent, Join
  <2>4. CASE \E d \in Devices : Expire(d)
    BY <2>4 DEF TypeOK, Shape, Absent, Expire
  <2>5. QED
    BY <2>1, <2>2, <2>3, <2>4 DEF Bus
<1>3. QED
  BY <1>1, <1>2 DEF Shape, MadeInOrder, ListedById, SetUpApart, Owned

LEMMA PingShape ==
    ASSUME TypeOK, Shape, Ping
    PROVE  Shape'
<1>1. CASE PingRound
  <2>1. \A k \in Listed : k <= made /\ nodes[node[k].id] = k
    BY ListedNode
  <2>2. QED
    BY <1>1, <2>1 DEF Shape, MadeInOrder, ListedById, SetUpApart, Owned, Absent,
                      PingRound, devices, scanner
<1>2. ASSUME NEW k \in NodeObjects, PingAsk(k)
      PROVE  Shape'
  <2>1. k \in todo /\ k <= made /\ k # inSetup
    BY <1>2, PingNode DEF PingAsk
  <2>2. call' = [call EXCEPT ![k] = [by |-> "ping", obj |-> PingObject(k), reply |-> NoFrame]]
    BY <1>2 DEF PingAsk, Ask
  <2>3. UNCHANGED <<present, devId, made, node, nodes, scan, inSetup, plan, todo, status>>
    BY <1>2 DEF PingAsk, devices, scanner, pinger
  <2>4. \A j \in NodeObjects : call[j].by # "ping"
    BY <1>2 DEF PingAsk
  <2>5. MadeInOrder' /\ ListedById' /\ Absent'
    BY <2>1, <2>2, <2>3 DEF TypeOK, Shape, MadeInOrder, ListedById, Absent, NodeObjects
  <2>6. SetUpApart'
    BY <2>1, <2>2, <2>3 DEF TypeOK, Shape, SetUpApart
  <2>7. Owned'
    BY <2>1, <2>2, <2>3, <2>4 DEF TypeOK, Shape, Owned
  <2>8. QED
    BY <2>5, <2>6, <2>7 DEF Shape
<1>3. ASSUME NEW k \in NodeObjects, PingFromCache(k)
      PROVE  Shape'
  BY <1>3 DEF Shape, MadeInOrder, ListedById, SetUpApart, Owned, Absent,
              PingFromCache, devices, scanner, bounds
<1>4. ASSUME NEW k \in NodeObjects, PingAnswered(k)
      PROVE  Shape'
  <2>1. k \in todo /\ k <= made /\ k # inSetup
    BY <1>4, PingNode DEF PingAnswered, Answered, Shape, Owned
  <2>2. call' = [call EXCEPT ![k] = NoCall] /\ todo' = todo \ {k}
    BY <1>4 DEF PingAnswered, Release
  <2>3. UNCHANGED <<present, devId, made, nodes, scan, inSetup, plan, status>>
    BY <1>4 DEF PingAnswered, devices, scanner
  <2>4. \A j \in NodeObjects :
          /\ node'[j].dev = node[j].dev /\ node'[j].id = node[j].id
          /\ j # k => node'[j] = node[j]
    BY <1>4 DEF TypeOK, PingAnswered, Remember, Nodes
  <2>5. MadeInOrder' /\ ListedById' /\ Absent'
    BY <2>1, <2>2, <2>3, <2>4 DEF TypeOK, Shape, MadeInOrder, ListedById, Absent, NodeObjects
  <2>6. SetUpApart'
    <3>1. inSetup # 0 => inSetup \in NodeObjects
      BY DirectoryAssumption DEF TypeOK, NodeObjects
    <3>2. QED
      BY <2>1, <2>2, <2>3, <2>4, <3>1 DEF TypeOK, Shape, SetUpApart, NoCall
  <2>7. Owned'
    <3>1. \A j \in todo : j \in NodeObjects
      BY DEF TypeOK
    <3>2. QED
      BY <2>1, <2>2, <2>3, <2>4, <3>1 DEF TypeOK, Shape, Owned, NoCall
  <2>8. QED
    BY <2>5, <2>6, <2>7 DEF Shape
<1>5. ASSUME NEW k \in NodeObjects, PingFails(k)
      PROVE  Shape'
  <2>1. call' = [call EXCEPT ![k] = NoCall] /\ todo' = {}
        /\ UNCHANGED <<present, devId, made, node, nodes, scan, inSetup, plan, status>>
    BY <1>5 DEF PingFails, Release, devices, scanner
  <2>2. \A j \in NodeObjects : call[j].by = "ping" => j = k
    BY <1>5 DEF PingFails, Answered, Shape, Owned
  <2>3. QED
    BY <2>1, <2>2 DEF TypeOK, Shape, MadeInOrder, ListedById, SetUpApart, Owned, Absent,
                      NoCall
<1>6. ASSUME NEW k \in NodeObjects, PingTimesOut(k)
      PROVE  Shape'
  <2>1. k \in todo
    BY <1>6 DEF PingTimesOut, TimesOut, Waits, Shape, Owned
  <2>2. k <= made /\ k # inSetup /\ nodes[node[k].id] = k /\ node[k].id \in Ids
    BY <2>1, PingNode
  <2>3. call' = [call EXCEPT ![k] = NoCall] /\ todo' = todo \ {k}
        /\ nodes' = [nodes EXCEPT ![node[k].id] = 0]
        /\ UNCHANGED <<present, devId, made, node, scan, inSetup, plan, status>>
    BY <1>6 DEF PingTimesOut, Release, devices, scanner
  <2>4. MadeInOrder' /\ ListedById' /\ Absent'
    BY <2>2, <2>3 DEF TypeOK, Shape, MadeInOrder, ListedById, Absent
  <2>5. SetUpApart'
    BY <2>2, <2>3 DEF TypeOK, Shape, SetUpApart, NoCall
  <2>6. Owned'
    BY <2>1, <2>2, <2>3 DEF TypeOK, Shape, Owned, NoCall
  <2>7. QED
    BY <2>4, <2>5, <2>6 DEF Shape
<1>7. QED
  BY <1>1, <1>2, <1>3, <1>4, <1>5, <1>6 DEF Ping

(* The shape when the lock of a node object changes hands for the status.  *)
LEMMA StatusCallShape ==
    ASSUME TypeOK, TypeOK', Shape, NEW k \in NodeObjects, NEW c,
           k <= made, k # inSetup, call' = [call EXCEPT ![k] = c],
           c = NoCall \/ (c.by = "status" /\ status'.at = k),
           call[k].by \in {"nobody", "status"},
           \A j \in NodeObjects : j # k => call[j].by # "status",
           status'.at # 0 => status'.at <= made /\ status'.at # inSetup,
           \A j \in NodeObjects : node'[j].dev = node[j].dev /\ node'[j].id = node[j].id,
           \A j \in NodeObjects : j # k => node'[j] = node[j],
           UNCHANGED <<present, devId, made, nodes, scan, inSetup, plan, todo>>
    PROVE  Shape'
<1>1. MadeInOrder' /\ ListedById' /\ Absent'
  BY DEF TypeOK, Shape, MadeInOrder, ListedById, Absent, NodeObjects
<1>2. SetUpApart'
  <2>1. inSetup # 0 => inSetup \in NodeObjects
    BY DirectoryAssumption DEF TypeOK, NodeObjects
  <2>2. QED
    BY <2>1 DEF TypeOK, Shape, SetUpApart, NoCall
<1>3. Owned'
  <2>1. \A j \in todo : j \in NodeObjects
    BY DEF TypeOK
  <2>2. QED
    BY <2>1 DEF TypeOK, Shape, Owned, NoCall
<1>4. QED
  BY <1>1, <1>2, <1>3 DEF Shape

LEMMA ReaderShape ==
    ASSUME TypeOK, TypeOK', Shape, StatusStarts \/ StatusGoes
    PROVE  Shape'
<1>1. CASE StatusStarts
  <2>2. status'.at # 0 => status'.at \in Listed
    BY <1>1, StatusBegins
  <2>3. status'.at # 0 => status'.at <= made /\ status'.at # inSetup
    BY <2>2, ListedNode
  <2>4. \A k \in NodeObjects : call[k].by # "status"
    BY <1>1 DEF StatusStarts, Shape, Owned, NoStatus, NodeObjects
  <2>5. UNCHANGED <<present, devId, made, node, nodes, call, scan, inSetup, plan, todo>>
    BY <1>1 DEF StatusStarts, devices, scanner, pinger
  <2>6. QED
    BY <2>3, <2>4, <2>5 DEF Shape, MadeInOrder, ListedById, SetUpApart, Owned, Absent
<1>2. ASSUME status # NoStatus
      PROVE  /\ status.at \in NodeObjects /\ status.at <= made /\ status.at # inSetup
             /\ \A j \in NodeObjects : j # status.at => call[j].by # "status"
  BY <1>2, StatusNode DEF Shape, Owned
<1>3. CASE StatusAsk
  <2>1. call' = [call EXCEPT ![status.at] =
                    [by |-> "status", obj |-> status.want, reply |-> NoFrame]]
    BY <1>3 DEF StatusAsk, Ask
  <2>2. call[status.at].by = "nobody" /\ status # NoStatus
    BY <1>3 DEF StatusAsk, NoCall
  <2>3. UNCHANGED <<present, devId, made, node, nodes, scan, inSetup, plan, todo, status>>
    BY <1>3 DEF StatusAsk, devices, scanner, pinger
  <2>4. QED
    BY <1>2, <2>1, <2>2, <2>3, StatusCallShape
<1>4. CASE StatusRead
  <2>1. call' = [call EXCEPT ![status.at] = NoCall] /\ call[status.at].by = "status"
        /\ status # NoStatus
    BY <1>4 DEF StatusRead, Release, Answered
  <2>2. \A j \in NodeObjects :
          /\ node'[j].dev = node[j].dev /\ node'[j].id = node[j].id
          /\ j # status.at => node'[j] = node[j]
    BY <1>2, <1>4, <2>1 DEF TypeOK, StatusRead, Remember, Nodes
  <2>3. UNCHANGED <<present, devId, made, nodes, scan, inSetup, plan, todo>>
    BY <1>4 DEF StatusRead, devices, scanner, pinger
  <2>4. status'.at # 0 => status'.at <= made /\ status'.at # inSetup
    BY <1>2, <1>4, <2>1, StatusStays, ListedNode
  <2>5. QED
    BY <1>2, <2>1, <2>2, <2>3, <2>4, StatusCallShape
<1>5. CASE StatusFails
  <2>1. call' = [call EXCEPT ![status.at] = NoCall] /\ call[status.at].by = "status"
        /\ status # NoStatus /\ status'.at = 0
    BY <1>5 DEF StatusFails, Release, Answered, TimesOut, Waits, StatusEnds, NoStatus
  <2>2. UNCHANGED <<present, devId, made, node, nodes, scan, inSetup, plan, todo>>
    BY <1>5 DEF StatusFails, devices, scanner, pinger
  <2>3. QED
    BY <1>2, <2>1, <2>2, StatusCallShape
<1>6. QED
  BY <1>1, <1>3, <1>4, <1>5 DEF StatusGoes

(* The set-up goes on or lists the node, and leaves the others alone.      *)
LEMMA ProceedShape ==
    ASSUME TypeOK, Shape, scan = "setup", NEW n \in Nodes, NEW reads,
           n.id = node[inSetup].id, n.dev = node[inSetup].dev, n.info = node[inSetup].info,
           Proceed(n, reads)
    PROVE  Shape'
<1> DEFINE k == inSetup
<1>1. /\ k \in NodeObjects /\ k = made /\ k # 0
      /\ node[k].dev \in Devices /\ node[k].id \in Ids /\ nodes[node[k].id] = 0
      /\ call[k].by \in {"nobody", "scan"} /\ k \notin todo /\ status.at # k
      /\ node[k].info = NoInfo
  BY SetUpNode, PingNode DEF NodeObjects, Shape, SetUpApart, Owned
<1>2. /\ node' = [node EXCEPT ![k] = n] /\ plan' = reads
      /\ UNCHANGED <<present, devId, made, todo, status>>
  BY DEF Proceed, devices, pinger
<1>3. \A j \in NodeObjects :
        /\ node'[j].dev = node[j].dev /\ node'[j].id = node[j].id
        /\ node'[j].info = node[j].info
        /\ j # k => node'[j] = node[j]
  BY <1>1, <1>2 DEF TypeOK
<1>4. ASSUME NEW j \in todo
      PROVE  j \in NodeObjects /\ j # k /\ node[j].id # node[k].id
  <2>1. j \in NodeObjects /\ nodes[node[j].id] = j /\ j # 0
    BY PingNode DEF NodeObjects
  <2>2. QED
    BY <1>1, <2>1
<1>5. CASE reads = {}
  <2>1. /\ nodes' = [nodes EXCEPT ![node[k].id] = k]
        /\ scan' = "search" /\ inSetup' = 0 /\ call' = [call EXCEPT ![k] = NoCall]
    BY <1>5 DEF Proceed, Release
  <2>2. MadeInOrder' /\ Absent'
    BY <1>1, <1>2, <1>3, <2>1 DEF TypeOK, Shape, MadeInOrder, Absent, NodeObjects
  <2>3. ListedById'
    <3>1. ASSUME NEW i \in Ids, nodes'[i] # 0
          PROVE  nodes'[i] <= made' /\ node'[nodes'[i]].id = i /\ nodes'[i] # inSetup'
      <4>1. CASE i = node[k].id
        BY <1>1, <1>2, <1>3, <2>1, <4>1 DEF TypeOK
      <4>2. CASE i # node[k].id
        <5>1. nodes'[i] = nodes[i] /\ nodes[i] \in NodeObjects
          BY <2>1, <3>1, <4>2, DirectoryAssumption DEF TypeOK, NodeObjects
        <5>2. QED
          BY <1>2, <1>3, <2>1, <3>1, <5>1 DEF Shape, ListedById
      <4>3. QED
        BY <4>1, <4>2
    <3>2. QED
      BY <3>1 DEF ListedById
  <2>4. SetUpApart'
    BY <2>1 DEF SetUpApart
  <2>5. Owned'
    <3>1. \A j \in NodeObjects : call'[j] = IF j = k THEN NoCall ELSE call[j]
      BY <2>1 DEF TypeOK
    <3>2. \A j \in todo : nodes'[node[j].id] = nodes[node[j].id]
      BY <1>1, <1>4, <2>1, PingNode DEF TypeOK
    <3>3. QED
      BY <1>1, <1>2, <1>3, <1>4, <2>1, <3>1, <3>2 DEF Shape, Owned, NoCall
  <2>6. QED
    BY <2>2, <2>3, <2>4, <2>5 DEF Shape
<1>6. CASE reads # {}
  <2>1. PICK m \in reads :
          call' = [call EXCEPT ![k] = [by |-> "scan", obj |-> Reads[m], reply |-> NoFrame]]
    BY <1>6 DEF Proceed, AskNext, Ask
  <2>2. UNCHANGED <<nodes, scan, inSetup>>
    BY <1>6 DEF Proceed
  <2>3. MadeInOrder' /\ ListedById' /\ Absent'
    <3>1. \A i \in Ids : nodes[i] # 0 => nodes[i] \in NodeObjects
      BY DirectoryAssumption DEF TypeOK, NodeObjects
    <3>2. QED
      BY <1>1, <1>2, <1>3, <2>1, <2>2, <3>1
         DEF TypeOK, Shape, MadeInOrder, ListedById, Absent, NodeObjects
  <2>4. SetUpApart'
    BY <1>1, <1>2, <1>3, <1>6, <2>1, <2>2 DEF TypeOK, Shape, SetUpApart
  <2>5. Owned'
    BY <1>1, <1>2, <1>3, <1>4, <2>1, <2>2 DEF TypeOK, Shape, Owned
  <2>6. QED
    BY <2>3, <2>4, <2>5 DEF Shape
<1>7. QED
  BY <1>5, <1>6

LEMMA ScanShape ==
    ASSUME TypeOK, Shape, Scan
    PROVE  Shape'
<1>1. ASSUME NEW d \in Devices, Found(d)
      PROVE  Shape'
  <2>1. PICK i \in Ids : FreeId(i) /\ devId' = [devId EXCEPT ![d] = i]
                        /\ node' = [node EXCEPT ![made + 1] = NewNode(d, i)]
    BY <1>1 DEF Found
  <2>2. /\ d \in present /\ scan = "search" /\ inSetup' = made + 1 /\ scan' = "setup"
        /\ made' = made + 1 /\ plan' = {1}
        /\ UNCHANGED <<present, nodes, call, todo, status>>
    BY <1>1 DEF Found, pinger
  <2>3. made \in Nat /\ made + 1 \in NodeObjects
    BY <1>1, DirectoryAssumption DEF TypeOK, Found, NodeObjects
  <2>4. node'[made + 1] = NewNode(d, i) /\ nodes[i] = 0
        /\ \A j \in NodeObjects : j <= made => node'[j] = node[j]
    BY <2>1, <2>3 DEF TypeOK, FreeId
  <2>5. NewNode(d, i).dev = d /\ NewNode(d, i).id = i /\ NewNode(d, i).info = NoInfo
    BY DEF NewNode
  <2>6. \A j \in NodeObjects : j <= made + 1 => j <= made \/ j = made + 1
    BY <2>3 DEF NodeObjects
  <2>7. MadeInOrder'
    BY <2>2, <2>3, <2>4, <2>5, <2>6 DEF Shape, MadeInOrder, NodeObjects
  <2>8. ListedById'
    <3>1. \A j \in Ids : nodes[j] # 0 =>
            nodes[j] \in NodeObjects /\ nodes[j] <= made /\ node[nodes[j]].id = j
      BY DirectoryAssumption DEF TypeOK, NodeObjects, Shape, ListedById
    <3>2. QED
      BY <2>2, <2>3, <2>4, <3>1 DEF ListedById, NodeObjects
  <2>9. SetUpApart'
    <3>1. call[made + 1] = NoCall
      BY <2>3 DEF Shape, MadeInOrder
    <3>2. QED
      BY <2>2, <2>3, <2>4, <2>5, <3>1 DEF SetUpApart, NoCall
  <2>10. Owned'
    <3>1. inSetup = 0 /\ \A k \in NodeObjects : call[k].by # "scan"
      BY <2>2 DEF Shape, SetUpApart, Owned
    <3>2. \A k \in todo : k \in NodeObjects /\ k <= made /\ nodes[node[k].id] = k
      BY PingNode
    <3>3. status.at # 0 => status.at <= made /\ status.at \in Nat
      BY DEF TypeOK, Loops, Shape, Owned, NodeObjects, NoStatus
    <3>4. QED
      BY <2>2, <2>3, <2>4, <3>1, <3>2, <3>3 DEF Shape, Owned, NodeObjects
  <2>11. Absent'
    BY <2>1, <2>2 DEF TypeOK, Shape, Absent
  <2>12. QED
    BY <2>7, <2>8, <2>9, <2>10, <2>11 DEF Shape
<1>2. CASE ScanAsk
  <2>1. PICK m \in plan :
          call' = [call EXCEPT ![inSetup] = [by |-> "scan", obj |-> Reads[m], reply |-> NoFrame]]
    BY <1>2 DEF ScanAsk, AskNext, Ask
  <2>2. scan = "setup"
        /\ UNCHANGED <<present, devId, made, node, nodes, scan, inSetup, plan, todo, status>>
    BY <1>2 DEF ScanAsk, devices, scanner, pinger
  <2>3. inSetup \in NodeObjects /\ inSetup = made /\ inSetup \notin todo /\ status.at # inSetup
    BY <2>2, SetUpNode, PingNode DEF NodeObjects, Shape, Owned
  <2>4. MadeInOrder' /\ ListedById' /\ Absent'
    BY <2>1, <2>2, <2>3 DEF TypeOK, Shape, MadeInOrder, ListedById, Absent, NodeObjects
  <2>5. SetUpApart' /\ Owned'
    BY <2>1, <2>2, <2>3 DEF TypeOK, Shape, SetUpApart, Owned
  <2>6. QED
    BY <2>4, <2>5 DEF Shape
<1>3. CASE Enumerate
  <2> DEFINE n == [node[inSetup] EXCEPT !.od = MadeAtOnce(Reports[call[inSetup].reply.dev])]
  <2>1. scan = "setup" /\ Proceed(n, PlanFor(Reports[call[inSetup].reply.dev]))
    BY <1>3 DEF Enumerate, Enumerating
  <2>2. n \in Nodes /\ n.id = node[inSetup].id /\ n.dev = node[inSetup].dev
        /\ n.info = node[inSetup].info
    BY <2>1, SetUpNode, NodeWithObjects
  <2> HIDE DEF n
  <2>3. QED
    BY <2>1, <2>2, ProceedShape
<1>4. CASE EnumerateFails
  <2>1. /\ scan = "setup" /\ call' = [call EXCEPT ![inSetup] = NoCall] /\ scan' = "raised"
        /\ UNCHANGED <<present, devId, made, node, nodes, inSetup, plan, todo, status>>
    BY <1>4 DEF EnumerateFails, Enumerating, Release, devices, pinger
  <2>2. inSetup \in NodeObjects /\ inSetup = made /\ inSetup # 0
    BY <2>1, SetUpNode DEF NodeObjects
  <2>3. MadeInOrder' /\ ListedById' /\ Absent'
    BY <2>1, <2>2 DEF TypeOK, Shape, MadeInOrder, ListedById, Absent
  <2>4. SetUpApart' /\ Owned'
    BY <2>1, <2>2 DEF TypeOK, Shape, SetUpApart, Owned, NoCall
  <2>5. QED
    BY <2>3, <2>4 DEF Shape
<1>5. CASE ProtocolRead
  <2>1. PICK m \in plan :
          /\ SettingUp
          /\ LET p == Reads[m][1]
                 left == plan \ {m}
             IN  \/ Proceed(node[inSetup], Skip(p))
                 \/ Proceed([node[inSetup] EXCEPT !.od =
                       IF Without(p, left) = left THEN @ \cup {p} ELSE @], left)
    BY <1>5 DEF ProtocolRead
  <2>2. node[inSetup] \in Nodes /\ scan = "setup" /\ Reads[m][1] \in WithNew
    BY <2>1, SetUpNode, ReadsOfClasses DEF TypeOK, SettingUp
  <2> DEFINE p == Reads[m][1]
             left == plan \ {m}
             n == [node[inSetup] EXCEPT !.od =
                      IF Without(p, left) = left THEN @ \cup {p} ELSE @]
  <2>3. n \in Nodes /\ n.id = node[inSetup].id /\ n.dev = node[inSetup].dev
        /\ n.info = node[inSetup].info
    BY <2>2 DEF Nodes, Known
  <2>4. Proceed(node[inSetup], Skip(p)) \/ Proceed(n, left)
    BY <2>1
  <2> HIDE DEF n, left, p
  <2>5. QED
    BY <2>2, <2>3, <2>4, ProceedShape
<1>6. CASE ProtocolFails
  <2> DEFINE p == call[inSetup].obj[1]
             n == [node[inSetup] EXCEPT !.lost = @ \cup {p}]
  <2>1. scan = "setup" /\ 1 \notin plan /\ Proceed(n, Skip(p))
    BY <1>6 DEF ProtocolFails, SettingUp
  <2>2. inSetup \in NodeObjects /\ call[inSetup].by = "scan"
    BY <1>6, SetUpNode, <2>1 DEF ProtocolFails, Answered, TimesOut, Waits
  <2>3. p \in WithNew
    BY <2>1, <2>2, ReadsOfClasses DEF TypeOK, Shape, Owned
  <2>4. n \in Nodes /\ n.id = node[inSetup].id /\ n.dev = node[inSetup].dev
        /\ n.info = node[inSetup].info
    BY <2>2, <2>3, NodeWithLoss
  <2> HIDE DEF n, p
  <2>5. QED
    BY <2>1, <2>4, ProceedShape
<1>7. QED
  BY <1>1, <1>2, <1>3, <1>4, <1>5, <1>6 DEF Scan

LEMMA ShapeStep ==
    ASSUME TypeOK, TypeOK', Shape, [Next]_vars
    PROVE  Shape'
<1>1. CASE UNCHANGED vars
  BY <1>1 DEF Shape, MadeInOrder, ListedById, SetUpApart, Owned, Absent,
              vars, devices, scanner, pinger, bounds
<1>2. QED
  BY <1>1, ReceiveShape, ScanShape, PingShape, ReaderShape, BusShape DEF Next

(* The initial states.                                                     *)
LEMMA InitShape ==
    ASSUME Init
    PROVE  TypeOK /\ Shape
<1>1. Empty \in Nodes /\ NoCall \in Calls
  <2>1. NoInfo \in [{Name, Version} -> SUBSET [dev : Devices, fw : Nat]]
    BY DEF NoInfo
  <2>2. 0 \in 0..LastId
    BY DirectoryAssumption
  <2>3. QED
    BY <2>1, <2>2 DEF Empty, NewNode, Nodes, NoCall, Calls, Directory
<1>2. TypeOK
  <2>1. 0 \in 0..LastId /\ 0 \in 0..MaxNodes
    BY DirectoryAssumption
  <2>2. /\ devId \in [Devices -> 0..LastId] /\ fw \in [Devices -> Nat]
        /\ node \in [NodeObjects -> Nodes] /\ nodes \in [Ids -> 0..MaxNodes]
        /\ call \in [NodeObjects -> Calls]
    BY <1>1, <2>1 DEF Init
  <2>3. QED
    BY <2>1, <2>2 DEF Init, TypeOK
<1>3. Shape
  BY <1>2, DirectoryAssumption DEF Init, TypeOK, Shape, MadeInOrder, ListedById,
     SetUpApart, Owned, Absent, NodeObjects, NoCall, NoStatus
<1>4. QED
  BY <1>2, <1>3

(* Everything keeps to its type, for any number of devices, ids and node   *)
(* objects: nothing the server does not know is ever set up, whatever the  *)
(* devices list and however the exchanges end.                             *)
THEOREM DirectoryTypeCorrect == Spec => []TypeOK
<1>1. Init => TypeOK /\ Shape
  BY InitShape
<1>2. TypeOK /\ Shape /\ [Next]_vars => (TypeOK /\ Shape)'
  BY TypeStep, ShapeStep
<1>3. QED
  BY <1>1, <1>2, PTL DEF Spec

-----------------------------------------------------------------------------
(* Once exchanges are mixed up they stay so.                               *)
LEMMA TimesOutCleanly ==
    ASSUME NEW k, NEW who, TimesOut(k, who), ~late'
    PROVE  ~UnderWay(k) /\ late' = late
BY DEF TimesOut

LEMMA MixedStays ==
    ASSUME TypeOK, [Next]_vars, ~Mixed'
    PROVE  ~Mixed
<1>1. ASSUME NEW k, NEW who, NEW o, Ask(k, who, o)
      PROVE  stray => stray'
  BY <1>1 DEF Ask
<1>2. ASSUME NEW n, NEW reads, Proceed(n, reads)
      PROVE  stray => stray'
  BY <1>1, <1>2 DEF Proceed, AskNext
<1>3. ASSUME NEW k, NEW who, TimesOut(k, who)
      PROVE  late => late'
  BY <1>3 DEF TimesOut
<1>4. CASE Scan
  <2>1. (stray => stray') /\ (late => late')
    <3>1. CASE \E d \in Devices : Found(d)
      BY <3>1 DEF Found, bounds
    <3>2. CASE ScanAsk
      BY <1>1, <3>2 DEF ScanAsk, AskNext
    <3>3. CASE Enumerate
      BY <1>2, <3>3 DEF Enumerate
    <3>4. CASE EnumerateFails
      BY <1>3, <3>4 DEF EnumerateFails
    <3>5. CASE ProtocolRead
      BY <1>2, <3>5 DEF ProtocolRead
    <3>6. CASE ProtocolFails
      BY <1>2, <1>3, <3>6 DEF ProtocolFails
    <3>7. QED
      BY <1>4, <3>1, <3>2, <3>3, <3>4, <3>5, <3>6 DEF Scan
  <2>2. QED
    BY <2>1 DEF Mixed
<1>5. CASE Ping
  <2>1. (stray => stray') /\ (late => late')
    BY <1>1, <1>3, <1>5 DEF Ping, PingRound, PingAsk, PingFromCache, PingAnswered, PingFails,
                            PingTimesOut, bounds
  <2>2. QED
    BY <2>1 DEF Mixed
<1>6. CASE StatusGoes
  <2>1. (stray => stray') /\ (late => late')
    BY <1>1, <1>3, <1>6 DEF StatusGoes, StatusAsk, StatusRead, StatusFails, bounds
  <2>2. QED
    BY <2>1 DEF Mixed
<1>7. CASE Receive \/ StatusStarts \/ Bus \/ UNCHANGED vars
  BY <1>7 DEF Receive, RxTake, RxGive, RxCrash, StatusStarts, Bus, Lose, Leave, Join, Expire,
              vars, bounds, Mixed
<1>8. QED
  BY <1>4, <1>5, <1>6, <1>7 DEF Next

(* At most one node object is taken for the right one under an id.         *)
LEMMA OneForAnId ==
    ASSUME TypeOK, Shape, NEW j \in 1..made, NEW k \in 1..made, AboutNow(j), AboutNow(k),
           node[j].id = node[k].id
    PROVE  j = k
BY DEF Shape, SetUpApart, AboutNow

LEMMA MadeNode ==
    ASSUME TypeOK, Shape, NEW k \in 1..made
    PROVE  k \in NodeObjects /\ node[k].id \in Ids /\ node[k].dev \in Devices
BY DirectoryAssumption DEF TypeOK, Shape, MadeInOrder, NodeObjects

(* Nothing is under way for a node object that does not wait, or waits in  *)
(* vain.                                                                   *)
Quiet(k) == call[k].by = "nobody" \/ call[k].reply # NoFrame \/ ~UnderWay(k)

LEMMA NothingUnderWay ==
    ASSUME TypeOK, Shape, Traffic, NEW k \in 1..made, AboutNow(k), Quiet(k)
    PROVE  \A f \in UnderWayNow : f.id # node[k].id
<1> SUFFICES ASSUME NEW f \in UnderWayNow, f.id = node[k].id
             PROVE  FALSE
  OBVIOUS
<1>1. PICK j \in 1..made : AwaitedBy(f, j)
  BY DEF Traffic
<1>2. j = k
  BY <1>1, OneForAnId DEF AwaitedBy, Answers
<1>3. QED
  BY <1>1, <1>2 DEF AwaitedBy, Quiet, UnderWay, UnderWayNow

(* The receive thread finds the node object that waits.                    *)
LEMMA ReceiverWaits ==
    ASSUME TypeOK, Shape, Traffic, rx # NoRoute
    PROVE  Receiver \in 1..made /\ AwaitedBy(rx.frame, Receiver)
<1>1. rx.frame \in UnderWayNow
  BY DEF UnderWayNow
<1>2. PICK k \in 1..made : AwaitedBy(rx.frame, k)
  BY <1>1 DEF Traffic
<1>3. (rx.to = "listed") <=> (nodes[rx.frame.id] # 0)
  BY DEF Traffic
<1>4. k # 0 /\ node[k].id = rx.frame.id /\ (nodes[rx.frame.id] = k \/ inSetup = k)
  BY <1>2 DEF AwaitedBy, AboutNow, Answers
<1>5. inSetup = k => nodes[rx.frame.id] = 0
  BY <1>4 DEF Shape, SetUpApart
<1>6. Receiver = k
  BY <1>3, <1>4, <1>5 DEF Receiver
<1>7. QED
  BY <1>2, <1>6

(* Traffic is kept when no frame is added and nobody stops waiting for     *)
(* one that is under way.                                                  *)
LEMMA TrafficKept ==
    ASSUME TypeOK, Traffic, wire' \subseteq wire, rx' = rx, alive' = alive,
           made \in Nat, made' \in Nat, made <= made',
           \A f \in UnderWayNow, k \in 1..made : AwaitedBy(f, k) => AwaitedBy(f, k)',
           \A k \in NodeObjects : call'[k].reply # NoFrame => Answers(call[k].reply, k)'
                                                          /\ call'[k].reply = call[k].reply,
           rx # NoRoute => ((nodes'[rx.frame.id] # 0) <=> (nodes[rx.frame.id] # 0))
    PROVE  Traffic'
<1>1. UnderWayNow' \subseteq UnderWayNow
  BY DEF UnderWayNow
<1>2. ASSUME NEW f \in UnderWayNow'
      PROVE  \E k \in 1..made' : AwaitedBy(f, k)'
  <2>1. PICK k \in 1..made : AwaitedBy(f, k)
    BY <1>1 DEF Traffic
  <2>2. k \in 1..made' /\ AwaitedBy(f, k)'
    BY <1>1, <2>1
  <2>3. QED
    BY <2>2
<1>3. \A f, g \in wire' : f.id = g.id => f = g
  BY DEF Traffic
<1>4. rx' # NoRoute => /\ \A f \in wire' : f.id # rx'.frame.id
                       /\ (rx'.to = "listed") <=> (nodes'[rx'.frame.id] # 0)
  BY DEF Traffic
<1>5. \A k \in NodeObjects : call'[k].reply # NoFrame => Answers(call[k].reply, k)'
  OBVIOUS
<1>6. QED
  BY <1>2, <1>3, <1>4, <1>5 DEF Traffic

(* A request that reaches nobody it is not meant for adds one frame, of    *)
(* the device asked, and only for a node object that is about now.         *)
LEMMA AskFrames ==
    ASSUME TypeOK, Shape, NEW k \in 1..made, NEW who, NEW o, Ask(k, who, o), ~stray'
    PROVE  \A f \in wire' : f \in wire \/
              /\ AboutNow(k) /\ devId[f.dev] = f.id
              /\ f = [id |-> node[k].id, obj |-> o, dev |-> node[k].dev,
                      fw |-> fw[node[k].dev]]
<1> SUFFICES ASSUME NEW f \in wire', f \notin wire
             PROVE  /\ AboutNow(k) /\ devId[f.dev] = f.id
                    /\ f = [id |-> node[k].id, obj |-> o, dev |-> node[k].dev,
                            fw |-> fw[node[k].dev]]
  OBVIOUS
<1>1. PICK d \in Hearing(node[k].id) :
          f = [id |-> node[k].id, obj |-> o, dev |-> d, fw |-> fw[d]]
  BY DEF Ask
<1>2. d \in Meant(k)
  BY <1>1 DEF Ask
<1>3. AboutNow(k) /\ d = node[k].dev
  BY <1>2 DEF Meant, AboutNow
<1>4. devId[d] = node[k].id
  BY DEF Hearing
<1>5. QED
  BY <1>1, <1>3, <1>4

LEMMA AskTraffic ==
    ASSUME TypeOK, Shape, Traffic, NEW k \in 1..made, NEW who, NEW o,
           Ask(k, who, o), ~stray', who # "nobody", Quiet(k),
           \A j \in NodeObjects : node'[j].id = node[j].id /\ node'[j].dev = node[j].dev,
           UNCHANGED <<made, nodes, rx, alive, inSetup>>
    PROVE  Traffic'
<1> DEFINE new == [id |-> node[k].id, obj |-> o, dev |-> node[k].dev,
                   fw |-> fw[node[k].dev]]
<1>1. k \in NodeObjects /\ \A j \in 1..made : j \in NodeObjects
  BY MadeNode
<1>2. \A j \in NodeObjects :
          call'[j] = IF j = k THEN [by |-> who, obj |-> o, reply |-> NoFrame] ELSE call[j]
  BY <1>1 DEF Ask, TypeOK
<1>3. \A j \in NodeObjects : AboutNow(j)' = AboutNow(j)
  BY DEF AboutNow
<1>4. \A f \in UnderWayNow, j \in 1..made : AwaitedBy(f, j) => AwaitedBy(f, j)'
  <2> SUFFICES ASSUME NEW f \in UnderWayNow, NEW j \in 1..made, AwaitedBy(f, j)
               PROVE  AwaitedBy(f, j)'
    OBVIOUS
  <2>1. j # k
    BY DEF AwaitedBy, Answers, Quiet, UnderWay, UnderWayNow
  <2>2. call'[j] = call[j] /\ AboutNow(j)'
    BY <1>1, <1>2, <1>3, <2>1 DEF AwaitedBy
  <2>3. QED
    BY <1>1, <2>2 DEF AwaitedBy, Answers
<1>5. \A f \in wire' : f \in wire \/ (f = new /\ AboutNow(k))
  BY AskFrames
<1>6. ASSUME NEW f, f = new, AboutNow(k)
      PROVE  AwaitedBy(f, k)'
  BY <1>1, <1>2, <1>3, <1>6 DEF AwaitedBy, Answers
<1>7. AboutNow(k) => \A f \in UnderWayNow : f.id # node[k].id
  BY NothingUnderWay
<1> HIDE DEF new
<1>8. ASSUME NEW f \in UnderWayNow'
      PROVE  \E j \in 1..made' : AwaitedBy(f, j)'
  <2>1. f \in UnderWayNow \/ (f = new /\ AboutNow(k))
    BY <1>5 DEF UnderWayNow
  <2>2. CASE f \in UnderWayNow
    BY <1>4, <2>2 DEF Traffic
  <2>3. CASE f = new /\ AboutNow(k)
    <3>1. AwaitedBy(f, k)'
      BY <1>6, <2>3
    <3>2. QED
      BY <3>1
  <2>4. QED
    BY <2>1, <2>2, <2>3
<1>9. new.id = node[k].id
  BY DEF new
<1>10. \A f, g \in wire' : f.id = g.id => f = g
  BY <1>5, <1>7, <1>9 DEF Traffic, UnderWayNow
<1>11. rx' # NoRoute => /\ \A f \in wire' : f.id # rx'.frame.id
                        /\ (rx'.to = "listed") <=> (nodes'[rx'.frame.id] # 0)
  BY <1>5, <1>7, <1>9 DEF Traffic, UnderWayNow
<1>12. \A j \in NodeObjects : call'[j].reply # NoFrame => Answers(call[j].reply, j)'
  BY <1>2 DEF Traffic, Answers
<1>13. QED
  BY <1>8, <1>10, <1>11, <1>12 DEF Traffic

(* A caller that does not wait for anything under way gives the lock back; *)
(* the place of its node object in the list may change with it.            *)
LEMMA ReleaseTraffic ==
    ASSUME TypeOK, Shape, Traffic, NEW k \in 1..made, Release(k),
           Quiet(k),
           \A j \in NodeObjects : node'[j].id = node[j].id /\ node'[j].dev = node[j].dev,
           \/ UNCHANGED <<nodes, inSetup>>
           \/ /\ AboutNow(k) /\ \A i \in Ids : i # node[k].id => nodes'[i] = nodes[i]
              /\ inSetup' = inSetup \/ inSetup = k,
           UNCHANGED <<made, wire, rx, alive>>
    PROVE  Traffic'
<1>1. k \in NodeObjects /\ \A j \in 1..made : j \in NodeObjects
  BY MadeNode
<1>2. \A j \in NodeObjects : call'[j] = IF j = k THEN NoCall ELSE call[j]
  BY <1>1 DEF Release, TypeOK
<1>3. \A f \in UnderWayNow : ~AwaitedBy(f, k)
  BY DEF AwaitedBy, Quiet, UnderWay, UnderWayNow, Answers
<1>4. ASSUME ~UNCHANGED <<nodes, inSetup>>, NEW f \in UnderWayNow
      PROVE  f.id # node[k].id
  BY <1>4, NothingUnderWay
<1>5. ASSUME NEW f \in UnderWayNow, NEW j \in 1..made, AwaitedBy(f, j)
      PROVE  AwaitedBy(f, j)' /\ nodes'[f.id] = nodes[f.id]
  <2>1. j # k /\ call'[j] = call[j] /\ f.id = node[j].id /\ node[j].id \in Ids
    BY <1>1, <1>2, <1>3, <1>5, MadeNode DEF AwaitedBy, Answers
  <2>2. nodes'[f.id] = nodes[f.id] /\ AboutNow(j)'
    <3>1. CASE UNCHANGED <<nodes, inSetup>>
      BY <1>1, <1>5, <2>1, <3>1 DEF AwaitedBy, AboutNow
    <3>2. CASE ~UNCHANGED <<nodes, inSetup>>
      <4>1. f.id # node[k].id
        BY <1>4, <3>2
      <4>2. nodes'[f.id] = nodes[f.id] /\ (inSetup = j => inSetup' = j)
        BY <2>1, <3>2, <4>1
      <4>3. QED
        BY <1>1, <1>5, <2>1, <4>2 DEF AwaitedBy, AboutNow
    <3>3. QED
      BY <3>1, <3>2
  <2>3. QED
    BY <1>1, <1>5, <2>1, <2>2 DEF AwaitedBy, Answers
<1>6. \A j \in NodeObjects : call'[j].reply # NoFrame =>
          Answers(call[j].reply, j)' /\ call'[j].reply = call[j].reply
  BY <1>2 DEF Traffic, Answers, NoCall
<1>7. rx # NoRoute => ((nodes'[rx.frame.id] # 0) <=> (nodes[rx.frame.id] # 0))
  BY <1>5 DEF Traffic, UnderWayNow
<1>8. made \in Nat
  BY DEF TypeOK
<1>9. QED
  BY <1>5, <1>6, <1>7, <1>8, TrafficKept

LEMMA ReceiveTraffic ==
    ASSUME TypeOK, Shape, Traffic, Receive
    PROVE  Traffic'
<1>0. made \in Nat /\ \A k \in 1..made : k \in NodeObjects
  BY MadeNode DEF TypeOK
<1>1. ASSUME NEW f \in wire, RxTake(f)
      PROVE  Traffic'
  <2>1. /\ wire' = wire \ {f} /\ rx = NoRoute
        /\ \/ rx' = NoRoute
           \/ rx'.frame = f /\ ((rx'.to = "listed") <=> (nodes[f.id] # 0))
        /\ UNCHANGED <<made, node, nodes, call, alive, inSetup>>
    BY <1>1 DEF RxTake, scanner
  <2>2. UnderWayNow' \subseteq UnderWayNow
    BY <2>1 DEF UnderWayNow
  <2>3. \A g \in UnderWayNow, k \in 1..made : AwaitedBy(g, k) => AwaitedBy(g, k)'
    BY <2>1 DEF AwaitedBy, AboutNow, Answers
  <2>4. \A g \in UnderWayNow' : \E k \in 1..made' : AwaitedBy(g, k)'
    BY <2>1, <2>2, <2>3 DEF Traffic
  <2>5. \A k \in NodeObjects : call'[k].reply # NoFrame => Answers(call[k].reply, k)'
    BY <2>1 DEF Traffic, Answers
  <2>6. (\A g, h \in wire' : g.id = h.id => g = h) /\ alive'
    BY <2>1 DEF Traffic
  <2>7. rx' # NoRoute => /\ \A g \in wire' : g.id # rx'.frame.id
                         /\ (rx'.to = "listed") <=> (nodes'[rx'.frame.id] # 0)
    BY <2>1 DEF Traffic
  <2>8. QED
    BY <2>4, <2>5, <2>6, <2>7 DEF Traffic
<1>2. CASE RxGive
  <2> DEFINE k == Receiver
  <2>1. k \in 1..made /\ AwaitedBy(rx.frame, k) /\ rx # NoRoute
    BY <1>2, ReceiverWaits DEF RxGive
  <2>2. /\ rx' = NoRoute /\ call' = [call EXCEPT ![k].reply = rx.frame]
        /\ UNCHANGED <<made, node, nodes, wire, alive, inSetup>>
    BY <1>2, <2>1 DEF RxGive, AwaitedBy, NoCall, scanner
  <2> HIDE DEF k
  <2>3. \A j \in NodeObjects :
          /\ j # k => call'[j] = call[j]
          /\ j = k => call'[j].reply = rx.frame /\ call'[j].obj = call[j].obj
    BY <1>0, <2>1, <2>2 DEF TypeOK, Calls
  <2>4. ASSUME NEW f \in UnderWayNow'
        PROVE  \E j \in 1..made' : AwaitedBy(f, j)'
    <3>1. f \in wire /\ f \in UnderWayNow /\ f.id # rx.frame.id
      BY <2>1, <2>2 DEF UnderWayNow, Traffic
    <3>2. PICK j \in 1..made : AwaitedBy(f, j)
      BY <3>1 DEF Traffic
    <3>3. j # k
      BY <2>1, <3>1, <3>2 DEF AwaitedBy, Answers
    <3>4. AwaitedBy(f, j)'
      BY <1>0, <2>2, <2>3, <3>2, <3>3 DEF AwaitedBy, Answers, AboutNow
    <3>5. QED
      BY <2>2, <3>4
  <2>5. \A j \in NodeObjects : call'[j].reply # NoFrame => Answers(call[j].reply, j)'
    BY <2>1, <2>2, <2>3 DEF Traffic, Answers, AwaitedBy
  <2>6. QED
    BY <2>2, <2>4, <2>5 DEF Traffic
<1>3. CASE RxCrash
  BY <1>3, <1>0, ReceiverWaits DEF RxCrash
<1>4. QED
  BY <1>1, <1>2, <1>3 DEF Receive

LEMMA ProceedTraffic ==
    ASSUME TypeOK, Shape, Traffic, scan = "setup", NEW n \in Nodes, NEW reads,
           n.id = node[inSetup].id, n.dev = node[inSetup].dev,
           Proceed(n, reads), ~stray', Quiet(inSetup)
    PROVE  Traffic'
<1> DEFINE k == inSetup
<1>1. k \in 1..made /\ k \in NodeObjects /\ AboutNow(k)
  BY SetUpNode DEF NodeObjects, AboutNow
<1>2. node' = [node EXCEPT ![k] = n] /\ UNCHANGED <<made, rx, alive>>
  BY DEF Proceed
<1>3. \A j \in NodeObjects : node'[j].id = node[j].id /\ node'[j].dev = node[j].dev
  BY <1>1, <1>2 DEF TypeOK
<1>4. CASE reads = {}
  <2>1. Release(k) /\ nodes' = [nodes EXCEPT ![node[k].id] = k] /\ UNCHANGED wire
    BY <1>4 DEF Proceed
  <2>2. \A i \in Ids : i # node[k].id => nodes'[i] = nodes[i]
    BY <2>1 DEF TypeOK
  <2>3. QED
    BY <1>1, <1>2, <1>3, <2>1, <2>2, ReleaseTraffic
<1>5. CASE reads # {}
  <2>1. PICK m \in reads : Ask(k, "scan", Reads[m])
    BY <1>5 DEF Proceed, AskNext
  <2>2. UNCHANGED <<nodes, inSetup>>
    BY <1>5 DEF Proceed
  <2>3. QED
    BY <1>1, <1>2, <1>3, <2>1, <2>2, AskTraffic
<1>6. QED
  BY <1>4, <1>5

LEMMA ScanTraffic ==
    ASSUME TypeOK, Shape, Traffic, Scan, ~Mixed'
    PROVE  Traffic'
<1>0. ~stray' /\ ~late'
  BY DEF Mixed
<1>1. ASSUME NEW d \in Devices, Found(d)
      PROVE  Traffic'
  <2>1. PICK i \in Ids : node' = [node EXCEPT ![made + 1] = NewNode(d, i)]
    BY <1>1 DEF Found
  <2>2. /\ scan = "search" /\ made' = made + 1 /\ inSetup' = made + 1
        /\ UNCHANGED <<nodes, call, wire, rx, alive>>
    BY <1>1 DEF Found
  <2>3. made \in Nat /\ made' \in Nat /\ inSetup = 0
    BY <2>2 DEF TypeOK, Shape, SetUpApart
  <2>4. ASSUME NEW k \in 1..made
        PROVE  k \in NodeObjects /\ node'[k] = node[k] /\ (AboutNow(k) => AboutNow(k)')
    <3>1. k \in NodeObjects /\ node'[k] = node[k]
      BY <2>1, <2>3, MadeNode DEF TypeOK
    <3>2. QED
      BY <2>2, <2>3, <3>1 DEF AboutNow
  <2>5. \A f \in UnderWayNow, k \in 1..made : AwaitedBy(f, k) => AwaitedBy(f, k)'
    BY <2>2, <2>4 DEF AwaitedBy, Answers
  <2>6. \A k \in NodeObjects : call[k].reply # NoFrame => k \in 1..made
    BY <2>3 DEF Shape, MadeInOrder, NoCall, NodeObjects
  <2>7. \A k \in NodeObjects : call'[k].reply # NoFrame =>
            Answers(call[k].reply, k)' /\ call'[k].reply = call[k].reply
    BY <2>2, <2>4, <2>6 DEF Traffic, Answers
  <2>8. QED
    BY <2>2, <2>3, <2>5, <2>7, TrafficKept
<1>2. CASE ScanAsk
  <2>1. PICK m \in plan : Ask(inSetup, "scan", Reads[m])
    BY <1>2 DEF ScanAsk, AskNext
  <2>2. Quiet(inSetup) /\ inSetup \in 1..made
    BY <1>2, SetUpNode DEF ScanAsk, Quiet, NoCall, NodeObjects
  <2>3. UNCHANGED <<made, node, nodes, rx, alive, inSetup>>
    BY <1>2 DEF ScanAsk, scanner
  <2>4. QED
    BY <1>0, <2>1, <2>2, <2>3, AskTraffic
<1>3. CASE Enumerate
  <2> DEFINE n == [node[inSetup] EXCEPT !.od = MadeAtOnce(Reports[call[inSetup].reply.dev])]
  <2>1. scan = "setup" /\ Proceed(n, PlanFor(Reports[call[inSetup].reply.dev]))
        /\ Quiet(inSetup)
    BY <1>3 DEF Enumerate, Enumerating, Answered, Quiet
  <2>2. n \in Nodes /\ n.id = node[inSetup].id /\ n.dev = node[inSetup].dev
    BY <2>1, SetUpNode, NodeWithObjects
  <2> HIDE DEF n
  <2>3. QED
    BY <1>0, <2>1, <2>2, ProceedTraffic
<1>4. CASE EnumerateFails
  <2>1. scan = "setup" /\ Release(inSetup)
        /\ UNCHANGED <<made, node, nodes, wire, rx, alive, inSetup>>
    BY <1>4 DEF EnumerateFails, Enumerating
  <2>2. Quiet(inSetup)
    BY <1>0, <1>4, TimesOutCleanly DEF EnumerateFails, Answered, Quiet
  <2>3. inSetup \in 1..made
    BY <2>1, SetUpNode DEF NodeObjects
  <2>4. QED
    BY <2>1, <2>2, <2>3, ReleaseTraffic
<1>5. CASE ProtocolRead
  <2>1. PICK m \in plan :
          /\ SettingUp /\ Quiet(inSetup)
          /\ LET p == Reads[m][1]
                 left == plan \ {m}
             IN  \/ Proceed(node[inSetup], Skip(p))
                 \/ Proceed([node[inSetup] EXCEPT !.od =
                       IF Without(p, left) = left THEN @ \cup {p} ELSE @], left)
    BY <1>5 DEF ProtocolRead, Answered, Quiet
  <2>2. node[inSetup] \in Nodes /\ scan = "setup" /\ Reads[m][1] \in WithNew
    BY <2>1, SetUpNode, ReadsOfClasses DEF TypeOK, SettingUp
  <2> DEFINE p == Reads[m][1]
             left == plan \ {m}
             n == [node[inSetup] EXCEPT !.od =
                      IF Without(p, left) = left THEN @ \cup {p} ELSE @]
  <2>3. n \in Nodes /\ n.id = node[inSetup].id /\ n.dev = node[inSetup].dev
    BY <2>2 DEF Nodes, Known
  <2>4. Proceed(node[inSetup], Skip(p)) \/ Proceed(n, left)
    BY <2>1
  <2> HIDE DEF n, left, p
  <2>5. QED
    BY <1>0, <2>1, <2>2, <2>3, <2>4, ProceedTraffic
<1>6. CASE ProtocolFails
  <2> DEFINE p == call[inSetup].obj[1]
             n == [node[inSetup] EXCEPT !.lost = @ \cup {p}]
  <2>1. scan = "setup" /\ 1 \notin plan /\ Proceed(n, Skip(p))
    BY <1>6 DEF ProtocolFails, SettingUp
  <2>2. inSetup \in NodeObjects /\ call[inSetup].by = "scan" /\ Quiet(inSetup)
    BY <1>0, <1>6, SetUpNode, <2>1, TimesOutCleanly
       DEF ProtocolFails, Answered, TimesOut, Waits, Quiet
  <2>3. p \in WithNew
    BY <2>1, <2>2, ReadsOfClasses DEF TypeOK, Shape, Owned
  <2>4. n \in Nodes /\ n.id = node[inSetup].id /\ n.dev = node[inSetup].dev
    BY <2>2, <2>3, NodeWithLoss
  <2> HIDE DEF n, p
  <2>5. QED
    BY <1>0, <2>1, <2>2, <2>4, ProceedTraffic
<1>7. QED
  BY <1>1, <1>2, <1>3, <1>4, <1>5, <1>6 DEF Scan

LEMMA PingTraffic ==
    ASSUME TypeOK, Shape, Traffic, Ping, ~Mixed'
    PROVE  Traffic'
<1>0. ~stray' /\ ~late' /\ made \in Nat
  BY DEF Mixed, TypeOK
<1>1. ASSUME UNCHANGED <<made, node, nodes, call, wire, rx, alive, inSetup>>
      PROVE  Traffic'
  BY <1>1 DEF Traffic, UnderWayNow, AwaitedBy, AboutNow, Answers
<1>2. CASE PingRound \/ \E k \in NodeObjects : PingFromCache(k)
  BY <1>1, <1>2 DEF PingRound, PingFromCache, scanner
<1>3. ASSUME NEW k \in NodeObjects, PingAsk(k)
      PROVE  Traffic'
  <2>1. k \in 1..made /\ Quiet(k)
    BY <1>3, PingNode DEF PingAsk, Quiet, NoCall, NodeObjects
  <2>2. QED
    BY <1>0, <1>3, <2>1, AskTraffic DEF PingAsk, scanner
<1>4. ASSUME NEW k \in NodeObjects, PingAnswered(k) \/ PingFails(k) \/ PingTimesOut(k)
      PROVE  Traffic'
  <2>1. k \in todo /\ Quiet(k) /\ Release(k)
    BY <1>0, <1>4, TimesOutCleanly
       DEF PingAnswered, PingFails, PingTimesOut, Answered, TimesOut, Waits, Quiet, Shape, Owned
  <2>2. k \in 1..made /\ AboutNow(k) /\ node[k].id \in Ids
    BY <2>1, PingNode DEF AboutNow, NodeObjects
  <2>3. \A j \in NodeObjects : node'[j].id = node[j].id /\ node'[j].dev = node[j].dev
    BY <1>4 DEF PingAnswered, PingFails, PingTimesOut, Remember, TypeOK, Nodes
  <2>4. /\ UNCHANGED <<made, wire, rx, alive, inSetup>>
        /\ \A i \in Ids : i # node[k].id => nodes'[i] = nodes[i]
    BY <1>4 DEF PingAnswered, PingFails, PingTimesOut, scanner, TypeOK
  <2>5. QED
    BY <2>1, <2>2, <2>3, <2>4, ReleaseTraffic
<1>5. QED
  BY <1>2, <1>3, <1>4 DEF Ping

LEMMA ReaderTraffic ==
    ASSUME TypeOK, Shape, Traffic, StatusStarts \/ StatusGoes, ~Mixed'
    PROVE  Traffic'
<1>0. ~stray' /\ ~late' /\ made \in Nat
  BY DEF Mixed, TypeOK
<1>1. CASE StatusStarts
  BY <1>1 DEF StatusStarts, scanner, Traffic, UnderWayNow, AwaitedBy, AboutNow, Answers
<1>2. status # NoStatus => status.at \in 1..made /\ status.at \in NodeObjects
  BY StatusNode DEF NodeObjects
<1>3. CASE StatusAsk
  <2>1. Quiet(status.at)
    BY <1>3 DEF StatusAsk, Quiet, NoCall
  <2>2. QED
    BY <1>0, <1>2, <1>3, <2>1, AskTraffic DEF StatusAsk, scanner
<1>4. CASE StatusRead \/ StatusFails
  <2>1. status # NoStatus /\ Quiet(status.at) /\ Release(status.at)
        /\ UNCHANGED <<made, nodes, wire, rx, alive, inSetup>>
    <3>1. CASE StatusRead
      BY <3>1 DEF StatusRead, Answered, Quiet, scanner
    <3>2. CASE StatusFails
      BY <1>0, <3>2, TimesOutCleanly DEF StatusFails, Answered, Quiet, scanner
    <3>3. QED
      BY <1>4, <3>1, <3>2
  <2>2. \A j \in NodeObjects : node'[j].id = node[j].id /\ node'[j].dev = node[j].dev
    <3>1. node' = node \/ Remember(status.at)
      BY <1>4 DEF StatusRead, StatusFails
    <3>2. QED
      BY <1>2, <2>1, <3>1 DEF Remember, TypeOK, Nodes
  <2>3. QED
    BY <1>2, <2>1, <2>2, ReleaseTraffic
<1>5. QED
  BY <1>1, <1>3, <1>4 DEF StatusGoes

LEMMA BusTraffic ==
    ASSUME TypeOK, Shape, Traffic, Bus
    PROVE  Traffic'
<1>1. wire' \subseteq wire /\ UNCHANGED <<made, node, nodes, call, rx, alive, inSetup>>
  BY DEF Bus, Lose, Leave, Join, Expire, scanner
<1>2. \A f \in UnderWayNow, k \in 1..made : AwaitedBy(f, k) => AwaitedBy(f, k)'
  BY <1>1 DEF AwaitedBy, AboutNow, Answers
<1>3. \A k \in NodeObjects : call'[k].reply # NoFrame =>
          Answers(call[k].reply, k)' /\ call'[k].reply = call[k].reply
  BY <1>1 DEF Traffic, Answers
<1>4. made \in Nat
  BY DEF TypeOK
<1>5. QED
  BY <1>1, <1>2, <1>3, <1>4, TrafficKept

LEMMA TrafficStep ==
    ASSUME TypeOK, Shape, Traffic, [Next]_vars, ~Mixed'
    PROVE  Traffic'
<1>1. CASE UNCHANGED vars
  BY <1>1 DEF vars, scanner, Traffic, UnderWayNow, AwaitedBy, AboutNow, Answers
<1>2. QED
  BY <1>1, ReceiveTraffic, ScanTraffic, PingTraffic, ReaderTraffic, BusTraffic DEF Next

-----------------------------------------------------------------------------
(* What is read stays current as long as the devices stay as they are.     *)
RepliedInfo(k) == {[dev |-> call[k].reply.dev, fw |-> call[k].reply.fw]}

LEMMA CurrentKept ==
    ASSUME TypeOK, Shape, Traffic, Current, Whole, UNCHANGED <<devId, fw>>, made' = made,
           \A f \in UnderWayNow' :
               f \in UnderWayNow \/ (devId[f.dev] = f.id /\ f.fw = fw[f.dev]),
           \A k \in 1..made :
               /\ node'[k].id = node[k].id /\ node'[k].dev = node[k].dev
               /\ AboutNow(k)' => AboutNow(k)
               /\ \/ call'[k].reply \in {NoFrame, call[k].reply}
                  \/ rx # NoRoute /\ AwaitedBy(rx.frame, k) /\ call'[k].reply = rx.frame
               /\ \A o \in {Name, Version} :
                     \/ node'[k].info[o] = node[k].info[o]
                     \/ call[k].reply # NoFrame /\ node'[k].info[o] = RepliedInfo(k)
    PROVE  Current' /\ Whole'
<1>1. \A f \in UnderWayNow' : devId'[f.dev] = f.id => f.fw = fw'[f.dev]
  BY DEF Current
<1>2. ASSUME NEW k \in 1..made', AboutNow(k)', devId'[node'[k].dev] = node'[k].id
      PROVE  /\ call'[k].reply # NoFrame => call'[k].reply.fw = fw'[node'[k].dev]
             /\ \A o \in {Name, Version} :
                   node'[k].info[o] \subseteq {[dev |-> node'[k].dev, fw |-> fw'[node'[k].dev]]}
  <2>1. /\ k \in 1..made /\ k \in NodeObjects /\ AboutNow(k)
        /\ devId[node[k].dev] = node[k].id
        /\ node'[k].id = node[k].id /\ node'[k].dev = node[k].dev
    BY <1>2, MadeNode
  <2>2. /\ call[k].reply # NoFrame =>
              call[k].reply.fw = fw[node[k].dev] /\ call[k].reply.dev = node[k].dev
        /\ \A o \in {Name, Version} :
              node[k].info[o] \subseteq {[dev |-> node[k].dev, fw |-> fw[node[k].dev]]}
    BY <2>1 DEF Current, Traffic, Answers
  <2>3. call'[k].reply # NoFrame => call'[k].reply.fw = fw'[node'[k].dev]
    <3>1. CASE call'[k].reply \in {NoFrame, call[k].reply}
      BY <2>1, <2>2, <3>1
    <3>2. CASE rx # NoRoute /\ AwaitedBy(rx.frame, k) /\ call'[k].reply = rx.frame
      <4>1. rx.frame \in UnderWayNow /\ rx.frame.dev = node[k].dev /\ rx.frame.id = node[k].id
        BY <3>2 DEF UnderWayNow, AwaitedBy, Answers
      <4>2. QED
        BY <2>1, <3>2, <4>1 DEF Current
    <3>3. QED
      BY <2>1, <3>1, <3>2
  <2>4. ASSUME NEW o \in {Name, Version}
        PROVE  node'[k].info[o] \subseteq {[dev |-> node'[k].dev, fw |-> fw'[node'[k].dev]]}
    <3>1. CASE node'[k].info[o] = node[k].info[o]
      BY <2>1, <2>2, <3>1
    <3>2. CASE call[k].reply # NoFrame /\ node'[k].info[o] = RepliedInfo(k)
      BY <2>1, <2>2, <3>2 DEF RepliedInfo
    <3>3. QED
      BY <2>1, <3>1, <3>2
  <2>5. QED
    BY <2>3, <2>4
<1>3. Current'
  BY <1>1, <1>2 DEF Current
<1>4. ASSUME NEW k \in 1..made
      PROVE  /\ \A r, q \in Seen(k)' : r = q
             /\ \A f \in UnderWayNow' :
                   AwaitedBy(f, k)' => \A r \in Seen(k)' : r = Source(f)
             /\ call'[k].reply # NoFrame =>
                   \A r \in Seen(k)' : r = Source(call'[k].reply)
  <2>1. \A r \in Seen(k)' :
           r \in Seen(k) \/ (call[k].reply # NoFrame /\ r = Source(call[k].reply))
    BY DEF Seen, RepliedInfo, Source
  <2>2. \A r, q \in Seen(k)' : r = q
    BY <2>1 DEF Whole
  <2>3. ASSUME NEW f \in UnderWayNow', AwaitedBy(f, k)', NEW r \in Seen(k)'
        PROVE  r = Source(f)
    <3>1. /\ AboutNow(k) /\ f.id = node[k].id /\ f.dev = node[k].dev
      BY <2>3 DEF AwaitedBy, Answers
    <3>2. CASE f \in UnderWayNow
      <4>1. PICK j \in 1..made : AwaitedBy(f, j)
        BY <3>2 DEF Traffic
      <4>2. j = k
        BY <3>1, <4>1, OneForAnId DEF AwaitedBy, Answers
      <4>3. r \in Seen(k)
        BY <2>1, <4>1, <4>2 DEF AwaitedBy
      <4>4. QED
        BY <3>2, <4>1, <4>2, <4>3 DEF Whole
    <3>3. CASE devId[f.dev] = f.id /\ f.fw = fw[f.dev]
      <4>1. /\ call[k].reply # NoFrame => call[k].reply.fw = f.fw
            /\ \A o \in {Name, Version} : node[k].info[o] \subseteq {Source(f)}
        BY <3>1, <3>3 DEF Current, Source
      <4>2. call[k].reply # NoFrame => call[k].reply.dev = f.dev
        BY <3>1, MadeNode DEF Traffic, Answers
      <4>3. QED
        BY <2>1, <4>1, <4>2 DEF Seen, Source
    <3>4. QED
      BY <3>2, <3>3
  <2>4. ASSUME call'[k].reply # NoFrame, NEW r \in Seen(k)'
        PROVE  r = Source(call'[k].reply)
    <3>1. CASE call'[k].reply \in {NoFrame, call[k].reply}
      BY <2>1, <2>4, <3>1 DEF Whole
    <3>2. CASE rx # NoRoute /\ AwaitedBy(rx.frame, k) /\ call'[k].reply = rx.frame
      <4>1. r \in Seen(k)
        BY <2>1, <3>2 DEF AwaitedBy
      <4>2. rx.frame \in UnderWayNow
        BY <3>2 DEF UnderWayNow
      <4>3. QED
        BY <3>2, <4>1, <4>2 DEF Whole
    <3>3. QED
      BY <3>1, <3>2
  <2>5. QED
    BY <2>2, <2>3, <2>4
<1>5. Whole'
  BY <1>4 DEF Whole
<1>6. QED
  BY <1>3, <1>5

LEMMA BusCurrent ==
    ASSUME TypeOK, Shape, Traffic, Current, Whole, Bus
    PROVE  Current' /\ Whole'
<1>1. UnderWayNow' \subseteq UnderWayNow /\ UNCHANGED <<made, node, nodes, call, rx, inSetup>>
  BY DEF Bus, Lose, Leave, Join, Expire, scanner, UnderWayNow
<1>2. \A f \in UnderWayNow : f.dev \in Devices /\ f.id \in Ids /\ f.id # 0
  BY DEF UnderWayNow, TypeOK, Frames, Ids
<1>3. \A k \in 1..made : node[k].dev \in Devices /\ node[k].id # 0
  BY MadeNode DEF Ids
<1>4. \A d \in Devices : devId'[d] = 0 \/ (devId'[d] = devId[d] /\ fw'[d] = fw[d])
  BY DEF Bus, Lose, Leave, Join, Expire, devices, TypeOK, Shape, Absent
<1>5. \A k \in 1..made : AboutNow(k)' = AboutNow(k)
  BY <1>1 DEF AboutNow
<1>6. \A f \in UnderWayNow' : devId'[f.dev] = f.id => f.fw = fw'[f.dev]
  BY <1>1, <1>2, <1>4 DEF Current
<1>7. ASSUME NEW k \in 1..made', AboutNow(k)', devId'[node'[k].dev] = node'[k].id
      PROVE  /\ call'[k].reply # NoFrame => call'[k].reply.fw = fw'[node'[k].dev]
             /\ \A o \in {Name, Version} :
                   node'[k].info[o] \subseteq {[dev |-> node'[k].dev, fw |-> fw'[node'[k].dev]]}
  <2>1. /\ k \in 1..made /\ AboutNow(k) /\ devId[node[k].dev] = node[k].id
        /\ fw'[node[k].dev] = fw[node[k].dev] /\ node' = node /\ call' = call
    BY <1>1, <1>3, <1>4, <1>5, <1>7
  <2>2. QED
    BY <2>1 DEF Current
<1>8. Whole'
  <2>1. ASSUME NEW k \in 1..made, NEW f, AwaitedBy(f, k)'
        PROVE  AwaitedBy(f, k)
    BY <1>1, <1>5, <2>1 DEF AwaitedBy, Answers
  <2>2. \A k \in 1..made : Seen(k)' = Seen(k)
    BY <1>1 DEF Seen
  <2>3. QED
    BY <1>1, <2>1, <2>2 DEF Whole
<1>9. QED
  BY <1>6, <1>7, <1>8 DEF Current

LEMMA FoundCurrent ==
    ASSUME TypeOK, Shape, Traffic, Current, Whole, NEW d \in Devices, Found(d)
    PROVE  Current' /\ Whole'
<1>1. PICK i \in Ids : /\ FreeId(i) /\ devId' = [devId EXCEPT ![d] = i]
                       /\ node' = [node EXCEPT ![made + 1] = NewNode(d, i)]
  BY DEF Found
<1>2. /\ nodes[i] = 0 /\ scan = "search" /\ made' = made + 1 /\ inSetup' = made + 1
      /\ UNCHANGED <<fw, nodes, call, wire, rx>> /\ made + 1 \in NodeObjects
  BY <1>1, DirectoryAssumption DEF Found, FreeId, TypeOK, NodeObjects
<1>3. made \in Nat /\ inSetup = 0
  BY <1>2 DEF TypeOK, Shape, SetUpApart
<1>4. ASSUME NEW k \in 1..made, AboutNow(k)
      PROVE  nodes[node[k].id] = k /\ node[k].id # i
  BY <1>2, <1>3, <1>4 DEF AboutNow
<1>5. ASSUME NEW f \in UnderWayNow', devId'[f.dev] = f.id
      PROVE  f.fw = fw'[f.dev]
  <2>1. f \in UnderWayNow
    BY <1>2 DEF UnderWayNow
  <2>2. PICK k \in 1..made : AwaitedBy(f, k)
    BY <2>1 DEF Traffic
  <2>3. f.id # i
    BY <1>4, <2>2 DEF AwaitedBy, Answers
  <2>4. devId[f.dev] = f.id
    BY <1>1, <1>5, <2>3 DEF TypeOK
  <2>5. QED
    BY <1>2, <2>1, <2>4 DEF Current
<1>6. ASSUME NEW k \in 1..made', AboutNow(k)', devId'[node'[k].dev] = node'[k].id
      PROVE  /\ call'[k].reply # NoFrame => call'[k].reply.fw = fw'[node'[k].dev]
             /\ \A o \in {Name, Version} :
                   node'[k].info[o] \subseteq {[dev |-> node'[k].dev, fw |-> fw'[node'[k].dev]]}
  <2>1. CASE k = made + 1
    <3>1. call'[k] = NoCall
      BY <1>2, <1>3, <2>1 DEF Shape, MadeInOrder
    <3>2. node'[k].info = NoInfo
      BY <1>1, <1>2, <2>1 DEF TypeOK, NewNode
    <3>3. QED
      BY <3>1, <3>2 DEF NoCall, NoInfo
  <2>2. CASE k # made + 1
    <3>1. k \in 1..made /\ k \in NodeObjects
      BY <1>2, <1>3, <2>2, DirectoryAssumption DEF TypeOK, NodeObjects
    <3>2. node'[k] = node[k]
      BY <1>1, <1>2, <2>2, <3>1 DEF TypeOK
    <3>3. AboutNow(k)
      BY <1>2, <1>6, <2>2, <3>2 DEF AboutNow
    <3>4. devId[node[k].dev] = node[k].id
      BY <1>1, <1>4, <1>6, <3>1, <3>2, <3>3 DEF TypeOK
    <3>5. QED
      BY <1>2, <3>1, <3>2, <3>3, <3>4 DEF Current
  <2>3. QED
    BY <2>1, <2>2
<1>7. Whole'
  <2> SUFFICES ASSUME NEW k \in 1..made'
               PROVE  /\ \A r, q \in Seen(k)' : r = q
                      /\ \A f \in UnderWayNow' :
                            AwaitedBy(f, k)' => \A r \in Seen(k)' : r = Source(f)
                      /\ call'[k].reply # NoFrame =>
                            \A r \in Seen(k)' : r = Source(call'[k].reply)
    BY DEF Whole
  <2>1. CASE k = made + 1
    <3>1. node'[k].info = NoInfo
      BY <1>1, <1>2, <2>1 DEF TypeOK, NewNode
    <3>2. Seen(k)' = {}
      BY <3>1 DEF Seen, NoInfo
    <3>3. QED
      BY <3>2
  <2>2. CASE k # made + 1
    <3>1. k \in 1..made /\ k \in NodeObjects /\ k # made + 1
      BY <1>2, <1>3, <2>2, DirectoryAssumption DEF TypeOK, NodeObjects
    <3>2. node'[k] = node[k] /\ UNCHANGED <<call, UnderWayNow>>
      BY <1>1, <1>2, <2>2, <3>1 DEF TypeOK, UnderWayNow
    <3>3. \A f : AwaitedBy(f, k)' => AwaitedBy(f, k)
      BY <1>2, <1>3, <3>1, <3>2 DEF AwaitedBy, AboutNow, Answers
    <3>4. Seen(k)' = Seen(k)
      BY <3>2 DEF Seen
    <3>5. QED
      BY <3>1, <3>2, <3>3, <3>4 DEF Whole
  <2>3. QED
    BY <2>1, <2>2
<1>8. QED
  BY <1>5, <1>6, <1>7 DEF Current

LEMMA ReceiveCurrent ==
    ASSUME TypeOK, Shape, Traffic, Current, Whole, Receive
    PROVE  Current' /\ Whole'
<1>1. UNCHANGED <<devId, fw, made, node, nodes, inSetup>>
  BY DEF Receive, RxTake, RxGive, RxCrash, devices, scanner
<1>2. \A k \in 1..made : AboutNow(k)' = AboutNow(k)
  BY <1>1 DEF AboutNow
<1>3. \A f \in UnderWayNow' : f \in UnderWayNow
  BY DEF Receive, RxTake, RxGive, RxCrash, UnderWayNow, NoRoute
<1>4. ASSUME NEW k \in 1..made
      PROVE  \/ call'[k].reply \in {NoFrame, call[k].reply}
             \/ rx # NoRoute /\ AwaitedBy(rx.frame, k) /\ call'[k].reply = rx.frame
  <2>1. CASE (\E f \in wire : RxTake(f)) \/ RxCrash
    BY <2>1 DEF RxTake, RxCrash
  <2>2. CASE RxGive
    <3>1. Receiver \in 1..made /\ AwaitedBy(rx.frame, Receiver) /\ rx # NoRoute
      BY <2>2, ReceiverWaits DEF RxGive
    <3>2. Receiver \in NodeObjects /\ k \in NodeObjects
      BY <3>1, MadeNode
    <3>3. call' = call \/ call' = [call EXCEPT ![Receiver].reply = rx.frame]
      BY <2>2 DEF RxGive
    <3>4. QED
      BY <3>1, <3>2, <3>3 DEF TypeOK, Calls
  <2>3. QED
    BY <2>1, <2>2 DEF Receive
<1>5. QED
  BY <1>1, <1>2, <1>3, <1>4, CurrentKept

LEMMA ProceedCurrent ==
    ASSUME TypeOK, Shape, Traffic, Current, Whole, scan = "setup", NEW n \in Nodes, NEW reads,
           n.id = node[inSetup].id, n.dev = node[inSetup].dev, n.info = node[inSetup].info,
           Proceed(n, reads), ~stray'
    PROVE  Current' /\ Whole'
<1> DEFINE k == inSetup
<1>1. k \in 1..made /\ k \in NodeObjects /\ k # 0 /\ AboutNow(k) /\ node[k].id \in Ids
  BY SetUpNode DEF NodeObjects, AboutNow
<1>2. node' = [node EXCEPT ![k] = n] /\ UNCHANGED <<made, rx, devId, fw>>
  BY DEF Proceed, devices
<1>3. \A j \in NodeObjects : /\ node'[j].id = node[j].id /\ node'[j].dev = node[j].dev
                            /\ node'[j].info = node[j].info
  BY <1>1, <1>2 DEF TypeOK
<1>4. ASSUME NEW j \in 1..made
      PROVE  j \in NodeObjects /\ node[j].id \in Ids
  BY MadeNode
<1>5. CASE reads = {}
  <2>1. /\ call' = [call EXCEPT ![k] = NoCall] /\ nodes' = [nodes EXCEPT ![node[k].id] = k]
        /\ UNCHANGED wire /\ inSetup' = 0
    BY <1>5 DEF Proceed, Release
  <2>2. \A j \in 1..made : AboutNow(j)' => AboutNow(j)
    BY <1>1, <1>3, <1>4, <2>1 DEF AboutNow, TypeOK
  <2>3. \A f \in UnderWayNow' : f \in UnderWayNow
    BY <1>2, <2>1 DEF UnderWayNow
  <2>4. \A j \in 1..made : call'[j].reply \in {NoFrame, call[j].reply}
    BY <1>1, <1>4, <2>1 DEF TypeOK, NoCall
  <2>5. QED
    BY <1>2, <1>3, <1>4, <2>2, <2>3, <2>4, CurrentKept
<1>6. CASE reads # {}
  <2>1. PICK m \in reads : Ask(k, "scan", Reads[m])
    BY <1>6 DEF Proceed, AskNext
  <2>2. UNCHANGED <<nodes, inSetup>>
    BY <1>6 DEF Proceed
  <2>3. \A j \in 1..made : AboutNow(j)' => AboutNow(j)
    BY <1>3, <1>4, <2>2 DEF AboutNow
  <2>4. \A f \in UnderWayNow' : f \in UnderWayNow \/ (devId[f.dev] = f.id /\ f.fw = fw[f.dev])
    BY <1>1, <1>2, <2>1, AskFrames DEF UnderWayNow
  <2>5. \A j \in 1..made : call'[j].reply \in {NoFrame, call[j].reply}
    BY <1>1, <1>4, <2>1 DEF TypeOK, Ask
  <2>6. QED
    BY <1>2, <1>3, <1>4, <2>3, <2>4, <2>5, CurrentKept
<1>7. QED
  BY <1>5, <1>6

(* What the tasks do to a node object that is not in set-up.               *)
LEMMA TaskCurrent ==
    ASSUME TypeOK, Shape, Traffic, Current, Whole, NEW k \in 1..made, NEW who, ~stray',
           \/ \E o : Ask(k, who, o)
           \/ Release(k) /\ UNCHANGED wire,
           \/ UNCHANGED node
           \/ Answered(k, who) /\ Remember(k),
           UNCHANGED nodes \/ nodes' = [nodes EXCEPT ![node[k].id] = 0],
           UNCHANGED <<devId, fw, made, rx, inSetup>>
    PROVE  Current' /\ Whole'
<1>1. \A j \in 1..made : j \in NodeObjects /\ node[j].id \in Ids /\ j # 0
  BY MadeNode
<1>2. \A j \in NodeObjects :
          /\ node'[j].id = node[j].id /\ node'[j].dev = node[j].dev
          /\ \A o \in {Name, Version} :
                \/ node'[j].info[o] = node[j].info[o]
                \/ call[j].reply # NoFrame /\ node'[j].info[o] = RepliedInfo(j)
  BY <1>1 DEF TypeOK, Nodes, Remember, Answered, RepliedInfo
<1>3. \A j \in 1..made : AboutNow(j)' => AboutNow(j)
  BY <1>1, <1>2 DEF AboutNow, TypeOK
<1>4. \A j \in 1..made : call'[j].reply \in {NoFrame, call[j].reply}
  BY <1>1 DEF TypeOK, Ask, Release, NoCall
<1>5. \A f \in UnderWayNow' : f \in UnderWayNow \/ (devId[f.dev] = f.id /\ f.fw = fw[f.dev])
  BY AskFrames DEF UnderWayNow
<1>6. QED
  BY <1>1, <1>2, <1>3, <1>4, <1>5, CurrentKept

LEMMA ScanCurrent ==
    ASSUME TypeOK, Shape, Traffic, Current, Whole, Scan, ~Mixed'
    PROVE  Current' /\ Whole'
<1>0. ~stray'
  BY DEF Mixed
<1>1. ASSUME NEW d \in Devices, Found(d)
      PROVE  Current' /\ Whole'
  BY <1>1, FoundCurrent
<1>2. CASE ScanAsk \/ EnumerateFails
  <2>1. \/ \E m : Ask(inSetup, "scan", Reads[m])
        \/ Release(inSetup) /\ UNCHANGED wire
    BY <1>2 DEF ScanAsk, AskNext, EnumerateFails
  <2>2. scan = "setup" /\ UNCHANGED <<devId, fw, made, node, nodes, rx, inSetup>>
    BY <1>2 DEF ScanAsk, EnumerateFails, Enumerating, devices, scanner
  <2>3. inSetup \in 1..made
    BY <2>2, SetUpNode DEF NodeObjects
  <2>4. QED
    BY <1>0, <2>1, <2>2, <2>3, TaskCurrent
<1>3. CASE Enumerate
  <2> DEFINE n == [node[inSetup] EXCEPT !.od = MadeAtOnce(Reports[call[inSetup].reply.dev])]
  <2>1. scan = "setup" /\ Proceed(n, PlanFor(Reports[call[inSetup].reply.dev]))
    BY <1>3 DEF Enumerate, Enumerating
  <2>2. n \in Nodes /\ n.id = node[inSetup].id /\ n.dev = node[inSetup].dev
        /\ n.info = node[inSetup].info
    BY <2>1, SetUpNode, NodeWithObjects
  <2> HIDE DEF n
  <2>3. QED
    BY <1>0, <2>1, <2>2, ProceedCurrent
<1>4. CASE ProtocolRead
  <2>1. PICK m \in plan :
          /\ SettingUp
          /\ LET p == Reads[m][1]
                 left == plan \ {m}
             IN  \/ Proceed(node[inSetup], Skip(p))
                 \/ Proceed([node[inSetup] EXCEPT !.od =
                       IF Without(p, left) = left THEN @ \cup {p} ELSE @], left)
    BY <1>4 DEF ProtocolRead
  <2>2. node[inSetup] \in Nodes /\ scan = "setup" /\ Reads[m][1] \in WithNew
    BY <2>1, SetUpNode, ReadsOfClasses DEF TypeOK, SettingUp
  <2> DEFINE p == Reads[m][1]
             left == plan \ {m}
             n == [node[inSetup] EXCEPT !.od =
                      IF Without(p, left) = left THEN @ \cup {p} ELSE @]
  <2>3. n \in Nodes /\ n.id = node[inSetup].id /\ n.dev = node[inSetup].dev
        /\ n.info = node[inSetup].info
    BY <2>2 DEF Nodes, Known
  <2>4. Proceed(node[inSetup], Skip(p)) \/ Proceed(n, left)
    BY <2>1
  <2> HIDE DEF n, left, p
  <2>5. QED
    BY <1>0, <2>2, <2>3, <2>4, ProceedCurrent
<1>5. CASE ProtocolFails
  <2> DEFINE p == call[inSetup].obj[1]
             n == [node[inSetup] EXCEPT !.lost = @ \cup {p}]
  <2>1. scan = "setup" /\ 1 \notin plan /\ Proceed(n, Skip(p))
    BY <1>5 DEF ProtocolFails, SettingUp
  <2>2. inSetup \in NodeObjects /\ call[inSetup].by = "scan"
    BY <1>5, SetUpNode, <2>1 DEF ProtocolFails, Answered, TimesOut, Waits
  <2>3. p \in WithNew
    BY <2>1, <2>2, ReadsOfClasses DEF TypeOK, Shape, Owned
  <2>4. n \in Nodes /\ n.id = node[inSetup].id /\ n.dev = node[inSetup].dev
        /\ n.info = node[inSetup].info
    BY <2>2, <2>3, NodeWithLoss
  <2> HIDE DEF n, p
  <2>5. QED
    BY <1>0, <2>1, <2>4, ProceedCurrent
<1>6. QED
  BY <1>1, <1>2, <1>3, <1>4, <1>5 DEF Scan

LEMMA PingCurrent ==
    ASSUME TypeOK, Shape, Traffic, Current, Whole, Ping, ~Mixed'
    PROVE  Current' /\ Whole'
<1>0. ~stray'
  BY DEF Mixed
<1>1. CASE PingRound \/ \E k \in NodeObjects : PingFromCache(k)
  <2>1. UNCHANGED <<devId, fw, made, node, nodes, call, wire, rx, inSetup>>
    BY <1>1 DEF PingRound, PingFromCache, devices, scanner
  <2>2. QED
    BY <2>1 DEF Current, Whole, Seen, AwaitedBy, Answers, UnderWayNow, AboutNow
<1>2. ASSUME NEW k \in NodeObjects, PingAsk(k)
      PROVE  Current' /\ Whole'
  <2>1. k \in 1..made
    BY <1>2, PingNode DEF PingAsk, NodeObjects
  <2>2. QED
    BY <1>0, <1>2, <2>1, TaskCurrent DEF PingAsk, devices, scanner
<1>3. ASSUME NEW k \in NodeObjects, PingAnswered(k) \/ PingFails(k) \/ PingTimesOut(k)
      PROVE  Current' /\ Whole'
  <2>1. k \in todo
    BY <1>3 DEF PingAnswered, PingFails, PingTimesOut, Answered, TimesOut, Waits, Shape, Owned
  <2>2. k \in 1..made
    BY <2>1, PingNode DEF NodeObjects
  <2>3. QED
    BY <1>0, <1>3, <2>2, TaskCurrent
       DEF PingAnswered, PingFails, PingTimesOut, devices, scanner
<1>4. QED
  BY <1>1, <1>2, <1>3 DEF Ping

LEMMA ReaderCurrent ==
    ASSUME TypeOK, Shape, Traffic, Current, Whole, StatusStarts \/ StatusGoes, ~Mixed'
    PROVE  Current' /\ Whole'
<1>0. ~stray'
  BY DEF Mixed
<1>1. CASE StatusStarts
  <2>1. UNCHANGED <<devId, fw, made, node, nodes, call, wire, rx, inSetup>>
    BY <1>1 DEF StatusStarts, devices, scanner
  <2>2. QED
    BY <2>1 DEF Current, Whole, Seen, AwaitedBy, Answers, UnderWayNow, AboutNow
<1>2. CASE StatusGoes
  <2>1. status.at \in 1..made
    BY <1>2, StatusNode DEF StatusGoes, StatusAsk, StatusRead, StatusFails, NodeObjects
  <2>2. QED
    BY <1>0, <1>2, <2>1, TaskCurrent
       DEF StatusGoes, StatusAsk, StatusRead, StatusFails, devices, scanner
<1>3. QED
  BY <1>1, <1>2

LEMMA CurrentStep ==
    ASSUME TypeOK, Shape, Traffic, Current, Whole, [Next]_vars, ~Mixed'
    PROVE  Current' /\ Whole'
<1>1. CASE UNCHANGED vars
  BY <1>1 DEF vars, devices, scanner, Current, Whole, Seen, AwaitedBy, Answers, UnderWayNow,
              AboutNow
<1>2. QED
  BY <1>1, ReceiveCurrent, ScanCurrent, PingCurrent, ReaderCurrent, BusCurrent DEF Next

-----------------------------------------------------------------------------
(* The set-up accounts for every protocol.                                 *)
LEMMA FirstRead == Reads[1][1] \notin WithNew
BY DEF Reads, SupportedProtocols, Outputs, Inputs, Timers, Triggers, Adc,
   ServerTimeout, WithNew

LEMMA Classes == WithNew \cap WithoutNew = {} /\ Known = WithNew \cup WithoutNew
BY DEF WithNew, WithoutNew, Known

LEMMA PendingWithout ==
    ASSUME NEW p, NEW reads
    PROVE  Pending(Without(p, reads)) = Pending(reads) \ {p}
BY DEF Pending, Without

LEMMA EnumerationBuilds ==
    ASSUME TypeOK, NEW d \in Devices, NEW n, n.dev = d, n.lost = {},
           n.od = MadeAtOnce(Reports[d])
    PROVE  HalfBuilt(n, PlanFor(Reports[d]))
<1> DEFINE reads == PlanFor(Reports[d])
<1>1. \A m : m \in reads <=> m \in DOMAIN Reads /\ Reads[m][1] \in Reports[d] \cap WithNew
  BY DEF PlanFor
<1>2. Pending(reads) = Reports[d] \cap WithNew
  <2>1. Pending(reads) \subseteq Reports[d] \cap WithNew
    BY <1>1 DEF Pending
  <2>2. ASSUME NEW p \in Reports[d] \cap WithNew
        PROVE  p \in Pending(reads)
    <3>1. PICK m \in DOMAIN Reads : Reads[m][1] = p
      BY ReadsTell
    <3>2. m \in reads
      BY <1>1, <3>1
    <3>3. QED
      BY <3>1, <3>2 DEF Pending
  <2>3. QED
    BY <2>1, <2>2
<1>3. n.od = (Offer[d] \ n.lost) \ Pending(reads)
  <2>1. Offer[d] = (Reports[d] \cap Known) \ Refuses[d] /\ Refuses[d] \subseteq WithNew
    BY RefusesAssumption DEF Offer
  <2>2. QED
    BY <1>2, <2>1, Classes DEF MadeAtOnce
<1>4. 1 \notin reads
  BY <1>1, FirstRead
<1>5. \A r \in reads, m \in DOMAIN Reads :
        Reads[m][1] = Reads[r][1] => m \in reads
  BY <1>1
<1> HIDE DEF reads
<1>6. HalfBuilt(n, reads)
  BY <1>2, <1>3, <1>4, <1>5 DEF HalfBuilt
<1>7. QED
  BY <1>6 DEF reads

(* A protocol whose set-up failed, or is refused, is left out.             *)
LEMMA SkipBuilds ==
    ASSUME NEW n, NEW n2, NEW reads, HalfBuilt(n, reads),
           NEW p \in Pending(reads), n2.dev = n.dev, n2.od = n.od,
           \/ n2.lost = n.lost /\ p \in Refuses[n.dev] /\ n.dev \in Devices
           \/ n2.lost = n.lost \cup {p}
    PROVE  HalfBuilt(n2, Without(p, reads))
<1>1. Pending(Without(p, reads)) = Pending(reads) \ {p}
  BY PendingWithout
<1>2. \A m : m \in Without(p, reads) <=> m \in reads /\ Reads[m][1] # p
  BY DEF Without
<1>3. n.dev \in Devices /\ p \in Refuses[n.dev] => p \notin Offer[n.dev]
  BY DEF Offer
<1>4. n2.od = (Offer[n2.dev] \ n2.lost) \ Pending(Without(p, reads))
  <2> DEFINE offer == Offer[n.dev]
             pending == Pending(reads)
  <2>1. n2.od = (offer \ n.lost) \ pending /\ pending \cap n.lost = {}
    BY DEF HalfBuilt
  <2>2. n2.od = (offer \ n2.lost) \ (pending \ {p})
    <3>1. CASE n2.lost = n.lost /\ p \notin offer
      <4> HIDE DEF offer, pending
      <4>1. QED
        BY <2>1, <3>1
    <3>2. CASE n2.lost = n.lost \cup {p}
      <4>1. p \in pending
        OBVIOUS
      <4> HIDE DEF offer, pending
      <4>2. QED
        BY <2>1, <3>2, <4>1
    <3>3. QED
      BY <1>3, <3>1, <3>2
  <2>3. QED
    BY <1>1, <2>2
<1> DEFINE rest == Without(p, reads)
<1>5. 1 \notin rest /\ Pending(rest) \subseteq Reports[n2.dev] \cap WithNew
      /\ Pending(rest) \cap n2.lost = {}
  BY <1>1, <1>2 DEF HalfBuilt
<1>6. ASSUME NEW r \in rest, NEW m \in DOMAIN Reads, Reads[m][1] = Reads[r][1],
             Reads[m][2] \in Telling, Reads[r][1] \in Refuses[n2.dev]
      PROVE  m \in rest
  <2>1. r \in reads /\ Reads[m][1] # p
    BY <1>2, <1>6
  <2>2. m \in reads
    BY <1>6, <2>1 DEF HalfBuilt
  <2>3. QED
    BY <1>2, <2>1, <2>2
<1> HIDE DEF rest
<1>7. HalfBuilt(n2, rest)
  BY <1>4, <1>5, <1>6 DEF HalfBuilt, rest
<1>8. QED
  BY <1>7 DEF rest

(* A reply that does not refuse the protocol completes it if it was the    *)
(* last one of the protocol.                                               *)
LEMMA ReadBuilds ==
    ASSUME NEW n, NEW n2, NEW reads \in SUBSET DOMAIN Reads, HalfBuilt(n, reads),
           NEW m \in reads, n.dev \in Devices,
           ~(Reads[m][1] \in Refuses[n.dev] /\ Reads[m][2] \in Telling),
           n2.dev = n.dev, n2.lost = n.lost,
           n2.od = IF Without(Reads[m][1], reads \ {m}) = reads \ {m}
                      THEN n.od \cup {Reads[m][1]} ELSE n.od
    PROVE  HalfBuilt(n2, reads \ {m})
<1> DEFINE p == Reads[m][1]
           left == reads \ {m}
<1>1. p \in Pending(reads) /\ p \in Reports[n.dev] \cap WithNew /\ p \notin n.lost
  BY DEF Pending, HalfBuilt
<1>2. \A r \in left, k \in DOMAIN Reads :
        /\ Reads[k][1] = Reads[r][1] /\ Reads[k][2] \in Telling
        /\ Reads[r][1] \in Refuses[n.dev]
        => k \in left
  BY DEF HalfBuilt
<1>3. CASE Without(p, left) = left
  <2>1. \A k \in left : Reads[k][1] # p
    BY <1>3 DEF Without
  <2>2. Pending(left) = Pending(reads) \ {p}
    BY <2>1 DEF Pending
  <2>3. p \notin Refuses[n.dev]
    <3> SUFFICES ASSUME p \in Refuses[n.dev]
                 PROVE  FALSE
      OBVIOUS
    <3>1. PICK k \in DOMAIN Reads : Reads[k][1] = p /\ Reads[k][2] \in Telling
      BY <1>1, ReadsTell
    <3>2. k \in reads
      BY <3>1 DEF HalfBuilt
    <3>3. k # m
      BY <3>1
    <3>4. QED
      BY <2>1, <3>1, <3>2, <3>3
  <2>4. p \in Offer[n.dev]
    BY <1>1, <2>3, Classes DEF Offer
  <2>5. n2.od = (Offer[n.dev] \ n.lost) \ Pending(left)
    BY <1>1, <1>3, <2>2, <2>4 DEF HalfBuilt
  <2> HIDE DEF p, left
  <2>6. QED
    BY <1>2, <2>2, <2>5 DEF HalfBuilt, left
<1>4. CASE Without(p, left) # left
  <2>1. PICK k \in left : Reads[k][1] = p
    BY <1>4 DEF Without
  <2>2. Pending(left) = Pending(reads)
    BY <2>1 DEF Pending
  <2>3. n2.od = n.od
    BY <1>4
  <2> HIDE DEF p, left
  <2>4. QED
    BY <1>2, <2>2, <2>3 DEF HalfBuilt, left
<1>5. QED
  BY <1>3, <1>4

LEMMA ProceedBuilt ==
    ASSUME TypeOK, Shape, Built, scan = "setup", NEW n \in Nodes, NEW reads,
           n.id = node[inSetup].id, n.dev = node[inSetup].dev,
           Proceed(n, reads), HalfBuilt(n, reads)
    PROVE  Built'
<1> DEFINE k == inSetup
<1>1. k \in NodeObjects /\ node[k].id \in Ids /\ node[k].dev \in Devices
  BY SetUpNode
<1>2. node' = [node EXCEPT ![k] = n] /\ plan' = reads
  BY DEF Proceed
<1>3. node'[k] = n /\ \A j \in Listed : node'[j] = node[j]
  BY <1>1, <1>2, ListedNode DEF TypeOK
<1>4. CASE reads = {}
  <2>1. nodes' = [nodes EXCEPT ![node[k].id] = k] /\ scan' = "search"
    BY <1>4 DEF Proceed
  <2>2. \A j \in Listed' : j \in Listed \/ j = k
    BY <1>1, <2>1 DEF Listed, TypeOK
  <2>3. n.od = Offer[n.dev] \ n.lost
    BY <1>4 DEF HalfBuilt, Pending
  <2>4. QED
    BY <1>3, <2>1, <2>2, <2>3 DEF Built
<1>5. CASE reads # {}
  <2>1. UNCHANGED <<nodes, scan, inSetup>>
    BY <1>5 DEF Proceed
  <2>2. Listed' = Listed
    BY <2>1 DEF Listed
  <2>3. 1 \notin plan' /\ HalfBuilt(node[inSetup], plan)'
    BY <1>2, <1>3, <2>1 DEF HalfBuilt
  <2>4. QED
    BY <1>3, <2>2, <2>3 DEF Built
<1>6. QED
  BY <1>4, <1>5

(* The other steps leave what is set up alone.                             *)
LEMMA BuiltKept ==
    ASSUME TypeOK, Shape, Built, UNCHANGED <<scan, inSetup, plan>> \/ scan' = "raised",
           Listed' \subseteq Listed,
           \A k \in NodeObjects : /\ node'[k].dev = node[k].dev /\ node'[k].od = node[k].od
                                 /\ node'[k].lost = node[k].lost
    PROVE  Built'
<1>1. \A k \in Listed' : node'[k].od = Offer[node'[k].dev] \ node'[k].lost
  BY ListedNode DEF Built
<1>2. CASE scan' = "raised"
  BY <1>1, <1>2 DEF Built
<1>3. CASE UNCHANGED <<scan, inSetup, plan>> /\ scan = "setup"
  <2>1. inSetup \in NodeObjects
    BY <1>3, SetUpNode
  <2>2. /\ node'[inSetup].dev = node[inSetup].dev /\ node'[inSetup].od = node[inSetup].od
        /\ node'[inSetup].lost = node[inSetup].lost
    BY <2>1
  <2>3. HalfBuilt(node[inSetup], plan) => HalfBuilt(node[inSetup], plan)'
    BY <1>3, <2>2 DEF HalfBuilt
  <2>4. QED
    BY <1>1, <1>3, <2>2, <2>3 DEF Built
<1>4. CASE UNCHANGED <<scan, inSetup, plan>> /\ scan # "setup"
  BY <1>1, <1>4 DEF Built
<1>5. QED
  BY <1>2, <1>3, <1>4

LEMMA ScanBuilt ==
    ASSUME TypeOK, Shape, Traffic, Built, Scan, ~Mixed'
    PROVE  Built'
<1>1. ASSUME NEW d \in Devices, Found(d)
      PROVE  Built'
  <2>1. made + 1 \in NodeObjects /\ scan = "search"
    BY <1>1, DirectoryAssumption DEF TypeOK, Found, NodeObjects
  <2>2. PICK i \in Ids : node' = [node EXCEPT ![made + 1] = NewNode(d, i)]
    BY <1>1 DEF Found
  <2>3. scan' = "setup" /\ inSetup' = made + 1 /\ plan' = {1} /\ nodes' = nodes
    BY <1>1 DEF Found
  <2>4. node'[made + 1].od = {} /\ node'[made + 1].lost = {}
    BY <2>1, <2>2 DEF TypeOK, NewNode
  <2>5. \A k \in Listed : node'[k] = node[k]
    BY <2>2, ListedNode DEF TypeOK
  <2>6. Listed' = Listed
    BY <2>3 DEF Listed
  <2>7. QED
    BY <2>3, <2>4, <2>5, <2>6 DEF Built
<1>2. CASE ScanAsk \/ EnumerateFails
  <2>1. UNCHANGED <<node, nodes, inSetup, plan>> /\ scan' \in {scan, "raised"}
    BY <1>2 DEF ScanAsk, EnumerateFails, scanner
  <2>2. Listed' = Listed
    BY <2>1 DEF Listed
  <2>3. QED
    BY <2>1, <2>2, BuiltKept
<1>3. CASE Enumerate
  <2> DEFINE d == node[inSetup].dev
             n == [node[inSetup] EXCEPT !.od = MadeAtOnce(Reports[d])]
  <2>1. scan = "setup" /\ 1 \in plan /\ Answered(inSetup, "scan")
    BY <1>3 DEF Enumerate, Enumerating
  <2>2. inSetup \in NodeObjects /\ d \in Devices /\ node[inSetup] \in Nodes
    BY <2>1, SetUpNode DEF TypeOK
  <2>3. call[inSetup].reply.dev = d
    BY <2>1, <2>2 DEF Answered, Traffic, Answers
  <2>4. Proceed(n, PlanFor(Reports[d]))
    BY <1>3, <2>3 DEF Enumerate
  <2>5. n \in Nodes /\ n.id = node[inSetup].id /\ n.dev = d
        /\ n.lost = {} /\ n.od = MadeAtOnce(Reports[d])
    BY <2>1, <2>2 DEF Built, Nodes, MadeAtOnce, Known
  <2> HIDE DEF n
  <2>6. HalfBuilt(n, PlanFor(Reports[d]))
    BY <2>2, <2>5, EnumerationBuilds
  <2>7. QED
    BY <2>1, <2>4, <2>5, <2>6, ProceedBuilt
<1>4. CASE ProtocolRead
  <2>1. PICK m \in plan :
          LET p == Reads[m][1]
              left == plan \ {m}
          IN  /\ call[inSetup].obj = Reads[m]
              /\ SettingUp /\ Answered(inSetup, "scan") /\ Matches(inSetup)
              /\ IF p \in Refuses[call[inSetup].reply.dev] /\ Reads[m][2] \in Telling
                    THEN Proceed(node[inSetup], Skip(p))
                    ELSE Proceed([node[inSetup] EXCEPT !.od =
                                    IF Without(p, left) = left THEN @ \cup {p} ELSE @],
                                 left)
    BY <1>4 DEF ProtocolRead
  <2> DEFINE d == node[inSetup].dev
             p == Reads[m][1]
             left == plan \ {m}
             n == [node[inSetup] EXCEPT !.od =
                      IF Without(p, left) = left THEN @ \cup {p} ELSE @]
  <2>2. scan = "setup" /\ 1 \notin plan /\ HalfBuilt(node[inSetup], plan)
    BY <2>1 DEF SettingUp, Built
  <2>3. inSetup \in NodeObjects /\ d \in Devices /\ node[inSetup] \in Nodes
        /\ p \in WithNew /\ plan \in SUBSET DOMAIN Reads
    BY <2>2, SetUpNode, ReadsOfClasses DEF TypeOK
  <2>4. call[inSetup].reply.dev = d
    BY <2>1, <2>3 DEF Answered, Traffic, Answers
  <2>5. n \in Nodes /\ n.id = node[inSetup].id /\ n.dev = d
        /\ n.lost = node[inSetup].lost
        /\ n.od = IF Without(p, left) = left THEN node[inSetup].od \cup {p}
                  ELSE node[inSetup].od
    BY <2>3 DEF Nodes, Known
  <2>6. CASE p \in Refuses[d] /\ Reads[m][2] \in Telling
    <3>1. Proceed(node[inSetup], Without(p, plan))
      BY <2>1, <2>4, <2>6 DEF Skip
    <3>2. p \in Pending(plan)
      BY DEF Pending
    <3>3. HalfBuilt(node[inSetup], Without(p, plan))
      <4> HIDE DEF p
      <4>1. QED
        BY <2>2, <2>3, <2>6, <3>2, SkipBuilds
    <3>4. QED
      BY <2>2, <2>3, <3>1, <3>3, ProceedBuilt
  <2>7. CASE ~(p \in Refuses[d] /\ Reads[m][2] \in Telling)
    <3>1. Proceed(n, left)
      BY <2>1, <2>4, <2>7
    <3> HIDE DEF n
    <3>2. HalfBuilt(n, left)
      BY <2>2, <2>3, <2>5, <2>7, ReadBuilds
    <3> HIDE DEF left, p
    <3>3. QED
      BY <2>2, <2>5, <3>1, <3>2, ProceedBuilt
  <2>8. QED
    BY <2>6, <2>7
<1>5. CASE ProtocolFails
  <2> DEFINE p == call[inSetup].obj[1]
             n == [node[inSetup] EXCEPT !.lost = @ \cup {p}]
  <2>1. scan = "setup" /\ 1 \notin plan /\ Proceed(n, Without(p, plan))
    BY <1>5 DEF ProtocolFails, SettingUp, Skip
  <2>2. inSetup \in NodeObjects /\ call[inSetup].by = "scan"
        /\ node[inSetup] \in Nodes
    BY <1>5, SetUpNode, <2>1 DEF TypeOK, ProtocolFails, Answered, TimesOut, Waits
  <2>3. p \in WithNew /\ p \in Pending(plan)
    BY <2>1, <2>2, ReadsOfClasses DEF TypeOK, Shape, Owned, Pending
  <2>4. n \in Nodes /\ n.id = node[inSetup].id /\ n.dev = node[inSetup].dev
        /\ n.od = node[inSetup].od /\ n.lost = node[inSetup].lost \cup {p}
    BY <2>2, <2>3 DEF Nodes
  <2>5. HalfBuilt(node[inSetup], plan)
    BY <2>1 DEF Built
  <2> HIDE DEF n, p
  <2>6. HalfBuilt(n, Without(p, plan))
    BY <2>3, <2>4, <2>5, SkipBuilds
  <2>7. QED
    BY <2>1, <2>4, <2>6, ProceedBuilt
<1>6. QED
  BY <1>1, <1>2, <1>3, <1>4, <1>5 DEF Scan

(* Remembering what was read, and taking a node off the list.              *)
LEMMA RememberBuilt ==
    ASSUME TypeOK, Shape, Built, UNCHANGED scanner,
           UNCHANGED node \/ \E k \in NodeObjects : Remember(k),
           UNCHANGED nodes \/ \E i \in Ids : nodes' = [nodes EXCEPT ![i] = 0]
    PROVE  Built'
<1>1. \A k \in NodeObjects : /\ node'[k].dev = node[k].dev /\ node'[k].od = node[k].od
                            /\ node'[k].lost = node[k].lost
  BY DEF Remember, TypeOK, Nodes
<1>2. Listed' \subseteq Listed
  BY DEF Listed, TypeOK
<1>3. QED
  BY <1>1, <1>2, BuiltKept DEF scanner

LEMMA BuiltStep ==
    ASSUME TypeOK, Shape, Traffic, Built, [Next]_vars, ~Mixed'
    PROVE  Built'
<1>1. CASE UNCHANGED vars
  BY <1>1, RememberBuilt DEF vars
<1>2. CASE Receive
  BY <1>2, RememberBuilt DEF Receive, RxTake, RxGive, RxCrash
<1>3. CASE Scan
  BY <1>3, ScanBuilt
<1>4. CASE Ping
  <2>1. CASE PingRound
    BY <2>1, RememberBuilt DEF PingRound
  <2>2. ASSUME NEW k \in NodeObjects,
               PingAsk(k) \/ PingFromCache(k) \/ PingAnswered(k) \/ PingFails(k)
        PROVE  Built'
    BY <2>2, RememberBuilt DEF PingAsk, PingFromCache, PingAnswered, PingFails
  <2>3. ASSUME NEW k \in NodeObjects, PingTimesOut(k)
        PROVE  Built'
    <3>1. k \in todo
      BY <2>3 DEF PingTimesOut, TimesOut, Waits, Shape, Owned
    <3>2. node[k].id \in Ids
      BY <3>1, PingNode
    <3>3. QED
      BY <2>3, <3>2, RememberBuilt DEF PingTimesOut
  <2>4. QED
    BY <1>4, <2>1, <2>2, <2>3 DEF Ping
<1>5. CASE StatusStarts \/ StatusGoes
  <2>1. CASE StatusStarts \/ StatusAsk \/ StatusFails
    BY <2>1, RememberBuilt DEF StatusStarts, StatusAsk, StatusFails
  <2>2. CASE StatusRead
    BY <2>2, StatusNode, RememberBuilt DEF StatusRead
  <2>3. QED
    BY <1>5, <2>1, <2>2 DEF StatusGoes
<1>6. CASE Bus
  BY <1>6, RememberBuilt DEF Bus, Lose, Leave, Join, Expire
<1>7. QED
  BY <1>1, <1>2, <1>3, <1>4, <1>5, <1>6 DEF Next

-----------------------------------------------------------------------------
LEMMA InitIInv ==
    ASSUME Init
    PROVE  IInv
<1>1. Traffic /\ Current /\ Whole
  BY DirectoryAssumption DEF Init, Traffic, Current, Whole, UnderWayNow, NoCall
<1>2. Listed = {}
  BY DEF Init, Listed
<1>3. Built
  BY <1>2 DEF Init, Built
<1>4. QED
  BY <1>1, <1>3, InitShape DEF IInv

LEMMA IInvStep == IInv /\ [Next]_vars => IInv'
<1> SUFFICES ASSUME IInv, [Next]_vars
             PROVE  IInv'
  OBVIOUS
<1>1. TypeOK /\ Shape /\ TypeOK' /\ Shape'
  BY TypeStep, ShapeStep DEF IInv
<1>2. ASSUME ~Mixed'
      PROVE  Traffic' /\ Current' /\ Whole' /\ Built'
  <2>1. Traffic /\ Current /\ Whole /\ Built
    BY <1>1, <1>2, MixedStays DEF IInv
  <2>2. QED
    BY <1>1, <1>2, <2>1, TrafficStep, CurrentStep, BuiltStep
<1>3. QED
  BY <1>1, <1>2 DEF IInv

(* The receive thread survives: a reply that is under way belongs to a     *)
(* node object that stays where it is until the reply has come.            *)
THEOREM ReceiverAlwaysSurvives == Spec => []ReceiverSurvives
<1>1. IInv => ReceiverSurvives
  BY DEF IInv, Traffic, ReceiverSurvives
<1>2. QED
  BY <1>1, InitIInv, IInvStep, PTL DEF Spec

(* What is listed has every object its device offers but those lost.       *)
THEOREM FailuresAlwaysContained == Spec => []FailuresAreContained
<1>1. IInv => FailuresAreContained
  BY DEF IInv, Built, FailuresAreContained
<1>2. QED
  BY <1>1, InitIInv, IInvStep, PTL DEF Spec

(* What is cached for a node is what its device runs.                      *)
THEOREM InfoAlwaysCurrent == Spec => []InfoIsCurrent
<1>1. ASSUME IInv
      PROVE  InfoIsCurrent
  <2>1. \A k \in Listed : k \in 1..made /\ AboutNow(k)
    BY <1>1, ListedNode DEF IInv, AboutNow, TypeOK, NodeObjects
  <2>2. QED
    BY <1>1, <2>1 DEF IInv, Current, InfoIsCurrent
<1>2. QED
  BY <1>1, InitIInv, IInvStep, PTL DEF Spec

(* What one node object has collected is of one device and firmware.       *)
THEOREM InfoAlwaysOfOneFirmware == Spec => []InfoIsOfOneFirmware
<1>1. IInv => InfoIsOfOneFirmware
  BY DEF IInv, Whole, Seen, InfoIsOfOneFirmware
<1>2. QED
  BY <1>1, InitIInv, IInvStep, PTL DEF Spec

-----------------------------------------------------------------------------
(* The list implements module Inventory.                                   *)
LEMMA MixedOnly ==
    ASSUME TypeOK, Shape, [Next]_vars
    PROVE  Mixed' \in {Mixed, TRUE}
<1>1. TypeOK'
  BY TypeStep
<1>2. Mixed \in BOOLEAN /\ Mixed' \in BOOLEAN
  BY <1>1 DEF Mixed, TypeOK
<1>3. QED
  BY <1>2, MixedStays

(* Steps that leave the list alone.                                        *)
LEMMA ListKept ==
    ASSUME TypeOK, Shape, nodes' = nodes,
           \A k \in Listed : node'[k].dev = node[k].dev /\ node'[k].od = node[k].od
    PROVE  [i \in Ids |-> Entry(nodes[i])]' = [i \in Ids |-> Entry(nodes[i])]
<1>1. \A i \in Ids : Entry(nodes[i])' = Entry(nodes[i])
  BY DEF Entry, Listed, NoEntry
<1>2. QED
  BY <1>1

LEMMA Removes ==
    ASSUME TypeOK, Shape, [Next]_vars, NEW k \in todo,
           nodes' = [nodes EXCEPT ![node[k].id] = 0], node' = node
    PROVE  Abstract!Remove(node[k].id)
<1> DEFINE i == node[k].id
           list == [j \in Ids |-> Entry(nodes[j])]
<1>1. nodes[i] = k /\ i \in Ids /\ node[k].dev \in Devices /\ k # 0
  BY PingNode DEF NodeObjects
<1>2. list[i] # NoEntry
  BY <1>1, DirectoryAssumption DEF Entry, NoEntry
<1>3. list' = [list EXCEPT ![i] = NoEntry]
  <2>1. \A j \in Ids : Entry(nodes[j])' = IF j = i THEN NoEntry ELSE Entry(nodes[j])
    BY <1>1 DEF Entry, TypeOK, NoEntry
  <2>2. QED
    BY <2>1
<1>4. QED
  BY <1>2, <1>3, MixedOnly DEF Abstract!Remove, Abstract!MixUp

LEMMA Adds ==
    ASSUME IInv, [Next]_vars, scan = "setup", NEW n \in Nodes,
           n.id = node[inSetup].id, n.dev = node[inSetup].dev, Proceed(n, {})
    PROVE  Abstract!Add(n.id)
<1> DEFINE i == n.id
           k == inSetup
           list == [j \in Ids |-> Entry(nodes[j])]
<1>0. TypeOK /\ Shape /\ IInv'
  BY IInvStep DEF IInv
<1>1. k \in NodeObjects /\ i \in Ids /\ nodes[i] = 0 /\ n.dev \in Devices /\ k # 0
  BY <1>0, SetUpNode DEF NodeObjects
<1>2. nodes' = [nodes EXCEPT ![i] = k] /\ node' = [node EXCEPT ![k] = n]
  BY DEF Proceed
<1>3. nodes'[i] = k /\ node'[k] = n
  BY <1>0, <1>1, <1>2 DEF TypeOK
<1>4. list[i] = NoEntry
  BY <1>1 DEF Entry
<1>5. list'[i] = [dev |-> n.dev, od |-> n.od]
  BY <1>1, <1>3 DEF Entry
<1>6. list'[i] \in Abstract!Entries
  <2>1. DOMAIN Offer = Devices
    BY DEF Offer
  <2>2. n.od \subseteq Known
    BY DEF Nodes
  <2>3. QED
    BY <1>1, <1>5, <2>1, <2>2 DEF Abstract!Entries
<1>7. Mixed' \/ list'[i].od \subseteq Offer[list'[i].dev]
  <2>1. SUFFICES ASSUME ~Mixed'
                 PROVE  n.od \subseteq Offer[n.dev]
    BY <1>5
  <2>2. k \in Listed'
    BY <1>1, <1>3 DEF Listed
  <2>3. QED
    BY <1>0, <1>3, <2>1, <2>2 DEF IInv, Built
<1>8. list' = [list EXCEPT ![i] = list'[i]]
  <2>1. \A j \in Ids \ {i} : Entry(nodes[j])' = Entry(nodes[j])
    <3> SUFFICES ASSUME NEW j \in Ids \ {i}
                 PROVE  Entry(nodes[j])' = Entry(nodes[j])
      OBVIOUS
    <3>1. nodes'[j] = nodes[j] /\ (nodes[j] # 0 => nodes[j] # k)
      BY <1>0, <1>1, <1>2 DEF TypeOK, Shape, ListedById
    <3>2. nodes[j] # 0 => node'[nodes[j]] = node[nodes[j]]
      BY <1>0, <1>2, <3>1 DEF TypeOK
    <3>3. QED
      BY <3>1, <3>2 DEF Entry, NoEntry
  <2>2. QED
    BY <2>1
<1>9. QED
  BY <1>0, <1>4, <1>6, <1>7, <1>8, MixedOnly DEF Abstract!Add, Abstract!MixUp

LEMMA ScanLists ==
    ASSUME IInv, [Next]_vars, Scan
    PROVE  Abstract!Next \/ [i \in Ids |-> Entry(nodes[i])]' = [i \in Ids |-> Entry(nodes[i])]
<1>0. TypeOK /\ Shape
  BY DEF IInv
<1>1. ASSUME scan = "setup", NEW n \in Nodes, NEW reads,
             n.id = node[inSetup].id, n.dev = node[inSetup].dev, Proceed(n, reads)
      PROVE  Abstract!Next \/ [i \in Ids |-> Entry(nodes[i])]' = [i \in Ids |-> Entry(nodes[i])]
  <2>1. CASE reads = {}
    <3>1. n.id \in Ids
      BY <1>0, <1>1, SetUpNode
    <3>2. QED
      BY <1>1, <2>1, <3>1, Adds DEF Abstract!Next
  <2>2. CASE reads # {}
    <3>1. nodes' = nodes /\ \A k \in Listed : node'[k] = node[k]
      BY <1>0, <1>1, <2>2, ListedNode DEF TypeOK, Proceed
    <3>2. QED
      BY <1>0, <3>1, ListKept
  <2>3. QED
    BY <2>1, <2>2
<1>2. CASE \E d \in Devices : Found(d)
  <2>1. nodes' = nodes /\ \A k \in Listed : node'[k] = node[k]
    BY <1>0, <1>2, ListedNode DEF TypeOK, Found, NodeObjects
  <2>2. QED
    BY <1>0, <2>1, ListKept
<1>3. CASE ScanAsk \/ EnumerateFails
  BY <1>0, <1>3, ListKept DEF ScanAsk, EnumerateFails
<1>4. CASE Enumerate
  <2> DEFINE n == [node[inSetup] EXCEPT !.od = MadeAtOnce(Reports[call[inSetup].reply.dev])]
  <2>1. scan = "setup" /\ Proceed(n, PlanFor(Reports[call[inSetup].reply.dev]))
    BY <1>4 DEF Enumerate, Enumerating
  <2>2. n \in Nodes /\ n.id = node[inSetup].id /\ n.dev = node[inSetup].dev
    BY <1>0, <2>1, SetUpNode, NodeWithObjects
  <2> HIDE DEF n
  <2>3. QED
    BY <1>1, <2>1, <2>2
<1>5. CASE ProtocolRead
  <2>1. PICK m \in plan :
          /\ SettingUp
          /\ LET p == Reads[m][1]
                 left == plan \ {m}
             IN  \/ Proceed(node[inSetup], Skip(p))
                 \/ Proceed([node[inSetup] EXCEPT !.od =
                       IF Without(p, left) = left THEN @ \cup {p} ELSE @], left)
    BY <1>5 DEF ProtocolRead
  <2>2. node[inSetup] \in Nodes /\ scan = "setup" /\ Reads[m][1] \in WithNew
    BY <1>0, <2>1, SetUpNode, ReadsOfClasses DEF TypeOK, SettingUp
  <2> DEFINE p == Reads[m][1]
             left == plan \ {m}
             n == [node[inSetup] EXCEPT !.od =
                      IF Without(p, left) = left THEN @ \cup {p} ELSE @]
  <2>3. n \in Nodes /\ n.id = node[inSetup].id /\ n.dev = node[inSetup].dev
    BY <2>2 DEF Nodes, Known
  <2>4. Proceed(node[inSetup], Skip(p)) \/ Proceed(n, left)
    BY <2>1
  <2> HIDE DEF n, left, p
  <2>5. QED
    BY <1>1, <2>2, <2>3, <2>4
<1>6. CASE ProtocolFails
  <2> DEFINE p == call[inSetup].obj[1]
             n == [node[inSetup] EXCEPT !.lost = @ \cup {p}]
  <2>1. scan = "setup" /\ 1 \notin plan /\ Proceed(n, Skip(p))
    BY <1>6 DEF ProtocolFails, SettingUp
  <2>2. inSetup \in NodeObjects /\ call[inSetup].by = "scan"
    BY <1>0, <1>6, SetUpNode, <2>1 DEF ProtocolFails, Answered, TimesOut, Waits
  <2>3. p \in WithNew
    BY <1>0, <2>1, <2>2, ReadsOfClasses DEF TypeOK, Shape, Owned
  <2>4. n \in Nodes /\ n.id = node[inSetup].id /\ n.dev = node[inSetup].dev
    BY <1>0, <2>2, <2>3, NodeWithLoss
  <2> HIDE DEF n, p
  <2>5. QED
    BY <1>1, <2>1, <2>4
<1>7. QED
  BY <1>2, <1>3, <1>4, <1>5, <1>6 DEF Scan

LEMMA StepLists ==
    ASSUME IInv, [Next]_vars
    PROVE  Abstract!Next \/ [i \in Ids |-> Entry(nodes[i])]' = [i \in Ids |-> Entry(nodes[i])]
<1>0. TypeOK /\ Shape
  BY DEF IInv
<1>1. ASSUME NEW k \in NodeObjects, Remember(k)
      PROVE  \A j \in Listed : node'[j].dev = node[j].dev /\ node'[j].od = node[j].od
  BY <1>0, <1>1, ListedNode DEF TypeOK, Nodes, Remember
<1>2. CASE Receive \/ Bus \/ UNCHANGED vars
  <2>1. UNCHANGED <<node, nodes>>
    BY <1>2 DEF Receive, RxTake, RxGive, RxCrash, Bus, Lose, Leave, Join, Expire, vars
  <2>2. QED
    BY <1>0, <2>1, ListKept
<1>3. CASE Scan
  BY <1>3, ScanLists
<1>4. CASE Ping
  <2>1. CASE PingRound
    BY <1>0, <2>1, ListKept DEF PingRound
  <2>2. ASSUME NEW k \in NodeObjects, PingAsk(k) \/ PingFromCache(k) \/ PingFails(k)
        PROVE  [i \in Ids |-> Entry(nodes[i])]' = [i \in Ids |-> Entry(nodes[i])]
    BY <1>0, <2>2, ListKept DEF PingAsk, PingFromCache, PingFails
  <2>3. ASSUME NEW k \in NodeObjects, PingAnswered(k)
        PROVE  [i \in Ids |-> Entry(nodes[i])]' = [i \in Ids |-> Entry(nodes[i])]
    BY <1>0, <1>1, <2>3, ListKept DEF PingAnswered
  <2>4. ASSUME NEW k \in NodeObjects, PingTimesOut(k)
        PROVE  Abstract!Next
    <3>1. k \in todo
      BY <1>0, <2>4 DEF PingTimesOut, TimesOut, Waits, Shape, Owned
    <3>2. Abstract!Remove(node[k].id) /\ node[k].id \in Ids
      BY <1>0, <2>4, <3>1, PingNode, Removes DEF PingTimesOut
    <3>3. QED
      BY <3>2 DEF Abstract!Next
  <2>5. QED
    BY <1>4, <2>1, <2>2, <2>3, <2>4 DEF Ping
<1>5. CASE StatusStarts \/ StatusAsk \/ StatusFails
  BY <1>0, <1>5, ListKept DEF StatusStarts, StatusAsk, StatusFails
<1>6. CASE StatusRead
  BY <1>0, <1>1, <1>6, StatusNode, ListKept DEF StatusRead
<1>7. QED
  BY <1>2, <1>3, <1>4, <1>5, <1>6 DEF Next, StatusGoes

(* Every list of nodes the server ever has is one module Inventory allows. *)
THEOREM DirectoryImplementsInventory == Spec => ImplementsInventory
<1>1. Init => Abstract!Init
  BY DEF Init, Abstract!Init, Entry, Mixed
<1>2. IInv /\ [Next]_vars =>
        [Abstract!Next]_<<[i \in Ids |-> Entry(nodes[i])], Mixed>>
  <2>1. ASSUME IInv, [Next]_vars
        PROVE  Abstract!Next
    <3>1. Abstract!MixUp
      BY <2>1, MixedOnly DEF IInv, Abstract!MixUp
    <3>2. QED
      BY <2>1, <3>1, StepLists DEF Abstract!Next
  <2>2. QED
    BY <2>1
<1>3. QED
  BY <1>1, <1>2, InitIInv, IInvStep, PTL DEF Spec, ImplementsInventory, Abstract!Spec

=============================================================================
