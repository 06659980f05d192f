--------------------------- MODULE ControlsProofs ---------------------------
(***************************************************************************)
(* Proofs about module Controls, for any number of requests and pins and   *)
(* for every bound.                                                        *)
(*                                                                         *)
(* LocatorIsCached speaks of the moments when no exchange is under way.    *)
(* To be inductive it has to say as well what is on its way: what a ping   *)
(* has been told, and what a request has had confirmed, is the state of    *)
(* the LED, and any other exchange leaves the cached state alone.          *)
(***************************************************************************)
EXTENDS Controls, TLAPS

AtLocator(r) == req[r].at = "locator"

Known ==
    listed /\ ~unsure =>
        /\ busy = "ping" => reply.lost \/ reply.led = led
        /\ \A r \in Requests :
              busy = r /\ AtLocator(r) => reply.lost \/ req[r].want = led
        /\ \/ busy = "ping"
           \/ \E r \in Requests : busy = r /\ AtLocator(r)
           \/ locator = led

Held == \A r \in Requests : busy = r => req[r].at # "idle"

CInv == TypeOK /\ PinsKeepLastCommand /\ Held /\ Known

-----------------------------------------------------------------------------
LEMMA ConstantRecords ==
    /\ Idle.at = "idle" /\ Idle.pin = NoOne /\ Idle.want = FALSE
    /\ Idle \in [at: {"idle", "get", "set", "invert", "locator"},
                 pin: Pins \cup {NoOne}, want: BOOLEAN]
    /\ Done \in [lost: BOOLEAN, outputs: [Pins -> BOOLEAN], led: BOOLEAN]
    /\ Lost \in [lost: BOOLEAN, outputs: [Pins -> BOOLEAN], led: BOOLEAN]
    /\ Done.lost = FALSE /\ Lost.lost = TRUE
    /\ Error \in Messages
  BY DEF Idle, Done, Lost, Reply, NoPins, Error, Messages

LEMMA CInit == Init => CInv
  <1> SUFFICES ASSUME Init PROVE CInv
    OBVIOUS
  <1> USE ControlsAssumption, ConstantRecords DEF Init
  <1>1. TypeOK
    BY DEF TypeOK
  <1>2. PinsKeepLastCommand /\ Held /\ Known
    BY DEF PinsKeepLastCommand, Held, Known, AtLocator
  <1> QED
    BY <1>1, <1>2 DEF CInv

(* A step of request r moves no other request.                             *)
LEMMA OthersStay ==
    ASSUME CInv, NEW r \in Requests,
           NEW k \in [at: {"idle", "get", "set", "invert", "locator"},
                      pin: Pins \cup {NoOne}, want: BOOLEAN],
           k.at \in {"get", "set", "invert"} <=> k.pin \in Pins,
           req' = [req EXCEPT ![r] = k]
    PROVE  /\ req' \in [Requests ->
                           [at: {"idle", "get", "set", "invert", "locator"},
                            pin: Pins \cup {NoOne}, want: BOOLEAN]]
           /\ \A q \in Requests :
                 req'[q].at \in {"get", "set", "invert"}
                     <=> req'[q].pin \in Pins
           /\ req'[r] = k
           /\ \A q \in Requests : q # r => req'[q] = req[q]
  BY DEF CInv, TypeOK

LEMMA SetPinStep ==
    ASSUME CInv, NEW r \in Requests, NEW p \in Pins,
           NEW v \in {"high", "low", "toggle"}, SetPin(r, p, v)
    PROVE  CInv'
  <1> DEFINE k == [at |-> IF v = "toggle" THEN "get" ELSE "set",
                   pin |-> p, want |-> v = "high"]
  <1>1. /\ k \in [at: {"idle", "get", "set", "invert", "locator"},
                   pin: Pins \cup {NoOne}, want: BOOLEAN]
        /\ k.at \in {"get", "set"} /\ k.pin = p
    OBVIOUS
  <1>2. req' = [req EXCEPT ![r] = k] /\ req[r].at = "idle"
    BY DEF SetPin, GoTo
  <1> HIDE DEF k
  <1>3. /\ req' \in [Requests ->
                        [at: {"idle", "get", "set", "invert", "locator"},
                         pin: Pins \cup {NoOne}, want: BOOLEAN]]
        /\ \A q \in Requests :
              req'[q].at \in {"get", "set", "invert"} <=> req'[q].pin \in Pins
        /\ req'[r] = k /\ \A q \in Requests : q # r => req'[q] = req[q]
    BY <1>1, <1>2, OthersStay
  <1>4. TypeOK'
    BY <1>3, ControlsAssumption
       DEF SetPin, CInv, TypeOK, node, lock, stream
  <1>5. busy # r
    BY <1>2 DEF CInv, Held
  <1>6. PinsKeepLastCommand' /\ Held' /\ Known'
    BY <1>1, <1>2, <1>3, <1>5
       DEF SetPin, CInv, PinsKeepLastCommand, Held, Known, AtLocator, node,
           lock, stream
  <1> QED
    BY <1>4, <1>6 DEF CInv

LEMMA ToggleLocatorStep ==
    ASSUME CInv, NEW r \in Requests, ToggleLocator(r)
    PROVE  CInv'
  <1> DEFINE k == [at |-> "locator", pin |-> NoOne, want |-> ~locator]
  <1>1. /\ k \in [at: {"idle", "get", "set", "invert", "locator"},
                   pin: Pins \cup {NoOne}, want: BOOLEAN]
        /\ k.at = "locator" /\ k.pin \notin Pins
    BY ControlsAssumption
  <1>2. req' = [req EXCEPT ![r] = k] /\ req[r].at = "idle"
    BY DEF ToggleLocator, GoTo
  <1> HIDE DEF k
  <1>3. /\ req' \in [Requests ->
                        [at: {"idle", "get", "set", "invert", "locator"},
                         pin: Pins \cup {NoOne}, want: BOOLEAN]]
        /\ \A q \in Requests :
              req'[q].at \in {"get", "set", "invert"} <=> req'[q].pin \in Pins
        /\ req'[r] = k /\ \A q \in Requests : q # r => req'[q] = req[q]
    BY <1>1, <1>2, OthersStay
  <1>4. TypeOK'
    BY <1>3, ControlsAssumption
       DEF ToggleLocator, CInv, TypeOK, node, lock, stream
  <1>5. busy # r
    BY <1>2 DEF CInv, Held
  <1>6. PinsKeepLastCommand' /\ Held' /\ Known'
    BY <1>1, <1>2, <1>3, <1>5
       DEF ToggleLocator, CInv, PinsKeepLastCommand, Held, Known, AtLocator,
           node, lock, stream
  <1> QED
    BY <1>4, <1>6 DEF CInv

(* A request that ends becomes idle.                                       *)
LEMMA Ending ==
    ASSUME CInv, NEW r \in Requests, End(r)
    PROVE  /\ req' \in [Requests ->
                           [at: {"idle", "get", "set", "invert", "locator"},
                            pin: Pins \cup {NoOne}, want: BOOLEAN]]
           /\ \A q \in Requests :
                 req'[q].at \in {"get", "set", "invert"}
                     <=> req'[q].pin \in Pins
           /\ req'[r] = Idle
           /\ \A q \in Requests : q # r => req'[q] = req[q]
  <1>1. Idle.at \in {"get", "set", "invert"} <=> Idle.pin \in Pins
    BY ConstantRecords, ControlsAssumption
  <1>2. req' = [req EXCEPT ![r] = Idle]
    BY DEF End
  <1> QED
    BY <1>1, <1>2, OthersStay, ConstantRecords

LEMMA ToggleGetsStep ==
    ASSUME CInv, NEW r \in Requests, ToggleGets(r) PROVE CInv'
  <1>1. /\ busy = NoOne /\ busy' = r /\ req[r].at = "get"
        /\ reply' = Reply(outputs, FALSE) \/ reply' = Lost
        /\ UNCHANGED <<outputs, led, last, unsure>>
        /\ UNCHANGED <<listed, locator, req, sampled, page>>
        /\ UNCHANGED <<commands, presses>>
        /\ losses' = losses \/ losses' = losses + 1
    BY DEF ToggleGets, Read, Ask, node, stream
  <1>2. reply' \in [lost: BOOLEAN, outputs: [Pins -> BOOLEAN], led: BOOLEAN]
    <2>1. Reply(outputs, FALSE)
            \in [lost: BOOLEAN, outputs: [Pins -> BOOLEAN], led: BOOLEAN]
      BY DEF Reply, CInv, TypeOK
    <2> QED
      BY <1>1, <2>1, ConstantRecords
  <1>3. TypeOK'
    BY <1>1, <1>2 DEF CInv, TypeOK, Callers
  <1>4. PinsKeepLastCommand' /\ Held' /\ Known'
    BY <1>1, ControlsAssumption
       DEF CInv, PinsKeepLastCommand, Held, Known, AtLocator
  <1> QED
    BY <1>3, <1>4 DEF CInv

LEMMA ToggleGotStep ==
    ASSUME CInv, NEW r \in Requests, ToggleGot(r) PROVE CInv'
  <1>1. /\ busy = r /\ busy' = NoOne /\ reply' = Done /\ req[r].at = "get"
        /\ UNCHANGED <<outputs, led, last, unsure>>
        /\ UNCHANGED <<listed, locator, sampled, page>>
        /\ UNCHANGED <<commands, presses, losses>>
    BY DEF ToggleGot, Answered, Failed, Resume, node, stream, bounds
  <1>2. /\ req' \in [Requests ->
                        [at: {"idle", "get", "set", "invert", "locator"},
                         pin: Pins \cup {NoOne}, want: BOOLEAN]]
        /\ \A q \in Requests :
              req'[q].at \in {"get", "set", "invert"} <=> req'[q].pin \in Pins
        /\ \A q \in Requests : q # r => req'[q] = req[q]
    <2> DEFINE p == req[r].pin
               k == [at |-> "invert", pin |-> p, want |-> ~reply.outputs[p]]
    <2>1. CASE End(r)
      BY <2>1, Ending
    <2>2. CASE req' = [req EXCEPT ![r] = k]
      <3>1. p \in Pins
        BY <1>1 DEF CInv, TypeOK
      <3>2. k \in [at: {"idle", "get", "set", "invert", "locator"},
                   pin: Pins \cup {NoOne}, want: BOOLEAN]
            /\ k.at = "invert" /\ k.pin = p
        BY <3>1 DEF CInv, TypeOK
      <3> HIDE DEF k, p
      <3> QED
        BY <2>2, <3>1, <3>2, OthersStay
    <2> QED
      BY <2>1, <2>2 DEF ToggleGot, GoTo
  <1>3. TypeOK'
    BY <1>1, <1>2, ConstantRecords DEF CInv, TypeOK
  <1>4. NoOne # "ping" /\ \A q \in Requests : q # NoOne /\ q # "ping"
    BY ControlsAssumption
  <1>5. PinsKeepLastCommand' /\ Held' /\ Known'
    BY <1>1, <1>4 DEF CInv, PinsKeepLastCommand, Held, Known, AtLocator
  <1> QED
    BY <1>3, <1>5 DEF CInv

LEMMA SetDataStep ==
    ASSUME CInv, NEW r \in Requests, SetData(r) PROVE CInv'
  <1> DEFINE p == req[r].pin
  <1>1. /\ busy = NoOne /\ busy' = r /\ req[r].at \in {"set", "invert"}
        /\ reply' = Done \/ reply' = Lost
        /\ UNCHANGED <<listed, locator, req, sampled, page>>
        /\ UNCHANGED <<commands, presses>>
        /\ losses' = losses \/ losses' = losses + 1
    BY DEF SetData, Ask, stream
  <1>2. p \in Pins /\ req[r].want \in BOOLEAN
    BY <1>1 DEF CInv, TypeOK
  <1>3. /\ outputs' \in [Pins -> BOOLEAN] /\ last' \in [Pins -> BOOLEAN]
        /\ outputs' = last' /\ led' = led /\ unsure' = unsure
    <2>1. CASE UNCHANGED node
      BY <2>1 DEF node, CInv, TypeOK, PinsKeepLastCommand
    <2>2. CASE NodeIs(Written(Mask(p), [q \in Pins |-> q = p /\ req[r].want]),
                      led, [last EXCEPT ![p] = req[r].want], unsure)
      <3> DEFINE value == [q \in Pins |-> q = p /\ req[r].want]
      <3>1. /\ outputs' = [q \in Pins |-> IF q \in {p} THEN value[q]
                                                     ELSE outputs[q]]
            /\ last' = [last EXCEPT ![p] = req[r].want]
            /\ led' = led /\ unsure' = unsure
        BY <2>2 DEF NodeIs, Written, Mask
      <3>2. last \in [Pins -> BOOLEAN] /\ outputs = last
        BY DEF CInv, TypeOK, PinsKeepLastCommand
      <3>3. \A q \in Pins : value[q] \in BOOLEAN
        OBVIOUS
      <3>4. value[p] = req[r].want
        BY <1>2
      <3> HIDE DEF value, p
      <3>5. last' \in [Pins -> BOOLEAN] /\ outputs' \in [Pins -> BOOLEAN]
        BY <1>2, <3>1, <3>2, <3>3
      <3>6. \A q \in Pins : outputs'[q] = last'[q]
        BY <1>2, <3>1, <3>2, <3>4
      <3> QED
        BY <3>1, <3>5, <3>6
    <2> QED
      BY <2>1, <2>2 DEF SetData, Ask
  <1>4. TypeOK'
    BY <1>1, <1>3, ConstantRecords DEF CInv, TypeOK, Callers
  <1>5. PinsKeepLastCommand' /\ Held' /\ Known'
    BY <1>1, <1>3, ControlsAssumption
       DEF CInv, PinsKeepLastCommand, Held, Known, AtLocator
  <1> QED
    BY <1>4, <1>5 DEF CInv

LEMMA PinIsSetStep ==
    ASSUME CInv, NEW r \in Requests, PinIsSet(r) PROVE CInv'
  <1>1. /\ busy = r /\ busy' = NoOne /\ reply' = Done
        /\ req[r].at \in {"set", "invert"}
        /\ UNCHANGED <<outputs, led, last, unsure>>
        /\ UNCHANGED <<listed, locator, sampled, page>>
        /\ UNCHANGED <<commands, presses, losses>>
    BY DEF PinIsSet, Resume, node, stream, bounds
  <1>2. /\ req' \in [Requests ->
                        [at: {"idle", "get", "set", "invert", "locator"},
                         pin: Pins \cup {NoOne}, want: BOOLEAN]]
        /\ \A q \in Requests :
              req'[q].at \in {"get", "set", "invert"} <=> req'[q].pin \in Pins
        /\ \A q \in Requests : q # r => req'[q] = req[q]
    BY Ending DEF PinIsSet
  <1>3. TypeOK'
    BY <1>1, <1>2, ConstantRecords DEF CInv, TypeOK
  <1>4. NoOne # "ping" /\ \A q \in Requests : q # NoOne /\ q # "ping"
    BY ControlsAssumption
  <1>5. PinsKeepLastCommand' /\ Held' /\ Known'
    BY <1>1, <1>4 DEF CInv, PinsKeepLastCommand, Held, Known, AtLocator
  <1> QED
    BY <1>3, <1>5 DEF CInv

LEMMA SetLocatorStep ==
    ASSUME CInv, NEW r \in Requests, SetLocator(r) PROVE CInv'
  <1>1. /\ busy = NoOne /\ busy' = r /\ AtLocator(r)
        /\ UNCHANGED <<listed, locator, req, sampled, page>>
        /\ UNCHANGED <<commands, presses>>
        /\ losses' = losses \/ losses' = losses + 1
        /\ outputs' = outputs /\ last' = last
    BY DEF SetLocator, Ask, NodeIs, AtLocator, node, stream
  <1>2. \/ led' = req[r].want /\ unsure' = FALSE /\ reply' \in {Done, Lost}
        \/ led' = led /\ unsure' = unsure /\ reply' = Lost
    <2>1. CASE NodeIs(outputs, req[r].want, last, FALSE) /\ reply' = Done
      BY <2>1 DEF NodeIs
    <2>2. CASE NodeIs(outputs, req[r].want, last, FALSE) /\ reply' = Lost
      BY <2>2 DEF NodeIs
    <2>3. CASE UNCHANGED node /\ reply' = Lost
      BY <2>3 DEF node
    <2> QED
      BY <2>1, <2>2, <2>3, Zenon DEF SetLocator, Ask
  <1> DEFINE replies == [lost: BOOLEAN, outputs: [Pins -> BOOLEAN],
                         led: BOOLEAN]
  <1>3. TypeOK'
    <2>1. req[r].want \in BOOLEAN /\ led \in BOOLEAN /\ unsure \in BOOLEAN
      BY DEF CInv, TypeOK
    <2>2. led' \in BOOLEAN /\ unsure' \in BOOLEAN
      BY <1>2, <2>1, Zenon
    <2>3. reply' \in replies
      BY <1>2, ConstantRecords
    <2> QED
      BY <1>1, <2>2, <2>3 DEF CInv, TypeOK, Callers
  <1>4. r # "ping" /\ Lost.lost = TRUE
    BY ControlsAssumption, ConstantRecords
  <1>5. PinsKeepLastCommand' /\ Held' /\ Known'
    BY <1>1, <1>2, <1>4
       DEF CInv, PinsKeepLastCommand, Held, Known, AtLocator
  <1> QED
    BY <1>3, <1>5 DEF CInv

LEMMA LocatorIsSetStep ==
    ASSUME CInv, NEW r \in Requests, LocatorIsSet(r) PROVE CInv'
  <1>1. /\ busy = r /\ busy' = NoOne /\ reply' = Done /\ AtLocator(r)
        /\ UNCHANGED <<outputs, led, last>>
        /\ UNCHANGED <<listed, sampled, page>>
        /\ UNCHANGED <<commands, presses, losses>>
        /\ \/ ~reply.lost /\ locator' = req[r].want /\ unsure' = unsure
           \/ locator' = locator /\ unsure' = TRUE
    BY DEF LocatorIsSet, Answered, Failed, Resume, AtLocator, stream, bounds
  <1>2. /\ req' \in [Requests ->
                        [at: {"idle", "get", "set", "invert", "locator"},
                         pin: Pins \cup {NoOne}, want: BOOLEAN]]
        /\ \A q \in Requests :
              req'[q].at \in {"get", "set", "invert"} <=> req'[q].pin \in Pins
        /\ \A q \in Requests : q # r => req'[q] = req[q]
    BY Ending DEF LocatorIsSet
  <1>3. TypeOK'
    BY <1>1, <1>2, ConstantRecords DEF CInv, TypeOK
  <1>4. NoOne # "ping" /\ \A q \in Requests : q # NoOne /\ q # "ping"
    BY ControlsAssumption
  <1>5. PinsKeepLastCommand' /\ Held' /\ Known'
    BY <1>1, <1>4 DEF CInv, PinsKeepLastCommand, Held, Known, AtLocator
  <1> QED
    BY <1>3, <1>5 DEF CInv

LEMMA PingStep ==
    ASSUME CInv, Ping PROVE CInv'
  <1>1. /\ busy = NoOne /\ busy' = "ping"
        /\ UNCHANGED <<outputs, led, last>>
        /\ UNCHANGED <<listed, locator, req, sampled, page>>
        /\ UNCHANGED <<commands, presses>>
        /\ losses' = losses \/ losses' = losses + 1
    BY DEF Ping, Ask, NodeIs, node, stream
  <1>2. /\ unsure' = FALSE \/ unsure' = unsure
        /\ reply' = Reply(NoPins, led) \/ reply' = Lost
    BY DEF Ping, Ask, NodeIs, node
  <1>3. /\ reply' \in [lost: BOOLEAN, outputs: [Pins -> BOOLEAN], led: BOOLEAN]
        /\ reply'.lost \/ reply'.led = led
    <2>1. CASE reply' = Lost
      BY <2>1, ConstantRecords
    <2>2. CASE reply' = Reply(NoPins, led)
      <3>1. /\ Reply(NoPins, led)
                 \in [lost: BOOLEAN, outputs: [Pins -> BOOLEAN], led: BOOLEAN]
            /\ Reply(NoPins, led).led = led
        BY DEF Reply, NoPins, CInv, TypeOK
      <3> QED
        BY <2>2, <3>1, Zenon
    <2> QED
      BY <1>2, <2>1, <2>2
  <1>4. TypeOK'
    <2>1. unsure \in BOOLEAN
      BY DEF CInv, TypeOK
    <2>2. unsure' \in BOOLEAN
      BY <1>2, <2>1, Zenon
    <2> QED
      BY <1>1, <1>3, <2>2 DEF CInv, TypeOK, Callers
  <1>5. \A q \in Requests : q # "ping"
    BY ControlsAssumption
  <1>6. PinsKeepLastCommand' /\ Held' /\ Known'
    BY <1>1, <1>2, <1>3, <1>5
       DEF CInv, PinsKeepLastCommand, Held, Known, AtLocator
  <1> QED
    BY <1>4, <1>6 DEF CInv

LEMMA PingedStep ==
    ASSUME CInv, Pinged PROVE CInv'
  <1>1. /\ busy = "ping" /\ busy' = NoOne /\ reply' = Done
        /\ UNCHANGED <<outputs, led, last, unsure>>
        /\ UNCHANGED <<req, sampled, page>>
        /\ UNCHANGED <<commands, presses, losses>>
        /\ \/ ~reply.lost /\ locator' = reply.led /\ listed' = listed
           \/ locator' = locator /\ listed' = FALSE
    BY DEF Pinged, Answered, Failed, Resume, node, stream, bounds
  <1>2. TypeOK'
    BY <1>1, ConstantRecords DEF CInv, TypeOK
  <1>3. NoOne # "ping" /\ \A q \in Requests : q # NoOne /\ q # "ping"
    BY ControlsAssumption
  <1>4. PinsKeepLastCommand' /\ Held' /\ Known'
    BY <1>1, <1>3 DEF CInv, PinsKeepLastCommand, Held, Known, AtLocator
  <1> QED
    BY <1>2, <1>4 DEF CInv

LEMMA PressStep ==
    ASSUME CInv, Press PROVE CInv'
  <1>1. /\ outputs' = outputs /\ led' = ~led /\ last' = last /\ unsure' = TRUE
        /\ UNCHANGED <<listed, locator, busy, reply, req, sampled, page>>
        /\ UNCHANGED <<commands, losses>> /\ presses' = presses + 1
    BY DEF Press, NodeIs, lock, stream
  <1>2. led' \in BOOLEAN
    BY <1>1, Zenon
  <1>3. TypeOK'
    BY <1>1, <1>2 DEF CInv, TypeOK
  <1>4. PinsKeepLastCommand' /\ Held' /\ Known'
    BY <1>1 DEF CInv, PinsKeepLastCommand, Held, Known
  <1> QED
    BY <1>3, <1>4 DEF CInv

LEMMA StreamStep ==
    ASSUME CInv, StreamSamples \/ StreamReads \/ StreamPushes \/ StreamMisses
    PROVE  CInv'
  <1>1. /\ UNCHANGED <<outputs, led, last, unsure>>
        /\ UNCHANGED <<listed, locator, req>>
        /\ UNCHANGED <<commands, presses>>
        /\ losses' = losses \/ losses' = losses + 1
    <2>1. CASE StreamSamples
      BY <2>1 DEF StreamSamples, node, bounds
    <2>2. CASE StreamReads
      BY <2>2 DEF StreamReads, Read, Ask, node
    <2>3. CASE StreamPushes
      BY <2>3 DEF StreamPushes, node, bounds
    <2>4. CASE StreamMisses
      BY <2>4 DEF StreamMisses, node, bounds
    <2> QED
      BY <2>1, <2>2, <2>3, <2>4
  <1>2. \/ busy = NoOne /\ busy' = "stream"
        \/ busy = "stream" /\ busy' = NoOne
        \/ busy' = busy /\ reply' = reply
    <2>1. CASE StreamSamples
      BY <2>1 DEF StreamSamples, lock
    <2>2. CASE StreamReads
      BY <2>2 DEF StreamReads, Read, Ask
    <2>3. CASE StreamPushes
      BY <2>3 DEF StreamPushes, Answered, Failed, Resume
    <2>4. CASE StreamMisses
      BY <2>4 DEF StreamMisses, lock
    <2> QED
      BY <2>1, <2>2, <2>3, <2>4
  <1>3. /\ reply' \in [lost: BOOLEAN, outputs: [Pins -> BOOLEAN], led: BOOLEAN]
        /\ sampled' \in SUBSET BOOLEAN /\ page' \in Messages
    <2>1. CASE StreamSamples
      BY <2>1 DEF StreamSamples, lock, CInv, TypeOK
    <2>2. CASE StreamReads
      <3>1. reply' = Reply(outputs, FALSE) \/ reply' = Lost
        BY <2>2 DEF StreamReads, Read, Ask
      <3>2. Reply(outputs, FALSE)
              \in [lost: BOOLEAN, outputs: [Pins -> BOOLEAN], led: BOOLEAN]
        BY DEF Reply, CInv, TypeOK
      <3> QED
        BY <2>2, <3>1, <3>2, ConstantRecords
           DEF StreamReads, stream, CInv, TypeOK
    <2>3. CASE StreamPushes
      <3>1. reply' = Done /\ sampled' = {}
        BY <2>3 DEF StreamPushes, Answered, Failed, Resume
      <3>2. \A l \in sampled : Message(l, reply.outputs) \in Messages
        BY DEF Message, Messages, CInv, TypeOK
      <3>3. page' \in Messages
        BY <2>3, <3>2, ConstantRecords DEF StreamPushes, Push, CInv, TypeOK
      <3> QED
        BY <3>1, <3>3, ConstantRecords
    <2>4. CASE StreamMisses
      BY <2>4, ConstantRecords DEF StreamMisses, Push, lock, CInv, TypeOK
    <2> QED
      BY <2>1, <2>2, <2>3, <2>4
  <1>4. TypeOK'
    BY <1>1, <1>2, <1>3 DEF CInv, TypeOK, Callers
  <1>5. /\ NoOne # "ping" /\ "stream" # "ping"
        /\ \A q \in Requests : q # NoOne /\ q # "ping" /\ q # "stream"
    BY ControlsAssumption
  <1>6. PinsKeepLastCommand' /\ Held' /\ Known'
    BY <1>1, <1>2, <1>5 DEF CInv, PinsKeepLastCommand, Held, Known, AtLocator
  <1> QED
    BY <1>4, <1>6 DEF CInv

-----------------------------------------------------------------------------
(* The invariant, and what follows from it.                                *)
THEOREM Invariance == Spec => []CInv
  <1>1. Init => CInv
    BY CInit
  <1>2. CInv /\ [Next]_vars => CInv'
    <2> SUFFICES ASSUME CInv, [Next]_vars PROVE CInv'
      OBVIOUS
    <2>1. CASE \E r \in Requests : Command(r)
      BY <2>1, SetPinStep, ToggleLocatorStep DEF Command
    <2>2. CASE \E r \in Requests : Handle(r)
      BY <2>2, ToggleGetsStep, ToggleGotStep, SetDataStep, PinIsSetStep,
         SetLocatorStep, LocatorIsSetStep DEF Handle
    <2>3. CASE Ping \/ Pinged \/ Press
      BY <2>3, PingStep, PingedStep, PressStep
    <2>4. CASE StreamSamples \/ StreamReads \/ StreamPushes \/ StreamMisses
      BY <2>4, StreamStep
    <2>5. CASE UNCHANGED vars
      <3>1. /\ UNCHANGED <<outputs, led, last, unsure, listed, locator>>
            /\ UNCHANGED <<busy, reply, req, sampled, page>>
            /\ UNCHANGED <<commands, presses, losses>>
        BY <2>5 DEF vars, node, lock, stream, bounds
      <3> QED
        BY <3>1 DEF CInv, TypeOK, PinsKeepLastCommand, Held, Known, AtLocator
    <2> QED
      BY <2>1, <2>2, <2>3, <2>4, <2>5 DEF Next
  <1> QED
    BY <1>1, <1>2, PTL DEF Spec

(* The controls stay well typed (server.py:483-640, 707-748).              *)
THEOREM ControlsTypeCorrect == Spec => []TypeOK
  BY Invariance, PTL DEF CInv

(* Between exchanges the cached locator state of a listed node is the true *)
(* one, unless the button was pressed or a confirmation lost since the     *)
(* last exchange about it (base_node.py:28-48, server.py:707-721).         *)
THEOREM CacheIsTrue == Spec => []LocatorIsCached
  <1>1. CInv => LocatorIsCached
    BY ControlsAssumption DEF CInv, Known, LocatorIsCached, AtLocator
  <1> QED
    BY <1>1, Invariance, PTL

(* Every pin has the state of the last command for it, whatever commands   *)
(* for other pins do (object_directory.py:566-585).                        *)
THEOREM PinsAreApart == Spec => []PinsKeepLastCommand
  BY Invariance, PTL DEF CInv

=============================================================================
