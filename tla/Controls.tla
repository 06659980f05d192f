------------------------------ MODULE Controls ------------------------------
(***************************************************************************)
(* The controls of one node as its users see them: the REST handlers       *)
(* set_pin and toggle_locator and the status stream of LXAIOBusServer      *)
(* (lxa_iobus/server/server.py), the ping that refreshes the cached        *)
(* locator state (LxaBaseNode.ping, LxaNetwork.lss_ping), and the objects  *)
(* Outputs and Locator (lxa_iobus/node/object_directory.py) they all use.  *)
(*                                                                         *)
(* An SDO exchange has two steps here, the request that the node carries   *)
(* out and the reply that its caller resumes with; the lock of the node    *)
(* lets one exchange go on at a time, in any order of the waiters (module  *)
(* SdoClient has the exchange itself).  The node is external: it has one   *)
(* register of outputs, a locator LED and a button that toggles the LED.   *)
(***************************************************************************)
EXTENDS Integers

CONSTANTS
    Requests,     \* REST requests that can be under way at one time
    Pins,         \* output pins of the register
    NoOne,        \* the lock is free
    MaxCommands,  \* bound: commands of users
    MaxUpsets     \* bound: presses of the locator button and lost frames

ASSUME ControlsAssumption ==
    /\ {"ping", "stream"} \cap Requests = {}
    /\ NoOne \notin Requests \cup Pins \cup {"ping", "stream"}
    /\ MaxCommands \in Nat /\ MaxUpsets \in Nat

Callers == Requests \cup {"ping", "stream"}

VARIABLES
    outputs,  \* the output pins
    led,      \* the locator LED
    listed,   \* the node is in LxaNetwork.nodes
    locator,  \* LxaBaseNode.locator_state
    busy,     \* whose exchange is under way
    reply,    \* what comes back: the register, the LED state, or nothing
    req,      \* req[r]: the next exchange of request r, with its locals
    sampled,  \* the locator state the stream has taken, if it is at it
    page,     \* prev_data of the stream, which is what the page shows
    last,     \* last[p]: the last state pin p was set to
    unsure,   \* nobody can know the LED: pressed, or a reply lost, since
    commands, presses, losses

node    == <<outputs, led, last, unsure>>
lock    == <<busy, reply>>
stream  == <<sampled, page>>
bounds  == <<commands, presses, losses>>
vars == <<node, listed, locator, lock, req, stream, bounds>>

Message(l, o) == [locator |-> l, outputs |-> o]
Error == [locator |-> FALSE, outputs |-> [p \in {} |-> FALSE]]
Messages == [locator: BOOLEAN, outputs: [Pins -> BOOLEAN]] \cup {Error}

Idle == [at |-> "idle", pin |-> NoOne, want |-> FALSE]

NoPins == [p \in Pins |-> FALSE]
Reply(o, l) == [lost |-> FALSE, outputs |-> o, led |-> l]
Done == Reply(NoPins, FALSE)
Lost == [Done EXCEPT !.lost = TRUE]

Init ==
    /\ outputs \in [Pins -> BOOLEAN] /\ led \in BOOLEAN
    /\ listed = TRUE /\ locator = FALSE
    /\ busy = NoOne /\ reply = Done
    /\ req = [r \in Requests |-> Idle]
    /\ sampled = {} /\ page = Error
    /\ last = outputs /\ unsure = TRUE
    /\ commands = 0 /\ presses = 0 /\ losses = 0

-----------------------------------------------------------------------------
(* Exchanges.                                                              *)

NodeIs(newOutputs, newLed, newLast, newUnsure) ==
    /\ outputs' = newOutputs /\ led' = newLed
    /\ last' = newLast /\ unsure' = newUnsure

(* The lock is free, the request of c reaches the node and its answer is   *)
(* on the way; or the request, or the answer, is lost.                     *)
Ask(c, does, answer) ==
    /\ busy = NoOne /\ busy' = c
    /\ \/ does /\ reply' = answer /\ UNCHANGED losses
       \/ /\ presses + losses < MaxUpsets /\ losses' = losses + 1
          /\ reply' = Lost
          /\ does \/ UNCHANGED node
    /\ UNCHANGED <<commands, presses>>

Read(c, answer) == Ask(c, UNCHANGED node, answer)

(* The caller resumes: Answered with the reply, Failed on a TimeoutError.  *)
Resume(c)   == busy = c /\ busy' = NoOne /\ reply' = Done
Answered(c) == Resume(c) /\ ~reply.lost
Failed(c)   == Resume(c) /\ reply.lost

GoTo(r, stage, p, w) ==
    req' = [req EXCEPT ![r] = [at |-> stage, pin |-> p, want |-> w]]
End(r) == req' = [req EXCEPT ![r] = Idle]

-----------------------------------------------------------------------------
(* set_pin: Outputs.set_high, set_low and toggle.                          *)

SetPin(r, p, value) ==
    /\ req[r].at = "idle" /\ listed
    /\ commands < MaxCommands /\ commands' = commands + 1
    /\ GoTo(r, IF value = "toggle" THEN "get" ELSE "set", p, value = "high")
    /\ UNCHANGED <<node, listed, locator, lock, stream, presses, losses>>

ToggleGets(r) ==
    /\ req[r].at = "get" /\ Read(r, Reply(outputs, FALSE))
    /\ UNCHANGED <<listed, locator, req, stream>>

(* Mutant: the inverse is not kept for a pin.                              *)
ToggleForgetsPin(r) ==
    /\ req[r].at = "get"
    /\ \/ /\ Answered(r)
          /\ GoTo(r, "invert", NoOne, ~reply.outputs[req[r].pin])
       \/ Failed(r) /\ End(r)
    /\ UNCHANGED <<node, listed, locator, stream, bounds>>

ToggleGot(r) ==
    /\ req[r].at = "get"
    /\ \/ /\ Answered(r)
          /\ LET p == req[r].pin IN GoTo(r, "invert", p, ~reply.outputs[p])
       \/ Failed(r) /\ End(r)
    /\ UNCHANGED <<node, listed, locator, stream, bounds>>

(* The register takes the state of a pin whose mask bit is set.            *)
Written(masked, value) ==
    [p \in Pins |-> IF p \in masked THEN value[p] ELSE outputs[p]]

(* Mutant: the mask bits of all pins are set.                              *)
MaskEveryPin(p) == Pins

Mask(p) == {p}

SetData(r) ==
    LET p == req[r].pin
        command == [q \in Pins |-> q = p /\ req[r].want] IN
    /\ req[r].at \in {"set", "invert"}
    /\ Ask(r, NodeIs(Written(Mask(p), command), led,
                     [last EXCEPT ![p] = req[r].want], unsure), Done)
    /\ UNCHANGED <<listed, locator, req, stream>>

PinIsSet(r) ==
    /\ req[r].at \in {"set", "invert"} /\ Resume(r) /\ End(r)
    /\ UNCHANGED <<node, listed, locator, stream, bounds>>

-----------------------------------------------------------------------------
(* toggle_locator and set_locator_state: the new state comes from the      *)
(* cached one, and is cached when the node has confirmed it.               *)

(* Mutant: the new state is cached before it is written.                   *)
ToggleLocatorEagerly(r) ==
    /\ req[r].at = "idle" /\ listed
    /\ commands < MaxCommands /\ commands' = commands + 1
    /\ GoTo(r, "locator", NoOne, ~locator)
    /\ locator' = ~locator
    /\ UNCHANGED <<node, listed, lock, stream, presses, losses>>

ToggleLocator(r) ==
    /\ req[r].at = "idle" /\ listed
    /\ commands < MaxCommands /\ commands' = commands + 1
    /\ GoTo(r, "locator", NoOne, ~locator)
    /\ UNCHANGED <<node, listed, locator, lock, stream, presses, losses>>

SetLocator(r) ==
    /\ req[r].at = "locator"
    /\ Ask(r, NodeIs(outputs, req[r].want, last, FALSE), Done)
    /\ UNCHANGED <<listed, locator, req, stream>>

LocatorIsSet(r) ==
    /\ req[r].at = "locator" /\ End(r)
    /\ \/ Answered(r) /\ locator' = req[r].want /\ UNCHANGED unsure
       \/ Failed(r) /\ UNCHANGED locator /\ unsure' = TRUE
    /\ UNCHANGED <<outputs, led, last, listed, stream, bounds>>

-----------------------------------------------------------------------------
(* lss_ping: a node with a locator is pinged by reading it.                *)

Ping ==
    /\ listed
    /\ Ask("ping", NodeIs(outputs, led, last, FALSE),
           Reply(NoPins, led))
    /\ UNCHANGED <<listed, locator, req, stream>>

Pinged ==
    /\ \/ Answered("ping") /\ locator' = reply.led /\ UNCHANGED listed
       \/ Failed("ping") /\ listed' = FALSE /\ UNCHANGED locator
    /\ UNCHANGED <<node, req, stream, bounds>>

(* Somebody presses the button of the node.                                *)
Press ==
    /\ presses + losses < MaxUpsets /\ presses' = presses + 1
    /\ NodeIs(outputs, ~led, last, TRUE)
    /\ UNCHANGED <<listed, locator, lock, req, stream, commands, losses>>

-----------------------------------------------------------------------------
(* The stream: _get_pin_info_once takes the cached locator state, awaits   *)
(* the outputs, and push sends what differs from the last message.         *)

(* Mutant: messages are compared by their locator state.                   *)
PushOnLocator(m) ==
    IF m.locator = page.locator THEN UNCHANGED page ELSE page' = m

Push(m) == IF m = page THEN UNCHANGED page ELSE page' = m

StreamSamples ==
    /\ sampled = {} /\ listed /\ sampled' = {locator}
    /\ UNCHANGED <<node, listed, locator, lock, req, page, bounds>>

StreamReads ==
    /\ sampled # {} /\ Read("stream", Reply(outputs, FALSE))
    /\ UNCHANGED <<listed, locator, req, stream>>

StreamPushes ==
    /\ \/ /\ Answered("stream")
          /\ \E l \in sampled : Push(Message(l, reply.outputs))
       \/ Failed("stream") /\ Push(Error)
    /\ sampled' = {}
    /\ UNCHANGED <<node, listed, locator, req, bounds>>

(* The node is not listed any more.                                        *)
StreamMisses ==
    /\ sampled = {} /\ ~listed /\ Push(Error)
    /\ UNCHANGED <<node, listed, locator, lock, req, sampled, bounds>>

-----------------------------------------------------------------------------
Handle(r) ==
    \/ ToggleGets(r) \/ ToggleGot(r) \/ SetData(r) \/ PinIsSet(r)
    \/ SetLocator(r) \/ LocatorIsSet(r)

Command(r) ==
    \/ \E p \in Pins, v \in {"high", "low", "toggle"} : SetPin(r, p, v)
    \/ ToggleLocator(r)

Next ==
    \/ \E r \in Requests : Command(r) \/ Handle(r)
    \/ Ping \/ Pinged \/ Press
    \/ StreamSamples \/ StreamReads \/ StreamPushes \/ StreamMisses

Spec == Init /\ [][Next]_vars

(* Time-outs end every exchange, and the lock passes on to all that wait.  *)
FairSpec ==
    /\ Spec
    /\ \A r \in Requests : SF_vars(Handle(r))
    /\ SF_vars(Ping) /\ WF_vars(Pinged)
    /\ WF_vars(StreamSamples) /\ SF_vars(StreamReads)
    /\ WF_vars(StreamPushes) /\ WF_vars(StreamMisses)

-----------------------------------------------------------------------------
TypeOK ==
    /\ outputs \in [Pins -> BOOLEAN] /\ led \in BOOLEAN
    /\ listed \in BOOLEAN /\ locator \in BOOLEAN
    /\ busy \in Callers \cup {NoOne}
    /\ reply \in [lost: BOOLEAN, outputs: [Pins -> BOOLEAN], led: BOOLEAN]
    /\ req \in [Requests ->
                   [at: {"idle", "get", "set", "invert", "locator"},
                    pin: Pins \cup {NoOne}, want: BOOLEAN]]
    /\ \A r \in Requests :
          req[r].at \in {"get", "set", "invert"} <=> req[r].pin \in Pins
    /\ sampled \in SUBSET BOOLEAN /\ page \in Messages
    /\ last \in [Pins -> BOOLEAN] /\ unsure \in BOOLEAN
    /\ commands \in Nat /\ presses \in Nat /\ losses \in Nat

(* Once the node has told its locator state to a ping, or confirmed a new  *)
(* one, the cached state is the true one until the button is pressed or a  *)
(* confirmation gets lost, however pings and commands interleave           *)
(* (base_node.py:28-48, server.py:707-721).                                *)
LocatorIsCached == busy = NoOne /\ listed /\ ~unsure => locator = led

(* A command for one pin never disturbs another pin, whatever commands run *)
(* at the same time (set_pin, object_directory.py:566-573).                *)
PinsKeepLastCommand == outputs = last

(* Toggling a pin inverts it (toggle, object_directory.py:581-585).        *)
ToggleInverts ==
    [][\A r \in Requests :
          req[r].at = "invert" /\ busy # r /\ busy' = r /\ ~reply'.lost
              => outputs'[req[r].pin] = ~outputs[req[r].pin]]_vars

(* When users leave the node alone, its web page comes to show the true    *)
(* state of its outputs and of its locator, and goes on to show it, as     *)
(* long as the node is listed (base_node.py:28-48, server.py:62-81,        *)
(* 483-572).                                                               *)
PageAgrees == <>[](listed => page = Message(led, outputs))

=============================================================================
