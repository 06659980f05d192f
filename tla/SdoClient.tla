------------------------------ MODULE SdoClient ------------------------------
(***************************************************************************)
(* The SDO client of one bus node: class LxaBusNode                        *)
(* (lxa_iobus/node/bus_node.py), its asyncio lock, its single pending      *)
(* future, the segmented transfers of sdo_read and sdo_write, the time-out *)
(* of _send_sdo_message, and the receive thread of LxaNetwork that         *)
(* completes the future from outside the event loop.                       *)
(*                                                                         *)
(* The SDO server in the node's firmware is external: it answers every     *)
(* request frame with one reply frame, in order, as CANopen prescribes.    *)
(*                                                                         *)
(* Two constants say what the bus may do.  MayLose: a frame may vanish     *)
(* (the send thread drops a frame on ENOBUFS, a node drops off the bus).   *)
(* MayBeLate: a reply may still be under way when its time-out fires.      *)
(***************************************************************************)
EXTENDS Integers, Sequences

CONSTANTS
    Tasks,          \* asyncio tasks that call sdo_read and sdo_write
    Objects,        \* <index, sub index> pairs of the object dictionary
    Volatile,       \* objects that the node changes by itself
    Values,         \* contents an object may hold
    Size,           \* Size[v]: the length in bytes of content v
    ExpeditedSize,  \* bytes an initiate frame carries itself (4)
    PacketSize,     \* bytes a segment frame carries (7)
    NoObject,       \* stands for the index that a segment frame lacks
    MayLose,
    MayBeLate,
    MaxInFlight     \* bound: frames under way when a new one is sent

ASSUME ConstantsAssumption ==
    /\ Tasks # {} /\ Objects # {} /\ Values # {} /\ Volatile \subseteq Objects
    /\ Size \in [Values -> Nat]
    /\ ExpeditedSize \in Nat /\ PacketSize \in Nat \ {0}
    /\ NoObject \notin Objects
    /\ MayLose \in BOOLEAN /\ MayBeLate \in BOOLEAN
    /\ MaxInFlight \in Nat \ {0}

VARIABLES
    lock,      \* LxaBusNode._lock: its holder first, then the waiters
    pc,        \* pc[t]: where task t is in sdo_read or sdo_write
    call,      \* call[t]: the arguments of the call of t
    xfer,      \* the local variables of the call that holds the lock
    pending,   \* state of the future LxaBusNode._pending_message
    answer,    \* its result: a sequence of at most one reply
    rx,        \* the reply in the hands of the receive thread, if any
    alive,     \* FALSE once the receive thread has raised SIGTERM
    toNode,    \* request frames: outgoing queue, send thread and bus
    toHost,    \* reply frames: bus and socket buffer
    od,        \* the object dictionary in the node
    srv,       \* the transfer the SDO server in the node has open
    ret,       \* ret[t]: how the last call of t ended
    seen       \* seen[t]: contents the object of t held during its call

host   == <<lock, pc, call, xfer, pending, answer, ret>>
rxVars == <<rx, alive>>
bus    == <<toNode, toHost>>
node   == <<od, srv>>
vars   == <<host, rxVars, bus, node, seen>>

-----------------------------------------------------------------------------
(* Data.  The i-th byte of content v of object o is the triple             *)
(* <<o, v, i>>, so a transfer that mixes two contents is visible.          *)

Byte == Objects \X Values \X Nat
Payload(o, v) == [i \in 1..Size[v] |-> <<o, v, i>>]
Payloads(o) == {Payload(o, v) : v \in Values}
Expedited(d) == Len(d) <= ExpeditedSize

FrameOf(kinds, objects) ==
    [kind: kinds, obj: objects, toggle: BOOLEAN, expedited: BOOLEAN,
     size: Nat, data: Seq(Byte), complete: BOOLEAN]

(* Only the initiate frames and an abort name an object.                   *)
Request ==
    FrameOf({"initiate_upload", "initiate_download"}, Objects)
        \cup FrameOf({"segment_upload", "segment_download"}, {NoObject})
Reply ==
    FrameOf({"initiate_upload", "initiate_download"}, Objects)
        \cup FrameOf({"upload_segment", "download_segment"}, {NoObject})
        \cup FrameOf({"abort"}, Objects \cup {NoObject})

Call == [op: {"read", "write"}, obj: Objects, data: Seq(Byte)]
NoCall == [op |-> "none", obj |-> NoObject, data |-> <<>>]

(* The frames of lxa_iobus/canopen.py, fields a frame lacks left blank.    *)
Blank == [kind |-> "abort", obj |-> NoObject, toggle |-> FALSE,
          expedited |-> FALSE, size |-> 0, data |-> <<>>, complete |-> FALSE]

GenSdoInitiateUpload(o) ==
    [Blank EXCEPT !.kind = "initiate_upload", !.obj = o]

(* Mutant: the command specifier of an initiate frame on a segment frame.  *)
SegmentUploadAsInitiate(toggle) ==
    [Blank EXCEPT !.kind = "initiate_upload", !.toggle = toggle]

GenSdoSegmentUpload(toggle) ==
    [Blank EXCEPT !.kind = "segment_upload", !.toggle = toggle]

GenSdoInitiateDownload(o, d) ==
    [Blank EXCEPT !.kind = "initiate_download", !.obj = o,
                         !.expedited = Expedited(d), !.size = Len(d),
                         !.data = IF Expedited(d) THEN d ELSE <<>>]

SegmentLength(left) == IF left < PacketSize THEN left ELSE PacketSize
LastSegment(d, segment, left) ==
    \/ SegmentLength(left) < PacketSize
    \/ Len(d) = segment * PacketSize + SegmentLength(left)

(* Mutant: every segment carries the first bytes of the data.              *)
SegmentDownloadFirstBytes(d, segment, left, toggle) ==
    [Blank EXCEPT
        !.kind = "segment_download", !.toggle = toggle,
        !.data = SubSeq(d, 1, SegmentLength(left)),
        !.complete = LastSegment(d, segment, left)]

GenSdoSegmentDownload(d, segment, left, toggle) ==
    LET offset == segment * PacketSize IN
    [Blank EXCEPT
        !.kind = "segment_download", !.toggle = toggle,
        !.data = SubSeq(d, offset + 1, offset + SegmentLength(left)),
        !.complete = LastSegment(d, segment, left)]

(* The locals of sdo_read and sdo_write that live across an await.         *)
Xfer == [phase: {"initiate", "segment"}, toggle: BOOLEAN, left: Nat,
         data: Seq(Byte), segment: Nat]
NewXfer == [phase |-> "initiate", toggle |-> FALSE, left |-> 0,
            data |-> <<>>, segment |-> 0]

(* The server's transfer: direction, object, toggle it expects next, and   *)
(* the bytes still to send (up) or received so far (down).                 *)
TransferOf(dirs, objects) ==
    [dir: dirs, obj: objects, toggle: BOOLEAN, data: Seq(Byte), size: Nat]
Transfer ==
    TransferOf({"up", "down"}, Objects) \cup TransferOf({"none"}, {NoObject})
NoTransfer == [dir |-> "none", obj |-> NoObject, toggle |-> FALSE,
               data |-> <<>>, size |-> 0]

Outcomes == {"none", "value", "stored", "timeout", "abort", "wrong"}
Result == [kind: Outcomes, data: Seq(Byte)]
NoResult == [kind |-> "none", data |-> <<>>]

Init ==
    /\ lock = <<>>
    /\ pc = [t \in Tasks |-> "idle"]
    /\ call = [t \in Tasks |-> NoCall]
    /\ xfer = NewXfer
    /\ pending = "none" /\ answer = <<>>
    /\ rx = <<>> /\ alive = TRUE
    /\ toNode = <<>> /\ toHost = <<>>
    /\ od \in {f \in [Objects -> UNION {Payloads(o) : o \in Objects}] :
                  \A o \in Objects : f[o] \in Payloads(o)}
    /\ srv = NoTransfer
    /\ ret = [t \in Tasks |-> NoResult]
    /\ seen = [t \in Tasks |-> {}]

-----------------------------------------------------------------------------
(* The calls.  The lock is held from the first request of a call to its    *)
(* return or exception, across every await in between.                     *)

Quiet == toNode = <<>> /\ toHost = <<>> /\ rx = <<>>

(* _send_sdo_message up to its await: a new future replaces whatever       *)
(* future was there, and the frame goes to the outgoing queue.             *)
SendSdoMessage(req) ==
    /\ Len(toNode) + Len(toHost) < MaxInFlight
    /\ pending' = "waiting" /\ answer' = <<>>
    /\ toNode' = Append(toNode, req)

(* The call ends by return or by exception; both release the lock.         *)
Return(t, kind, data) ==
    /\ pc' = [pc EXCEPT ![t] = "idle"]
    /\ lock' = Tail(lock)
    /\ ret' = [ret EXCEPT ![t] = [kind |-> kind, data |-> data]]
    /\ xfer' = NewXfer

(* Mutant: who comes when the lock is free takes it before the task that   *)
(* was woken up.                                                           *)
EnterBarging(t, c) ==
    /\ pc[t] = "idle"
    /\ pc' = [pc EXCEPT ![t] = "lock"]
    /\ lock' = IF \E u \in Tasks : pc[u] = "await" THEN Append(lock, t)
                                                  ELSE <<t>> \o lock
    /\ call' = [call EXCEPT ![t] = c]
    /\ ret' = [ret EXCEPT ![t] = NoResult]
    /\ seen' = [seen EXCEPT ![t] = IF c.op = "read" THEN {od[c.obj]} ELSE {}]
    /\ UNCHANGED <<xfer, pending, answer, rxVars, bus, node>>

Enter(t, c) ==
    /\ pc[t] = "idle"
    /\ pc' = [pc EXCEPT ![t] = "lock"]
    /\ lock' = Append(lock, t)
    /\ call' = [call EXCEPT ![t] = c]
    /\ ret' = [ret EXCEPT ![t] = NoResult]
    /\ seen' = [seen EXCEPT ![t] = IF c.op = "read" THEN {od[c.obj]} ELSE {}]
    /\ UNCHANGED <<xfer, pending, answer, rxVars, bus, node>>

EnterRead(t) ==
    \E o \in Objects : Enter(t, [op |-> "read", obj |-> o, data |-> <<>>])

EnterWrite(t) ==
    \E o \in Objects : \E d \in Payloads(o) :
        Enter(t, [op |-> "write", obj |-> o, data |-> d])

Begin(t) ==
    /\ SendSdoMessage(IF call[t].op = "read"
                         THEN GenSdoInitiateUpload(call[t].obj)
                         ELSE GenSdoInitiateDownload(call[t].obj, call[t].data))
    /\ pc' = [pc EXCEPT ![t] = "await"]
    /\ xfer' = [NewXfer EXCEPT !.left = Len(call[t].data)]
    /\ UNCHANGED <<lock, call, ret, rxVars, toHost, node, seen>>

(* Mutant: no lock around the call.                                        *)
StartWithoutLock(t) == pc[t] = "lock" /\ Begin(t)

(* The lock is acquired and the initiate frame goes out.                   *)
Start(t) ==
    /\ pc[t] = "lock" /\ lock # <<>> /\ Head(lock) = t
    /\ Begin(t)

(* Mutant: the reply is awaited without wait_for.                          *)
TimeoutNever(t) == FALSE

(* wait_for times out: the future is cancelled unless it is done already,  *)
(* and TimeoutError leaves the call.                                       *)
Timeout(t) ==
    /\ pc[t] = "await"
    /\ MayBeLate \/ (Quiet /\ answer = <<>>)
    /\ pending' = IF pending = "waiting" THEN "cancelled" ELSE pending
    /\ answer' = <<>>
    /\ Return(t, "timeout", <<>>)
    /\ UNCHANGED <<call, rxVars, bus, node, seen>>

(* The task resumes with the reply, which the future holds.                *)
Answered(t, op, phase) ==
    /\ pc[t] = "await" /\ answer # <<>>
    /\ call[t].op = op /\ xfer.phase = phase

(* It returns or raises without another request.                           *)
End(t, kind, data) ==
    /\ Return(t, kind, data)
    /\ answer' = <<>>
    /\ UNCHANGED <<pending, toNode>>

GoOn(req) ==
    /\ SendSdoMessage(req)
    /\ UNCHANGED <<pc, lock, ret>>

(* Mutant: the index in the reply to a read is not looked at either.       *)
AnyObject(t, r) == TRUE

AboutMyObject(t, r) == r.obj = call[t].obj

(* sdo_read after the reply to its initiate request.                       *)
ReadInitiated(t) ==
    LET r     == Head(answer)
        right == r.kind = "initiate_upload" /\ AboutMyObject(t, r)
        whole == r.expedited \/ r.size = 0
    IN
    /\ Answered(t, "read", "initiate")
    /\ \/ r.kind = "abort" /\ End(t, "abort", <<>>)
       \/ r.kind # "abort" /\ ~right /\ End(t, "wrong", <<>>)
       \/ right /\ whole /\ End(t, "value", r.data)
       \/ /\ right /\ ~whole
          /\ xfer' = [xfer EXCEPT !.phase = "segment", !.left = r.size]
          /\ GoOn(GenSdoSegmentUpload(FALSE))
    /\ UNCHANGED <<call, rxVars, toHost, node, seen>>

(* Mutant: a read that is short of one packet takes itself for complete.   *)
ReadDoneEarly(r, left) == r.complete \/ left <= PacketSize

ReadDone(r, left) == r.complete \/ left <= 0

(* sdo_read after the reply to a segment request.  A reply with the wrong  *)
(* toggle bit builds an Exception that is never raised, so the bit plays   *)
(* no part here.                                                           *)
ReadSegment(t) ==
    LET r     == Head(answer)
        right == r.kind = "upload_segment"
        data  == xfer.data \o r.data
        left  == xfer.left - Len(r.data)
    IN
    /\ Answered(t, "read", "segment")
    /\ \/ r.kind = "abort" /\ End(t, "abort", <<>>)
       \/ r.kind # "abort" /\ ~right /\ End(t, "wrong", <<>>)
       \/ right /\ ReadDone(r, left) /\ End(t, "value", data)
       \/ /\ right /\ ~ReadDone(r, left)
          /\ xfer' = [xfer EXCEPT !.toggle = ~@, !.data = data, !.left = left]
          /\ GoOn(GenSdoSegmentUpload(~xfer.toggle))
    /\ UNCHANGED <<call, rxVars, toHost, node, seen>>

(* sdo_write after the reply to its initiate request: the index in the     *)
(* reply is not looked at.                                                 *)
WriteInitiated(t) ==
    LET r     == Head(answer)
        right == r.kind = "initiate_download"
        d     == call[t].data
    IN
    /\ Answered(t, "write", "initiate")
    /\ \/ r.kind = "abort" /\ End(t, "abort", <<>>)
       \/ r.kind # "abort" /\ ~right /\ End(t, "wrong", <<>>)
       \/ right /\ Expedited(d) /\ End(t, "stored", <<>>)
       \/ /\ right /\ ~Expedited(d)
          /\ xfer' = [xfer EXCEPT !.phase = "segment"]
          /\ GoOn(GenSdoSegmentDownload(d, 0, xfer.left, FALSE))
    /\ UNCHANGED <<call, rxVars, toHost, node, seen>>

(* sdo_write after the reply to a segment request.  The exception after    *)
(* its loop, for data that ran out without a last segment, is in "wrong".  *)
WriteSegment(t) ==
    LET r     == Head(answer)
        d     == call[t].data
        last  == LastSegment(d, xfer.segment, xfer.left)
        left  == xfer.left - SegmentLength(xfer.left)
        right == r.kind = "download_segment" /\ (last \/ left > 0)
    IN
    /\ Answered(t, "write", "segment")
    /\ \/ r.kind = "abort" /\ End(t, "abort", <<>>)
       \/ r.kind # "abort" /\ ~right /\ End(t, "wrong", <<>>)
       \/ right /\ last /\ End(t, "stored", <<>>)
       \/ /\ right /\ ~last
          /\ xfer' = [xfer EXCEPT !.segment = @ + 1, !.toggle = ~@,
                                  !.left = left]
          /\ GoOn(GenSdoSegmentDownload(d, xfer.segment + 1, left,
                                        ~xfer.toggle))
    /\ UNCHANGED <<call, rxVars, toHost, node, seen>>

-----------------------------------------------------------------------------
(* The receive thread.  set_sdo_response tests the future and completes it *)
(* in separate steps, and the event loop runs in between.                  *)

RxCheck ==
    /\ rx = <<>> /\ toHost # <<>>
    /\ toHost' = Tail(toHost)
    /\ rx' = IF pending = "waiting" THEN <<Head(toHost)>> ELSE <<>>
    /\ UNCHANGED <<host, alive, toNode, node, seen>>

(* set_result on the future that is current by now.  On a cancelled one it *)
(* raises InvalidStateError; recv answers any exception with SIGTERM.      *)
RxSet ==
    /\ rx # <<>>
    /\ rx' = <<>>
    /\ IF pending = "waiting"
          THEN pending' = "done" /\ answer' = rx /\ UNCHANGED alive
          ELSE alive' = FALSE /\ UNCHANGED <<pending, answer>>
    /\ UNCHANGED <<lock, pc, call, xfer, ret, bus, node, seen>>

-----------------------------------------------------------------------------
(* The bus and the node.                                                   *)

Lose ==
    /\ MayLose
    /\ \/ toNode # <<>> /\ toNode' = Tail(toNode) /\ UNCHANGED toHost
       \/ toHost # <<>> /\ toHost' = Tail(toHost) /\ UNCHANGED toNode
    /\ UNCHANGED <<host, rxVars, node, seen>>

NodeTake(k) == toNode # <<>> /\ Head(toNode).kind = k

NodeReply(r) ==
    /\ toNode' = Tail(toNode)
    /\ toHost' = Append(toHost, r)
    /\ UNCHANGED <<host, rxVars>>

(* Object o takes content d: calls under way on o have seen it.            *)
Store(o, d) ==
    /\ od' = [od EXCEPT ![o] = d]
    /\ seen' = [t \in Tasks |-> IF pc[t] # "idle" /\ call[t].obj = o
                                   THEN seen[t] \cup {d} ELSE seen[t]]

(* The node refuses a request, or gets a segment that fits no transfer.    *)
NodeAbort ==
    /\ toNode # <<>>
    /\ NodeReply([Blank EXCEPT !.obj = Head(toNode).obj])
    /\ srv' = NoTransfer
    /\ UNCHANGED <<od, seen>>

NodeInitiateUpload ==
    LET o == Head(toNode).obj IN
    /\ NodeTake("initiate_upload")
    /\ NodeReply([Blank EXCEPT
                    !.kind = "initiate_upload", !.obj = o,
                    !.expedited = Expedited(od[o]), !.size = Len(od[o]),
                    !.data = IF Expedited(od[o]) THEN od[o] ELSE <<>>])
    /\ srv' = IF Expedited(od[o]) THEN NoTransfer
              ELSE [NoTransfer EXCEPT !.dir = "up", !.obj = o, !.data = od[o]]
    /\ UNCHANGED <<od, seen>>

NodeSegmentUpload ==
    LET n == SegmentLength(Len(srv.data)) IN
    /\ NodeTake("segment_upload")
    /\ srv.dir = "up" /\ Head(toNode).toggle = srv.toggle
    /\ NodeReply([Blank EXCEPT
                    !.kind = "upload_segment", !.toggle = srv.toggle,
                    !.data = SubSeq(srv.data, 1, n),
                    !.complete = (n = Len(srv.data))])
    /\ srv' = IF n = Len(srv.data) THEN NoTransfer
              ELSE [srv EXCEPT !.toggle = ~@,
                               !.data = SubSeq(@, n + 1, Len(@))]
    /\ UNCHANGED <<od, seen>>

NodeInitiateDownload ==
    LET q == Head(toNode) IN
    /\ NodeTake("initiate_download")
    /\ NodeReply([Blank EXCEPT !.kind = "initiate_download",
                                    !.obj = q.obj])
    /\ IF q.expedited
          THEN Store(q.obj, q.data) /\ srv' = NoTransfer
          ELSE /\ srv' = [NoTransfer EXCEPT !.dir = "down", !.obj = q.obj,
                                            !.size = q.size]
               /\ UNCHANGED <<od, seen>>

NodeSegmentDownload ==
    LET q == Head(toNode)
        d == srv.data \o q.data
    IN
    /\ NodeTake("segment_download")
    /\ srv.dir = "down" /\ q.toggle = srv.toggle
    /\ q.complete => Len(d) = srv.size
    /\ NodeReply([Blank EXCEPT !.kind = "download_segment",
                                    !.toggle = q.toggle])
    /\ IF q.complete
          THEN Store(srv.obj, d) /\ srv' = NoTransfer
          ELSE /\ srv' = [srv EXCEPT !.toggle = ~@, !.data = d]
               /\ UNCHANGED <<od, seen>>

(* An input pin, an ADC channel or the locator button changes an object.   *)
NodeChange(o) ==
    /\ o \in Volatile
    /\ \E d \in Payloads(o) \ {od[o]} : Store(o, d)
    /\ UNCHANGED <<host, rxVars, bus, srv>>

-----------------------------------------------------------------------------

TaskStep(t) ==
    \/ EnterRead(t) \/ EnterWrite(t) \/ Start(t) \/ Timeout(t)
    \/ ReadInitiated(t) \/ ReadSegment(t)
    \/ WriteInitiated(t) \/ WriteSegment(t)

NodeStep ==
    \/ NodeAbort
    \/ NodeInitiateUpload \/ NodeSegmentUpload
    \/ NodeInitiateDownload \/ NodeSegmentDownload

Next ==
    /\ alive
    /\ \/ \E t \in Tasks : TaskStep(t)
       \/ RxCheck \/ RxSet
       \/ NodeStep \/ (\E o \in Objects : NodeChange(o)) \/ Lose

Spec == Init /\ [][Next]_vars

(* The event loop runs a task that is ready, a timer that is armed fires,  *)
(* the receive thread polls the socket, the node serves its requests.      *)
Proceed(t) ==
    \/ Start(t) \/ Timeout(t)
    \/ ReadInitiated(t) \/ ReadSegment(t)
    \/ WriteInitiated(t) \/ WriteSegment(t)

Fairness ==
    /\ \A t \in Tasks : WF_vars(alive /\ Proceed(t))
    /\ WF_vars(alive /\ (RxCheck \/ RxSet))
    /\ WF_vars(alive /\ NodeStep)

FairSpec == Spec /\ Fairness

-----------------------------------------------------------------------------
TypeOK ==
    /\ lock \in Seq(Tasks)
    /\ pc \in [Tasks -> {"idle", "lock", "await"}]
    /\ call \in [Tasks -> Call \cup {NoCall}]
    /\ xfer \in Xfer
    /\ pending \in {"none", "waiting", "done", "cancelled"}
    /\ answer \in Seq(Reply) /\ rx \in Seq(Reply)
    /\ alive \in BOOLEAN
    /\ toNode \in Seq(Request) /\ toHost \in Seq(Reply)
    /\ od \in [Objects -> Seq(Byte)]
    /\ srv \in Transfer
    /\ ret \in [Tasks -> Result]
    /\ seen \in [Tasks -> SUBSET Seq(Byte)]

(* Unless replies come late, the node has at most one request of the host  *)
(* to deal with, and none while no call awaits a reply: the lock and the   *)
(* time-out keep requests and replies in step (bus_node.py:40-58).         *)
OneAtATime ==
    ~MayBeLate =>
        Len(toNode) + Len(toHost) + Len(rx) + Len(answer)
            <= (IF \E t \in Tasks : pc[t] = "await" THEN 1 ELSE 0)

(* A read that returns delivers, whole and unmixed, a content that its own *)
(* object held at some moment of the call (sdo_read, bus_node.py:57-161).  *)
ReadIsFresh ==
    \A t \in Tasks :
        pc[t] = "idle" /\ ret[t].kind = "value" => ret[t].data \in seen[t]

(* A write that returns has put its bytes into its own object during the   *)
(* call (sdo_write, bus_node.py:163-283).                                  *)
WriteTookEffect ==
    \A t \in Tasks :
        pc[t] = "idle" /\ ret[t].kind = "stored" => call[t].data \in seen[t]

(* A read that one frame answers returns a content of its own object even  *)
(* when replies come late and answer a later request: sdo_read looks at    *)
(* the index in the reply (bus_node.py:85-92).                             *)
ExpeditedReadIsOfItsObject ==
    [][\A t \in Tasks :
          ReadInitiated(t) /\ ret'[t].kind = "value"
              => ret'[t].data \in Payloads(call[t].obj)]_vars

(* A segment whose toggle bit is not the one asked for ends the read with  *)
(* an error, as the message at bus_node.py:142-148 says.                   *)
ToggleMismatchEndsRead ==
    [][\A t \in Tasks :
          (/\ ReadSegment(t)
           /\ Head(answer).kind = "upload_segment"
           /\ Head(answer).toggle # xfer.toggle)
              => ret'[t].kind = "wrong"]_vars

(* To its callers the client is a store of objects, unless replies come    *)
(* late (bus_node.py:57-283; module SdoStore).                             *)
Abstract == INSTANCE SdoStore
    WITH active <- {t \in Tasks : pc[t] # "idle"}, Contents <- Payloads

ImplementsStore == Abstract!Spec

(* Every call ends: no caller waits forever for the lock or for a reply,   *)
(* whatever the bus loses.                                                 *)
CallsEnd == \A t \in Tasks : pc[t] # "idle" ~> pc[t] = "idle" \/ ~alive

=============================================================================
