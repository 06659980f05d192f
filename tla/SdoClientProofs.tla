--------------------------- MODULE SdoClientProofs ---------------------------
(***************************************************************************)
(* Proofs about SdoClient for any tasks, objects, contents and frame       *)
(* sizes: its type invariant, and that requests and replies stay in step   *)
(* as long as replies are not late.                                        *)
(***************************************************************************)
EXTENDS SdoClient, SequenceTheorems, TLAPS

(* Whoever awaits a reply is at the head of the lock's queue, so that at   *)
(* most one task does and the locals in xfer are its own.                  *)
HolderAwaits ==
    \A t \in Tasks : pc[t] = "await" => lock # <<>> /\ Head(lock) = t

(* A segmented write has sent everything but xfer.left bytes: the next     *)
(* segment lies within the data.                                           *)
WriteLeft ==
    \A t \in Tasks : pc[t] = "await" /\ call[t].op = "write"
        => /\ xfer.left = Len(call[t].data) - xfer.segment * PacketSize
           /\ xfer.phase = "initiate" => xfer.segment = 0

(* A task inside a call has that call's arguments.                         *)
Calling == \A t \in Tasks : pc[t] # "idle" => call[t] \in Call

IInv == TypeOK /\ Calling /\ HolderAwaits /\ WriteLeft /\ OneAtATime

-----------------------------------------------------------------------------
(* Data and frames.                                                        *)

(* The bytes of every content of an object are bytes.                      *)
LEMMA PayloadType ==
    ASSUME NEW o \in Objects, NEW d \in Payloads(o)
    PROVE  d \in Seq(Byte)
<1>1. PICK v \in Values : d = Payload(o, v)
  BY DEF Payloads
<1>2. Size[v] \in Nat
  BY ConstantsAssumption
<1>3. \A i \in 1..Size[v] : <<o, v, i>> \in Byte
  BY <1>2 DEF Byte
<1> QED BY <1>1, <1>2, <1>3 DEF Payload

(* The constant records have their types; the proofs below never open them *)
(* again.                                                                  *)
LEMMA RecordTypes ==
    /\ Blank \in FrameOf({"abort"}, {NoObject})
    /\ NewXfer \in Xfer
    /\ NewXfer.left = 0 /\ NewXfer.segment = 0
    /\ NoTransfer \in TransferOf({"none"}, {NoObject})
    /\ NoTransfer \in Transfer
    /\ NoCall \notin Call
    /\ NoCall.op = "none"
    /\ NoResult \in Result
BY DEF NoResult, Result, Outcomes, Blank, FrameOf, NewXfer, Xfer, NoTransfer, Transfer, TransferOf, NoCall, Call

(* Every frame the host builds is a request frame.                         *)
LEMMA InitiateUploadFrame ==
    ASSUME NEW o \in Objects
    PROVE  GenSdoInitiateUpload(o) \in Request
BY RecordTypes DEF GenSdoInitiateUpload, Request, FrameOf

LEMMA SegmentUploadFrame ==
    ASSUME NEW b \in BOOLEAN
    PROVE  GenSdoSegmentUpload(b) \in Request
BY RecordTypes DEF GenSdoSegmentUpload, Request, FrameOf

LEMMA InitiateDownloadFrame ==
    ASSUME NEW o \in Objects, NEW d \in Seq(Byte)
    PROVE  GenSdoInitiateDownload(o, d) \in Request
<1> DEFINE data == IF Expedited(d) THEN d ELSE <<>>
<1>1. Expedited(d) \in BOOLEAN /\ Len(d) \in Nat
  BY DEF Expedited
<1>2. data \in Seq(Byte)
  OBVIOUS
<1>3. GenSdoInitiateDownload(o, d) =
        [Blank EXCEPT !.kind = "initiate_download", !.obj = o,
                      !.expedited = Expedited(d), !.size = Len(d),
                      !.data = data]
  BY DEF GenSdoInitiateDownload
<1> HIDE DEF data
<1> QED
  BY <1>1, <1>2, <1>3, RecordTypes DEF Request, FrameOf

LEMMA SegmentLengthBound ==
    ASSUME NEW left \in Nat
    PROVE  /\ SegmentLength(left) \in Nat
           /\ SegmentLength(left) <= left
           /\ SegmentLength(left) <= PacketSize
BY ConstantsAssumption DEF SegmentLength

LEMMA SegmentDownloadFrame ==
    ASSUME NEW d \in Seq(Byte), NEW segment \in Nat, NEW left \in Nat,
           left = Len(d) - segment * PacketSize, NEW b \in BOOLEAN
    PROVE  GenSdoSegmentDownload(d, segment, left, b) \in Request
<1> DEFINE off == segment * PacketSize
           n == SegmentLength(left)
           data == SubSeq(d, off + 1, off + n)
<1>1. off \in Nat
  BY ConstantsAssumption
<1>2. n \in Nat /\ n <= left
  BY SegmentLengthBound
<1>3. \A i \in (off + 1)..(off + n) : d[i] \in Byte
  <2> HIDE DEF off, n
  <2> SUFFICES ASSUME NEW i \in (off + 1)..(off + n) PROVE d[i] \in Byte
    OBVIOUS
  <2>1. i \in 1..Len(d)
    BY <1>1, <1>2 DEF off
  <2> QED BY <2>1, ElementOfSeq
<1>4. data \in Seq(Byte)
  <2> HIDE DEF off, n
  <2> QED BY <1>1, <1>2, <1>3, SubSeqProperties
<1>5. LastSegment(d, segment, left) \in BOOLEAN
  BY DEF LastSegment
<1> HIDE DEF data
<1>6. GenSdoSegmentDownload(d, segment, left, b) =
        [Blank EXCEPT !.kind = "segment_download", !.toggle = b,
                      !.data = data,
                      !.complete = LastSegment(d, segment, left)]
  BY DEF GenSdoSegmentDownload, data
<1> QED BY <1>4, <1>5, <1>6, RecordTypes DEF Request, FrameOf

-----------------------------------------------------------------------------
LEMMA InitIInv == Init => IInv
<1> SUFFICES ASSUME Init PROVE IInv
  OBVIOUS
<1>1. od \in [Objects -> Seq(Byte)]
  BY PayloadType DEF Init
<1>2. ret \in [Tasks -> Result]
  BY RecordTypes DEF Init
<1>3. TypeOK
  BY <1>1, <1>2, RecordTypes DEF Init, TypeOK
<1>4. Calling /\ HolderAwaits /\ WriteLeft
  BY DEF Init, Calling, HolderAwaits, WriteLeft
<1>5. OneAtATime
  <2>1. Len(toNode) = 0 /\ Len(toHost) = 0 /\ Len(rx) = 0 /\ Len(answer) = 0
    BY DEF Init
  <2> QED BY <2>1 DEF OneAtATime
<1> QED BY <1>3, <1>4, <1>5 DEF IInv

LEMMA EnterIInv ==
    ASSUME IInv, NEW t \in Tasks, EnterRead(t) \/ EnterWrite(t)
    PROVE  IInv'
<1>1. PICK c \in Call : Enter(t, c)
  <2>1. CASE EnterRead(t)
    <3>1. \A o \in Objects : [op |-> "read", obj |-> o, data |-> <<>>] \in Call
      BY DEF Call
    <3> QED BY <2>1, <3>1 DEF EnterRead
  <2>2. CASE EnterWrite(t)
    <3>1. \A o \in Objects : \A d \in Payloads(o) :
              [op |-> "write", obj |-> o, data |-> d] \in Call
      BY PayloadType DEF Call
    <3> QED BY <2>2, <3>1 DEF EnterWrite
  <2> QED BY <2>1, <2>2
<1>2. TypeOK'
  BY <1>1, RecordTypes
  DEF IInv, TypeOK, Enter, Call, rxVars, bus, node
<1>3. HolderAwaits'
  <2>1. lock \in Seq(Tasks) /\ lock' = Append(lock, t)
    BY <1>1 DEF IInv, TypeOK, Enter
  <2>2. lock # <<>> => lock' # <<>> /\ Head(lock') = Head(lock)
    BY <2>1, AppendProperties, HeadTailProperties
  <2> QED BY <1>1, <2>2 DEF IInv, TypeOK, HolderAwaits, Enter
<1>4. WriteLeft'
  BY <1>1 DEF IInv, TypeOK, WriteLeft, Enter
<1>5. OneAtATime'
  BY <1>1 DEF IInv, TypeOK, OneAtATime, Enter, rxVars, bus
<1>6. Calling'
  BY <1>1 DEF IInv, TypeOK, Calling, Enter
<1> QED BY <1>2, <1>3, <1>4, <1>5, <1>6 DEF IInv

LEMMA StartIInv ==
    ASSUME IInv, NEW t \in Tasks, Start(t)
    PROVE  IInv'
<1> DEFINE req == IF call[t].op = "read"
                     THEN GenSdoInitiateUpload(call[t].obj)
                     ELSE GenSdoInitiateDownload(call[t].obj, call[t].data)
<1>1. \A u \in Tasks : pc[u] # "await"
  BY DEF IInv, HolderAwaits, Start
<1>2. call[t] \in Call
  BY DEF IInv, Calling, Start
<1>3. req \in Request
  <2>1. call[t].obj \in Objects /\ call[t].data \in Seq(Byte)
    BY <1>2 DEF Call
  <2> QED BY <2>1, InitiateUploadFrame, InitiateDownloadFrame
<1>4. SendSdoMessage(req)
  BY DEF Start, Begin
<1> HIDE DEF req
<1>5. xfer' = [NewXfer EXCEPT !.left = Len(call[t].data)]
  BY DEF Start, Begin
<1>6. Len(call[t].data) \in Nat
  BY <1>2 DEF Call
<1>7. xfer' \in Xfer /\ xfer'.left = Len(call[t].data) /\ xfer'.segment = 0
  BY <1>5, <1>6, RecordTypes DEF Xfer
<1>8. TypeOK'
  BY <1>3, <1>4, <1>7
  DEF IInv, TypeOK, Start, Begin, SendSdoMessage, rxVars, node
<1>9. HolderAwaits'
  BY <1>1 DEF IInv, TypeOK, HolderAwaits, Start, Begin
<1>10. WriteLeft'
  BY <1>1, <1>7, ConstantsAssumption DEF IInv, TypeOK, WriteLeft, Start, Begin
<1>11. OneAtATime'
  <2>1. Len(toNode') = Len(toNode) + 1 /\ Len(answer') = 0
    BY <1>3, <1>4 DEF IInv, TypeOK, SendSdoMessage
  <2>2. pc'[t] = "await"
    BY DEF IInv, TypeOK, Start, Begin
  <2> QED BY <1>1, <2>1, <2>2
          DEF IInv, TypeOK, OneAtATime, Start, Begin, rxVars
<1>12. Calling'
  BY <1>2 DEF IInv, TypeOK, Calling, Start, Begin
<1> QED BY <1>8, <1>9, <1>10, <1>11, <1>12 DEF IInv

(* A call that awaits ends with a result: by TimeoutError, or in the step  *)
(* that takes the answer.                                                  *)
LEMMA ReturnIInv ==
    ASSUME IInv, NEW t \in Tasks, pc[t] = "await",
           NEW kind \in Outcomes, NEW data \in Seq(Byte),
           Return(t, kind, data), answer' = <<>>,
           pending' \in {"none", "waiting", "done", "cancelled"},
           ~MayBeLate => Quiet \/ answer # <<>>,
           UNCHANGED <<call, rxVars, bus, node, seen>>
    PROVE  IInv'
<1>1. lock \in Seq(Tasks) /\ lock # <<>> /\ lock' = Tail(lock)
  BY DEF IInv, TypeOK, HolderAwaits, Return
<1>2. \A u \in Tasks : pc'[u] # "await"
  BY DEF IInv, TypeOK, HolderAwaits, Return
<1>3. [kind |-> kind, data |-> data] \in Result
  BY DEF Result
<1>4. lock' \in Seq(Tasks)
  BY <1>1, HeadTailProperties
<1>5. TypeOK'
  BY <1>3, <1>4, RecordTypes DEF IInv, TypeOK, Return, rxVars, bus, node
<1>6. Calling'
  BY DEF IInv, TypeOK, Calling, Return
<1>7. HolderAwaits' /\ WriteLeft'
  BY <1>2 DEF HolderAwaits, WriteLeft
<1>8. OneAtATime'
  <2> SUFFICES ASSUME ~MayBeLate
               PROVE  Len(toNode) + Len(toHost) + Len(rx) <= 0
    BY <1>2 DEF OneAtATime, rxVars, bus
  <2>1. CASE Quiet
    BY <2>1 DEF Quiet
  <2>2. CASE answer # <<>>
    BY <2>2 DEF IInv, TypeOK, OneAtATime
  <2> QED BY <2>1, <2>2
<1> QED BY <1>5, <1>6, <1>7, <1>8 DEF IInv

LEMMA TimeoutIInv ==
    ASSUME IInv, NEW t \in Tasks, Timeout(t)
    PROVE  IInv'
<1>1. "timeout" \in Outcomes /\ <<>> \in Seq(Byte)
  BY DEF Outcomes
<1>2. pending' \in {"none", "waiting", "done", "cancelled"}
  BY DEF IInv, TypeOK, Timeout
<1> QED BY <1>1, <1>2, ReturnIInv DEF Timeout

(* A call that awaits sends its next request on taking the answer.         *)
LEMMA GoOnIInv ==
    ASSUME IInv, NEW t \in Tasks, pc[t] = "await", answer # <<>>,
           NEW req \in Request, GoOn(req), xfer' \in Xfer,
           xfer'.phase = "segment",
           call[t].op = "write" =>
               xfer'.left = Len(call[t].data) - xfer'.segment * PacketSize,
           UNCHANGED <<call, rxVars, toHost, node, seen>>
    PROVE  IInv'
<1>1. SendSdoMessage(req) /\ UNCHANGED <<pc, lock, ret>>
  BY DEF GoOn
<1>2. TypeOK'
  BY <1>1 DEF IInv, TypeOK, SendSdoMessage, rxVars, node
<1>3. Calling' /\ HolderAwaits'
  BY <1>1 DEF IInv, Calling, HolderAwaits
<1>4. WriteLeft'
  BY <1>1 DEF IInv, HolderAwaits, WriteLeft
<1>5. OneAtATime'
  <2>1. Len(toNode') = Len(toNode) + 1 /\ Len(answer') = 0
    BY <1>1 DEF IInv, TypeOK, SendSdoMessage
  <2>2. Len(answer) >= 1 /\ Len(toNode) >= 0 /\ Len(toHost) >= 0 /\ Len(rx) >= 0
    BY DEF IInv, TypeOK
  <2> QED BY <1>1, <2>1, <2>2 DEF IInv, TypeOK, OneAtATime, rxVars
<1> QED BY <1>2, <1>3, <1>4, <1>5 DEF IInv

LEMMA EndIInv ==
    ASSUME IInv, NEW t \in Tasks, pc[t] = "await", answer # <<>>,
           NEW kind \in Outcomes, NEW data \in Seq(Byte),
           End(t, kind, data),
           UNCHANGED <<call, rxVars, toHost, node, seen>>
    PROVE  IInv'
BY ReturnIInv DEF End, IInv, TypeOK, bus

(* The reply a task takes is a reply, and the locals it acts on are typed. *)
LEMMA AnswerType ==
    ASSUME IInv, NEW t \in Tasks, answer # <<>>, pc[t] = "await"
    PROVE  /\ Head(answer) \in Reply
           /\ Head(answer).data \in Seq(Byte)
           /\ Head(answer).size \in Nat
           /\ call[t] \in Call
           /\ call[t].data \in Seq(Byte)
           /\ xfer \in Xfer
<1>1. Head(answer) \in Reply
  BY HeadTailProperties DEF IInv, TypeOK
<1> QED BY <1>1 DEF IInv, TypeOK, Calling, Reply, FrameOf, Call

LEMMA ReadInitiatedIInv ==
    ASSUME IInv, NEW t \in Tasks, ReadInitiated(t)
    PROVE  IInv'
<1> DEFINE r == Head(answer)
<1>1. /\ pc[t] = "await" /\ answer # <<>> /\ call[t].op = "read"
      /\ UNCHANGED <<call, rxVars, toHost, node, seen>>
  BY DEF ReadInitiated, Answered
<1>2. r.data \in Seq(Byte) /\ r.size \in Nat /\ xfer \in Xfer
  BY <1>1, AnswerType
<1>3. {"abort", "wrong", "value"} \subseteq Outcomes /\ <<>> \in Seq(Byte)
  BY DEF Outcomes
<1>4. CASE \/ End(t, "abort", <<>>) \/ End(t, "wrong", <<>>)
           \/ End(t, "value", r.data)
  BY <1>1, <1>2, <1>3, <1>4, EndIInv
<1>5. CASE /\ xfer' = [xfer EXCEPT !.phase = "segment", !.left = r.size]
           /\ GoOn(GenSdoSegmentUpload(FALSE))
  <2>1. xfer' \in Xfer /\ xfer'.phase = "segment"
    BY <1>2, <1>5 DEF Xfer
  <2> QED BY <1>1, <1>5, <2>1, SegmentUploadFrame, GoOnIInv
<1> QED BY <1>4, <1>5 DEF ReadInitiated

LEMMA ReadSegmentIInv ==
    ASSUME IInv, NEW t \in Tasks, ReadSegment(t)
    PROVE  IInv'
<1> DEFINE r    == Head(answer)
           data == xfer.data \o r.data
           left == xfer.left - Len(r.data)
<1>1. /\ pc[t] = "await" /\ answer # <<>> /\ call[t].op = "read"
      /\ UNCHANGED <<call, rxVars, toHost, node, seen>>
  BY DEF ReadSegment, Answered
<1>2. r.data \in Seq(Byte) /\ xfer \in Xfer
  BY <1>1, AnswerType
<1>3. data \in Seq(Byte) /\ left \in Int
  BY <1>2 DEF Xfer
<1>4. {"abort", "wrong", "value"} \subseteq Outcomes /\ <<>> \in Seq(Byte)
  BY DEF Outcomes
<1>5. CASE \/ End(t, "abort", <<>>) \/ End(t, "wrong", <<>>)
           \/ End(t, "value", data)
  BY <1>1, <1>3, <1>4, <1>5, EndIInv
<1>6. CASE /\ ~ReadDone(r, left)
           /\ xfer' = [xfer EXCEPT !.toggle = ~@, !.data = data, !.left = left]
           /\ GoOn(GenSdoSegmentUpload(~xfer.toggle))
  <2>1. left \in Nat
    BY <1>3, <1>6 DEF ReadDone
  <2>2. xfer.toggle \in BOOLEAN /\ (~xfer.toggle) \in BOOLEAN
    BY <1>2 DEF Xfer
  <2>3. xfer' \in Xfer /\ xfer'.phase = "segment"
    BY <1>1, <1>2, <1>3, <1>6, <2>1, <2>2 DEF Xfer, ReadSegment, Answered
  <2> QED BY <1>1, <1>6, <2>2, <2>3, SegmentUploadFrame, GoOnIInv
<1> QED BY <1>5, <1>6 DEF ReadSegment

LEMMA WriteInitiatedIInv ==
    ASSUME IInv, NEW t \in Tasks, WriteInitiated(t)
    PROVE  IInv'
<1> DEFINE d == call[t].data
<1>1. /\ pc[t] = "await" /\ answer # <<>> /\ call[t].op = "write"
      /\ xfer.phase = "initiate"
      /\ UNCHANGED <<call, rxVars, toHost, node, seen>>
  BY DEF WriteInitiated, Answered
<1>2. d \in Seq(Byte) /\ xfer \in Xfer
  BY <1>1, AnswerType
<1>3. {"abort", "wrong", "stored"} \subseteq Outcomes /\ <<>> \in Seq(Byte)
  BY DEF Outcomes
<1>4. CASE \/ End(t, "abort", <<>>) \/ End(t, "wrong", <<>>)
           \/ End(t, "stored", <<>>)
  BY <1>1, <1>3, <1>4, EndIInv
<1>5. CASE /\ xfer' = [xfer EXCEPT !.phase = "segment"]
           /\ GoOn(GenSdoSegmentDownload(d, 0, xfer.left, FALSE))
  <2>1. xfer.left = Len(d) - xfer.segment * PacketSize /\ xfer.segment = 0
    BY <1>1 DEF IInv, WriteLeft
  <2>2. /\ xfer' \in Xfer /\ xfer'.phase = "segment"
        /\ xfer'.left = xfer.left /\ xfer'.segment = xfer.segment
    BY <1>2, <1>5 DEF Xfer
  <2>3. GenSdoSegmentDownload(d, 0, xfer.left, FALSE) \in Request
    BY <1>2, <2>1, SegmentDownloadFrame DEF Xfer
  <2> QED BY <1>1, <1>5, <2>1, <2>2, <2>3, GoOnIInv
<1> QED BY <1>4, <1>5 DEF WriteInitiated

LEMMA WriteSegmentIInv ==
    ASSUME IInv, NEW t \in Tasks, WriteSegment(t)
    PROVE  IInv'
<1> DEFINE d    == call[t].data
           n    == SegmentLength(xfer.left)
           last == LastSegment(d, xfer.segment, xfer.left)
           left == xfer.left - n
<1>1. /\ pc[t] = "await" /\ answer # <<>> /\ call[t].op = "write"
      /\ xfer.phase = "segment"
      /\ UNCHANGED <<call, rxVars, toHost, node, seen>>
  BY DEF WriteSegment, Answered
<1>2. d \in Seq(Byte) /\ xfer \in Xfer /\ xfer.left \in Nat
      /\ xfer.segment \in Nat
  BY <1>1, AnswerType DEF Xfer
<1>3. {"abort", "wrong", "stored"} \subseteq Outcomes /\ <<>> \in Seq(Byte)
  BY DEF Outcomes
<1>4. CASE \/ End(t, "abort", <<>>) \/ End(t, "wrong", <<>>)
           \/ End(t, "stored", <<>>)
  BY <1>1, <1>3, <1>4, EndIInv
<1>5. CASE /\ ~last
           /\ xfer' = [xfer EXCEPT !.segment = @ + 1, !.toggle = ~@,
                                   !.left = left]
           /\ GoOn(GenSdoSegmentDownload(d, xfer.segment + 1, left,
                                         ~xfer.toggle))
  <2>1. left \in Nat
    BY <1>2, SegmentLengthBound
  <2>2. n = PacketSize
    BY <1>2, <1>5, SegmentLengthBound, ConstantsAssumption DEF LastSegment
  <2>3. left = Len(d) - (xfer.segment + 1) * PacketSize
    <3>1. xfer.left = Len(d) - xfer.segment * PacketSize
      BY <1>1 DEF IInv, WriteLeft
    <3>2. (xfer.segment + 1) * PacketSize = xfer.segment * PacketSize + PacketSize
      BY <1>2, ConstantsAssumption
    <3>3. Len(d) \in Nat /\ xfer.segment * PacketSize \in Nat
      BY <1>2, ConstantsAssumption
    <3> QED BY <2>2, <3>1, <3>2, <3>3, ConstantsAssumption
  <2>4. xfer.toggle \in BOOLEAN /\ (~xfer.toggle) \in BOOLEAN
    BY <1>2 DEF Xfer
  <2> DEFINE next == xfer.segment + 1
             flip == ~xfer.toggle
  <2>5. next \in Nat /\ flip \in BOOLEAN
    BY <1>2, <2>4
  <2>6. xfer' = [xfer EXCEPT !.segment = next, !.toggle = flip, !.left = left]
    BY <1>5
  <2> HIDE DEF left, next, flip
  <2>7. /\ xfer' \in Xfer /\ xfer'.left = left
        /\ xfer'.phase = "segment"
        /\ xfer'.segment = next
    BY <1>1, <1>2, <2>1, <2>5, <2>6 DEF Xfer
  <2>8. GenSdoSegmentDownload(d, xfer.segment + 1, left, ~xfer.toggle)
          \in Request
    <3>1. xfer.segment + 1 \in Nat
      BY <1>2
    <3> HIDE DEF d
    <3> QED BY <1>2, <3>1, <2>1, <2>3, <2>4, SegmentDownloadFrame
  <2> QED BY <1>1, <1>5, <2>3, <2>7, <2>8, GoOnIInv DEF next
<1> QED BY <1>4, <1>5 DEF WriteSegment

-----------------------------------------------------------------------------
(* Steps outside the event loop: they move frames and leave the calls be.  *)

LEMMA FramesIInv ==
    ASSUME IInv, TypeOK', UNCHANGED <<lock, pc, call, xfer>>,
           Len(toNode') + Len(toHost') + Len(rx') + Len(answer')
             <= Len(toNode) + Len(toHost) + Len(rx) + Len(answer)
    PROVE  IInv'
<1>1. Calling' /\ HolderAwaits' /\ WriteLeft'
  BY DEF IInv, Calling, HolderAwaits, WriteLeft
<1>2. OneAtATime'
  BY DEF IInv, TypeOK, OneAtATime
<1> QED BY <1>1, <1>2 DEF IInv

LEMMA RxIInv ==
    ASSUME IInv, RxCheck \/ RxSet
    PROVE  IInv'
<1>1. CASE RxCheck
  <2>1. /\ Head(toHost) \in Reply /\ Tail(toHost) \in Seq(Reply)
        /\ Len(Tail(toHost)) = Len(toHost) - 1
    BY <1>1, HeadTailProperties DEF IInv, TypeOK, RxCheck
  <2>2. rx' \in Seq(Reply) /\ Len(rx') <= 1 /\ Len(rx) = 0
    BY <1>1, <2>1 DEF RxCheck
  <2>3. TypeOK'
    BY <1>1, <2>1, <2>2 DEF IInv, TypeOK, RxCheck, host, node
  <2> QED BY <1>1, <2>1, <2>2, <2>3, FramesIInv
          DEF IInv, TypeOK, RxCheck, host
<1>2. CASE RxSet
  <2>1. TypeOK'
    <3>1. /\ rx' = <<>> /\ alive' \in BOOLEAN /\ answer' \in Seq(Reply)
          /\ pending' \in {"none", "waiting", "done", "cancelled"}
      BY <1>2 DEF IInv, TypeOK, RxSet
    <3> QED BY <1>2, <3>1 DEF IInv, TypeOK, RxSet, bus, node
  <2>2. Len(rx') + Len(answer') <= Len(rx) + Len(answer)
    BY <1>2 DEF IInv, TypeOK, RxSet
  <2> QED BY <1>2, <2>1, <2>2, FramesIInv DEF IInv, TypeOK, RxSet, bus
<1> QED BY <1>1, <1>2

LEMMA LoseIInv ==
    ASSUME IInv, Lose
    PROVE  IInv'
<1>1. /\ toNode # <<>> => /\ Tail(toNode) \in Seq(Request)
                         /\ Len(Tail(toNode)) = Len(toNode) - 1
      /\ toHost # <<>> => /\ Tail(toHost) \in Seq(Reply)
                         /\ Len(Tail(toHost)) = Len(toHost) - 1
  BY HeadTailProperties DEF IInv, TypeOK
<1>2. TypeOK'
  BY <1>1 DEF IInv, TypeOK, Lose, host, rxVars, node
<1> QED BY <1>1, <1>2, FramesIInv DEF IInv, TypeOK, Lose, host, rxVars

(* What the node sends is a reply, what it stores is bytes, and one request *)
(* becomes one reply.                                                      *)
LEMMA NodeReplyIInv ==
    ASSUME IInv, toNode # <<>>, NEW r \in Reply, NodeReply(r),
           srv' \in Transfer, od' \in [Objects -> Seq(Byte)],
           seen' \in [Tasks -> SUBSET Seq(Byte)]
    PROVE  IInv'
<1>1. Tail(toNode) \in Seq(Request) /\ Len(Tail(toNode)) = Len(toNode) - 1
  BY HeadTailProperties DEF IInv, TypeOK
<1>2. toHost' \in Seq(Reply) /\ Len(toHost') = Len(toHost) + 1
  BY AppendProperties DEF IInv, TypeOK, NodeReply
<1>3. TypeOK'
  BY <1>1, <1>2 DEF IInv, TypeOK, NodeReply, host, rxVars
<1> QED BY <1>1, <1>2, <1>3, FramesIInv
        DEF IInv, TypeOK, NodeReply, host, rxVars

LEMMA StoreType ==
    ASSUME TypeOK, NEW o \in Objects, NEW d \in Seq(Byte), Store(o, d)
    PROVE  /\ od' \in [Objects -> Seq(Byte)]
           /\ seen' \in [Tasks -> SUBSET Seq(Byte)]
BY DEF TypeOK, Store

LEMMA RequestType ==
    ASSUME IInv, toNode # <<>>
    PROVE  /\ Head(toNode) \in Request
           /\ Head(toNode).data \in Seq(Byte)
           /\ Head(toNode).size \in Nat
           /\ Head(toNode).toggle \in BOOLEAN
           /\ Head(toNode).kind \in {"initiate_upload", "initiate_download"}
                => Head(toNode).obj \in Objects
           /\ Head(toNode).obj \in Objects \cup {NoObject}
<1>1. Head(toNode) \in Request
  BY HeadTailProperties DEF IInv, TypeOK
<1> QED BY <1>1 DEF Request, FrameOf

LEMMA NodeIInv ==
    ASSUME IInv, NodeStep
    PROVE  IInv'
<1>1. CASE NodeAbort
  <2>1. [Blank EXCEPT !.obj = Head(toNode).obj] \in Reply
    BY <1>1, RequestType, RecordTypes DEF NodeAbort, Reply, FrameOf
  <2> QED BY <1>1, <2>1, NodeReplyIInv, RecordTypes
          DEF NodeAbort, IInv, TypeOK
<1>2. CASE NodeInitiateUpload
  <2> DEFINE o == Head(toNode).obj
             whole == Expedited(od[o])
             data == IF whole THEN od[o] ELSE <<>>
             size == Len(od[o])
             r == [Blank EXCEPT !.kind = "initiate_upload", !.obj = o,
                                !.expedited = whole, !.size = size,
                                !.data = data]
  <2>1. toNode # <<>> /\ o \in Objects
    BY <1>2, RequestType DEF NodeInitiateUpload, NodeTake
  <2>2. od[o] \in Seq(Byte) /\ size \in Nat /\ data \in Seq(Byte)
        /\ whole \in BOOLEAN
    BY <2>1 DEF IInv, TypeOK, Expedited
  <2>3. NodeReply(r) /\ UNCHANGED <<od, seen>>
    BY <1>2 DEF NodeInitiateUpload
  <2>4. srv' \in Transfer
    BY <1>2, <2>1, <2>2, RecordTypes DEF NodeInitiateUpload, Transfer, TransferOf
  <2>5. r \in Reply
    <3> HIDE DEF whole, data, size, o
    <3> QED BY <2>1, <2>2, RecordTypes DEF Reply, FrameOf
  <2> HIDE DEF r
  <2> QED BY <2>1, <2>3, <2>4, <2>5, NodeReplyIInv DEF IInv, TypeOK
<1>3. CASE NodeSegmentUpload
  <2> DEFINE n == SegmentLength(Len(srv.data))
             data == SubSeq(srv.data, 1, n)
             rest == SubSeq(srv.data, n + 1, Len(srv.data))
             last == n = Len(srv.data)
             r == [Blank EXCEPT !.kind = "upload_segment",
                                !.toggle = srv.toggle, !.data = data,
                                !.complete = last]
  <2>1. /\ toNode # <<>> /\ NodeReply(r) /\ UNCHANGED <<od, seen>>
        /\ srv' = IF last THEN NoTransfer
                  ELSE [srv EXCEPT !.toggle = ~@, !.data = rest]
    BY <1>3 DEF NodeSegmentUpload, NodeTake
  <2>2. srv \in Transfer /\ srv.data \in Seq(Byte) /\ srv.toggle \in BOOLEAN
    BY DEF IInv, TypeOK, Transfer, TransferOf
  <2>3. Len(srv.data) \in Nat /\ n \in Nat /\ n <= Len(srv.data)
    BY <2>2, SegmentLengthBound
  <2>4. data \in Seq(Byte) /\ rest \in Seq(Byte)
    <3>1. \A i \in 1..Len(srv.data) : srv.data[i] \in Byte
      BY <2>2, ElementOfSeq
    <3> HIDE DEF n
    <3>2. \A i \in 1..n : srv.data[i] \in Byte
      BY <2>3, <3>1
    <3>3. \A i \in (n + 1)..Len(srv.data) : srv.data[i] \in Byte
      BY <2>3, <3>1
    <3> QED BY <2>3, <3>2, <3>3, SubSeqProperties
  <2>5. last \in BOOLEAN /\ (~srv.toggle) \in BOOLEAN
    OBVIOUS
  <2> HIDE DEF data, rest, last
  <2>6. r \in Reply
    BY <2>2, <2>4, <2>5, RecordTypes DEF Reply, FrameOf
  <2>7. srv' \in Transfer
    BY <2>1, <2>2, <2>4, <2>5, RecordTypes DEF Transfer, TransferOf
  <2> HIDE DEF r
  <2> QED BY <2>1, <2>6, <2>7, NodeReplyIInv DEF IInv, TypeOK
<1>4. CASE NodeInitiateDownload
  <2> DEFINE q == Head(toNode)
             r == [Blank EXCEPT !.kind = "initiate_download", !.obj = q.obj]
  <2>1. /\ toNode # <<>> /\ q.obj \in Objects /\ q.size \in Nat
        /\ q.data \in Seq(Byte) /\ NodeReply(r)
    BY <1>4, RequestType DEF NodeInitiateDownload, NodeTake
  <2>2. r \in Reply
    BY <2>1, RecordTypes DEF Reply, FrameOf
  <2>3. CASE q.expedited
    <3>1. Store(q.obj, q.data) /\ srv' = NoTransfer
      BY <1>4, <2>3 DEF NodeInitiateDownload
    <3> HIDE DEF r
    <3> QED BY <2>1, <2>2, <3>1, StoreType, NodeReplyIInv, RecordTypes
            DEF IInv
  <2>4. CASE ~q.expedited
    <3>1. /\ UNCHANGED <<od, seen>>
          /\ srv' = [NoTransfer EXCEPT !.dir = "down", !.obj = q.obj,
                                       !.size = q.size]
      BY <1>4, <2>4 DEF NodeInitiateDownload
    <3>2. srv' \in Transfer
      BY <2>1, <3>1, RecordTypes DEF Transfer, TransferOf
    <3> HIDE DEF r
    <3> QED BY <2>1, <2>2, <3>1, <3>2, NodeReplyIInv DEF IInv, TypeOK
  <2> QED BY <2>3, <2>4
<1>5. CASE NodeSegmentDownload
  <2> DEFINE q == Head(toNode)
             d == srv.data \o q.data
             r == [Blank EXCEPT !.kind = "download_segment",
                                !.toggle = q.toggle]
  <2>1. /\ toNode # <<>> /\ q.data \in Seq(Byte) /\ q.toggle \in BOOLEAN
        /\ srv.dir = "down" /\ NodeReply(r)
    BY <1>5, RequestType DEF NodeSegmentDownload, NodeTake
  <2>2. srv \in Transfer /\ srv.toggle \in BOOLEAN /\ (~srv.toggle) \in BOOLEAN
    BY DEF IInv, TypeOK, Transfer, TransferOf
  <2>3. d \in Seq(Byte)
    BY <2>1, <2>2 DEF Transfer, TransferOf
  <2>4. srv.obj \in Objects
    BY <2>1 DEF IInv, TypeOK, Transfer, TransferOf
  <2>5. r \in Reply
    BY <2>1, RecordTypes DEF Reply, FrameOf
  <2>6. CASE q.complete
    <3>1. Store(srv.obj, d) /\ srv' = NoTransfer
      BY <1>5, <2>6 DEF NodeSegmentDownload
    <3> HIDE DEF r, d
    <3> QED BY <2>1, <2>3, <2>4, <2>5, <3>1, StoreType, NodeReplyIInv,
               RecordTypes DEF IInv
  <2>7. CASE ~q.complete
    <3>1. /\ UNCHANGED <<od, seen>>
          /\ srv' = [srv EXCEPT !.toggle = ~@, !.data = d]
      BY <1>5, <2>7 DEF NodeSegmentDownload
    <3> HIDE DEF r, d
    <3>2. srv' \in Transfer
      BY <2>2, <2>3, <3>1 DEF Transfer, TransferOf
    <3> QED BY <2>1, <2>5, <3>1, <3>2, NodeReplyIInv DEF IInv, TypeOK
  <2> QED BY <2>6, <2>7
<1> QED BY <1>1, <1>2, <1>3, <1>4, <1>5 DEF NodeStep

LEMMA NodeChangeIInv ==
    ASSUME IInv, NEW o \in Objects, NodeChange(o)
    PROVE  IInv'
<1>1. PICK d \in Payloads(o) : Store(o, d)
  BY DEF NodeChange
<1>2. /\ od' \in [Objects -> Seq(Byte)]
      /\ seen' \in [Tasks -> SUBSET Seq(Byte)]
  BY <1>1, PayloadType, StoreType DEF IInv
<1>3. TypeOK'
  BY <1>2 DEF IInv, TypeOK, NodeChange, host, rxVars, bus
<1> QED BY <1>3, FramesIInv DEF IInv, TypeOK, NodeChange, host, rxVars, bus

-----------------------------------------------------------------------------
LEMMA NextIInv == IInv /\ [Next]_vars => IInv'
<1> SUFFICES ASSUME IInv, [Next]_vars PROVE IInv'
  OBVIOUS
<1>1. ASSUME NEW t \in Tasks, TaskStep(t) PROVE IInv'
  BY <1>1, EnterIInv, StartIInv, TimeoutIInv, ReadInitiatedIInv,
     ReadSegmentIInv, WriteInitiatedIInv, WriteSegmentIInv DEF TaskStep
<1>2. CASE RxCheck \/ RxSet
  BY <1>2, RxIInv
<1>3. CASE NodeStep
  BY <1>3, NodeIInv
<1>4. CASE \E o \in Objects : NodeChange(o)
  BY <1>4, NodeChangeIInv
<1>5. CASE Lose
  BY <1>5, LoseIInv
<1>6. CASE UNCHANGED vars
  BY <1>6 DEF IInv, TypeOK, Calling, HolderAwaits, WriteLeft, OneAtATime,
              vars, host, rxVars, bus, node
<1> QED BY <1>1, <1>2, <1>3, <1>4, <1>5, <1>6 DEF Next

(* The invariant holds throughout every behaviour of the client.           *)
THEOREM Invariance == Spec => []IInv
BY InitIInv, NextIInv, PTL DEF Spec

(* Every variable keeps its type, for any tasks, objects and contents; in  *)
(* particular a segmented write never slices outside its data              *)
(* (sdo_write, bus_node.py:234-260).                                       *)
THEOREM TypeCorrect == Spec => []TypeOK
<1>1. IInv => TypeOK
  BY DEF IInv
<1> QED BY <1>1, Invariance, PTL

(* If no reply is late, request and reply stay in step whatever the bus    *)
(* loses and whoever calls: at most one frame is outstanding, and none     *)
(* when no call awaits (_lock and _send_sdo_message, bus_node.py:36-61).   *)
THEOREM InStep == Spec => []OneAtATime
<1>1. IInv => OneAtATime
  BY DEF IInv
<1> QED BY <1>1, Invariance, PTL

=============================================================================
