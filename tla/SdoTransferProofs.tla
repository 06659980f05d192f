-------------------------- MODULE SdoTransferProofs --------------------------
(***************************************************************************)
(* Proofs about what the calls of SdoClient deliver, for any tasks,        *)
(* objects, contents and frame sizes.  While no reply is late: a read      *)
(* returns a whole content its object held during the call, a write puts   *)
(* its data into its object, and the client implements the store of        *)
(* module SdoStore.  With late replies: a read that one frame answers is   *)
(* still about its own object.                                             *)
(***************************************************************************)
EXTENDS SdoClientProofs

(* The server sends the rest of a content of the object of t: data and     *)
(* what is left in the server make up the whole content.                   *)
Uploading(t, toggle, data, left) ==
    /\ srv.dir = "up" /\ srv.toggle = toggle
    /\ Len(srv.data) = left /\ data \o srv.data \in seen[t]

(* The server has the first n segments of what t writes.                   *)
Downloading(t, toggle, n) ==
    /\ srv.dir = "down" /\ srv.toggle = toggle
    /\ srv.obj = call[t].obj /\ srv.size = Len(call[t].data)
    /\ srv.data = SubSeq(call[t].data, 1, n * PacketSize)

(* Request q is the one of t where t stands, and the server expects it.    *)
RequestFits(t, q) ==
    \/ /\ call[t].op = "read" /\ xfer.phase = "initiate"
       /\ q = GenSdoInitiateUpload(call[t].obj)
    \/ /\ call[t].op = "read" /\ xfer.phase = "segment"
       /\ q = GenSdoSegmentUpload(xfer.toggle)
       /\ Uploading(t, xfer.toggle, xfer.data, xfer.left)
    \/ /\ call[t].op = "write" /\ xfer.phase = "initiate"
       /\ q = GenSdoInitiateDownload(call[t].obj, call[t].data)
    \/ /\ call[t].op = "write" /\ xfer.phase = "segment"
       /\ q = GenSdoSegmentDownload(call[t].data, xfer.segment, xfer.left,
                                    xfer.toggle)
       /\ Downloading(t, xfer.toggle, xfer.segment)

(* Reply r answers that request, and the server stands where it says.      *)
ReadReplyFits(t, r) ==
    \/ /\ xfer.phase = "initiate" /\ r.expedited
       /\ r.data \in seen[t]
    \/ /\ xfer.phase = "initiate" /\ ~r.expedited /\ r.size # 0
       /\ Uploading(t, FALSE, <<>>, r.size)
    \/ /\ xfer.phase = "segment" /\ r.complete
       /\ xfer.data \o r.data \in seen[t]
    \/ /\ xfer.phase = "segment" /\ ~r.complete /\ Len(r.data) < xfer.left
       /\ Uploading(t, ~xfer.toggle, xfer.data \o r.data,
                    xfer.left - Len(r.data))

WriteReplyFits(t) ==
    LET d    == call[t].data
        last == LastSegment(d, xfer.segment, xfer.left)
    IN
    \/ xfer.phase = "initiate" /\ Expedited(d) /\ d \in seen[t]
    \/ xfer.phase = "initiate" /\ ~Expedited(d) /\ Downloading(t, FALSE, 0)
    \/ xfer.phase = "segment" /\ last /\ d \in seen[t]
    \/ /\ xfer.phase = "segment" /\ ~last
       /\ Downloading(t, ~xfer.toggle, xfer.segment + 1)

ReplyFits(t, r) ==
    \/ r.kind = "abort"
    \/ call[t].op = "read" /\ ReadReplyFits(t, r)
    \/ call[t].op = "write" /\ WriteReplyFits(t)

(* A call has received nothing while its first request is unanswered.      *)
NothingYet ==
    xfer.phase = "initiate"
        => ~xfer.toggle /\ xfer.data = <<>> /\ xfer.segment = 0

(* A read has seen what its object holds.                                  *)
SeesObject ==
    \A t \in Tasks :
        pc[t] # "idle" /\ call[t].op = "read" => od[call[t].obj] \in seen[t]

Exchange ==
    \A t \in Tasks : pc[t] = "await" =>
        /\ NothingYet
        /\ toNode # <<>> => RequestFits(t, Head(toNode))
        /\ \A q \in {toHost, rx, answer} :
               q # <<>> => ReplyFits(t, Head(q))

XInv == IInv /\ SeesObject /\ Exchange /\ ReadIsFresh /\ WriteTookEffect

(* Whatever a segmented transfer made of an object, a content that fits    *)
(* one frame is one of its own contents.                                   *)
ShortContent(o, d) == Expedited(d) => d \in Payloads(o)

ObjectsShort ==
    /\ \A o \in Objects : ShortContent(o, od[o])
    /\ srv.dir = "down" => srv.size > ExpeditedSize

FrameIsShort(f) ==
    IF f.expedited THEN f.data \in Payloads(f.obj) ELSE f.size > ExpeditedSize

Short(kind, q) == \A i \in DOMAIN q : q[i].kind = kind => FrameIsShort(q[i])

FramesShort ==
    /\ Short("initiate_download", toNode)
    /\ Short("initiate_upload", toHost)
    /\ Short("initiate_upload", rx)
    /\ Short("initiate_upload", answer)

(* A call under way has no result, and a write has a content of its object. *)
CallsOpen ==
    \A t \in Tasks :
        /\ pc[t] # "idle" => ret[t].kind = "none"
        /\ call[t].op = "write" => call[t].data \in Payloads(call[t].obj)

ShortInv == IInv /\ ObjectsShort /\ FramesShort /\ CallsOpen

-----------------------------------------------------------------------------
(* Sequences and frames.                                                   *)

(* A segment and what is left after it are what was there before.          *)
LEMMA SplitData ==
    ASSUME NEW d \in Seq(Byte), NEW n \in Nat, n <= Len(d)
    PROVE  /\ SubSeq(d, 1, n) \in Seq(Byte)
           /\ SubSeq(d, n + 1, Len(d)) \in Seq(Byte)
           /\ Len(SubSeq(d, 1, n)) = n
           /\ Len(SubSeq(d, n + 1, Len(d))) = Len(d) - n
           /\ SubSeq(d, 1, n) \o SubSeq(d, n + 1, Len(d)) = d
<1>1. Len(d) \in Nat /\ \A i \in 1..Len(d) : d[i] \in Byte
  BY ElementOfSeq
<1>2. \A i \in 1..n : d[i] \in Byte
  BY <1>1
<1>3. \A i \in (n + 1)..Len(d) : d[i] \in Byte
  BY <1>1
<1>4. /\ SubSeq(d, 1, n) \in Seq(Byte)
      /\ Len(SubSeq(d, 1, n)) = n
  BY <1>1, <1>2, SubSeqProperties
<1>5. /\ SubSeq(d, n + 1, Len(d)) \in Seq(Byte)
      /\ Len(SubSeq(d, n + 1, Len(d))) = Len(d) - n
  BY <1>1, <1>3, SubSeqProperties
<1>6. SubSeq(d, 1, n) \o SubSeq(d, n + 1, Len(d)) = SubSeq(d, 1, Len(d))
  <2>1. 1 \in 1..Len(d) + 1 /\ n \in 1 - 1..Len(d) /\ Len(d) \in n..Len(d)
    BY <1>1
  <2>2. QED
    BY <2>1, ConcatAdjacentSubSeq
<1>7. QED
  BY <1>4, <1>5, <1>6, SubSeqFull

LEMMA RegroupData ==
    ASSUME NEW a \in Seq(Byte), NEW b \in Seq(Byte), NEW c \in Seq(Byte)
    PROVE  (a \o b) \o c = a \o (b \o c)
BY ConcatAssociative

(* The first segments of a content, and one more.                          *)
LEMMA OneMoreSegment ==
    ASSUME NEW d \in Seq(Byte), NEW off \in Nat, NEW n \in Nat, off + n <= Len(d)
    PROVE  SubSeq(d, 1, off) \o SubSeq(d, off + 1, off + n) = SubSeq(d, 1, off + n)
<1>1. Len(d) \in Nat
  OBVIOUS
<1>2. /\ 1 \in 1..Len(d) + 1 /\ off \in 1 - 1..Len(d)
      /\ off + n \in off..Len(d)
  BY <1>1
<1>3. QED
  BY <1>2, ConcatAdjacentSubSeq

LEMMA LastArithmetic ==
    ASSUME NEW len \in Nat, NEW off \in Nat, NEW left \in Nat, NEW p \in Nat,
           NEW n, n = IF left < p THEN left ELSE p, left = len - off
    PROVE  /\ n < p \/ len = off + n => off + n = len
           /\ ~(n < p \/ len = off + n) => n = p /\ left - n > 0
OBVIOUS

(* The last segment of a write ends where its data ends, and every other   *)
(* segment is a full one.                                                  *)
LEMMA LastSegmentEnds ==
    ASSUME NEW d \in Seq(Byte), NEW segment \in Nat, NEW left \in Nat,
           left = Len(d) - segment * PacketSize
    PROVE  LET n == SegmentLength(left) IN
           IF LastSegment(d, segment, left)
              THEN segment * PacketSize + n = Len(d)
              ELSE /\ n = PacketSize /\ left - n > 0
                   /\ segment * PacketSize + n = (segment + 1) * PacketSize
<1> DEFINE off == segment * PacketSize
           n == SegmentLength(left)
           next == (segment + 1) * PacketSize
           last == LastSegment(d, segment, left)
<1>1. off \in Nat /\ PacketSize \in Nat /\ Len(d) \in Nat /\ left = Len(d) - off
  BY ConstantsAssumption
<1>2. next = off + PacketSize
  BY ConstantsAssumption
<1>3. last <=> n < PacketSize \/ Len(d) = off + n
  BY DEF LastSegment
<1>4. n = IF left < PacketSize THEN left ELSE PacketSize
  BY DEF SegmentLength
<1> HIDE DEF off, n, last, next
<1>5. /\ n < PacketSize \/ Len(d) = off + n => off + n = Len(d)
      /\ ~(n < PacketSize \/ Len(d) = off + n) => n = PacketSize /\ left - n > 0
  BY <1>1, <1>4, LastArithmetic
<1>6. IF last THEN off + n = Len(d)
              ELSE n = PacketSize /\ left - n > 0 /\ off + n = next
  BY <1>2, <1>3, <1>5
<1>7. QED
  BY <1>6 DEF off, n, last, next

LEMMA LastOne ==
    ASSUME NEW S, NEW s \in Seq(S), Len(s) = 1
    PROVE  Tail(s) = <<>>
<1>1. s # <<>>
  OBVIOUS
<1>2. Tail(s) \in Seq(S) /\ Len(Tail(s)) = 0
  BY <1>1, HeadTailProperties
<1>3. QED
  BY <1>2, EmptySeq

(* While no reply is late, one frame at most is on its way.                *)
LEMMA OneFrame ==
    ASSUME ~MayBeLate, IInv
    PROVE  /\ toNode # <<>> => /\ toHost = <<>> /\ rx = <<>> /\ answer = <<>>
                               /\ Tail(toNode) = <<>>
           /\ toHost # <<>> => /\ toNode = <<>> /\ rx = <<>> /\ answer = <<>>
                               /\ Tail(toHost) = <<>>
           /\ rx # <<>> => /\ toNode = <<>> /\ toHost = <<>> /\ answer = <<>>
                           /\ rx = <<Head(rx)>>
           /\ answer # <<>> => toNode = <<>> /\ toHost = <<>> /\ rx = <<>>
           /\ \/ toNode # <<>> \/ toHost # <<>> \/ rx # <<>> \/ answer # <<>>
              => \E t \in Tasks : pc[t] = "await"
<1>1. /\ toNode \in Seq(Request) /\ toHost \in Seq(Reply)
      /\ rx \in Seq(Reply) /\ answer \in Seq(Reply)
  BY DEF IInv, TypeOK
<1>2. /\ Len(toNode) \in Nat /\ (toNode # <<>> => Len(toNode) > 0)
      /\ Len(toHost) \in Nat /\ (toHost # <<>> => Len(toHost) > 0)
      /\ Len(rx) \in Nat /\ (rx # <<>> => Len(rx) > 0)
      /\ Len(answer) \in Nat /\ (answer # <<>> => Len(answer) > 0)
  BY <1>1, EmptySeq, LenProperties
<1>3. /\ Len(toNode) = 1 => Tail(toNode) = <<>>
      /\ Len(toHost) = 1 => Tail(toHost) = <<>>
  BY <1>1, LastOne
<1>4. Len(toNode) + Len(toHost) + Len(rx) + Len(answer)
        <= (IF \E t \in Tasks : pc[t] = "await" THEN 1 ELSE 0)
  BY DEF IInv, OneAtATime
<1>5. Len(rx) = 1 => rx = <<Head(rx)>>
  BY <1>1
<1>6. \/ toNode # <<>> \/ toHost # <<>> \/ rx # <<>> \/ answer # <<>>
      => \E t \in Tasks : pc[t] = "await"
  BY <1>2, <1>4
<1> DEFINE a == Len(toNode)
           b == Len(toHost)
           c == Len(rx)
           e == Len(answer)
<1>7. a + b + c + e <= 1 /\ a \in Nat /\ b \in Nat /\ c \in Nat /\ e \in Nat
  BY <1>2, <1>4
<1>8. /\ a = 0 => toNode = <<>>
      /\ b = 0 => toHost = <<>>
      /\ c = 0 => rx = <<>>
      /\ e = 0 => answer = <<>>
  BY <1>2
<1>9. /\ toNode # <<>> => a > 0
      /\ toHost # <<>> => b > 0
      /\ rx # <<>> => c > 0
      /\ answer # <<>> => e > 0
  BY <1>2
<1>10. /\ a = 1 => Tail(toNode) = <<>>
       /\ b = 1 => Tail(toHost) = <<>>
       /\ c = 1 => rx = <<Head(rx)>>
  BY <1>3, <1>5
<1> HIDE DEF a, b, c, e
<1>11. /\ a > 0 => a = 1 /\ b = 0 /\ c = 0 /\ e = 0
       /\ b > 0 => b = 1 /\ a = 0 /\ c = 0 /\ e = 0
       /\ c > 0 => c = 1 /\ a = 0 /\ b = 0 /\ e = 0
       /\ e > 0 => a = 0 /\ b = 0 /\ c = 0
  BY <1>7
<1>12. QED
  BY <1>6, <1>8, <1>9, <1>10, <1>11

(* Only one task awaits a reply.                                           *)
LEMMA OneAwaits ==
    ASSUME IInv, NEW t \in Tasks, NEW u \in Tasks,
           pc[t] = "await", pc[u] = "await"
    PROVE  t = u
BY DEF IInv, HolderAwaits

LEMMA OnlyOne ==
    ASSUME NEW S, NEW e \in S
    PROVE  /\ Append(<<>>, e) = <<e>> /\ <<e>> # <<>> /\ Head(<<e>>) = e
BY EmptySeq

-----------------------------------------------------------------------------
(* Steps that leave the transfer of t alone keep what fits.                *)
LEMMA FitsKept ==
    ASSUME NEW t \in Tasks, UNCHANGED <<xfer, srv>>, call'[t] = call[t],
           seen[t] \subseteq seen'[t]
    PROVE  /\ NothingYet => NothingYet'
           /\ \A q : RequestFits(t, q) => RequestFits(t, q)'
           /\ \A r : ReplyFits(t, r) => ReplyFits(t, r)'
<1>1. NothingYet => NothingYet'
  BY DEF NothingYet
<1>2. ASSUME NEW q, RequestFits(t, q)
      PROVE  RequestFits(t, q)'
  BY <1>2 DEF RequestFits, Uploading, Downloading
<1>3. ASSUME NEW r, ReplyFits(t, r)
      PROVE  ReplyFits(t, r)'
  BY <1>3 DEF ReplyFits, ReadReplyFits, WriteReplyFits, Uploading, Downloading
<1>4. QED
  BY <1>1, <1>2, <1>3

-----------------------------------------------------------------------------
(* The calls.                                                              *)

LEMMA ExchangeKept ==
    ASSUME Exchange, UNCHANGED <<xfer, srv, toNode, toHost, rx, answer>>,
           \A t \in Tasks : pc'[t] = "await" =>
               pc[t] = "await" /\ call'[t] = call[t] /\ seen[t] \subseteq seen'[t]
    PROVE  Exchange'
<1> SUFFICES ASSUME NEW t \in Tasks, pc'[t] = "await"
             PROVE  /\ NothingYet'
                    /\ toNode # <<>> => RequestFits(t, Head(toNode))'
                    /\ \A q \in {toHost, rx, answer} :
                           q # <<>> => ReplyFits(t, Head(q))'
  BY DEF Exchange
<1>1. /\ NothingYet
      /\ toNode # <<>> => RequestFits(t, Head(toNode))
      /\ \A q \in {toHost, rx, answer} : q # <<>> => ReplyFits(t, Head(q))
  BY DEF Exchange
<1>2. QED
  BY <1>1, FitsKept

LEMMA ResultsKept ==
    ASSUME ReadIsFresh, WriteTookEffect,
           \A t \in Tasks : pc'[t] = "idle" =>
               /\ pc[t] = "idle" /\ ret'[t] = ret[t]
               /\ seen'[t] = seen[t] /\ call'[t] = call[t]
    PROVE  ReadIsFresh' /\ WriteTookEffect'
BY DEF ReadIsFresh, WriteTookEffect

LEMMA EnterXInv ==
    ASSUME XInv, NEW t \in Tasks, EnterRead(t) \/ EnterWrite(t)
    PROVE  Exchange' /\ ReadIsFresh' /\ WriteTookEffect'
<1>1. PICK c : Enter(t, c)
  BY DEF EnterRead, EnterWrite
<1>2. \A u \in Tasks : pc'[u] \in {"await", "idle"} =>
          /\ pc[u] = pc'[u] /\ call'[u] = call[u] /\ ret'[u] = ret[u]
          /\ seen'[u] = seen[u]
  BY <1>1 DEF Enter, XInv, IInv, TypeOK
<1>3. UNCHANGED <<xfer, srv, toNode, toHost, rx, answer>>
  BY <1>1 DEF Enter, rxVars, bus, node
<1>4. QED
  BY <1>2, <1>3, ExchangeKept, ResultsKept DEF XInv

LEMMA StartXInv ==
    ASSUME ~MayBeLate, XInv, NEW t \in Tasks, Start(t)
    PROVE  Exchange' /\ ReadIsFresh' /\ WriteTookEffect'
<1>1. PICK req : req = IF call[t].op = "read"
                         THEN GenSdoInitiateUpload(call[t].obj)
                         ELSE GenSdoInitiateDownload(call[t].obj, call[t].data)
  OBVIOUS
<1>2. call[t] \in Call
  BY DEF XInv, IInv, Calling, Start
<1>3. req \in Request
  BY <1>1, <1>2, InitiateUploadFrame, InitiateDownloadFrame DEF Call
<1>4. \A u \in Tasks : pc[u] # "await"
  BY DEF XInv, IInv, HolderAwaits, Start
<1>5. toNode = <<>> /\ toHost = <<>> /\ rx = <<>>
  BY <1>4, OneFrame DEF XInv
<1>6. toNode' = <<req>> /\ toHost' = <<>> /\ rx' = <<>> /\ answer' = <<>>
  BY <1>1, <1>3, <1>5, OnlyOne DEF Start, Begin, SendSdoMessage, rxVars
<1>7. UNCHANGED <<call, ret, seen>> /\ pc' = [pc EXCEPT ![t] = "await"]
  BY DEF Start, Begin
<1>8. xfer'.phase = "initiate" /\ NothingYet'
  BY DEF Start, Begin, NewXfer, NothingYet
<1>9. RequestFits(t, req)'
  BY <1>1, <1>2, <1>7, <1>8 DEF RequestFits, Call
<1>10. Exchange'
  <2>1. \A u \in Tasks : pc'[u] = "await" => u = t
    BY <1>4, <1>7 DEF XInv, IInv, TypeOK
  <2>2. Head(toNode') = req
    BY <1>3, <1>6, OnlyOne
  <2>3. QED
    BY <1>6, <1>8, <1>9, <2>1, <2>2 DEF Exchange
<1>11. \A u \in Tasks : pc'[u] = "idle" => pc[u] = "idle"
  BY <1>7 DEF XInv, IInv, TypeOK
<1>12. QED
  BY <1>7, <1>10, <1>11, ResultsKept DEF XInv

(* A call that ends leaves nobody awaiting, and a result that its object   *)
(* has seen.                                                               *)
LEMMA ReturnXInv ==
    ASSUME XInv, NEW t \in Tasks, pc[t] = "await",
           NEW kind, NEW data, Return(t, kind, data),
           kind = "value" => data \in seen[t],
           kind = "stored" => call[t].data \in seen[t],
           UNCHANGED <<call, seen>>
    PROVE  Exchange' /\ ReadIsFresh' /\ WriteTookEffect'
<1>1. pc' = [pc EXCEPT ![t] = "idle"]
      /\ ret' = [ret EXCEPT ![t] = [kind |-> kind, data |-> data]]
  BY DEF Return
<1>2. \A u \in Tasks : pc'[u] # "await"
  BY <1>1, OneAwaits DEF XInv, IInv, TypeOK
<1>3. \A u \in Tasks \ {t} : pc'[u] = pc[u] /\ ret'[u] = ret[u]
  BY <1>1 DEF XInv, IInv, TypeOK
<1>4. ret'[t].kind = kind /\ ret'[t].data = data
  BY <1>1 DEF XInv, IInv, TypeOK
<1>5. ReadIsFresh' /\ WriteTookEffect'
  BY <1>3, <1>4 DEF XInv, ReadIsFresh, WriteTookEffect
<1>6. QED
  BY <1>2, <1>5 DEF Exchange

LEMMA TimeoutXInv ==
    ASSUME XInv, NEW t \in Tasks, Timeout(t)
    PROVE  Exchange' /\ ReadIsFresh' /\ WriteTookEffect'
<1>1. pc[t] = "await" /\ Return(t, "timeout", <<>>) /\ UNCHANGED <<call, seen>>
  BY DEF Timeout
<1>2. QED
  BY <1>1, ReturnXInv

(* A call that goes on has its next request as the only frame on its way.  *)
LEMMA GoOnXInv ==
    ASSUME ~MayBeLate, XInv, NEW t \in Tasks, pc[t] = "await", answer # <<>>,
           NEW req \in Request, GoOn(req), xfer'.phase = "segment",
           RequestFits(t, req)', UNCHANGED <<call, rxVars, toHost, node, seen>>
    PROVE  Exchange' /\ ReadIsFresh' /\ WriteTookEffect'
<1>1. toNode = <<>> /\ toHost = <<>> /\ rx = <<>>
  BY OneFrame DEF XInv
<1>2. toNode' = <<req>> /\ toHost' = <<>> /\ rx' = <<>> /\ answer' = <<>>
  BY <1>1, OnlyOne DEF GoOn, SendSdoMessage, rxVars
<1>3. NothingYet'
  BY DEF NothingYet
<1>4. Head(toNode') = req
  BY <1>2, OnlyOne
<1>5. UNCHANGED <<pc, ret>>
  BY DEF GoOn
<1>6. \A u \in Tasks : pc'[u] = "await" => u = t
  BY <1>5, OneAwaits DEF XInv
<1>7. Exchange'
  BY <1>2, <1>3, <1>4, <1>6 DEF Exchange
<1>8. QED
  BY <1>5, <1>7, ResultsKept DEF XInv

(* What a task that resumes knows of its answer.                           *)
LEMMA AnswerFits ==
    ASSUME XInv, NEW t \in Tasks, pc[t] = "await", answer # <<>>
    PROVE  /\ ReplyFits(t, Head(answer)) /\ NothingYet
           /\ xfer \in Xfer /\ call[t] \in Call
           /\ Head(answer).data \in Seq(Byte) /\ Head(answer).size \in Nat
BY AnswerType DEF XInv, Exchange

LEMMA ReadInitiatedXInv ==
    ASSUME ~MayBeLate, XInv, NEW t \in Tasks, ReadInitiated(t)
    PROVE  Exchange' /\ ReadIsFresh' /\ WriteTookEffect'
<1> DEFINE r == Head(answer)
<1>1. /\ pc[t] = "await" /\ answer # <<>> /\ call[t].op = "read"
      /\ xfer.phase = "initiate"
      /\ UNCHANGED <<call, rxVars, toHost, node, seen>>
  BY DEF ReadInitiated, Answered
<1>2. /\ ReplyFits(t, r) /\ NothingYet /\ xfer \in Xfer /\ r.size \in Nat
  BY <1>1, AnswerFits
<1>3. CASE End(t, "abort", <<>>) \/ End(t, "wrong", <<>>)
  BY <1>1, <1>3, ReturnXInv DEF End
<1>4. CASE /\ r.kind = "initiate_upload" /\ (r.expedited \/ r.size = 0)
           /\ End(t, "value", r.data)
  <2>1. r.data \in seen[t]
    BY <1>1, <1>2, <1>4 DEF ReplyFits, ReadReplyFits
  <2>2. QED
    BY <1>1, <1>4, <2>1, ReturnXInv DEF End
<1>5. CASE /\ r.kind = "initiate_upload" /\ ~(r.expedited \/ r.size = 0)
           /\ xfer' = [xfer EXCEPT !.phase = "segment", !.left = r.size]
           /\ GoOn(GenSdoSegmentUpload(FALSE))
  <2>1. PICK req : req = GenSdoSegmentUpload(FALSE)
    OBVIOUS
  <2>2. req \in Request
    BY <2>1, SegmentUploadFrame
  <2>3. Uploading(t, FALSE, <<>>, r.size)
    BY <1>1, <1>2, <1>5 DEF ReplyFits, ReadReplyFits
  <2>4. /\ xfer'.phase = "segment" /\ xfer'.toggle = FALSE
        /\ xfer'.data = <<>> /\ xfer'.left = r.size
    BY <1>1, <1>2, <1>5 DEF Xfer, NothingYet
  <2>5. RequestFits(t, req)'
    BY <1>1, <2>1, <2>3, <2>4 DEF RequestFits, Uploading, node
  <2>6. QED
    BY <1>1, <1>5, <2>1, <2>2, <2>4, <2>5, GoOnXInv
<1>6. QED
  BY <1>3, <1>4, <1>5 DEF ReadInitiated

LEMMA ReadSegmentXInv ==
    ASSUME ~MayBeLate, XInv, NEW t \in Tasks, ReadSegment(t)
    PROVE  Exchange' /\ ReadIsFresh' /\ WriteTookEffect'
<1> DEFINE r    == Head(answer)
           data == xfer.data \o r.data
           left == xfer.left - Len(r.data)
<1>1. /\ pc[t] = "await" /\ answer # <<>> /\ call[t].op = "read"
      /\ xfer.phase = "segment"
      /\ UNCHANGED <<call, rxVars, toHost, node, seen>>
  BY DEF ReadSegment, Answered
<1>2. /\ ReplyFits(t, r) /\ xfer \in Xfer /\ r.data \in Seq(Byte)
  BY <1>1, AnswerFits
<1>3. CASE End(t, "abort", <<>>) \/ End(t, "wrong", <<>>)
  BY <1>1, <1>3, ReturnXInv DEF End
<1>4. CASE /\ r.kind = "upload_segment" /\ ReadDone(r, left)
           /\ End(t, "value", data)
  <2>1. data \in seen[t]
    <3>1. \/ r.complete /\ data \in seen[t]
          \/ ~r.complete /\ Len(r.data) < xfer.left
      BY <1>1, <1>2, <1>4 DEF ReplyFits, ReadReplyFits
    <3>2. xfer.left \in Nat /\ Len(r.data) \in Nat
      BY <1>2 DEF Xfer
    <3>3. ~(Len(r.data) < xfer.left) \/ left > 0
      BY <3>2
    <3>4. QED
      BY <1>4, <3>1, <3>2, <3>3 DEF ReadDone
  <2>2. QED
    BY <1>1, <1>4, <2>1, ReturnXInv DEF End
<1>5. CASE /\ r.kind = "upload_segment" /\ ~ReadDone(r, left)
           /\ xfer' = [xfer EXCEPT !.toggle = ~@, !.data = data, !.left = left]
           /\ GoOn(GenSdoSegmentUpload(~xfer.toggle))
  <2>1. PICK flip : flip = ~xfer.toggle
    OBVIOUS
  <2>2. flip \in BOOLEAN
    BY <2>1
  <2>3. PICK req : req = GenSdoSegmentUpload(flip)
    OBVIOUS
  <2>4. req \in Request
    BY <2>2, <2>3, SegmentUploadFrame
  <2>5. Uploading(t, flip, data, left)
    BY <1>1, <1>2, <1>5, <2>1 DEF ReplyFits, ReadReplyFits, ReadDone
  <2>6. xfer' = [xfer EXCEPT !.toggle = flip, !.data = data, !.left = left]
    BY <1>5, <2>1
  <2> HIDE DEF data, left
  <2>7. /\ xfer'.phase = "segment" /\ xfer'.toggle = flip
        /\ xfer'.data = data /\ xfer'.left = left
    BY <1>1, <1>2, <2>6 DEF Xfer
  <2>8. RequestFits(t, req)'
    BY <1>1, <2>3, <2>5, <2>7 DEF RequestFits, Uploading, node
  <2>9. GoOn(req)
    BY <1>5, <2>1, <2>3
  <2>10. QED
    BY <1>1, <2>4, <2>7, <2>8, <2>9, GoOnXInv
<1>6. QED
  BY <1>3, <1>4, <1>5 DEF ReadSegment

LEMMA WriteInitiatedXInv ==
    ASSUME ~MayBeLate, XInv, NEW t \in Tasks, WriteInitiated(t)
    PROVE  Exchange' /\ ReadIsFresh' /\ WriteTookEffect'
<1> DEFINE r == Head(answer)
           d == call[t].data
<1>1. /\ pc[t] = "await" /\ answer # <<>> /\ call[t].op = "write"
      /\ xfer.phase = "initiate"
      /\ UNCHANGED <<call, rxVars, toHost, node, seen>>
  BY DEF WriteInitiated, Answered
<1>2. /\ ReplyFits(t, r) /\ NothingYet /\ xfer \in Xfer /\ d \in Seq(Byte)
  BY <1>1, AnswerFits DEF Call
<1>3. CASE End(t, "abort", <<>>) \/ End(t, "wrong", <<>>)
  BY <1>1, <1>3, ReturnXInv DEF End
<1>4. CASE /\ r.kind = "initiate_download" /\ Expedited(d)
           /\ End(t, "stored", <<>>)
  <2>1. d \in seen[t]
    BY <1>1, <1>2, <1>4 DEF ReplyFits, WriteReplyFits
  <2>2. QED
    BY <1>1, <1>4, <2>1, ReturnXInv DEF End
<1>5. CASE /\ r.kind = "initiate_download" /\ ~Expedited(d)
           /\ xfer' = [xfer EXCEPT !.phase = "segment"]
           /\ GoOn(GenSdoSegmentDownload(d, 0, xfer.left, FALSE))
  <2>1. PICK req : req = GenSdoSegmentDownload(d, 0, xfer.left, FALSE)
    OBVIOUS
  <2>2. xfer.toggle = FALSE /\ xfer.segment = 0 /\ xfer.left \in Nat
    BY <1>1, <1>2 DEF NothingYet, Xfer
  <2>3. req \in Request
    <3>1. xfer.left = Len(d) - xfer.segment * PacketSize
      BY <1>1 DEF XInv, IInv, WriteLeft
    <3>2. xfer.segment \in Nat /\ xfer.left \in Nat /\ FALSE \in BOOLEAN
      BY <1>2 DEF Xfer
    <3> HIDE DEF d
    <3>3. GenSdoSegmentDownload(d, xfer.segment, xfer.left, FALSE) \in Request
      BY <1>2, <3>1, <3>2, SegmentDownloadFrame
    <3>4. QED
      BY <2>1, <2>2, <3>3
  <2>4. Downloading(t, FALSE, 0)
    BY <1>1, <1>2, <1>5 DEF ReplyFits, WriteReplyFits
  <2>5. /\ xfer'.phase = "segment" /\ xfer'.toggle = FALSE
        /\ xfer'.segment = 0 /\ xfer'.left = xfer.left
    BY <1>2, <1>5, <2>2 DEF Xfer
  <2>6. RequestFits(t, req)'
    BY <1>1, <2>1, <2>4, <2>5 DEF RequestFits, Downloading, node
  <2>7. QED
    BY <1>1, <1>5, <2>1, <2>3, <2>5, <2>6, GoOnXInv
<1>6. QED
  BY <1>3, <1>4, <1>5 DEF WriteInitiated

LEMMA WriteSegmentXInv ==
    ASSUME ~MayBeLate, XInv, NEW t \in Tasks, WriteSegment(t)
    PROVE  Exchange' /\ ReadIsFresh' /\ WriteTookEffect'
<1> DEFINE r    == Head(answer)
           d    == call[t].data
           last == LastSegment(d, xfer.segment, xfer.left)
           left == xfer.left - SegmentLength(xfer.left)
<1>1. /\ pc[t] = "await" /\ answer # <<>> /\ call[t].op = "write"
      /\ xfer.phase = "segment"
      /\ UNCHANGED <<call, rxVars, toHost, node, seen>>
  BY DEF WriteSegment, Answered
<1>2. /\ ReplyFits(t, r) /\ xfer \in Xfer /\ d \in Seq(Byte)
  BY <1>1, AnswerFits DEF Call
<1>3. CASE End(t, "abort", <<>>) \/ End(t, "wrong", <<>>)
  BY <1>1, <1>3, ReturnXInv DEF End
<1>4. CASE r.kind = "download_segment" /\ last /\ End(t, "stored", <<>>)
  <2>1. d \in seen[t]
    BY <1>1, <1>2, <1>4 DEF ReplyFits, WriteReplyFits
  <2>2. QED
    BY <1>1, <1>4, <2>1, ReturnXInv DEF End
<1>5. CASE /\ r.kind = "download_segment" /\ ~last
           /\ xfer' = [xfer EXCEPT !.segment = @ + 1, !.toggle = ~@,
                                   !.left = left]
           /\ GoOn(GenSdoSegmentDownload(d, xfer.segment + 1, left,
                                         ~xfer.toggle))
  <2>1. PICK flip : flip = ~xfer.toggle
    OBVIOUS
  <2>2. PICK next : next = xfer.segment + 1
    OBVIOUS
  <2>3. flip \in BOOLEAN /\ next \in Nat
    BY <1>2, <2>1, <2>2 DEF Xfer
  <2>4. xfer.segment \in Nat /\ xfer.left \in Nat
        /\ xfer.left = Len(d) - xfer.segment * PacketSize
    BY <1>1, <1>2 DEF XInv, IInv, WriteLeft, Xfer
  <2>5. left \in Nat /\ left = Len(d) - next * PacketSize
    <3> DEFINE n   == SegmentLength(xfer.left)
               off == xfer.segment * PacketSize
    <3>1. n = PacketSize /\ xfer.left - n > 0 /\ off + n = next * PacketSize
      BY <1>2, <1>5, <2>2, <2>4, LastSegmentEnds
    <3>2. Len(d) \in Nat /\ off \in Nat /\ n \in Nat /\ xfer.left = Len(d) - off
      BY <1>2, <2>4, <3>1, ConstantsAssumption
    <3> HIDE DEF n, off
    <3>3. xfer.left - n \in Nat /\ xfer.left - n = Len(d) - (off + n)
      BY <2>4, <3>1, <3>2
    <3>4. QED
      BY <3>1, <3>3 DEF n
  <2>6. PICK req : req = GenSdoSegmentDownload(d, next, left, flip)
    OBVIOUS
  <2>7. Downloading(t, flip, next)
    BY <1>1, <1>2, <1>5, <2>1, <2>2 DEF ReplyFits, WriteReplyFits
  <2>8. xfer' = [xfer EXCEPT !.segment = next, !.toggle = flip, !.left = left]
    BY <1>5, <2>1, <2>2
  <2>9. GoOn(req)
    BY <1>5, <2>1, <2>2, <2>6
  <2> HIDE DEF left
  <2>10. req \in Request
    BY <1>2, <2>3, <2>5, <2>6, SegmentDownloadFrame
  <2>11. /\ xfer'.phase = "segment" /\ xfer'.toggle = flip
         /\ xfer'.segment = next /\ xfer'.left = left
    BY <1>1, <1>2, <2>8 DEF Xfer
  <2>12. RequestFits(t, req)'
    BY <1>1, <2>6, <2>7, <2>11 DEF RequestFits, Downloading, node
  <2>13. QED
    BY <1>1, <2>9, <2>10, <2>11, <2>12, GoOnXInv
<1>6. QED
  BY <1>3, <1>4, <1>5 DEF WriteSegment

-----------------------------------------------------------------------------
(* Frames that move, and the node.                                         *)

LEMMA FramesXInv ==
    ASSUME ~MayBeLate, XInv, RxCheck \/ RxSet \/ Lose
    PROVE  Exchange' /\ ReadIsFresh' /\ WriteTookEffect'
<1>1. UNCHANGED <<pc, call, xfer, ret, srv, seen>>
  BY DEF RxCheck, RxSet, Lose, host, node
<1>2. /\ toNode # <<>> => toNode' \in {toNode, <<>>}
      /\ toNode = <<>> => toNode' = <<>>
      /\ \A q \in {toHost', rx', answer'} :
             q # <<>> => \E p \in {toHost, rx, answer} :
                            p # <<>> /\ Head(q) = Head(p)
  <2>1. CASE RxCheck
    <3>1. /\ toNode' = toNode /\ answer' = answer
          /\ toHost' = <<>> /\ rx' \in {<<>>, <<Head(toHost)>>} /\ toHost # <<>>
      BY <2>1, OneFrame DEF XInv, RxCheck, host
    <3>2. Head(<<Head(toHost)>>) = Head(toHost)
      OBVIOUS
    <3>3. QED
      BY <3>1, <3>2
  <2>2. CASE RxSet
    <3>1. UNCHANGED <<toNode, toHost>> /\ rx' = <<>> /\ answer' \in {answer, rx}
      BY <2>2 DEF RxSet, bus
    <3>2. QED
      BY <3>1
  <2>3. CASE Lose
    <3>1. /\ UNCHANGED <<rx, answer>>
          /\ toNode' \in {toNode, <<>>} /\ toHost' \in {toHost, <<>>}
          /\ toNode = <<>> => toNode' = <<>>
      BY <2>3, OneFrame DEF XInv, Lose, host, rxVars
    <3>2. QED
      BY <3>1
  <2>4. QED
    BY <2>1, <2>2, <2>3
<1>3. Exchange'
  <2> SUFFICES ASSUME NEW t \in Tasks, pc[t] = "await"
               PROVE  /\ NothingYet'
                      /\ (toNode # <<>> => RequestFits(t, Head(toNode)))'
                      /\ \A q \in {toHost', rx', answer'} :
                             q # <<>> => ReplyFits(t, Head(q))'
    BY <1>1 DEF Exchange
  <2>1. /\ NothingYet
        /\ toNode # <<>> => RequestFits(t, Head(toNode))
        /\ \A q \in {toHost, rx, answer} : q # <<>> => ReplyFits(t, Head(q))
    BY DEF XInv, Exchange
  <2>2. NothingYet' /\ (\A q : RequestFits(t, q) => RequestFits(t, q)')
        /\ (\A r : ReplyFits(t, r) => ReplyFits(t, r)')
    BY <1>1, <2>1, FitsKept
  <2>3. (toNode # <<>> => RequestFits(t, Head(toNode)))'
    BY <1>2, <2>1, <2>2
  <2>4. QED
    BY <1>2, <2>1, <2>2, <2>3
<1>4. QED
  BY <1>1, <1>3, ResultsKept DEF XInv

(* The fields of the frames the host builds.                               *)
LEMMA FrameFields ==
    /\ \A o : /\ GenSdoInitiateUpload(o).kind = "initiate_upload"
              /\ GenSdoInitiateUpload(o).obj = o
    /\ \A b : /\ GenSdoSegmentUpload(b).kind = "segment_upload"
              /\ GenSdoSegmentUpload(b).toggle = b
    /\ \A o, d : /\ GenSdoInitiateDownload(o, d).kind = "initiate_download"
                 /\ GenSdoInitiateDownload(o, d).obj = o
                 /\ GenSdoInitiateDownload(o, d).expedited <=> Expedited(d)
                 /\ GenSdoInitiateDownload(o, d).size = Len(d)
                 /\ Expedited(d) => GenSdoInitiateDownload(o, d).data = d
    /\ \A d, k, left, b :
          /\ GenSdoSegmentDownload(d, k, left, b).kind = "segment_download"
          /\ GenSdoSegmentDownload(d, k, left, b).toggle = b
          /\ GenSdoSegmentDownload(d, k, left, b).complete
                <=> LastSegment(d, k, left)
          /\ GenSdoSegmentDownload(d, k, left, b).data =
                SubSeq(d, k * PacketSize + 1,
                       k * PacketSize + SegmentLength(left))
<1>1. ASSUME NEW o
      PROVE  /\ GenSdoInitiateUpload(o).kind = "initiate_upload"
             /\ GenSdoInitiateUpload(o).obj = o
  BY DEF GenSdoInitiateUpload, Blank
<1>2. ASSUME NEW b
      PROVE  /\ GenSdoSegmentUpload(b).kind = "segment_upload"
             /\ GenSdoSegmentUpload(b).toggle = b
  BY DEF GenSdoSegmentUpload, Blank
<1>3. ASSUME NEW o, NEW d
      PROVE  /\ GenSdoInitiateDownload(o, d).kind = "initiate_download"
             /\ GenSdoInitiateDownload(o, d).obj = o
             /\ GenSdoInitiateDownload(o, d).expedited <=> Expedited(d)
             /\ GenSdoInitiateDownload(o, d).size = Len(d)
             /\ Expedited(d) => GenSdoInitiateDownload(o, d).data = d
  BY DEF GenSdoInitiateDownload, Blank, Expedited
<1>4. ASSUME NEW d, NEW k, NEW left, NEW b
      PROVE  LET f == GenSdoSegmentDownload(d, k, left, b) IN
             /\ f.kind = "segment_download" /\ f.toggle = b
             /\ f.complete <=> LastSegment(d, k, left)
             /\ f.data = SubSeq(d, k * PacketSize + 1,
                                k * PacketSize + SegmentLength(left))
  BY DEF GenSdoSegmentDownload, Blank, LastSegment
<1>5. QED
  BY <1>1, <1>2, <1>3, <1>4

(* The request the node takes is the one of the task that awaits its reply. *)
LEMMA RequestKinds ==
    ASSUME NEW t, NEW q, RequestFits(t, q)
    PROVE  /\ q.kind = "initiate_upload" =>
                 /\ call[t].op = "read" /\ xfer.phase = "initiate"
                 /\ q.obj = call[t].obj
           /\ q.kind = "segment_upload" =>
                 /\ call[t].op = "read" /\ xfer.phase = "segment"
                 /\ Uploading(t, xfer.toggle, xfer.data, xfer.left)
           /\ q.kind = "initiate_download" =>
                 /\ call[t].op = "write" /\ xfer.phase = "initiate"
                 /\ q = GenSdoInitiateDownload(call[t].obj, call[t].data)
           /\ q.kind = "segment_download" =>
                 /\ call[t].op = "write" /\ xfer.phase = "segment"
                 /\ q = GenSdoSegmentDownload(call[t].data, xfer.segment,
                                              xfer.left, xfer.toggle)
                 /\ Downloading(t, xfer.toggle, xfer.segment)
<1>1. CASE call[t].op = "read" /\ xfer.phase = "initiate"
           /\ q = GenSdoInitiateUpload(call[t].obj)
  BY <1>1, FrameFields
<1>2. CASE /\ call[t].op = "read" /\ xfer.phase = "segment"
           /\ q = GenSdoSegmentUpload(xfer.toggle)
           /\ Uploading(t, xfer.toggle, xfer.data, xfer.left)
  BY <1>2, FrameFields
<1>3. CASE call[t].op = "write" /\ xfer.phase = "initiate"
           /\ q = GenSdoInitiateDownload(call[t].obj, call[t].data)
  BY <1>3, FrameFields
<1>4. CASE /\ call[t].op = "write" /\ xfer.phase = "segment"
           /\ q = GenSdoSegmentDownload(call[t].data, xfer.segment,
                                        xfer.left, xfer.toggle)
           /\ Downloading(t, xfer.toggle, xfer.segment)
  BY <1>4, FrameFields
<1>5. QED
  BY <1>1, <1>2, <1>3, <1>4 DEF RequestFits

LEMMA StoreSeen ==
    ASSUME TypeOK, NEW o, NEW d, Store(o, d), NEW t \in Tasks
    PROVE  /\ seen[t] \subseteq seen'[t]
           /\ pc[t] = "idle" => seen'[t] = seen[t]
           /\ pc[t] # "idle" /\ call[t].obj = o => d \in seen'[t]
BY DEF TypeOK, Store

LEMMA NodeReplyXInv ==
    ASSUME ~MayBeLate, XInv, toNode # <<>>, NEW r \in Reply, NodeReply(r),
           \A t \in Tasks : pc[t] = "idle" => seen'[t] = seen[t],
           \A t \in Tasks : pc[t] = "await" /\ RequestFits(t, Head(toNode))
               => ReplyFits(t, r)'
    PROVE  Exchange' /\ ReadIsFresh' /\ WriteTookEffect'
<1>1. toHost = <<>> /\ rx = <<>> /\ answer = <<>> /\ Tail(toNode) = <<>>
  BY OneFrame DEF XInv
<1>2. toNode' = <<>> /\ toHost' = <<r>> /\ rx' = <<>> /\ answer' = <<>>
  BY <1>1, OnlyOne DEF NodeReply, host, rxVars
<1>3. UNCHANGED <<pc, call, xfer, ret>>
  BY DEF NodeReply, host
<1>4. Exchange'
  <2> SUFFICES ASSUME NEW t \in Tasks, pc[t] = "await"
               PROVE  NothingYet' /\ ReplyFits(t, r)'
    BY <1>2, <1>3, OnlyOne DEF Exchange
  <2>1. NothingYet /\ RequestFits(t, Head(toNode))
    BY DEF XInv, Exchange
  <2>2. QED
    BY <1>3, <2>1 DEF NothingYet
<1>5. QED
  BY <1>3, <1>4, ResultsKept DEF XInv

LEMMA NodeAbortXInv ==
    ASSUME ~MayBeLate, XInv, NodeAbort
    PROVE  Exchange' /\ ReadIsFresh' /\ WriteTookEffect'
<1>1. PICK r : r = [Blank EXCEPT !.obj = Head(toNode).obj]
  OBVIOUS
<1>2. r \in Reply /\ r.kind = "abort"
  BY <1>1, RequestType, RecordTypes DEF XInv, NodeAbort, Reply, FrameOf, Blank
<1>3. \A t \in Tasks : ReplyFits(t, r)'
  BY <1>2 DEF ReplyFits
<1>4. NodeReply(r) /\ toNode # <<>> /\ seen' = seen
  BY <1>1 DEF NodeAbort
<1>5. QED
  BY <1>2, <1>3, <1>4, NodeReplyXInv

LEMMA NodeInitiateUploadXInv ==
    ASSUME ~MayBeLate, XInv, NodeInitiateUpload
    PROVE  Exchange' /\ ReadIsFresh' /\ WriteTookEffect'
<1> DEFINE o == Head(toNode).obj
           d == od[o]
<1>1. PICK r : r = [Blank EXCEPT
                    !.kind = "initiate_upload", !.obj = o,
                    !.expedited = Expedited(d), !.size = Len(d),
                    !.data = IF Expedited(d) THEN d ELSE <<>>]
  OBVIOUS
<1>2. /\ toNode # <<>> /\ Head(toNode).kind = "initiate_upload"
      /\ NodeReply(r) /\ UNCHANGED <<od, seen>>
  BY <1>1 DEF NodeInitiateUpload, NodeTake
<1>3. o \in Objects
  BY <1>2, RequestType DEF XInv
<1>4. d \in Seq(Byte) /\ Len(d) \in Nat /\ Expedited(d) \in BOOLEAN
  BY <1>3 DEF XInv, IInv, TypeOK, Expedited
<1>5. /\ r.kind = "initiate_upload" /\ r.obj = o /\ r.size = Len(d)
      /\ r.expedited <=> Expedited(d)
      /\ Expedited(d) => r.data = d
  BY <1>1 DEF Blank, Expedited
<1>6. r \in Reply
  <2> DEFINE b == Expedited(d)
             data == IF b THEN d ELSE <<>>
             n == Len(d)
  <2>1. b \in BOOLEAN /\ n \in Nat /\ data \in Seq(Byte)
    BY <1>4
  <2> HIDE DEF b, data, n
  <2>2. r = [Blank EXCEPT !.kind = "initiate_upload", !.obj = o,
                          !.expedited = b, !.size = n, !.data = data]
    BY <1>1 DEF b, data, n
  <2> HIDE DEF o
  <2>3. QED
    BY <1>3, <2>1, <2>2, RecordTypes DEF Reply, FrameOf
<1>7. ASSUME NEW t \in Tasks, pc[t] = "await", RequestFits(t, Head(toNode))
      PROVE  ReplyFits(t, r)'
  <2>1. call[t].op = "read" /\ xfer.phase = "initiate" /\ o = call[t].obj
    BY <1>2, <1>7, RequestKinds
  <2>2. d \in seen[t]
    BY <1>7, <2>1 DEF XInv, SeesObject
  <2>3. UNCHANGED <<call, xfer>>
    BY <1>2 DEF NodeReply, host
  <2>4. CASE Expedited(d)
    BY <1>2, <1>5, <2>1, <2>2, <2>3, <2>4 DEF ReplyFits, ReadReplyFits
  <2>5. CASE ~Expedited(d)
    <3>1. srv' = [NoTransfer EXCEPT !.dir = "up", !.obj = o, !.data = d]
      BY <2>5 DEF NodeInitiateUpload
    <3>2. srv'.dir = "up" /\ srv'.toggle = FALSE /\ srv'.data = d
      BY <3>1 DEF NoTransfer
    <3>3. <<>> \o d = d
      BY <1>4, ConcatEmptySeq
    <3>4. Uploading(t, FALSE, <<>>, r.size)'
      BY <1>2, <1>5, <2>2, <3>2, <3>3 DEF Uploading
    <3>5. r.size # 0
      BY <1>4, <1>5, <2>5, ConstantsAssumption DEF Expedited
    <3>6. QED
      BY <1>5, <2>1, <2>3, <2>5, <3>4, <3>5 DEF ReplyFits, ReadReplyFits
  <2>6. QED
    BY <2>4, <2>5
<1>8. QED
  BY <1>2, <1>6, <1>7, NodeReplyXInv

LEMMA NodeSegmentUploadXInv ==
    ASSUME ~MayBeLate, XInv, NodeSegmentUpload
    PROVE  Exchange' /\ ReadIsFresh' /\ WriteTookEffect'
<1> DEFINE d == srv.data
           n == SegmentLength(Len(d))
           part == SubSeq(d, 1, n)
           rest == SubSeq(d, n + 1, Len(d))
<1>1. PICK r : r = [Blank EXCEPT
                    !.kind = "upload_segment", !.toggle = srv.toggle,
                    !.data = part, !.complete = (n = Len(d))]
  OBVIOUS
<1>2. /\ toNode # <<>> /\ Head(toNode).kind = "segment_upload"
      /\ NodeReply(r) /\ UNCHANGED <<od, seen>>
  BY <1>1 DEF NodeSegmentUpload, NodeTake
<1>3. srv \in Transfer /\ d \in Seq(Byte) /\ srv.toggle \in BOOLEAN
  BY DEF XInv, IInv, TypeOK, Transfer, TransferOf
<1>4. Len(d) \in Nat /\ n \in Nat /\ n <= Len(d)
  BY <1>3, SegmentLengthBound
<1>5. /\ part \in Seq(Byte) /\ Len(part) = n
      /\ rest \in Seq(Byte) /\ Len(rest) = Len(d) - n
      /\ part \o rest = d
  <2> HIDE DEF n, d
  <2>1. QED
    BY <1>3, <1>4, SplitData
<1>6. n = Len(d) => part = d
  BY <1>3, SubSeqFull
<1>7. /\ r.kind = "upload_segment" /\ r.data = part
      /\ r.complete <=> n = Len(d)
  BY <1>1 DEF Blank
<1>8. r \in Reply
  <2> DEFINE last == n = Len(d)
  <2>1. last \in BOOLEAN
    OBVIOUS
  <2> HIDE DEF part, last
  <2>2. r = [Blank EXCEPT !.kind = "upload_segment", !.toggle = srv.toggle,
                          !.data = part, !.complete = last]
    BY <1>1 DEF last
  <2>3. QED
    BY <1>3, <1>5, <2>1, <2>2, RecordTypes DEF Reply, FrameOf
<1>9. ~(n = Len(d)) => /\ srv'.dir = srv.dir /\ srv'.toggle = ~srv.toggle
                       /\ srv'.data = rest
  BY <1>3 DEF NodeSegmentUpload, Transfer, TransferOf
<1> HIDE DEF d, n, part, rest
<1>10. ASSUME NEW t \in Tasks, pc[t] = "await", RequestFits(t, Head(toNode))
       PROVE  ReplyFits(t, r)'
  <2>1. /\ call[t].op = "read" /\ xfer.phase = "segment"
        /\ srv.dir = "up" /\ srv.toggle = xfer.toggle
        /\ Len(d) = xfer.left /\ xfer.data \o d \in seen[t]
    BY <1>2, <1>10, RequestKinds DEF Uploading, d
  <2>2. UNCHANGED <<call, xfer, seen>>
    BY <1>2 DEF NodeReply, host
  <2>3. CASE n = Len(d)
    <3>1. r.complete /\ xfer.data \o r.data \in seen[t]
      BY <1>6, <1>7, <2>1, <2>3
    <3>2. QED
      BY <2>1, <2>2, <3>1 DEF ReplyFits, ReadReplyFits
  <2>4. CASE n # Len(d)
    <3>1. xfer.data \in Seq(Byte)
      BY DEF XInv, IInv, TypeOK, Xfer
    <3>2. (xfer.data \o part) \o rest = xfer.data \o d
      <4>1. part \in Seq(Byte) /\ rest \in Seq(Byte) /\ part \o rest = d
        BY <1>5
      <4>2. (xfer.data \o part) \o rest = xfer.data \o (part \o rest)
        BY <3>1, <4>1, RegroupData
      <4>3. QED
        BY <4>1, <4>2
    <3>3. Len(r.data) < xfer.left /\ Len(rest) = xfer.left - Len(r.data)
      BY <1>4, <1>5, <1>7, <2>1, <2>4
    <3>4. Uploading(t, ~xfer.toggle, xfer.data \o r.data,
                    xfer.left - Len(r.data))'
      BY <1>7, <1>9, <2>1, <2>2, <2>4, <3>2, <3>3 DEF Uploading
    <3>5. ~r.complete
      BY <1>7, <2>4
    <3>6. QED
      BY <2>1, <2>2, <3>3, <3>4, <3>5 DEF ReplyFits, ReadReplyFits
  <2>5. QED
    BY <2>3, <2>4
<1>11. QED
  BY <1>2, <1>8, <1>10, NodeReplyXInv

LEMMA NodeInitiateDownloadXInv ==
    ASSUME ~MayBeLate, XInv, NodeInitiateDownload
    PROVE  Exchange' /\ ReadIsFresh' /\ WriteTookEffect'
<1> DEFINE q == Head(toNode)
<1>1. PICK r : r = [Blank EXCEPT !.kind = "initiate_download", !.obj = q.obj]
  OBVIOUS
<1>2. /\ toNode # <<>> /\ q.kind = "initiate_download" /\ NodeReply(r)
  BY <1>1 DEF NodeInitiateDownload, NodeTake
<1>3. q.obj \in Objects
  BY <1>2, RequestType DEF XInv
<1>4. r \in Reply
  BY <1>1, <1>3, RecordTypes DEF Reply, FrameOf
<1>5. UNCHANGED <<call, xfer, pc>>
  BY <1>2 DEF NodeReply, host
<1>6. CASE q.expedited
  <2>1. Store(q.obj, q.data)
    BY <1>6 DEF NodeInitiateDownload
  <2>2. ASSUME NEW t \in Tasks, pc[t] = "await", RequestFits(t, q)
        PROVE  ReplyFits(t, r)'
    <3>1. /\ call[t].op = "write" /\ xfer.phase = "initiate"
          /\ q = GenSdoInitiateDownload(call[t].obj, call[t].data)
      BY <1>2, <2>2, RequestKinds
    <3>2. Expedited(call[t].data) /\ q.data = call[t].data /\ q.obj = call[t].obj
      BY <1>6, <3>1, FrameFields
    <3>3. call[t].data \in seen'[t]
      BY <2>1, <2>2, <3>2, StoreSeen DEF XInv, IInv
    <3>4. QED
      BY <1>5, <3>1, <3>2, <3>3 DEF ReplyFits, WriteReplyFits
  <2>3. \A t \in Tasks : pc[t] = "idle" => seen'[t] = seen[t]
    BY <2>1, StoreSeen DEF XInv, IInv
  <2>4. QED
    BY <1>2, <1>4, <2>2, <2>3, NodeReplyXInv
<1>7. CASE ~q.expedited
  <2>1. /\ UNCHANGED <<od, seen>>
        /\ srv' = [NoTransfer EXCEPT !.dir = "down", !.obj = q.obj,
                                     !.size = q.size]
    BY <1>7 DEF NodeInitiateDownload
  <2>2. ASSUME NEW t \in Tasks, pc[t] = "await", RequestFits(t, q)
        PROVE  ReplyFits(t, r)'
    <3>1. /\ call[t].op = "write" /\ xfer.phase = "initiate"
          /\ q = GenSdoInitiateDownload(call[t].obj, call[t].data)
      BY <1>2, <2>2, RequestKinds
    <3>2. /\ ~Expedited(call[t].data) /\ q.size = Len(call[t].data)
          /\ q.obj = call[t].obj
      BY <1>7, <3>1, FrameFields
    <3>3. SubSeq(call[t].data, 1, 0 * PacketSize) = <<>>
      <4>1. 0 * PacketSize = 0
        BY ConstantsAssumption
      <4>2. QED
        BY <4>1, SubSeqEmpty
    <3>4. /\ srv'.dir = "down" /\ srv'.toggle = FALSE /\ srv'.data = <<>>
          /\ srv'.obj = q.obj /\ srv'.size = q.size
      BY <2>1 DEF NoTransfer
    <3>5. Downloading(t, FALSE, 0)'
      BY <1>5, <3>2, <3>3, <3>4 DEF Downloading
    <3>6. QED
      BY <1>5, <3>1, <3>2, <3>5 DEF ReplyFits, WriteReplyFits
  <2>3. QED
    BY <1>2, <1>4, <2>1, <2>2, NodeReplyXInv
<1>8. QED
  BY <1>6, <1>7

(* The segment the node takes continues what it has, and the last one      *)
(* completes it.                                                           *)
LEMMA SegmentTaken ==
    ASSUME XInv, NEW t \in Tasks, pc[t] = "await",
           Head(toNode).kind = "segment_download", RequestFits(t, Head(toNode))
    PROVE  LET q   == Head(toNode)
               all == srv.data \o q.data
               d   == call[t].data
           IN
           /\ call[t].op = "write" /\ xfer.phase = "segment"
           /\ srv.obj = call[t].obj /\ srv.size = Len(d)
           /\ srv.toggle = xfer.toggle
           /\ q.complete <=> LastSegment(d, xfer.segment, xfer.left)
           /\ IF q.complete
                 THEN all = d
                 ELSE all = SubSeq(d, 1, (xfer.segment + 1) * PacketSize)
<1> DEFINE q   == Head(toNode)
           all == srv.data \o q.data
<1> DEFINE d   == call[t].data
           k   == xfer.segment
           off == k * PacketSize
           n   == SegmentLength(xfer.left)
<1>1. /\ call[t].op = "write" /\ xfer.phase = "segment"
      /\ q = GenSdoSegmentDownload(d, k, xfer.left, xfer.toggle)
      /\ Downloading(t, xfer.toggle, k)
  BY RequestKinds
<1>2. /\ q.complete <=> LastSegment(d, k, xfer.left)
      /\ q.data = SubSeq(d, off + 1, off + n)
  BY <1>1, FrameFields
<1>3. /\ srv.obj = call[t].obj /\ srv.size = Len(d)
      /\ srv.toggle = xfer.toggle /\ srv.data = SubSeq(d, 1, off)
  BY <1>1 DEF Downloading
<1>4. /\ call[t] \in Call /\ k \in Nat /\ xfer.left \in Nat
      /\ xfer.left = Len(d) - off
  BY <1>1 DEF XInv, IInv, TypeOK, Calling, WriteLeft, Xfer
<1>5. d \in Seq(Byte) /\ Len(d) \in Nat
  BY <1>4 DEF Call
<1>6. off \in Nat /\ n \in Nat /\ n <= xfer.left
  <2>1. off \in Nat
    BY <1>4, ConstantsAssumption
  <2> HIDE DEF off
  <2>2. QED
    BY <1>4, <2>1, SegmentLengthBound
<1> HIDE DEF d, off, n
<1>7. off + n <= Len(d)
  BY <1>4, <1>5, <1>6
<1>8. all = SubSeq(d, 1, off + n)
  BY <1>2, <1>3, <1>5, <1>6, <1>7, OneMoreSegment
<1>9. CASE q.complete
  <2>1. off + n = Len(d)
    BY <1>2, <1>4, <1>5, <1>9, LastSegmentEnds DEF off, n
  <2>2. all = d
    BY <1>5, <1>8, <2>1, SubSeqFull
  <2>3. QED
    BY <1>1, <1>2, <1>3, <1>9, <2>2 DEF d
<1>10. CASE ~q.complete
  <2>1. off + n = (k + 1) * PacketSize
    BY <1>2, <1>4, <1>5, <1>10, LastSegmentEnds DEF off, n
  <2>2. QED
    BY <1>1, <1>2, <1>3, <1>8, <1>10, <2>1 DEF d
<1>11. QED
  BY <1>9, <1>10

LEMMA NodeSegmentDownloadXInv ==
    ASSUME ~MayBeLate, XInv, NodeSegmentDownload
    PROVE  Exchange' /\ ReadIsFresh' /\ WriteTookEffect'
<1> DEFINE q == Head(toNode)
           all == srv.data \o q.data
<1>1. PICK r : r = [Blank EXCEPT !.kind = "download_segment", !.toggle = q.toggle]
  OBVIOUS
<1>2. /\ toNode # <<>> /\ q.kind = "segment_download" /\ NodeReply(r)
      /\ q.toggle \in BOOLEAN
  BY <1>1, RequestType DEF XInv, NodeSegmentDownload, NodeTake
<1>3. r \in Reply
  BY <1>1, <1>2, RecordTypes DEF Reply, FrameOf
<1>4. UNCHANGED <<call, xfer, pc>>
  BY <1>2 DEF NodeReply, host
<1>5. ASSUME NEW t \in Tasks, pc[t] = "await", RequestFits(t, q)
      PROVE  LET d == call[t].data IN
             /\ call[t].op = "write" /\ xfer.phase = "segment"
             /\ srv.obj = call[t].obj /\ srv.size = Len(d)
             /\ srv.toggle = xfer.toggle
             /\ q.complete <=> LastSegment(d, xfer.segment, xfer.left)
             /\ IF q.complete
                   THEN all = d
                   ELSE all = SubSeq(d, 1, (xfer.segment + 1) * PacketSize)
  BY <1>2, <1>5, SegmentTaken
<1>6. CASE q.complete
  <2>1. Store(srv.obj, all)
    BY <1>6 DEF NodeSegmentDownload
  <2> HIDE DEF all
  <2>2. ASSUME NEW t \in Tasks, pc[t] = "await", RequestFits(t, q)
        PROVE  ReplyFits(t, r)'
    <3>1. call[t].data \in seen'[t]
      BY <1>5, <1>6, <2>1, <2>2, StoreSeen DEF XInv, IInv
    <3>2. QED
      BY <1>4, <1>5, <1>6, <2>2, <3>1 DEF ReplyFits, WriteReplyFits
  <2>3. \A t \in Tasks : pc[t] = "idle" => seen'[t] = seen[t]
    BY <2>1, StoreSeen DEF XInv, IInv
  <2>4. QED
    BY <1>2, <1>3, <2>2, <2>3, NodeReplyXInv
<1>7. CASE ~q.complete
  <2>1. /\ UNCHANGED <<od, seen>>
        /\ srv' = [srv EXCEPT !.toggle = ~@, !.data = all]
        /\ srv.dir = "down" /\ srv \in Transfer
    BY <1>7 DEF NodeSegmentDownload, XInv, IInv, TypeOK
  <2> HIDE DEF all
  <2>2. /\ srv'.dir = "down" /\ srv'.toggle = ~srv.toggle /\ srv'.data = all
        /\ srv'.obj = srv.obj /\ srv'.size = srv.size
    BY <2>1 DEF Transfer, TransferOf
  <2>3. ASSUME NEW t \in Tasks, pc[t] = "await", RequestFits(t, q)
        PROVE  ReplyFits(t, r)'
    <3>1. Downloading(t, ~xfer.toggle, xfer.segment + 1)'
      BY <1>4, <1>5, <1>7, <2>2, <2>3 DEF Downloading
    <3>2. QED
      BY <1>4, <1>5, <1>7, <2>3, <3>1 DEF ReplyFits, WriteReplyFits
  <2>4. QED
    BY <1>2, <1>3, <2>1, <2>3, NodeReplyXInv
<1>8. QED
  BY <1>6, <1>7

LEMMA NodeChangeXInv ==
    ASSUME XInv, NEW o \in Objects, NodeChange(o)
    PROVE  Exchange' /\ ReadIsFresh' /\ WriteTookEffect'
<1>1. PICK d \in Payloads(o) : Store(o, d)
  BY DEF NodeChange
<1>2. \A t \in Tasks : /\ seen[t] \subseteq seen'[t]
                       /\ pc[t] = "idle" => seen'[t] = seen[t]
  BY <1>1, StoreSeen DEF XInv, IInv
<1>3. UNCHANGED <<pc, call, xfer, ret, srv, toNode, toHost, rx, answer>>
  BY DEF NodeChange, host, rxVars, bus
<1>4. QED
  BY <1>2, <1>3, ExchangeKept, ResultsKept DEF XInv

(* What an object holds is seen by those who read it: from the call on, and *)
(* with every change.                                                      *)
LEMMA SeesObjectStep ==
    ASSUME IInv, SeesObject, [Next]_vars
    PROVE  SeesObject'
<1>1. ASSUME NEW t \in Tasks, EnterRead(t) \/ EnterWrite(t)
      PROVE  SeesObject'
  <2>1. PICK c : Enter(t, c)
    BY <1>1 DEF EnterRead, EnterWrite
  <2>2. QED
    BY <2>1 DEF IInv, TypeOK, SeesObject, Enter, node
<1>2. ASSUME UNCHANGED <<od, seen, call>>,
             \A u \in Tasks : pc'[u] # "idle" => pc[u] # "idle"
      PROVE  SeesObject'
  BY <1>2 DEF SeesObject
<1>3. ASSUME NEW o, NEW d, Store(o, d), UNCHANGED <<pc, call>>
      PROVE  SeesObject'
  BY <1>3 DEF IInv, TypeOK, Calling, Call, SeesObject, Store
<1>4. ASSUME NEW t \in Tasks, TaskStep(t), ~EnterRead(t), ~EnterWrite(t)
      PROVE  SeesObject'
  <2>1. UNCHANGED <<od, seen, call>>
    BY <1>4 DEF TaskStep, Start, Begin, Timeout, ReadInitiated, ReadSegment,
                WriteInitiated, WriteSegment, node
  <2>2. \A u \in Tasks : pc'[u] # "idle" => pc[u] # "idle"
    BY <1>4 DEF IInv, TypeOK, TaskStep, Start, Begin, Timeout, ReadInitiated, ReadSegment,
                WriteInitiated, WriteSegment, Answered, End, GoOn, Return
  <2>3. QED
    BY <1>2, <2>1, <2>2
<1>5. CASE RxCheck \/ RxSet \/ Lose \/ UNCHANGED vars
  BY <1>2, <1>5 DEF RxCheck, RxSet, Lose, host, node, vars
<1>6. CASE NodeStep
  <2>1. UNCHANGED <<pc, call>>
    BY <1>6 DEF NodeStep, NodeAbort, NodeInitiateUpload, NodeSegmentUpload,
                NodeInitiateDownload, NodeSegmentDownload, NodeReply, host
  <2>2. UNCHANGED <<od, seen>> \/ \E o, d : Store(o, d)
    BY <1>6 DEF NodeStep, NodeAbort, NodeInitiateUpload, NodeSegmentUpload,
                NodeInitiateDownload, NodeSegmentDownload
  <2>3. QED
    BY <1>2, <1>3, <2>1, <2>2
<1>7. ASSUME NEW o \in Objects, NodeChange(o)
      PROVE  SeesObject'
  BY <1>3, <1>7 DEF NodeChange, host
<1>8. QED
  BY <1>1, <1>4, <1>5, <1>6, <1>7 DEF Next

LEMMA InitXInv == Init => XInv
<1> SUFFICES ASSUME Init PROVE XInv
  OBVIOUS
<1>1. Exchange /\ SeesObject
  BY DEF Init, Exchange, SeesObject
<1>2. ReadIsFresh /\ WriteTookEffect
  BY DEF Init, ReadIsFresh, WriteTookEffect, NoResult
<1>3. QED
  BY <1>1, <1>2, InitIInv DEF XInv

LEMMA NextXInv ==
    ASSUME ~MayBeLate, XInv, [Next]_vars
    PROVE  XInv'
<1>1. IInv' /\ SeesObject'
  BY NextIInv, SeesObjectStep DEF XInv
<1>2. Exchange' /\ ReadIsFresh' /\ WriteTookEffect'
  <2>1. ASSUME NEW t \in Tasks, TaskStep(t)
        PROVE  Exchange' /\ ReadIsFresh' /\ WriteTookEffect'
    BY <2>1, EnterXInv, StartXInv, TimeoutXInv, ReadInitiatedXInv,
       ReadSegmentXInv, WriteInitiatedXInv, WriteSegmentXInv DEF TaskStep
  <2>2. CASE RxCheck \/ RxSet \/ Lose
    BY <2>2, FramesXInv
  <2>3. CASE NodeStep
    BY <2>3, NodeAbortXInv, NodeInitiateUploadXInv, NodeSegmentUploadXInv,
       NodeInitiateDownloadXInv, NodeSegmentDownloadXInv DEF NodeStep
  <2>4. CASE \E o \in Objects : NodeChange(o)
    BY <2>4, NodeChangeXInv
  <2>5. CASE UNCHANGED vars
    BY <2>5, ExchangeKept, ResultsKept DEF XInv, vars, host, rxVars, bus, node
  <2>6. QED
    BY <2>1, <2>2, <2>3, <2>4, <2>5 DEF Next
<1>3. QED
  BY <1>1, <1>2 DEF XInv

(* While no reply is late, a read that returns delivers, whole and unmixed, *)
(* a content that its own object held during the call, whatever frames are *)
(* lost, whichever calls run into time-outs, and whoever else calls        *)
(* (sdo_read, bus_node.py:57-161).                                         *)
THEOREM ReadsAreFresh ==
    ASSUME ~MayBeLate
    PROVE  Spec => []ReadIsFresh
<1>1. XInv => ReadIsFresh
  BY DEF XInv
<1>2. XInv /\ [Next]_vars => XInv'
  BY NextXInv
<1>3. QED
  BY <1>1, <1>2, InitXInv, PTL DEF Spec

(* While no reply is late, a write that returns has put its bytes into its *)
(* own object during the call (sdo_write, bus_node.py:163-283).            *)
THEOREM WritesTakeEffect ==
    ASSUME ~MayBeLate
    PROVE  Spec => []WriteTookEffect
<1>1. XInv => WriteTookEffect
  BY DEF XInv
<1>2. XInv /\ [Next]_vars => XInv'
  BY NextXInv
<1>3. QED
  BY <1>1, <1>2, InitXInv, PTL DEF Spec

-----------------------------------------------------------------------------
(* The client implements module SdoStore.                                  *)

Active == {t \in Tasks : pc[t] # "idle"}

LEMMA EnterAsks ==
    ASSUME XInv, NEW t \in Tasks, EnterRead(t) \/ EnterWrite(t)
    PROVE  Abstract!Ask(t)
<1>1. PICK o \in Objects :
          \E d \in Payloads(o) : \E op \in {"read", "write"} :
              Enter(t, [op |-> op, obj |-> o,
                        data |-> IF op = "read" THEN <<>> ELSE d])
  <2>1. \A o \in Objects : Payloads(o) # {}
    BY ConstantsAssumption DEF Payloads
  <2>2. CASE EnterRead(t)
    <3>1. PICK o \in Objects : Enter(t, [op |-> "read", obj |-> o, data |-> <<>>])
      BY <2>2 DEF EnterRead
    <3>2. PICK d : d \in Payloads(o)
      BY <2>1
    <3>3. Enter(t, [op |-> "read", obj |-> o,
                    data |-> IF "read" = "read" THEN <<>> ELSE d])
      BY <3>1
    <3>4. QED
      BY <3>2, <3>3
  <2>3. CASE EnterWrite(t)
    <3>1. PICK o \in Objects :
              \E d \in Payloads(o) : Enter(t, [op |-> "write", obj |-> o, data |-> d])
      BY <2>3 DEF EnterWrite
    <3>2. \A d : Enter(t, [op |-> "write", obj |-> o, data |-> d]) =>
                 Enter(t, [op |-> "write", obj |-> o,
                           data |-> IF "write" = "read" THEN <<>> ELSE d])
      OBVIOUS
    <3>3. QED
      BY <3>1, <3>2
  <2>4. QED
    BY <2>2, <2>3
<1>2. PICK d \in Payloads(o), op \in {"read", "write"} :
          Enter(t, [op |-> op, obj |-> o,
                    data |-> IF op = "read" THEN <<>> ELSE d])
  BY <1>1
<1> DEFINE c == [op |-> op, obj |-> o, data |-> IF op = "read" THEN <<>> ELSE d]
<1>3. t \notin Active /\ Active' = Active \cup {t}
  BY <1>2 DEF Enter, Active, XInv, IInv, TypeOK
<1>4. /\ call' = [call EXCEPT ![t] = c]
      /\ ret' = [ret EXCEPT ![t] = [kind |-> "none", data |-> <<>>]]
      /\ seen' = [seen EXCEPT ![t] = IF op = "read" THEN {od[o]} ELSE {}]
      /\ od' = od
  BY <1>2 DEF Enter, NoResult, node
<1>5. QED
  BY <1>3, <1>4 DEF Abstract!Ask, Active

(* A call ends with an answer the store could have given: the invariant of *)
(* the next state says where the data come from.                           *)
LEMMA ReturnAnswers ==
    ASSUME XInv, ReadIsFresh', WriteTookEffect',
           NEW t \in Tasks, pc[t] = "await",
           NEW kind, NEW data, Return(t, kind, data),
           \/ kind \in {"timeout", "abort", "wrong"} /\ data = <<>>
           \/ kind = "value" /\ call[t].op = "read"
           \/ kind = "stored" /\ call[t].op = "write" /\ data = <<>>,
           UNCHANGED <<od, call, seen>>
    PROVE  Abstract!Answer(t)
<1>1. /\ pc' = [pc EXCEPT ![t] = "idle"]
      /\ ret' = [ret EXCEPT ![t] = [kind |-> kind, data |-> data]]
  BY DEF Return
<1>2. t \in Active /\ Active' = Active \ {t}
  BY <1>1 DEF Active, XInv, IInv, TypeOK
<1>3. pc'[t] = "idle" /\ ret'[t].kind = kind /\ ret'[t].data = data
  BY <1>1 DEF XInv, IInv, TypeOK
<1>4. /\ kind = "value" => data \in seen[t]
      /\ kind = "stored" => call[t].data \in seen[t]
  BY <1>3 DEF ReadIsFresh, WriteTookEffect
<1>5. [kind |-> kind, data |-> data] \in Abstract!Answers(t)
  BY <1>4 DEF Abstract!Answers
<1>6. QED
  BY <1>1, <1>2, <1>5 DEF Abstract!Answer, Active

(* A call that ends is an answer of the store; one that goes on is nothing *)
(* its caller sees.                                                        *)
LEMMA CallStepImplements ==
    ASSUME XInv, ReadIsFresh', WriteTookEffect', NEW t \in Tasks, TaskStep(t)
    PROVE  \/ Abstract!Ask(t) \/ Abstract!Answer(t)
           \/ UNCHANGED <<od, Active, call, seen, ret>>
<1>1. CASE EnterRead(t) \/ EnterWrite(t)
  BY <1>1, EnterAsks
<1>2. CASE Start(t)
  <2>1. pc[t] = "lock" /\ pc' = [pc EXCEPT ![t] = "await"]
    BY <1>2 DEF Start, Begin
  <2>2. UNCHANGED Active
    BY <2>1 DEF Active, XInv, IInv, TypeOK
  <2>3. QED
    BY <1>2, <2>2 DEF Start, Begin, node
<1>3. CASE Timeout(t)
  BY <1>3, ReturnAnswers DEF Timeout, node
<1>4. ASSUME NEW op, NEW phase, Answered(t, op, phase), NEW kind, NEW data,
             End(t, kind, data), UNCHANGED <<call, node, seen>>,
             \/ kind \in {"abort", "wrong"} /\ data = <<>>
             \/ kind = "value" /\ op = "read"
             \/ kind = "stored" /\ op = "write" /\ data = <<>>
      PROVE  Abstract!Answer(t)
  BY <1>4, ReturnAnswers DEF Answered, End, node
<1>5. ASSUME NEW req, GoOn(req), UNCHANGED <<call, node, seen>>
      PROVE  UNCHANGED <<od, Active, call, seen, ret>>
  BY <1>5 DEF GoOn, Active, node
<1>6. CASE ReadInitiated(t)
  <2>1. /\ Answered(t, "read", "initiate") /\ UNCHANGED <<call, node, seen>>
        /\ \/ \E kind \in {"abort", "wrong"} : End(t, kind, <<>>)
           \/ \E data : End(t, "value", data)
           \/ \E req : GoOn(req)
    BY <1>6 DEF ReadInitiated
  <2>2. QED
    BY <1>4, <1>5, <2>1
<1>7. CASE ReadSegment(t)
  <2>1. /\ Answered(t, "read", "segment") /\ UNCHANGED <<call, node, seen>>
        /\ \/ \E kind \in {"abort", "wrong"} : End(t, kind, <<>>)
           \/ \E data : End(t, "value", data)
           \/ \E req : GoOn(req)
    BY <1>7 DEF ReadSegment
  <2>2. QED
    BY <1>4, <1>5, <2>1
<1>8. CASE WriteInitiated(t)
  <2>1. /\ Answered(t, "write", "initiate") /\ UNCHANGED <<call, node, seen>>
        /\ \/ \E kind \in {"abort", "wrong", "stored"} : End(t, kind, <<>>)
           \/ \E req : GoOn(req)
    BY <1>8 DEF WriteInitiated
  <2>2. QED
    BY <1>4, <1>5, <2>1
<1>9. CASE WriteSegment(t)
  <2>1. /\ Answered(t, "write", "segment") /\ UNCHANGED <<call, node, seen>>
        /\ \/ \E kind \in {"abort", "wrong", "stored"} : End(t, kind, <<>>)
           \/ \E req : GoOn(req)
    BY <1>9 DEF WriteSegment
  <2>2. QED
    BY <1>4, <1>5, <2>1
<1>10. QED
  BY <1>1, <1>2, <1>3, <1>6, <1>7, <1>8, <1>9 DEF TaskStep

LEMMA StoreTakes ==
    ASSUME NEW o, NEW d, Store(o, d), UNCHANGED <<pc, call, ret>>
    PROVE  Abstract!Take(o, d)
<1>1. /\ od' = [od EXCEPT ![o] = d]
      /\ seen' = [t \in Tasks |-> IF pc[t] # "idle" /\ call[t].obj = o
                                     THEN seen[t] \cup {d} ELSE seen[t]]
  BY DEF Store
<1>2. UNCHANGED Active
  BY DEF Active
<1>3. seen' = [t \in Tasks |-> IF t \in Active /\ call[t].obj = o
                                  THEN seen[t] \cup {d} ELSE seen[t]]
  BY <1>1 DEF Active
<1>4. QED
  BY <1>1, <1>2, <1>3 DEF Abstract!Take, Active

(* The frame that carries a write, or its last segment, is its moment.     *)
LEMMA NodeStepImplements ==
    ASSUME ~MayBeLate, XInv, NodeStep
    PROVE  \/ \E t \in Tasks : Abstract!Write(t)
           \/ UNCHANGED <<od, Active, call, seen, ret>>
<1> DEFINE q == Head(toNode)
<1>1. UNCHANGED <<pc, call, ret>> /\ UNCHANGED Active /\ toNode # <<>>
  BY DEF NodeStep, NodeAbort, NodeInitiateUpload, NodeSegmentUpload,
         NodeInitiateDownload, NodeSegmentDownload, NodeReply, NodeTake,
         host, Active
<1>2. PICK t \in Tasks : pc[t] = "await"
  BY <1>1, OneFrame DEF XInv
<1>3. RequestFits(t, q) /\ t \in Active
  BY <1>1, <1>2 DEF XInv, Exchange, Active
<1>4. ASSUME Store(call[t].obj, call[t].data), call[t].op = "write"
      PROVE  Abstract!Write(t)
  BY <1>1, <1>3, <1>4, StoreTakes DEF Abstract!Write, Active
<1>5. CASE NodeInitiateDownload /\ q.expedited
  <2>1. /\ call[t].op = "write"
        /\ q = GenSdoInitiateDownload(call[t].obj, call[t].data)
    BY <1>3, <1>5, RequestKinds DEF NodeInitiateDownload, NodeTake
  <2>2. q.data = call[t].data /\ q.obj = call[t].obj
    BY <1>5, <2>1, FrameFields
  <2>3. QED
    BY <1>4, <1>5, <2>1, <2>2 DEF NodeInitiateDownload
<1>6. CASE NodeSegmentDownload /\ q.complete
  <2>1. /\ call[t].op = "write" /\ srv.obj = call[t].obj
        /\ srv.data \o q.data = call[t].data
    BY <1>2, <1>3, <1>6, SegmentTaken DEF NodeSegmentDownload, NodeTake
  <2>2. QED
    BY <1>4, <1>6, <2>1 DEF NodeSegmentDownload
<1>7. CASE UNCHANGED <<od, seen>>
  BY <1>1, <1>7
<1>8. QED
  BY <1>5, <1>6, <1>7 DEF NodeStep, NodeAbort, NodeInitiateUpload,
     NodeSegmentUpload, NodeInitiateDownload, NodeSegmentDownload

LEMMA NextImplements ==
    ASSUME ~MayBeLate, XInv, [Next]_vars
    PROVE  [Abstract!Next]_<<od, {t \in Tasks : pc[t] # "idle"}, call, seen, ret>>
<1>1. ReadIsFresh' /\ WriteTookEffect'
  BY NextXInv DEF XInv
<1>2. \/ \E t \in Tasks : Abstract!Ask(t) \/ Abstract!Write(t) \/ Abstract!Answer(t)
      \/ \E o \in Objects : Abstract!Change(o)
      \/ UNCHANGED <<od, Active, call, seen, ret>>
  <2>1. CASE \E t \in Tasks : TaskStep(t)
    BY <1>1, <2>1, CallStepImplements
  <2>2. CASE RxCheck \/ RxSet \/ Lose \/ UNCHANGED vars
    BY <2>2 DEF RxCheck, RxSet, Lose, vars, host, node, Active
  <2>3. CASE NodeStep
    BY <2>3, NodeStepImplements
  <2>4. ASSUME NEW o \in Objects, NodeChange(o)
        PROVE  Abstract!Change(o)
    BY <2>4, StoreTakes DEF NodeChange, host, Abstract!Change
  <2>5. QED
    BY <2>1, <2>2, <2>3, <2>4 DEF Next
<1>3. QED
  BY <1>2 DEF Abstract!Next, Active

(* To its callers the client is the store of objects of module SdoStore,   *)
(* while no reply is late (bus_node.py:57-283).                            *)
THEOREM ClientImplementsStore ==
    ASSUME ~MayBeLate
    PROVE  Spec => ImplementsStore
<1>1. Init => Abstract!Init
  BY DEF Init, Abstract!Init
<1>2. XInv /\ [Next]_vars =>
          [Abstract!Next]_<<od, {t \in Tasks : pc[t] # "idle"}, call, seen, ret>>
  BY NextImplements
<1>3. XInv /\ [Next]_vars => XInv'
  BY NextXInv
<1>4. QED
  BY <1>1, <1>2, <1>3, InitXInv, PTL
     DEF Spec, ImplementsStore, Abstract!Spec, Abstract!vars

-----------------------------------------------------------------------------
(* Late replies: what one frame carries is whole and of its own object.    *)

LEMMA ShortQueue ==
    ASSUME NEW S, NEW q \in Seq(S), NEW kind, Short(kind, q)
    PROVE  /\ Short(kind, <<>>)
           /\ q # <<>> => /\ Short(kind, Tail(q)) /\ Short(kind, <<Head(q)>>)
                          /\ Head(q).kind = kind => FrameIsShort(Head(q))
           /\ \A f \in S : (f.kind = kind => FrameIsShort(f))
                  => Short(kind, Append(q, f))
<1>1. Short(kind, <<>>)
  BY DEF Short
<1>2. ASSUME q # <<>>
      PROVE  /\ Short(kind, Tail(q)) /\ Short(kind, <<Head(q)>>)
             /\ Head(q).kind = kind => FrameIsShort(Head(q))
  <2>1. /\ Len(q) \in Nat /\ Len(q) > 0 /\ DOMAIN q = 1..Len(q)
        /\ Head(q) = q[1]
        /\ DOMAIN Tail(q) = 1..(Len(q) - 1)
        /\ \A i \in 1..(Len(q) - 1) : Tail(q)[i] = q[i + 1]
    BY <1>2, HeadTailProperties, EmptySeq
  <2>2. Short(kind, Tail(q))
    BY <2>1 DEF Short
  <2>3. Head(q).kind = kind => FrameIsShort(Head(q))
    BY <2>1 DEF Short
  <2>4. QED
    BY <2>2, <2>3 DEF Short
<1>3. ASSUME NEW f \in S, f.kind = kind => FrameIsShort(f)
      PROVE  Short(kind, Append(q, f))
  <2>1. /\ Len(q) \in Nat /\ DOMAIN q = 1..Len(q)
        /\ DOMAIN Append(q, f) = 1..(Len(q) + 1)
        /\ \A i \in 1..Len(q) : Append(q, f)[i] = q[i]
        /\ Append(q, f)[Len(q) + 1] = f
    BY AppendProperties
  <2>2. QED
    BY <1>3, <2>1 DEF Short
<1>4. QED
  BY <1>1, <1>2, <1>3

(* What one frame carries of a write is a content of its object.           *)
LEMMA DownloadIsShort ==
    ASSUME NEW o \in Objects, NEW d \in Payloads(o)
    PROVE  FrameIsShort(GenSdoInitiateDownload(o, d))
<1>1. d \in Seq(Byte) /\ Len(d) \in Nat
  BY PayloadType
<1>2. QED
  BY <1>1, FrameFields, ConstantsAssumption DEF FrameIsShort, Expedited

LEMMA CallsKept ==
    ASSUME CallsOpen, UNCHANGED call,
           \A t \in Tasks : pc'[t] # "idle" => pc[t] # "idle" /\ ret'[t] = ret[t]
    PROVE  CallsOpen'
BY DEF CallsOpen

(* The host sends a request, or ends a call, or neither.                   *)
LEMMA HostShort ==
    ASSUME ShortInv, UNCHANGED <<od, srv, toHost, rx>>, answer' \in {answer, <<>>},
           NEW req \in Request, req.kind = "initiate_download" => FrameIsShort(req),
           toNode' \in {toNode, Append(toNode, req)}
    PROVE  ObjectsShort' /\ FramesShort'
<1>1. ObjectsShort'
  BY DEF ShortInv, ObjectsShort
<1>2. Short("initiate_download", toNode')
  <2>1. Short("initiate_download", toNode) /\ toNode \in Seq(Request)
    BY DEF ShortInv, FramesShort, IInv, TypeOK
  <2>2. QED
    BY <2>1, ShortQueue
<1>3. Short("initiate_upload", answer')
  <2>1. Short("initiate_upload", <<>>) /\ Short("initiate_upload", answer)
    BY DEF ShortInv, FramesShort, Short
  <2>2. QED
    BY <2>1
<1>4. QED
  BY <1>1, <1>2, <1>3 DEF ShortInv, FramesShort

LEMMA EnterShort ==
    ASSUME ShortInv, NEW t \in Tasks, EnterRead(t) \/ EnterWrite(t)
    PROVE  ObjectsShort' /\ FramesShort' /\ CallsOpen'
<1>1. PICK c : /\ Enter(t, c)
               /\ c.op = "write" => c.data \in Payloads(c.obj)
  <2>1. CASE EnterRead(t)
    <3>1. PICK o \in Objects : Enter(t, [op |-> "read", obj |-> o, data |-> <<>>])
      BY <2>1 DEF EnterRead
    <3>2. [op |-> "read", obj |-> o, data |-> <<>>].op # "write"
      OBVIOUS
    <3>3. QED
      BY <3>1, <3>2
  <2>2. CASE EnterWrite(t)
    <3>1. PICK o \in Objects :
              \E d \in Payloads(o) : Enter(t, [op |-> "write", obj |-> o, data |-> d])
      BY <2>2 DEF EnterWrite
    <3>2. PICK d \in Payloads(o) : Enter(t, [op |-> "write", obj |-> o, data |-> d])
      BY <3>1
    <3>3. PICK c : c = [op |-> "write", obj |-> o, data |-> d]
      OBVIOUS
    <3>4. Enter(t, c) /\ c.data \in Payloads(c.obj)
      BY <3>2, <3>3
    <3>5. QED
      BY <3>4
  <2>3. QED
    BY <2>1, <2>2
<1>2. CallsOpen'
  <2>1. ASSUME NEW u \in Tasks
        PROVE  /\ pc'[u] # "idle" => ret'[u].kind = "none"
               /\ call'[u].op = "write" => call'[u].data \in Payloads(call'[u].obj)
    <3>1. CASE u = t
      BY <1>1, <3>1 DEF Enter, NoResult, ShortInv, IInv, TypeOK
    <3>2. CASE u # t
      <4>1. pc'[u] = pc[u] /\ ret'[u] = ret[u] /\ call'[u] = call[u]
        BY <1>1, <3>2 DEF Enter, ShortInv, IInv, TypeOK
      <4>2. QED
        BY <4>1 DEF ShortInv, CallsOpen
    <3>3. QED
      BY <3>1, <3>2
  <2>2. QED
    BY <2>1 DEF CallsOpen
<1>3. UNCHANGED <<od, srv, toHost, rx, answer, toNode>>
  BY <1>1 DEF Enter, rxVars, bus, node
<1>4. QED
  BY <1>2, <1>3 DEF ShortInv, ObjectsShort, FramesShort

LEMMA StartShort ==
    ASSUME ShortInv, NEW t \in Tasks, Start(t)
    PROVE  ObjectsShort' /\ FramesShort' /\ CallsOpen'
<1>1. PICK req : req = IF call[t].op = "read"
                         THEN GenSdoInitiateUpload(call[t].obj)
                         ELSE GenSdoInitiateDownload(call[t].obj, call[t].data)
  OBVIOUS
<1>2. call[t] \in Call
  BY DEF ShortInv, IInv, Calling, Start
<1>3. req \in Request
  BY <1>1, <1>2, InitiateUploadFrame, InitiateDownloadFrame DEF Call
<1>4. req.kind = "initiate_download" => FrameIsShort(req)
  <2>1. CASE call[t].op = "read"
    BY <1>1, <2>1, FrameFields
  <2>2. CASE call[t].op = "write"
    BY <1>1, <1>2, <2>2, DownloadIsShort DEF ShortInv, CallsOpen, Call
  <2>3. QED
    BY <1>2, <2>1, <2>2 DEF Call
<1>5. /\ toNode' = Append(toNode, req) /\ answer' = <<>>
      /\ UNCHANGED <<od, srv, toHost, rx>>
  BY <1>1 DEF Start, Begin, SendSdoMessage, rxVars, node
<1>6. CallsOpen'
  <2>1. UNCHANGED <<call, ret>> /\ pc[t] = "lock" /\ pc' = [pc EXCEPT ![t] = "await"]
    BY DEF Start, Begin
  <2>2. QED
    BY <2>1, CallsKept DEF ShortInv, IInv, TypeOK
<1>7. QED
  BY <1>3, <1>4, <1>5, <1>6, HostShort

LEMMA ReturnShort ==
    ASSUME ShortInv, NEW t \in Tasks, NEW kind, NEW data, Return(t, kind, data),
           answer' = <<>>, UNCHANGED <<call, rxVars, bus, node>>
    PROVE  ObjectsShort' /\ FramesShort' /\ CallsOpen'
<1>1. CallsOpen'
  BY CallsKept DEF Return, ShortInv, IInv, TypeOK
<1>2. ObjectsShort'
  BY DEF ShortInv, ObjectsShort, node
<1>3. Short("initiate_upload", <<>>)
  BY DEF Short
<1>4. FramesShort'
  BY <1>3 DEF ShortInv, FramesShort, rxVars, bus
<1>5. QED
  BY <1>1, <1>2, <1>4

LEMMA SegmentRequestShort ==
    ASSUME ShortInv, NEW req \in Request, req.kind # "initiate_download",
           GoOn(req), UNCHANGED <<call, rxVars, toHost, node>>
    PROVE  ObjectsShort' /\ FramesShort' /\ CallsOpen'
<1>1. CallsOpen'
  BY CallsKept DEF GoOn, ShortInv
<1>2. /\ toNode' = Append(toNode, req) /\ answer' = <<>>
      /\ UNCHANGED <<od, srv, toHost, rx>>
  BY DEF GoOn, SendSdoMessage, rxVars, node
<1>3. QED
  BY <1>1, <1>2, HostShort

(* Which answers end a call, and which request comes after the others.     *)
LEMMA AnsweredShort ==
    ASSUME ShortInv, IInv', NEW t \in Tasks,
           \/ ReadInitiated(t) \/ ReadSegment(t)
           \/ WriteInitiated(t) \/ WriteSegment(t)
    PROVE  ObjectsShort' /\ FramesShort' /\ CallsOpen'
<1>1. /\ UNCHANGED <<call, rxVars, toHost, node>>
      /\ \/ \E kind, data : End(t, kind, data)
         \/ \E req : req.kind # "initiate_download" /\ GoOn(req)
  <2>1. \A b, d, k, left :
            /\ GenSdoSegmentUpload(b).kind # "initiate_download"
            /\ GenSdoSegmentDownload(d, k, left, b).kind # "initiate_download"
    BY FrameFields
  <2>2. CASE ReadInitiated(t)
    BY <2>1, <2>2 DEF ReadInitiated
  <2>3. CASE ReadSegment(t)
    BY <2>1, <2>3 DEF ReadSegment
  <2>4. CASE WriteInitiated(t)
    <3>1. \/ \E kind, data : End(t, kind, data)
          \/ GoOn(GenSdoSegmentDownload(call[t].data, 0, xfer.left, FALSE))
      BY <2>4 DEF WriteInitiated
    <3>2. UNCHANGED <<call, rxVars, toHost, node>>
      BY <2>4 DEF WriteInitiated
    <3>3. QED
      BY <2>1, <3>1, <3>2
  <2>5. CASE WriteSegment(t)
    BY <2>1, <2>5 DEF WriteSegment
  <2>6. QED
    BY <2>2, <2>3, <2>4, <2>5
<1>2. ASSUME NEW kind, NEW data, End(t, kind, data)
      PROVE  ObjectsShort' /\ FramesShort' /\ CallsOpen'
  BY <1>1, <1>2, ReturnShort DEF End, bus
<1>3. ASSUME NEW req, req.kind # "initiate_download", GoOn(req)
      PROVE  ObjectsShort' /\ FramesShort' /\ CallsOpen'
  <2>1. toNode' = Append(toNode, req) /\ toNode' \in Seq(Request)
        /\ toNode \in Seq(Request)
    BY <1>3 DEF GoOn, SendSdoMessage, ShortInv, IInv, TypeOK
  <2>2. req \in Request
    <3>1. Len(toNode) + 1 \in 1..Len(toNode') /\ toNode'[Len(toNode) + 1] = req
      BY <2>1
    <3>2. QED
      BY <2>1, <3>1, ElementOfSeq
  <2>3. QED
    BY <1>1, <1>3, <2>2, SegmentRequestShort
<1>4. QED
  BY <1>1, <1>2, <1>3

LEMMA FramesMoveShort ==
    ASSUME ShortInv, RxCheck \/ RxSet \/ Lose
    PROVE  ObjectsShort' /\ FramesShort' /\ CallsOpen'
<1>1. UNCHANGED <<pc, call, ret, od, srv>>
  BY DEF RxCheck, RxSet, Lose, host, node
<1>2. /\ Short("initiate_download", <<>>) /\ Short("initiate_upload", <<>>)
      /\ toNode # <<>> => Short("initiate_download", Tail(toNode))
      /\ toHost # <<>> => /\ Short("initiate_upload", Tail(toHost))
                          /\ Short("initiate_upload", <<Head(toHost)>>)
  BY ShortQueue DEF ShortInv, FramesShort, IInv, TypeOK
<1>3. CASE RxCheck
  <2>1. /\ toHost # <<>> /\ toHost' = Tail(toHost) /\ UNCHANGED <<toNode, answer>>
        /\ rx' \in {<<>>, <<Head(toHost)>>}
    BY <1>3 DEF RxCheck, host
  <2>2. FramesShort'
    BY <1>2, <2>1 DEF ShortInv, FramesShort
  <2>3. QED
    BY <1>1, <2>2 DEF ShortInv, ObjectsShort, CallsOpen
<1>4. CASE RxSet
  <2>1. UNCHANGED <<toNode, toHost>> /\ rx' = <<>> /\ answer' \in {answer, rx}
    BY <1>4 DEF RxSet, bus
  <2>2. FramesShort'
    BY <1>2, <2>1 DEF ShortInv, FramesShort
  <2>3. QED
    BY <1>1, <2>2 DEF ShortInv, ObjectsShort, CallsOpen
<1>5. CASE Lose
  <2>1. /\ UNCHANGED <<rx, answer>>
        /\ \/ toNode # <<>> /\ toNode' = Tail(toNode) /\ UNCHANGED toHost
           \/ toHost # <<>> /\ toHost' = Tail(toHost) /\ UNCHANGED toNode
    BY <1>5 DEF Lose, host, rxVars
  <2>2. FramesShort'
    BY <1>2, <2>1 DEF ShortInv, FramesShort
  <2>3. QED
    BY <1>1, <2>2 DEF ShortInv, ObjectsShort, CallsOpen
<1>6. QED
  BY <1>3, <1>4, <1>5

LEMMA NodeReplyShort ==
    ASSUME ShortInv, toNode # <<>>, NEW r \in Reply, NodeReply(r),
           r.kind = "initiate_upload" => FrameIsShort(r)
    PROVE  FramesShort' /\ CallsOpen'
<1>1. UNCHANGED <<pc, call, ret, answer, rx>>
      /\ toNode' = Tail(toNode) /\ toHost' = Append(toHost, r)
  BY DEF NodeReply, host, rxVars
<1>2. /\ Short("initiate_download", toNode')
      /\ Short("initiate_upload", toHost')
  BY <1>1, ShortQueue DEF ShortInv, FramesShort, IInv, TypeOK
<1>3. QED
  BY <1>1, <1>2 DEF ShortInv, FramesShort, CallsOpen

LEMMA StoreShort ==
    ASSUME ShortInv, NEW o, NEW d, Store(o, d), ShortContent(o, d)
    PROVE  \A p \in Objects : ShortContent(p, od'[p])
BY DEF Store, ShortInv, ObjectsShort, IInv, TypeOK

LEMMA NodeShort ==
    ASSUME ShortInv, IInv', NodeStep
    PROVE  ObjectsShort' /\ FramesShort' /\ CallsOpen'
<1> DEFINE q == Head(toNode)
<1>1. toNode # <<>>
  BY DEF NodeStep, NodeAbort, NodeInitiateUpload, NodeSegmentUpload,
         NodeInitiateDownload, NodeSegmentDownload, NodeTake
<1>2. /\ q.kind = "initiate_download" => FrameIsShort(q)
      /\ q.kind \in {"initiate_upload", "initiate_download"} => q.obj \in Objects
      /\ q.obj \in Objects \cup {NoObject} /\ q.toggle \in BOOLEAN
  BY <1>1, ShortQueue, RequestType DEF ShortInv, FramesShort, IInv, TypeOK
<1>3. srv \in Transfer /\ od \in [Objects -> Seq(Byte)] /\ NoTransfer.dir = "none"
  BY DEF ShortInv, IInv, TypeOK, NoTransfer
<1>4. CASE NodeAbort
  <2>1. PICK r : r = [Blank EXCEPT !.obj = q.obj]
    OBVIOUS
  <2>2. r \in Reply /\ r.kind = "abort"
    BY <1>2, <2>1, RecordTypes DEF Reply, FrameOf
  <2>3. ObjectsShort'
    BY <1>3, <1>4 DEF NodeAbort, ShortInv, ObjectsShort
  <2>4. QED
    BY <1>1, <1>4, <2>1, <2>2, <2>3, NodeReplyShort DEF NodeAbort
<1>5. CASE NodeInitiateUpload
  <2> DEFINE o == q.obj
  <2>1. PICK r : r = [Blank EXCEPT
                    !.kind = "initiate_upload", !.obj = o,
                    !.expedited = Expedited(od[o]), !.size = Len(od[o]),
                    !.data = IF Expedited(od[o]) THEN od[o] ELSE <<>>]
    OBVIOUS
  <2>2. o \in Objects /\ od[o] \in Seq(Byte) /\ Len(od[o]) \in Nat
        /\ ShortContent(o, od[o])
    BY <1>2, <1>3, <1>5 DEF NodeInitiateUpload, NodeTake, ShortInv, ObjectsShort
  <2>3. /\ r.obj = o /\ r.size = Len(od[o])
        /\ r.expedited <=> Expedited(od[o])
        /\ r.expedited => r.data = od[o]
    BY <2>1 DEF Blank, Expedited
  <2>4. FrameIsShort(r)
    <3>1. Expedited(od[o]) => od[o] \in Payloads(o)
      BY <2>2 DEF ShortContent
    <3>2. ~Expedited(od[o]) => Len(od[o]) > ExpeditedSize
      BY <2>2, ConstantsAssumption DEF Expedited
    <3>3. QED
      BY <2>3, <3>1, <3>2 DEF FrameIsShort
  <2>5. r \in Reply
    <3>1. PICK data : data = IF Expedited(od[o]) THEN od[o] ELSE <<>>
      OBVIOUS
    <3>2. data \in Seq(Byte) /\ Expedited(od[o]) \in BOOLEAN
      BY <2>2, <3>1 DEF Expedited
    <3>3. r = [Blank EXCEPT
                    !.kind = "initiate_upload", !.obj = o,
                    !.expedited = Expedited(od[o]), !.size = Len(od[o]),
                    !.data = data]
      BY <2>1, <3>1
    <3>4. QED
      BY <2>2, <3>2, <3>3, RecordTypes DEF Reply, FrameOf
  <2>6. NodeReply(r)
    BY <1>5, <2>1 DEF NodeInitiateUpload
  <2>7. ObjectsShort'
    <3>1. srv'.dir # "down" /\ od' = od
      BY <1>3, <1>5 DEF NodeInitiateUpload, NoTransfer
    <3>2. QED
      BY <3>1 DEF ShortInv, ObjectsShort
  <2>8. QED
    BY <1>1, <2>4, <2>5, <2>6, <2>7, NodeReplyShort
<1>6. CASE NodeSegmentUpload
  <2> DEFINE n == SegmentLength(Len(srv.data))
  <2>1. PICK r : /\ NodeReply(r) /\ r.kind = "upload_segment"
                 /\ r \in Reply
    <3>1. PICK r : r = [Blank EXCEPT
                    !.kind = "upload_segment", !.toggle = srv.toggle,
                    !.data = SubSeq(srv.data, 1, n),
                    !.complete = (n = Len(srv.data))]
      OBVIOUS
    <3>2. NodeReply(r)
      BY <1>6, <3>1 DEF NodeSegmentUpload
    <3> HIDE DEF n
    <3>3. r.kind = "upload_segment"
      BY <3>1 DEF Blank
    <3>4. /\ toHost \in Seq(Reply) /\ toHost' \in Seq(Reply)
          /\ toHost' = Append(toHost, r)
      BY <3>2 DEF NodeReply, ShortInv, IInv, TypeOK
    <3>5. Len(toHost) + 1 \in 1..Len(toHost') /\ toHost'[Len(toHost) + 1] = r
      BY <3>4
    <3>6. r \in Reply
      BY <3>4, <3>5, ElementOfSeq
    <3>7. QED
      BY <3>2, <3>3, <3>6
  <2>2. FramesShort' /\ CallsOpen'
    BY <1>1, <2>1, NodeReplyShort
  <2>3. ObjectsShort'
    <3>1. srv'.dir # "down" /\ od' = od
      BY <1>3, <1>6 DEF NodeSegmentUpload, NoTransfer, Transfer, TransferOf
    <3>2. QED
      BY <3>1 DEF ShortInv, ObjectsShort
  <2>4. QED
    BY <2>2, <2>3
<1>7. CASE NodeInitiateDownload
  <2>1. PICK r : r = [Blank EXCEPT !.kind = "initiate_download", !.obj = q.obj]
    OBVIOUS
  <2>2. q.obj \in Objects /\ FrameIsShort(q)
    BY <1>2, <1>7 DEF NodeInitiateDownload, NodeTake
  <2>3. r \in Reply /\ r.kind = "initiate_download" /\ NodeReply(r)
    BY <1>7, <2>1, <2>2, RecordTypes DEF NodeInitiateDownload, Reply, FrameOf
  <2>4. ObjectsShort'
    <3>1. CASE q.expedited
      <4>1. Store(q.obj, q.data) /\ srv' = NoTransfer
        BY <1>7, <3>1 DEF NodeInitiateDownload
      <4>2. ShortContent(q.obj, q.data)
        BY <2>2, <3>1 DEF FrameIsShort, ShortContent
      <4>3. QED
        BY <1>3, <4>1, <4>2, StoreShort DEF ObjectsShort
    <3>2. CASE ~q.expedited
      <4>1. od' = od /\ srv'.size = q.size
        BY <1>7, <3>2 DEF NodeInitiateDownload, NoTransfer
      <4>2. QED
        BY <2>2, <3>2, <4>1 DEF FrameIsShort, ShortInv, ObjectsShort
    <3>3. QED
      BY <3>1, <3>2
  <2>5. QED
    BY <1>1, <2>3, <2>4, NodeReplyShort
<1>8. CASE NodeSegmentDownload
  <2>1. PICK r : r = [Blank EXCEPT !.kind = "download_segment", !.toggle = q.toggle]
    OBVIOUS
  <2>2. r \in Reply /\ r.kind = "download_segment" /\ NodeReply(r)
    BY <1>2, <1>8, <2>1, RecordTypes DEF NodeSegmentDownload, Reply, FrameOf
  <2>3. srv.dir = "down" /\ srv.size > ExpeditedSize /\ srv.size \in Nat
    BY <1>3, <1>8 DEF NodeSegmentDownload, ShortInv, ObjectsShort, Transfer, TransferOf
  <2>4. ObjectsShort'
    <3> DEFINE d == srv.data \o q.data
    <3>1. CASE q.complete
      <4>1. Store(srv.obj, d) /\ srv' = NoTransfer /\ Len(d) = srv.size
        BY <1>8, <3>1 DEF NodeSegmentDownload
      <4>2. ~Expedited(d)
        <5> HIDE DEF d
        <5>1. QED
          BY <2>3, <4>1, ConstantsAssumption DEF Expedited
      <4> HIDE DEF d
      <4>3. QED
        BY <1>3, <4>1, <4>2, StoreShort DEF ObjectsShort, ShortContent
    <3>2. CASE ~q.complete
      <4>1. od' = od /\ srv' = [srv EXCEPT !.toggle = ~@, !.data = d]
        BY <1>8, <3>2 DEF NodeSegmentDownload
      <4> HIDE DEF d
      <4>2. srv'.size = srv.size
        BY <1>3, <4>1 DEF Transfer, TransferOf
      <4>3. QED
        BY <2>3, <4>1, <4>2 DEF ShortInv, ObjectsShort
    <3>3. QED
      BY <3>1, <3>2
  <2>5. QED
    BY <1>1, <2>2, <2>4, NodeReplyShort
<1>9. QED
  BY <1>4, <1>5, <1>6, <1>7, <1>8 DEF NodeStep

LEMMA NodeChangeShort ==
    ASSUME ShortInv, NEW o \in Objects, NodeChange(o)
    PROVE  ObjectsShort' /\ FramesShort' /\ CallsOpen'
<1>1. PICK d \in Payloads(o) : Store(o, d)
  BY DEF NodeChange
<1>2. UNCHANGED <<pc, call, ret, srv, toNode, toHost, rx, answer>>
  BY DEF NodeChange, host, rxVars, bus
<1>3. \A p \in Objects : ShortContent(p, od'[p])
  BY <1>1, StoreShort DEF ShortContent
<1>4. QED
  BY <1>2, <1>3 DEF ShortInv, ObjectsShort, FramesShort, CallsOpen

LEMMA InitShortInv == Init => ShortInv
<1> SUFFICES ASSUME Init PROVE ShortInv
  OBVIOUS
<1>1. ObjectsShort
  BY DEF Init, ObjectsShort, ShortContent, NoTransfer
<1>2. FramesShort /\ CallsOpen
  BY DEF Init, FramesShort, Short, CallsOpen, NoCall
<1>3. QED
  BY <1>1, <1>2, InitIInv DEF ShortInv

LEMMA NextShortInv ==
    ASSUME ShortInv, [Next]_vars
    PROVE  ShortInv'
<1>1. IInv'
  BY NextIInv DEF ShortInv
<1>2. ASSUME NEW t \in Tasks, TaskStep(t)
      PROVE  ObjectsShort' /\ FramesShort' /\ CallsOpen'
  BY <1>1, <1>2, EnterShort, StartShort, ReturnShort, AnsweredShort
     DEF TaskStep, Timeout
<1>3. CASE RxCheck \/ RxSet \/ Lose
  BY <1>1, <1>3, FramesMoveShort DEF ShortInv
<1>4. CASE NodeStep
  BY <1>1, <1>4, NodeShort DEF ShortInv
<1>5. CASE \E o \in Objects : NodeChange(o)
  BY <1>1, <1>5, NodeChangeShort DEF ShortInv
<1>6. CASE UNCHANGED vars
  BY <1>1, <1>6 DEF vars, host, rxVars, bus, node, ShortInv, ObjectsShort,
                    FramesShort, CallsOpen
<1>7. QED
  BY <1>1, <1>2, <1>3, <1>4, <1>5, <1>6 DEF Next, ShortInv

(* A read that one frame answers returns a content of its own object, also *)
(* when replies come late and answer a later request, and whatever earlier *)
(* transfers have mixed up: sdo_read looks at the index in the reply       *)
(* (bus_node.py:85-92).                                                    *)
THEOREM ShortReadsAreOfTheirObject == Spec => ExpeditedReadIsOfItsObject
<1>1. ASSUME ShortInv, NEW t \in Tasks, ReadInitiated(t), ret'[t].kind = "value"
      PROVE  ret'[t].data \in Payloads(call[t].obj)
  <2> DEFINE r == Head(answer)
  <2>1. /\ pc[t] = "await" /\ answer # <<>>
        /\ r.kind = "initiate_upload" => FrameIsShort(r)
        /\ ret \in [Tasks -> Result] /\ ret[t].kind = "none"
    BY <1>1, ShortQueue DEF ReadInitiated, Answered, ShortInv, FramesShort,
                            CallsOpen, IInv, TypeOK
  <2>2. ASSUME NEW kind, NEW data, End(t, kind, data)
        PROVE  ret'[t].kind = kind /\ ret'[t].data = data
    BY <2>1, <2>2 DEF End, Return
  <2>3. ~\E req : GoOn(req)
    BY <1>1, <2>1 DEF GoOn
  <2>4. /\ r.kind = "initiate_upload" /\ r.obj = call[t].obj
        /\ r.expedited \/ r.size = 0
        /\ End(t, "value", r.data)
    <3>1. ~End(t, "abort", <<>>) /\ ~End(t, "wrong", <<>>)
      BY <1>1, <2>2
    <3>2. QED
      BY <1>1, <2>3, <3>1 DEF ReadInitiated, AboutMyObject
  <2>5. r.data \in Payloads(r.obj)
    BY <2>1, <2>4, ConstantsAssumption DEF FrameIsShort
  <2>6. QED
    BY <2>2, <2>4, <2>5
<1>2. ShortInv /\ [Next]_vars =>
        [\A t \in Tasks :
            ReadInitiated(t) /\ ret'[t].kind = "value"
                => ret'[t].data \in Payloads(call[t].obj)]_vars
  BY <1>1
<1>3. ShortInv /\ [Next]_vars => ShortInv'
  BY NextShortInv
<1>4. QED
  BY <1>2, <1>3, InitShortInv, PTL DEF Spec, ExpeditedReadIsOfItsObject

=============================================================================
