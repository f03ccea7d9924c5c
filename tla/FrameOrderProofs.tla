-------------------------- MODULE FrameOrderProofs --------------------------
(***************************************************************************)
(* Proofs about the order of frames in FramePipeline, for any number of    *)
(* buffers, connections, viewers and frames: no viewer goes back, and the  *)
(* stream implements LiveView where locals are cleared by the compiler.    *)
(***************************************************************************)
EXTENDS FramePipelineProofs

IsHeld == captureAt \in {"flag", "push"}   \* acquired and not yet pushed

(* Frames lie in the order they were drawn along the way from Android to    *)
(* the encoder: input_frame, capture_queue, the held buffer, the queued     *)
(* buffers.                                                                 *)
BuffersOrdered ==
    /\ \A b \in Buffers : content[b] <= drawn
    /\ \A i, j \in DOMAIN queued : i < j => content[queued[i]] < content[queued[j]]
    /\ IsHeld => \A j \in DOMAIN queued : content[mBuffer] < content[queued[j]]

CaptureQueueOrdered ==
    /\ \A i \in DOMAIN capture_queue : capture_queue[i].frame <= drawn
    /\ \A i, j \in DOMAIN capture_queue :
         i < j => capture_queue[i].frame < capture_queue[j].frame
    /\ \A i \in DOMAIN capture_queue :
         /\ \A j \in DOMAIN queued : capture_queue[i].frame < content[queued[j]]
         /\ IsHeld => capture_queue[i].frame < content[mBuffer]

InputFirst ==
    /\ input_frame.frame <= drawn
    /\ \A i \in DOMAIN capture_queue : input_frame.frame < capture_queue[i].frame
    /\ \A j \in DOMAIN queued : input_frame.frame < content[queued[j]]
    /\ IsHeld => input_frame.frame < content[mBuffer]

(* The last encoded frame is behind input_frame, unless it is the frame     *)
(* without data that a failed encoder leaves behind for good.               *)
LastBehind ==
    /\ last_encoded_frame # EmptyFrame => last_encoded_frame <= input_frame.frame
    /\ encodeAt \in {"encode", "store"} /\ last_encoded_frame # EmptyFrame
         => last_encoded_frame < input_frame.frame
    /\ last_encoded_frame = EmptyFrame => encoder = "failed" /\ "junk" \in UninitLocals
    /\ encodeAt = "store" =>
         \/ encoded_frame = input_frame.frame /\ last_encoded_frame # EmptyFrame
         \/ encoded_frame = EmptyFrame /\ encoder = "failed" /\ "junk" \in UninitLocals

(* Nobody has seen more than the last encoded frame. *)
SeenBehind ==
    /\ stream <= last_encoded_frame
    /\ \A s \in Sockets : socketSaw[s] <= last_encoded_frame

-----------------------------------------------------------------------------
(* The steps that move frames on the way to the encoder are few. *)

wayVars == <<drawn, content, queued, captureAt, mBuffer, capture_queue, input_frame>>

WayStep ==
    \/ \E b \in Buffers : DrawFrame(b)
    \/ CaptureThread
    \/ PopFrame
    \/ UNCHANGED wayVars

LEMMA OthersKeepWay == [Next]_vars => WayStep
<1> USE DEF WayStep, wayVars, androidVars, captureVars, encodeVars
<1>1. Outside => WayStep
  BY DEF Outside, SocketConnect, SocketClose, HttpJoin, HttpLeave
<1>2. OnFrameAvailable => WayStep
  BY DEF OnFrameAvailable
<1>3. EncodeThread => WayStep
  BY DEF EncodeThread, EncodeFrame, StoreLastFrame, PublishEncoded,
         SendEncoded, FreeInputFrame
<1>4. BroadcastThread => WayStep
  BY DEF BroadcastThread, BroadcastWake, BroadcastLock, BroadcastPublish,
         BroadcastClearFlag
<1>5. \A s \in Sockets : OpenHandler(s) => WayStep
  BY DEF OpenHandler, SocketLoadFlag, SocketLock, SocketSendLast, SocketClearFlag
<1> QED
  BY <1>1, <1>2, <1>3, <1>4, <1>5 DEF Next, vars

(* What DrawFrame, ConsumePendingFrame and PushFrame do to the frames'      *)
(* order, with the sequences taken apart.                                   *)

DrewFrame ==
    /\ drawn' = drawn + 1
    /\ \A c \in Buffers : content'[c] = content[c] \/ content'[c] = drawn + 1
    /\ DOMAIN queued' = 1..(Len(queued) + 1)
    /\ \A j \in DOMAIN queued' :
         \/ j \in DOMAIN queued /\ content'[queued'[j]] = content[queued[j]]
         \/ j = Len(queued) + 1 /\ content'[queued'[j]] = drawn + 1
    /\ IsHeld' => IsHeld /\ mBuffer \in Buffers /\ content'[mBuffer'] = content[mBuffer]
    /\ UNCHANGED <<capture_queue, input_frame>>

LEMMA DrawFrameEffect ==
    ASSUME TypeOK, BufferHeld, NEW b \in Buffers, DrawFrame(b)
    PROVE  DrewFrame
<1>1. queued \in Seq(Buffers) /\ content \in [Buffers -> 0..MaxFrame]
  BY DEF TypeOK
<1>2. queued' = Append(queued, b) /\ content' = [content EXCEPT ![b] = drawn + 1]
      /\ drawn' = drawn + 1 /\ UNCHANGED <<captureAt, mBuffer, capture_queue, input_frame>>
  BY DEF DrawFrame, captureVars, encodeVars
<1>3. \A i \in DOMAIN queued : queued[i] # b
  BY DEF DrawFrame, IsFree, Range
<1>4. \A i \in DOMAIN queued : queued'[i] = queued[i] /\ content'[queued[i]] = content[queued[i]]
  BY <1>1, <1>2, <1>3
<1>5. queued'[Len(queued) + 1] = b /\ content'[b] = drawn + 1
  BY <1>1, <1>2
<1>6. IsHeld' => IsHeld /\ mBuffer \in Buffers /\ content'[mBuffer'] = content[mBuffer]
  BY <1>1, <1>2 DEF DrawFrame, IsFree, IsHeld, BufferHeld
<1>7. DOMAIN queued = 1..Len(queued) /\ DOMAIN queued' = 1..(Len(queued) + 1) /\ Len(queued) \in Nat
  BY <1>1, <1>2
<1>8. \A j \in DOMAIN queued' :
         \/ j \in DOMAIN queued /\ content'[queued'[j]] = content[queued[j]]
         \/ j = Len(queued) + 1 /\ content'[queued'[j]] = drawn + 1
  BY <1>4, <1>5, <1>7
<1>9. \A c \in Buffers : content'[c] = content[c] \/ content'[c] = drawn + 1
  BY <1>1, <1>2
<1> QED
  BY <1>2, <1>6, <1>7, <1>8, <1>9 DEF DrewFrame

LEMMA ConsumeEffect ==
    ASSUME TypeOK, ConsumePendingFrame
    PROVE  /\ mBuffer' = queued[1] /\ 1 \in DOMAIN queued
           /\ \A i \in DOMAIN queued' : i + 1 \in DOMAIN queued /\ queued'[i] = queued[i + 1]
           /\ DOMAIN queued' \subseteq Nat \ {0}
           /\ captureAt' = "flag"
           /\ UNCHANGED <<drawn, content, capture_queue, input_frame>>
<1>1. queued \in Seq(Buffers) /\ queued # <<>>
  BY DEF TypeOK, ConsumePendingFrame
<1>2. queued' = Tail(queued) /\ mBuffer' = Head(queued) /\ captureAt' = "flag"
      /\ UNCHANGED <<drawn, content, capture_queue, input_frame>>
  BY DEF ConsumePendingFrame, encodeVars
<1> QED
  BY <1>1, <1>2

LEMMA PushEffect ==
    ASSUME TypeOK, PushFrame
    PROVE  /\ DOMAIN capture_queue' = 1..(Len(capture_queue) + 1)
           /\ capture_queue'[Len(capture_queue) + 1].frame = content[mBuffer]
           /\ \A i \in DOMAIN capture_queue : capture_queue'[i] = capture_queue[i]
           /\ captureAt = "push" /\ captureAt' = "release"
           /\ UNCHANGED <<drawn, content, queued, input_frame>>
<1>1. capture_queue \in Seq(InputFrame)
  BY DEF TypeOK
<1> QED
  BY <1>1 DEF PushFrame, androidVars, encodeVars

LEMMA PopEffect ==
    ASSUME TypeOK, PopFrame
    PROVE  /\ input_frame' = capture_queue[1] /\ 1 \in DOMAIN capture_queue
           /\ \A i \in DOMAIN capture_queue' :
                 i + 1 \in DOMAIN capture_queue /\ capture_queue'[i] = capture_queue[i + 1]
           /\ DOMAIN capture_queue' \subseteq Nat \ {0}
           /\ UNCHANGED <<drawn, content, queued, captureAt, mBuffer>>
<1>1. capture_queue \in Seq(InputFrame) /\ capture_queue # <<>>
  BY DEF TypeOK, PopFrame
<1> QED
  BY <1>1 DEF PopFrame, androidVars, captureVars

(* The numbers the order is about. *)
LEMMA Numbers ==
    ASSUME TypeOK
    PROVE  /\ drawn \in Nat
           /\ \A b \in Buffers : content[b] \in Nat
           /\ DOMAIN queued = 1..Len(queued) /\ Len(queued) \in Nat
           /\ \A i \in DOMAIN queued : queued[i] \in Buffers
           /\ DOMAIN capture_queue = 1..Len(capture_queue) /\ Len(capture_queue) \in Nat
           /\ \A i \in DOMAIN capture_queue : capture_queue[i].frame \in Nat
           /\ input_frame.frame \in 0..MaxFrame
<1>1. capture_queue \in Seq(InputFrame) /\ queued \in Seq(Buffers) /\ input_frame \in InputFrame
      /\ drawn \in 0..MaxFrame /\ content \in [Buffers -> 0..MaxFrame]
  BY DEF TypeOK
<1>2. \A i \in DOMAIN capture_queue : capture_queue[i] \in InputFrame
  BY <1>1
<1> QED
  BY <1>1, <1>2, PipelineAssumption DEF InputFrame

-----------------------------------------------------------------------------
LEMMA BuffersOrderedStep ==
    TypeOK /\ BufferHeld /\ BuffersOrdered /\ [Next]_vars => BuffersOrdered'
<1> SUFFICES ASSUME TypeOK, BufferHeld, BuffersOrdered, WayStep PROVE BuffersOrdered'
  BY OthersKeepWay
<1> USE Numbers DEF BuffersOrdered
<1>1. ASSUME NEW b \in Buffers, DrawFrame(b) PROVE BuffersOrdered'
  <2>1. DrewFrame
    BY <1>1, DrawFrameEffect
  <2> USE <2>1 DEF DrewFrame
  <2>2. \A c \in Buffers : content'[c] <= drawn'
    OBVIOUS
  <2>3. ASSUME NEW i \in DOMAIN queued', NEW j \in DOMAIN queued', i < j
        PROVE  content'[queued'[i]] < content'[queued'[j]]
    <3>1. i \in DOMAIN queued /\ content'[queued'[i]] = content[queued[i]]
          /\ content[queued[i]] \in Nat /\ content[queued[i]] <= drawn
      BY <2>3
    <3>2. CASE j \in DOMAIN queued /\ content'[queued'[j]] = content[queued[j]]
      BY <2>3, <3>1, <3>2
    <3>3. CASE content'[queued'[j]] = drawn + 1
      BY <3>1, <3>3
    <3> QED
      BY <3>2, <3>3
  <2>4. IsHeld' => \A j \in DOMAIN queued' : content'[mBuffer'] < content'[queued'[j]]
    OBVIOUS
  <2> QED
    BY <2>2, <2>3, <2>4
<1>2. CASE ConsumePendingFrame
  <2> USE <1>2, ConsumeEffect
  <2>1. \A c \in Buffers : content'[c] <= drawn'
    OBVIOUS
  <2>2. ASSUME NEW i \in DOMAIN queued', NEW j \in DOMAIN queued', i < j
        PROVE  content'[queued'[i]] < content'[queued'[j]]
    <3>1. i + 1 \in DOMAIN queued /\ j + 1 \in DOMAIN queued /\ i + 1 < j + 1
      BY <2>2
    <3> QED
      BY <3>1
  <2>3. ASSUME NEW j \in DOMAIN queued' PROVE content'[mBuffer'] < content'[queued'[j]]
    <3>1. j + 1 \in DOMAIN queued /\ 1 < j + 1
      OBVIOUS
    <3> QED
      BY <3>1
  <2> QED
    BY <2>1, <2>2, <2>3
<1>3. CASE PushFrame
  BY <1>3, PushEffect DEF IsHeld
<1>4. CASE WaitForFrame \/ ConsumeFails \/ StoreNewFrameFlag \/ ReleaseConsumedFrame
  BY <1>4 DEF WaitForFrame, ConsumeFails, StoreNewFrameFlag,
              ReleaseConsumedFrame, IsHeld, androidVars, captureVars
<1>5. CASE PopFrame
  BY <1>5, PopEffect DEF IsHeld
<1>6. CASE UNCHANGED wayVars
  BY <1>6 DEF wayVars, IsHeld
<1> QED
  BY <1>1, <1>2, <1>3, <1>4, <1>5, <1>6 DEF WayStep, CaptureThread

LEMMA CaptureQueueOrderedStep ==
    TypeOK /\ BufferHeld /\ BuffersOrdered /\ CaptureQueueOrdered /\ [Next]_vars
      => CaptureQueueOrdered'
<1> SUFFICES ASSUME TypeOK, BufferHeld, BuffersOrdered, CaptureQueueOrdered, WayStep
             PROVE  CaptureQueueOrdered'
  BY OthersKeepWay
<1> USE Numbers DEF CaptureQueueOrdered
<1>1. ASSUME NEW b \in Buffers, DrawFrame(b) PROVE CaptureQueueOrdered'
  <2>1. DrewFrame
    BY <1>1, DrawFrameEffect
  <2> USE <2>1 DEF DrewFrame
  <2>2. \A i \in DOMAIN capture_queue, j \in DOMAIN queued' :
          capture_queue[i].frame < content'[queued'[j]]
    OBVIOUS
  <2> QED
    BY <2>2
<1>2. CASE ConsumePendingFrame
  BY <1>2, ConsumeEffect DEF IsHeld
<1>3. CASE PushFrame
  <2> USE <1>3, PushEffect
  <2>1. IsHeld /\ ~IsHeld' /\ mBuffer \in Buffers
    BY DEF IsHeld, BufferHeld
  <2>2. content[mBuffer] \in Nat /\ content[mBuffer] <= drawn
    BY <2>1 DEF BuffersOrdered
  <2>3. \A i \in DOMAIN capture_queue' : capture_queue'[i].frame <= drawn'
    BY <2>2
  <2>4. \A i, j \in DOMAIN capture_queue' :
          i < j => capture_queue'[i].frame < capture_queue'[j].frame
    BY <2>1, <2>2
  <2>5. \A i \in DOMAIN capture_queue', j \in DOMAIN queued :
          capture_queue'[i].frame < content[queued[j]]
    BY <2>1, <2>2 DEF BuffersOrdered
  <2> QED
    BY <2>1, <2>3, <2>4, <2>5
<1>4. CASE WaitForFrame \/ ConsumeFails \/ StoreNewFrameFlag \/ ReleaseConsumedFrame
  BY <1>4 DEF WaitForFrame, ConsumeFails, StoreNewFrameFlag,
              ReleaseConsumedFrame, IsHeld, androidVars, captureVars
<1>5. CASE PopFrame
  BY <1>5, PopEffect DEF IsHeld
<1>6. CASE UNCHANGED wayVars
  BY <1>6 DEF wayVars, IsHeld
<1> QED
  BY <1>1, <1>2, <1>3, <1>4, <1>5, <1>6 DEF WayStep, CaptureThread

LEMMA InputFirstStep ==
    TypeOK /\ BufferHeld /\ CaptureQueueOrdered /\ InputFirst /\ [Next]_vars
      => InputFirst'
<1> SUFFICES ASSUME TypeOK, BufferHeld, CaptureQueueOrdered, InputFirst, WayStep
             PROVE  InputFirst'
  BY OthersKeepWay
<1> USE Numbers DEF InputFirst
<1>1. ASSUME NEW b \in Buffers, DrawFrame(b) PROVE InputFirst'
  <2>1. DrewFrame
    BY <1>1, DrawFrameEffect
  <2> USE <2>1 DEF DrewFrame
  <2>2. \A j \in DOMAIN queued' : input_frame.frame < content'[queued'[j]]
    OBVIOUS
  <2> QED
    BY <2>2
<1>2. CASE ConsumePendingFrame
  BY <1>2, ConsumeEffect DEF IsHeld
<1>3. CASE PushFrame
  BY <1>3, PushEffect DEF IsHeld
<1>4. CASE WaitForFrame \/ ConsumeFails \/ StoreNewFrameFlag \/ ReleaseConsumedFrame
  BY <1>4 DEF WaitForFrame, ConsumeFails, StoreNewFrameFlag,
              ReleaseConsumedFrame, IsHeld, androidVars, captureVars, encodeVars
<1>5. CASE PopFrame
  BY <1>5, PopEffect DEF IsHeld, CaptureQueueOrdered
<1>6. CASE UNCHANGED wayVars
  BY <1>6 DEF wayVars, IsHeld
<1> QED
  BY <1>1, <1>2, <1>3, <1>4, <1>5, <1>6 DEF WayStep, CaptureThread

-----------------------------------------------------------------------------
(* From the encoder to the viewers. *)

LEMMA LastBehindStep ==
    TypeOK /\ CaptureQueueOrdered /\ InputFirst /\ LastBehind /\ [Next]_vars
      => LastBehind'
<1> SUFFICES ASSUME TypeOK, CaptureQueueOrdered, InputFirst, LastBehind, [Next]_vars
             PROVE  LastBehind'
  OBVIOUS
<1> DEFINE kept == <<encodeAt, input_frame, encoded_frame, encoder, last_encoded_frame>>
<1>1. EmptyFrame = MaxFrame + 1 /\ MaxFrame \in Nat /\ NullFrame = 0
  BY PipelineAssumption DEF EmptyFrame, NullFrame
<1>2. /\ input_frame.frame \in 0..MaxFrame
      /\ last_encoded_frame \in 0..EmptyFrame
  BY Numbers DEF TypeOK, FrameNumber
<1>3. CASE PopFrame
  <2>1. input_frame.frame < input_frame'.frame
    BY <1>3, PopEffect DEF InputFirst
  <2>2. input_frame'.frame \in 0..MaxFrame
    <3>1. capture_queue \in Seq(InputFrame) /\ capture_queue # <<>>
      BY <1>3 DEF TypeOK, PopFrame
    <3>2. input_frame' \in InputFrame
      BY <1>3, <3>1 DEF PopFrame
    <3> QED
      BY <3>2 DEF InputFrame
  <2>3. encodeAt' = "encode" /\ UNCHANGED <<encoder, last_encoded_frame>>
    BY <1>3 DEF PopFrame, lastVars
  <2> QED
    BY <1>1, <1>2, <2>1, <2>2, <2>3 DEF LastBehind
<1>4. CASE EncodeFrame
  <2>1. PICK result \in {NullFrame, input_frame.frame}, h264_data \in UninitLocals :
          /\ Compress(result)
          /\ IF HasData(result, h264_data)
             THEN /\ encodeAt' = "store"
                  /\ encoded_frame' = IF result = NullFrame THEN EmptyFrame ELSE result
             ELSE encodeAt' = "free"
    BY <1>4 DEF EncodeFrame
  <2>2. UNCHANGED <<input_frame, last_encoded_frame>> /\ encodeAt = "encode"
    BY <1>4 DEF EncodeFrame, lastVars
  <2>3. last_encoded_frame = EmptyFrame => encoder = "failed" /\ encoder' = "failed"
    BY <2>1 DEF LastBehind, Compress
  <2>4. CASE result = NullFrame
    <3>1. encoder' = "failed"
      BY <1>1, <1>2, <2>1, <2>2, <2>3, <2>4 DEF LastBehind, Compress
    <3>2. encodeAt' = "store" => encoded_frame' = EmptyFrame /\ "junk" \in UninitLocals
      BY <2>1, <2>4, PipelineAssumption DEF HasData
    <3>3. encodeAt' \in {"store", "free"}
      BY <2>1
    <3> QED
      BY <2>2, <3>1, <3>2, <3>3 DEF LastBehind
  <2>5. CASE result # NullFrame
    <3>1. result = input_frame.frame /\ encoder # "failed"
      BY <2>1, <2>5 DEF Compress
    <3>2. encodeAt' = "store" /\ encoded_frame' = input_frame.frame
      BY <2>1, <2>5, <3>1 DEF HasData
    <3>3. last_encoded_frame # EmptyFrame
      BY <3>1 DEF LastBehind
    <3> QED
      BY <2>2, <3>2, <3>3 DEF LastBehind
  <2> QED
    BY <2>4, <2>5
<1>5. CASE StoreLastFrame
  <2>1. encodeAt = "store" /\ encodeAt' = "publish" /\ last_encoded_frame' = encoded_frame
        /\ UNCHANGED <<input_frame, encoded_frame, encoder>>
    BY <1>5 DEF StoreLastFrame
  <2> QED
    BY <1>1, <1>2, <2>1 DEF LastBehind
<1>6. CASE PublishEncoded \/ SendEncoded \/ FreeInputFrame
  BY <1>6 DEF PublishEncoded, SendEncoded, FreeInputFrame, lastVars, LastBehind
<1>7. CASE UNCHANGED kept
  BY <1>7 DEF LastBehind
<1>8. Outside \/ OnFrameAvailable \/ CaptureThread => UNCHANGED kept
  BY DEF Outside, DrawFrame, SocketConnect, SocketClose, HttpJoin, HttpLeave,
         OnFrameAvailable, CaptureThread, WaitForFrame, ConsumePendingFrame,
         ConsumeFails, StoreNewFrameFlag, PushFrame, ReleaseConsumedFrame,
         encodeVars, lastVars
<1>9. BroadcastThread \/ (\E s \in Sockets : OpenHandler(s)) => UNCHANGED kept
  BY DEF BroadcastThread, BroadcastWake, BroadcastLock, BroadcastPublish,
         BroadcastClearFlag, OpenHandler, SocketLoadFlag, SocketLock,
         SocketSendLast, SocketClearFlag, encodeVars, lastVars
<1>10. UNCHANGED vars => UNCHANGED kept
  BY DEF vars, encodeVars, lastVars
<1> QED
  BY <1>3, <1>4, <1>5, <1>6, <1>7, <1>8, <1>9, <1>10 DEF Next, EncodeThread

(* A step replaces last_encoded_frame by a later frame, shows the last      *)
(* frame to viewers, or does neither.                                       *)
Replaces ==
    /\ last_encoded_frame' >= last_encoded_frame
    /\ UNCHANGED <<stream, socketSaw>>

Shows ==
    /\ UNCHANGED last_encoded_frame
    /\ stream' \in {stream, last_encoded_frame}
    /\ \A s \in Sockets : socketSaw'[s] \in {socketSaw[s], last_encoded_frame}

LEMMA ReplacesOrShows ==
    TypeOK /\ LastFrameKept /\ LastBehind /\ [Next]_vars => Replaces \/ Shows
<1> SUFFICES ASSUME TypeOK, LastFrameKept, LastBehind, [Next]_vars PROVE Replaces \/ Shows
  OBVIOUS
<1> DEFINE still == <<last_encoded_frame, stream, socketSaw>>
<1>1. CASE StoreLastFrame
  <2>1. encodeAt = "store" /\ last_encoded_frame' = encoded_frame /\ UNCHANGED <<stream, socketSaw>>
    BY <1>1 DEF StoreLastFrame, httpVars, socketVars
  <2>2. input_frame.frame \in Nat /\ last_encoded_frame \in 0..EmptyFrame /\ EmptyFrame \in Nat
    BY Numbers, PipelineAssumption DEF TypeOK, FrameNumber, EmptyFrame
  <2> QED
    BY <2>1, <2>2 DEF LastBehind, Replaces
<1>2. CASE PublishEncoded
  BY <1>2 DEF PublishEncoded, Publish, LastFrameKept, Shows, lastVars, socketVars
<1>3. CASE SendEncoded
  BY <1>3 DEF SendEncoded, SendToSockets, LastFrameKept, Shows, lastVars, httpVars, TypeOK
<1>4. CASE BroadcastPublish
  BY <1>4 DEF BroadcastPublish, Publish, LastFrameKept, Shows, httpVars, socketVars
<1>5. ASSUME NEW s \in Sockets, SocketSendLast(s) PROVE Shows
  BY <1>5 DEF SocketSendLast, SendToSockets, Shows, httpVars, TypeOK
<1>6. UNCHANGED still => Shows
  BY DEF Shows
<1>7. Outside \/ OnFrameAvailable \/ CaptureThread => UNCHANGED still
  BY DEF Outside, DrawFrame, SocketConnect, SocketClose, HttpJoin, HttpLeave,
         OnFrameAvailable, CaptureThread, WaitForFrame, ConsumePendingFrame,
         ConsumeFails, StoreNewFrameFlag, PushFrame, ReleaseConsumedFrame,
         lastVars, httpVars, socketVars
<1>8. PopFrame \/ EncodeFrame \/ FreeInputFrame => UNCHANGED still
  BY DEF PopFrame, EncodeFrame, FreeInputFrame, lastVars, httpVars, socketVars
<1>9. BroadcastWake \/ BroadcastLock \/ BroadcastClearFlag => UNCHANGED still
  BY DEF BroadcastWake, BroadcastLock, BroadcastClearFlag, lastVars, httpVars, socketVars
<1>10. \A s \in Sockets :
         SocketLoadFlag(s) \/ SocketLock(s) \/ SocketClearFlag(s) => UNCHANGED still
  BY DEF SocketLoadFlag, SocketLock, SocketClearFlag, lastVars, httpVars, socketVars
<1>11. UNCHANGED vars => UNCHANGED still
  BY DEF vars, lastVars, httpVars, socketVars
<1> QED
  BY <1>1, <1>2, <1>3, <1>4, <1>5, <1>6, <1>7, <1>8, <1>9, <1>10, <1>11
     DEF Next, EncodeThread, BroadcastThread, OpenHandler

LEMMA SeenBehindStep ==
    TypeOK /\ TypeOK' /\ SeenBehind /\ (Replaces \/ Shows) => SeenBehind'
<1> SUFFICES ASSUME TypeOK, TypeOK', SeenBehind, Replaces \/ Shows PROVE SeenBehind'
  OBVIOUS
<1>1. /\ stream \in Nat /\ last_encoded_frame \in Nat /\ last_encoded_frame' \in Nat
      /\ \A s \in Sockets : socketSaw[s] \in Nat
  BY PipelineAssumption DEF TypeOK, FrameNumber, EmptyFrame
<1> QED
  BY <1>1 DEF SeenBehind, Replaces, Shows

(* The invariant of this module, and all it rests on. *)
OrderInv ==
    /\ TypeOK /\ BufferHeld /\ MutexHeld /\ LastFrameKept
    /\ BuffersOrdered /\ CaptureQueueOrdered /\ InputFirst
    /\ LastBehind /\ SeenBehind

LEMMA OrderInvInit == Init => OrderInv
<1> SUFFICES ASSUME Init PROVE OrderInv
  OBVIOUS
<1>1. TypeOK
  BY TypeInit
<1>2. BufferHeld /\ MutexHeld /\ LastFrameKept
  BY DEF Init, BufferHeld, MutexHeld, LastFrameKept, Unlocked
<1>3. BuffersOrdered /\ CaptureQueueOrdered /\ InputFirst
  BY DEF Init, BuffersOrdered, CaptureQueueOrdered, InputFirst, IsHeld
<1>4. LastBehind /\ SeenBehind
  BY PipelineAssumption DEF Init, LastBehind, SeenBehind, NullFrame, EmptyFrame
<1> QED
  BY <1>1, <1>2, <1>3, <1>4 DEF OrderInv

LEMMA OrderInvStep == OrderInv /\ [Next]_vars => OrderInv'
BY TypeStep, BufferHeldStep, MutexHeldStep, LastFrameKeptStep,
   BuffersOrderedStep, CaptureQueueOrderedStep, InputFirstStep,
   LastBehindStep, ReplacesOrShows, SeenBehindStep
   DEF OrderInv

(* SocketsMoveForward for every value of the constants: three kinds of      *)
(* thread send to a connection, and it gets later frames only.              *)
THEOREM SocketsNeverGoBack == Spec => SocketsMoveForward
<1> DEFINE Later(s) == {socketSaw[s], EmptyFrame} \cup (socketSaw[s] + 1)..drawn
<1>1. OrderInv /\ [Next]_vars => [\A s \in Sockets : socketSaw'[s] \in Later(s)]_socketSaw
  <2> SUFFICES ASSUME OrderInv, [Next]_vars, NEW s \in Sockets,
                      socketSaw'[s] \notin {socketSaw[s], EmptyFrame}
               PROVE  socketSaw'[s] \in (socketSaw[s] + 1)..drawn
    OBVIOUS
  <2>1. socketSaw'[s] = last_encoded_frame
    BY ReplacesOrShows DEF OrderInv, Replaces, Shows
  <2>2. /\ socketSaw[s] \in Nat /\ last_encoded_frame \in Nat /\ drawn \in Nat
        /\ input_frame.frame \in Nat
    BY Numbers, PipelineAssumption DEF OrderInv, TypeOK, FrameNumber, EmptyFrame
  <2>3. socketSaw[s] <= last_encoded_frame /\ last_encoded_frame <= drawn
    BY <2>1, <2>2 DEF OrderInv, SeenBehind, LastBehind, InputFirst
  <2> QED
    BY <2>1, <2>2, <2>3
<1> QED
  BY <1>1, OrderInvInit, OrderInvStep, PTL DEF Spec, SocketsMoveForward

(* StreamImplementsLiveView for every number of buffers, connections,       *)
(* viewers and frames, in a build that clears locals: the stream moves      *)
(* forward only, and shows only frames that were drawn.                     *)
THEOREM StreamIsLiveView ==
    ASSUME "junk" \notin UninitLocals
    PROVE  Spec => StreamImplementsLiveView
<1>1. Init => StreamView!Init
  BY DEF Init, StreamView!Init, NullFrame
<1>2. OrderInv /\ [Next]_vars => [StreamView!Next]_<<drawn, stream>>
  <2> SUFFICES ASSUME OrderInv, [Next]_vars,
                      ~ UNCHANGED <<drawn, stream>>
               PROVE  StreamView!Draw \/ StreamView!Show
    BY DEF StreamView!Next
  <2>1. CASE UNCHANGED drawn
    <3>1. stream' # stream
      BY <2>1
    <3>2. Replaces \/ Shows
      BY ReplacesOrShows DEF OrderInv
    <3>3. stream' = last_encoded_frame
      BY <3>1, <3>2 DEF Replaces, Shows
    <3>4. stream \in Nat /\ last_encoded_frame \in Nat /\ drawn \in Nat /\ input_frame.frame \in Nat
      BY Numbers, PipelineAssumption DEF OrderInv, TypeOK, FrameNumber, EmptyFrame
    <3>5. stream <= last_encoded_frame /\ last_encoded_frame <= drawn
      BY <3>4 DEF OrderInv, SeenBehind, LastBehind, InputFirst
    <3>6. stream' \in (stream + 1)..drawn
      BY <3>1, <3>3, <3>4, <3>5
    <3> QED
      BY <2>1, <3>6 DEF StreamView!Show
  <2>2. CASE \E b \in Buffers : DrawFrame(b)
    BY <2>2 DEF DrawFrame, httpVars, StreamView!Draw
  <2>3. (\E b \in Buffers : DrawFrame(b)) \/ UNCHANGED drawn
    <3>1. WayStep
      BY OthersKeepWay
    <3>2. CaptureThread \/ PopFrame => UNCHANGED drawn
      BY DEF CaptureThread, WaitForFrame, ConsumePendingFrame, ConsumeFails,
             StoreNewFrameFlag, PushFrame, ReleaseConsumedFrame, PopFrame, androidVars
    <3> QED
      BY <3>1, <3>2 DEF WayStep, wayVars
  <2> QED
    BY <2>1, <2>2, <2>3
<1> QED
  BY <1>1, <1>2, OrderInvInit, OrderInvStep, PTL
     DEF Spec, StreamImplementsLiveView, StreamView!Spec

(* A frame without data is handed to viewers only when the encoder has      *)
(* failed and the build leaves the unused output frame uninitialised        *)
(* (encode_thread tests both frames, line 197).                             *)
EmptyOnlyAfterFailure ==
    EmptyFrame \in {last_encoded_frame, stream} \cup Range(socketSaw)
      => encoder = "failed" /\ "junk" \in UninitLocals

(* Nobody has seen more than the last encoded frame, and that is empty only *)
(* once the encoder has failed.                                             *)
THEOREM EmptyNeedsFailure == Spec => []EmptyOnlyAfterFailure
<1>1. OrderInv => EmptyOnlyAfterFailure
  <2> SUFFICES ASSUME OrderInv, EmptyFrame \in {last_encoded_frame, stream} \cup Range(socketSaw)
               PROVE  last_encoded_frame = EmptyFrame
    BY DEF EmptyOnlyAfterFailure, OrderInv, LastBehind
  <2>1. last_encoded_frame \in 0..EmptyFrame /\ EmptyFrame \in Nat
    BY PipelineAssumption DEF OrderInv, TypeOK, FrameNumber, EmptyFrame
  <2>2. CASE EmptyFrame = last_encoded_frame
    BY <2>2
  <2>3. CASE EmptyFrame = stream
    BY <2>1, <2>3 DEF OrderInv, SeenBehind
  <2>4. CASE EmptyFrame \in Range(socketSaw)
    <3>1. PICK s \in Sockets : socketSaw[s] = EmptyFrame
      BY <2>4 DEF Range, OrderInv, TypeOK
    <3> QED
      BY <2>1, <3>1 DEF OrderInv, SeenBehind
  <2> QED
    BY <2>2, <2>3, <2>4
<1> QED
  BY <1>1, OrderInvInit, OrderInvStep, PTL DEF Spec
=============================================================================
