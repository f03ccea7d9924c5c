------------------------- MODULE FramePipelineProofs -------------------------
(***************************************************************************)
(* Proofs about FramePipeline, for any number of buffers, connections,     *)
(* viewers and frames: type correctness; the legality of every             *)
(* consumePendingFrame call, from an account of the notifications; and the *)
(* agreement of all viewers, from an account of who may hand out a frame.  *)
(***************************************************************************)
EXTENDS FramePipeline, TLAPS

(* The sets of frames, opened here only. *)
LEMMA FrameSets ==
    /\ EmptyFrame \in FrameNumber
    /\ NullFrame \in FrameNumber
    /\ \A n \in 0..MaxFrame : n \in FrameNumber
BY PipelineAssumption DEF EmptyFrame, FrameNumber, NullFrame

LEMMA TypeInit == Init => TypeOK
<1> SUFFICES ASSUME Init PROVE TypeOK
  OBVIOUS
<1>1. mHaveBuffer \in BOOLEAN /\ new_frame_captured \in BOOLEAN
  BY Zenon DEF Init
<1>2. input_frame \in InputFrame /\ queued \in Seq(Buffers) /\ capture_queue \in Seq(InputFrame)
  BY PipelineAssumption DEF Init, InputFrame
<1> QED
  BY <1>1, <1>2, PipelineAssumption, FrameSets DEF Init, TypeOK, Unlocked

-----------------------------------------------------------------------------
(* Only the capture thread moves its variables, and it holds a buffer just  *)
(* between consumePendingFrame and releaseConsumedFrame.                    *)

BufferHeld ==
    /\ mHaveBuffer <=> captureAt \in {"flag", "push", "release"}
    /\ mHaveBuffer => mBuffer \in Buffers

LEMMA OthersKeepCaptureVars == [Next]_vars => CaptureThread \/ UNCHANGED captureVars
<1> USE DEF captureVars
<1>1. Outside => UNCHANGED captureVars
  BY DEF Outside, DrawFrame, SocketConnect, SocketClose, HttpJoin, HttpLeave
<1>2. OnFrameAvailable => UNCHANGED captureVars
  BY DEF OnFrameAvailable
<1>3. EncodeThread => UNCHANGED captureVars
  BY DEF EncodeThread, PopFrame, EncodeFrame, StoreLastFrame, PublishEncoded,
         SendEncoded, FreeInputFrame
<1>4. BroadcastThread => UNCHANGED captureVars
  BY DEF BroadcastThread, BroadcastWake, BroadcastLock, BroadcastPublish,
         BroadcastClearFlag
<1>5. \A s \in Sockets : OpenHandler(s) => UNCHANGED captureVars
  BY DEF OpenHandler, SocketLoadFlag, SocketLock, SocketSendLast, SocketClearFlag
<1> QED
  BY <1>1, <1>2, <1>3, <1>4, <1>5 DEF Next, vars

LEMMA BufferHeldStep == TypeOK /\ BufferHeld /\ [Next]_vars => BufferHeld'
<1> SUFFICES ASSUME TypeOK, BufferHeld, CaptureThread \/ UNCHANGED captureVars
             PROVE  BufferHeld'
  BY OthersKeepCaptureVars
<1> USE DEF BufferHeld
<1>1. CASE WaitForFrame
  BY <1>1 DEF WaitForFrame
<1>2. CASE ConsumePendingFrame
  <2>1. Head(queued) \in Buffers
    BY <1>2 DEF ConsumePendingFrame, TypeOK
  <2> QED
    BY <1>2, <2>1 DEF ConsumePendingFrame
<1>3. CASE ConsumeFails
  BY <1>3 DEF ConsumeFails, captureVars
<1>4. CASE StoreNewFrameFlag
  BY <1>4 DEF StoreNewFrameFlag
<1>5. CASE PushFrame
  BY <1>5 DEF PushFrame
<1>6. CASE ReleaseConsumedFrame
  BY <1>6 DEF ReleaseConsumedFrame
<1>7. CASE UNCHANGED captureVars
  BY <1>7 DEF captureVars
<1> QED
  BY <1>1, <1>2, <1>3, <1>4, <1>5, <1>6, <1>7 DEF CaptureThread

-----------------------------------------------------------------------------
(* Every step keeps the types; PushFrame reads the contents of the buffer   *)
(* that is held.                                                            *)
LEMMA TypeStep == TypeOK /\ BufferHeld /\ [Next]_vars => TypeOK'
<1> SUFFICES ASSUME TypeOK, BufferHeld, [Next]_vars PROVE TypeOK'
  OBVIOUS
<1> USE DEF TypeOK, androidVars, captureVars, encodeVars, lastVars,
      broadcastVars, httpVars, socketVars
<1>1. CASE Outside
  <2>1. ASSUME NEW b \in Buffers, DrawFrame(b) PROVE TypeOK'
    BY <2>1, PipelineAssumption DEF DrawFrame
  <2>2. ASSUME NEW s \in Sockets, SocketConnect(s) \/ SocketClose(s) PROVE TypeOK'
    <3>1. CASE SocketConnect(s)
      BY <3>1 DEF SocketConnect
    <3>2. CASE SocketClose(s)
      BY <3>2 DEF SocketClose
    <3> QED
      BY <2>2, <3>1, <3>2
  <2>3. ASSUME NEW h \in HttpViewers, HttpJoin(h) \/ HttpLeave(h) PROVE TypeOK'
    <3>1. CASE HttpJoin(h)
      BY <3>1 DEF HttpJoin
    <3>2. CASE HttpLeave(h)
      BY <3>2 DEF HttpLeave
    <3> QED
      BY <2>3, <3>1, <3>2
  <2> QED
    BY <1>1, <2>1, <2>2, <2>3 DEF Outside
<1>2. CASE running /\ OnFrameAvailable
  BY <1>2 DEF OnFrameAvailable
<1>3. CASE CaptureThread
  <2>1. CASE WaitForFrame
    BY <2>1 DEF WaitForFrame
  <2>2. CASE ConsumePendingFrame
    BY <2>2 DEF ConsumePendingFrame
  <2>3. CASE ConsumeFails
    <3>1. running' \in BOOLEAN
      BY <2>3, Zenon DEF ConsumeFails
    <3> QED
      BY <2>3, <3>1 DEF ConsumeFails
  <2>4. CASE StoreNewFrameFlag
    BY <2>4 DEF StoreNewFrameFlag
  <2>5. CASE PushFrame
    <3>1. capture_queue' \in Seq(InputFrame)
      BY <2>5 DEF PushFrame, InputFrame, BufferHeld
    <3> QED
      BY <2>5, <3>1 DEF PushFrame
  <2>6. CASE ReleaseConsumedFrame
    <3>1. mHaveBuffer' \in BOOLEAN
      BY <2>6, Zenon DEF ReleaseConsumedFrame
    <3> QED
      BY <2>6, <3>1 DEF ReleaseConsumedFrame
  <2> QED
    BY <1>3, <2>1, <2>2, <2>3, <2>4, <2>5, <2>6 DEF CaptureThread
<1>4. CASE EncodeThread
  <2>1. CASE PopFrame
    BY <2>1 DEF PopFrame
  <2>2. CASE EncodeFrame
    BY <2>2, FrameSets DEF EncodeFrame, Compress, HasData, InputFrame
  <2>3. CASE StoreLastFrame
    BY <2>3 DEF StoreLastFrame
  <2>4. CASE PublishEncoded
    BY <2>4 DEF PublishEncoded, Publish
  <2>5. CASE SendEncoded
    BY <2>5 DEF SendEncoded, SendToSockets
  <2>6. CASE FreeInputFrame
    BY <2>6, FrameSets DEF FreeInputFrame
  <2> QED
    BY <1>4, <2>1, <2>2, <2>3, <2>4, <2>5, <2>6 DEF EncodeThread
<1>5. CASE BroadcastThread
  <2>1. CASE BroadcastWake
    BY <2>1 DEF BroadcastWake
  <2>2. CASE BroadcastLock
    BY <2>2 DEF BroadcastLock
  <2>3. CASE BroadcastPublish
    BY <2>3, FrameSets DEF BroadcastPublish, Publish
  <2>4. CASE BroadcastClearFlag
    <3>1. new_frame_captured' \in BOOLEAN
      BY <2>4, Zenon DEF BroadcastClearFlag
    <3> QED
      BY <2>4, <3>1 DEF BroadcastClearFlag
  <2> QED
    BY <1>5, <2>1, <2>2, <2>3, <2>4 DEF BroadcastThread
<1>6. ASSUME NEW s \in Sockets, OpenHandler(s) PROVE TypeOK'
  <2>1. CASE SocketLoadFlag(s)
    BY <2>1 DEF SocketLoadFlag
  <2>2. CASE SocketLock(s)
    BY <2>2 DEF SocketLock
  <2>3. CASE SocketSendLast(s)
    BY <2>3 DEF SocketSendLast, SendToSockets
  <2>4. CASE SocketClearFlag(s)
    <3>1. new_frame_captured' \in BOOLEAN
      BY <2>4, Zenon DEF SocketClearFlag
    <3> QED
      BY <2>4, <3>1 DEF SocketClearFlag
  <2> QED
    BY <1>6, <2>1, <2>2, <2>3, <2>4 DEF OpenHandler
<1>7. CASE UNCHANGED vars
  BY <1>7 DEF vars
<1> QED
  BY <1>1, <1>2, <1>3, <1>4, <1>5, <1>6, <1>7 DEF Next

(* TypeOK for every value of the constants. *)
THEOREM TypeCorrect == Spec => []TypeOK
<1>1. Init => BufferHeld
  BY DEF Init, BufferHeld
<1> QED
  BY <1>1, TypeInit, TypeStep, BufferHeldStep, PTL DEF Spec

(* The invariant the following proofs start from. *)
LEMMA Held == Spec => [](TypeOK /\ BufferHeld)
<1>1. Init => BufferHeld
  BY DEF Init, BufferHeld
<1> QED
  BY <1>1, TypeInit, TypeStep, BufferHeldStep, PTL DEF Spec

-----------------------------------------------------------------------------
(* consumePendingFrame.  Every queued buffer is announced once: it has a    *)
(* callback to come, is counted in mPendingFrames, or is the one the        *)
(* capture thread has just been woken for.                                  *)

FrameAccounting ==
    callbacks + mPendingFrames + (IF captureAt = "consume" THEN 1 ELSE 0) = Len(queued)

LEMMA FrameAccountingStep ==
    TypeOK /\ FrameAccounting /\ [Next]_vars => FrameAccounting'
<1> SUFFICES ASSUME TypeOK, FrameAccounting, [Next]_vars PROVE FrameAccounting'
  OBVIOUS
<1> USE DEF FrameAccounting, androidVars, captureVars
<1>1. callbacks \in Nat /\ mPendingFrames \in Nat /\ queued \in Seq(Buffers)
  BY DEF TypeOK
<1>2. CASE Outside
  <2>1. ASSUME NEW b \in Buffers, DrawFrame(b) PROVE FrameAccounting'
    <3>1. Len(queued') = Len(queued) + 1
      BY <1>1, <2>1 DEF DrawFrame
    <3>2. callbacks' = callbacks + 1 /\ UNCHANGED <<mPendingFrames, captureAt>>
      BY <2>1 DEF DrawFrame
    <3> QED
      BY <1>1, <3>1, <3>2
  <2>2. ASSUME NEW s \in Sockets, SocketConnect(s) \/ SocketClose(s) PROVE FrameAccounting'
    BY <2>2 DEF SocketConnect, SocketClose
  <2>3. ASSUME NEW h \in HttpViewers, HttpJoin(h) \/ HttpLeave(h) PROVE FrameAccounting'
    BY <2>3 DEF HttpJoin, HttpLeave
  <2> QED
    BY <1>2, <2>1, <2>2, <2>3 DEF Outside
<1>3. CASE OnFrameAvailable
  BY <1>1, <1>3 DEF OnFrameAvailable
<1>4. CASE CaptureThread
  <2>1. CASE WaitForFrame
    BY <1>1, <2>1 DEF WaitForFrame
  <2>2. CASE ConsumePendingFrame
    <3>1. Len(queued') = Len(queued) - 1
      BY <1>1, <2>2 DEF ConsumePendingFrame
    <3>2. UNCHANGED <<callbacks, mPendingFrames>> /\ captureAt = "consume" /\ captureAt' = "flag"
      BY <2>2 DEF ConsumePendingFrame
    <3> QED
      BY <1>1, <3>1, <3>2
  <2>3. CASE ConsumeFails
    BY <2>3 DEF ConsumeFails
  <2>4. CASE StoreNewFrameFlag \/ PushFrame \/ ReleaseConsumedFrame
    BY <2>4 DEF StoreNewFrameFlag, PushFrame, ReleaseConsumedFrame
  <2> QED
    BY <1>4, <2>1, <2>2, <2>3, <2>4 DEF CaptureThread
<1>5. CASE EncodeThread
  BY <1>5 DEF EncodeThread, PopFrame, EncodeFrame, StoreLastFrame,
              PublishEncoded, SendEncoded, FreeInputFrame
<1>6. CASE BroadcastThread
  BY <1>6 DEF BroadcastThread, BroadcastWake, BroadcastLock, BroadcastPublish,
              BroadcastClearFlag
<1>7. ASSUME NEW s \in Sockets, OpenHandler(s) PROVE FrameAccounting'
  BY <1>7 DEF OpenHandler, SocketLoadFlag, SocketLock, SocketSendLast, SocketClearFlag
<1>8. CASE UNCHANGED vars
  BY <1>8 DEF vars
<1> QED
  BY <1>2, <1>3, <1>4, <1>5, <1>6, <1>7, <1>8 DEF Next

(* ConsumeIsLegal for every value of the constants: acquireBuffer is never  *)
(* called on an empty queue, nor before the previous buffer was released.   *)
THEOREM ConsumeAlwaysLegal == Spec => []ConsumeIsLegal
<1>1. Init => FrameAccounting
  BY DEF Init, FrameAccounting
<1>2. TypeOK /\ BufferHeld /\ FrameAccounting => ConsumeIsLegal
  BY DEF TypeOK, BufferHeld, FrameAccounting, ConsumeIsLegal
<1> QED
  BY <1>1, <1>2, Held, FrameAccountingStep, PTL DEF Spec

-----------------------------------------------------------------------------
(* All viewers agree.  Whoever repeats the last frame does so under the     *)
(* mutex, and the encode thread, which publishes and sends after it has     *)
(* released it, works with a frame that only it can replace.                *)

(* The three holders of last_encoded_frame_mutex exclude each other. *)
MutexHeld ==
    /\ broadcastAt = "publish" <=> last_encoded_frame_mutex = "broadcast"
    /\ \A s \in Sockets : socketAt[s] = "send" => last_encoded_frame_mutex = "socket"
    /\ \A s, t \in Sockets : socketAt[s] = "send" /\ socketAt[t] = "send" => s = t

LEMMA MutexHeldStep == TypeOK /\ MutexHeld /\ [Next]_vars => MutexHeld'
<1> SUFFICES ASSUME TypeOK, MutexHeld, [Next]_vars PROVE MutexHeld'
  OBVIOUS
<1> USE DEF MutexHeld, lastVars, broadcastVars, socketVars
<1>1. CASE Outside
  <2>1. ASSUME NEW b \in Buffers, DrawFrame(b) PROVE MutexHeld'
    BY <2>1 DEF DrawFrame
  <2>2. ASSUME NEW s \in Sockets, SocketConnect(s) \/ SocketClose(s) PROVE MutexHeld'
    BY <2>2 DEF SocketConnect, SocketClose, TypeOK
  <2>3. ASSUME NEW h \in HttpViewers, HttpJoin(h) \/ HttpLeave(h) PROVE MutexHeld'
    BY <2>3 DEF HttpJoin, HttpLeave
  <2> QED
    BY <1>1, <2>1, <2>2, <2>3 DEF Outside
<1>2. CASE OnFrameAvailable
  BY <1>2 DEF OnFrameAvailable
<1>3. CASE CaptureThread
  BY <1>3 DEF CaptureThread, WaitForFrame, ConsumePendingFrame, ConsumeFails,
              StoreNewFrameFlag, PushFrame, ReleaseConsumedFrame
<1>4. CASE EncodeThread
  BY <1>4 DEF EncodeThread, PopFrame, EncodeFrame, StoreLastFrame,
              PublishEncoded, SendEncoded, FreeInputFrame
<1>5. CASE BroadcastThread
  BY <1>5 DEF BroadcastThread, BroadcastWake, BroadcastLock, BroadcastPublish,
              BroadcastClearFlag, MutexFree, Unlocked
<1>6. ASSUME NEW s \in Sockets, OpenHandler(s) PROVE MutexHeld'
  <2>1. CASE SocketLoadFlag(s) \/ SocketClearFlag(s)
    BY <2>1 DEF SocketLoadFlag, SocketClearFlag, TypeOK
  <2>2. CASE SocketLock(s)
    BY <2>2 DEF SocketLock, MutexFree, Unlocked, TypeOK
  <2>3. CASE SocketSendLast(s)
    BY <2>3 DEF SocketSendLast, Unlocked, TypeOK
  <2> QED
    BY <1>6, <2>1, <2>2, <2>3 DEF OpenHandler
<1>7. CASE UNCHANGED vars
  BY <1>7 DEF vars
<1> QED
  BY <1>1, <1>2, <1>3, <1>4, <1>5, <1>6, <1>7 DEF Next

(* How far each copy of the frame has come on its way to the viewers. *)
LastFrameKept ==
    /\ encodeAt # "publish" => stream = last_encoded_frame
    /\ encodeAt \in {"publish", "send"} => encoded_frame = last_encoded_frame
    /\ broadcastAt = "publish" => frameData = last_encoded_frame

(* What the connections have seen. *)
SocketsAgree ==
    /\ encodeAt \notin {"publish", "send"} =>
         \A s \in Sockets :
           IsOpen(s) /\ socketSaw[s] # NullFrame => socketSaw[s] = last_encoded_frame
    /\ \A s \in Sockets : socketAt[s] = "new" => socketSaw[s] = NullFrame

LEMMA LastFrameKeptStep ==
    TypeOK /\ MutexHeld /\ LastFrameKept /\ [Next]_vars => LastFrameKept'
<1> SUFFICES ASSUME TypeOK, MutexHeld, LastFrameKept, [Next]_vars PROVE LastFrameKept'
  OBVIOUS
<1> USE DEF LastFrameKept, encodeVars, lastVars, broadcastVars, httpVars
<1>1. CASE Outside
  BY <1>1 DEF Outside, DrawFrame, SocketConnect, SocketClose, HttpJoin, HttpLeave
<1>2. CASE OnFrameAvailable
  BY <1>2 DEF OnFrameAvailable
<1>3. CASE CaptureThread
  BY <1>3 DEF CaptureThread, WaitForFrame, ConsumePendingFrame, ConsumeFails,
              StoreNewFrameFlag, PushFrame, ReleaseConsumedFrame
<1>4. CASE EncodeThread
  <2>1. CASE PopFrame \/ EncodeFrame \/ SendEncoded \/ FreeInputFrame
    BY <2>1 DEF PopFrame, EncodeFrame, SendEncoded, FreeInputFrame
  <2>2. CASE StoreLastFrame
    BY <2>2 DEF StoreLastFrame, MutexFree, Unlocked, MutexHeld
  <2>3. CASE PublishEncoded
    BY <2>3 DEF PublishEncoded, Publish
  <2> QED
    BY <1>4, <2>1, <2>2, <2>3 DEF EncodeThread
<1>5. CASE BroadcastThread
  BY <1>5 DEF BroadcastThread, BroadcastWake, BroadcastLock, BroadcastPublish,
              BroadcastClearFlag, Publish
<1>6. ASSUME NEW s \in Sockets, OpenHandler(s) PROVE LastFrameKept'
  BY <1>6 DEF OpenHandler, SocketLoadFlag, SocketLock, SocketSendLast, SocketClearFlag
<1>7. CASE UNCHANGED vars
  BY <1>7 DEF vars
<1> QED
  BY <1>1, <1>2, <1>3, <1>4, <1>5, <1>6, <1>7 DEF Next

LEMMA SocketsAgreeStep ==
    TypeOK /\ LastFrameKept /\ SocketsAgree /\ [Next]_vars => SocketsAgree'
<1> SUFFICES ASSUME TypeOK, LastFrameKept, SocketsAgree, [Next]_vars PROVE SocketsAgree'
  OBVIOUS
<1> USE DEF SocketsAgree, IsOpen, encodeVars, lastVars, socketVars
<1>1. CASE Outside
  <2>1. ASSUME NEW b \in Buffers, DrawFrame(b) PROVE SocketsAgree'
    BY <2>1 DEF DrawFrame
  <2>2. ASSUME NEW s \in Sockets, SocketConnect(s) \/ SocketClose(s) PROVE SocketsAgree'
    BY <2>2 DEF SocketConnect, SocketClose, TypeOK
  <2>3. ASSUME NEW h \in HttpViewers, HttpJoin(h) \/ HttpLeave(h) PROVE SocketsAgree'
    BY <2>3 DEF HttpJoin, HttpLeave
  <2> QED
    BY <1>1, <2>1, <2>2, <2>3 DEF Outside
<1>2. CASE OnFrameAvailable
  BY <1>2 DEF OnFrameAvailable
<1>3. CASE CaptureThread
  BY <1>3 DEF CaptureThread, WaitForFrame, ConsumePendingFrame, ConsumeFails,
              StoreNewFrameFlag, PushFrame, ReleaseConsumedFrame
<1>4. CASE EncodeThread
  <2>1. CASE SendEncoded
    BY <2>1 DEF SendEncoded, SendToSockets, LastFrameKept, TypeOK
  <2>2. CASE PopFrame \/ EncodeFrame \/ StoreLastFrame \/ PublishEncoded \/ FreeInputFrame
    BY <2>2 DEF PopFrame, EncodeFrame, StoreLastFrame, PublishEncoded, FreeInputFrame
  <2> QED
    BY <1>4, <2>1, <2>2 DEF EncodeThread
<1>5. CASE BroadcastThread
  BY <1>5 DEF BroadcastThread, BroadcastWake, BroadcastLock, BroadcastPublish,
              BroadcastClearFlag
<1>6. ASSUME NEW s \in Sockets, OpenHandler(s) PROVE SocketsAgree'
  <2>1. CASE SocketSendLast(s)
    BY <2>1 DEF SocketSendLast, SendToSockets, TypeOK
  <2>2. CASE SocketLoadFlag(s) \/ SocketLock(s) \/ SocketClearFlag(s)
    BY <2>2 DEF SocketLoadFlag, SocketLock, SocketClearFlag, TypeOK
  <2> QED
    BY <1>6, <2>1, <2>2 DEF OpenHandler
<1>7. CASE UNCHANGED vars
  BY <1>7 DEF vars
<1> QED
  BY <1>1, <1>2, <1>3, <1>4, <1>5, <1>6, <1>7 DEF Next

(* InSync for every value of the constants: between two frames the stream   *)
(* and all connections hold the last encoded frame.                         *)
THEOREM ViewersInSync == Spec => []InSync
<1>1. Init => MutexHeld /\ LastFrameKept /\ SocketsAgree
  BY DEF Init, MutexHeld, LastFrameKept, SocketsAgree, Unlocked, NullFrame
<1>2. LastFrameKept /\ SocketsAgree => InSync
  BY DEF LastFrameKept, SocketsAgree, InSync
<1> QED
  BY <1>1, <1>2, Held, MutexHeldStep, LastFrameKeptStep, SocketsAgreeStep, PTL DEF Spec
=============================================================================
