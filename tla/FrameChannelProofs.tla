------------------------- MODULE FrameChannelProofs -------------------------
(***************************************************************************)
(* The frame pipeline uses FrameWaiter and capture_queue as FrameChannel   *)
(* has them, for any number of buffers, connections, viewers and frames.   *)
(***************************************************************************)
EXTENDS FrameOrderProofs

(* No frame is missing on the way from Android to the encoder: input_frame, *)
(* capture_queue, the held buffer and the queued buffers hold consecutive   *)
(* frames, up to the one drawn last.                                        *)
CaptureQueueComplete ==
    \A k \in 1..Len(capture_queue) : capture_queue[k].frame = input_frame.frame + k

BuffersComplete ==
    /\ \A j \in 1..Len(queued) : content[queued[j]] = drawn - Len(queued) + j
    /\ IsHeld => content[mBuffer] = drawn - Len(queued)

(* The frame the capture thread has acquired last. *)
lastAcquired == input_frame.frame + Len(capture_queue) + (IF IsHeld THEN 1 ELSE 0)

WayComplete == drawn = lastAcquired + Len(queued)

Complete == CaptureQueueComplete /\ BuffersComplete /\ WayComplete

(* How long the two queues get. *)
LEMMA Lengths ==
    ASSUME TypeOK
    PROVE  /\ \A b \in Buffers : DrawFrame(b) => Len(queued') = Len(queued) + 1
           /\ ConsumePendingFrame => Len(queued) > 0 /\ Len(queued') = Len(queued) - 1
           /\ PushFrame => Len(capture_queue') = Len(capture_queue) + 1
           /\ PopFrame => /\ Len(capture_queue) > 0
                          /\ Len(capture_queue') = Len(capture_queue) - 1
<1>1. queued \in Seq(Buffers) /\ capture_queue \in Seq(InputFrame)
  BY DEF TypeOK
<1>2. \A b \in Buffers : DrawFrame(b) => Len(queued') = Len(queued) + 1
  BY <1>1 DEF DrawFrame
<1>3. ConsumePendingFrame => Len(queued) > 0 /\ Len(queued') = Len(queued) - 1
  BY <1>1 DEF ConsumePendingFrame
<1>4. PushFrame => Len(capture_queue') = Len(capture_queue) + 1
  BY <1>1 DEF PushFrame
<1>5. PopFrame => Len(capture_queue) > 0 /\ Len(capture_queue') = Len(capture_queue) - 1
  BY <1>1 DEF PopFrame
<1> QED
  BY <1>2, <1>3, <1>4, <1>5

LEMMA CompleteStep ==
    TypeOK /\ BufferHeld /\ Complete /\ [Next]_vars => Complete'
<1> SUFFICES ASSUME TypeOK, BufferHeld, Complete, WayStep PROVE Complete'
  BY OthersKeepWay
<1>0. /\ drawn \in Nat /\ Len(queued) \in Nat /\ Len(capture_queue) \in Nat
      /\ input_frame.frame \in Nat
  BY Numbers, PipelineAssumption
<1>a. lastAcquired \in Nat
  BY <1>0 DEF lastAcquired
<1>b. CaptureQueueComplete /\ BuffersComplete /\ WayComplete
  BY DEF Complete
<1> USE DEF Complete
<1>1. ASSUME NEW b \in Buffers, DrawFrame(b) PROVE Complete'
  <2>1. DrewFrame /\ Len(queued') = Len(queued) + 1
    BY <1>1, DrawFrameEffect, Lengths
  <2>2. captureAt' = captureAt /\ (IsHeld' <=> IsHeld)
    BY <1>1 DEF DrawFrame, captureVars, IsHeld
  <2>3. CaptureQueueComplete'
    BY <2>1 DEF DrewFrame, CaptureQueueComplete
  <2>4. ASSUME NEW j \in 1..Len(queued') PROVE content'[queued'[j]] = drawn' - Len(queued') + j
    <3>1. drawn' - Len(queued') = drawn - Len(queued)
      BY <2>1, <1>0 DEF DrewFrame
    <3>2. CASE j \in 1..Len(queued) /\ content'[queued'[j]] = content[queued[j]]
      BY <3>1, <3>2 DEF BuffersComplete
    <3>3. CASE j = Len(queued) + 1 /\ content'[queued'[j]] = drawn + 1
      BY <3>1, <3>3, <1>0
    <3> QED
      BY <2>1, <3>2, <3>3 DEF DrewFrame
  <2>5. IsHeld' => content'[mBuffer'] = drawn' - Len(queued')
    BY <2>1, <2>2, <1>0, <1>b DEF DrewFrame, BuffersComplete
  <2>6. WayComplete'
    <3>1. drawn' = drawn + 1 /\ capture_queue' = capture_queue /\ input_frame' = input_frame
      BY <2>1 DEF DrewFrame
    <3>2. lastAcquired' = lastAcquired
      BY <2>2, <3>1 DEF lastAcquired
    <3> QED
      BY <1>0, <1>a, <1>b, <2>1, <3>1, <3>2 DEF WayComplete
  <2> QED
    BY <2>3, <2>4, <2>5, <2>6 DEF BuffersComplete
<1>2. CASE ConsumePendingFrame
  <2>1. /\ mBuffer' = queued[1] /\ captureAt' = "flag"
        /\ \A i \in DOMAIN queued' : i + 1 \in DOMAIN queued /\ queued'[i] = queued[i + 1]
        /\ UNCHANGED <<drawn, content, capture_queue, input_frame>>
        /\ Len(queued) > 0 /\ Len(queued') = Len(queued) - 1
    BY <1>2, ConsumeEffect, Lengths
  <2>2. ~IsHeld /\ IsHeld'
    BY <1>2, <2>1 DEF ConsumePendingFrame, IsHeld
  <2>3. DOMAIN queued' = 1..Len(queued')
    BY <1>2 DEF ConsumePendingFrame, TypeOK
  <2>4. ASSUME NEW j \in 1..Len(queued') PROVE content'[queued'[j]] = drawn' - Len(queued') + j
    <3>1. queued'[j] = queued[j + 1] /\ j + 1 \in 1..Len(queued)
      BY <2>1, <2>3
    <3>2. content[queued[j + 1]] = drawn - Len(queued) + (j + 1)
      BY <3>1 DEF BuffersComplete
    <3>3. drawn' - Len(queued') + j = drawn - Len(queued) + (j + 1)
      BY <2>1, <1>0
    <3> QED
      BY <2>1, <3>1, <3>2, <3>3
  <2>5. content'[mBuffer'] = drawn' - Len(queued')
    BY <2>1, <1>0, <1>b DEF BuffersComplete
  <2>6. CaptureQueueComplete' /\ WayComplete'
    <3>1. lastAcquired' = lastAcquired + 1
      BY <2>1, <2>2, <1>0 DEF lastAcquired
    <3> QED
      BY <2>1, <3>1, <1>0, <1>a, <1>b DEF CaptureQueueComplete, WayComplete
  <2> QED
    BY <2>4, <2>5, <2>6 DEF BuffersComplete
<1>3. CASE PushFrame
  <2>1. /\ capture_queue'[Len(capture_queue) + 1].frame = content[mBuffer]
        /\ \A i \in DOMAIN capture_queue : capture_queue'[i] = capture_queue[i]
        /\ captureAt = "push" /\ captureAt' = "release"
        /\ UNCHANGED <<drawn, content, queued, input_frame>>
        /\ Len(capture_queue') = Len(capture_queue) + 1
    BY <1>3, PushEffect, Lengths
  <2>2. IsHeld /\ ~IsHeld'
    BY <2>1 DEF IsHeld
  <2>3. content[mBuffer] = input_frame.frame + (Len(capture_queue) + 1)
    <3>1. content[mBuffer] = lastAcquired
      BY <2>2, <1>0, <1>a, <1>b DEF BuffersComplete, WayComplete
    <3> QED
      BY <3>1, <2>2, <1>0 DEF lastAcquired
  <2>4. ASSUME NEW k \in 1..Len(capture_queue')
        PROVE  capture_queue'[k].frame = input_frame'.frame + k
    <3>1. CASE k \in 1..Len(capture_queue)
      BY <2>1, <3>1 DEF CaptureQueueComplete
    <3>2. CASE k = Len(capture_queue) + 1
      <4>1. capture_queue'[k].frame = content[mBuffer]
        BY <2>1, <3>2
      <4>2. content[mBuffer] = input_frame'.frame + k
        BY <2>1, <2>3, <3>2, <1>0
      <4> QED
        BY <4>1, <4>2
    <3> QED
      BY <2>1, <3>1, <3>2
  <2>5. BuffersComplete'
    BY <2>1, <2>2 DEF BuffersComplete
  <2>6. WayComplete'
    <3>1. lastAcquired' = lastAcquired
      BY <2>1, <2>2, <1>0 DEF lastAcquired
    <3> QED
      BY <2>1, <3>1, <1>b DEF WayComplete
  <2> QED
    BY <2>4, <2>5, <2>6 DEF CaptureQueueComplete
<1>4. CASE WaitForFrame \/ ConsumeFails \/ StoreNewFrameFlag \/ ReleaseConsumedFrame
  <2>1. UNCHANGED <<drawn, content, queued, mBuffer, capture_queue, input_frame>>
        /\ (IsHeld' <=> IsHeld)
    BY <1>4 DEF WaitForFrame, ConsumeFails, StoreNewFrameFlag,
                ReleaseConsumedFrame, IsHeld, androidVars, captureVars, encodeVars
  <2> QED
    BY <2>1 DEF CaptureQueueComplete, BuffersComplete, WayComplete, lastAcquired
<1>5. CASE PopFrame
  <2>1. /\ input_frame' = capture_queue[1]
        /\ \A i \in DOMAIN capture_queue' :
              i + 1 \in DOMAIN capture_queue /\ capture_queue'[i] = capture_queue[i + 1]
        /\ UNCHANGED <<drawn, content, queued, captureAt, mBuffer>>
        /\ Len(capture_queue) > 0 /\ Len(capture_queue') = Len(capture_queue) - 1
    BY <1>5, PopEffect, Lengths
  <2>2. input_frame'.frame = input_frame.frame + 1
    BY <2>1 DEF CaptureQueueComplete
  <2>3. DOMAIN capture_queue' = 1..Len(capture_queue')
    BY <1>5 DEF PopFrame, TypeOK
  <2>4. ASSUME NEW k \in 1..Len(capture_queue')
        PROVE  capture_queue'[k].frame = input_frame'.frame + k
    <3>1. capture_queue'[k] = capture_queue[k + 1] /\ k + 1 \in 1..Len(capture_queue)
      BY <2>1, <2>3
    <3>2. capture_queue[k + 1].frame = input_frame.frame + (k + 1)
      BY <3>1 DEF CaptureQueueComplete
    <3>3. input_frame'.frame + k = input_frame.frame + (k + 1)
      BY <2>2, <1>0
    <3> QED
      BY <3>1, <3>2, <3>3
  <2>5. lastAcquired' = lastAcquired
    BY <2>1, <2>2, <1>0 DEF lastAcquired, IsHeld
  <2>6. BuffersComplete' /\ WayComplete'
    BY <2>1, <2>5, <1>b DEF BuffersComplete, WayComplete, IsHeld
  <2> QED
    BY <2>4, <2>6 DEF CaptureQueueComplete
<1>6. CASE UNCHANGED wayVars
  BY <1>6 DEF wayVars, IsHeld, CaptureQueueComplete, BuffersComplete, WayComplete,
     lastAcquired
<1> QED
  BY <1>1, <1>2, <1>3, <1>4, <1>5, <1>6 DEF WayStep, CaptureThread

-----------------------------------------------------------------------------
(* The channel's counters, read off the pipeline.                           *)

lastPushed == IF capture_queue = <<>> THEN input_frame.frame ELSE Last(capture_queue).frame
counted == drawn - callbacks
taken == counted - mPendingFrames

LEMMA LastPushed ==
    TypeOK /\ CaptureQueueComplete => lastPushed = input_frame.frame + Len(capture_queue)
<1> SUFFICES ASSUME TypeOK, CaptureQueueComplete
             PROVE  lastPushed = input_frame.frame + Len(capture_queue)
  OBVIOUS
<1>1. capture_queue \in Seq(InputFrame) /\ input_frame.frame \in 0..MaxFrame
  BY Numbers DEF TypeOK
<1>2. CASE capture_queue = <<>>
  <2>1. Len(capture_queue) = 0
    BY <1>2
  <2> QED
    BY <1>1, <1>2, <2>1 DEF lastPushed
<1>3. CASE capture_queue # <<>>
  <2>1. Len(capture_queue) \in 1..Len(capture_queue)
    BY <1>1, <1>3
  <2> QED
    BY <1>3, <2>1 DEF lastPushed, Last, CaptureQueueComplete
<1> QED
  BY <1>2, <1>3

(* All that the channel's steps need. *)
ChannelInv == TypeOK /\ BufferHeld /\ FrameAccounting /\ Complete

LEMMA ChannelInvInit == Init => ChannelInv
<1> SUFFICES ASSUME Init PROVE ChannelInv
  OBVIOUS
<1>1. TypeOK
  BY TypeInit
<1>2. Len(queued) = 0 /\ Len(capture_queue) = 0
  BY DEF Init
<1>3. BufferHeld /\ FrameAccounting
  BY <1>2 DEF Init, BufferHeld, FrameAccounting
<1>4. Complete
  BY <1>2 DEF Init, Complete, CaptureQueueComplete, BuffersComplete, WayComplete, lastAcquired, IsHeld
<1> QED
  BY <1>1, <1>3, <1>4 DEF ChannelInv

LEMMA ChannelInvStep == ChannelInv /\ [Next]_vars => ChannelInv'
  BY TypeStep, BufferHeldStep, FrameAccountingStep, CompleteStep DEF ChannelInv

LEMMA ChannelStep ==
    ChannelInv /\ ChannelInv' /\ [Next]_vars
      => [Channel!Next]_<<counted, taken, lastPushed, input_frame.frame>>
<1> SUFFICES ASSUME ChannelInv, ChannelInv', [Next]_vars
             PROVE  [Channel!Next]_<<counted, taken, lastPushed, input_frame.frame>>
  OBVIOUS
<1> DEFINE seen == <<drawn - callbacks, mPendingFrames, capture_queue, input_frame>>
           Goal == [Channel!Next]_<<counted, taken, lastPushed, input_frame.frame>>
<1>0. /\ drawn \in Nat /\ callbacks \in Nat /\ mPendingFrames \in Nat
      /\ Len(queued) \in Nat /\ Len(capture_queue) \in Nat
      /\ input_frame.frame \in 0..MaxFrame /\ MaxFrame \in Nat
  BY Numbers, PipelineAssumption DEF ChannelInv, TypeOK
<1>1. TypeOK /\ FrameAccounting /\ WayComplete /\ CaptureQueueComplete
  BY DEF ChannelInv, Complete
<1>2. lastPushed = input_frame.frame + Len(capture_queue)
  BY <1>1, LastPushed
<1>3. lastPushed' = input_frame'.frame + Len(capture_queue')
  <2>1. (TypeOK /\ CaptureQueueComplete
           => lastPushed = input_frame.frame + Len(capture_queue))'
    BY LastPushed, PTL
  <2> QED
    BY <2>1 DEF ChannelInv, Complete
<1>s. ASSUME UNCHANGED seen PROVE Goal
  BY <1>s DEF counted, taken, lastPushed
<1>4. ASSUME NEW b \in Buffers, DrawFrame(b) PROVE Goal
  <2>1. UNCHANGED <<mPendingFrames, capture_queue, input_frame>>
        /\ drawn' = drawn + 1 /\ callbacks' = callbacks + 1
    BY <1>4 DEF DrawFrame, encodeVars
  <2>2. UNCHANGED seen
    BY <1>0, <2>1
  <2> QED
    BY <2>2, <1>s
<1>5. CASE OnFrameAvailable
  <2>1. drawn' = drawn /\ callbacks' = callbacks - 1 /\ mPendingFrames' = mPendingFrames + 1
        /\ UNCHANGED <<capture_queue, input_frame>>
    BY <1>5 DEF OnFrameAvailable, encodeVars
  <2>2. counted' = counted + 1 /\ UNCHANGED <<taken, lastPushed, input_frame.frame>>
    BY <1>0, <2>1 DEF counted, taken, lastPushed
  <2>3. Channel!Announce
    BY <2>2 DEF Channel!Announce, counted, taken, lastPushed
  <2> QED
    BY <2>3 DEF Channel!Next
<1>6. CASE WaitForFrame
  <2>1. mPendingFrames > 0 /\ mPendingFrames' = mPendingFrames - 1 /\ captureAt = "wait"
        /\ UNCHANGED <<drawn, callbacks, capture_queue, input_frame>>
    BY <1>6 DEF WaitForFrame, androidVars, encodeVars
  <2>2. taken < counted /\ taken' = taken + 1 /\ UNCHANGED <<counted, lastPushed, input_frame.frame>>
    BY <1>0, <2>1 DEF counted, taken, lastPushed
  <2>3. taken = lastPushed
    <3>1. ~IsHeld /\ captureAt # "consume"
      BY <2>1 DEF IsHeld
    <3>2. callbacks + mPendingFrames = Len(queued)
      BY <1>0, <1>1, <3>1 DEF FrameAccounting
    <3>3. drawn = lastPushed + Len(queued) /\ lastPushed \in Int
      BY <1>0, <1>1, <1>2, <3>1 DEF WayComplete, lastAcquired
    <3> QED
      BY <1>0, <3>2, <3>3 DEF counted, taken
  <2>4. Channel!Wait
    BY <2>2, <2>3 DEF Channel!Wait, counted, taken, lastPushed
  <2> QED
    BY <2>4 DEF Channel!Next
<1>7. CASE PushFrame
  <2>1. UNCHANGED <<drawn, callbacks, mPendingFrames, input_frame>> /\ captureAt = "push"
        /\ Len(capture_queue') = Len(capture_queue) + 1
    BY <1>1, <1>7, Lengths DEF PushFrame, androidVars, encodeVars
  <2>2. lastPushed' = lastPushed + 1 /\ UNCHANGED <<counted, taken, input_frame.frame>>
    BY <1>0, <1>2, <1>3, <2>1 DEF counted, taken
  <2>3. taken = lastPushed + 1
    <3>1. IsHeld /\ captureAt # "consume"
      BY <2>1 DEF IsHeld
    <3>2. callbacks + mPendingFrames = Len(queued)
      BY <1>0, <1>1, <3>1 DEF FrameAccounting
    <3>3. drawn = lastPushed + 1 + Len(queued) /\ lastPushed \in Int
      BY <1>0, <1>1, <1>2, <3>1 DEF WayComplete, lastAcquired
    <3> QED
      BY <1>0, <3>2, <3>3 DEF counted, taken
  <2>4. lastPushed < taken /\ lastPushed' = taken
    BY <1>0, <1>2, <2>2, <2>3
  <2>5. Channel!Push
    BY <2>2, <2>4 DEF Channel!Push, counted, taken, lastPushed
  <2> QED
    BY <2>5 DEF Channel!Next
<1>8. CASE PopFrame
  <2>1. /\ input_frame' = capture_queue[1]
        /\ Len(capture_queue) > 0 /\ Len(capture_queue') = Len(capture_queue) - 1
        /\ UNCHANGED <<drawn, callbacks, mPendingFrames>>
    BY <1>1, <1>8, PopEffect, Lengths DEF PopFrame, androidVars
  <2>2. input_frame'.frame = input_frame.frame + 1
    BY <1>0, <1>1, <2>1 DEF CaptureQueueComplete
  <2>3. input_frame.frame < lastPushed /\ lastPushed' = lastPushed
    BY <1>0, <1>2, <1>3, <2>1, <2>2
  <2>4. UNCHANGED <<counted, taken>>
    BY <2>1 DEF counted, taken
  <2>5. Channel!Pop
    BY <2>2, <2>3, <2>4 DEF Channel!Pop, counted, taken, lastPushed
  <2> QED
    BY <2>5 DEF Channel!Next
<1>9. \/ ConsumePendingFrame \/ ConsumeFails \/ StoreNewFrameFlag \/ ReleaseConsumedFrame
      => UNCHANGED seen
  BY DEF ConsumePendingFrame, ConsumeFails, StoreNewFrameFlag, ReleaseConsumedFrame,
         androidVars, encodeVars
<1>10. ASSUME NEW s \in Sockets, SocketConnect(s) \/ SocketClose(s) \/ OpenHandler(s)
       PROVE  UNCHANGED seen
  BY <1>10 DEF SocketConnect, SocketClose, OpenHandler, SocketLoadFlag, SocketLock,
     SocketSendLast, SocketClearFlag, androidVars, encodeVars
<1>11. ASSUME NEW h \in HttpViewers, HttpJoin(h) \/ HttpLeave(h) PROVE UNCHANGED seen
  BY <1>11 DEF HttpJoin, HttpLeave, androidVars, encodeVars
<1>12. EncodeFrame \/ StoreLastFrame \/ PublishEncoded \/ SendEncoded \/ FreeInputFrame
       => UNCHANGED seen
  BY DEF EncodeFrame, StoreLastFrame, PublishEncoded, SendEncoded, FreeInputFrame, androidVars
<1>13. BroadcastThread => UNCHANGED seen
  BY DEF BroadcastThread, BroadcastWake, BroadcastLock, BroadcastPublish,
         BroadcastClearFlag, androidVars, encodeVars
<1>14. UNCHANGED vars => UNCHANGED seen
  BY DEF vars, androidVars, encodeVars
<1> QED
  BY <1>s, <1>4, <1>5, <1>6, <1>7, <1>8, <1>9, <1>10, <1>11, <1>12, <1>13, <1>14
     DEF Next, Outside, CaptureThread, EncodeThread

(* UsesChannel for every value of the constants: the frames that the        *)
(* capture thread reads out of the buffers and the encode thread pops are   *)
(* those Android announced, each once, in order and none left out.          *)
THEOREM PipelineUsesChannel == Spec => UsesChannel
<1>1. Init => Channel!Init
  BY DEF Init, Channel!Init
<1>2. ChannelInv /\ ChannelInv' /\ [Next]_vars => [Channel!Next]_(Channel!vars)
  BY ChannelStep DEF Channel!vars, counted, taken, lastPushed
<1> QED
  BY <1>1, <1>2, ChannelInvInit, ChannelInvStep, PTL DEF Spec, UsesChannel, Channel!Spec
=============================================================================
