---------------------------- MODULE ProcessProofs ----------------------------
(***************************************************************************)
(* Every block is freed once and read whole, every frame announced, and    *)
(* the stream a LiveView, for any number of open handlers, blocks and      *)
(* frames.                                                                 *)
(***************************************************************************)
EXTENDS Process, TLAPS

USE DEF startVars, setupVars, channelVars, lastVars, encodeVars, Freed, Raw, Unlocked

(* Frames on their way from Android to the encode thread are counted once,  *)
(* and none is drawn before the display has its listener.                   *)
ChannelInv ==
    /\ captureAt \in {"apply", "listen"} => mUserFrameAvailableListener
    /\ captureAt \in {"publish", "loop"} => frameProxy
    /\ drawn = announced + callbacks
    /\ pushed <= announced
    /\ popped <= pushed
    /\ encodeAt \in {"encode", "lock", "assign", "copy", "publish", "free"} => popped > 0

(* The encode thread has the mutex while it replaces the last frame, and    *)
(* whoever reads it has it alone.                                           *)
MutexInv ==
    /\ encodeAt \in {"assign", "copy"} <=> mutex = "encode"
    /\ \A r \in Readers : readerAt[r] = "read" => mutex = "reader"
    /\ \A r, q \in Readers : readerAt[r] = "read" /\ readerAt[q] = "read" => r = q

(* What the compressed and the last frame's blocks hold at each place of    *)
(* the encode thread.                                                       *)
InHand == encodeAt \in {"lock", "assign", "copy", "publish", "free"}

BlockInv ==
    /\ mainAt # "join" => encodeAt = "new"
    /\ encodeAt = "new" => last = NoBlock
    /\ InHand <=> encoded # NoBlock
    /\ InHand => heap[encoded] = popped
    /\ InHand /\ encodeAt # "assign" => encoded # last
    /\ encodeAt \in {"copy", "publish", "free"} => last # NoBlock
    /\ encodeAt \in {"publish", "free"} => heap[last] = popped
    /\ encodeAt = "free" => stream = popped
    /\ stream <= popped
    /\ encodeAt \in {"pop", "encode", "lock"} /\ last # NoBlock
         => heap[last] = stream /\ stream > 0

(* HeapIsSound, block by block.                                             *)
Held(b) == b = encoded \/ (encodeAt # "assign" /\ b = last)
HeapInv == \A b \in Blocks : heap[b] # Freed <=> Held(b)

ProcessInv == TypeOK /\ ChannelInv /\ MutexInv /\ BlockInv /\ HeapInv

LEMMA NoBlockIsNone == NoBlock \notin Blocks
  BY ProcessAssumption DEF NoBlock

LEMMA Steps ==
    [Next]_vars =>
      \/ MainProceeds \/ StartStreamer \/ Draw \/ Announce
      \/ CaptureProceeds \/ CaptureFails
      \/ PopFrame \/ CompressH264 \/ CompressFails \/ FreeLast \/ CopyLast
      \/ PublishEncoded \/ FreeEncoded
      \/ \E b \in Blocks : CompressJpeg(b)
      \/ \E b \in Blocks : AllocateLast(b)
      \/ \E r \in Readers : ReadLast(r)
      \/ \E r \in Readers : SendLast(r)
      \/ UNCHANGED vars
  BY DEF Next, EncodeProceeds

LEMMA FilledBlock ==
    ASSUME NEW S, NEW T, NEW f \in [S -> T], NEW x, NEW v \in T
    PROVE  [f EXCEPT ![x] = v] \in [S -> T]
  OBVIOUS

(* What is TRUE or FALSE stays so; apart from the rest of TypeOK, because   *)
(* this needs no arithmetic and the rest does.                              *)
FlagsOK ==
    /\ running \in BOOLEAN /\ pool \in BOOLEAN /\ isH264 \in BOOLEAN
    /\ mUserFrameAvailableListener \in BOOLEAN /\ frameProxy \in BOOLEAN

LEMMA FlagsStep == FlagsOK /\ [Next]_vars => FlagsOK'
<1> SUFFICES ASSUME FlagsOK, [Next]_vars PROVE FlagsOK'
  OBVIOUS
<1> USE DEF FlagsOK
<1>1. CASE MainProceeds
  <2>1. ASSUME NEW is_h264 \in {-1, 0, 1}, ReadProperties(is_h264) PROVE FlagsOK'
    <3>1. (is_h264 # 0) \in BOOLEAN
      OBVIOUS
    <3> QED
      BY <2>1, <3>1, Zenon DEF ReadProperties
  <2>2. CASE StartThreadPool \/ StartSocket \/ ClearLast \/ CreateEncoders \/ StartThreads
    BY <2>2, Zenon DEF StartThreadPool, StartSocket, ClearLast, CreateEncoders, StartThreads
  <2> QED
    BY <1>1, <2>1, <2>2 DEF MainProceeds
<1>2. CASE StartStreamer \/ CaptureFails \/ Draw \/ Announce
  BY <1>2, Zenon DEF StartStreamer, CaptureFails, Draw, Announce
<1>3. CASE CaptureProceeds
  BY <1>3, Zenon DEF CaptureProceeds, GetDisplayInfo, CreateMinicap, CreateVirtualDisplay,
     SetConsumerListener, PublishDisplay, CaptureFrame
<1>4. CASE PopFrame \/ CompressH264 \/ CompressFails
  BY <1>4, Zenon DEF PopFrame, CompressH264, CompressFails
<1>5. CASE FreeLast \/ CopyLast \/ PublishEncoded \/ FreeEncoded
  BY <1>5, Zenon DEF FreeLast, CopyLast, PublishEncoded, FreeEncoded
<1>6. ASSUME NEW b \in Blocks, CompressJpeg(b) \/ AllocateLast(b) PROVE FlagsOK'
  BY <1>6, Zenon DEF CompressJpeg, AllocateLast
<1>7. ASSUME NEW r \in Readers, ReadLast(r) \/ SendLast(r) PROVE FlagsOK'
  BY <1>7, Zenon DEF ReadLast, SendLast
<1>8. CASE UNCHANGED vars
  BY <1>8, Zenon DEF vars
<1> QED
  BY Steps, <1>1, <1>2, <1>3, <1>4, <1>5, <1>6, <1>7, <1>8

LEMMA TypeStep == ProcessInv /\ [Next]_vars => TypeOK'
<1> SUFFICES ASSUME ProcessInv, [Next]_vars PROVE TypeOK'
  OBVIOUS
<1>0. TypeOK /\ ChannelInv /\ BlockInv /\ HeapInv /\ MutexInv
  BY DEF ProcessInv
<1>a. MaxFrames \in Nat /\ NoBlock \notin Blocks
  BY ProcessAssumption, NoBlockIsNone
<1>f. FlagsOK'
  BY <1>0, FlagsStep, Zenon DEF TypeOK, FlagsOK
<1> USE <1>0, <1>a DEF TypeOK
<1>1. CASE MainProceeds
  BY <1>1, <1>f DEF FlagsOK, MainProceeds, StartThreadPool, StartSocket, ClearLast, CreateEncoders,
     StartThreads, ReadProperties
<1>2. CASE StartStreamer \/ CaptureFails
  BY <1>2, <1>f DEF FlagsOK, StartStreamer, CaptureFails
<1>3. CASE Draw
  BY <1>3 DEF Draw, ChannelInv
<1>4. CASE Announce
  BY <1>4 DEF Announce, ChannelInv
<1>5. CASE CaptureProceeds
  BY <1>5, <1>f DEF FlagsOK, CaptureProceeds, GetDisplayInfo, CreateMinicap, CreateVirtualDisplay,
     SetConsumerListener, PublishDisplay, CaptureFrame
<1>6. CASE PopFrame
  BY <1>6 DEF PopFrame
<1>7. CASE CompressH264 \/ CompressFails
  BY <1>7, <1>f DEF FlagsOK, CompressH264, CompressFails
<1>8. ASSUME NEW b \in Blocks, CompressJpeg(b) PROVE TypeOK'
  BY <1>8 DEF CompressJpeg
<1>9. CASE FreeLast
  BY <1>9 DEF FreeLast
<1>10. ASSUME NEW b \in Blocks, AllocateLast(b) PROVE TypeOK'
  BY <1>10 DEF AllocateLast
<1>11. CASE CopyLast
  <2>1. heap[encoded] = popped
    BY <1>11 DEF CopyLast, BlockInv, InHand
  <2>2. heap[encoded] \in Freed..MaxFrames
    BY <2>1
  <2>3. heap' \in [Blocks -> Freed..MaxFrames]
    BY <1>11, <2>2, FilledBlock DEF CopyLast
  <2> QED
    BY <1>11, <1>f, <2>3 DEF CopyLast, FlagsOK
<1>12. CASE PublishEncoded
  <2>1. heap[encoded] = popped
    BY <1>12 DEF PublishEncoded, BlockInv, InHand
  <2> QED
    BY <1>12, <2>1 DEF PublishEncoded
<1>13. CASE FreeEncoded
  <2>1. Freed \in Freed..MaxFrames
    OBVIOUS
  <2>2. heap' \in [Blocks -> Freed..MaxFrames]
    BY <1>13, <2>1, FilledBlock DEF FreeEncoded
  <2> QED
    BY <1>13, <1>f, <2>2 DEF FreeEncoded, FlagsOK
<1>14. ASSUME NEW r \in Readers, ReadLast(r) PROVE TypeOK'
  BY <1>14 DEF ReadLast
<1>15. ASSUME NEW r \in Readers, SendLast(r) PROVE TypeOK'
  <2>1. last # NoBlock => heap[last] \in 0..MaxFrames
    BY <1>15 DEF SendLast, BlockInv, MutexInv
  <2> QED
    BY <1>15, <2>1 DEF SendLast
<1>16. CASE UNCHANGED vars
  BY <1>16 DEF vars
<1> QED
  BY Steps, <1>1, <1>2, <1>3, <1>4, <1>5, <1>6, <1>7, <1>8, <1>9, <1>10, <1>11, <1>12,
     <1>13, <1>14, <1>15, <1>16

LEMMA ChannelStep == ProcessInv /\ [Next]_vars => ChannelInv'
<1> SUFFICES ASSUME ProcessInv, [Next]_vars PROVE ChannelInv'
  OBVIOUS
<1>0. ChannelInv /\ BlockInv
      /\ drawn \in Nat /\ callbacks \in Nat /\ announced \in Nat
      /\ pushed \in Nat /\ popped \in Nat
  BY ProcessAssumption DEF ProcessInv, TypeOK
<1> USE <1>0 DEF ChannelInv
<1>1. CASE MainProceeds
  BY <1>1 DEF MainProceeds, StartThreadPool, StartSocket, ClearLast, CreateEncoders,
     StartThreads, ReadProperties
<1>2. CASE StartStreamer \/ CaptureFails
  BY <1>2 DEF StartStreamer, CaptureFails
<1>3. CASE Draw
  BY <1>3 DEF Draw
<1>4. CASE Announce
  BY <1>4 DEF Announce
<1>5. CASE CaptureProceeds
  BY <1>5 DEF CaptureProceeds, GetDisplayInfo, CreateMinicap, CreateVirtualDisplay,
     SetConsumerListener, PublishDisplay, CaptureFrame
<1>6. CASE PopFrame
  BY <1>6 DEF PopFrame
<1>7. CASE CompressH264 \/ CompressFails \/ FreeLast \/ CopyLast \/ PublishEncoded \/ FreeEncoded
  BY <1>7 DEF CompressH264, CompressFails, FreeLast, CopyLast, PublishEncoded, FreeEncoded
<1>8. ASSUME NEW b \in Blocks, CompressJpeg(b) \/ AllocateLast(b) PROVE ChannelInv'
  BY <1>8 DEF CompressJpeg, AllocateLast
<1>9. ASSUME NEW r \in Readers, ReadLast(r) \/ SendLast(r) PROVE ChannelInv'
  BY <1>9 DEF ReadLast, SendLast
<1>10. CASE UNCHANGED vars
  BY <1>10 DEF vars
<1> QED
  BY Steps, <1>1, <1>2, <1>3, <1>4, <1>5, <1>6, <1>7, <1>8, <1>9, <1>10

LEMMA MutexStep == ProcessInv /\ [Next]_vars => MutexInv'
<1> SUFFICES ASSUME ProcessInv, [Next]_vars PROVE MutexInv'
  OBVIOUS
<1>0. MutexInv /\ BlockInv /\ readerAt \in [Readers -> {"idle", "read"}]
  BY DEF ProcessInv, TypeOK
<1> USE <1>0 DEF MutexInv
<1>1. CASE MainProceeds
  BY <1>1 DEF MainProceeds, StartThreadPool, StartSocket, ClearLast, CreateEncoders,
     StartThreads, ReadProperties, BlockInv
<1>2. CASE StartStreamer \/ CaptureFails \/ Draw \/ Announce
  BY <1>2 DEF StartStreamer, CaptureFails, Draw, Announce
<1>3. CASE CaptureProceeds
  BY <1>3 DEF CaptureProceeds, GetDisplayInfo, CreateMinicap, CreateVirtualDisplay,
     SetConsumerListener, PublishDisplay, CaptureFrame
<1>4. CASE PopFrame \/ CompressH264 \/ CompressFails
  BY <1>4 DEF PopFrame, CompressH264, CompressFails
<1>5. CASE FreeLast \/ CopyLast
  BY <1>5 DEF FreeLast, CopyLast, MutexFree
<1>6. CASE PublishEncoded \/ FreeEncoded
  BY <1>6 DEF PublishEncoded, FreeEncoded
<1>7. ASSUME NEW b \in Blocks, CompressJpeg(b) \/ AllocateLast(b) PROVE MutexInv'
  BY <1>7 DEF CompressJpeg, AllocateLast
<1>8. ASSUME NEW r \in Readers, ReadLast(r) PROVE MutexInv'
  BY <1>8 DEF ReadLast, MutexFree
<1>9. ASSUME NEW r \in Readers, SendLast(r) PROVE MutexInv'
  BY <1>9 DEF SendLast
<1>10. CASE UNCHANGED vars
  BY <1>10 DEF vars
<1> QED
  BY Steps, <1>1, <1>2, <1>3, <1>4, <1>5, <1>6, <1>7, <1>8, <1>9, <1>10

(* Of the steps that touch a block, each finds it as the one before left it. *)
LEMMA BlockStep == ProcessInv /\ [Next]_vars => BlockInv' /\ HeapInv'
<1> SUFFICES ASSUME ProcessInv, [Next]_vars PROVE BlockInv' /\ HeapInv'
  OBVIOUS
<1>0. /\ BlockInv /\ HeapInv /\ MutexInv /\ ChannelInv
      /\ heap \in [Blocks -> Freed..MaxFrames]
      /\ popped \in Nat /\ stream \in Nat /\ pushed \in Nat
      /\ encoded \in Blocks \cup {NoBlock} /\ last \in Blocks \cup {NoBlock}
      /\ encodeAt \in {"new", "pop", "encode", "lock", "assign", "copy", "publish", "free"}
      /\ NoBlock \notin Blocks
      /\ MaxFrames \in Nat
  BY ProcessAssumption, NoBlockIsNone DEF ProcessInv, TypeOK
<1> USE <1>0 DEF BlockInv, HeapInv, Held, InHand
<1>1. CASE MainProceeds
  BY <1>1 DEF MainProceeds, StartThreadPool, StartSocket, ClearLast, CreateEncoders,
     StartThreads, ReadProperties
<1>2. CASE StartStreamer \/ CaptureFails \/ Draw \/ Announce
  BY <1>2 DEF StartStreamer, CaptureFails, Draw, Announce
<1>3. CASE CaptureProceeds
  BY <1>3 DEF CaptureProceeds, GetDisplayInfo, CreateMinicap, CreateVirtualDisplay,
     SetConsumerListener, PublishDisplay, CaptureFrame
<1>4. CASE PopFrame
  BY <1>4 DEF PopFrame
<1>5. CASE CompressH264 \/ CompressFails
  BY <1>5 DEF CompressH264, CompressFails
<1>6. ASSUME NEW b \in Blocks, CompressJpeg(b) PROVE BlockInv' /\ HeapInv'
  BY <1>6 DEF CompressJpeg, ChannelInv
<1>7. CASE FreeLast
  BY <1>7 DEF FreeLast
<1>8. ASSUME NEW b \in Blocks, AllocateLast(b) PROVE BlockInv' /\ HeapInv'
  BY <1>8 DEF AllocateLast
<1>9. CASE CopyLast
  BY <1>9 DEF CopyLast, ChannelInv
<1>10. CASE PublishEncoded
  BY <1>10 DEF PublishEncoded
<1>11. CASE FreeEncoded
  BY <1>11 DEF FreeEncoded, ChannelInv
<1>12. ASSUME NEW r \in Readers, ReadLast(r) PROVE BlockInv' /\ HeapInv'
  BY <1>12 DEF ReadLast
<1>13. ASSUME NEW r \in Readers, SendLast(r) PROVE BlockInv' /\ HeapInv'
  BY <1>13 DEF SendLast, MutexInv
<1>14. CASE UNCHANGED vars
  BY <1>14 DEF vars
<1> QED
  BY Steps, <1>1, <1>2, <1>3, <1>4, <1>5, <1>6, <1>7, <1>8, <1>9, <1>10, <1>11, <1>12,
     <1>13, <1>14

LEMMA ProcessInit == Init => ProcessInv
<1> SUFFICES ASSUME Init PROVE ProcessInv
  OBVIOUS
<1>1. FlagsOK
  BY Zenon DEF Init, FlagsOK
<1>2. TypeOK
  BY <1>1, ProcessAssumption DEF Init, TypeOK, FlagsOK
<1>3. ChannelInv /\ MutexInv
  BY DEF Init, ChannelInv, MutexInv
<1>4. BlockInv /\ HeapInv
  BY NoBlockIsNone DEF Init, BlockInv, InHand, HeapInv, Held
<1> QED
  BY <1>2, <1>3, <1>4 DEF ProcessInv

LEMMA ProcessStep == ProcessInv /\ [Next]_vars => ProcessInv'
  BY TypeStep, ChannelStep, MutexStep, BlockStep DEF ProcessInv

(* Type correctness, from main() on and in both modes.                      *)
THEOREM TypeCorrect == Spec => []TypeOK
<1>1. ProcessInv => TypeOK
  BY DEF ProcessInv
<1> QED
  BY <1>1, ProcessInit, ProcessStep, PTL DEF Spec

(* The consumer gets its listener before the display is published, so that  *)
(* every drawn frame is announced once.                                     *)
THEOREM EveryFrameAnnounced == Spec => []FramesAreAnnounced
<1>1. ProcessInv => FramesAreAnnounced
  BY DEF ProcessInv, ChannelInv, FramesAreAnnounced
<1> QED
  BY <1>1, ProcessInit, ProcessStep, PTL DEF Spec

(* The encode thread frees each block once and leaks none, whatever block   *)
(* malloc() and realloc() give.                                             *)
THEOREM BlocksFreedOnce == Spec => []HeapIsSound
<1>1. ProcessInv => HeapIsSound
  <2> SUFFICES ASSUME ProcessInv PROVE HeapIsSound
    OBVIOUS
  <2>1. /\ encoded \in Blocks \cup {NoBlock} /\ last \in Blocks \cup {NoBlock}
        /\ NoBlock \notin Blocks
    BY NoBlockIsNone DEF ProcessInv, TypeOK
  <2>2. CASE encodeAt = "assign"
    BY <2>1, <2>2 DEF ProcessInv, HeapInv, Held, BlockInv, InHand, HeapIsSound
  <2>3. CASE encodeAt # "assign"
    BY <2>1, <2>3 DEF ProcessInv, TypeOK, HeapInv, Held, BlockInv, InHand, HeapIsSound
  <2> QED
    BY <2>2, <2>3
<1> QED
  BY <1>1, ProcessInit, ProcessStep, PTL DEF Spec

(* The broadcast thread and the open handlers never follow                  *)
(* last_encoded_frame.data to a freed or half-filled block.                 *)
THEOREM FramesReadWhole == Spec => []ReadersSeeWholeFrames
<1>1. ProcessInv => ReadersSeeWholeFrames
  <2> SUFFICES ASSUME ProcessInv, NEW r \in Readers, readerAt[r] = "read", last # NoBlock
               PROVE heap[last] > 0 /\ heap[last] \in {stream, popped}
    BY DEF ReadersSeeWholeFrames
  <2>1. encodeAt \notin {"assign", "copy"}
    BY DEF ProcessInv, MutexInv
  <2> QED
    BY <2>1 DEF ProcessInv, TypeOK, BlockInv, ChannelInv
<1> QED
  BY <1>1, ProcessInit, ProcessStep, PTL DEF Spec

(* A step of the process shows a viewer a later frame that was drawn, or    *)
(* draws one, or changes neither the display nor the stream.                *)
LEMMA StreamStep == ProcessInv /\ [Next]_vars => [View!Next]_<<drawn, stream>>
<1> SUFFICES ASSUME ProcessInv, [Next]_vars PROVE [View!Next]_<<drawn, stream>>
  OBVIOUS
<1>0. /\ BlockInv /\ MutexInv /\ ChannelInv
      /\ popped \in Nat /\ stream \in Nat /\ pushed \in Nat /\ announced \in Nat
      /\ drawn \in Nat /\ callbacks \in Nat
  BY ProcessAssumption DEF ProcessInv, TypeOK
<1>r. popped <= drawn
  BY <1>0 DEF ChannelInv
<1>s. stream' \in {stream, popped} /\ drawn' = drawn => [View!Next]_<<drawn, stream>>
  BY <1>0, <1>r DEF View!Next, View!Show, BlockInv
<1>1. CASE MainProceeds
  BY <1>1, <1>s DEF MainProceeds, StartThreadPool, StartSocket, ClearLast, CreateEncoders,
     StartThreads, ReadProperties
<1>2. CASE StartStreamer \/ CaptureFails \/ Announce
  BY <1>2, <1>s DEF StartStreamer, CaptureFails, Announce
<1>3. CASE Draw
  BY <1>3 DEF Draw, View!Next, View!Draw
<1>4. CASE CaptureProceeds
  BY <1>4, <1>s DEF CaptureProceeds, GetDisplayInfo, CreateMinicap, CreateVirtualDisplay,
     SetConsumerListener, PublishDisplay, CaptureFrame
<1>5. CASE PopFrame \/ CompressH264 \/ CompressFails \/ FreeLast \/ CopyLast \/ FreeEncoded
  BY <1>5, <1>s DEF PopFrame, CompressH264, CompressFails, FreeLast, CopyLast, FreeEncoded
<1>6. CASE PublishEncoded
  BY <1>0, <1>6, <1>s DEF PublishEncoded, BlockInv, InHand
<1>7. ASSUME NEW b \in Blocks, CompressJpeg(b) \/ AllocateLast(b)
      PROVE  [View!Next]_<<drawn, stream>>
  BY <1>7, <1>s DEF CompressJpeg, AllocateLast
<1>8. ASSUME NEW r \in Readers, ReadLast(r) PROVE [View!Next]_<<drawn, stream>>
  BY <1>8, <1>s DEF ReadLast
<1>9. ASSUME NEW r \in Readers, SendLast(r) PROVE [View!Next]_<<drawn, stream>>
  <2>1. last # NoBlock => heap[last] \in {stream, popped}
    BY <1>0, <1>9, ProcessInv DEF SendLast, BlockInv, MutexInv, ProcessInv, TypeOK
  <2> QED
    BY <1>9, <1>s, <2>1 DEF SendLast
<1>10. CASE UNCHANGED vars
  BY <1>10, <1>s DEF vars
<1> QED
  BY Steps, <1>1, <1>2, <1>3, <1>4, <1>5, <1>6, <1>7, <1>8, <1>9, <1>10

(* Reusing the heap's blocks takes nothing from what viewers are promised:  *)
(* with the encode thread freeing the block that the broadcast thread and   *)
(* the open handlers read, the stream still only moves on to drawn frames.  *)
THEOREM ProcessKeepsLiveView == Spec => StreamIsLiveView
<1>1. Init => View!Init
  BY DEF Init, View!Init
<1> QED
  BY <1>1, ProcessInit, ProcessStep, StreamStep, PTL DEF Spec, StreamIsLiveView, View!Spec
=============================================================================
