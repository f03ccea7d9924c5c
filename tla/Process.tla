------------------------------- MODULE Process -------------------------------
(***************************************************************************)
(* The life of the process: main() starts the servers, reads the two       *)
(* properties, creates the encoder and starts the threads; the capture     *)
(* thread sets the virtual display up; and from then on frames are         *)
(* compressed into blocks of the heap, which the encode thread allocates,  *)
(* copies and frees while the broadcast thread and the open handlers read  *)
(* the block of the last one.                                              *)
(*                                                                         *)
(* Between the display and the encode thread lies FrameChannel, here with  *)
(* the capture thread's wait and push in one step.  The encoder is         *)
(* EncoderService for frames of one shape.  Locals are cleared by the      *)
(* build: FramePipeline has what happens if they are not, and the flag     *)
(* new_frame_captured, without which a reader here may come at any time.   *)
(***************************************************************************)
EXTENDS Integers

CONSTANTS
    Sockets,       \* open handlers of libws that may run at a time
    Blocks,        \* addresses malloc() and realloc() give
    MaxFrames      \* bound: frames Android draws

ASSUME ProcessAssumption == MaxFrames \in Nat /\ "nullptr" \notin Blocks   \* see NoBlock

VARIABLES
    running,       \* FALSE once the process has exited or crashed
    mainAt,        \* what main() does next
    pool,          \* Android's threads have been started
    isH264,
    encoder,       \* "none", "fresh", "ready", "failed"
    (* the capture thread and its display *)
    captureAt,
    mUserFrameAvailableListener,  \* is it set?
    frameProxy,    \* is the consumer's listener set?
    drawn,         \* frames Android has drawn into the display
    callbacks,     \* drawn frames whose notification is under way
    announced,
    pushed,
    (* the encode thread *)
    encodeAt,
    popped,
    encoded,       \* the block of the compressed frame
    (* what it shares *)
    heap,          \* of each block: Freed, Raw or the number of the frame in it
    last,          \* last_encoded_frame.data
    mutex,         \* last_encoded_frame_mutex
    readerAt,      \* where the broadcast thread and the open handlers are
    stream         \* the frame last published

startVars == <<mainAt, pool, isH264>>
setupVars == <<captureAt, mUserFrameAvailableListener, frameProxy>>
channelVars == <<drawn, callbacks, announced, pushed, popped>>
lastVars == <<heap, last, mutex, readerAt, stream>>
encodeVars == <<encoder, encodeAt, encoded>>
vars == <<running, startVars, setupVars, channelVars, encodeVars, lastVars>>

Readers == {"broadcast"} \cup Sockets
NoBlock == "nullptr"
Freed == -1
Raw == 0
Unlocked == "unlocked"

Init ==
    /\ running = TRUE
    /\ mainAt = "pool"
    /\ pool = FALSE
    /\ isH264 = FALSE
    /\ encoder = "none"
    /\ captureAt = "new"
    /\ mUserFrameAvailableListener = FALSE
    /\ frameProxy = FALSE
    /\ drawn = 0
    /\ callbacks = 0
    /\ announced = 0
    /\ pushed = 0
    /\ encodeAt = "new"
    /\ popped = 0
    /\ encoded = NoBlock
    /\ heap = [b \in Blocks |-> Freed]
    /\ last = NoBlock
    /\ mutex = Unlocked
    /\ readerAt = [r \in Readers |-> "idle"]
    /\ stream = 0

-----------------------------------------------------------------------------
(* main() *)

StartThreadPool ==
    /\ mainAt = "pool"
    /\ pool' = TRUE
    /\ mainAt' = "streamer"
    /\ UNCHANGED <<running, isH264, setupVars, channelVars, encodeVars, lastVars>>

(* streamer.start() returns, throws, or does neither: see Listener.         *)
StartStreamer ==
    /\ mainAt = "streamer"
    /\ \/ mainAt' = "socket" /\ UNCHANGED running
       \/ running' = FALSE /\ UNCHANGED mainAt
    /\ UNCHANGED <<pool, isH264, setupVars, channelVars, encodeVars, lastVars>>

(* From here on open handlers may run. *)
StartSocket ==
    /\ mainAt = "socket"
    /\ mainAt' = "properties"
    /\ UNCHANGED <<running, pool, isH264, setupVars, channelVars, encodeVars, lastVars>>

(* A property that is not set is -1, and so the H264 mode. *)
ReadProperties(is_h264) ==
    /\ mainAt = "properties"
    /\ isH264' = (is_h264 # 0)
    /\ mainAt' = "clear"
    /\ UNCHANGED <<running, pool, setupVars, channelVars, encodeVars, lastVars>>

(* last_encoded_frame.data = nullptr, without the mutex. *)
ClearLast ==
    /\ mainAt = "clear"
    /\ last' = NoBlock
    /\ mainAt' = "encoders"
    /\ UNCHANGED <<running, pool, isH264, setupVars, channelVars, encodeVars,
                   heap, mutex, readerAt, stream>>

CreateEncoders ==
    /\ mainAt = "encoders"
    /\ encoder' = "fresh"
    /\ mainAt' = "threads"
    /\ UNCHANGED <<running, pool, isH264, setupVars, channelVars, encodeAt, encoded, lastVars>>

StartThreads ==
    /\ mainAt = "threads"
    /\ captureAt' = "info"
    /\ encodeAt' = "pop"
    /\ mainAt' = "join"
    /\ UNCHANGED <<running, pool, isH264, mUserFrameAvailableListener, frameProxy, channelVars,
                   encoder, encoded, lastVars>>

(* streamer.start() may wait for ever and is not among them.                *)
MainProceeds ==
    \/ StartThreadPool \/ StartSocket \/ ClearLast \/ CreateEncoders \/ StartThreads
    \/ \E is_h264 \in {-1, 0, 1} : ReadProperties(is_h264)

-----------------------------------------------------------------------------
(* capture_thread: minicap's display, then the loop *)

GetDisplayInfo ==
    /\ captureAt = "info"
    /\ captureAt' = "minicap"
    /\ UNCHANGED <<running, startVars, mUserFrameAvailableListener, frameProxy,
                   channelVars, encodeVars, lastVars>>

(* minicap_create, setRealInfo, setDesiredInfo and setFrameAvailableListener *)
(* touch an object nobody else knows yet, and cannot fail.                  *)
CreateMinicap ==
    /\ captureAt = "minicap"
    /\ mUserFrameAvailableListener' = TRUE
    /\ captureAt' = "apply"
    /\ UNCHANGED <<running, startVars, frameProxy, channelVars, encodeVars, lastVars>>

(* applyConfigChanges: no display was running; one and its queue are made.  *)
CreateVirtualDisplay ==
    /\ captureAt = "apply"
    /\ captureAt' = "listen"
    /\ UNCHANGED <<running, startVars, mUserFrameAvailableListener, frameProxy,
                   channelVars, encodeVars, lastVars>>

(* Fault: the display is published before the consumer has a listener.      *)
SetConsumerListener_Late ==
    /\ captureAt = "listen"
    /\ captureAt' = "publish"
    /\ UNCHANGED <<running, startVars, frameProxy,
                   mUserFrameAvailableListener, channelVars, encodeVars, lastVars>>

(* The proxy keeps the listener it finds; nobody sets it afterwards.        *)
SetConsumerListener ==
    /\ captureAt = "listen"
    /\ frameProxy' = mUserFrameAvailableListener
    /\ captureAt' = "publish"
    /\ UNCHANGED <<running, startVars, mUserFrameAvailableListener, channelVars, encodeVars, lastVars>>

PublishDisplay ==
    /\ captureAt = "publish"
    /\ captureAt' = "loop"
    /\ UNCHANGED <<running, startVars, frameProxy,
                   mUserFrameAvailableListener, channelVars, encodeVars, lastVars>>

(* waitForFrame, consumePendingFrame and push, as FrameChannel has them.    *)
CaptureFrame ==
    /\ captureAt = "loop"
    /\ pushed < announced
    /\ pushed' = pushed + 1
    /\ UNCHANGED <<running, startVars, setupVars, drawn, callbacks, announced, popped,
                   encodeVars, lastVars>>

CaptureProceeds ==
    \/ GetDisplayInfo \/ CreateMinicap \/ CreateVirtualDisplay \/ SetConsumerListener
    \/ PublishDisplay \/ CaptureFrame

(* No info, no connection to SurfaceFlinger, no buffer: exit(1). *)
CaptureFails ==
    /\ captureAt \in {"info", "apply"} \/ (captureAt = "loop" /\ pushed < announced)
    /\ running' = FALSE
    /\ UNCHANGED <<startVars, setupVars, channelVars, encodeVars, lastVars>>

(* Android, outside the program: the buffer is queued whether or not there  *)
(* is a listener to tell.                                                   *)
Draw ==
    /\ captureAt = "loop"
    /\ drawn < MaxFrames
    /\ drawn' = drawn + 1
    /\ callbacks' = IF frameProxy THEN callbacks + 1 ELSE callbacks
    /\ UNCHANGED <<running, startVars, setupVars, announced, pushed, popped, encodeVars, lastVars>>

(* FrameProxy::onFrameAvailable, on a thread of Android's. *)
Announce ==
    /\ pool
    /\ callbacks > 0
    /\ callbacks' = callbacks - 1
    /\ announced' = announced + 1
    /\ UNCHANGED <<running, startVars, setupVars, drawn, pushed, popped, encodeVars, lastVars>>

-----------------------------------------------------------------------------
(* encode_thread *)

PopFrame ==
    /\ encodeAt = "pop"
    /\ popped < pushed
    /\ popped' = popped + 1
    /\ encodeAt' = "encode"
    /\ UNCHANGED <<running, startVars, setupVars, drawn, callbacks, announced, pushed,
                   encoder, encoded, lastVars>>

(* us_m2m_encoder_compress fails, for good. *)
CompressFails ==
    /\ encodeAt = "encode"
    /\ encoder' = "failed"
    /\ encodeAt' = "pop"
    /\ UNCHANGED <<running, startVars, setupVars, channelVars, encoded, lastVars>>

(* us_frame_set_data: the output frame has no block yet, and realloc() gives *)
(* it one.  The encoder can still fail after that.                          *)
CompressJpeg(b) ==
    /\ encodeAt = "encode"
    /\ ~isH264
    /\ encoder # "failed"
    /\ heap[b] = Freed
    /\ heap' = [heap EXCEPT ![b] = popped]
    /\ encoded' = b
    /\ encoder' \in {"ready", "failed"}
    /\ encodeAt' = "lock"
    /\ UNCHANGED <<running, startVars, setupVars, channelVars, last, mutex, readerAt, stream>>

(* The H264 encoder copies src->data, which capture_thread never set.       *)
CompressH264 ==
    /\ encodeAt = "encode"
    /\ isH264
    /\ encoder # "failed"
    /\ running' = FALSE
    /\ UNCHANGED <<startVars, setupVars, channelVars, encodeVars, lastVars>>

(* Fault: the mutex is not taken. *)
MutexFree_NotAsked == TRUE

MutexFree == mutex = Unlocked

(* Fault: the block of the frame before is not freed. *)
FreeLast_Not ==
    /\ encodeAt = "lock"
    /\ MutexFree
    /\ mutex' = "encode"
    /\ encodeAt' = "assign"
    /\ UNCHANGED <<running, startVars, setupVars, channelVars, encoder, encoded, heap, last,
                   readerAt, stream>>

FreeLast ==
    /\ encodeAt = "lock"
    /\ MutexFree
    /\ mutex' = "encode"
    /\ heap' = IF last = NoBlock THEN heap ELSE [heap EXCEPT ![last] = Freed]
    /\ encodeAt' = "assign"
    /\ UNCHANGED <<running, startVars, setupVars, channelVars, encoder, encoded, last,
                   readerAt, stream>>

(* Fault: the block of the compressed frame is kept for the last one.       *)
AllocateLast_Shares(b) ==
    /\ encodeAt = "assign"
    /\ heap[b] = Freed
    /\ last' = encoded
    /\ encodeAt' = "copy"
    /\ UNCHANGED <<running, startVars, setupVars, channelVars, encoder, encoded, heap, mutex,
                   readerAt, stream>>

(* malloc() may give the very block that was freed. *)
AllocateLast(b) ==
    /\ encodeAt = "assign"
    /\ heap[b] = Freed
    /\ last' = b
    /\ heap' = [heap EXCEPT ![b] = Raw]
    /\ encodeAt' = "copy"
    /\ UNCHANGED <<running, startVars, setupVars, channelVars, encoder, encoded, mutex,
                   readerAt, stream>>

CopyLast ==
    /\ encodeAt = "copy"
    /\ heap' = [heap EXCEPT ![last] = heap[encoded]]
    /\ mutex' = Unlocked
    /\ encodeAt' = "publish"
    /\ UNCHANGED <<running, startVars, setupVars, channelVars, encoder, encoded, last,
                   readerAt, stream>>

PublishEncoded ==
    /\ encodeAt = "publish"
    /\ stream' = heap[encoded]
    /\ encodeAt' = "free"
    /\ UNCHANGED <<running, startVars, setupVars, channelVars, encoder, encoded, heap, last,
                   mutex, readerAt>>

FreeEncoded ==
    /\ encodeAt = "free"
    /\ heap' = [heap EXCEPT ![encoded] = Freed]
    /\ encoded' = NoBlock
    /\ encodeAt' = "pop"
    /\ UNCHANGED <<running, startVars, setupVars, channelVars, encoder, last, mutex, readerAt,
                   stream>>

(* Nothing makes the encoder fail: CompressFails is not among them.         *)
EncodeProceeds ==
    \/ PopFrame \/ CompressH264 \/ FreeLast \/ CopyLast \/ PublishEncoded \/ FreeEncoded
    \/ \E b \in Blocks : CompressJpeg(b) \/ AllocateLast(b)

-----------------------------------------------------------------------------
(* The broadcast thread and the open handlers *)

(* The thread is started last; the handlers may run before it.              *)
MayRead(r) == IF r = "broadcast" THEN mainAt = "join" ELSE mainAt \notin {"pool", "streamer", "socket"}

ReadLast(r) ==
    /\ readerAt[r] = "idle"
    /\ MayRead(r)
    /\ MutexFree
    /\ mutex' = "reader"
    /\ readerAt' = [readerAt EXCEPT ![r] = "read"]
    /\ UNCHANGED <<running, startVars, setupVars, channelVars, encodeVars, heap, last, stream>>

(* The broadcast thread publishes the block's frame; a handler sends it to  *)
(* the connections.                                                         *)
SendLast(r) ==
    /\ readerAt[r] = "read"
    /\ stream' = IF r = "broadcast" /\ last # NoBlock THEN heap[last] ELSE stream
    /\ mutex' = Unlocked
    /\ readerAt' = [readerAt EXCEPT ![r] = "idle"]
    /\ UNCHANGED <<running, startVars, setupVars, channelVars, encodeVars, heap, last>>

Next ==
    /\ running
    /\ \/ MainProceeds \/ StartStreamer
       \/ Draw \/ Announce
       \/ CaptureProceeds \/ CaptureFails
       \/ EncodeProceeds \/ CompressFails
       \/ \E r \in Readers : ReadLast(r) \/ SendLast(r)

Spec == Init /\ [][Next]_vars

(* main() and the threads run on, and whoever has the mutex gives it back   *)
(* after one send, so that the encode thread gets it in the end.            *)
Fairness ==
    /\ WF_vars(running /\ MainProceeds)
    /\ WF_vars(running /\ Announce)
    /\ WF_vars(running /\ CaptureProceeds)
    /\ WF_vars(running /\ EncodeProceeds)
    /\ SF_vars(running /\ FreeLast)
    /\ \A r \in Readers : WF_vars(running /\ SendLast(r))

FairSpec == Spec /\ Fairness

-----------------------------------------------------------------------------
(* Properties *)

(* Every variable stays in its range. *)
TypeOK ==
    /\ running \in BOOLEAN
    /\ mainAt \in {"pool", "streamer", "socket", "properties", "clear", "encoders", "threads",
                   "join"}
    /\ pool \in BOOLEAN
    /\ isH264 \in BOOLEAN
    /\ encoder \in {"none", "fresh", "ready", "failed"}
    /\ captureAt \in {"new", "info", "minicap", "apply", "listen", "publish", "loop"}
    /\ mUserFrameAvailableListener \in BOOLEAN
    /\ frameProxy \in BOOLEAN
    /\ drawn \in 0..MaxFrames
    /\ callbacks \in 0..MaxFrames
    /\ announced \in 0..MaxFrames
    /\ pushed \in 0..MaxFrames
    /\ popped \in 0..MaxFrames
    /\ encodeAt \in {"new", "pop", "encode", "lock", "assign", "copy", "publish", "free"}
    /\ encoded \in Blocks \cup {NoBlock}
    /\ heap \in [Blocks -> Freed..MaxFrames]
    /\ last \in Blocks \cup {NoBlock}
    /\ mutex \in {Unlocked, "encode", "reader"}
    /\ readerAt \in [Readers -> {"idle", "read"}]
    /\ stream \in 0..MaxFrames

(* Whoever reads last_encoded_frame finds a block that is allocated and     *)
(* filled, with the frame that is on the stream or the one the encode       *)
(* thread is about to publish, although the block is freed and another one  *)
(* allocated and filled in steps of their own.                              *)
ReadersSeeWholeFrames ==
    \A r \in Readers :
      readerAt[r] = "read" /\ last # NoBlock => heap[last] > 0 /\ heap[last] \in {stream, popped}

(* Nothing leaks and nothing is freed twice: the blocks allocated are those *)
(* of the compressed frame and of the last one, never one block for both.   *)
HeapIsSound ==
    LET held == IF encodeAt = "assign" THEN {encoded} ELSE {encoded, last} \ {NoBlock} IN
    /\ {b \in Blocks : heap[b] # Freed} = held
    /\ encodeAt # "assign" /\ encoded # NoBlock => encoded # last

(* Each drawn frame was announced or is about to be: the consumer has its   *)
(* listener before Android knows of the display.                            *)
FramesAreAnnounced == drawn = announced + callbacks

(* The stream is a LiveView: whatever block malloc() and realloc() give,    *)
(* and whoever publishes, the broadcast thread from last_encoded_frame or   *)
(* the encode thread from its own copy, it never goes back to an older      *)
(* frame, and shows none that was not drawn.                                *)
View == INSTANCE LiveView WITH shown <- stream

StreamIsLiveView == View!Spec

(* From main() to the viewers: once the streamer has been started, either   *)
(* the process ends, in H264 mode for one, or the encoder fails, or the     *)
(* display comes up and each frame drawn on it is shown or passed.          *)
FramesAreShown ==
    /\ mainAt = "socket" ~> captureAt = "loop" \/ ~running
    /\ \A n \in 1..MaxFrames : drawn >= n ~> stream >= n \/ encoder = "failed" \/ ~running
=============================================================================
