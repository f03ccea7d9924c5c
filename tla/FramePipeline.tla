---------------------------- MODULE FramePipeline ----------------------------
(***************************************************************************)
(* The frame path of tesla-android-virtual-display.cpp, in its MJPEG mode  *)
(* (isH264 = 0): Android draws into the buffers of a virtual display, the  *)
(* capture thread takes each one and queues its dma_fd, the encode thread  *)
(* compresses it and hands the result to the HTTP streamer and to the      *)
(* websocket library, a broadcast thread repeats the last frame while the  *)
(* screen is still, and each websocket connection runs its open handler in *)
(* a thread of libws.                                                      *)
(*                                                                         *)
(* Frames are numbered in the order Android draws them and everything      *)
(* made from a frame carries its number.  The queues are used with their   *)
(* atomic meaning; publish() is one step that sets the topic's buffer and  *)
(* reaches every joined viewer (the module Publisher opens it up).         *)
(***************************************************************************)
EXTENDS Integers, SequencesExt

CONSTANTS
    Buffers,         \* the graphic buffers of the virtual display
    Sockets,         \* websocket connections, each opened at most once
    HttpViewers,     \* HTTP clients of /stream
    MaxFrame,        \* bound: how many frames Android draws
    UninitLocals     \* what the build leaves in uninitialised locals: "zero" (the
                     \* compiler clears them), "junk": anything else

ASSUME PipelineAssumption ==
    /\ MaxFrame \in Nat
    /\ UninitLocals \subseteq {"zero", "junk"}
    /\ UninitLocals # {}

VARIABLES
    (* Android's BufferQueue, outside the program *)
    drawn,           \* number of the last frame drawn
    content,         \* content[b]: the frame in buffer b
    queued,          \* buffers queued by Android and not yet acquired
    callbacks,       \* queued buffers whose onFrameAvailable has not run yet
    (* the capture thread *)
    mPendingFrames,  \* FrameWaiter's count of frames to consume
    captureAt,       \* where the capture thread is
    mBuffer,         \* MinicapImpl's acquired buffer
    mHaveBuffer,     \* is mBuffer still to be released?
    new_frame_captured,
    capture_queue,   \* ThreadSafeQueue<us_frame_s>: dma_fd and frame number
    (* the encode thread *)
    encodeAt,
    input_frame,
    encoded_frame,   \* number of the compressed frame, NullFrame: null, or not in scope
    encoder,         \* "fresh": never used, "ready", "failed": for good
    (* the last encoded frame and its users *)
    last_encoded_frame,
    last_encoded_frame_mutex,
    broadcastAt,
    frameData,       \* the broadcast thread's copy of the last frame, while it is in scope
    stream,          \* the buffer of the streamer's topic /stream
    httpAt,          \* "away", "waiting": joined, nothing yet, "served"
    socketAt,        \* where each connection's open handler is
    socketSaw,       \* the last frame sent to each connection
    running          \* FALSE once the process has exited or aborted

androidVars == <<drawn, content, queued, callbacks>>
captureVars == <<captureAt, mBuffer, mHaveBuffer>>
encodeVars == <<encodeAt, input_frame, encoded_frame, encoder>>
lastVars == <<last_encoded_frame, last_encoded_frame_mutex>>
broadcastVars == <<broadcastAt, frameData>>
httpVars == <<stream, httpAt>>
socketVars == <<socketAt, socketSaw>>
vars == <<androidVars, mPendingFrames, captureVars, new_frame_captured,
          capture_queue, encodeVars, lastVars, broadcastVars, httpVars,
          socketVars, running>>

NullFrame == 0                 \* us_frame_s.data = nullptr
EmptyFrame == MaxFrame + 1     \* data that is not null with used = 0: ranked
                               \* after every frame, since none follows it
NoBuffer == "none"
Unlocked == "unlocked"

Init ==
    /\ drawn = 0
    /\ content = [b \in Buffers |-> 0]
    /\ queued = <<>>
    /\ callbacks = 0
    /\ mPendingFrames = 0
    /\ captureAt = "wait"
    /\ mBuffer = NoBuffer
    /\ mHaveBuffer = FALSE
    /\ new_frame_captured = FALSE
    /\ capture_queue = <<>>
    /\ encodeAt = "pop"
    /\ input_frame = [dma_fd |-> NoBuffer, frame |-> 0]
    /\ encoded_frame = NullFrame
    /\ encoder = "fresh"
    /\ last_encoded_frame = NullFrame
    /\ last_encoded_frame_mutex = Unlocked
    /\ broadcastAt = "sleep"
    /\ frameData = NullFrame
    /\ stream = NullFrame
    /\ httpAt = [h \in HttpViewers |-> "away"]
    /\ socketAt = [s \in Sockets |-> "new"]
    /\ socketSaw = [s \in Sockets |-> NullFrame]
    /\ running = TRUE

-----------------------------------------------------------------------------
(* Android: the producer side of the BufferQueue and its callback thread. *)

IsFree(b) == b \notin Range(queued) /\ ~(mHaveBuffer /\ mBuffer = b)

(* Android draws the next frame into a buffer it owns and queues it. *)
DrawFrame(b) ==
    /\ drawn < MaxFrame
    /\ IsFree(b)
    /\ drawn' = drawn + 1
    /\ content' = [content EXCEPT ![b] = drawn + 1]
    /\ queued' = Append(queued, b)
    /\ callbacks' = callbacks + 1
    /\ UNCHANGED <<mPendingFrames, captureVars, new_frame_captured,
                   capture_queue, encodeVars, lastVars, broadcastVars,
                   httpVars, socketVars, running>>

(* Fault: a notification is remembered as a flag and not counted. *)
OnFrameAvailable_Flag ==
    /\ callbacks > 0
    /\ callbacks' = callbacks - 1
    /\ mPendingFrames' = 1
    /\ UNCHANGED <<drawn, content, queued, captureVars, new_frame_captured,
                   capture_queue, encodeVars, lastVars, broadcastVars,
                   httpVars, socketVars, running>>

(* FrameProxy::onFrameAvailable calls FrameWaiter::onFrameAvailable. *)
OnFrameAvailable ==
    /\ callbacks > 0
    /\ callbacks' = callbacks - 1
    /\ mPendingFrames' = mPendingFrames + 1
    /\ UNCHANGED <<drawn, content, queued, captureVars, new_frame_captured,
                   capture_queue, encodeVars, lastVars, broadcastVars,
                   httpVars, socketVars, running>>

-----------------------------------------------------------------------------
(* capture_thread *)

(* Fault: the result of wait_for is ignored, and a timeout is a frame. *)
WaitForFrame_OnTimeout ==
    /\ captureAt = "wait"
    /\ mPendingFrames' = mPendingFrames - 1
    /\ captureAt' = "consume"
    /\ UNCHANGED <<androidVars, mBuffer, mHaveBuffer, new_frame_captured,
                   capture_queue, encodeVars, lastVars, broadcastVars,
                   httpVars, socketVars, running>>

(* waitForFrame: a wait that times out goes back to waiting. *)
WaitForFrame ==
    /\ captureAt = "wait"
    /\ mPendingFrames > 0
    /\ mPendingFrames' = mPendingFrames - 1
    /\ captureAt' = "consume"
    /\ UNCHANGED <<androidVars, mBuffer, mHaveBuffer, new_frame_captured,
                   capture_queue, encodeVars, lastVars, broadcastVars,
                   httpVars, socketVars, running>>

ConsumePendingFrame ==
    /\ captureAt = "consume"
    /\ queued # <<>>
    /\ mBuffer' = Head(queued)
    /\ queued' = Tail(queued)
    /\ mHaveBuffer' = TRUE
    /\ captureAt' = "flag"
    /\ UNCHANGED <<drawn, content, callbacks, mPendingFrames,
                   new_frame_captured, capture_queue, encodeVars, lastVars,
                   broadcastVars, httpVars, socketVars, running>>

(* acquireBuffer fails, on an empty queue or for reasons of its own: exit(1) *)
ConsumeFails ==
    /\ captureAt = "consume"
    /\ running' = FALSE
    /\ UNCHANGED <<androidVars, mPendingFrames, captureVars,
                   new_frame_captured, capture_queue, encodeVars, lastVars,
                   broadcastVars, httpVars, socketVars>>

StoreNewFrameFlag ==
    /\ captureAt = "flag"
    /\ new_frame_captured' = TRUE
    /\ captureAt' = "push"
    /\ UNCHANGED <<androidVars, mPendingFrames, mBuffer, mHaveBuffer,
                   capture_queue, encodeVars, lastVars, broadcastVars,
                   httpVars, socketVars, running>>

PushFrame ==
    /\ captureAt = "push"
    /\ capture_queue' = Append(capture_queue,
                               [dma_fd |-> mBuffer, frame |-> content[mBuffer]])
    /\ captureAt' = "release"
    /\ UNCHANGED <<androidVars, mPendingFrames, mBuffer, mHaveBuffer,
                   new_frame_captured, encodeVars, lastVars, broadcastVars,
                   httpVars, socketVars, running>>

(* Fault: the buffer is not given back before the next one is acquired. *)
ReleaseConsumedFrame_Keeps ==
    /\ captureAt = "release"
    /\ captureAt' = "wait"
    /\ UNCHANGED <<androidVars, mPendingFrames, mBuffer, mHaveBuffer,
                   new_frame_captured, capture_queue, encodeVars, lastVars,
                   broadcastVars, httpVars, socketVars, running>>

ReleaseConsumedFrame ==
    /\ captureAt = "release"
    /\ mHaveBuffer' = FALSE
    /\ captureAt' = "wait"
    /\ UNCHANGED <<androidVars, mPendingFrames, mBuffer, new_frame_captured,
                   capture_queue, encodeVars, lastVars, broadcastVars,
                   httpVars, socketVars, running>>

CaptureThread ==
    /\ running
    /\ \/ WaitForFrame
       \/ ConsumePendingFrame
       \/ ConsumeFails
       \/ StoreNewFrameFlag
       \/ PushFrame
       \/ ReleaseConsumedFrame

-----------------------------------------------------------------------------
(* encode_thread *)

(* Fault: the newest frame is taken first. *)
PopFrame_Newest ==
    /\ encodeAt = "pop"
    /\ capture_queue # <<>>
    /\ input_frame' = Last(capture_queue)
    /\ capture_queue' = Front(capture_queue)
    /\ encodeAt' = "encode"
    /\ UNCHANGED <<androidVars, mPendingFrames, captureVars,
                   new_frame_captured, encoded_frame, encoder, lastVars,
                   broadcastVars, httpVars, socketVars, running>>

PopFrame ==
    /\ encodeAt = "pop"
    /\ capture_queue # <<>>
    /\ input_frame' = Head(capture_queue)
    /\ capture_queue' = Tail(capture_queue)
    /\ encodeAt' = "encode"
    /\ UNCHANGED <<androidVars, mPendingFrames, captureVars,
                   new_frame_captured, encoded_frame, encoder, lastVars,
                   broadcastVars, httpVars, socketVars, running>>

(* us_m2m_encoder_compress: the encoder can fail before or after it has     *)
(* filled the output frame, and once it failed it stays so while frames     *)
(* keep their size.  An encoded frame has the number of its call's input:   *)
(* with assert() compiled it is the picture of that input, without it the   *)
(* picture may be garbage, or one call older (EncoderService).              *)
Compress(result) ==
    \/ /\ encoder # "failed"
       /\ result = input_frame.frame
       /\ encoder' \in {"ready", "failed"}
    \/ /\ result = NullFrame
       /\ encoder' = "failed"

(* Fault: the result of the compression is used untested. *)
HasData_Untested(result, h264_data) == TRUE

(* The test of both output frames' data, of which only the JPEG one was     *)
(* initialised.                                                             *)
HasData(result, h264_data) == result # NullFrame \/ h264_data # "zero"

(* encode_frame.  us_frame_set_data trusts the output frame's "allocated",   *)
(* which nobody set: if it is not zero the frame is copied to a null pointer. *)
EncodeFrame ==
    /\ encodeAt = "encode"
    /\ \E result \in {NullFrame, input_frame.frame},
          h264_data, allocated \in UninitLocals :
         /\ Compress(result)
         /\ running' = (result = NullFrame \/ allocated = "zero")
         /\ IF HasData(result, h264_data)
            THEN /\ encodeAt' = "store"
                 /\ encoded_frame' = IF result = NullFrame THEN EmptyFrame ELSE result
            ELSE encodeAt' = "free" /\ encoded_frame' = NullFrame
    /\ UNCHANGED <<androidVars, mPendingFrames, captureVars,
                   new_frame_captured, capture_queue, input_frame, lastVars,
                   broadcastVars, httpVars, socketVars>>

(* Fault: the mutex is not taken. *)
MutexFree_NotAsked == TRUE

(* last_encoded_frame_mutex.lock() can return. *)
MutexFree == last_encoded_frame_mutex = Unlocked

(* last_encoded_frame is replaced under its mutex. *)
StoreLastFrame ==
    /\ encodeAt = "store"
    /\ MutexFree
    /\ last_encoded_frame' = encoded_frame
    /\ encodeAt' = "publish"
    /\ UNCHANGED <<androidVars, mPendingFrames, captureVars,
                   new_frame_captured, capture_queue, input_frame,
                   encoded_frame, encoder, last_encoded_frame_mutex,
                   broadcastVars, httpVars, socketVars, running>>

(* streamer.publish("/stream", ...): every viewer that has joined gets it. *)
Publish(frame) ==
    /\ stream' = frame
    /\ httpAt' = [h \in HttpViewers |->
                    IF httpAt[h] = "waiting" THEN "served" ELSE httpAt[h]]

PublishEncoded ==
    /\ encodeAt = "publish"
    /\ Publish(encoded_frame)
    /\ encodeAt' = "send"
    /\ UNCHANGED <<androidVars, mPendingFrames, captureVars,
                   new_frame_captured, capture_queue, input_frame,
                   encoded_frame, encoder, lastVars, broadcastVars,
                   socketVars, running>>

IsOpen(s) == socketAt[s] \notin {"new", "closed"}

(* Fault: a connection counts as open only when its handler has returned.   *)
SendToSockets_AfterHandler(frame) ==
    socketSaw' = [s \in Sockets |-> IF socketAt[s] = "open" THEN frame ELSE socketSaw[s]]

(* ws_sendframe_bin(NULL, ...): to every open connection. *)
SendToSockets(frame) ==
    socketSaw' = [s \in Sockets |-> IF IsOpen(s) THEN frame ELSE socketSaw[s]]

SendEncoded ==
    /\ encodeAt = "send"
    /\ SendToSockets(encoded_frame)
    /\ encodeAt' = "free"
    /\ UNCHANGED <<androidVars, mPendingFrames, captureVars,
                   new_frame_captured, capture_queue, input_frame,
                   encoded_frame, encoder, lastVars, broadcastVars, httpVars,
                   socketAt, running>>

(* free(input_frame.data), a pointer the capture thread never set. *)
FreeInputFrame ==
    /\ encodeAt = "free"
    /\ \E data \in UninitLocals : running' = (data = "zero")
    /\ encodeAt' = "pop"
    /\ encoded_frame' = NullFrame
    /\ UNCHANGED <<androidVars, mPendingFrames, captureVars,
                   new_frame_captured, capture_queue, input_frame,
                   encoder, lastVars, broadcastVars, httpVars,
                   socketVars>>

EncodeThread ==
    /\ running
    /\ \/ PopFrame
       \/ EncodeFrame
       \/ StoreLastFrame
       \/ PublishEncoded
       \/ SendEncoded
       \/ FreeInputFrame

-----------------------------------------------------------------------------
(* broadcast_thread: once a second *)

BroadcastWake ==
    /\ broadcastAt = "sleep"
    /\ broadcastAt' = IF new_frame_captured THEN "clear" ELSE "lock"
    /\ UNCHANGED <<androidVars, mPendingFrames, captureVars,
                   new_frame_captured, capture_queue, encodeVars, lastVars,
                   frameData, httpVars, socketVars, running>>

BroadcastLock ==
    /\ broadcastAt = "lock"
    /\ MutexFree
    /\ last_encoded_frame_mutex' = "broadcast"
    /\ frameData' = last_encoded_frame
    /\ broadcastAt' = "publish"
    /\ UNCHANGED <<androidVars, mPendingFrames, captureVars,
                   new_frame_captured, capture_queue, encodeVars,
                   last_encoded_frame, httpVars, socketVars, running>>

BroadcastPublish ==
    /\ broadcastAt = "publish"
    /\ IF frameData # NullFrame THEN Publish(frameData) ELSE UNCHANGED httpVars
    /\ last_encoded_frame_mutex' = Unlocked
    /\ frameData' = NullFrame
    /\ broadcastAt' = "clear"
    /\ UNCHANGED <<androidVars, mPendingFrames, captureVars,
                   new_frame_captured, capture_queue, encodeVars,
                   last_encoded_frame, socketVars, running>>

(* Fault: the flag is never lowered. *)
BroadcastClearFlag_Keeps ==
    /\ broadcastAt = "clear"
    /\ broadcastAt' = "sleep"
    /\ UNCHANGED <<androidVars, mPendingFrames, captureVars,
                   new_frame_captured, capture_queue, encodeVars, lastVars,
                   frameData, httpVars, socketVars, running>>

BroadcastClearFlag ==
    /\ broadcastAt = "clear"
    /\ new_frame_captured' = FALSE
    /\ broadcastAt' = "sleep"
    /\ UNCHANGED <<androidVars, mPendingFrames, captureVars, capture_queue,
                   encodeVars, lastVars, frameData, httpVars, socketVars,
                   running>>

BroadcastThread ==
    /\ running
    /\ \/ BroadcastWake
       \/ BroadcastLock
       \/ BroadcastPublish
       \/ BroadcastClearFlag

-----------------------------------------------------------------------------
(* A websocket connection: libws lists it, then runs its open handler. *)

SocketConnect(s) ==
    /\ socketAt[s] = "new"
    /\ socketAt' = [socketAt EXCEPT ![s] = "load"]
    /\ UNCHANGED <<androidVars, mPendingFrames, captureVars,
                   new_frame_captured, capture_queue, encodeVars, lastVars,
                   broadcastVars, httpVars, socketSaw, running>>

SocketLoadFlag(s) ==
    /\ socketAt[s] = "load"
    /\ socketAt' = [socketAt EXCEPT ![s] =
                      IF new_frame_captured THEN "clear" ELSE "lock"]
    /\ UNCHANGED <<androidVars, mPendingFrames, captureVars,
                   new_frame_captured, capture_queue, encodeVars, lastVars,
                   broadcastVars, httpVars, socketSaw, running>>

SocketLock(s) ==
    /\ socketAt[s] = "lock"
    /\ MutexFree
    /\ last_encoded_frame_mutex' = "socket"
    /\ socketAt' = [socketAt EXCEPT ![s] = "send"]
    /\ UNCHANGED <<androidVars, mPendingFrames, captureVars,
                   new_frame_captured, capture_queue, encodeVars,
                   last_encoded_frame, broadcastVars, httpVars, socketSaw,
                   running>>

SocketSendLast(s) ==
    /\ socketAt[s] = "send"
    /\ IF last_encoded_frame # NullFrame
       THEN SendToSockets(last_encoded_frame)
       ELSE UNCHANGED socketSaw
    /\ last_encoded_frame_mutex' = Unlocked
    /\ socketAt' = [socketAt EXCEPT ![s] = "clear"]
    /\ UNCHANGED <<androidVars, mPendingFrames, captureVars,
                   new_frame_captured, capture_queue, encodeVars,
                   last_encoded_frame, broadcastVars, httpVars, running>>

SocketClearFlag(s) ==
    /\ socketAt[s] = "clear"
    /\ new_frame_captured' = FALSE
    /\ socketAt' = [socketAt EXCEPT ![s] = "open"]
    /\ UNCHANGED <<androidVars, mPendingFrames, captureVars, capture_queue,
                   encodeVars, lastVars, broadcastVars, httpVars, socketSaw,
                   running>>

SocketClose(s) ==
    /\ socketAt[s] = "open"
    /\ socketAt' = [socketAt EXCEPT ![s] = "closed"]
    /\ UNCHANGED <<androidVars, mPendingFrames, captureVars,
                   new_frame_captured, capture_queue, encodeVars, lastVars,
                   broadcastVars, httpVars, socketSaw, running>>

OpenHandler(s) ==
    /\ running
    /\ SocketLoadFlag(s) \/ SocketLock(s) \/ SocketSendLast(s) \/ SocketClearFlag(s)

-----------------------------------------------------------------------------
(* HTTP clients join /stream once the topic exists (404 before) and leave. *)

HttpJoin(h) ==
    /\ httpAt[h] = "away"
    /\ stream # NullFrame
    /\ httpAt' = [httpAt EXCEPT ![h] = "waiting"]
    /\ UNCHANGED <<androidVars, mPendingFrames, captureVars,
                   new_frame_captured, capture_queue, encodeVars, lastVars,
                   broadcastVars, stream, socketVars, running>>

HttpLeave(h) ==
    /\ httpAt[h] # "away"
    /\ httpAt' = [httpAt EXCEPT ![h] = "away"]
    /\ UNCHANGED <<androidVars, mPendingFrames, captureVars,
                   new_frame_captured, capture_queue, encodeVars, lastVars,
                   broadcastVars, stream, socketVars, running>>

Outside ==
    /\ running
    /\ \/ \E b \in Buffers : DrawFrame(b)
       \/ \E s \in Sockets : SocketConnect(s) \/ SocketClose(s)
       \/ \E h \in HttpViewers : HttpJoin(h) \/ HttpLeave(h)

Next ==
    \/ Outside
    \/ running /\ OnFrameAvailable
    \/ CaptureThread
    \/ EncodeThread
    \/ BroadcastThread
    \/ \E s \in Sockets : OpenHandler(s)

(* Every thread keeps running, and the encoder device answers.  Nothing     *)
(* makes Android draw, a client come or go, or acquireBuffer fail.  The     *)
(* broadcast thread holds the mutex for one publish() and then sleeps a     *)
(* second, so the encode thread gets it in the end (strong fairness).       *)
Fairness ==
    /\ WF_vars(running /\ OnFrameAvailable)
    /\ WF_vars(CaptureThread)
    /\ WF_vars(EncodeThread)
    /\ SF_vars(running /\ StoreLastFrame)
    /\ WF_vars(BroadcastThread)
    /\ \A s \in Sockets : WF_vars(OpenHandler(s))

Spec == Init /\ [][Next]_vars

FairSpec == Spec /\ Fairness

-----------------------------------------------------------------------------
(* Properties *)

FrameNumber == 0..EmptyFrame
InputFrame == [dma_fd : Buffers \cup {NoBuffer}, frame : 0..MaxFrame]

(* Every variable stays in its range: the counters of frames never go       *)
(* negative, and the mutex has one of its three holders.                    *)
TypeOK ==
    /\ drawn \in 0..MaxFrame
    /\ content \in [Buffers -> 0..MaxFrame]
    /\ queued \in Seq(Buffers)
    /\ callbacks \in Nat
    /\ mPendingFrames \in Nat
    /\ captureAt \in {"wait", "consume", "flag", "push", "release"}
    /\ mBuffer \in Buffers \cup {NoBuffer}
    /\ mHaveBuffer \in BOOLEAN
    /\ new_frame_captured \in BOOLEAN
    /\ capture_queue \in Seq(InputFrame)
    /\ encodeAt \in {"pop", "encode", "store", "publish", "send", "free"}
    /\ input_frame \in InputFrame
    /\ encoded_frame \in FrameNumber
    /\ encoder \in {"fresh", "ready", "failed"}
    /\ last_encoded_frame \in FrameNumber
    /\ last_encoded_frame_mutex \in {Unlocked, "broadcast", "socket"}
    /\ broadcastAt \in {"sleep", "lock", "publish", "clear"}
    /\ frameData \in FrameNumber
    /\ stream \in FrameNumber
    /\ httpAt \in [HttpViewers -> {"away", "waiting", "served"}]
    /\ socketAt \in [Sockets -> {"new", "load", "lock", "send", "clear", "open", "closed"}]
    /\ socketSaw \in [Sockets -> FrameNumber]
    /\ running \in BOOLEAN

(* When the capture thread calls consumePendingFrame, a buffer is waiting   *)
(* and the previous one has been released (minicap.hpp:78 and 96): the      *)
(* program never exits because acquireBuffer found nothing.  It relates     *)
(* FrameWaiter's count, kept by Android's callback thread, to the           *)
(* BufferQueue.                                                             *)
ConsumeIsLegal == captureAt = "consume" => queued # <<>> /\ ~mHaveBuffer

(* The encode thread, the broadcast thread and the open handlers all hand   *)
(* out frames; whatever their interleaving, once the encode thread is back  *)
(* at capture_queue.pop() the stream and every connection that was sent     *)
(* anything hold the last encoded frame.                                    *)
InSync ==
    encodeAt = "pop" =>
      /\ stream = last_encoded_frame
      /\ \A s \in Sockets :
           IsOpen(s) /\ socketSaw[s] # NullFrame => socketSaw[s] = last_encoded_frame

(* The frame handed to the encoder is still the one that was captured: the  *)
(* buffer behind dma_fd has not been drawn into since.                      *)
EncodesCapturedFrame ==
    encodeAt = "encode" => content[input_frame.dma_fd] = input_frame.frame

(* The topic's buffer implements LiveView: it moves forward only, and only  *)
(* to frames that were drawn.                                               *)
StreamView == INSTANCE LiveView WITH shown <- stream
StreamImplementsLiveView == StreamView!Spec

(* A websocket connection is only ever sent what it has or a later frame,   *)
(* and none that was not drawn but the one without data, although three     *)
(* kinds of thread send to it.                                              *)
SocketsMoveForward ==
    [][\A s \in Sockets :
         socketSaw'[s] \in {socketSaw[s], EmptyFrame} \cup (socketSaw[s] + 1)..drawn]_socketSaw

(* A viewer that has joined /stream is served while the encoder works, even *)
(* on a still screen: the broadcast thread repeats the last frame whatever  *)
(* happens to the flag that the capture thread and the open handlers also   *)
(* write.  With an encoder that has failed for good a viewer is served only *)
(* if the screen comes to rest: while Android draws the broadcast thread    *)
(* may find the flag up at every wake, and the encode thread has nothing.   *)
ScreenComesToRest == <>[][FALSE]_drawn

ViewersAreServed ==
    \A h \in HttpViewers :
      /\ httpAt[h] = "waiting" ~>
           httpAt[h] # "waiting" \/ encoder = "failed" \/ ~running
      /\ ScreenComesToRest =>
           (httpAt[h] = "waiting" ~> httpAt[h] # "waiting" \/ ~running)

(* Every frame Android draws is reached or passed by the stream, unless the *)
(* encoder fails or the process ends: no notification is lost on the way    *)
(* from the BufferQueue to publish().                                       *)
FramesReachStream ==
    \A n \in 1..MaxFrame :
      drawn >= n ~> stream >= n \/ encoder = "failed" \/ ~running

(* A frame that is still on its way to the stream while a connection is     *)
(* open, if only just accepted, reaches that connection too, or a later one *)
(* does.  A frame published before is promised to nobody: the open handler  *)
(* sends it only if it finds the flag down.                                 *)
SocketsSeeFrames ==
    \A s \in Sockets, n \in 1..MaxFrame :
      IsOpen(s) /\ stream < n /\ drawn >= n
        ~> socketSaw[s] >= n \/ ~IsOpen(s) \/ encoder = "failed" \/ ~running

(* What passes through FrameWaiter and capture_queue is the channel that    *)
(* Handover implements: the frames Android announced, each once and in      *)
(* order, read off what is in the buffers when they are pushed.             *)
Channel == INSTANCE FrameChannel WITH
    announced <- drawn - callbacks,
    waited <- drawn - callbacks - mPendingFrames,
    pushed <- IF capture_queue = <<>> THEN input_frame.frame ELSE Last(capture_queue).frame,
    popped <- input_frame.frame
UsesChannel == Channel!Spec
=============================================================================
