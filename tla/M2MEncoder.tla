------------------------------ MODULE M2MEncoder ------------------------------
(***************************************************************************)
(* The V4L2 memory-to-memory encoder of encode/m2m.c and the device it     *)
(* drives.  us_m2m_encoder_compress() prepares the device when the frame   *)
(* has another shape than the one before, sends the frame and polls until  *)
(* the output buffer with the frame's timestamp comes back.                *)
(*                                                                         *)
(* Frames are numbered by the calls.  A step of the encoder is one request *)
(* to the device: the device works between two of them.                    *)
(***************************************************************************)
EXTENDS Integers, Sequences

CONSTANTS
    Shapes,        \* what makes a frame need other buffers: width, height, format
    NoShape,       \* that of an encoder never used
    Kinds,         \* the encoders a caller may have created: "mjpeg", "h264", "jpeg"
    Builds,        \* which builds there may be: with assert() compiled, without
    MaxBuffers,    \* bound: buffers the driver gives for a request of one
    MaxCalls       \* bound: calls of us_m2m_encoder_compress()

ASSUME EncoderAssumption ==
    /\ NoShape \notin Shapes
    /\ Kinds \subseteq {"mjpeg", "h264", "jpeg"}
    /\ Builds \subseteq BOOLEAN
    /\ MaxBuffers \in Nat
    /\ MaxCalls \in Nat

VARIABLES
    asserts,         \* assert() is compiled, and with it the call of clock_gettime()
    kind,            \* the encoder's output format
    data_set,        \* src->data holds the frame; capture_thread leaves it unset
    at,              \* the request the encoder makes next; "idle": it is not in a call
    direction,       \* the buffers being set up: "INPUT", "OUTPUT"
    want,            \* how many of them the driver has granted
    src,             \* the frame of the call in progress, or of the last one
    dest,            \* the picture in the output frame
    ts,              \* the timestamp given to the frame
    input_released,
    (* us_m2m_encoder_runtime_s *)
    fd,              \* is the device open?
    shape,
    ready,
    bufs,            \* of each direction: is there an array, and n_bufs
    mapped,          \* mmap()s of the process not undone
    device,          \* the driver's side of the open device
    running          \* FALSE once the process has crashed

useVars == <<asserts, kind, data_set>>
callVars == <<src, dest, ts, input_released>>
setupVars == <<direction, want>>
runVars == <<fd, shape, ready, bufs, mapped>>
vars == <<useVars, at, callVars, setupVars, runVars, device, running>>

Frame == [number : 1..MaxCalls, shape : Shapes]
NoFrame == [number |-> 0, shape |-> NoShape]
NoPicture == 0         \* dest->used = 0
Garbage == -1
Dma == kind = "mjpeg"  \* allow_dma; every captured frame has a dma_fd
NoBuffers == [d \in {"INPUT", "OUTPUT"} |-> [array |-> FALSE, n |-> 0]]

(* blank: input buffers queued with nothing in them; inputs: sent and not   *)
(* yet read; done: read and not yet taken back; coding: read and not yet in *)
(* an output; outputs: filled and not yet fetched; free: to be filled;      *)
(* fresh: nothing filled so far.                                            *)
NewDevice == [blank |-> 0, inputs |-> <<>>, done |-> 0, coding |-> <<>>, outputs |-> <<>>,
              free |-> 0, fresh |-> TRUE]

(* What the device has of the frames sent to it, the oldest first. *)
Held == device.outputs \o (device.coding \o device.inputs)

(* A frame as the driver knows it. *)
Sent(now) == [picture |-> src.number, ts |-> now]

Init ==
    /\ asserts \in Builds
    /\ kind \in Kinds
    /\ data_set \in IF Dma THEN {FALSE} ELSE BOOLEAN
    /\ at = "idle"
    /\ direction = "INPUT"
    /\ want = 0
    /\ src = NoFrame
    /\ dest = NoPicture
    /\ ts = 0
    /\ input_released = FALSE
    /\ fd = FALSE
    /\ shape = NoShape
    /\ ready = FALSE
    /\ bufs = NoBuffers
    /\ mapped = 0
    /\ device = NewDevice
    /\ running = TRUE

-----------------------------------------------------------------------------
(* _m2m_encoder_cleanup: what the buffer arrays list is unmapped. *)

(* Fault: buffers are unmapped by their number, DMA or not. *)
Listed_ByNumber(d) == bufs[d].n

Listed(d) == IF bufs[d].array THEN bufs[d].n ELSE 0

(* Fault: the arrays are forgotten and their buffers stay mapped. *)
CleanedUp_KeepsMappings ==
    /\ fd' = FALSE
    /\ ready' = FALSE
    /\ bufs' = NoBuffers
    /\ mapped' = mapped
    /\ device' = NewDevice

CleanedUp ==
    /\ fd' = FALSE
    /\ ready' = FALSE
    /\ bufs' = NoBuffers
    /\ mapped' = mapped - Listed("INPUT") - Listed("OUTPUT")
    /\ device' = NewDevice

-----------------------------------------------------------------------------
(* us_m2m_encoder_compress and _m2m_encoder_prepare *)

NeedsPrepare(f) == f.shape # shape

Compress(f) ==
    /\ at = "idle"
    /\ f.number = src.number + 1
    /\ src' = f
    /\ dest' = NoPicture
    /\ IF NeedsPrepare(f)
       THEN CleanedUp /\ shape' = f.shape /\ at' = "open"
       ELSE /\ at' = IF ready THEN "begin" ELSE "failed"
            /\ UNCHANGED <<runVars, device>>
    /\ UNCHANGED <<setupVars, ts, input_released, running>>

OpenDevice ==
    /\ at = "open"
    /\ fd' = TRUE
    /\ at' = "configure"
    /\ UNCHANGED <<callVars, setupVars, shape, ready, bufs, mapped, device, running>>

(* Options, both formats and the frame rate. *)
Configure ==
    /\ at = "configure"
    /\ direction' = "INPUT"
    /\ at' = "request"
    /\ UNCHANGED <<callVars, want, runVars, device, running>>

BuffersAreSetUp ==
    /\ direction' = "OUTPUT"
    /\ at' = IF direction = "INPUT" THEN "request" ELSE "stream"

(* One buffer is asked for; the driver may grant more, or none. *)
RequestBuffers(count) ==
    /\ at = "request"
    /\ want' = count
    /\ IF Dma /\ direction = "INPUT"
       THEN /\ bufs' = [bufs EXCEPT !.INPUT.n = count]
            /\ BuffersAreSetUp
       ELSE /\ bufs' = [bufs EXCEPT ![direction] = [array |-> TRUE, n |-> 0]]
            /\ at' = "map"
            /\ UNCHANGED direction
    /\ UNCHANGED <<callVars, fd, shape, ready, mapped, device, running>>

MapBuffer ==
    /\ at = "map"
    /\ mapped' = mapped + 1
    /\ at' = "queue"
    /\ UNCHANGED <<callVars, setupVars, fd, shape, ready, bufs, device, running>>

(* The mapped buffer is queued, an input buffer with nothing in it, and     *)
(* only then counted: if that fails, cleanup does not know it.              *)
QueueBuffer ==
    /\ at = "queue"
    /\ bufs' = [bufs EXCEPT ![direction].n = @ + 1]
    /\ device' = IF direction = "INPUT"
                 THEN [device EXCEPT !.blank = @ + 1]
                 ELSE [device EXCEPT !.free = @ + 1]
    /\ IF bufs[direction].n + 1 = want
       THEN BuffersAreSetUp
       ELSE at' = "map" /\ UNCHANGED direction
    /\ UNCHANGED <<callVars, want, fd, shape, ready, mapped, running>>

StreamOn ==
    /\ at = "stream"
    /\ ready' = TRUE
    /\ at' = "begin"
    /\ UNCHANGED <<callVars, setupVars, fd, shape, bufs, mapped, device, running>>

PrepareFails ==
    /\ at \in {"open", "configure", "request", "map", "queue", "stream"}
    /\ CleanedUp
    /\ at' = "failed"
    /\ UNCHANGED <<callVars, setupVars, shape, running>>

ReturnFailure ==
    /\ at = "failed"
    /\ at' = "idle"
    /\ UNCHANGED <<callVars, setupVars, runVars, device, running>>

-----------------------------------------------------------------------------
(* _m2m_encoder_compress_raw *)

(* Without DMA an input buffer is taken back from the device first. *)
GrabInput ==
    /\ at = "begin"
    /\ IF Dma THEN UNCHANGED device
       ELSE device.done > 0 /\ device' = [device EXCEPT !.done = @ - 1]
    /\ at' = "send"
    /\ UNCHANGED <<callVars, setupVars, runVars, running>>

(* us_get_now_monotonic_u64: the clock moves on between two calls; without  *)
(* assert() it is not read, and the value is what the local variable holds. *)
Timestamps == IF asserts THEN {src.number} ELSE 0..MaxCalls

SendInput ==
    /\ at = "send"
    /\ IF Dma \/ data_set
       THEN /\ \E now \in Timestamps :
                 /\ ts' = now
                 /\ device' = [device EXCEPT !.inputs = Append(@, Sent(now))]
            /\ input_released' = ~Dma
            /\ at' = "poll"
            /\ UNCHANGED running
       ELSE (* memcpy() from a pointer nobody set *)
            /\ running' = FALSE
            /\ UNCHANGED <<at, ts, input_released, device>>
    /\ UNCHANGED <<src, dest, setupVars, runVars>>

(* Fault: the input buffer is never taken back. *)
Poll_SkipsRelease ==
    /\ at = "poll"
    /\ device.outputs # <<>>
    /\ at' = "fetch"
    /\ UNCHANGED <<callVars, setupVars, runVars, device, running>>

(* A poll() that times out or is interrupted is repeated. *)
Poll ==
    /\ at = "poll"
    /\ device.outputs # <<>>
    /\ at' = IF input_released THEN "fetch" ELSE "release"
    /\ UNCHANGED <<callVars, setupVars, runVars, device, running>>

ReleaseInput ==
    /\ at = "release"
    /\ device.done > 0
    /\ device' = [device EXCEPT !.done = @ - 1]
    /\ input_released' = TRUE
    /\ at' = "fetch"
    /\ UNCHANGED <<src, dest, ts, setupVars, runVars, running>>

(* Fault: the first output buffer is taken for the frame's. *)
IsOutputOfInput_Any(output) == TRUE

IsOutputOfInput(output) == output.ts = ts

FetchOutput ==
    /\ at = "fetch"
    /\ device.outputs # <<>>
    /\ dest' = IF IsOutputOfInput(Head(device.outputs))
               THEN Head(device.outputs).picture ELSE dest
    /\ device' = [device EXCEPT !.outputs = Tail(@)]
    /\ at' = "requeue"
    /\ UNCHANGED <<src, ts, input_released, setupVars, runVars, running>>

(* Fault: the output buffer is kept when it was not the frame's. *)
RequeueOutput_OnlyIfDone ==
    /\ at = "requeue"
    /\ device' = [device EXCEPT !.free = IF dest = NoPicture THEN @ ELSE @ + 1]
    /\ at' = IF dest = NoPicture THEN "poll" ELSE "idle"
    /\ UNCHANGED <<callVars, setupVars, runVars, running>>

RequeueOutput ==
    /\ at = "requeue"
    /\ device' = [device EXCEPT !.free = @ + 1]
    /\ at' = IF dest = NoPicture THEN "poll" ELSE "idle"
    /\ UNCHANGED <<callVars, setupVars, runVars, running>>

(* A request of the call fails, the last one even after dest was filled. *)
CompressFails ==
    /\ at \in {"begin", "send", "poll", "release", "fetch", "requeue"}
    /\ CleanedUp
    /\ at' = "failed"
    /\ UNCHANGED <<callVars, setupVars, shape, running>>

EncoderProceeds ==
    /\ running
    /\ \/ OpenDevice
       \/ Configure
       \/ \E count \in 1..MaxBuffers : RequestBuffers(count)
       \/ MapBuffer
       \/ QueueBuffer
       \/ StreamOn
       \/ ReturnFailure
       \/ GrabInput
       \/ SendInput
       \/ Poll
       \/ ReleaseInput
       \/ FetchOutput
       \/ RequeueOutput

-----------------------------------------------------------------------------
(* The device, outside the program. *)

(* It reads the inputs in order, without waiting for an output buffer: the *)
(* encoder waits for its input before it gives an output buffer back.  The  *)
(* blank ones were queued first, and give no output.                        *)
DeviceReads ==
    /\ ready
    /\ \/ /\ device.blank > 0
          /\ device' = [device EXCEPT !.blank = @ - 1, !.done = @ + 1]
       \/ /\ device.blank = 0
          /\ device.inputs # <<>>
          /\ device' = [device EXCEPT !.inputs = Tail(@), !.done = @ + 1,
                                      !.coding = Append(@, Head(device.inputs))]
    /\ UNCHANGED <<at, callVars, setupVars, runVars, running>>

DeviceFills ==
    /\ ready
    /\ device.coding # <<>>
    /\ device.free > 0
    /\ device' = [device EXCEPT
                    !.coding = Tail(@), !.outputs = Append(@, Head(device.coding)),
                    !.free = @ - 1, !.fresh = FALSE]
    /\ UNCHANGED <<at, callVars, setupVars, runVars, running>>

DeviceEncodes == DeviceReads \/ DeviceFills

(* "The first time the encoder may give a buffer of garbage with a zero     *)
(* timestamp" (m2m.c:449).                                                  *)
GarbageOutput == [picture |-> Garbage, ts |-> 0]
DeviceEmitsGarbage ==
    /\ ready
    /\ device.fresh
    /\ device.free > 0
    /\ device' = [device EXCEPT !.outputs = Append(@, GarbageOutput),
                                !.free = @ - 1, !.fresh = FALSE]
    /\ UNCHANGED <<at, callVars, setupVars, runVars, running>>

Next ==
    /\ UNCHANGED useVars
    /\ \/ running /\ \E f \in Frame : Compress(f)
       \/ EncoderProceeds
       \/ running /\ (PrepareFails \/ CompressFails)
       \/ running /\ (DeviceEncodes \/ DeviceEmitsGarbage)

Spec == Init /\ [][Next]_vars

(* The encode thread runs on within a call, and the device encodes what it  *)
(* is sent.  Nothing makes a request fail, so that no failure ends a wait   *)
(* which would otherwise last, or the device emit garbage.                  *)
FairSpec ==
    /\ Spec
    /\ WF_vars(EncoderProceeds /\ UNCHANGED useVars)
    /\ WF_vars(running /\ DeviceEncodes /\ UNCHANGED useVars)

-----------------------------------------------------------------------------
(* Properties *)

Buffer == [picture : Garbage..MaxCalls, ts : 0..MaxCalls]
Device == [blank : Nat, inputs : Seq(Buffer), done : Nat, coding : Seq(Buffer),
           outputs : Seq(Buffer), free : Nat, fresh : BOOLEAN]

(* Every variable stays in its range: in particular the device is never     *)
(* asked for a buffer it does not have, and no more is unmapped than was    *)
(* mapped.                                                                  *)
TypeOK ==
    /\ asserts \in Builds
    /\ kind \in Kinds
    /\ data_set \in BOOLEAN
    /\ at \in {"idle", "open", "configure", "request", "map", "queue", "stream",
               "begin", "send", "poll", "release", "fetch", "requeue", "failed"}
    /\ direction \in {"INPUT", "OUTPUT"}
    /\ want \in 0..MaxBuffers
    /\ src \in Frame \cup {NoFrame}
    /\ dest \in Garbage..MaxCalls
    /\ ts \in 0..MaxCalls
    /\ input_released \in BOOLEAN
    /\ fd \in BOOLEAN
    /\ shape \in Shapes \cup {NoShape}
    /\ ready \in BOOLEAN
    /\ bufs \in [{"INPUT", "OUTPUT"} -> [array : BOOLEAN, n : 0..MaxBuffers]]
    /\ mapped \in Nat
    /\ device \in Device
    /\ running \in BOOLEAN

(* Between two calls the encoder is either of use or closed.  Of use: every *)
(* output buffer is with the driver or waits to be fetched, every input     *)
(* buffer was taken back or is still blank, and the driver has nothing more *)
(* to do with any frame, so that the last dma_fd can go back to Android.    *)
(* Without assert() it may still have the last frame, and no other, to do:  *)
(* it lags by one frame at most.  Closed: no device, no buffers.            *)
UsableOrClosed ==
    at = "idle" =>
      IF ready
      THEN /\ fd /\ shape = src.shape
           /\ device.free + Len(device.outputs) = bufs["OUTPUT"].n
           /\ bufs["OUTPUT"].n > 0
           /\ device.blank + Len(device.inputs) + device.done
                = (IF Dma THEN 0 ELSE bufs["INPUT"].n)
           /\ IF asserts THEN Held = <<>>
              ELSE Held = <<>> \/ (Len(Held) = 1 /\ Held[1].picture = src.number)
      ELSE ~fd /\ bufs = NoBuffers

(* A buffer that was mapped and could not be queued is never unmapped       *)
(* (m2m.c:289-305): one for each call at most, because a failed encoder is  *)
(* not prepared again for frames of the same shape.                         *)
OneLeakPerCall ==
    at = "idle" => mapped - Listed("INPUT") - Listed("OUTPUT") <= src.number

(* The output frame of a call never holds the picture of another call, or   *)
(* garbage: "make sure that we read the output buffer that corresponds to   *)
(* the input" (m2m.c:450).                                                  *)
OutputMatchesInput == dest \in {NoPicture, src.number}

(* Whatever a call waits for is there, or the device can give it without    *)
(* another request of the encoder: the frame, with its timestamp, is the    *)
(* last on its way to an output buffer, of which the call never keeps the   *)
(* last one, and a buffer is only taken back where one was given.           *)
OnItsWay == Held # <<>> /\ Held[Len(Held)] = Sent(ts)
WaitIsAnswered ==
    /\ at = "poll" => OnItsWay /\ (device.free > 0 \/ device.outputs # <<>>)
    /\ at = "fetch" => device.outputs # <<>>
    /\ at = "release" \/ (at = "begin" /\ ~Dma) =>
         device.done > 0 \/ device.blank > 0 \/ device.inputs # <<>>

(* The encoder keeps the promise of EncoderService, whatever fails and      *)
(* whatever the device emits first: an exact one where assert() is compiled, *)
(* and without it one that may lag by a frame.                              *)
Service == INSTANCE EncoderService WITH
    Frames <- Frame,
    exact <- asserts,
    service <- IF ready THEN "ready"
               ELSE IF at \in {"idle", "failed"} /\ shape # NoShape THEN "failed"
               ELSE "fresh",
    input <- IF at = "idle" THEN NoFrame ELSE src,
    output <- dest
ImplementsEncoderService == Service!Spec

(* A call returns, however often poll() times out and whatever the clock    *)
(* says: the output buffer with the frame's timestamp does come back.       *)
CompressReturns == at # "idle" ~> at = "idle" \/ ~running
=============================================================================
