# A TLA+ model of tesla-android-virtual-display

The program mirrors the Android screen into a browser: it makes a virtual
display, compresses every frame the compositor draws with a V4L2 hardware
encoder and serves the pictures over HTTP (multipart JPEG, port 9090) and over
websockets (port 9091). It is about 3100 lines of C++ and C, seven kinds of
thread, and no tests.

## Inventory

| Part | Source | State | Operations | Talks to |
|---|---|---|---|---|
| Capture thread | `tesla-android-virtual-display.cpp:99-163` | the acquired buffer | wait, consume, raise flag, push, release | FrameWaiter, Minicap, `capture_queue`, `new_frame_captured` |
| FrameWaiter | `capture/frame_waiter.*` | `mPendingFrames` | `waitForFrame`, `onFrameAvailable` (Android's thread) | capture thread |
| Minicap | `capture/minicap*.hpp` | the BufferQueue's consumer side, `mBuffer`, `mHaveBuffer` | create/destroy display, consume, release | Android (external) |
| ThreadSafeQueue | `utils/thread_safe_queue.*` | a deque, mutex, condition variable | `push`, `pop` | capture and encode threads |
| Encode thread | `…virtual-display.cpp:165-221` | frame in hand, last encoded frame | pop, compress, store, publish, send, free | encoder, `last_encoded_frame_mutex`, streamer, libws |
| Broadcast thread | `…:223-236` | a copy of the last frame | once a second: repeat the last frame if no frame was captured, lower the flag | streamer |
| Websocket handlers | `…:238-265` | | on open: send the last frame if no frame was captured, lower the flag | libws (external; one thread per connection) |
| M2M encoder | `encode/m2m.c` | device, buffers, shape, ready | `us_m2m_encoder_compress` and the set-up and clean-up it runs | the V4L2 device (external) |
| Topic, Publisher | `stream/mjpeg_streamer.hpp:583-809` | buffer, clients, a counter per client, payload queue | `enqueue`, `add`, `removeClient`, `worker`, `start`, `stop` | publishing threads, 4 workers, listener |
| Listener, HTTP callbacks | `stream/mjpeg_streamer.hpp:58-95, 391-561, 821-920` | the poll array | accept, read, answer, close | Publisher, HTTP clients |
| `us_frame_s` helpers, tools, logging | `encode/frame.*`, `tools.h`, `logging.*`, `threading.h` | | pure functions, log lines | |

What is hard here is concurrency: none of the threads shares a common lock, a
frame passes through five of them, three kinds of thread hand out the last
frame, an atomic flag is written by all of them, and the publisher mixes three
mutexes with a condition variable. There is one external device that may fail
at any request, buffers that go back to Android while a descriptor to them is
still queued, and local variables nobody initialises. Nothing is persisted, so
there is no crash recovery.

What makes each part correct:

* pipeline: no frame asked for that is not there; no notification lost; viewers
  never go back in time, agree in the end, and are served on a still screen;
  the encoder reads the frame that was captured;
* encoder: usable or closed between calls, the output of a call is the picture
  of its input, every call returns, no buffer leaks without bound;
* listener: the poll array holds what is open, a client leaves the topic it
  joined last before its descriptor is closed, what is sent is read, a shutdown
  ends the thread;
* publisher: no lost payload, no pop of an empty queue, a bounded counter per
  client that never claims a backlog that is not there, even when descriptors
  are reused, pictures not older than their payload, `stop()` returns or waits
  for one worker alone.

`PROJECT.json` lists the hazards at their lines, also those no property covers
yet.

## Modules

| Module | What it is |
|---|---|
| `FramePipeline` | Android's queue, the capture, encode and broadcast threads, websocket connections and HTTP viewers, in MJPEG mode |
| `Handover` | `FrameWaiter` and `ThreadSafeQueue` at their mutexes and condition variables |
| `FrameChannel` | abstract: what the two promise the threads that use them |
| `HandoverProofs` | theorems about `Handover` |
| `Process` | `main()`, the set-up of the virtual display, both modes, and the heap blocks frames are kept in |
| `ProcessProofs` | theorems about `Process` |
| `LiveView` | abstract: what a viewer is promised, a shown frame that only moves forward to frames that were drawn |
| `FramePipelineProofs`, `FrameOrderProofs`, `FrameChannelProofs` | theorems about `FramePipeline` |
| `Publisher` | `enqueue()`, `worker()`, clients and `stop()`, opened up to each critical section |
| `PublisherProofs` | theorems about `Publisher` |
| `M2MEncoder` | `us_m2m_encoder_compress()` request by request, against a device |
| `EncoderService` | abstract: what one call of the encoder promises |
| `M2MEncoderProofs` | theorems about `M2MEncoder` |
| `Listener` | the HTTP listener's event loop, its callbacks, `start()` and `stop()` of the streamer |
| `ListenerProofs` | theorems about `Listener` |
| `ClientTable` | what listener and publisher share: descriptors, which of them are clients, whether the publisher takes more |
| `MCFramePipeline`, `MCPublisher`, `MCListener` | symmetry sets for TLC |

`FramePipeline` uses the publisher and the encoder through what they promise:
`publish()` is one step that sets the topic's buffer and reaches the viewers
that have joined, and `Compress` is the outcome of one call. `Publisher` and
`M2MEncoder` open these up (what `Compress` makes of a build without `assert()`
is under M2MEncoder below), as `Handover` does for `waitForFrame()`, `push()` and
`pop()`, which `FramePipeline` and `Process` use as steps of `FrameChannel`.
`Publisher` and `Listener` meet in `ClientTable`: the listener's steps of
`Publisher` are steps of that module (`Table!AddClient(fd)`, …), in any order it
allows, and `Listener`, which has the publisher's client table without its queue
and workers, is shown to take no others.

### FramePipeline

Frames are numbered in the order Android draws them, and everything made from a
frame carries its number. A thread's program counter (`captureAt`, `encodeAt`,
`broadcastAt`, `socketAt[s]`) names the statement it is at; a step is one
operation on shared state: a queue operation, a load or store of the atomic
flag, a mutex, a call into the BufferQueue. Under a mutex steps are merged only
where nothing else can look in between (`StoreLastFrame`). The rest of the code
between two steps touches only the thread's own variables.

`UsesChannel` says that the threads use `FrameWaiter` and `ThreadSafeQueue` the
way `FrameChannel` describes, which `Handover` implements: with it the two
modules fit together. A local is cleared in the model where its scope ends
(`frameData`, the frame in hand), so that no property reads it afterwards.

Uninitialised locals (`encoded_frame_h264` and `encoded_frame_jpeg` with their
`data` and `allocated`, `encoderFrame.data`) are undefined behaviour; what
happens depends on the build. `UninitLocals` says what the build leaves in
them: `{"zero"}` for Android's build, which clears locals, or also `"junk"`.
Junk in `allocated` or in `input_frame.data` ends the process.

External, with what is assumed of it: the BufferQueue delivers queued buffers
in order, drops none (a virtual display's queue blocks its producer) and calls
`onFrameAvailable` once per buffer, in a thread of its own; `acquireBuffer` may
fail at any time, which ends the process; the encoder never returns an empty
picture as a success; libws calls the open handler of each connection in a
thread of its own after listing it, and `ws_sendframe_bin(NULL, …)` reaches all
open connections.

### Handover

A step takes a mutex and makes the first access under it, tests a predicate,
goes to sleep (which gives the mutex back in the same step, as a condition
variable does), notifies or gives the mutex back. `onFrameAvailable()` notifies
with its mutex held, `push()` after it has given it back. `wait_for` with a
predicate is its loop: the timeout and a wakeup for no reason are one step
(`CaptureWakes`) that leads back to the mutex and the test. Android's threads
call whenever they like, up to `MaxFrames` times. When everything has been
popped the threads wait, so a sleeping thread always has its step: a deadlock
of the program would be one of the model.

### Process

`main()` statement by statement, then the capture thread's set-up of the
display (`minicap_*`, `applyConfigChanges`, `createVirtualDisplay`) down to the
order in which listener, proxy, consumer and display are made, and every
`exit(1)` on the way (`CaptureFails`). A property that is not set reads as -1,
and `is_h264` is then true. In H264 mode the encoder copies from
`src->data`, which nobody set (`CompressH264` ends the process).

Blocks of the heap are addresses with the number of the frame they hold, `Raw`
or `Freed`; `realloc()` and `malloc()` give any free one, also one that was
freed a step before. `FreeLast`, `AllocateLast` and `CopyLast` are the three
steps in which the encode thread replaces the last frame; `ReadLast` and
`SendLast` are the two ends of a reader's critical section, for the broadcast
thread and for each open handler. The flag `new_frame_captured` is left to
`FramePipeline`: without it a reader may come at any time, which is more than
the code allows. `streamer.start()` may return, end the process or not return,
as `Listener` shows.

### Publisher

A step is one critical section (`buffer_mtx_`, `client_by_sockfd_mtx_`,
`queue_size_by_sockfd__mtx_` and `payloads_mtx_` are held within one step
only), except for `cv_mtx_`: a worker holds it from the test of its predicate
until it has popped or is asleep, and the model shows the state in between,
because `notify_one()`, `notify_all()` and `push` happen without it. Waiting
may end spuriously. Descriptors are reused: a socket goes from closed to open
again while payloads for its last owner are queued. What the listener does to
clients and descriptors is any behaviour of `ClientTable`. `stop()` is called by any
thread, among them the one that runs `exit()`.

`enqueue()` and `add()` look at `end_publisher_` once, without a lock, and act
later: `EnqueueBegins` and `SetBuffer`, `Admit` and `AddClient` are two steps
each, and `stop()` may raise its flag (`Stop`) or even clear the topic
(`JoinWorkers`, once every worker has returned) in between. `poll()` may fail
(`WorkerPoll`), which like its wrong event is an exception nobody catches.

There is one topic because the program publishes one path. The other one there
can be is `topics_[""]`, which `removeClient()` creates for a connection that
never joined. A client of `/stream` that asks for the empty path after that is
added there, and stays in `/stream` too (`JoinAnother`): only its last path is
kept, so that nobody takes it out of `/stream`, also when its descriptor is
closed and given to another connection. The properties are checked and proved
with such clients.

### M2MEncoder

A step is one request (ioctl, `mmap`, `poll`) and any of them may fail; the
device works between requests, and may emit one garbage buffer with timestamp 0
first, as the comment at `m2m.c:449` says. The device reads an input without
waiting for an output buffer: `us_m2m_encoder_compress()` waits for its input
to come back before it gives an output buffer back, and with a device that
holds the input until it has a free output buffer it would, after the garbage
buffer, wait for ever. Options and formats are one step,
`Configure`: their order matters to no state of the program. A poll that times
out is a stutter. `shape` stands for width, height and format: the encoder is
prepared again when they change. (The display of this program never changes its
size; the encoder's own contract covers it.)

`kind` is the encoder the caller created: `"mjpeg"` takes the frame by its
descriptor, the others copy it. `data_set` says whether the caller sets
`src->data`; `capture_thread` does not, which ends the process in the copying
(H264) mode, and a caller that does is checked as well. `asserts` says whether
`assert()` is compiled: without it, as in Android's builds,
`us_get_now_monotonic_u64()` does not read the clock and the timestamp is any
value. `Builds` holds the builds of a run or a theorem; where nothing else is
said, both.

`EncoderService` is the promise for both: an exact service gives the picture of
its input; one that is not exact, the service of a build without `assert()`,
may give that of the call before, or garbage. In either, the encoder is usable
or closed between calls, and then the device has nothing of any frame, or of
the last frame only (`UsableOrClosed`). In `FramePipeline` and `Process` the
number of an encoded frame is that of the call that made it, so what they say
of frames is true of calls in any build, and of the pictures in one with
`assert()`; without it a picture may be garbage or one call older than its number.

### Listener

The thread's place is `at`; a step is one system call or one call into the
publisher, and one entry of the poll array is handled after the other, by index
up to the size it had (`ScanEntry`, then `Accept`, `Read`, …, `CloseConnection`).
Closing a connection is two steps, the client's removal and the descriptor's
closing, also in `closeAll()` (`CloseNext`, `CloseNextSocket`), so that a worker
may come between. A connection that is closed leaves an invalid entry behind; `compress()` erases
these one by one after the round (`CompressEntry`, `CompressEnds`). Anything may
happen between: a peer connects, sends, closes or resets, and another thread
stops the publisher or the listener. What `poll` reports is
computed when it is called (`Revents`) and may be old when its entry is looked
at. Descriptors are used again as soon as they are closed. `poll` and `accept`
may fail at any call (`PollFails`, `AcceptFails`), for want of a descriptor or
for another reason, which is a panic of the listener: it closes everything and
throws. Locals of a round (`i`, `data`, `revents`, …) are cleared where the
round ends.

A request is its target (`"POST"` for any that is not a GET) and whether its
last piece has arrived: `HTTPRequest::parse` reads lines until it finds an empty
one, and past the end of the data it never does (`ParseForEver`). A request that
is cut right after the return of its empty line makes `tellg()` fail and
`substr()` throw, which nobody catches (`ParseThrows`); where a request is cut
is not modelled, so that one that is not whole does either. A connection that a
peer closed is closed before what it sent is looked at, as in the code.
A target may be the empty path, which exists once `removeClient()` was called
for a connection that never joined.

`publisher_.stop()` is called by a `/shutdown` request on the listener thread
(`ShutDown`) and by `stop()` of the streamer, on the thread that runs `exit()`
(`StopPublisher`). It raises the flag, and returns some time later, or never,
with the maps cleared (`ShutDownReturns`, `PublisherReturns`): `Publisher` shows
the join that may not end. `add()` looks at the flag (`AdmitClient`) before it
adds the client (`AddClient`), and either step of a `stop()` on the other thread
may come between. Two threads in `stop()` at a time join the same workers, which
may end the process (`StopsCollide`). Responses are not modelled: nothing waits
for their sending.

## Runs

Deadlock is checked in `handover`, where no thread may be left without a step.
In the other runs numbers of frames, pictures and calls are bounded, and the
process may end, after which nothing happens.

| Run | Bounds | Shows |
|---|---|---|
| `pipeline_safety` | 2 buffers, 2 sockets, 3 frames, locals cleared or junk | `TypeOK`, `ConsumeIsLegal`, `InSync`, `SocketsMoveForward`, `UsesChannel` |
| `pipeline_temporal` | 2 buffers, 1 socket, 1 viewer, 2 frames, locals cleared, fair threads | `StreamImplementsLiveView`, `ViewersAreServed`, `FramesReachStream`, `SocketsSeeFrames` |
| `pipeline_reuse` | 2 buffers, 1 socket, 1 viewer, 3 frames | violated: `EncodesCapturedFrame` |
| `handover` | 2 threads of Android, 4 frames, fair threads | `TypeOK`, `SleepersAreNotified`, `ImplementsChannel` |
| `process` | 2 sockets, 3 blocks, 3 frames, both modes, fair threads | `TypeOK`, `ReadersSeeWholeFrames`, `HeapIsSound`, `StreamIsLiveView`, `FramesAreShown` |
| `publisher_safety` | 1 descriptor, 2 workers, 2 publishers, limit 0, 3 pictures | `TypeOK`, `CounterBound`, `NoPhantomBacklog`, `FreshPicture`, `PopNonEmpty`, `NoStall`, `StopMissesOne` |
| `publisher_liveness` | 2 workers, 1 publisher, 2 pictures, fair threads | `PayloadsAreTaken`, `StopReturns` |
| `publisher_poll` | as above | violated: `PollFindsWritable` |
| `encoder_service` | DMA and copying encoder, with and without `assert()`, 2 shapes, 4 calls, up to 2 buffers per request, fair | `TypeOK`, `UsableOrClosed`, `OneLeakPerCall`, `WaitIsAnswered`, `ImplementsEncoderService`, `CompressReturns` |
| `encoder_ndebug` | DMA encoder, 3 calls, asserts compiled out | violated: `OutputMatchesInput` |
| `listener_safety` | 2 descriptors, 2 peers, 2 pieces, to join `/stream` or the empty path or to shut down | `TypeOK`, `PollArrayIsExact`, `JoinedAreConnected`, `KeepsClientTable` |
| `listener_liveness` | 1 descriptor, 2 peers, 2 pieces, to join or to shut down, fair threads | `StopIsNotLost`, `RequestsAreRead`, `ShutdownEnds`, `StartDoesReturn` |

Why the bounds are enough. Two buffers are the least with which Android can draw
while one is held, and three frames make a buffer be reused while its
descriptor is still queued. Two sockets let one open handler send to another
connection. A limit of 0 makes the counter's limit matter with two pictures
where the code's limit of 5 needs seven; nothing depends on its value. Two
workers are the least for which a notification can be lost without harm; with
one, `NoStall` is false, and `main` starts four. Two shapes and three calls
make the encoder change its mind and come back; the fourth call lets a failed
encoder be called once more. Two of Android's threads let one count a frame
while the other is between its count and its notification. The encode thread
holds two blocks at most, so a third one lets `malloc()` choose. Two peers that
connect again and again make one descriptor be used again while the other is
open. `MaxPieces` counts the pieces all peers send together: two are two
requests, on one connection or on two, or one request cut in two. With two, a
client can join `/stream` and then the empty path, and be closed while it is
still in `/stream`: `listener_safety` reaches that state, in which the descriptor
is a client of `/stream` without a path, and `JoinedAreConnected` says just what
still holds. With one descriptor for two peers `accept` also fails for want of
one.

Fairness. Threads run: weak fairness of each thread. `StoreLastFrame` has strong
fairness, because the broadcast thread takes the mutex for one publish and then
sleeps a second, during which the encode thread gets it; weak fairness would
let the broadcast thread win for ever. `Process` asks the same of `FreeLast` and
`Handover` of each step that takes a mutex: no thread holds one while it waits
for anything. In `Handover` neither timeouts nor wakeups for no reason are fair,
so that notifications alone must do; in `Process` `streamer.start()` is not
fair, because it may not return. The device consumes what it is sent
(weak fairness), without which a `poll` loop has nothing to wait for. The listener
thread and the thread in `start()` or `stop()` run (weak fairness); each has at
most one step to take, except that `Accept` may choose its descriptor. The
return of `publisher_.stop()` is not among these: it may last for ever. Nothing
makes Android draw, a client come or go, an operation fail, a condition
variable wake spuriously, or `stop()` be called.

What the liveness properties except. `ViewersAreServed` promises a viewer that
has joined something while the encoder works; once it has failed for good, only
if the screen comes to rest. While it changes, the flag may be up whenever the
broadcast thread wakes, and the encode thread publishes nothing: such a viewer
may wait for ever. `StopReturns` has two parts: `Publisher::stop()` returns if no
worker is between its test and its sleep when it notifies them; in any case it
returns, or comes to wait for one worker alone, asleep, with all others
returned. `StopMissesOne` is the safety side of it. `ShutdownEnds` and
`RequestsAreRead` except a listener thread in a `publisher_.stop()` that does not
return, and one caught in a request that came in two pieces.
`StartDoesReturn` excepts a shutdown request that is faster than `start()`, for
which `start()` indeed never returns.

### What the violated runs show

* `EncodesCapturedFrame`: `capture_thread` queues a frame that is only a
  descriptor and gives the buffer back in the next statement. Android may draw
  into it before the encoder reads it. No frame number is shown out of order
  by it, so viewers see a newer or a torn picture rather than an older one.
* `PollFindsWritable`: `worker()` polls a copy of the client's descriptor; if
  the client left since, `poll` reports `POLLNVAL` or `POLLERR`, the worker
  throws, nothing catches it and the process ends.
* `OutputMatchesInput`: in a build with `NDEBUG` every frame has the same
  timestamp, so the check that is to skip the device's garbage buffer accepts
  it; every later call then returns the picture of the call before.

### Faults

Each property is checked to be able to fail: the modules hold, next to the
definition of the code, faulty versions of it named after it
(`PopFrame_Newest`, `CvFree_NotAsked`, …) that no specification uses, and
`PROJECT.json` names for each property of a passing run the fault that breaks
it.

## Proofs

TLAPS checks these for every value of the constants (numbers of buffers,
connections, frames, threads), from the assumptions named in the modules.

* `TypeCorrect`: `Spec => []TypeOK`. `TypeOK` alone is not inductive: `mBuffer`
  must be a real buffer when it is queued, which needs to know that it was
  acquired at that place of the capture thread (`BufferHeld`).
* `ConsumeAlwaysLegal`: `Spec => []ConsumeIsLegal`. The invariant is a balance:
  queued buffers = callbacks to come + notifications counted + the one the
  capture thread has taken off the count and not yet consumed, and `mHaveBuffer`
  holds exactly between consume and release.
* `ViewersInSync`: `Spec => []InSync`. Three invariants: who is where when the
  mutex is held, that a copy made under it equals the last frame as long as it
  is held, and that stream and sockets lag the last frame only while the encode
  thread is between storing and sending.
* `SocketsNeverGoBack`: `Spec => SocketsMoveForward`, and `StreamIsLiveView`:
  `Spec => StreamImplementsLiveView` when locals are cleared. The invariant
  (`OrderInv`) orders every frame number on its way: shown ≤ last ≤ in hand ≤
  queued ≤ in buffers ≤ drawn, with the queue strictly increasing.
  `SocketsMoveForward` says of each send that it repeats the frame shown, brings
  a later one that has been drawn, or the empty picture of a failed encoder.
* `EmptyNeedsFailure`: `Spec => []EmptyOnlyAfterFailure`: with locals that are not
  cleared, a frame without data reaches a viewer only once the encoder has
  failed. It follows from the same invariant: nobody has seen more than the last
  encoded frame, which is empty only then.

`PublisherProofs` (the listener's steps are those of `ClientTable`, so each of
these holds for any listener that keeps to it):

* `TypeCorrect`, with what threads have in hand where they use it (`InHand`,
  `Popped`).
* `CountersBounded`: `Spec => []CounterBound`. The bound alone is not inductive;
  `CounterInv` counts a thread that has found room and not yet pushed as if it
  had pushed.
* `BacklogsAreReal`: `Spec => []NoPhantomBacklog`. It is inductive; the work is in
  counting the places of a descriptor in the queue, one more after an append
  (`AtAppend`) and one less after the head is taken (`AtTail`, by a bijection).
* `PopsAreLegal`: `Spec => []PopNonEmpty`. A worker between its test and its pop
  or sleep holds `cv_mtx_` (`HoldsMutex`), and threads end only with the process
  or with `end_publisher` (`Ended`).
* `NeverStalls`: `Spec => []NoStall` if there are two different workers (with
  one worker it is false). When no worker is awake at most one is between its
  test and its sleep, so a notification finds another one asleep.
* `PicturesAreFresh`: `Spec => []FreshPicture`. Every picture that is waited for
  has been stored (`Stored`), until `stop()` empties the topic.
* `NobodyMissesAPicture`: `Spec => PassedOverIsQueued`. A client leaves a
  thread's loop without a payload only if its counter is at the limit; the
  counter counts payloads in the queue (`NoPhantomBacklog`), so there is one,
  and the worker that takes it reads the buffer set before the loop. `TodoInv`
  says that outside its loop a thread has nobody left to visit.
* `StopWaitsForOne`: `Spec => []StopMissesOne`. `stop()` raises its flag without
  `cv_mtx_`, so a worker that has tested and not yet slept misses
  `notify_all()` and is joined for ever. It holds `cv_mtx_`, so there is one at
  most (`HoldsMutex`), and who tests after it finds the flag. This is the safety
  side of `StopReturns`.

`M2MEncoderProofs`:

* `EncoderKeepsService`: `Spec => ImplementsEncoderService`, in both builds. The
  invariant says what a call has done at each of its places (`CallInv`), and
  what the device holds (`HeldInv`): the frame of the call, last, and before it at
  most one buffer, the garbage or the frame of the call before. Where the clock
  is read, that one has another timestamp.
* `TypeCorrect`, and `LeaksAreBounded`: `Spec => []OneLeakPerCall`, whatever
  fails and with any build. A buffer can be mapped and missing from the
  encoder's list only between its `mmap` and its `VIDIOC_QBUF` (`BuffersInv`),
  so that a failure there loses one.
* `ReturnsUsableOrClosed`: `Spec => []UsableOrClosed`, in both builds. `CountInv`
  counts the buffers of each direction over the places they can be (with the
  program, queued, free, done); with `HeldInv` nothing of any frame, or without
  `assert()` at most the last one, is left in the device.
* `EveryWaitIsAnswered`: `Spec => []WaitIsAnswered`, in both builds: the safety
  half of `CompressReturns`. `GrantInv` says that a device that is ready was
  granted buffers of both directions, and `HeldInv` that the frame of a call is
  the last thing the device has until its output is fetched. With `CountInv` an
  output buffer is then free or filled whenever the call polls for one, whatever
  failed in earlier calls.

`HandoverProofs`:

* `TypeCorrect`: `Spec => []TypeOK`, and `NoWakeupLost`: `Spec =>
  []SleepersAreNotified`. The invariant says who holds which mutex where
  (`MutexInv`), that what a thread found under a mutex stays true while it has it
  (`FoundInv`: nobody can add between the test and the sleep), and that the
  queue holds consecutive frames between the one popped last and the one
  captured last (`OrderInv`).
* `HandoverIsChannel`: `Spec => Channel!Spec`, the safety half of
  `ImplementsChannel`, from `OrderInv`: the last frame in the queue is the one
  popped last plus the queue's length.

`FrameChannelProofs`:

* `PipelineUsesChannel`: `Spec => UsesChannel`. The invariant (`Complete`)
  sharpens the order of frames to "none missing": the frame in hand,
  `capture_queue`, the held buffer and the queued buffers hold consecutive
  numbers up to the one drawn last; with the balance of `ConsumeAlwaysLegal` it
  says which frame each of the channel's counters stands for. With
  `HandoverIsChannel` it is the argument that `FramePipeline` may take the two
  classes for atomic.

`ProcessProofs`:

* `TypeCorrect`, `EveryFrameAnnounced`, `BlocksFreedOnce`, `FramesReadWhole`: the
  invariants of `process`, and that no frame is drawn unannounced. `BlockInv` says what the two blocks hold at each
  place of the encode thread, `HeapInv` that no other block is allocated, and
  `MutexInv` that a reader is alone with the last frame. They assume only that
  an address is not `nullptr`.
* `ProcessKeepsLiveView`: `Spec => StreamIsLiveView`: with blocks that are freed
  and used again, and readers at any time, HTTP viewers still see what
  `LiveView` promises. A reader shows the frame that its block held when it took
  the mutex, which nobody replaces while it has it.

`ListenerProofs`:

* `TypeCorrect`, and `PollsWhatIsOpen`: `Spec => []PollArrayIsExact`. In a round
  the array is exact but for invalid entries (`EntriesInv`); `ScanInv` says where
  these may be: before the entry that is looked at, and behind those that
  `compress()` has passed. `CloseInv` says the same of `closeAll()`: what is
  still open is still ahead of it.
* `JoinedStayConnected`: `Spec => []JoinedAreConnected`, for any targets, the empty
  path included. `JoinedInv`: a descriptor with a path is open, is not being
  closed, and is in the topic the path names unless `stop()` has begun.
* `ListenerKeepsTable`: `Spec => KeepsClientTable`, for any targets: each step of
  the listener, its peers and the two calls of `stop()` is a step of
  `ClientTable` or leaves it alone. It is what `Publisher` takes for granted, so
  with it the two fit together: the theorems of `PublisherProofs` hold with this
  listener, also for a connection that joins a second topic and for one that is
  added while the publisher is stopped. `LinkInv` says that a connection has one
  peer and a peer at most one connection, accepted or waiting, without which a
  reset would be two steps of the table.
* `StopReachesListener`: `Spec => []StopIsNotLost`, and `StartFindsItRunning`:
  `Spec => []StartSeesRunning`. `run()` lowers `end_listener` on a thread of its
  own, while `start()`, `stop()` and a request raise or read it. `StopInv` follows
  the two flags, the state and the place of `main` together: nobody raises the
  publisher's flag before the listener has lowered its own, and once raised it
  stays so.

Four of these theorems state what no run repeats: `PassedOverIsQueued` is a
consequence of `NoPhantomBacklog`, `FramesAreAnnounced` and `StartSeesRunning` are
what `FramesAreShown` and `StartDoesReturn` rest on, and `EmptyOnlyAfterFailure`
says what builds that do not clear locals can show.

Every invariant that the passing runs check is proved, and so are the action
properties and the safety of every refinement. What stays with TLC is liveness,
which the prover cannot do: `ViewersAreServed`, `FramesReachStream`,
`SocketsSeeFrames`, `FramesAreShown`, `PayloadsAreTaken`, `StopReturns`,
`CompressReturns`, `RequestsAreRead`, `ShutdownEnds`, `StartDoesReturn` and the
liveness half of `ImplementsChannel`.

## Not modelled, and why

* Calls nobody makes: `FrameWaiter::stop` and `reportExtraConsumption`,
  `Minicap::release` and the destruction of a display, `us_m2m_encoder_destroy`,
  the comparison and padding functions of `frame.c`.
* `exit()` in one thread while the others run: it destroys the globals they use.
  The models end with the call.
* What two calls of `Publisher::stop()` at a time do (a `/shutdown` request while
  `exit()` runs): in `Listener` they end the process or return one after the
  other; `Publisher` calls it once.
* `ioctl(FIONBIO)` failing on a connection that was just accepted: it closes this
  one and throws past the listener's clean-up, which ends the process.
* A device that loses a buffer: what waits for it waits for ever.
* Memory: a `malloc()` that returns nothing, and data races on the memory of
  `topics_` (an `unordered_map` used without a lock). TLA+ steps are atomic, and
  the model has the one topic from the start.
* Pictures: geometry, orientation and stride, the values of bit rates (floating
  point), the texts of requests and responses, and the order of two workers'
  sends on one connection, on which no lock and no comment says anything.
* `ws_on_message` (a ping), logging, `threading.h` (unused macros).

## Plan

1. Done: the frame pipeline, its hand-over classes, the process around it, the
   publisher, the encoder and the listener, with their proofs, and the
   interface between the last and the publisher.
2. That `Compress` of `FramePipeline` is what a call of an exact `EncoderService`
   comes to, as a theorem: the outcomes of `Call` … `Return`, taken together, are
   its disjuncts. So far the two agree by reading.
3. `HTTPRequest::parse` line by line, over small texts, against the meaning
   `Listener` gives it.
4. The workers' sends as pieces on a connection, with the listener's response
   header, if a statement about their order turns up.
