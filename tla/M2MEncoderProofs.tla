--------------------------- MODULE M2MEncoderProofs ---------------------------
(***************************************************************************)
(* Theorems about M2MEncoder for any shapes, output formats and number of  *)
(* buffers and calls, whatever request fails and with or without assert(): *)
(* it implements EncoderService, is usable or closed between two calls,    *)
(* waits for nothing that cannot come, and loses at most one mapping for   *)
(* each call.                                                              *)
(***************************************************************************)
EXTENDS M2MEncoder, TLAPS, SequenceTheorems

USE DEF callVars, setupVars, runVars

SetUp == {"open", "configure", "request", "map", "queue", "stream"}
Waiting == {"poll", "release", "fetch"}
Transfer == {"begin", "send", "requeue"} \cup Waiting

(* The place in a call says what the call has done so far.                  *)
CallInv ==
    /\ at \in SetUp \cup Transfer \cup {"idle", "failed"}
    /\ src \in Frame \cup {NoFrame}
    /\ at # "idle" => src \in Frame /\ shape = src.shape
    /\ ready \in BOOLEAN
    /\ ready => src \in Frame
    /\ at \in SetUp \cup {"failed"} => ~ready
    /\ at \in Transfer => ready
    /\ at \in SetUp \cup {"begin", "send"} \cup Waiting => dest = NoPicture
    /\ asserts /\ at \in Waiting \cup {"requeue"} => ts = src.number

(* Each request leaves the call where CallInv says.                         *)
LEMMA CallStep == CallInv /\ [Next]_vars => CallInv'
<1> SUFFICES ASSUME CallInv, [Next]_vars PROVE CallInv'
  OBVIOUS
<1> USE DEF SetUp, Waiting, Transfer
<1>0. CallInv /\ asserts' = asserts
  BY DEF Next, vars, useVars
<1>1. ASSUME NEW f \in Frame, Compress(f) PROVE CallInv'
  <2>1. CASE NeedsPrepare(f)
    BY <1>1, <2>1 DEF Compress, CleanedUp, CallInv
  <2>2. CASE ~NeedsPrepare(f)
    BY <1>1, <2>2, <1>0 DEF Compress, NeedsPrepare, CallInv
  <2> QED
    BY <2>1, <2>2
<1>2. CASE OpenDevice \/ Configure \/ MapBuffer \/ StreamOn \/ ReturnFailure
  <2>1. CASE OpenDevice \/ Configure \/ MapBuffer
    BY <2>1, <1>0 DEF OpenDevice, Configure, MapBuffer, CallInv
  <2>2. CASE StreamOn
    <3>1. ready' \in BOOLEAN /\ ready'
      BY <2>2, Zenon DEF StreamOn
    <3> QED
      BY <2>2, <3>1, <1>0 DEF StreamOn, CallInv
  <2>3. CASE ReturnFailure
    BY <2>3, <1>0 DEF ReturnFailure, CallInv
  <2> QED
    BY <1>2, <2>1, <2>2, <2>3
<1>3. ASSUME NEW count \in 1..MaxBuffers, RequestBuffers(count) PROVE CallInv'
  BY <1>3, <1>0 DEF RequestBuffers, BuffersAreSetUp, CallInv
<1>4. CASE QueueBuffer
  BY <1>4, <1>0 DEF QueueBuffer, BuffersAreSetUp, CallInv
<1>5. CASE GrabInput
  BY <1>5, <1>0 DEF GrabInput, CallInv
<1>6. CASE SendInput
  <2>1. CASE Dma \/ data_set
    <3>1. at' = "poll" /\ (asserts => ts' = src.number)
      BY <1>6, <2>1 DEF SendInput, Timestamps
    <3> QED
      BY <1>6, <3>1, <1>0 DEF SendInput, CallInv
  <2>2. CASE ~(Dma \/ data_set)
    BY <1>6, <2>2, <1>0 DEF SendInput, CallInv
  <2> QED
    BY <2>1, <2>2
<1>7. CASE Poll \/ ReleaseInput \/ RequeueOutput
  <2>1. CASE Poll
    BY <2>1, <1>0 DEF Poll, CallInv
  <2>2. CASE ReleaseInput
    BY <2>2, <1>0 DEF ReleaseInput, CallInv
  <2>3. CASE RequeueOutput
    BY <2>3, <1>0 DEF RequeueOutput, CallInv
  <2> QED
    BY <1>7, <2>1, <2>2, <2>3
<1>8. CASE FetchOutput
  BY <1>8, <1>0 DEF FetchOutput, CallInv
<1>9. CASE PrepareFails \/ CompressFails
  BY <1>9, <1>0 DEF PrepareFails, CompressFails, CleanedUp, CallInv
<1>10. CASE DeviceEncodes \/ DeviceEmitsGarbage \/ UNCHANGED vars
  BY <1>10, <1>0 DEF DeviceEncodes, DeviceReads, DeviceFills, DeviceEmitsGarbage, vars, CallInv
<1> QED
  BY <1>1, <1>2, <1>3, <1>4, <1>5, <1>6, <1>7, <1>8, <1>9, <1>10 DEF Next, EncoderProceeds
-----------------------------------------------------------------------------
(* Types and buffers.                                                       *)

Unlisted == mapped - Listed("INPUT") - Listed("OUTPUT")

(* The buffer being set up is mapped, and not listed, only while it is      *)
(* queued; a failure there is the one way to lose it.                       *)
BuffersInv ==
    /\ at \in {"open", "configure"} => bufs = NoBuffers
    /\ at = "request" => ~bufs[direction].array
    /\ at \in {"map", "queue"} => bufs[direction].array /\ bufs[direction].n < want
    /\ at \in {"request", "map", "queue"} /\ direction = "INPUT" => ~bufs["OUTPUT"].array
    /\ Unlisted \in Nat
    /\ at = "queue" => 1 <= Unlisted
    /\ Unlisted <= src.number
    /\ at \in {"open", "configure", "request", "map"} => Unlisted < src.number

Directions == {"INPUT", "OUTPUT"}
Buffers == [Directions -> [array : BOOLEAN, n : 0..MaxBuffers]]

LEMMA NoBuffersType == NoBuffers \in Buffers /\ NewDevice \in Device
  BY EncoderAssumption DEF NoBuffers, Buffers, Directions, NewDevice, Device

(* The updates the actions make keep the device's type.                     *)
LEMMA DeviceTypes ==
    ASSUME NEW d \in Device, NEW s \in Seq(Buffer), NEW t \in Seq(Buffer),
           NEW n \in Nat, NEW b \in BOOLEAN
    PROVE  /\ [d EXCEPT !.inputs = s] \in Device
           /\ [d EXCEPT !.blank = n] \in Device
           /\ [d EXCEPT !.done = n] \in Device
           /\ [d EXCEPT !.outputs = s] \in Device
           /\ [d EXCEPT !.free = n] \in Device
           /\ \A m \in Nat : [d EXCEPT !.blank = m, !.done = n] \in Device
           /\ [d EXCEPT !.inputs = s, !.done = n, !.coding = t] \in Device
           /\ [d EXCEPT !.coding = s, !.outputs = t, !.free = n, !.fresh = b] \in Device
           /\ [d EXCEPT !.outputs = s, !.free = n, !.fresh = b] \in Device
  BY DEF Device

LEMMA DeviceTypeStep == TypeOK /\ BuffersInv /\ [Next]_vars => device' \in Device
<1> SUFFICES ASSUME TypeOK, [Next]_vars PROVE device' \in Device
  OBVIOUS
<1>0. /\ device \in Device
      /\ device.inputs \in Seq(Buffer) /\ device.coding \in Seq(Buffer)
      /\ device.outputs \in Seq(Buffer)
      /\ device.done \in Nat /\ device.done + 1 \in Nat
      /\ device.blank \in Nat /\ device.blank + 1 \in Nat
      /\ device.free \in Nat /\ device.free + 1 \in Nat
  BY DEF TypeOK, Device
<1>n. /\ device.done > 0 => device.done - 1 \in Nat
      /\ device.free > 0 => device.free - 1 \in Nat
      /\ device.blank > 0 => device.blank - 1 \in Nat
  BY <1>0
<1>a. CASE CleanedUp
  BY <1>a, NoBuffersType DEF CleanedUp
<1>b. CASE UNCHANGED device
  BY <1>b, <1>0
<1>1. ASSUME NEW f \in Frame, Compress(f) PROVE device' \in Device
  BY <1>1, <1>a, <1>b DEF Compress
<1>2. CASE EncoderProceeds
  <2>1. CASE QueueBuffer
    BY <2>1, <1>0, DeviceTypes DEF QueueBuffer
  <2>2. CASE GrabInput
    BY <2>2, <1>0, <1>n, DeviceTypes DEF GrabInput
  <2>3. CASE SendInput
    <3>1. CASE Dma \/ data_set
      <4>1. src.number \in 0..MaxCalls
        BY EncoderAssumption DEF TypeOK, Frame, NoFrame
      <4>2. PICK now \in Timestamps : device' = [device EXCEPT !.inputs = Append(@, Sent(now))]
        BY <2>3, <3>1 DEF SendInput
      <4>3. Sent(now) \in Buffer
        BY <4>1, EncoderAssumption DEF Sent, Buffer, Timestamps, Garbage
      <4>4. Append(device.inputs, Sent(now)) \in Seq(Buffer)
        BY <4>3, <1>0
      <4> QED
        BY <4>2, <4>4, <1>0, DeviceTypes
    <3>2. CASE ~(Dma \/ data_set)
      BY <2>3, <3>2, <1>b DEF SendInput
    <3> QED
      BY <3>1, <3>2
  <2>4. CASE ReleaseInput
    BY <2>4, <1>0, <1>n, DeviceTypes DEF ReleaseInput
  <2>5. CASE FetchOutput
    <3>1. Tail(device.outputs) \in Seq(Buffer)
      BY <2>5, <1>0 DEF FetchOutput
    <3> QED
      BY <2>5, <3>1, <1>0, DeviceTypes DEF FetchOutput
  <2>6. CASE RequeueOutput
    BY <2>6, <1>0, DeviceTypes DEF RequeueOutput
  <2> QED
    BY <1>2, <2>1, <2>2, <2>3, <2>4, <2>5, <2>6, <1>b
       DEF EncoderProceeds, OpenDevice, Configure, RequestBuffers, MapBuffer, StreamOn,
           ReturnFailure, Poll
<1>3. CASE PrepareFails \/ CompressFails
  BY <1>3, <1>a DEF PrepareFails, CompressFails
<1>4. CASE DeviceReads
  <2>1. CASE device.blank > 0 /\ device' = [device EXCEPT !.blank = @ - 1, !.done = @ + 1]
    BY <2>1, <1>0, <1>n, DeviceTypes
  <2>2. CASE /\ device.inputs # <<>>
             /\ device' = [device EXCEPT !.inputs = Tail(@), !.done = @ + 1,
                                         !.coding = Append(@, Head(device.inputs))]
    <3>1. Head(device.inputs) \in Buffer /\ Tail(device.inputs) \in Seq(Buffer)
      BY <2>2, <1>0
    <3>2. Append(device.coding, Head(device.inputs)) \in Seq(Buffer)
      BY <3>1, <1>0
    <3> QED
      BY <2>2, <3>1, <3>2, <1>0, DeviceTypes
  <2> QED
    BY <1>4, <2>1, <2>2 DEF DeviceReads
<1>5. CASE DeviceFills
  <2>1. Head(device.coding) \in Buffer /\ Tail(device.coding) \in Seq(Buffer)
    BY <1>5, <1>0 DEF DeviceFills
  <2>2. Append(device.outputs, Head(device.coding)) \in Seq(Buffer)
    BY <2>1, <1>0
  <2>3. device.free > 0
    BY <1>5 DEF DeviceFills
  <2> QED
    BY <1>5, <2>1, <2>2, <2>3, <1>0, <1>n, DeviceTypes DEF DeviceFills
<1>6. CASE DeviceEmitsGarbage
  <2>1. GarbageOutput \in Buffer
    BY EncoderAssumption DEF GarbageOutput, Buffer, Garbage
  <2>2. Append(device.outputs, GarbageOutput) \in Seq(Buffer)
    BY <2>1, <1>0
  <2>3. device.free > 0
    BY <1>6 DEF DeviceEmitsGarbage
  <2> QED
    BY <1>6, <2>2, <2>3, <1>0, <1>n, DeviceTypes DEF DeviceEmitsGarbage
<1>7. CASE UNCHANGED vars
  BY <1>7, <1>b DEF vars
<1> QED
  BY <1>1, <1>2, <1>3, <1>4, <1>5, <1>6, <1>7 DEF Next, DeviceEncodes

(* What the arrays list changes with the array and the count of the         *)
(* direction being set up, and with cleanup.                                *)
LEMMA ListedType == TypeOK => Listed("INPUT") \in Nat /\ Listed("OUTPUT") \in Nat
  BY DEF TypeOK, Listed

LEMMA CleanupUnlists ==
    TypeOK /\ CleanedUp => mapped' = Unlisted /\ Unlisted' = Unlisted /\ bufs' = NoBuffers
<1> SUFFICES ASSUME TypeOK, CleanedUp PROVE mapped' = Unlisted /\ Unlisted' = Unlisted
  BY DEF CleanedUp
<1>1. mapped' = Unlisted /\ mapped' \in Int
  BY ListedType DEF CleanedUp, Unlisted, TypeOK
<1>2. Listed("INPUT")' = 0 /\ Listed("OUTPUT")' = 0
  BY DEF CleanedUp, Listed, NoBuffers
<1> QED
  BY <1>1, <1>2 DEF Unlisted

(* Each request leaves the buffers where BuffersInv says.                   *)
LEMMA BuffersStep ==
    TypeOK /\ BuffersInv /\ [Next]_vars =>
        BuffersInv' /\ bufs' \in Buffers /\ mapped' \in Nat
<1> DEFINE Goal == BuffersInv' /\ bufs' \in Buffers /\ mapped' \in Nat
<1> SUFFICES ASSUME TypeOK, BuffersInv, [Next]_vars PROVE Goal
  OBVIOUS
<1>0. /\ bufs \in Buffers /\ mapped \in Nat /\ src.number \in Nat
      /\ direction \in Directions /\ want \in 0..MaxBuffers /\ Unlisted \in Nat
      /\ Unlisted <= src.number
  BY DEF TypeOK, BuffersInv, Buffers, Directions, Frame, NoFrame
<1>u. ASSUME UNCHANGED <<bufs, mapped, src>>
      PROVE  bufs' \in Buffers /\ mapped' \in Nat /\ Unlisted' = Unlisted
  BY <1>u, <1>0 DEF Unlisted, Listed
<1>q. ASSUME UNCHANGED <<bufs, mapped, src>>,
             at' \notin {"open", "configure", "request", "map", "queue"}
      PROVE  Goal
  BY <1>q, <1>u, <1>0 DEF BuffersInv
<1>c. ASSUME CleanedUp, UNCHANGED src, at' = "failed" PROVE Goal
  BY <1>c, <1>0, CleanupUnlists, NoBuffersType DEF BuffersInv
<1>1. ASSUME NEW f \in Frame, Compress(f) PROVE Goal
  <2>1. src'.number = src.number + 1
    BY <1>1 DEF Compress
  <2>2. CASE NeedsPrepare(f)
    <3>1. mapped' = Unlisted /\ Unlisted' = Unlisted /\ bufs' = NoBuffers /\ at' = "open"
      BY <1>1, <2>2, CleanupUnlists DEF Compress
    <3> QED
      BY <3>1, <2>1, <1>0, NoBuffersType DEF BuffersInv
  <2>3. CASE ~NeedsPrepare(f)
    <3>1. UNCHANGED <<bufs, mapped>> /\ at' \in {"begin", "failed"}
      BY <1>1, <2>3 DEF Compress
    <3>2. Unlisted' = Unlisted
      BY <3>1 DEF Unlisted, Listed
    <3> QED
      BY <3>1, <3>2, <2>1, <1>0 DEF BuffersInv
  <2> QED
    BY <2>2, <2>3
<1>2. CASE OpenDevice
  BY <1>2, <1>u DEF OpenDevice, BuffersInv
<1>3. CASE Configure
  <2>1. direction' = "INPUT" /\ at' = "request" /\ bufs' = NoBuffers
    BY <1>3 DEF Configure, BuffersInv
  <2> QED
    BY <1>3, <2>1, <1>u DEF Configure, BuffersInv, NoBuffers
<1>4. ASSUME NEW count \in 1..MaxBuffers, RequestBuffers(count) PROVE Goal
  <2>0. /\ at = "request" /\ ~bufs[direction].array /\ Unlisted < src.number
        /\ direction = "INPUT" => ~bufs["OUTPUT"].array
        /\ UNCHANGED <<mapped, src>> /\ want' = count
    BY <1>4 DEF RequestBuffers, BuffersInv
  <2>1. CASE Dma /\ direction = "INPUT"
    <3>1. /\ bufs' = [bufs EXCEPT !.INPUT.n = count]
          /\ at' = "request" /\ direction' = "OUTPUT"
      BY <1>4, <2>1 DEF RequestBuffers, BuffersAreSetUp
    <3>2. bufs' \in Buffers
      BY <3>1, <1>0 DEF Buffers, Directions
    <3>3. ~bufs["INPUT"].array /\ ~bufs'["INPUT"].array /\ bufs'["OUTPUT"] = bufs["OUTPUT"]
      BY <3>1, <2>0, <2>1, <1>0 DEF Buffers, Directions
    <3>4. Unlisted' = Unlisted
      BY <3>3, <2>0 DEF Unlisted, Listed
    <3> QED
      BY <3>1, <3>2, <3>3, <3>4, <2>0, <2>1, <1>0 DEF BuffersInv
  <2>2. CASE ~(Dma /\ direction = "INPUT")
    <3>1. /\ bufs' = [bufs EXCEPT ![direction] = [array |-> TRUE, n |-> 0]]
          /\ at' = "map" /\ direction' = direction
      BY <1>4, <2>2 DEF RequestBuffers
    <3>2. bufs' \in Buffers
      BY <3>1, <1>0, EncoderAssumption DEF Buffers, Directions
    <3>3. /\ bufs'[direction] = [array |-> TRUE, n |-> 0]
          /\ \A d \in Directions \ {direction} : bufs'[d] = bufs[d]
      BY <3>1, <1>0 DEF Buffers
    <3>4. Listed("INPUT")' = Listed("INPUT") /\ Listed("OUTPUT")' = Listed("OUTPUT")
      BY <3>3, <2>0, <1>0 DEF Listed, Directions
    <3>5. Unlisted' = Unlisted
      BY <3>4, <2>0 DEF Unlisted
    <3> QED
      BY <3>1, <3>2, <3>3, <3>5, <2>0, <1>0 DEF BuffersInv, Directions
  <2> QED
    BY <2>1, <2>2
<1>5. CASE MapBuffer
  <2>1. UNCHANGED <<bufs, direction, want, src>> /\ mapped' = mapped + 1 /\ at' = "queue"
    BY <1>5 DEF MapBuffer
  <2>2. Listed("INPUT")' = Listed("INPUT") /\ Listed("OUTPUT")' = Listed("OUTPUT")
    BY <2>1 DEF Listed
  <2>3. Unlisted' = Unlisted + 1
    BY <2>1, <2>2, <1>0, ListedType DEF Unlisted
  <2> QED
    BY <1>5, <2>1, <2>3, <1>0 DEF MapBuffer, BuffersInv
<1>6. CASE QueueBuffer
  <2>0. /\ at = "queue" /\ bufs[direction].array /\ bufs[direction].n < want
        /\ direction = "INPUT" => ~bufs["OUTPUT"].array
        /\ 1 <= Unlisted
        /\ UNCHANGED <<mapped, src, want>>
        /\ bufs' = [bufs EXCEPT ![direction].n = @ + 1]
    BY <1>6 DEF QueueBuffer, BuffersInv
  <2>1. bufs[direction].n \in 0..MaxBuffers /\ bufs[direction].n + 1 \in 0..MaxBuffers
    BY <2>0, <1>0, EncoderAssumption DEF Buffers, Directions
  <2>2. bufs' \in Buffers
    BY <2>0, <2>1, <1>0 DEF Buffers, Directions
  <2>3. /\ bufs'[direction].array /\ bufs'[direction].n = bufs[direction].n + 1
        /\ \A d \in Directions \ {direction} : bufs'[d] = bufs[d]
    BY <2>0, <1>0 DEF Buffers
  <2>4. Unlisted' = Unlisted - 1
    <3>1. CASE direction = "INPUT"
      <4>1. Listed("INPUT")' = Listed("INPUT") + 1 /\ Listed("OUTPUT")' = Listed("OUTPUT")
        BY <3>1, <2>0, <2>3 DEF Listed, Directions
      <4> QED
        BY <4>1, <2>0, <1>0, ListedType DEF Unlisted
    <3>2. CASE direction = "OUTPUT"
      <4>1. Listed("OUTPUT")' = Listed("OUTPUT") + 1 /\ Listed("INPUT")' = Listed("INPUT")
        BY <3>2, <2>0, <2>3 DEF Listed, Directions
      <4> QED
        BY <4>1, <2>0, <1>0, ListedType DEF Unlisted
    <3> QED
      BY <3>1, <3>2, <1>0 DEF Directions
  <2>5. Unlisted' \in Nat /\ Unlisted' < src.number
    BY <2>0, <2>4, <1>0
  <2>6. CASE bufs[direction].n + 1 = want
    <3>1. direction' = "OUTPUT" /\ at' = IF direction = "INPUT" THEN "request" ELSE "stream"
      BY <1>6, <2>6 DEF QueueBuffer, BuffersAreSetUp
    <3> QED
      BY <3>1, <2>0, <2>2, <2>3, <2>5, <1>0 DEF BuffersInv, Directions
  <2>7. CASE bufs[direction].n + 1 # want
    <3>1. direction' = direction /\ at' = "map"
      BY <1>6, <2>7 DEF QueueBuffer
    <3>2. bufs'[direction'].n < want'
      BY <3>1, <2>0, <2>1, <2>3, <2>7, <1>0
    <3> QED
      BY <3>1, <3>2, <2>0, <2>2, <2>3, <2>5, <1>0 DEF BuffersInv, Directions
  <2> QED
    BY <2>6, <2>7
<1>7. CASE StreamOn \/ ReturnFailure \/ GrabInput \/ Poll \/ ReleaseInput \/ FetchOutput
           \/ RequeueOutput
  BY <1>7, <1>q DEF StreamOn, ReturnFailure, GrabInput, Poll, ReleaseInput, FetchOutput,
                    RequeueOutput
<1>8. CASE SendInput
  BY <1>8, <1>q DEF SendInput
<1>9. CASE PrepareFails \/ CompressFails
  BY <1>9, <1>c DEF PrepareFails, CompressFails
<1>10. ASSUME UNCHANGED <<at, src, direction, want, bufs, mapped>> PROVE Goal
  BY <1>10, <1>u DEF BuffersInv
<1>11. CASE DeviceEncodes \/ DeviceEmitsGarbage \/ UNCHANGED vars
  BY <1>11, <1>10 DEF DeviceEncodes, DeviceReads, DeviceFills, DeviceEmitsGarbage, vars
<1> QED
  BY <1>1, <1>2, <1>3, <1>4, <1>5, <1>6, <1>7, <1>8, <1>9, <1>11 DEF Next, EncoderProceeds

LEMMA TypeStep == TypeOK /\ BuffersInv /\ [Next]_vars => TypeOK'
<1> SUFFICES ASSUME TypeOK, BuffersInv, [Next]_vars PROVE TypeOK'
  OBVIOUS
<1> DEFINE Rest ==
      /\ asserts \in Builds
      /\ kind \in Kinds /\ data_set \in BOOLEAN
      /\ at \in SetUp \cup Transfer \cup {"idle", "failed"}
      /\ direction \in {"INPUT", "OUTPUT"} /\ want \in 0..MaxBuffers
      /\ src \in Frame \cup {NoFrame} /\ dest \in Garbage..MaxCalls
      /\ ts \in 0..MaxCalls /\ input_released \in BOOLEAN
      /\ fd \in BOOLEAN /\ shape \in Shapes \cup {NoShape}
      /\ ready \in BOOLEAN /\ running \in BOOLEAN
<1> USE DEF SetUp, Waiting, Transfer
<1>0. Rest
  BY DEF TypeOK
<1>1. Rest'
  <2>0. NoPicture \in Garbage..MaxCalls /\ src.number \in 0..MaxCalls
    BY <1>0, EncoderAssumption DEF NoPicture, Garbage, Frame, NoFrame
  <2>c. CleanedUp => fd' \in BOOLEAN /\ ready' \in BOOLEAN
    BY Zenon DEF CleanedUp
  <2>1. ASSUME NEW f \in Frame, Compress(f), UNCHANGED useVars PROVE Rest'
    <3>1. f.shape \in Shapes
      BY DEF Frame
    <3>2. fd' \in BOOLEAN /\ ready' \in BOOLEAN /\ shape' \in Shapes \cup {NoShape}
      BY <2>1, <3>1, <2>c, <1>0 DEF Compress
    <3>3. at' \in {"open", "begin", "failed"}
      BY <2>1 DEF Compress
    <3> QED
      BY <2>1, <3>2, <3>3, <2>0, <1>0 DEF Compress, useVars
  <2>2. CASE OpenDevice /\ UNCHANGED useVars
    <3>1. fd' \in BOOLEAN
      BY <2>2, Zenon DEF OpenDevice
    <3> QED
      BY <2>2, <3>1, <1>0 DEF OpenDevice, useVars
  <2>3. CASE (Configure \/ MapBuffer) /\ UNCHANGED useVars
    BY <2>3, <1>0 DEF Configure, MapBuffer, useVars
  <2>4. ASSUME NEW count \in 1..MaxBuffers, RequestBuffers(count), UNCHANGED useVars PROVE Rest'
    <3>1. count \in 0..MaxBuffers
      BY EncoderAssumption
    <3> QED
      BY <2>4, <3>1, <1>0 DEF RequestBuffers, BuffersAreSetUp, useVars
  <2>5. CASE QueueBuffer /\ UNCHANGED useVars
    BY <2>5, <1>0 DEF QueueBuffer, BuffersAreSetUp, useVars
  <2>6. CASE StreamOn /\ UNCHANGED useVars
    <3>1. ready' \in BOOLEAN
      BY <2>6, Zenon DEF StreamOn
    <3> QED
      BY <2>6, <3>1, <1>0 DEF StreamOn, useVars
  <2>7. CASE (ReturnFailure \/ GrabInput \/ Poll) /\ UNCHANGED useVars
    BY <2>7, <1>0 DEF ReturnFailure, GrabInput, Poll, useVars
  <2>8. CASE SendInput /\ UNCHANGED useVars
    <3>1. CASE Dma \/ data_set
      <4>1. Timestamps \subseteq 0..MaxCalls
        BY <2>0 DEF Timestamps
      <4>2. ts' \in 0..MaxCalls
        BY <2>8, <3>1, <4>1 DEF SendInput
      <4>3. input_released' \in BOOLEAN
        BY <2>8, <3>1, Zenon DEF SendInput
      <4> QED
        BY <2>8, <3>1, <4>2, <4>3, <1>0 DEF SendInput, useVars
    <3>2. CASE ~(Dma \/ data_set)
      <4>1. running' \in BOOLEAN
        BY <2>8, <3>2, Zenon DEF SendInput
      <4> QED
        BY <2>8, <3>2, <4>1, <1>0 DEF SendInput, useVars
    <3> QED
      BY <3>1, <3>2
  <2>9. CASE ReleaseInput /\ UNCHANGED useVars
    <3>1. input_released' \in BOOLEAN
      BY <2>9, Zenon DEF ReleaseInput
    <3> QED
      BY <2>9, <3>1, <1>0 DEF ReleaseInput, useVars
  <2>10. CASE FetchOutput /\ UNCHANGED useVars
    <3>1. Head(device.outputs) \in Buffer
      BY <2>10 DEF FetchOutput, TypeOK, Device
    <3>2. dest' \in Garbage..MaxCalls
      BY <2>10, <3>1, <1>0 DEF FetchOutput, Buffer
    <3> QED
      BY <2>10, <3>2, <1>0 DEF FetchOutput, useVars
  <2>11. CASE RequeueOutput /\ UNCHANGED useVars
    BY <2>11, <1>0 DEF RequeueOutput, useVars
  <2>12. CASE (PrepareFails \/ CompressFails) /\ UNCHANGED useVars
    BY <2>12, <2>c, <1>0 DEF PrepareFails, CompressFails, useVars
  <2>13. CASE (DeviceEncodes \/ DeviceEmitsGarbage \/ UNCHANGED vars) /\ UNCHANGED useVars
    BY <2>13, <1>0 DEF DeviceEncodes, DeviceReads, DeviceFills, DeviceEmitsGarbage, vars, useVars
  <2>14. UNCHANGED useVars
    BY DEF Next, vars
  <2> QED
    BY <2>1, <2>2, <2>3, <2>4, <2>5, <2>6, <2>7, <2>8, <2>9, <2>10, <2>11, <2>12, <2>13, <2>14
       DEF Next, EncoderProceeds
<1>2. bufs' \in Buffers /\ mapped' \in Nat
  BY BuffersStep
<1>3. device' \in Device
  BY DeviceTypeStep
<1> QED
  BY <1>1, <1>2, <1>3 DEF TypeOK, Buffers, Directions

LEMMA InitTyped == Init => TypeOK /\ BuffersInv
<1> SUFFICES ASSUME Init PROVE TypeOK /\ BuffersInv
  OBVIOUS
<1>1. /\ fd \in BOOLEAN /\ ready \in BOOLEAN /\ running \in BOOLEAN
      /\ input_released \in BOOLEAN /\ data_set \in BOOLEAN
  BY Zenon DEF Init
<1>2. Listed("INPUT") = 0 /\ Listed("OUTPUT") = 0
  BY DEF Init, NoBuffers, Listed
<1> QED
  BY <1>1, <1>2, NoBuffersType, EncoderAssumption
     DEF Init, TypeOK, BuffersInv, Unlisted, Buffers, Directions, NoPicture, Garbage, NoFrame

(* Every variable stays in its range, for any shapes, formats and bounds:   *)
(* the device is never asked for a buffer it does not have, and what is     *)
(* unmapped was mapped.                                                     *)
THEOREM TypeCorrect == Spec => []TypeOK
<1> QED
  BY InitTyped, TypeStep, BuffersStep, PTL DEF Spec

(* A process loses at most one mapping for each call of the encoder, which  *)
(* it loses when the buffer cannot be queued, whatever else fails.          *)
THEOREM LeaksAreBounded == Spec => []OneLeakPerCall
<1>1. BuffersInv => OneLeakPerCall
  BY DEF BuffersInv, OneLeakPerCall, Unlisted
<1> QED
  BY <1>1, InitTyped, TypeStep, BuffersStep, PTL DEF Spec

-----------------------------------------------------------------------------
(* Where the buffers are, in a call and between two.                        *)

OutputCount == device.free + Len(device.outputs)
Queued == device.blank + Len(device.inputs)
InputCount == Queued + device.done

(* Each buffer is with the driver, but for the one the call holds.          *)
CountInv ==
    /\ ready => fd
    /\ at \in SetUp \ {"open"} => fd
    /\ ~ready /\ at \in {"idle", "failed", "open"} => ~fd /\ bufs = NoBuffers
    /\ ready /\ at = "idle" => shape = src.shape
    /\ bufs["OUTPUT"].n = IF at = "requeue" THEN OutputCount + 1 ELSE OutputCount
    /\ at = "request" => bufs[direction].n = 0
    /\ at \in {"request", "map", "queue"} /\ direction = "INPUT" => bufs["OUTPUT"].n = 0
    /\ Dma /\ at \in {"map", "queue"} => direction = "OUTPUT"
    /\ Dma => InputCount = IF at \in {"poll", "release"} /\ ~input_released THEN 1 ELSE 0
    /\ ~Dma => bufs["INPUT"].n = IF at = "send" THEN InputCount + 1 ELSE InputCount
    /\ ~Dma /\ at \in Waiting \cup {"requeue"} => input_released
    /\ at \in {"fetch", "requeue"} => input_released
    /\ at = "release" => ~input_released

(* The effect of the device's own steps, and of cleanup, on the two counts. *)
LEMMA Counts ==
    ASSUME device \in Device
    PROVE  /\ OutputCount \in Nat /\ InputCount \in Nat
           /\ DeviceEncodes \/ DeviceEmitsGarbage =>
                OutputCount' = OutputCount /\ InputCount' = InputCount
           /\ CleanedUp => OutputCount' = 0 /\ InputCount' = 0
<1>0. /\ device.inputs \in Seq(Buffer) /\ device.coding \in Seq(Buffer)
      /\ device.outputs \in Seq(Buffer) /\ device.done \in Nat /\ device.free \in Nat
      /\ device.blank \in Nat
      /\ Len(device.inputs) \in Nat /\ Len(device.outputs) \in Nat
  BY DEF Device
<1>1. OutputCount \in Nat /\ Queued \in Nat /\ InputCount \in Nat
  <2>1. Queued \in Nat
    BY <1>0 DEF Queued
  <2> QED
    BY <2>1, <1>0 DEF OutputCount, InputCount
<1>2. ASSUME DeviceReads
      PROVE  OutputCount' = OutputCount /\ InputCount' = InputCount
  <2>1. /\ device'.free = device.free /\ device'.outputs = device.outputs
        /\ device'.done = device.done + 1
        /\ \/ device'.blank = device.blank - 1 /\ device'.inputs = device.inputs
           \/ /\ device'.blank = device.blank
              /\ device.inputs # <<>> /\ device'.inputs = Tail(device.inputs)
    BY <1>2 DEF DeviceReads, Device
  <2>2. /\ Len(device.inputs) \in Nat
        /\ device.inputs # <<>> => Len(Tail(device.inputs)) = Len(device.inputs) - 1
    BY <1>0
  <2>3. OutputCount' = OutputCount
    BY <2>1 DEF OutputCount
  <2>4. Queued' = Queued - 1
    <3>0. device.blank \in Nat /\ Len(device.inputs) \in Nat
      BY <1>0
    <3>1. CASE device'.blank = device.blank - 1 /\ device'.inputs = device.inputs
      BY <3>0, <3>1 DEF Queued
    <3>2. CASE device'.blank = device.blank /\ Len(device'.inputs) = Len(device.inputs) - 1
      BY <3>0, <3>2 DEF Queued
    <3> QED
      BY <2>1, <2>2, <3>1, <3>2
  <2>5. device'.done = device.done + 1
    BY <2>1
  <2>6. InputCount' = InputCount
    BY <2>4, <2>5, <1>0, <1>1 DEF InputCount
  <2> QED
    BY <2>3, <2>6
<1>3. ASSUME DeviceFills
      PROVE  OutputCount' = OutputCount /\ InputCount' = InputCount
  <2>1. /\ device'.inputs = device.inputs /\ device'.done = device.done
        /\ device'.blank = device.blank /\ device'.free = device.free - 1
        /\ device'.outputs = Append(device.outputs, Head(device.coding))
    BY <1>3 DEF DeviceFills, Device
  <2>2. Len(device'.outputs) = Len(device.outputs) + 1 /\ Len(device.outputs) \in Nat
    BY <1>3, <2>1, <1>0 DEF DeviceFills
  <2>3. InputCount' = InputCount
    BY <2>1 DEF InputCount, Queued
  <2>4. Len(device.outputs) \in Nat /\ device.free \in Nat /\ device'.free = device.free - 1
    BY <2>1, <1>0
  <2>5. OutputCount' = OutputCount
    BY <2>2, <2>4 DEF OutputCount
  <2> QED
    BY <2>3, <2>5
<1>4. ASSUME DeviceEmitsGarbage
      PROVE  OutputCount' = OutputCount /\ InputCount' = InputCount
  <2>1. /\ device'.inputs = device.inputs /\ device'.done = device.done
        /\ device'.blank = device.blank /\ device'.free = device.free - 1
        /\ device'.outputs = Append(device.outputs, GarbageOutput)
    BY <1>4 DEF DeviceEmitsGarbage, Device
  <2>2. Len(device'.outputs) = Len(device.outputs) + 1 /\ Len(device.outputs) \in Nat
    BY <2>1, <1>0
  <2>3. InputCount' = InputCount
    BY <2>1 DEF InputCount, Queued
  <2>4. device'.free = device.free - 1
    BY <2>1
  <2>6. Len(device.outputs) \in Nat /\ device.free \in Nat
    BY <1>0
  <2>7. Len(device'.outputs) = Len(device.outputs) + 1
    BY <2>2
  <2>5. OutputCount' = OutputCount
    BY <2>4, <2>6, <2>7 DEF OutputCount
  <2> QED
    BY <2>3, <2>5
<1>5. ASSUME CleanedUp PROVE OutputCount' = 0 /\ InputCount' = 0
  <2>1. /\ device'.free = 0 /\ device'.done = 0 /\ device'.blank = 0
        /\ Len(device'.inputs) = 0 /\ Len(device'.outputs) = 0
    BY <1>5 DEF CleanedUp, NewDevice
  <2>2. OutputCount' = 0
    BY <2>1 DEF OutputCount
  <2>3. InputCount' = 0
    BY <2>1 DEF InputCount, Queued
  <2> QED
    BY <2>2, <2>3
<1> QED
  BY <1>1, <1>2, <1>3, <1>4, <1>5 DEF DeviceEncodes

(* And that of the encoder's requests.                                      *)
LEMMA RequestCounts ==
    ASSUME device \in Device
    PROVE  /\ QueueBuffer =>
                IF direction = "INPUT"
                THEN OutputCount' = OutputCount /\ InputCount' = InputCount + 1
                ELSE OutputCount' = OutputCount + 1 /\ InputCount' = InputCount
           /\ GrabInput =>
                /\ OutputCount' = OutputCount
                /\ InputCount' = IF Dma THEN InputCount ELSE InputCount - 1
           /\ SendInput =>
                /\ OutputCount' = OutputCount
                /\ InputCount' = IF Dma \/ data_set THEN InputCount + 1 ELSE InputCount
           /\ ReleaseInput => OutputCount' = OutputCount /\ InputCount' = InputCount - 1
           /\ FetchOutput => OutputCount' = OutputCount - 1 /\ InputCount' = InputCount
           /\ RequeueOutput => OutputCount' = OutputCount + 1 /\ InputCount' = InputCount
<1>0. /\ device.inputs \in Seq(Buffer) /\ device.outputs \in Seq(Buffer)
      /\ device.done \in Nat /\ device.free \in Nat /\ device.blank \in Nat
      /\ Len(device.inputs) \in Nat /\ Len(device.outputs) \in Nat
      /\ Queued \in Nat
  BY Counts DEF Device, Queued
<1>1. ASSUME QueueBuffer
      PROVE  IF direction = "INPUT"
             THEN OutputCount' = OutputCount /\ InputCount' = InputCount + 1
             ELSE OutputCount' = OutputCount + 1 /\ InputCount' = InputCount
  <2>1. CASE direction = "INPUT"
    <3>1. /\ device'.free = device.free /\ device'.outputs = device.outputs
          /\ device'.done = device.done /\ device'.inputs = device.inputs
          /\ device'.blank = device.blank + 1
      BY <1>1, <2>1 DEF QueueBuffer, Device
    <3>2. Queued' = Queued + 1
      BY <3>1, <1>0 DEF Queued
    <3>3. Queued \in Nat /\ device.done \in Nat /\ device'.done = device.done
      BY <3>1, <1>0
    <3>4. InputCount' = InputCount + 1
      BY <3>2, <3>3 DEF InputCount
    <3>5. OutputCount' = OutputCount
      BY <3>1 DEF OutputCount
    <3> QED
      BY <2>1, <3>4, <3>5
  <2>2. CASE direction # "INPUT"
    <3>1. /\ device'.free = device.free + 1 /\ device'.outputs = device.outputs
          /\ device'.done = device.done /\ device'.inputs = device.inputs
          /\ device'.blank = device.blank
      BY <1>1, <2>2 DEF QueueBuffer, Device
    <3> QED
      BY <2>2, <3>1, <1>0 DEF OutputCount, InputCount, Queued
  <2> QED
    BY <2>1, <2>2
<1>2. ASSUME GrabInput
      PROVE  /\ OutputCount' = OutputCount
             /\ InputCount' = IF Dma THEN InputCount ELSE InputCount - 1
  <2>1. /\ device'.free = device.free /\ device'.outputs = device.outputs
        /\ device'.blank = device.blank /\ device'.inputs = device.inputs
        /\ device'.done = IF Dma THEN device.done ELSE device.done - 1
    BY <1>2 DEF GrabInput, Device
  <2>2. OutputCount' = OutputCount /\ Queued' = Queued
    BY <2>1 DEF OutputCount, Queued
  <2>3. Queued \in Nat /\ device.done \in Nat
    BY <1>0
  <2> QED
    BY <2>1, <2>2, <2>3 DEF InputCount
<1>3. ASSUME SendInput
      PROVE  /\ OutputCount' = OutputCount
             /\ InputCount' = IF Dma \/ data_set THEN InputCount + 1 ELSE InputCount
  <2>1. CASE Dma \/ data_set
    <3>1. PICK now \in Timestamps : device' = [device EXCEPT !.inputs = Append(@, Sent(now))]
      BY <1>3, <2>1 DEF SendInput
    <3>2. /\ device'.free = device.free /\ device'.outputs = device.outputs
          /\ device'.done = device.done /\ device'.blank = device.blank
          /\ device'.inputs = Append(device.inputs, Sent(now))
      BY <3>1 DEF Device
    <3>3. Len(device'.inputs) = Len(device.inputs) + 1
      BY <3>2, <1>0
    <3>4. OutputCount' = OutputCount
      BY <3>2 DEF OutputCount
    <3>5. device'.done = device.done /\ device'.blank = device.blank
      BY <3>2
    <3>6. Queued' = Queued + 1
      BY <3>3, <3>5, <1>0 DEF Queued
    <3>7. Queued \in Nat /\ device.done \in Nat /\ device'.done = device.done
      BY <3>2, <1>0
    <3>8. InputCount' = InputCount + 1
      BY <3>6, <3>7 DEF InputCount
    <3> QED
      BY <2>1, <3>4, <3>8
  <2>2. CASE ~(Dma \/ data_set)
    BY <1>3, <2>2, <1>0 DEF SendInput, OutputCount, InputCount, Queued
  <2> QED
    BY <2>1, <2>2
<1>4. ASSUME ReleaseInput
      PROVE  OutputCount' = OutputCount /\ InputCount' = InputCount - 1
  BY <1>4, <1>0 DEF ReleaseInput, Device, OutputCount, InputCount, Queued
<1>5. ASSUME FetchOutput
      PROVE  OutputCount' = OutputCount - 1 /\ InputCount' = InputCount
  <2>1. /\ device'.free = device.free /\ device'.outputs = Tail(device.outputs)
        /\ device'.done = device.done /\ device'.inputs = device.inputs
        /\ device'.blank = device.blank
    BY <1>5 DEF FetchOutput, Device
  <2>2. Len(Tail(device.outputs)) = Len(device.outputs) - 1
    BY <1>5, <1>0 DEF FetchOutput
  <2> QED
    BY <2>1, <2>2, <1>0 DEF OutputCount, InputCount, Queued
<1>6. ASSUME RequeueOutput
      PROVE  OutputCount' = OutputCount + 1 /\ InputCount' = InputCount
  BY <1>6, <1>0 DEF RequeueOutput, Device, OutputCount, InputCount, Queued
<1> QED
  BY <1>1, <1>2, <1>3, <1>4, <1>5, <1>6

CallsInv == TypeOK /\ BuffersInv /\ CallInv

LEMMA CountStep == CallsInv /\ CountInv /\ [Next]_vars => CountInv'
<1> SUFFICES ASSUME CallsInv, CountInv, [Next]_vars PROVE CountInv'
  OBVIOUS
<1> USE DEF SetUp, Waiting, Transfer
<1>0. /\ device \in Device /\ OutputCount \in Nat /\ InputCount \in Nat
      /\ bufs \in Buffers /\ direction \in Directions
      /\ ready => at \in Transfer \cup {"idle"}
      /\ at \in Transfer => ready
      /\ at # "idle" => shape = src.shape
  BY Counts DEF CallsInv, TypeOK, Buffers, Directions, CallInv
<1>t. TypeOK' /\ CallInv' /\ bufs' \in Buffers
  BY TypeStep, CallStep, BuffersStep DEF CallsInv
<1>k. Dma' = Dma
  BY DEF Next, vars, useVars, Dma
<1>c. ASSUME CleanedUp, at' \in {"open", "failed"} PROVE CountInv'
  <2>1. /\ ~fd' /\ ~ready' /\ bufs' = NoBuffers
        /\ bufs'["OUTPUT"].n = 0 /\ bufs'["INPUT"].n = 0
    BY <1>c DEF CleanedUp, NoBuffers
  <2>2. OutputCount' = 0 /\ InputCount' = 0
    BY <1>c, <1>0, Counts
  <2> QED
    BY <1>c, <2>1, <2>2 DEF CountInv
<1>d. ASSUME UNCHANGED device PROVE OutputCount' = OutputCount /\ InputCount' = InputCount
  BY <1>d DEF OutputCount, InputCount, Queued
<1>1. ASSUME NEW f \in Frame, Compress(f) PROVE CountInv'
  <2>1. CASE NeedsPrepare(f)
    BY <1>1, <2>1, <1>c DEF Compress
  <2>2. CASE ~NeedsPrepare(f)
    <3>1. /\ at = "idle" /\ at' = IF ready THEN "begin" ELSE "failed"
          /\ UNCHANGED <<runVars, device, direction, input_released>>
      BY <1>1, <2>2 DEF Compress
    <3> QED
      BY <3>1, <1>d, <1>k DEF CountInv
  <2> QED
    BY <2>1, <2>2
<1>2. CASE OpenDevice
  <2>1. /\ at = "open" /\ at' = "configure" /\ fd'
        /\ UNCHANGED <<direction, input_released, shape, ready, bufs, src, device>>
    BY <1>2 DEF OpenDevice
  <2> QED
    BY <2>1, <1>0, <1>d, <1>k DEF CountInv
<1>3. CASE Configure
  <2>1. /\ at = "configure" /\ at' = "request"
        /\ UNCHANGED <<input_released, shape, ready, bufs, src, device, fd>>
        /\ bufs["INPUT"].n = 0 /\ bufs["OUTPUT"].n = 0 /\ direction' = "INPUT"
    BY <1>3 DEF Configure, CallsInv, BuffersInv, NoBuffers
  <2> QED
    BY <2>1, <1>0, <1>d, <1>k DEF CountInv
<1>4. ASSUME NEW count \in 1..MaxBuffers, RequestBuffers(count) PROVE CountInv'
  <2>0. /\ at = "request" /\ ~bufs[direction].array
        /\ UNCHANGED <<input_released, shape, ready, src, device, fd>>
    BY <1>4 DEF RequestBuffers, CallsInv, BuffersInv
  <2>1. CASE Dma /\ direction = "INPUT"
    <3>1. /\ bufs' = [bufs EXCEPT !.INPUT.n = count]
          /\ at' = "request" /\ direction' = "OUTPUT"
      BY <1>4, <2>1 DEF RequestBuffers, BuffersAreSetUp
    <3>2. bufs'["OUTPUT"] = bufs["OUTPUT"]
      BY <3>1, <1>0 DEF Buffers, Directions
    <3> QED
      BY <3>1, <3>2, <2>0, <2>1, <1>0, <1>d, <1>k DEF CountInv
  <2>2. CASE ~(Dma /\ direction = "INPUT")
    <3>1. /\ bufs' = [bufs EXCEPT ![direction] = [array |-> TRUE, n |-> 0]]
          /\ at' = "map" /\ direction' = direction
      BY <1>4, <2>2 DEF RequestBuffers
    <3>2. bufs[direction].n = 0
      BY <2>0, <2>2, <1>0 DEF CountInv, Directions
    <3>3. bufs'["INPUT"].n = bufs["INPUT"].n /\ bufs'["OUTPUT"].n = bufs["OUTPUT"].n
      BY <3>1, <3>2, <1>0 DEF Buffers, Directions
    <3> QED
      BY <3>1, <3>3, <2>0, <2>2, <1>0, <1>d, <1>k DEF CountInv, Directions
  <2> QED
    BY <2>1, <2>2
<1>5. CASE MapBuffer
  <2>1. /\ at = "map" /\ at' = "queue"
        /\ UNCHANGED <<direction, input_released, shape, ready, bufs, src, device, fd>>
    BY <1>5 DEF MapBuffer
  <2> QED
    BY <2>1, <1>0, <1>d, <1>k DEF CountInv
<1>6. CASE QueueBuffer
  <2>0. /\ at = "queue"
        /\ UNCHANGED <<input_released, shape, ready, src, fd>>
        /\ bufs' = [bufs EXCEPT ![direction].n = @ + 1]
        /\ at' \in {"map", "request", "stream"}
        /\ at' = "map" => direction' = direction
        /\ at' = "request" => direction = "INPUT" /\ direction' = "OUTPUT"
    BY <1>6 DEF QueueBuffer, BuffersAreSetUp
  <2>1. bufs["INPUT"].n \in Nat /\ bufs["OUTPUT"].n \in Nat
    BY <1>0, EncoderAssumption DEF Buffers, Directions
  <2>2. CASE direction = "INPUT"
    <3>1. bufs'["INPUT"].n = bufs["INPUT"].n + 1 /\ bufs'["OUTPUT"].n = bufs["OUTPUT"].n
      BY <2>0, <2>2, <1>0 DEF Buffers, Directions
    <3>2. OutputCount' = OutputCount /\ InputCount' = InputCount + 1
      BY <1>6, <2>2, <1>0, RequestCounts
    <3>3. ~Dma
      BY <2>0, <2>2 DEF CountInv
    <3> QED
      BY <3>1, <3>2, <3>3, <2>0, <2>1, <2>2, <1>0, <1>k DEF CountInv
  <2>3. CASE direction = "OUTPUT"
    <3>1. bufs'["OUTPUT"].n = bufs["OUTPUT"].n + 1 /\ bufs'["INPUT"].n = bufs["INPUT"].n
      BY <2>0, <2>3, <1>0 DEF Buffers, Directions
    <3>2. OutputCount' = OutputCount + 1 /\ InputCount' = InputCount
      BY <1>6, <2>3, <1>0, RequestCounts
    <3> QED
      BY <3>1, <3>2, <2>0, <2>1, <2>3, <1>0, <1>k DEF CountInv
  <2> QED
    BY <2>2, <2>3, <1>0 DEF Directions
<1>7. CASE StreamOn
  <2>1. /\ at = "stream" /\ at' = "begin"
        /\ UNCHANGED <<direction, input_released, shape, bufs, src, device, fd>>
    BY <1>7 DEF StreamOn
  <2>2. fd'
    BY <2>1 DEF CountInv
  <2> QED
    BY <2>1, <2>2, <1>0, <1>d, <1>k DEF CountInv
<1>8. CASE ReturnFailure \/ Poll
  <2>1. UNCHANGED <<direction, input_released, shape, ready, bufs, src, device, fd>>
    BY <1>8 DEF ReturnFailure, Poll
  <2>2. CASE ReturnFailure
    <3>1. at = "failed" /\ at' = "idle"
      BY <2>2 DEF ReturnFailure
    <3> QED
      BY <2>1, <3>1, <1>0, <1>d, <1>k DEF CountInv
  <2>3. CASE Poll
    <3>1. at = "poll" /\ at' = IF input_released THEN "fetch" ELSE "release"
      BY <2>3 DEF Poll
    <3> QED
      BY <2>1, <3>1, <1>0, <1>d, <1>k DEF CountInv
  <2> QED
    BY <1>8, <2>2, <2>3
<1>9. CASE GrabInput
  <2>1. /\ at = "begin" /\ at' = "send"
        /\ UNCHANGED <<direction, input_released, shape, ready, bufs, src, fd>>
    BY <1>9 DEF GrabInput
  <2>2. OutputCount' = OutputCount /\ InputCount' = IF Dma THEN InputCount ELSE InputCount - 1
    BY <1>9, <1>0, RequestCounts
  <2> QED
    BY <2>1, <2>2, <1>0, <1>k DEF CountInv
<1>10. CASE SendInput
  <2>1. at = "send" /\ UNCHANGED <<direction, shape, ready, bufs, src, fd>>
    BY <1>10 DEF SendInput
  <2>2. OutputCount' = OutputCount
    BY <1>10, <1>0, RequestCounts
  <2>3. InputCount' = IF Dma \/ data_set THEN InputCount + 1 ELSE InputCount
    BY <1>10, <1>0, RequestCounts
  <2>4. CASE Dma \/ data_set
    <3>1. at' = "poll" /\ input_released' = ~Dma
      BY <1>10, <2>4 DEF SendInput
    <3>2. CASE Dma
      <4>1. ~input_released' /\ InputCount' = InputCount + 1
        BY <3>1, <3>2, <2>3
      <4> QED
        BY <4>1, <3>1, <3>2, <2>1, <2>2, <1>0, <1>k DEF CountInv
    <3>3. CASE ~Dma
      <4>1. input_released' /\ InputCount' = InputCount + 1
        BY <3>1, <3>3, <2>3, <2>4
      <4> QED
        BY <4>1, <3>1, <3>3, <2>1, <2>2, <1>0, <1>k DEF CountInv
    <3> QED
      BY <3>2, <3>3
  <2>5. CASE ~(Dma \/ data_set)
    <3>1. UNCHANGED <<at, input_released>>
      BY <1>10, <2>5 DEF SendInput
    <3> QED
      BY <3>1, <2>1, <2>2, <2>3, <2>5, <1>0, <1>k DEF CountInv
  <2> QED
    BY <2>4, <2>5
<1>11. CASE ReleaseInput
  <2>1. /\ at = "release" /\ at' = "fetch" /\ input_released'
        /\ UNCHANGED <<direction, shape, ready, bufs, src, fd>>
    BY <1>11 DEF ReleaseInput
  <2>2. OutputCount' = OutputCount /\ InputCount' = InputCount - 1
    BY <1>11, <1>0, RequestCounts
  <2> QED
    BY <2>1, <2>2, <1>0, <1>k DEF CountInv
<1>12. CASE FetchOutput
  <2>1. /\ at = "fetch" /\ at' = "requeue"
        /\ UNCHANGED <<direction, input_released, shape, ready, bufs, src, fd>>
    BY <1>12 DEF FetchOutput
  <2>2. OutputCount' = OutputCount - 1 /\ InputCount' = InputCount
    BY <1>12, <1>0, RequestCounts
  <2> QED
    BY <2>1, <2>2, <1>0, <1>k DEF CountInv
<1>13. CASE RequeueOutput
  <2>1. /\ at = "requeue" /\ at' \in {"poll", "idle"}
        /\ UNCHANGED <<direction, input_released, shape, ready, bufs, src, fd>>
    BY <1>13 DEF RequeueOutput
  <2>2. OutputCount' = OutputCount + 1 /\ InputCount' = InputCount
    BY <1>13, <1>0, RequestCounts
  <2> QED
    BY <2>1, <2>2, <1>0, <1>k DEF CountInv
<1>14. CASE PrepareFails \/ CompressFails
  BY <1>14, <1>c DEF PrepareFails, CompressFails
<1>15. ASSUME UNCHANGED <<at, direction, input_released, shape, ready, bufs, src, fd>>,
              OutputCount' = OutputCount, InputCount' = InputCount
       PROVE  CountInv'
  BY <1>15, <1>k DEF CountInv
<1>16. CASE DeviceEncodes \/ DeviceEmitsGarbage
  <2>1. UNCHANGED <<at, direction, input_released, shape, ready, bufs, src, fd>>
    BY <1>16 DEF DeviceEncodes, DeviceReads, DeviceFills, DeviceEmitsGarbage
  <2> QED
    BY <1>16, <2>1, <1>0, <1>15, Counts
<1>17. CASE UNCHANGED vars
  BY <1>17, <1>d, <1>15 DEF vars
<1> QED
  BY <1>1, <1>2, <1>3, <1>4, <1>5, <1>6, <1>7, <1>8, <1>9, <1>10, <1>11, <1>12, <1>13,
     <1>14, <1>16, <1>17 DEF Next, EncoderProceeds
-----------------------------------------------------------------------------
(* What the device holds, as one queue.                                     *)

(* What the device gives back before the frame: the garbage, or the frame   *)
(* of the call before where the driver cannot tell them apart.              *)
Older(output) ==
    \/ output = GarbageOutput
    \/ ~asserts /\ output.picture = src.number - 1

(* The device holds two frames at most, that of the call last, and when it  *)
(* is waited for nothing but an older one can come before it.               *)
HeldInv ==
    /\ device.fresh => device.outputs = <<>>
    /\ ~ready => Held = <<>>
    /\ ready /\ at = "idle" =>
         /\ ~device.fresh
         /\ \/ Held = <<>>
            \/ ~asserts /\ Len(Held) = 1 /\ Held[1].picture = src.number
    /\ at \in {"begin", "send"} =>
         Held = <<>> \/ (~device.fresh /\ Len(Held) = 1 /\ Older(Held[1]))
    /\ at \in Waiting =>
         \/ Len(Held) = 1 /\ Held[1] = Sent(ts)
         \/ Len(Held) = 2 /\ Held[2] = Sent(ts) /\ Older(Held[1]) /\ ~device.fresh
    /\ at \in {"release", "fetch"} => device.outputs # <<>>
    /\ at = "requeue" =>
         /\ ~device.fresh
         /\ \/ dest = NoPicture /\ Len(Held) = 1 /\ Held[1] = Sent(ts)
            \/ dest = src.number /\ Held = <<>>
            \/ /\ ~asserts /\ dest \in {src.number - 1, Garbage} \ {NoPicture}
               /\ Len(Held) = 1 /\ Held[1].picture = src.number

(* Moving the head of one queue to the end of the one before it, and the    *)
(* two ends of a queue of queues.                                           *)
LEMMA ConcatMoves ==
    ASSUME NEW s \in Seq(Buffer), NEW t \in Seq(Buffer), t # <<>>
    PROVE  /\ s \o t \in Seq(Buffer)
           /\ Append(s, Head(t)) \o Tail(t) = s \o t
<1>1. Head(t) \in Buffer /\ Tail(t) \in Seq(Buffer)
  BY HeadTailProperties
<1>2. <<Head(t)>> \o Tail(t) = t
  <2>1. <<Head(t)>> \in Seq(Buffer) /\ <<Head(t)>> \o Tail(t) \in Seq(Buffer)
    BY <1>1
  <2>2. /\ Len(<<Head(t)>> \o Tail(t)) = Len(t)
        /\ \A i \in 1..Len(t) : (<<Head(t)>> \o Tail(t))[i] = t[i]
    BY <1>1
  <2> QED
    BY <2>1, <2>2, SeqEqual
<1>3. Append(s, Head(t)) = s \o <<Head(t)>>
  BY <1>1, AppendIsConcat
<1> QED
  BY <1>1, <1>2, <1>3, ConcatAssociative

LEMMA MoveBefore ==
    ASSUME NEW s \in Seq(Buffer), NEW t \in Seq(Buffer), NEW u \in Seq(Buffer), t # <<>>
    PROVE  Append(s, Head(t)) \o (Tail(t) \o u) = s \o (t \o u)
<1> DEFINE a == Append(s, Head(t))
           b == Tail(t)
<1>1. a \in Seq(Buffer) /\ b \in Seq(Buffer)
  BY HeadTailProperties
<1>2. a \o b = s \o t
  BY ConcatMoves
<1> HIDE DEF a, b
<1>3. (a \o b) \o u = a \o (b \o u)
  BY <1>1, ConcatAssociative, SMTT(40)
<1>4. (s \o t) \o u = s \o (t \o u)
  BY ConcatAssociative
<1>5. a \o (b \o u) = s \o (t \o u)
  BY <1>2, <1>3, <1>4, Zenon
<1> QED
  BY <1>5 DEF a, b

LEMMA AppendAfter ==
    ASSUME NEW s \in Seq(Buffer), NEW t \in Seq(Buffer), NEW e \in Buffer
    PROVE  s \o Append(t, e) = Append(s \o t, e)
<1>1. <<e>> \in Seq(Buffer) /\ s \o t \in Seq(Buffer)
  OBVIOUS
<1>2. Append(t, e) = t \o <<e>> /\ Append(s \o t, e) = (s \o t) \o <<e>>
  BY <1>1, AppendIsConcat
<1> QED
  BY <1>1, <1>2, ConcatAssociative

LEMMA ConcatEnds ==
    ASSUME NEW s \in Seq(Buffer), NEW t \in Seq(Buffer), NEW e \in Buffer
    PROVE  /\ s # <<>> => /\ s \o t # <<>> /\ Head(s) = (s \o t)[1]
                          /\ Tail(s) \o t = Tail(s \o t)
           /\ <<>> \o t = t
           /\ Len(<<e>> \o t) = Len(t) + 1 /\ (<<e>> \o t)[1] = e
           /\ \A i \in 1..Len(t) : (<<e>> \o t)[i + 1] = t[i]
<1>2. ASSUME s # <<>>
      PROVE  /\ s \o t # <<>> /\ Head(s) = (s \o t)[1]
             /\ Tail(s) \o t = Tail(s \o t)
  <2>1. /\ Len(s) \in Nat \ {0} /\ s \o t \in Seq(Buffer) /\ Tail(s) \in Seq(Buffer)
        /\ Len(s \o t) = Len(s) + Len(t) /\ Len(t) \in Nat
    BY <1>2
  <2>2. s \o t # <<>>
    BY <2>1
  <2>3. Head(s) = (s \o t)[1]
    BY <1>2, <2>1
  <2>4. /\ Tail(s) \o t \in Seq(Buffer) /\ Tail(s \o t) \in Seq(Buffer)
        /\ Len(Tail(s) \o t) = Len(s) + Len(t) - 1
        /\ Len(Tail(s \o t)) = Len(s) + Len(t) - 1
    BY <1>2, <2>1, <2>2
  <2>5. ASSUME NEW i \in 1..Len(s) + Len(t) - 1
        PROVE  (Tail(s) \o t)[i] = Tail(s \o t)[i]
    BY <1>2, <2>1, <2>2
  <2>6. Tail(s) \o t = Tail(s \o t)
    BY <2>1, <2>4, <2>5, SeqEqual
  <2> QED
    BY <2>2, <2>3, <2>6
<1>3. <<>> \o t = t
  BY ConcatEmptySeq
<1>4. /\ Len(<<e>> \o t) = Len(t) + 1 /\ (<<e>> \o t)[1] = e
      /\ \A i \in 1..Len(t) : (<<e>> \o t)[i + 1] = t[i]
  <2>1. <<e>> \in Seq(Buffer) /\ Len(<<e>>) = 1 /\ <<e>>[1] = e /\ Len(t) \in Nat
    OBVIOUS
  <2> QED
    BY <2>1
<1> QED
  BY <1>2, <1>3, <1>4

Frames == device.coding \o device.inputs

LEMMA HeldType ==
    ASSUME device \in Device
    PROVE  /\ device.inputs \in Seq(Buffer) /\ device.coding \in Seq(Buffer)
           /\ device.outputs \in Seq(Buffer) /\ Frames \in Seq(Buffer)
           /\ Held \in Seq(Buffer) /\ Held = device.outputs \o Frames
           /\ Len(Held) \in Nat /\ (Held = <<>> <=> Len(Held) = 0)
           /\ \A i \in 1..Len(Held) : Held[i].picture \in Int /\ Held[i].ts \in Nat
           /\ device.outputs # <<>> => Held # <<>> /\ Head(device.outputs) = Held[1]
<1>0. /\ device.inputs \in Seq(Buffer) /\ device.coding \in Seq(Buffer)
      /\ device.outputs \in Seq(Buffer) /\ Frames \in Seq(Buffer)
      /\ Held = device.outputs \o Frames
  BY DEF Device, Frames, Held
<1>1. Held \in Seq(Buffer)
  BY <1>0
<1>2. \A b \in Buffer : b.picture \in Int /\ b.ts \in Nat
  BY EncoderAssumption DEF Buffer, Garbage
<1>3. GarbageOutput \in Buffer
  BY EncoderAssumption DEF GarbageOutput, Buffer, Garbage
<1>4. device.outputs # <<>> => Held # <<>> /\ Head(device.outputs) = Held[1]
  BY <1>0, <1>3, ConcatEnds
<1> QED
  BY <1>0, <1>1, <1>2, <1>4

(* The device's steps: only garbage comes to what it holds, before the rest. *)
LEMMA DeviceHeld ==
    ASSUME device \in Device
    PROVE  /\ DeviceReads \/ DeviceFills => Held' = Held
           /\ DeviceEmitsGarbage /\ device.outputs = <<>> =>
                /\ Len(Held') = Len(Held) + 1 /\ Held'[1] = GarbageOutput
                /\ \A i \in 1..Len(Held) : Held'[i + 1] = Held[i]
<1>0. /\ device.inputs \in Seq(Buffer) /\ device.coding \in Seq(Buffer)
      /\ device.outputs \in Seq(Buffer) /\ Frames \in Seq(Buffer)
  BY HeldType
<1>1. ASSUME DeviceReads PROVE Held' = Held
  <2>1. CASE /\ device'.inputs = device.inputs /\ device'.coding = device.coding
             /\ device'.outputs = device.outputs
    BY <2>1 DEF Held
  <2>2. CASE /\ device.inputs # <<>>
             /\ device'.inputs = Tail(device.inputs)
             /\ device'.coding = Append(device.coding, Head(device.inputs))
             /\ device'.outputs = device.outputs
    <3>0. device.inputs \in Seq(Buffer) /\ device.coding \in Seq(Buffer) /\ device.inputs # <<>>
      BY <2>2, <1>0
    <3>1. Append(device.coding, Head(device.inputs)) \o Tail(device.inputs)
            = device.coding \o device.inputs
      BY <3>0, ConcatMoves, Zenon
    <3> QED
      BY <2>2, <3>1, Zenon DEF Held
  <2> QED
    BY <1>1, <2>1, <2>2 DEF DeviceReads, Device
<1>2. ASSUME DeviceFills PROVE Held' = Held
  <2>1. /\ device.coding # <<>> /\ device'.coding = Tail(device.coding)
        /\ device'.inputs = device.inputs
        /\ device'.outputs = Append(device.outputs, Head(device.coding))
    BY <1>2 DEF DeviceFills, Device
  <2>2. Append(device.outputs, Head(device.coding)) \o (Tail(device.coding) \o device.inputs)
          = device.outputs \o (device.coding \o device.inputs)
    BY <2>1, <1>0, MoveBefore, Zenon
  <2> QED
    BY <2>1, <2>2, Zenon DEF Held
<1>3. ASSUME DeviceEmitsGarbage, device.outputs = <<>>
      PROVE  /\ Len(Held') = Len(Held) + 1 /\ Held'[1] = GarbageOutput
             /\ \A i \in 1..Len(Held) : Held'[i + 1] = Held[i]
  <2>1. /\ GarbageOutput \in Buffer /\ device'.coding = device.coding
        /\ device'.inputs = device.inputs /\ device'.outputs = <<GarbageOutput>>
    BY <1>3, EncoderAssumption DEF DeviceEmitsGarbage, Device, GarbageOutput, Buffer, Garbage
  <2>2. Held' = <<GarbageOutput>> \o Frames
    BY <2>1 DEF Held, Frames
  <2>3. Held = Frames
    BY <1>0, <1>3, <2>1, ConcatEnds DEF Held, Frames
  <2> QED
    BY <1>0, <2>1, <2>2, <2>3, ConcatEnds
<1> QED
  BY <1>1, <1>2, <1>3

(* The encoder's: it sends to the end, and fetches from the front.          *)
LEMMA RequestHeld ==
    ASSUME device \in Device
    PROVE  /\ UNCHANGED device \/ QueueBuffer \/ GrabInput \/ ReleaseInput \/ RequeueOutput
                => Held' = Held
           /\ \A now \in Timestamps :
                /\ src.number \in 0..MaxCalls
                /\ device' = [device EXCEPT !.inputs = Append(@, Sent(now))]
                => Held' = Append(Held, Sent(now)) /\ Sent(now) \in Buffer
           /\ FetchOutput => Held # <<>> /\ Held' = Tail(Held)
<1>0. /\ device.inputs \in Seq(Buffer) /\ device.coding \in Seq(Buffer)
      /\ device.outputs \in Seq(Buffer) /\ Frames \in Seq(Buffer)
      /\ Held = device.outputs \o Frames
  BY HeldType
<1>1. ASSUME UNCHANGED device \/ QueueBuffer \/ GrabInput \/ ReleaseInput \/ RequeueOutput
      PROVE  Held' = Held
  <2>1. /\ device'.inputs = device.inputs /\ device'.coding = device.coding
        /\ device'.outputs = device.outputs
    BY <1>1 DEF QueueBuffer, GrabInput, ReleaseInput, RequeueOutput, Device
  <2> QED
    BY <2>1 DEF Held
<1>2. ASSUME NEW now \in Timestamps, src.number \in 0..MaxCalls,
             device' = [device EXCEPT !.inputs = Append(@, Sent(now))]
      PROVE  Held' = Append(Held, Sent(now)) /\ Sent(now) \in Buffer
  <2>1. Sent(now) \in Buffer
    BY <1>2, EncoderAssumption DEF Sent, Buffer, Timestamps, Garbage
  <2>2. /\ device'.inputs = Append(device.inputs, Sent(now))
        /\ device'.coding = device.coding /\ device'.outputs = device.outputs
    BY <1>2 DEF Device
  <2>5. device.coding \o Append(device.inputs, Sent(now)) = Append(Frames, Sent(now))
    BY <2>1, <1>0, AppendAfter, Zenon DEF Frames
  <2>3. device'.coding \o device'.inputs = Append(Frames, Sent(now))
    BY <2>2, <2>5, Zenon
  <2>4. device.outputs \o Append(Frames, Sent(now)) = Append(Held, Sent(now))
    BY <2>1, <1>0, AppendAfter, Zenon
  <2> QED
    BY <2>1, <2>2, <2>3, <2>4, Zenon DEF Held
<1>3. ASSUME FetchOutput PROVE Held # <<>> /\ Held' = Tail(Held)
  <2>1. /\ device.outputs # <<>> /\ device'.outputs = Tail(device.outputs)
        /\ device'.coding = device.coding /\ device'.inputs = device.inputs
    BY <1>3 DEF FetchOutput, Device
  <2>2. Head(device.outputs) \in Buffer
    BY <2>1, <1>0
  <2>3. Tail(device.outputs) \o Frames = Tail(device.outputs \o Frames)
    BY <2>1, <2>2, <1>0, ConcatEnds, Zenon
  <2>4. Held # <<>>
    BY <2>1, HeldType
  <2> QED
    BY <2>1, <2>3, <2>4, <1>0 DEF Held, Frames
<1> QED
  BY <1>1, <1>2, <1>3

(* A step leaves less than two frames of each call, and the older first.     *)
LEMMA HeldStep == CallsInv /\ HeldInv /\ [Next]_vars => HeldInv'
<1> SUFFICES ASSUME CallsInv, HeldInv, [Next]_vars PROVE HeldInv'
  OBVIOUS
<1> USE DEF SetUp, Waiting, Transfer
<1>0. /\ device \in Device /\ src.number \in 0..MaxCalls /\ asserts' = asserts
      /\ at # "idle" \/ ready => src.number \in 1..MaxCalls
      /\ at \in Transfer => ready
      /\ at \in SetUp \cup {"failed"} => ~ready
      /\ at \in SetUp \cup Transfer \cup {"idle", "failed"}
      /\ ready \in BOOLEAN
      /\ at \in Waiting => dest = NoPicture
      /\ asserts /\ at \in Waiting \cup {"requeue"} => ts = src.number
  BY EncoderAssumption
     DEF CallsInv, TypeOK, CallInv, Frame, NoFrame, Next, vars, useVars
<1>h. /\ Len(Held) \in Nat /\ Held \in Seq(Buffer)
      /\ \A i \in 1..Len(Held) : Held[i].picture \in Int /\ Held[i].ts \in Nat
      /\ device.outputs # <<>> => Held # <<>> /\ Head(device.outputs) = Held[1]
      /\ Held = <<>> <=> Len(Held) = 0
  BY <1>0, HeldType
<1>n. Held' = <<>> <=> Len(Held') = 0
  <2>1. device' \in Device
    BY DeviceTypeStep DEF CallsInv
  <2>2. Held' \in Seq(Buffer)
    BY <2>1 DEF Held, Device
  <2> QED
    BY <2>2
<1>c. ASSUME CleanedUp, at' \in {"open", "failed"} PROVE HeldInv'
  <2>1. /\ device'.inputs = <<>> /\ device'.coding = <<>> /\ device'.outputs = <<>>
        /\ ~ready'
    BY <1>c DEF CleanedUp, NewDevice
  <2>2. Held' = <<>>
    BY <2>1 DEF Held
  <2> QED
    BY <1>c, <2>1, <2>2 DEF HeldInv
<1>1. ASSUME NEW f \in Frame, Compress(f) PROVE HeldInv'
  <2>1. CASE NeedsPrepare(f)
    BY <1>1, <2>1, <1>c DEF Compress
  <2>2. CASE ~NeedsPrepare(f)
    <3>1. /\ at = "idle" /\ at' = IF ready THEN "begin" ELSE "failed"
          /\ UNCHANGED <<ready, device>> /\ src'.number = src.number + 1
      BY <1>1, <2>2 DEF Compress
    <3>2. Held' = Held
      BY <3>1 DEF Held
    <3>3. Len(Held) = 1 /\ Held[1].picture = src.number /\ ~asserts => Older(Held[1])'
      BY <3>1, <3>2, <1>0 DEF Older
    <3> QED
      BY <3>1, <3>2, <3>3, <1>0, <1>h DEF HeldInv
  <2> QED
    BY <2>1, <2>2
<1>2. ASSUME at \in SetUp, at' \in SetUp, Held' = Held, ~ready',
             device'.outputs = device.outputs, device'.fresh = device.fresh
      PROVE  HeldInv'
  BY <1>2, <1>0 DEF HeldInv
<1>3. CASE OpenDevice \/ Configure \/ MapBuffer
  BY <1>3, <1>2, <1>0, RequestHeld DEF OpenDevice, Configure, MapBuffer
<1>4. ASSUME NEW count \in 1..MaxBuffers, RequestBuffers(count) PROVE HeldInv'
  BY <1>4, <1>2, <1>0, RequestHeld DEF RequestBuffers, BuffersAreSetUp
<1>5. CASE QueueBuffer
  <2>1. /\ Held' = Held /\ device'.outputs = device.outputs
        /\ device'.fresh = device.fresh
    BY <1>5, <1>0, RequestHeld DEF QueueBuffer, Device
  <2>2. at \in SetUp /\ at' \in SetUp /\ ready' = ready
    BY <1>5 DEF QueueBuffer, BuffersAreSetUp
  <2> QED
    BY <2>1, <2>2, <1>2, <1>0
<1>6. CASE StreamOn
  <2>1. at = "stream" /\ at' = "begin" /\ UNCHANGED device /\ ready'
    BY <1>6 DEF StreamOn
  <2>2. Held' = Held /\ Held = <<>>
    BY <2>1, <1>0, RequestHeld DEF HeldInv
  <2> QED
    BY <2>1, <2>2 DEF HeldInv
<1>7. CASE ReturnFailure
  <2>1. at = "failed" /\ at' = "idle" /\ UNCHANGED <<device, ready>>
    BY <1>7 DEF ReturnFailure
  <2>2. Held' = Held
    BY <2>1, <1>0, RequestHeld
  <2> QED
    BY <2>1, <2>2, <1>0 DEF HeldInv
<1>8. CASE GrabInput
  <2>1. /\ at = "begin" /\ at' = "send" /\ UNCHANGED <<src, ready>>
        /\ device'.outputs = device.outputs /\ device'.fresh = device.fresh
    BY <1>8, <1>0 DEF GrabInput, Device
  <2>2. Held' = Held
    BY <1>8, <1>0, RequestHeld
  <2> QED
    BY <2>1, <2>2, <1>0 DEF HeldInv, Older
<1>9. CASE SendInput
  <2>0. at = "send" /\ UNCHANGED <<src, dest, ready>>
    BY <1>9 DEF SendInput
  <2>1. CASE Dma \/ data_set
    <3>1. PICK now \in Timestamps : ts' = now /\ device' = [device EXCEPT !.inputs = Append(@, Sent(now))]
      BY <1>9, <2>1 DEF SendInput
    <3>2. /\ Len(Held') = Len(Held) + 1 /\ Held'[Len(Held) + 1] = Sent(now)
          /\ \A i \in 1..Len(Held) : Held'[i] = Held[i]
      <4>1. Held' = Append(Held, Sent(now)) /\ Sent(now) \in Buffer
        BY <3>1, <1>0, RequestHeld
      <4> QED
        BY <4>1, <1>h, AppendProperties
    <3>3. /\ device'.outputs = device.outputs /\ device'.fresh = device.fresh
          /\ at' = "poll"
      BY <1>9, <2>1, <3>1, <1>0 DEF SendInput, Device
    <3>4. Sent(ts)' = Sent(now)
      BY <3>1, <2>0 DEF Sent
    <3>5. CASE Held = <<>>
      <4>1. Len(Held') = 1 /\ Held'[1] = Sent(ts)'
        BY <3>2, <3>4, <3>5, <1>h
      <4> QED
        BY <4>1, <3>3, <2>0, <1>0 DEF HeldInv
    <3>6. CASE ~device.fresh /\ Len(Held) = 1 /\ Older(Held[1])
      <4>1. Len(Held') = 2 /\ Held'[2] = Sent(ts)' /\ Held'[1] = Held[1]
        BY <3>2, <3>4, <3>6, <1>h
      <4>2. Older(Held[1])'
        BY <4>1, <3>6, <2>0, <1>0 DEF Older
      <4> QED
        BY <4>1, <4>2, <3>3, <3>6, <2>0, <1>0 DEF HeldInv
    <3> QED
      BY <2>0, <3>5, <3>6 DEF HeldInv
  <2>2. CASE ~(Dma \/ data_set)
    <3>1. UNCHANGED <<at, device, ready, src>>
      BY <1>9, <2>2 DEF SendInput
    <3>2. Held' = Held
      BY <3>1, <1>0, RequestHeld
    <3> QED
      BY <3>1, <3>2, <2>0, <1>0 DEF HeldInv, Older
  <2> QED
    BY <2>1, <2>2
<1>10. CASE Poll \/ ReleaseInput
  <2>1. /\ at \in Waiting /\ at' \in Waiting /\ UNCHANGED <<src, ts, ready>>
        /\ device'.outputs = device.outputs /\ device'.fresh = device.fresh
        /\ device.outputs # <<>>
    BY <1>10, <1>0 DEF Poll, ReleaseInput, Device, HeldInv
  <2>2. Held' = Held
    BY <1>10, <1>0, RequestHeld DEF Poll
  <2> QED
    BY <2>1, <2>2, <1>0 DEF HeldInv, Older, Sent
<1>11. CASE FetchOutput
  <2>1. /\ at = "fetch" /\ at' = "requeue" /\ UNCHANGED <<src, ts, ready>>
        /\ device.outputs # <<>> /\ device'.fresh = device.fresh
        /\ dest = NoPicture
        /\ dest' = IF IsOutputOfInput(Held[1]) THEN Held[1].picture ELSE dest
    BY <1>11, <1>0, <1>h DEF FetchOutput, Device
  <2>2. /\ Held # <<>> /\ Len(Held') = Len(Held) - 1
        /\ \A i \in 1..Len(Held) - 1 : Held'[i] = Held[i + 1]
    <3>1. Held # <<>> /\ Held' = Tail(Held)
      BY <1>11, <1>0, RequestHeld
    <3> QED
      BY <3>1, <1>h
  <2>3. ~device'.fresh
    BY <2>1 DEF HeldInv
  <2>4. Sent(ts)' = Sent(ts) /\ Sent(ts).picture = src.number /\ Sent(ts).ts = ts
    BY <2>1 DEF Sent
  <2>5. CASE Len(Held) = 1 /\ Held[1] = Sent(ts)
    <3>1. dest' = src.number
      BY <2>1, <2>4, <2>5 DEF IsOutputOfInput
    <3>2. Held' = <<>>
      BY <2>2, <2>5, <1>n
    <3> QED
      BY <2>1, <2>3, <3>1, <3>2, <1>0 DEF HeldInv
  <2>6. CASE Len(Held) = 2 /\ Held[2] = Sent(ts) /\ Older(Held[1])
    <3>1. Len(Held') = 1 /\ Held'[1] = Sent(ts)
      BY <2>2, <2>6
    <3>2. \/ dest' = NoPicture
          \/ ~asserts /\ dest' \in {src.number - 1, Garbage} \ {NoPicture}
      <4>1. CASE ~IsOutputOfInput(Held[1])
        BY <2>1, <4>1
      <4>2. CASE IsOutputOfInput(Held[1])
        <5>1. ~asserts
          BY <4>2, <2>1, <2>6, <1>0 DEF IsOutputOfInput, Older, GarbageOutput
        <5>2. Held[1].picture \in {src.number - 1, Garbage}
          BY <2>6 DEF Older, GarbageOutput
        <5> QED
          BY <5>1, <5>2, <4>2, <2>1
      <4> QED
        BY <4>1, <4>2
    <3>3. device.outputs # <<>> /\ ready'
      BY <2>1, <1>0
    <3> QED
      BY <2>1, <2>3, <2>4, <3>1, <3>2, <3>3, <1>0 DEF HeldInv, NoPicture
  <2> QED
    BY <2>1, <2>5, <2>6 DEF HeldInv
<1>12. CASE RequeueOutput
  <2>1. /\ at = "requeue" /\ UNCHANGED <<src, dest, ts, ready>>
        /\ at' = IF dest = NoPicture THEN "poll" ELSE "idle"
        /\ device'.outputs = device.outputs /\ device'.fresh = device.fresh
    BY <1>12, <1>0 DEF RequeueOutput, Device
  <2>2. Held' = Held
    BY <1>12, <1>0, RequestHeld
  <2>3. ready /\ ready' /\ Sent(ts)' = Sent(ts) /\ src.number # NoPicture
    BY <2>1, <1>0 DEF Sent, NoPicture
  <2>4. CASE dest = NoPicture
    BY <2>1, <2>2, <2>3, <2>4, <1>0 DEF HeldInv
  <2>5. CASE dest # NoPicture
    BY <2>1, <2>2, <2>3, <2>5, <1>0 DEF HeldInv
  <2> QED
    BY <2>4, <2>5
<1>13. CASE PrepareFails \/ CompressFails
  BY <1>13, <1>c DEF PrepareFails, CompressFails
<1>14. CASE DeviceEncodes
  <2>1. /\ UNCHANGED <<at, dest, ts, ready, src>>
        /\ device'.fresh => device.fresh
        /\ device'.fresh \/ device'.outputs = <<>> => device'.outputs = device.outputs
    <3>1. CASE DeviceReads
      BY <3>1, <1>0 DEF DeviceReads, Device
    <3>2. CASE DeviceFills
      <4>1. /\ Head(device.coding) \in Buffer /\ device.outputs \in Seq(Buffer)
            /\ device'.outputs = Append(device.outputs, Head(device.coding)) /\ ~device'.fresh
        BY <3>2, <1>0 DEF DeviceFills, Device
      <4>2. device'.outputs # <<>>
        BY <4>1
      <4> QED
        BY <3>2, <4>1, <4>2 DEF DeviceFills
    <3> QED
      BY <1>14, <3>1, <3>2 DEF DeviceEncodes
  <2>2. Held' = Held
    BY <1>14, <1>0, DeviceHeld DEF DeviceEncodes
  <2>3. Sent(ts)' = Sent(ts) /\ \A b : Older(b)' = Older(b)
    BY <2>1, <1>0 DEF Sent, Older
  <2> QED
    BY <2>1, <2>2, <2>3, <1>0 DEF HeldInv, NoPicture, Older
<1>15. CASE DeviceEmitsGarbage
  <2>1. /\ UNCHANGED <<at, dest, ts, ready, src>> /\ ready
        /\ device.fresh /\ ~device'.fresh
        /\ device'.outputs = Append(device.outputs, GarbageOutput)
    BY <1>15, <1>0 DEF DeviceEmitsGarbage, Device
  <2>2. device.outputs = <<>> /\ device'.outputs # <<>>
    <3>1. device.outputs = <<>>
      BY <2>1 DEF HeldInv
    <3> QED
      BY <3>1, <2>1
  <2>3. /\ Len(Held') = Len(Held) + 1 /\ Held'[1] = GarbageOutput
        /\ \A i \in 1..Len(Held) : Held'[i + 1] = Held[i]
    BY <1>15, <2>2, <1>0, DeviceHeld
  <2>4. Sent(ts)' = Sent(ts) /\ Older(Held[1])'
    BY <2>1, <2>3 DEF Sent, Older
  <2>5. at \notin {"idle", "requeue", "release", "fetch"}
    BY <2>1, <2>2 DEF HeldInv
  <2>6. CASE at \in {"begin", "send"}
    <3>1. Len(Held') = 1
      BY <2>1, <2>3, <2>6, <1>h DEF HeldInv
    <3> QED
      BY <3>1, <2>1, <2>2, <2>4, <2>6, <1>0 DEF HeldInv
  <2>7. CASE at = "poll"
    <3>1. Len(Held) = 1 /\ Held[1] = Sent(ts)
      BY <2>1, <2>7 DEF HeldInv
    <3>2. Len(Held') = 2 /\ Held'[2] = Sent(ts)'
      BY <2>3, <2>4, <3>1
    <3> QED
      BY <3>2, <2>1, <2>2, <2>4, <2>7, <1>0 DEF HeldInv
  <2> QED
    BY <2>1, <2>5, <2>6, <2>7, <1>0
<1>16. CASE UNCHANGED vars
  <2>1. UNCHANGED <<at, dest, ts, ready, device, src>>
    BY <1>16 DEF vars
  <2>2. Held' = Held /\ Sent(ts)' = Sent(ts) /\ \A b : Older(b)' = Older(b)
    BY <2>1, <1>0 DEF Held, Sent, Older
  <2> QED
    BY <2>1, <2>2, <1>0 DEF HeldInv, NoPicture, Older
<1> QED
  BY <1>1, <1>3, <1>4, <1>5, <1>6, <1>7, <1>8, <1>9, <1>10, <1>11, <1>12, <1>13,
     <1>14, <1>15, <1>16 DEF Next, EncoderProceeds


-----------------------------------------------------------------------------
(* An encoder that is ready was granted buffers, of each direction it maps  *)
(* one at least.                                                            *)

GrantInv ==
    /\ ~Dma /\ at \in {"request", "map", "queue"} /\ direction = "OUTPUT" => bufs["INPUT"].n > 0
    /\ ready \/ at = "stream" => bufs["OUTPUT"].n > 0 /\ (~Dma => bufs["INPUT"].n > 0)

LEMMA GrantStep == CallsInv /\ GrantInv /\ [Next]_vars => GrantInv'
<1> SUFFICES ASSUME CallsInv, GrantInv, [Next]_vars PROVE GrantInv'
  OBVIOUS
<1> USE DEF SetUp, Waiting, Transfer
<1>0. /\ Dma' = Dma
      /\ bufs \in Buffers /\ \A d \in Directions : bufs[d].n \in Nat
      /\ direction \in Directions
      /\ at \in SetUp \cup {"failed"} => ~ready
      /\ ready \in BOOLEAN
  BY EncoderAssumption
     DEF Next, useVars, vars, Dma, CallsInv, CallInv, TypeOK, Buffers, Directions
<1>1. CASE CleanedUp /\ at' \in {"open", "failed"}
  BY <1>1 DEF CleanedUp, GrantInv
<1>2. CASE UNCHANGED <<bufs, ready>> /\ at' \notin {"request", "map", "queue", "stream"}
  BY <1>2, <1>0 DEF GrantInv
<1>3. CASE Configure
  BY <1>3, <1>0 DEF Configure, GrantInv
<1>4. ASSUME NEW count \in 1..MaxBuffers, RequestBuffers(count) PROVE GrantInv'
  <2>1. CASE Dma /\ direction = "INPUT"
    BY <1>4, <2>1, <1>0 DEF RequestBuffers, BuffersAreSetUp, GrantInv
  <2>2. CASE ~(Dma /\ direction = "INPUT")
    <3>1. /\ bufs' = [bufs EXCEPT ![direction] = [array |-> TRUE, n |-> 0]]
          /\ at = "request" /\ at' = "map" /\ direction' = direction /\ ready' = ready
      BY <1>4, <2>2 DEF RequestBuffers
    <3>2. direction = "OUTPUT" => bufs'["INPUT"] = bufs["INPUT"]
      BY <3>1, <1>0 DEF Buffers, Directions
    <3> QED
      BY <3>1, <3>2, <1>0 DEF GrantInv
  <2> QED
    BY <2>1, <2>2
<1>5. CASE MapBuffer
  BY <1>5, <1>0 DEF MapBuffer, GrantInv
<1>6. CASE QueueBuffer
  <2>1. /\ at = "queue" /\ ready' = ready
        /\ bufs' = [bufs EXCEPT ![direction].n = @ + 1]
        /\ \/ /\ direction' = "OUTPUT"
              /\ at' = IF direction = "INPUT" THEN "request" ELSE "stream"
           \/ at' = "map" /\ direction' = direction
    BY <1>6 DEF QueueBuffer, BuffersAreSetUp
  <2>2. /\ bufs'[direction].n = bufs[direction].n + 1
        /\ \A d \in Directions : d # direction => bufs'[d] = bufs[d]
    BY <2>1, <1>0 DEF Buffers
  <2>3. CASE direction = "INPUT"
    <3>1. bufs'["INPUT"].n > 0
      BY <2>2, <2>3, <1>0
    <3> QED
      BY <2>1, <2>3, <3>1, <1>0 DEF GrantInv
  <2>4. CASE direction = "OUTPUT"
    <3>1. bufs'["OUTPUT"].n > 0 /\ bufs'["INPUT"] = bufs["INPUT"]
      BY <2>2, <2>4, <1>0 DEF Directions
    <3> QED
      BY <2>1, <2>4, <3>1, <1>0 DEF GrantInv
  <2> QED
    BY <2>3, <2>4, <1>0 DEF Directions
<1>7. CASE StreamOn
  BY <1>7, <1>0 DEF StreamOn, GrantInv
<1>8. CASE UNCHANGED vars
  BY <1>8, <1>0 DEF vars, GrantInv
<1>9. ASSUME NEW f \in Frame, Compress(f) PROVE GrantInv'
  BY <1>9, <1>1, <1>2 DEF Compress
<1>10. CASE PrepareFails \/ CompressFails
  BY <1>10, <1>1 DEF PrepareFails, CompressFails
<1>11. CASE OpenDevice \/ ReturnFailure \/ GrabInput \/ SendInput \/ Poll \/ ReleaseInput
            \/ FetchOutput \/ RequeueOutput
  BY <1>11, <1>2 DEF OpenDevice, ReturnFailure, GrabInput, SendInput, Poll, ReleaseInput,
                     FetchOutput, RequeueOutput
<1>12. CASE DeviceEncodes \/ DeviceEmitsGarbage
  <2>1. UNCHANGED <<at, bufs, ready, direction>>
    BY <1>12 DEF DeviceEncodes, DeviceReads, DeviceFills, DeviceEmitsGarbage
  <2> QED
    BY <2>1, <1>0 DEF GrantInv
<1> QED
  BY <1>3, <1>4, <1>5, <1>6, <1>7, <1>8, <1>9, <1>10, <1>11, <1>12 DEF Next, EncoderProceeds

-----------------------------------------------------------------------------
(* What the four parts of the invariant give. *)

EncoderInv == CallsInv /\ CountInv /\ GrantInv /\ HeldInv

LEMMA InitEncoder == Init => EncoderInv
<1> SUFFICES ASSUME Init PROVE EncoderInv
  OBVIOUS
<1>1. /\ device.inputs = <<>> /\ device.coding = <<>> /\ device.outputs = <<>>
      /\ device.blank = 0 /\ device.done = 0 /\ device.free = 0
  BY DEF Init, NewDevice
<1>2. OutputCount = 0 /\ InputCount = 0
  BY <1>1 DEF OutputCount, InputCount, Queued
<1>3. CountInv
  BY <1>2 DEF Init, CountInv, NoBuffers, SetUp, Waiting
<1>4. Held = <<>>
  BY <1>1 DEF Held
<1>5. HeldInv
  BY <1>1, <1>4 DEF Init, HeldInv, Waiting
<1>6. CallInv
  BY DEF Init, CallInv, SetUp, Transfer, Waiting
<1>7. GrantInv
  BY DEF Init, GrantInv
<1> QED
  BY <1>3, <1>5, <1>6, <1>7, InitTyped DEF EncoderInv, CallsInv

LEMMA EncoderStep == EncoderInv /\ [Next]_vars => EncoderInv'
  BY TypeStep, BuffersStep, CallStep, CountStep, GrantStep, HeldStep DEF EncoderInv, CallsInv

(* Between two calls the encoder is closed, or of use: every output buffer  *)
(* is with the driver or waits to be fetched, and the driver is done with   *)
(* all frames, or without assert() with all but the last, whatever failed   *)
(* before.                                                                  *)
THEOREM ReturnsUsableOrClosed == Spec => []UsableOrClosed
<1>1. EncoderInv => UsableOrClosed
  <2> SUFFICES ASSUME EncoderInv, at = "idle" PROVE UsableOrClosed
    BY DEF UsableOrClosed
  <2>1. CASE ready
    <3>1. /\ device.free + Len(device.outputs) = bufs["OUTPUT"].n
          /\ bufs["OUTPUT"].n > 0
      BY <2>1 DEF EncoderInv, CountInv, OutputCount, GrantInv
    <3>2. device.blank + Len(device.inputs) + device.done = IF Dma THEN 0 ELSE bufs["INPUT"].n
      BY DEF EncoderInv, CountInv, InputCount, Queued
    <3>3. /\ Held = <<>> \/ (~asserts /\ Len(Held) = 1 /\ Held[1].picture = src.number)
          /\ fd /\ shape = src.shape
      BY <2>1 DEF EncoderInv, CountInv, HeldInv
    <3> QED
      BY <2>1, <3>1, <3>2, <3>3 DEF UsableOrClosed
  <2>2. CASE ~ready
    BY <2>2 DEF UsableOrClosed, EncoderInv, CountInv
  <2> QED
    BY <2>1, <2>2
<1> QED
  BY <1>1, InitEncoder, EncoderStep, PTL DEF Spec

(* The encode thread waits for nothing that the device cannot give it,      *)
(* however many buffers the driver grants, whatever it emits first and      *)
(* whether or not the frames carry the time.                                *)
THEOREM EveryWaitIsAnswered == Spec => []WaitIsAnswered
<1>1. EncoderInv => WaitIsAnswered
  <2> SUFFICES ASSUME EncoderInv PROVE WaitIsAnswered
    OBVIOUS
  <2>0. /\ device.inputs \in Seq(Buffer) /\ device.outputs \in Seq(Buffer)
        /\ device.blank \in Nat /\ device.done \in Nat /\ device.free \in Nat
        /\ Held \in Seq(Buffer)
    BY HeldType DEF EncoderInv, CallsInv, TypeOK, Device
  <2>1. ASSUME at = "poll" PROVE OnItsWay /\ (device.free > 0 \/ device.outputs # <<>>)
    <3>1. ready
      BY <2>1 DEF EncoderInv, CallsInv, CallInv, Transfer, Waiting
    <3>2. \/ Len(Held) = 1 /\ Held[1] = Sent(ts)
          \/ Len(Held) = 2 /\ Held[2] = Sent(ts)
      BY <2>1 DEF EncoderInv, HeldInv, Waiting
    <3>3. OnItsWay
      BY <3>2, <2>0 DEF OnItsWay
    <3>4. device.free + Len(device.outputs) > 0
      BY <2>1, <3>1 DEF EncoderInv, GrantInv, CountInv, OutputCount
    <3> QED
      BY <2>0, <3>3, <3>4
  <2>2. at = "fetch" => device.outputs # <<>>
    BY DEF EncoderInv, HeldInv
  <2>3. ASSUME at = "release" \/ (at = "begin" /\ ~Dma)
        PROVE  device.done > 0 \/ device.blank > 0 \/ device.inputs # <<>>
    <3>1. InputCount > 0
      <4>1. CASE at = "release"
        <5>1. Dma /\ ~input_released
          BY <4>1 DEF EncoderInv, CountInv, Waiting
        <5> QED
          BY <4>1, <5>1 DEF EncoderInv, CountInv
      <4>2. CASE at = "begin" /\ ~Dma
        <5>1. bufs["INPUT"].n > 0
          BY <4>2 DEF EncoderInv, CallsInv, CallInv, Transfer, Waiting, GrantInv
        <5> QED
          BY <4>2, <5>1 DEF EncoderInv, CountInv
      <4> QED
        BY <2>3, <4>1, <4>2
    <3> QED
      BY <2>0, <3>1 DEF InputCount, Queued
  <2> QED
    BY <2>1, <2>2, <2>3 DEF WaitIsAnswered
<1> QED
  BY <1>1, InitEncoder, EncoderStep, PTL DEF Spec

-----------------------------------------------------------------------------
(* The refinement, step by step. *)

serviceBar == IF ready THEN "ready"
              ELSE IF at \in {"idle", "failed"} /\ shape # NoShape THEN "failed"
              ELSE "fresh"
inputBar == IF at = "idle" THEN NoFrame ELSE src

Steps == (\E f \in Frame : Service!Call(f)) \/ Service!Prepare \/ Service!Fill
           \/ Service!Fail \/ Service!Return

LEMMA ServiceStep == EncoderInv /\ [Next]_vars => [Service!Next]_(Service!vars)
<1>a. ASSUME asserts' = asserts, Steps \/ UNCHANGED <<serviceBar, shape, inputBar, dest>>
      PROVE  [Service!Next]_(Service!vars)
  <2>1. Steps => Service!Next
    BY <1>a DEF Steps, Service!Next
  <2>2. UNCHANGED <<serviceBar, shape, inputBar, dest>> => UNCHANGED Service!vars
    BY <1>a DEF Service!vars, serviceBar, inputBar
  <2> QED
    BY <1>a, <2>1, <2>2
<1> SUFFICES ASSUME EncoderInv, [Next]_vars
             PROVE  Steps \/ UNCHANGED <<serviceBar, shape, inputBar, dest>>
  <2>1. [Next]_vars => asserts' = asserts
    BY DEF Next, vars, useVars
  <2> QED
    BY <1>a, <2>1
<1> DEFINE Goal == Steps \/ UNCHANGED <<serviceBar, shape, inputBar, dest>>
<1> USE DEF SetUp, Waiting, Transfer
<1>0. CallInv /\ CallInv'
  BY CallStep DEF EncoderInv, CallsInv
<1>b. NoFrame \notin Frame
  BY DEF NoFrame, Frame
<1>s. ASSUME UNCHANGED <<src, dest, shape, ready>>, at \in SetUp, at' \in SetUp PROVE Goal
  BY <1>s DEF serviceBar, inputBar
<1>t. ASSUME UNCHANGED <<src, dest, shape, ready>>, at \in Transfer, at' \in Transfer PROVE Goal
  BY <1>t, <1>0 DEF serviceBar, inputBar, CallInv
<1>1. ASSUME NEW f \in Frame, Compress(f) PROVE Goal
  <2>1. f.shape # NoShape
    BY EncoderAssumption DEF Frame
  <2>2. inputBar = NoFrame /\ inputBar' = f /\ dest' = 0 /\ shape' = f.shape
    BY <1>1 DEF Compress, CleanedUp, NeedsPrepare, inputBar, NoPicture
  <2>3. serviceBar' = IF f.shape = shape THEN serviceBar ELSE "fresh"
    <3>1. CASE NeedsPrepare(f)
      BY <1>1, <3>1 DEF Compress, CleanedUp, NeedsPrepare, serviceBar
    <3>2. CASE ~NeedsPrepare(f)
      BY <1>1, <3>2, <2>1, <1>0 DEF Compress, NeedsPrepare, serviceBar, CallInv
    <3> QED
      BY <3>1, <3>2
  <2>4. Service!Call(f)
    BY <2>2, <2>3 DEF Service!Call, serviceBar, inputBar
  <2> QED
    BY <2>4 DEF Steps
<1>2. CASE OpenDevice \/ Configure \/ MapBuffer
  BY <1>2, <1>s DEF OpenDevice, Configure, MapBuffer
<1>3. ASSUME NEW count \in 1..MaxBuffers, RequestBuffers(count) PROVE Goal
  BY <1>3, <1>s DEF RequestBuffers, BuffersAreSetUp
<1>4. CASE QueueBuffer
  BY <1>4, <1>s DEF QueueBuffer, BuffersAreSetUp
<1>5. CASE StreamOn
  <2>1. Service!Prepare
    BY <1>5, <1>0, <1>b DEF StreamOn, CallInv, Service!Prepare
  <2> QED
    BY <2>1 DEF Steps
<1>6. CASE PrepareFails
  <2>1. shape # NoShape
    BY <1>6, <1>0, EncoderAssumption DEF PrepareFails, CallInv, Frame
  <2>2. Service!Prepare
    BY <1>6, <2>1, <1>0, <1>b DEF PrepareFails, CleanedUp, CallInv, Service!Prepare
  <2> QED
    BY <2>2 DEF Steps
<1>7. CASE ReturnFailure
  <2>1. shape # NoShape
    BY <1>7, <1>0, EncoderAssumption DEF ReturnFailure, CallInv, Frame
  <2>2. Service!Return
    BY <1>7, <2>1, <1>0, <1>b DEF ReturnFailure, CallInv, Service!Return
  <2> QED
    BY <2>2 DEF Steps
<1>8. CASE CompressFails
  <2>1. shape # NoShape
    BY <1>8, <1>0, EncoderAssumption DEF CompressFails, CallInv, Frame
  <2>2. Service!Fail
    BY <1>8, <2>1, <1>0, <1>b DEF CompressFails, CleanedUp, CallInv, Service!Fail
  <2> QED
    BY <2>2 DEF Steps
<1>9. CASE GrabInput \/ SendInput \/ Poll \/ ReleaseInput
  BY <1>9, <1>t DEF GrabInput, SendInput, Poll, ReleaseInput
<1>10. CASE FetchOutput
  <2>1. CASE dest' = dest
    BY <1>10, <2>1, <1>t DEF FetchOutput
  <2>2. CASE dest' # dest
    <3>1. /\ at = "fetch" /\ at' = "requeue" /\ UNCHANGED <<src, shape, ready>>
          /\ dest = NoPicture /\ dest' # NoPicture
      BY <1>10, <2>2, <1>0 DEF FetchOutput, CallInv
    <3>2. dest' = src.number \/ (~asserts /\ dest' \in {src.number - 1, Garbage})
      <4>1. /\ EncoderInv' /\ asserts' = asserts
        BY EncoderStep DEF Next, vars, useVars
      <4>2. \/ dest' = src'.number
            \/ ~asserts' /\ dest' \in {src'.number - 1, Garbage}
        BY <3>1, <4>1 DEF EncoderInv, HeldInv
      <4> QED
        BY <3>1, <4>1, <4>2
    <3>3. Service!Fill
      BY <3>1, <3>2, <1>0, <1>b DEF CallInv, Service!Fill, NoPicture, Service!Garbage, Garbage
    <3> QED
      BY <3>3 DEF Steps
  <2> QED
    BY <2>1, <2>2
<1>11. CASE RequeueOutput
  <2>1. CASE dest = NoPicture
    BY <1>11, <2>1, <1>t DEF RequeueOutput
  <2>2. CASE dest # NoPicture
    <3>1. Service!Return
      BY <1>11, <2>2, <1>0, <1>b DEF RequeueOutput, CallInv, Service!Return, NoPicture
    <3> QED
      BY <3>1 DEF Steps
  <2> QED
    BY <2>1, <2>2
<1>12. CASE DeviceEncodes \/ DeviceEmitsGarbage \/ UNCHANGED vars
  BY <1>12 DEF DeviceEncodes, DeviceReads, DeviceFills, DeviceEmitsGarbage, vars,
               serviceBar, inputBar
<1> QED
  BY <1>1, <1>2, <1>3, <1>4, <1>5, <1>6, <1>7, <1>8, <1>9, <1>10, <1>11, <1>12
     DEF Next, EncoderProceeds

(* M2MEncoder implements EncoderService, whatever fails and whatever the    *)
(* device emits first: each call fills the output frame with the picture of *)
(* its input or fails, without assert() perhaps with the picture of the     *)
(* call before or garbage; and a failed encoder stays so until the shape    *)
(* changes.                                                                 *)
THEOREM EncoderKeepsService == Spec => ImplementsEncoderService
<1>1. Init => Service!Init
  <2> SUFFICES ASSUME Init PROVE Service!Init
    OBVIOUS
  <2>1. asserts \in BOOLEAN
    BY EncoderAssumption, Zenon DEF Init
  <2> QED
    BY <2>1 DEF Init, Service!Init, NoPicture
<1> QED
  BY <1>1, InitEncoder, EncoderStep, ServiceStep, PTL
     DEF Spec, ImplementsEncoderService, Service!Spec
====
