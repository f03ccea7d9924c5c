---------------------------- MODULE HandoverProofs ----------------------------
(***************************************************************************)
(* FrameWaiter and ThreadSafeQueue lose no wakeup and are the channel      *)
(* FrameChannel describes, for any number of Android's threads and frames. *)
(***************************************************************************)
EXTENDS Handover, TLAPS

USE DEF callVars, waiterVars, captureVars, queueVars, encodeVars

(* Who holds a mutex is at a place between its lock and its unlock, and     *)
(* nobody else is.                                                          *)
Holding == {"notify", "unlock"}
MutexInv ==
    /\ \A b \in Binder : callAt[b] \in Holding => mMutex = "android"
    /\ \A b, c \in Binder : callAt[b] \in Holding /\ callAt[c] \in Holding => b = c
    /\ captureAt \in {"test", "take", "sleep"} => mMutex = "capture"
    /\ captureAt = "unlock" => mutex_ = "capture"
    /\ encodeAt \in {"test", "take", "sleep"} => mutex_ = "encode"

(* What a thread found under the mutex still holds while it has the mutex.  *)
FoundInv ==
    /\ captureAt = "take" => mPendingFrames > 0
    /\ captureAt = "sleep" => mPendingFrames = 0
    /\ encodeAt = "take" => queue_ # <<>>
    /\ encodeAt = "sleep" => queue_ = <<>>

(* The queue holds the frames after the one popped last, up to the one the  *)
(* capture thread pushed last.                                              *)
OrderInv ==
    /\ \A k \in 1..Len(queue_) : queue_[k] = value + k
    /\ captured = value + Len(queue_) + (IF captureAt = "push" THEN 1 ELSE 0)

HandoverInv == TypeOK /\ MutexInv /\ FoundInv /\ SleepersAreNotified /\ OrderInv

(* The steps of the three threads, one by one. *)
LEMMA Steps ==
    [Next]_vars =>
      \/ \E b \in Binder : Call(b)
      \/ \E b \in Binder : CountFrame(b)
      \/ \E b \in Binder : NotifyCapture(b)
      \/ \E b \in Binder : ReturnCall(b)
      \/ LockWaiter \/ TestPending \/ TakeFrame \/ CaptureSleeps \/ CaptureWakes
      \/ PushBack \/ UnlockQueue \/ NotifyEncode
      \/ LockQueue \/ TestEmpty \/ PopFront \/ EncodeSleeps \/ EncodeWakes
      \/ UNCHANGED vars
  BY DEF Next, OnFrameAvailable, CaptureThread, EncodeThread

LEMMA TypeStep == HandoverInv /\ [Next]_vars => TypeOK'
<1> SUFFICES ASSUME HandoverInv, [Next]_vars PROVE TypeOK'
  OBVIOUS
<1> USE HandoverAssumption DEF TypeOK, HandoverInv
<1>1. ASSUME NEW b \in Binder, Call(b) PROVE TypeOK'
  BY <1>1 DEF Call
<1>2. ASSUME NEW b \in Binder, CountFrame(b) PROVE TypeOK'
  BY <1>2 DEF CountFrame
<1>3. ASSUME NEW b \in Binder, NotifyCapture(b) PROVE TypeOK'
  BY <1>3 DEF NotifyCapture
<1>4. ASSUME NEW b \in Binder, ReturnCall(b) PROVE TypeOK'
  BY <1>4 DEF ReturnCall
<1>5. CASE LockWaiter \/ TestPending \/ CaptureSleeps \/ CaptureWakes
  BY <1>5 DEF LockWaiter, TestPending, CaptureSleeps, CaptureWakes
<1>6. CASE TakeFrame
  BY <1>6 DEF TakeFrame, FoundInv
<1>7. CASE PushBack
  BY <1>7 DEF PushBack
<1>8. CASE UnlockQueue \/ NotifyEncode
  BY <1>8 DEF UnlockQueue, NotifyEncode
<1>9. CASE LockQueue \/ TestEmpty \/ EncodeSleeps \/ EncodeWakes
  BY <1>9 DEF LockQueue, TestEmpty, EncodeSleeps, EncodeWakes
<1>10. CASE PopFront
  <2>1. Head(queue_) \in Nat /\ Tail(queue_) \in Seq(Nat)
    BY <1>10 DEF PopFront, FoundInv
  <2> QED
    BY <1>10, <2>1 DEF PopFront
<1>11. CASE UNCHANGED vars
  BY <1>11 DEF vars
<1> QED
  BY Steps, <1>1, <1>2, <1>3, <1>4, <1>5, <1>6, <1>7, <1>8, <1>9, <1>10, <1>11

(* A step that takes a mutex found it free; one that gives it back had it.  *)
LEMMA MutexStep == HandoverInv /\ [Next]_vars => MutexInv'
<1> SUFFICES ASSUME HandoverInv, [Next]_vars PROVE MutexInv'
  OBVIOUS
<1>0. /\ MutexInv
      /\ callAt \in [Binder -> {"idle", "lock", "notify", "unlock"}]
  BY DEF HandoverInv, TypeOK
<1> USE DEF MutexInv, Holding, MutexFree, Unlocked
<1>1. ASSUME NEW b \in Binder, Call(b) PROVE MutexInv'
  BY <1>1, <1>0 DEF Call
<1>2. ASSUME NEW b \in Binder, CountFrame(b) PROVE MutexInv'
  BY <1>2, <1>0 DEF CountFrame
<1>3. ASSUME NEW b \in Binder, NotifyCapture(b) PROVE MutexInv'
  BY <1>3, <1>0 DEF NotifyCapture
<1>4. ASSUME NEW b \in Binder, ReturnCall(b) PROVE MutexInv'
  BY <1>4, <1>0 DEF ReturnCall
<1>5. CASE LockWaiter \/ TestPending \/ TakeFrame \/ CaptureSleeps \/ CaptureWakes
  BY <1>5, <1>0 DEF LockWaiter, TestPending, TakeFrame, CaptureSleeps, CaptureWakes
<1>6. CASE PushBack \/ UnlockQueue \/ NotifyEncode
  BY <1>6, <1>0 DEF PushBack, UnlockQueue, NotifyEncode
<1>7. CASE LockQueue \/ TestEmpty \/ PopFront \/ EncodeSleeps \/ EncodeWakes
  BY <1>7, <1>0 DEF LockQueue, TestEmpty, PopFront, EncodeSleeps, EncodeWakes
<1>8. CASE UNCHANGED vars
  BY <1>8, <1>0 DEF vars
<1> QED
  BY Steps, <1>1, <1>2, <1>3, <1>4, <1>5, <1>6, <1>7, <1>8

(* Nobody changes what another thread has found: that takes the mutex.      *)
LEMMA FoundStep == HandoverInv /\ [Next]_vars => FoundInv'
<1> SUFFICES ASSUME HandoverInv, [Next]_vars PROVE FoundInv'
  OBVIOUS
<1>0. FoundInv /\ MutexInv /\ mPendingFrames \in Nat /\ queue_ \in Seq(Nat)
  BY DEF HandoverInv, TypeOK
<1> USE DEF FoundInv, MutexFree, Unlocked
<1>1. ASSUME NEW b \in Binder, Call(b) PROVE FoundInv'
  BY <1>1, <1>0 DEF Call
<1>2. ASSUME NEW b \in Binder, CountFrame(b) PROVE FoundInv'
  BY <1>2, <1>0 DEF CountFrame, MutexInv
<1>3. ASSUME NEW b \in Binder, NotifyCapture(b) \/ ReturnCall(b) PROVE FoundInv'
  BY <1>3, <1>0 DEF NotifyCapture, ReturnCall
<1>4. CASE LockWaiter \/ TestPending \/ TakeFrame \/ CaptureSleeps \/ CaptureWakes
  BY <1>4, <1>0 DEF LockWaiter, TestPending, TakeFrame, CaptureSleeps, CaptureWakes
<1>5. CASE PushBack
  BY <1>5, <1>0 DEF PushBack, MutexInv
<1>6. CASE UnlockQueue \/ NotifyEncode
  BY <1>6, <1>0 DEF UnlockQueue, NotifyEncode
<1>7. CASE LockQueue \/ TestEmpty \/ PopFront \/ EncodeSleeps \/ EncodeWakes
  BY <1>7, <1>0 DEF LockQueue, TestEmpty, PopFront, EncodeSleeps, EncodeWakes
<1>8. CASE UNCHANGED vars
  BY <1>8, <1>0 DEF vars
<1> QED
  BY Steps, <1>1, <1>2, <1>3, <1>4, <1>5, <1>6, <1>7, <1>8

(* A thread goes to sleep only when it found nothing, and what comes later  *)
(* is counted or pushed by somebody who notifies next.                      *)
LEMMA SleepersStep == HandoverInv /\ [Next]_vars => SleepersAreNotified'
<1> SUFFICES ASSUME HandoverInv, [Next]_vars PROVE SleepersAreNotified'
  OBVIOUS
<1>0. /\ SleepersAreNotified /\ FoundInv /\ MutexInv
      /\ mPendingFrames \in Nat /\ queue_ \in Seq(Nat)
      /\ callAt \in [Binder -> {"idle", "lock", "notify", "unlock"}]
  BY DEF HandoverInv, TypeOK
<1> USE DEF SleepersAreNotified
<1>1. ASSUME NEW b \in Binder, Call(b) PROVE SleepersAreNotified'
  BY <1>1, <1>0 DEF Call
<1>2. ASSUME NEW b \in Binder, CountFrame(b) PROVE SleepersAreNotified'
  BY <1>2, <1>0 DEF CountFrame
<1>3. ASSUME NEW b \in Binder, NotifyCapture(b) PROVE SleepersAreNotified'
  BY <1>3, <1>0 DEF NotifyCapture
<1>4. ASSUME NEW b \in Binder, ReturnCall(b) PROVE SleepersAreNotified'
  BY <1>4, <1>0 DEF ReturnCall
<1>5. CASE LockWaiter \/ TestPending \/ TakeFrame \/ CaptureSleeps \/ CaptureWakes
  BY <1>5, <1>0 DEF LockWaiter, TestPending, TakeFrame, CaptureSleeps, CaptureWakes, FoundInv
<1>6. CASE PushBack \/ UnlockQueue \/ NotifyEncode
  BY <1>6, <1>0 DEF PushBack, UnlockQueue, NotifyEncode
<1>7. CASE LockQueue \/ TestEmpty \/ PopFront \/ EncodeSleeps \/ EncodeWakes
  BY <1>7, <1>0 DEF LockQueue, TestEmpty, PopFront, EncodeSleeps, EncodeWakes, FoundInv
<1>8. CASE UNCHANGED vars
  BY <1>8, <1>0 DEF vars
<1> QED
  BY Steps, <1>1, <1>2, <1>3, <1>4, <1>5, <1>6, <1>7, <1>8

LEMMA OrderStep == HandoverInv /\ [Next]_vars => OrderInv'
<1> SUFFICES ASSUME HandoverInv, [Next]_vars PROVE OrderInv'
  OBVIOUS
<1>0. OrderInv /\ FoundInv /\ captured \in Nat /\ value \in Nat /\ queue_ \in Seq(Nat)
  BY DEF HandoverInv, TypeOK
<1> USE DEF OrderInv
<1>1. ASSUME NEW b \in Binder, Call(b) \/ CountFrame(b) \/ ReturnCall(b) PROVE OrderInv'
  BY <1>1, <1>0 DEF Call, CountFrame, ReturnCall
<1>2. ASSUME NEW b \in Binder, NotifyCapture(b) PROVE OrderInv'
  BY <1>2, <1>0 DEF NotifyCapture
<1>3. CASE LockWaiter \/ TestPending \/ TakeFrame \/ CaptureSleeps \/ CaptureWakes
  BY <1>3, <1>0 DEF LockWaiter, TestPending, TakeFrame, CaptureSleeps, CaptureWakes
<1>4. CASE PushBack
  <2>1. queue_' = Append(queue_, captured) /\ value' = value /\ captured' = captured
        /\ captureAt = "push" /\ captureAt' = "unlock"
    BY <1>4 DEF PushBack
  <2>2. Len(queue_') = Len(queue_) + 1 /\ captured = value + Len(queue_')
    BY <2>1, <1>0
  <2>3. ASSUME NEW k \in 1..Len(queue_') PROVE queue_'[k] = value' + k
    <3>1. CASE k \in 1..Len(queue_)
      <4>1. queue_'[k] = queue_[k]
        BY <2>1, <3>1, <1>0
      <4> QED
        BY <4>1, <3>1, <2>1, <1>0
    <3>2. CASE k = Len(queue_) + 1
      <4>1. queue_'[k] = captured
        BY <2>1, <3>2, <1>0
      <4> QED
        BY <4>1, <3>2, <2>1, <2>2, <1>0
    <3> QED
      BY <3>1, <3>2, <2>2, <1>0
  <2> QED
    BY <2>1, <2>2, <2>3
<1>5. CASE UnlockQueue \/ NotifyEncode
  BY <1>5, <1>0 DEF UnlockQueue, NotifyEncode
<1>6. CASE LockQueue \/ TestEmpty \/ EncodeSleeps \/ EncodeWakes
  BY <1>6, <1>0 DEF LockQueue, TestEmpty, EncodeSleeps, EncodeWakes
<1>7. CASE PopFront
  <2>1. queue_ # <<>> /\ queue_' = Tail(queue_) /\ value' = Head(queue_)
        /\ captured' = captured /\ captureAt' = captureAt
    BY <1>7, <1>0 DEF PopFront, FoundInv
  <2>2. Len(queue_) > 0 /\ Len(queue_') = Len(queue_) - 1 /\ value' = value + 1
    BY <2>1, <1>0
  <2>3. \A k \in 1..Len(queue_') : queue_'[k] = queue_[k + 1]
    BY <2>1, <2>2, <1>0
  <2>4. \A k \in 1..Len(queue_') : queue_'[k] = value' + k
    BY <2>2, <2>3, <1>0
  <2>5. Len(queue_') \in Nat
    BY <2>1, <1>0
  <2>6. captured' = value' + Len(queue_') + (IF captureAt' = "push" THEN 1 ELSE 0)
    BY <2>1, <2>2, <2>5, <1>0
  <2> QED
    BY <2>4, <2>6
<1>8. CASE UNCHANGED vars
  BY <1>8, <1>0 DEF vars
<1> QED
  BY Steps, <1>1, <1>2, <1>3, <1>4, <1>5, <1>6, <1>7, <1>8

LEMMA HandoverInit == Init => HandoverInv
  BY HandoverAssumption DEF Init, HandoverInv, TypeOK, MutexInv, Holding, FoundInv,
     SleepersAreNotified, OrderInv, Unlocked

LEMMA HandoverStep == HandoverInv /\ [Next]_vars => HandoverInv'
  BY TypeStep, MutexStep, FoundStep, SleepersStep, OrderStep DEF HandoverInv

(* Type correctness: the count of pending frames never goes negative,       *)
(* however many threads count and whoever wakes up when.                    *)
THEOREM TypeCorrect == Spec => []TypeOK
<1>1. HandoverInv => TypeOK
  BY DEF HandoverInv
<1> QED
  BY <1>1, HandoverInit, HandoverStep, PTL DEF Spec

(* No wakeup is lost in waitForFrame() and onFrameAvailable(), nor in       *)
(* pop() and push(), although push() notifies without the mutex.            *)
THEOREM NoWakeupLost == Spec => []SleepersAreNotified
<1>1. HandoverInv => SleepersAreNotified
  BY DEF HandoverInv
<1> QED
  BY <1>1, HandoverInit, HandoverStep, PTL DEF Spec

-----------------------------------------------------------------------------
(* The refinement. *)

lastPushed == IF queue_ = <<>> THEN value ELSE Last(queue_)

LEMMA LastPushed == HandoverInv => lastPushed = value + Len(queue_)
<1> SUFFICES ASSUME HandoverInv PROVE lastPushed = value + Len(queue_)
  OBVIOUS
<1>0. OrderInv /\ queue_ \in Seq(Nat) /\ value \in Nat
  BY DEF HandoverInv, TypeOK
<1>1. CASE queue_ = <<>>
  BY <1>0, <1>1 DEF lastPushed
<1>2. CASE queue_ # <<>>
  <2>1. Len(queue_) \in 1..Len(queue_)
    BY <1>0, <1>2
  <2>2. queue_[Len(queue_)] = value + Len(queue_)
    BY <1>0, <2>1 DEF OrderInv
  <2> QED
    BY <1>2, <2>2 DEF lastPushed, Last
<1> QED
  BY <1>1, <1>2

LEMMA ChannelStep == HandoverInv /\ [Next]_vars => [Channel!Next]_(Channel!vars)
<1> SUFFICES ASSUME HandoverInv, [Next]_vars
             PROVE  \/ Channel!Next
                    \/ UNCHANGED <<captured + mPendingFrames, captured, lastPushed, value>>
  BY DEF Channel!vars, lastPushed
<1> DEFINE Goal == \/ Channel!Next
                   \/ UNCHANGED <<captured + mPendingFrames, captured, lastPushed, value>>
<1>0. /\ OrderInv /\ FoundInv /\ queue_ \in Seq(Nat)
      /\ value \in Nat /\ captured \in Nat /\ mPendingFrames \in Nat
  BY DEF HandoverInv, TypeOK
<1>l. lastPushed = value + Len(queue_) /\ lastPushed' = value' + Len(queue_')
  <2>1. HandoverInv'
    BY HandoverStep
  <2>2. (HandoverInv => lastPushed = value + Len(queue_))'
    BY LastPushed, PTL
  <2> QED
    BY <2>1, <2>2, LastPushed
<1>s. ASSUME UNCHANGED <<mPendingFrames, captured, queue_, value>> PROVE Goal
  BY <1>s DEF lastPushed
<1>1. ASSUME NEW b \in Binder, CountFrame(b) PROVE Goal
  <2>1. Channel!Announce
    BY <1>1, <1>0 DEF CountFrame, Channel!Announce
  <2> QED
    BY <2>1 DEF Channel!Next
<1>2. CASE TakeFrame
  <2>1. captured = lastPushed /\ lastPushed' = lastPushed
    BY <1>2, <1>0, <1>l DEF TakeFrame, OrderInv
  <2>2. Channel!Wait
    BY <1>2, <2>1, <1>0 DEF TakeFrame, FoundInv, Channel!Wait, lastPushed
  <2> QED
    BY <2>2 DEF Channel!Next
<1>3. CASE PushBack
  <2>1. lastPushed < captured /\ lastPushed' = captured
    BY <1>3, <1>0, <1>l DEF PushBack, OrderInv
  <2>2. Channel!Push
    BY <1>3, <2>1 DEF PushBack, Channel!Push, lastPushed
  <2> QED
    BY <2>2 DEF Channel!Next
<1>4. CASE PopFront
  <2>1. queue_ # <<>> /\ queue_' = Tail(queue_) /\ value' = Head(queue_)
    BY <1>4, <1>0 DEF PopFront, FoundInv
  <2>2. value' = value + 1 /\ lastPushed' = lastPushed /\ value < lastPushed
    BY <2>1, <1>0, <1>l DEF OrderInv
  <2>3. Channel!Pop
    BY <1>4, <2>2 DEF PopFront, Channel!Pop, lastPushed
  <2> QED
    BY <2>3 DEF Channel!Next
<1>5. ASSUME NEW b \in Binder, Call(b) \/ NotifyCapture(b) \/ ReturnCall(b) PROVE Goal
  BY <1>5, <1>s DEF Call, NotifyCapture, ReturnCall
<1>6. CASE \/ LockWaiter \/ TestPending \/ CaptureSleeps \/ CaptureWakes
           \/ UnlockQueue \/ NotifyEncode
           \/ LockQueue \/ TestEmpty \/ EncodeSleeps \/ EncodeWakes
           \/ UNCHANGED vars
  BY <1>6, <1>s DEF LockWaiter, TestPending, CaptureSleeps, CaptureWakes, UnlockQueue,
     NotifyEncode, LockQueue, TestEmpty, EncodeSleeps, EncodeWakes, vars
<1> QED
  BY Steps, <1>1, <1>2, <1>3, <1>4, <1>5, <1>6

(* The safety half of ImplementsChannel: each frame that was announced      *)
(* passes once and in order.                                                *)
THEOREM HandoverIsChannel == Spec => Channel!Spec
<1>1. Init => Channel!Init
  BY DEF Init, Channel!Init
<1>2. HandoverInv /\ [Next]_vars => [Channel!Next]_(Channel!vars)
  BY ChannelStep
<1> QED
  BY <1>1, <1>2, HandoverInit, HandoverStep, PTL DEF Spec, Channel!Spec
=============================================================================
