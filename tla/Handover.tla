------------------------------ MODULE Handover ------------------------------
(***************************************************************************)
(* FrameWaiter and ThreadSafeQueue at the level of their mutexes and       *)
(* condition variables: Android's threads count frames in and the capture  *)
(* thread waits for them, with a timeout, under mMutex; the capture thread *)
(* pushes each frame and the encode thread pops it, under mutex_, and is   *)
(* notified after the mutex was given back.  What the threads do between   *)
(* two calls is FramePipeline's.                                           *)
(*                                                                         *)
(* Taking a mutex and the first access under it are one step.              *)
(***************************************************************************)
EXTENDS Integers, SequencesExt

CONSTANTS
    Binder,        \* the threads Android calls onFrameAvailable() on
    MaxFrames      \* bound: calls of onFrameAvailable()

ASSUME HandoverAssumption == MaxFrames \in Nat

VARIABLES
    calls,           \* calls of onFrameAvailable() begun so far
    callAt,          \* where each of Android's threads is in it
    (* FrameWaiter *)
    mMutex,          \* its holder
    mPendingFrames,
    (* the capture thread *)
    captureAt,
    captured,        \* number of the frame waitForFrame() returned for last
    (* ThreadSafeQueue<us_frame_s> *)
    mutex_,
    queue_,
    (* the encode thread *)
    encodeAt,
    value            \* the frame popped last

callVars == <<calls, callAt>>
waiterVars == <<mMutex, mPendingFrames>>
captureVars == <<captureAt, captured>>
queueVars == <<mutex_, queue_>>
encodeVars == <<encodeAt, value>>
vars == <<callVars, waiterVars, captureVars, queueVars, encodeVars>>

Unlocked == "unlocked"

Init ==
    /\ calls = 0
    /\ callAt = [b \in Binder |-> "idle"]
    /\ mMutex = Unlocked
    /\ mPendingFrames = 0
    /\ captureAt = "wait"
    /\ captured = 0
    /\ mutex_ = Unlocked
    /\ queue_ = <<>>
    /\ encodeAt = "pop"
    /\ value = 0

-----------------------------------------------------------------------------
(* FrameWaiter::onFrameAvailable, on a thread of Android *)

Call(b) ==
    /\ callAt[b] = "idle"
    /\ calls < MaxFrames
    /\ calls' = calls + 1
    /\ callAt' = [callAt EXCEPT ![b] = "lock"]
    /\ UNCHANGED <<waiterVars, captureVars, queueVars, encodeVars>>

(* Fault: nobody takes a mutex.                                             *)
MutexFree_NotAsked(mutex) == TRUE

(* lock() of a mutex can return.                                            *)
MutexFree(mutex) == mutex = Unlocked

CountFrame(b) ==
    /\ callAt[b] = "lock"
    /\ MutexFree(mMutex)
    /\ mMutex' = "android"
    /\ mPendingFrames' = mPendingFrames + 1
    /\ callAt' = [callAt EXCEPT ![b] = "notify"]
    /\ UNCHANGED <<calls, captureVars, queueVars, encodeVars>>

(* mCondition.notify_one(): the capture thread, if it sleeps, wakes up. *)
NotifyCapture(b) ==
    /\ callAt[b] = "notify"
    /\ captureAt' = IF captureAt = "asleep" THEN "wait" ELSE captureAt
    /\ callAt' = [callAt EXCEPT ![b] = "unlock"]
    /\ UNCHANGED <<calls, waiterVars, captured, queueVars, encodeVars>>

ReturnCall(b) ==
    /\ callAt[b] = "unlock"
    /\ mMutex' = Unlocked
    /\ callAt' = [callAt EXCEPT ![b] = "idle"]
    /\ UNCHANGED <<calls, mPendingFrames, captureVars, queueVars, encodeVars>>

OnFrameAvailable(b) == CountFrame(b) \/ NotifyCapture(b) \/ ReturnCall(b)

-----------------------------------------------------------------------------
(* The capture thread: waitForFrame() and push() *)

(* mMutex is taken, on the call or by a thread that woke up.                *)
LockWaiter ==
    /\ captureAt = "wait"
    /\ MutexFree(mMutex)
    /\ mMutex' = "capture"
    /\ captureAt' = "test"
    /\ UNCHANGED <<callVars, mPendingFrames, captured, queueVars, encodeVars>>

(* Fault: the wait has no predicate, and any wakeup is a frame.             *)
TestPending_Not ==
    /\ captureAt = "test"
    /\ captureAt' = "take"
    /\ UNCHANGED <<callVars, waiterVars, captured, queueVars, encodeVars>>

(* The predicate of wait_for, which decides after a timeout as well.        *)
TestPending ==
    /\ captureAt = "test"
    /\ captureAt' = IF mPendingFrames > 0 THEN "take" ELSE "sleep"
    /\ UNCHANGED <<callVars, waiterVars, captured, queueVars, encodeVars>>

TakeFrame ==
    /\ captureAt = "take"
    /\ mPendingFrames' = mPendingFrames - 1
    /\ captured' = captured + 1
    /\ mMutex' = Unlocked
    /\ captureAt' = "push"
    /\ UNCHANGED <<callVars, queueVars, encodeVars>>

(* The mutex is given back and the thread asleep in one.                    *)
CaptureSleeps ==
    /\ captureAt = "sleep"
    /\ mMutex' = Unlocked
    /\ captureAt' = "asleep"
    /\ UNCHANGED <<callVars, mPendingFrames, captured, queueVars, encodeVars>>

(* The timeout of 100 ms, or a wakeup for no reason.                        *)
CaptureWakes ==
    /\ captureAt = "asleep"
    /\ captureAt' = "wait"
    /\ UNCHANGED <<callVars, waiterVars, captured, queueVars, encodeVars>>

PushBack ==
    /\ captureAt = "push"
    /\ MutexFree(mutex_)
    /\ mutex_' = "capture"
    /\ queue_' = Append(queue_, captured)
    /\ captureAt' = "unlock"
    /\ UNCHANGED <<callVars, waiterVars, captured, encodeVars>>

(* Fault: push() tells nobody.                                              *)
UnlockQueue_Silent ==
    /\ captureAt = "unlock"
    /\ mutex_' = Unlocked
    /\ captureAt' = "wait"
    /\ UNCHANGED <<callVars, waiterVars, captured, queue_, encodeVars>>

UnlockQueue ==
    /\ captureAt = "unlock"
    /\ mutex_' = Unlocked
    /\ captureAt' = "notify"
    /\ UNCHANGED <<callVars, waiterVars, captured, queue_, encodeVars>>

(* cond_.notify_one(), without the mutex.                                   *)
NotifyEncode ==
    /\ captureAt = "notify"
    /\ encodeAt' = IF encodeAt = "asleep" THEN "pop" ELSE encodeAt
    /\ captureAt' = "wait"
    /\ UNCHANGED <<callVars, waiterVars, captured, queueVars, value>>

CaptureThread ==
    \/ LockWaiter \/ TestPending \/ TakeFrame \/ CaptureSleeps
    \/ PushBack \/ UnlockQueue \/ NotifyEncode

-----------------------------------------------------------------------------
(* The encode thread: pop() *)

LockQueue ==
    /\ encodeAt = "pop"
    /\ MutexFree(mutex_)
    /\ mutex_' = "encode"
    /\ encodeAt' = "test"
    /\ UNCHANGED <<callVars, waiterVars, captureVars, queue_, value>>

TestEmpty ==
    /\ encodeAt = "test"
    /\ encodeAt' = IF queue_ # <<>> THEN "take" ELSE "sleep"
    /\ UNCHANGED <<callVars, waiterVars, captureVars, queueVars, value>>

PopFront ==
    /\ encodeAt = "take"
    /\ value' = Head(queue_)
    /\ queue_' = Tail(queue_)
    /\ mutex_' = Unlocked
    /\ encodeAt' = "pop"
    /\ UNCHANGED <<callVars, waiterVars, captureVars>>

EncodeSleeps ==
    /\ encodeAt = "sleep"
    /\ mutex_' = Unlocked
    /\ encodeAt' = "asleep"
    /\ UNCHANGED <<callVars, waiterVars, captureVars, queue_, value>>

EncodeWakes ==
    /\ encodeAt = "asleep"
    /\ encodeAt' = "pop"
    /\ UNCHANGED <<callVars, waiterVars, captureVars, queueVars, value>>

EncodeThread == LockQueue \/ TestEmpty \/ PopFront \/ EncodeSleeps

Next ==
    \/ \E b \in Binder : Call(b) \/ OnFrameAvailable(b)
    \/ CaptureThread \/ CaptureWakes
    \/ EncodeThread \/ EncodeWakes

Spec == Init /\ [][Next]_vars

(* Threads run on, and each gets a mutex that is free again and again: no   *)
(* thread holds one while it waits for anything.  Nothing is assumed of     *)
(* timeouts and wakeups for no reason, so that notifications alone must do. *)
Fairness ==
    /\ \A b \in Binder : WF_vars(OnFrameAvailable(b)) /\ SF_vars(CountFrame(b))
    /\ WF_vars(CaptureThread) /\ SF_vars(LockWaiter) /\ SF_vars(PushBack)
    /\ WF_vars(EncodeThread) /\ SF_vars(LockQueue)

FairSpec == Spec /\ Fairness

-----------------------------------------------------------------------------
(* Properties *)

(* Every variable stays in its range: the count of pending frames never     *)
(* goes negative, whoever wakes up when.                                    *)
TypeOK ==
    /\ calls \in 0..MaxFrames
    /\ callAt \in [Binder -> {"idle", "lock", "notify", "unlock"}]
    /\ mMutex \in {Unlocked, "android", "capture"}
    /\ mPendingFrames \in Nat
    /\ captureAt \in {"wait", "test", "take", "sleep", "asleep", "push", "unlock", "notify"}
    /\ captured \in Nat
    /\ mutex_ \in {Unlocked, "capture", "encode"}
    /\ queue_ \in Seq(Nat)
    /\ encodeAt \in {"pop", "test", "take", "sleep", "asleep"}
    /\ value \in Nat

(* No wakeup is lost: a thread that sleeps although there is something for  *)
(* it is about to be notified, by a caller that still holds mMutex, or by   *)
(* the capture thread on its way out of push().                             *)
SleepersAreNotified ==
    /\ captureAt = "asleep" /\ mPendingFrames > 0
         => \E b \in Binder : callAt[b] = "notify"
    /\ encodeAt = "asleep" /\ queue_ # <<>>
         => captureAt \in {"unlock", "notify"}

(* The two classes are the channel of FrameChannel, which FramePipeline     *)
(* takes them for: frames pass once and in order, and each one that was     *)
(* announced reaches the encode thread, without the help of a timeout.      *)
Channel == INSTANCE FrameChannel WITH
    announced <- captured + mPendingFrames,
    waited <- captured,
    pushed <- IF queue_ = <<>> THEN value ELSE Last(queue_),
    popped <- value
ImplementsChannel == Channel!FairSpec
=============================================================================
