---------------------------- MODULE FrameChannel ----------------------------
(***************************************************************************)
(* What FrameWaiter and ThreadSafeQueue promise the threads that use them. *)
(* Android announces frames, the capture thread waits for one and pushes   *)
(* it before it waits for the next, the encode thread pops them: each      *)
(* frame once and in order, none made up.  Frames are their numbers, so    *)
(* that a counter says all there is to say of each end.  FramePipeline     *)
(* uses the two classes with this meaning; Handover is their code.         *)
(***************************************************************************)
EXTENDS Naturals

VARIABLES
    announced,  \* frames onFrameAvailable() has counted
    waited,     \* frames waitForFrame() has returned for
    pushed,     \* the last frame pushed
    popped      \* the last frame popped

vars == <<announced, waited, pushed, popped>>

Init == announced = 0 /\ waited = 0 /\ pushed = 0 /\ popped = 0

Announce == announced' = announced + 1 /\ UNCHANGED <<waited, pushed, popped>>

Wait ==
    /\ waited < announced
    /\ waited = pushed
    /\ waited' = waited + 1
    /\ UNCHANGED <<announced, pushed, popped>>

Push ==
    /\ pushed < waited
    /\ pushed' = waited
    /\ UNCHANGED <<announced, waited, popped>>

Pop ==
    /\ popped < pushed
    /\ popped' = popped + 1
    /\ UNCHANGED <<announced, waited, pushed>>

Next == Announce \/ Wait \/ Push \/ Pop

Spec == Init /\ [][Next]_vars

(* A frame that was announced is waited for, pushed and popped.             *)
FairSpec == Spec /\ WF_vars(Wait) /\ WF_vars(Push) /\ WF_vars(Pop)
=============================================================================
