------------------------------ MODULE LiveView ------------------------------
(***************************************************************************)
(* What a viewer of the virtual display is promised.  Android draws frames *)
(* numbered 1, 2, 3, ... and a viewer is shown some of them: frames may be *)
(* skipped, but a viewer never goes back to an older frame and is never    *)
(* shown one that was not drawn.  The module says nothing of how frames    *)
(* travel; FramePipeline is shown to implement it.                         *)
(***************************************************************************)
EXTENDS Naturals

VARIABLES
    drawn,      \* the number of the last frame Android drew
    shown       \* the number of the frame on the viewer's screen, 0: none yet

Init == drawn = 0 /\ shown = 0

(* Android draws one more frame. *)
Draw == drawn' = drawn + 1 /\ UNCHANGED shown

(* The viewer moves on to a later frame, one that has been drawn. *)
Show == shown' \in (shown + 1)..drawn /\ UNCHANGED drawn

Next == Draw \/ Show

Spec == Init /\ [][Next]_<<drawn, shown>>
=============================================================================
