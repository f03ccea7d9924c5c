--------------------------- MODULE EncoderService ---------------------------
(***************************************************************************)
(* What us_m2m_encoder_compress() promises its caller, without the device. *)
(* Each call gives the service a frame.  A frame of another shape than the *)
(* one before makes the service start afresh.  An exact service fills the  *)
(* output frame with the picture of this very input; one that is not may   *)
(* fill it with the picture of the call before, or with garbage.  One that *)
(* fails stays failed, and fills nothing, until the shape changes.         *)
(***************************************************************************)
EXTENDS Integers

CONSTANTS
    Frames,     \* records with a number and a shape
    NoShape,
    NoFrame

VARIABLES
    exact,      \* does it tell the frames apart?
    service,    \* "fresh", "ready", "failed"
    shape,      \* of the frame before
    input,      \* the frame of the call in progress, or NoFrame
    output      \* number of the picture in the output frame, 0: none

vars == <<exact, service, shape, input, output>>

Garbage == -1

Init ==
    /\ exact \in BOOLEAN
    /\ service = "fresh"
    /\ shape = NoShape
    /\ input = NoFrame
    /\ output = 0

Call(f) ==
    /\ input = NoFrame
    /\ input' = f
    /\ output' = 0
    /\ shape' = f.shape
    /\ service' = IF f.shape = shape THEN service ELSE "fresh"

Prepare ==
    /\ input # NoFrame
    /\ service = "fresh"
    /\ service' \in {"ready", "failed"}
    /\ UNCHANGED <<shape, input, output>>

Fill ==
    /\ input # NoFrame
    /\ service = "ready"
    /\ output = 0
    /\ \/ output' = input.number
       \/ ~exact /\ output' \in {input.number - 1, Garbage} /\ output' # 0
    /\ UNCHANGED <<service, shape, input>>

Fail ==
    /\ input # NoFrame
    /\ service = "ready"
    /\ service' = "failed"
    /\ UNCHANGED <<shape, input, output>>

Return ==
    /\ input # NoFrame
    /\ service = "failed" \/ (service = "ready" /\ output # 0)
    /\ input' = NoFrame
    /\ UNCHANGED <<service, shape, output>>

Next ==
    /\ UNCHANGED exact
    /\ (\E f \in Frames : Call(f)) \/ Prepare \/ Fill \/ Fail \/ Return

Spec == Init /\ [][Next]_vars
=============================================================================
