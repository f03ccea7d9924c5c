SPECIFICATION Spec
CONSTANTS
    Shapes = {m1, m2}
    NoShape = m0
    Kinds = {"mjpeg"}
    Builds = {FALSE}
    MaxBuffers = 2
    MaxCalls = 3
INVARIANTS OutputMatchesInput
CHECK_DEADLOCK FALSE
