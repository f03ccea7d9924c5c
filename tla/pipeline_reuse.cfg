SPECIFICATION Spec
CONSTANTS
    Buffers = {b1, b2}
    Sockets = {s1}
    HttpViewers = {h1}
    MaxFrame = 3
    UninitLocals = {"zero"}
INVARIANT EncodesCapturedFrame
CHECK_DEADLOCK FALSE
