SPECIFICATION FairSpec
CONSTANTS
    Buffers = {b1, b2}
    Sockets = {s1}
    HttpViewers = {h1}
    MaxFrame = 2
    UninitLocals = {"zero"}
PROPERTIES StreamImplementsLiveView ViewersAreServed FramesReachStream SocketsSeeFrames
CHECK_DEADLOCK FALSE
