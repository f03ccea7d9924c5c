SPECIFICATION Spec
CONSTANTS
    Buffers = {b1, b2}
    Sockets = {s1, s2}
    HttpViewers = {}
    MaxFrame = 3
    UninitLocals = {"zero", "junk"}
SYMMETRY Symmetry
INVARIANTS TypeOK ConsumeIsLegal InSync
PROPERTIES SocketsMoveForward UsesChannel
CHECK_DEADLOCK FALSE
