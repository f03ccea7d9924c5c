SPECIFICATION FairSpec
CONSTANTS
    Fd = {f1}
    Peers = {c1, c2}
    Targets = {"/stream", "/shutdown"}
    MaxPieces = 2
INVARIANTS StopIsNotLost
PROPERTIES RequestsAreRead ShutdownEnds StartDoesReturn
CHECK_DEADLOCK FALSE
