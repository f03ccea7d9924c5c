SPECIFICATION Spec
CONSTANTS
    Fd = {f1, f2}
    Peers = {c1, c2}
    Targets = {"/stream", "/shutdown", ""}
    MaxPieces = 2
SYMMETRY Symmetry
PROPERTIES KeepsClientTable
INVARIANTS TypeOK PollArrayIsExact JoinedAreConnected
CHECK_DEADLOCK FALSE
