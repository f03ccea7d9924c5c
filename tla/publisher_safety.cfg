SPECIFICATION Spec
CONSTANTS
    Fd = {f1}
    Workers = {w1, w2}
    Publishers = {p1, p2}
    Limit = 0
    MaxPictures = 3
SYMMETRY Symmetry
INVARIANTS TypeOK CounterBound NoPhantomBacklog FreshPicture PopNonEmpty NoStall StopMissesOne
CHECK_DEADLOCK FALSE
