SPECIFICATION Spec
CONSTANTS
    Fd = {f1}
    Workers = {w1, w2}
    Publishers = {p1}
    Limit = 0
    MaxPictures = 2
SYMMETRY Symmetry
INVARIANT PollFindsWritable
CHECK_DEADLOCK FALSE
