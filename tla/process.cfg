SPECIFICATION FairSpec
CONSTANTS
    Sockets = {s1, s2}
    Blocks = {a1, a2, a3}
    MaxFrames = 3
INVARIANTS TypeOK ReadersSeeWholeFrames HeapIsSound
PROPERTIES FramesAreShown StreamIsLiveView
CHECK_DEADLOCK FALSE
