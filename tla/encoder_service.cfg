SPECIFICATION FairSpec
CONSTANTS
    Shapes = {m1, m2}
    NoShape = m0
    Kinds = {"mjpeg", "h264"}
    Builds = {TRUE, FALSE}
    MaxBuffers = 2
    MaxCalls = 4
INVARIANTS TypeOK UsableOrClosed OneLeakPerCall WaitIsAnswered
PROPERTIES ImplementsEncoderService CompressReturns
CHECK_DEADLOCK FALSE
