SPECIFICATION FairSpec
CONSTANTS
    Binder = {b1, b2}
    MaxFrames = 4
INVARIANTS TypeOK SleepersAreNotified
PROPERTIES ImplementsChannel
