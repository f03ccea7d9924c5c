SPECIFICATION FairSpec
CONSTANTS
    Fd = {f1}
    Workers = {w1, w2}
    Publishers = {p1}
    Limit = 0
    MaxPictures = 2
PROPERTIES PayloadsAreTaken StopReturns
CHECK_DEADLOCK FALSE
