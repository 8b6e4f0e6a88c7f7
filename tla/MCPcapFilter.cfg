SPECIFICATION Spec
CONSTANTS
    d4 = d4
    d6 = d6
    dt = dt
    Ids = {d4, d6, dt}
    Timeout = 1
    OutSz = 44
    HdrSz = 20
    Datagrams <- MCDatagrams
    Frames <- MCFrames
    Filters <- MCFilters
    MaxFrames = 4
    MaxTime = 2
INVARIANT FilterHolds
