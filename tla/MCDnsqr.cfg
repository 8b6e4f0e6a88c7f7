SPECIFICATION FairSpec
CONSTANTS
    k1 = k1
    k2 = k2
    k3 = k3
    com = com
    org = org
    NoName = NoName
    Keys = {k1, k2, k3}
    Names = {com, org}
    Hash <- MCHash
    MaxValues = 2
    Ids = {"q1", "q2", "q3", "r1", "r2", "r3", "rx", "t", "o"}
    Timeout = 0
    OutSz = 44
    HdrSz = 20
    Datagrams <- MCDatagrams
    Frames <- MCFrames
    Confs <- MCConfs
    Suffixes <- MCSuffixes
    QueryTimeout = 1
    MaxFrames = 4
    Times = {0, 2}
INVARIANTS
    ProbeFindsAll
    ListMatchesTable
    RoomLeft
    EofDrained
    NoneTooOld
    FieldsReadable
PROPERTIES
    PairsOldestFirst
    Drains
