SPECIFICATION Spec
CONSTANTS
    t1 = t1
    t2 = t2
    None = None
    Threads = {t1, t2}
    NOut = 2
    Configs <- MCConfigs
    MaxMessages = 2
    MaxFiles = 3
    MaxTime = 3
SYMMETRY MCSymmetry
INVARIANTS
    UsesOpenOutput
    ClosedMeansStop
    PublishedIsClosed
    NothingSkipped
    MessagesReleased
    AllReclaimed
PROPERTY IntervalSlotsAdvance
