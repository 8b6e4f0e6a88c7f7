SPECIFICATION Spec
CONSTANTS
    t1 = t1
    t2 = t2
    None = None
    Threads = {t1}
    NOut = 2
    Configs <- SignalConfigs
    MaxMessages = 1
    MaxFiles = 3
    MaxTime = 3
INVARIANT BreakloopTouchesLive
