SPECIFICATION Spec
CONSTANTS
    t1 = t1
    t2 = t2
    None = None
    Threads = {t1, t2}
    NOut = 2
    Configs <- RaceConfigs
    MaxMessages = 2
    MaxFiles = 3
    MaxTime = 3
INVARIANT CountHonoured
