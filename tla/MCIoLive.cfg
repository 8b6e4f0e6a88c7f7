SPECIFICATION FairSpec
CONSTANTS
    t1 = t1
    t2 = t2
    None = None
    Threads = {t1, t2}
    NOut = 2
    Configs <- LiveConfigs
    MaxMessages = 1
    MaxFiles = 3
    MaxTime = 3
PROPERTY StopTerminates
