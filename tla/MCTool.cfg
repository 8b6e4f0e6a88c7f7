SPECIFICATION Spec
CONSTANTS
    SizeInit = 2
    UIntMax = 31
    Commands <- MCCommands
    Envs <- MCEnvs
    Vendors <- MCVendors
    Modules <- MCModules
    MaxSpan = 2
    MaxPort = 7
    DefaultFreq = 10
    WbufMin = 2
    WbufJumbo = 4
    WbufMax = 8
    MaxFd = 9
    MaxStamp = 5
INVARIANTS
    SettingsKept
    HandedOver
    RunsAsAsked
    AliasesUsable
