SPECIFICATION Spec
CONSTANTS
    Configs <- MCConfigs
    Slack = {0}
    ZLens = {300, 600}
    SeqSpace = 4
    Ids = {1}
    FragGC = 2
    SeqsrcGC = 2
    MaxDelta = 2
    Epoch = 2
INVARIANTS
    SerializeFits
    FragmentsHoldOneMessage
    AcceptedOnce
    FragmentTree
    ReassembledWhole
    CompleteIsReassembled
    FragmentsExpire
    DropsExact
    DeliveredFiltered
    FileRoundTrip
