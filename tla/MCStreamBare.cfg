SPECIFICATION Spec
CONSTANTS
    Configs <- BareConfigs
    Slack = {0}
    ZLens = {300}
    SeqSpace = 4
    Ids = {1}
    FragGC = 2
    SeqsrcGC = 2
    MaxDelta = 2
    Epoch = 2
INVARIANT OutputIsReadable
