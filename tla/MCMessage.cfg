SPECIFICATION Spec
CONSTANTS
    Directories <- MCDirectories
    NameOrder <- MCNames
    Short = 4
    Word = 16
    a = a
    b = b
    Handles = {a, b}
    Inits <- MCInits
    Received <- MCReceived
    Captured <- MCCaptured
    Settings <- MCSettings
    Sources = {1}
    ReaderModule <- MCReader
    MaxOps = 5
    MaxTexts = 2
SYMMETRY HandleSymmetry
CHECK_DEADLOCK FALSE
INVARIANTS
    ModulesFound
    WrittenIsCurrent
    TextReadsBack
