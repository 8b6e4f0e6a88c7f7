SPECIFICATION Spec
CONSTANTS
    BufSz = 12
    Files <- MCFiles
INVARIANTS
    ReadFits
    BytesInOrder
    WholeContainers
