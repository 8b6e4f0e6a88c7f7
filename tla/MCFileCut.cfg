SPECIFICATION Spec
CONSTANTS
    BufSz = 12
    Files <- CutLength
INVARIANT LengthIsThere
