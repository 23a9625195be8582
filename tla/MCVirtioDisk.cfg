SPECIFICATION Spec
CONSTANTS
    Buf = {b1, b2}
    Data = {d0, d1}
    Null = Null
    NUM = 6
    UINT16 = 12
INVARIANT DescOwned
PROPERTY TransfersOnce
VIEW View
