SPECIFICATION FairSpec
CONSTANTS
    Buf = {b1, b2, b3}
    Data = {d0}
    Null = Null
    NUM = 5
    UINT16 = 10
PROPERTY RequestReturns
