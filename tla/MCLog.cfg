SPECIFICATION FairSpec
CONSTANTS
    p1 = p1
    p2 = p2
    b1 = b1
    b2 = b2
    d0 = d0
    d1 = d1
    Proc = {p1, p2}
    Reader = {p2}
    Block = {b1, b2}
    Data = {d0, d1}
    Zero = d0
    NoBuf = NoBuf
    NoProc = NoProc
    MAXOPBLOCKS = 4
    OPBLOCKS = 2
    LOGSIZE = 8
    NLOG = 8
INVARIANTS
    
    NoPanic
PROPERTIES
    CallsEnd
    
