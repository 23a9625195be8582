SPECIFICATION Spec
CONSTANTS
    Proc = {p1, p2}
    InitProc = p1
    NPAGE = 20
    FAN = 4
    PGSIZE = 2
    MAXARG = 2
    Execs <- Calls
    Grow <- Amounts
    MaxSz = 6
    MaxPipes = 1
    UINT64 = 1024
INVARIANT PagesOwned
PROPERTY SpacesKept
VIEW View
