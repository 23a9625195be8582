SPECIFICATION FairSpec
CONSTANTS
    Writer = {w1, w2}
    Reader = {r1}
    Killable = {w1, r1}
    NoProc = NoProc
    Byte = {b0, b1}
    PIPESIZE = 2
    UINT = 4
    MaxN = 2
    MaxKills = 1
INVARIANTS WakeupNotLost FreedUnused
PROPERTIES Fifo 
CHECK_DEADLOCK FALSE
VIEW View
