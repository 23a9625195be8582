SPECIFICATION FairSpec
CONSTANTS
    w1 = w1
    w2 = w2
    r1 = r1
    r2 = r2
    Loads <- Uses
    Writer = {w1, w2}
    Reader = {r1, r2}
    Killable = {r1}
    Intr = Intr
    NoProc = NoProc
    Byte = {b0, b1}
    Echo = Echo
    NoByte = NoByte
    UART_TX_BUF_SIZE = 1
    UINT64 = 2
    FIFO = 2
    MaxN = 2
    Key = {"x", "cr", "D", "H", "U", "P", "nul"}
    INPUT_BUF_SIZE = 2
    UINT = 4
    MaxTyped = 3
 
PROPERTIES OutputInOrder  OutputMoves
CHECK_DEADLOCK FALSE
