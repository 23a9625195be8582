SPECIFICATION Spec
CONSTANTS
    p1 = p1
    p2 = p2
    Proc = {p1, p2}
    Reader = {p1}
    Opens <- Files
    Inode = {1, 2}
    Byte = {1}
    Torn = 9
    None = None
    BSIZE = 2
    NDIRECT = 1
    NMETA = 1
    SIZE = 5
    BPB = 1
    MAXOPBLOCKS = 6
    Lens <- Lengths
    MaxTorn = 1
    MaxImage = 3
INVARIANTS BlocksOwned NoPanic  ChunkFits
VIEW View
