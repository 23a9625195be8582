SPECIFICATION Spec
CONSTANTS
    p1 = p1
    p2 = p2
    Proc = {p1, p2}
    Nest = {p1}
    Buf = {c1, c2, c3}
    Data = {d0, d1}
    Block = {1, 2, 3, 4}
    LogBlock = {1}
    Written = {2}
    None = None
    MaxPins = 1
SYMMETRY Symmetry
INVARIANT CacheInv
 
