SPECIFICATION Spec
CONSTANTS
    p1 = p1
    p2 = p2
    i1 = i1
    i2 = i2
    i3 = i3
    a = a
    b = b
    Proc = {p1, p2}
    InitProc = p1
    Inum = {i1, i2, i3}
    Root = i1
    Name = {a, b}
    Args <- Paths
    Type = {"dir"}
    File = {f1}
    MaxStray = 0
    NOFILE = 2
    None = None
INVARIANTS RefsCounted  NoPanic NoDeadlock
SYMMETRY Symmetry
