--------------------------- MODULE MCUserMem ---------------------------
\* Module UserMem with a program of two segments, the second with memory that
\* the file does not fill, its four outcomes in the arguments, and two programs
\* that cannot be loaded: by a short read, and by a malformed segment.
EXTENDS UserMem

Seg(vaddr, memsz, filesz) == [vaddr |-> vaddr, memsz |-> memsz, filesz |-> filesz]

Call(segs, short, argc, fault, fit) ==
    [segs |-> segs, short |-> short, argc |-> argc, fault |-> fault, fit |-> fit]

Program == <<Seg(0, 1, 1), Seg(2, 2, 0)>>

Calls == {Call(Program, 0, 1, FALSE, TRUE),
          Call(Program, 0, 1, FALSE, FALSE),
          Call(Program, 0, 1, TRUE, TRUE),
          Call(Program, 0, 2, FALSE, TRUE),
          Call(<<Seg(2, 1, 1), Seg(0, 2, 1)>>, 2, 0, FALSE, TRUE),
          Call(<<Seg(0, 1, 1), Seg(2, 1, 2)>>, 0, 0, FALSE, TRUE)}

Amounts == {3, -1, -100, 2 * NPAGE}
========================================================================
