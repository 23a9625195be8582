------------------------------ MODULE MCFs ------------------------------
\* A tree of a few inodes with two names, and the paths used in it.
EXTENDS Fs

CONSTANTS a, b

Paths == [p \in Proc |->
    IF p = InitProc
      THEN [open |-> {<<a>>, <<a, b, "..", b>>}, create |-> {<<a>>}, mknod |-> {<<a>>, <<a, b>>},
            chdir |-> {}, old |-> {<<a>>}, new |-> {<<b>>}, unlink |-> {}]
      ELSE [open |-> {}, create |-> {}, mknod |-> {},
            chdir |-> {<<a>>}, old |-> {}, new |-> {}, unlink |-> {<<a>>, <<b>>, <<a, b>>}]]
Symmetry == Permutations(Inum \ {Root})
=========================================================================
