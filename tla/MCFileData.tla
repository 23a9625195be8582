--------------------------- MODULE MCFileData ---------------------------
\* Two files on a disk of a few blocks.
EXTENDS FileData

CONSTANTS p1, p2

Lengths == [p \in Proc |-> IF p = p1 THEN {3} ELSE {2}]
Files == [p \in Proc |-> IF p = p1 THEN {1} ELSE {1, 2}]
=========================================================================
