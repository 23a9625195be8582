------------------------------ MODULE MCBio -----------------------------
\* The buffer cache, with buffers and data values up to renaming.
EXTENDS Bio, TLC

Symmetry == Permutations(Buf) \cup Permutations(Data)
=========================================================================
