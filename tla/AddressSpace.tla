-------------------------- MODULE AddressSpace --------------------------
(***************************************************************************)
(* What the kernel promises about user memory: every process has pages     *)
(* 0 .. n-1 of its own, each with a use ("user", or "guard" for a page     *)
(* that the process must not touch) and contents.  A call either does the  *)
(* whole of one of these steps or changes no address space at all.         *)
(***************************************************************************)
EXTENDS Integers, Sequences

CONSTANTS
    Proc, Image,   \* Image: what exec() may make of a process
    Zero, Written, \* contents of a fresh page and of one written since
    MaxGrow        \* bound on the pages that one step adds

VARIABLES space    \* of each process, a sequence of pages [perm, val]

Init == \E p \in Proc : space = [q \in Proc |-> IF q = p THEN <<[perm |-> "user", val |-> Written]>>
                                                ELSE << >>]

Becomes(p, s) == space' = [space EXCEPT ![p] = s]

Fork(p, q) == space[q] = << >> /\ Becomes(q, space[p])

Exec(p) == \E s \in Image : Becomes(p, s)

\* sbrk() and, for n = 0, the end of the process
Resize(p, n) ==
    Becomes(p, [k \in 1 .. n |-> IF k <= Len(space[p]) THEN space[p][k]
                                 ELSE [perm |-> "user", val |-> Zero]])

\* The process or the kernel on its behalf writes to pages a to b.
Store(p, a, b) ==
    /\ \A k \in a .. b : space[p][k].perm = "user"
    /\ Becomes(p, [k \in DOMAIN space[p] |->
                      IF k \in a .. b THEN [perm |-> "user", val |-> Written] ELSE space[p][k]])

Next ==
    \E p \in Proc :
        \/ \E q \in Proc : Fork(p, q)
        \/ Exec(p)
        \/ \E n \in 0 .. (Len(space[p]) + MaxGrow) : Resize(p, n)
        \/ \E a, b \in DOMAIN space[p] : Store(p, a, b)

Spec == Init /\ [][Next]_space
========================================================================
