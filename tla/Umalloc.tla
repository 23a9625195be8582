---------------------------- MODULE Umalloc ----------------------------
(***************************************************************************)
(* The memory allocator of user programs (user/umalloc.c): a circular list *)
(* of free blocks in order of address, first fit from where the last       *)
(* search ended, adjacent free blocks merged, and sbrk() when no block is  *)
(* large enough.  One turn of a loop is one step.                          *)
(*                                                                         *)
(* Addresses count headers.  The list starts at base, which lies below     *)
(* the heap.  Units, the sizes asked for, stay small: morecore() passes    *)
(* nu * sizeof(Header) as an int.                                          *)
(*                                                                         *)
(* Faulty variants of a definition stand right before it (such as          *)
(* joinLate); they only serve to show that a property can fail.            *)
(***************************************************************************)
EXTENDS Integers, FiniteSets

CONSTANTS
    Units,     \* values of nunits
    NALLOC,    \* the least that morecore() asks for: 4096
    HEAP,      \* memory the kernel has for the heap; beyond it sbrk() fails
    MaxForeign \* bound on the calls of sbrk() by the program itself

NULL == -1
base == 0
Addr == 0 .. HEAP

VARIABLES
    ptr, size,   \* the headers
    freep,
    brk,         \* the end of the heap
    used,        \* blocks that the program has from malloc()
    foreign,     \* addresses that the program got from sbrk() itself
    pc, p, prevp, bp, nunits

list == <<ptr, size, freep>>
regs == <<pc, p, prevp, bp, nunits>>
vars == <<list, brk, used, foreign, regs>>

Init ==
    /\ ptr = [a \in Addr |-> 0] /\ size = [a \in Addr |-> 0]
    /\ freep = NULL
    /\ brk = 1
    /\ used = {} /\ foreign = {}
    /\ pc = "program" /\ p = 0 /\ prevp = 0 /\ bp = 0 /\ nunits = 0

malloc(n) ==
    /\ pc = "program"
    /\ nunits' = n
    /\ freep' = IF freep = NULL THEN base ELSE freep
    /\ ptr' = IF freep = NULL THEN [ptr EXCEPT ![base] = base] ELSE ptr
    /\ prevp' = freep'
    /\ p' = ptr'[freep']
    /\ pc' = "search"
    /\ UNCHANGED <<size, brk, used, foreign, bp>>

\* The program has the block at a.
returns(a) ==
    /\ used' = used \cup {a}
    /\ freep' = prevp
    /\ pc' = "program" /\ p' = 0 /\ prevp' = 0 /\ nunits' = 0

malloc_exact ==
    /\ pc = "search" /\ size[p] = nunits
    /\ ptr' = [ptr EXCEPT ![prevp] = ptr[p]]
    /\ returns(p)
    /\ UNCHANGED <<size, brk, foreign, bp>>

\* The tail of the block is handed out.
malloc_split ==
    /\ pc = "search" /\ size[p] > nunits
    /\ LET tail == p + (size[p] - nunits) IN
         /\ size' = [size EXCEPT ![p] = @ - nunits, ![tail] = nunits]
         /\ returns(tail)
    /\ UNCHANGED <<ptr, brk, foreign, bp>>

malloc_next ==
    /\ pc = "search" /\ size[p] < nunits /\ p # freep
    /\ prevp' = p /\ p' = ptr[p]
    /\ UNCHANGED <<list, brk, used, foreign, pc, bp, nunits>>

\* morecore(): sbrk(), which may fail, and free() of what it gives.
More == IF nunits < NALLOC THEN NALLOC ELSE nunits

morecore ==
    /\ pc = "search" /\ size[p] < nunits /\ p = freep
    /\ brk + More - 1 <= HEAP
    /\ size' = [size EXCEPT ![brk] = More]
    /\ brk' = brk + More
    /\ bp' = brk /\ p' = freep
    /\ pc' = "free in morecore"
    /\ UNCHANGED <<ptr, freep, used, foreign, prevp, nunits>>

morecore_fail ==
    /\ pc = "search" /\ size[p] < nunits /\ p = freep
    /\ brk + More - 1 > HEAP
    /\ pc' = "program" /\ p' = 0 /\ prevp' = 0 /\ nunits' = 0
    /\ UNCHANGED <<list, brk, used, foreign, bp>>

free(b) ==
    /\ pc = "program"
    /\ used' = used \ {b}
    /\ bp' = b /\ p' = freep
    /\ pc' = "free"
    /\ UNCHANGED <<list, brk, foreign, prevp, nunits>>

\* The block belongs between p and ptr[p], or at one of the ends of the list.
fits == (bp > p /\ bp < ptr[p]) \/ (p >= ptr[p] /\ (bp > p \/ bp < ptr[p]))

free_next ==
    /\ pc \in {"free", "free in morecore"} /\ ~fits
    /\ p' = ptr[p]
    /\ UNCHANGED <<list, brk, used, foreign, pc, prevp, bp, nunits>>

\* Merge with the block above, then with the block below.
joinLate == bp + size[bp] = ptr[p] + 1
joins == bp + size[bp] = ptr[p]

free_link ==
    LET above == ptr[p]
        size1 == IF joins THEN [size EXCEPT ![bp] = @ + size[above]] ELSE size
        next == IF joins THEN ptr[above] ELSE above
        below == p + size[p] = bp
    IN  /\ pc \in {"free", "free in morecore"} /\ fits
        /\ size' = IF below THEN [size1 EXCEPT ![p] = @ + size1[bp]] ELSE size1
        /\ ptr' = IF below THEN [ptr EXCEPT ![p] = next] ELSE [ptr EXCEPT ![bp] = next, ![p] = bp]
        /\ freep' = p
        /\ bp' = 0
        /\ IF pc = "free" THEN pc' = "program" /\ p' = 0 /\ prevp' = 0
           ELSE pc' = "search" /\ prevp' = p /\ p' = ptr'[p]
        /\ UNCHANGED <<brk, used, foreign, nunits>>

\* The program moves the break by one header itself.
sbrk ==
    /\ pc = "program" /\ brk <= HEAP /\ Cardinality(foreign) < MaxForeign
    /\ foreign' = foreign \cup {brk}
    /\ brk' = brk + 1
    /\ UNCHANGED <<list, used, regs>>

inside == malloc_exact \/ malloc_split \/ malloc_next \/ morecore \/ morecore_fail
          \/ free_next \/ free_link

Next ==
    \/ \E n \in Units : malloc(n)
    \/ \E b \in used : free(b)
    \/ sbrk
    \/ inside

Spec == Init /\ [][Next]_vars
------------------------------------------------------------------------
\* The blocks that the list from base leads to.
Reach(n) == LET R[k \in 0 .. n] == IF k = 0 THEN base ELSE ptr[R[k - 1]] IN R
FreeList == {Reach(HEAP)[k] : k \in 0 .. HEAP} \ {base}
Blocks == FreeList \cup used
Cells(b) == b .. (b + size[b] - 1)

\* While the program runs, its blocks, the free blocks and its own memory cover
\* the heap without overlap, however malloc() split and free() merged; the list
\* is in order of address, closed, and has no two blocks that could be one.
HeapKept ==
    pc = "program" /\ freep # NULL =>
        /\ freep \in FreeList \cup {base}
        /\ \A b \in FreeList : ptr[b] > b + size[b] \/ ptr[b] = base
        /\ \E b \in FreeList \cup {base} : ptr[b] = base
        /\ \A b, c \in Blocks : b # c => Cells(b) \cap Cells(c) = {}
        /\ UNION {Cells(b) : b \in Blocks} \cup foreign = 1 .. (brk - 1)

\* The searches of malloc() and free() end.
CallsReturn == pc # "program" ~> pc = "program"
========================================================================
