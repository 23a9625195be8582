------------------------------- MODULE Vm -------------------------------
(***************************************************************************)
(* The page allocator (kernel/kalloc.c) and the three-level page tables of *)
(* user memory (kernel/vm.c).  A function of the code is an operator on a  *)
(* record m: the free pages, the page tables, the contents of pages, and   *)
(* whether the kernel has panicked, together with the result r (a page or  *)
(* a size) and ok (whether the call succeeded).                            *)
(*                                                                         *)
(* Addresses are bytes; contents are kept per page.  Permission bits are   *)
(* reduced to: "none" (PTE_V clear), "table", "user" (PTE_U), "guard" (a   *)
(* user page after uvmclear()), "kernel".                                  *)
(*                                                                         *)
(* Faulty variants of a definition stand right before it (such as          *)
(* npagesFull); they only serve to show that a property can fail.          *)
(***************************************************************************)
EXTENDS Integers, Sequences, FiniteSets, SequencesExt

CONSTANTS
    NPAGE,          \* pages of memory that kinit() finds
    FAN,            \* entries of a page table: 512 in the kernel
    PGSIZE,         \* bytes of a page: 4096 in the kernel
    UINT64          \* values of a uint64: 2^64 in the kernel

Page == 1 .. NPAGE
NoPage == 0
trampoline == NPAGE + 1              \* a page of kernel text
MAXVA == (FAN * FAN * FAN * PGSIZE) \div 2
TRAMPOLINE == MAXVA - PGSIZE
TRAPFRAME == TRAMPOLINE - PGSIZE

\* The machine has less memory than there are addresses below TRAPFRAME.
ASSUME VmAssumption ==
    NPAGE * PGSIZE < TRAPFRAME /\ MAXVA < UINT64
------------------------------------------------------------------------
\* F(v), with the value v computed once
With(v, F(_)) == CHOOSE y \in {F(x) : x \in {v}} : TRUE

\* The loop for(k = 0; k < n; k++) m = Step(m, k)
For(n, m, Step(_, _)) ==
    LET Turn(y, k) == With(y, LAMBDA x : Step(x, k))
    IN  FoldLeft(Turn, m, [k \in 1 .. n |-> k - 1])
------------------------------------------------------------------------
\* kernel/kalloc.c.  Both fill the page with junk, which no page table may hold.
Junk == [k \in 0 .. (FAN - 1) |-> <<"junk", NoPage>>]
Clear == [k \in 0 .. (FAN - 1) |-> <<"none", NoPage>>]

kfree(m, pa) ==
    [m EXCEPT !.free = @ \cup {pa}, !.tab[pa] = Junk, !.val[pa] = "junk",
              !.panic = @ \/ pa \notin Page \/ pa \in m.free]

kalloc(m) ==
    IF m.free = {} THEN [m EXCEPT !.r = NoPage]
    ELSE LET pa == CHOOSE pa \in m.free : TRUE
         IN  [m EXCEPT !.free = @ \ {pa}, !.r = pa]

availmemory(m) == PGSIZE * Cardinality(m.free)
------------------------------------------------------------------------
\* kernel/vm.c
PGROUNDUP(sz) == ((sz + PGSIZE - 1) \div PGSIZE) * PGSIZE
PX(level, va) == (va \div (PGSIZE * FAN ^ level)) % FAN
Panic(m) == [m EXCEPT !.panic = TRUE]

\* One level of walk(), from the table m.r down.
down(m, va, level, alloc) ==
    IF m.r = NoPage THEN m
    ELSE LET at == PX(level, va)
             pte == m.tab[m.r][at]
         IN  CASE pte[1] = "table" -> [m EXCEPT !.r = pte[2]]
               [] pte[1] = "none" ->
                    IF ~alloc \/ m.free = {} THEN [m EXCEPT !.r = NoPage]
                    ELSE With(kalloc(m), LAMBDA k :
                           [k EXCEPT !.tab[k.r] = Clear, !.tab[m.r][at] = <<"table", k.r>>])
               [] OTHER -> [Panic(m) EXCEPT !.r = NoPage]

\* r: the page table of level 0 for va, or NoPage
walk(m, pagetable, va, alloc) ==
    IF va >= MAXVA THEN [Panic(m) EXCEPT !.r = NoPage]
    ELSE For(2, [m EXCEPT !.r = pagetable], LAMBDA x, k : down(x, va, 2 - k, alloc))

\* The leaf entry for va, which walk() finds without alloc.
leaf(m, pagetable, va) ==
    With(walk(m, pagetable, va, FALSE).r, LAMBDA t :
      IF t = NoPage THEN <<"none", NoPage>> ELSE m.tab[t][PX(0, va)])

walkaddr(m, pagetable, va) ==
    IF va >= MAXVA THEN NoPage
    ELSE With(leaf(m, pagetable, va), LAMBDA pte : IF pte[1] = "user" THEN pte[2] ELSE NoPage)

\* mappages() of one page, as all user mappings are.
mappages(m, pagetable, va, pa, perm) ==
    With(walk(m, pagetable, va, TRUE), LAMBDA k :
      IF k.r = NoPage THEN [k EXCEPT !.ok = FALSE]
      ELSE IF k.tab[k.r][PX(0, va)][1] # "none" THEN Panic(k)
      ELSE [k EXCEPT !.tab[k.r][PX(0, va)] = <<perm, pa>>, !.ok = TRUE])

unmap(m, pagetable, a, do_free) ==
    With(walk(m, pagetable, a, FALSE).r, LAMBDA t :
      IF t = NoPage THEN Panic(m)
      ELSE With(m.tab[t][PX(0, a)], LAMBDA pte :
             IF pte[1] \in {"none", "table", "junk"} THEN Panic(m)
             ELSE With(IF do_free THEN kfree(m, pte[2]) ELSE m, LAMBDA x :
                    [x EXCEPT !.tab[t][PX(0, a)] = <<"none", NoPage>>])))

uvmunmap(m, pagetable, va, n, do_free) ==
    For(n, m, LAMBDA x, k : unmap(x, pagetable, va + k * PGSIZE, do_free))

uvmcreate(m) ==
    With(kalloc(m), LAMBDA k : IF k.r = NoPage THEN k ELSE [k EXCEPT !.tab[k.r] = Clear])

uvmdealloc(m, pagetable, oldsz, newsz) ==
    IF newsz >= oldsz THEN [m EXCEPT !.r = oldsz]
    ELSE LET from == PGROUNDUP(newsz)
             n == (PGROUNDUP(oldsz) - from) \div PGSIZE
         IN  [uvmunmap(m, pagetable, from, n, TRUE) EXCEPT !.r = newsz]

\* A fresh page with contents val, mapped at va; ok false if there is no memory,
\* and then the page is freed again.
giveBackNot(m, pa) == m
giveBack(m, pa) == kfree(m, pa)
addpage(m, pagetable, va, val, perm) ==
    IF m.free = {} THEN [m EXCEPT !.ok = FALSE]
    ELSE With(kalloc(m), LAMBDA k :
           With(mappages([k EXCEPT !.val[k.r] = val], pagetable, va, k.r, perm), LAMBDA x :
             IF x.ok THEN x ELSE giveBack(x, k.r)))

\* r: newsz, or 0 when out of memory; what was mapped so far is given back.
uvmalloc(m, pagetable, oldsz0, newsz) ==
    LET oldsz == PGROUNDUP(oldsz0)
        Add(x, a) ==
            IF ~x.ok THEN x
            ELSE With(addpage(x, pagetable, a, "zero", "user"), LAMBDA y :
                   IF y.ok THEN y ELSE [uvmdealloc(y, pagetable, a, oldsz) EXCEPT !.ok = FALSE])
    IN  IF newsz < oldsz0 THEN [m EXCEPT !.r = oldsz0]
        ELSE With(For((PGROUNDUP(newsz) - oldsz) \div PGSIZE, [m EXCEPT !.ok = TRUE],
                      LAMBDA x, k : Add(x, oldsz + k * PGSIZE)),
                  LAMBDA y : [y EXCEPT !.r = IF y.ok THEN newsz ELSE 0])

RECURSIVE freewalk(_, _)
freewalk(m, pagetable) ==
    LET Free(x, i) ==
            LET pte == x.tab[pagetable][i]
            IN  CASE pte[1] = "table" -> freewalk(x, pte[2])
                  [] pte[1] = "none" -> x
                  [] OTHER -> Panic(x)
    IN  With(For(FAN, m, Free), LAMBDA y : kfree(y, pagetable))

\* for(i = 0; i < sz; i += PGSIZE)
npagesFull(sz) == sz \div PGSIZE
npages(sz) == PGROUNDUP(sz) \div PGSIZE

uvmfree(m, pagetable, sz) ==
    With(uvmunmap(m, pagetable, 0, PGROUNDUP(sz) \div PGSIZE, TRUE), LAMBDA x : freewalk(x, pagetable))

uvmcopy(m, old, new, sz) ==
    LET Copy(x, i) ==
            IF ~x.ok THEN x
            ELSE With(leaf(x, old, i * PGSIZE), LAMBDA pte :
                   IF pte[1] \notin {"user", "guard"} THEN Panic(x)
                   ELSE With(addpage(x, new, i * PGSIZE, x.val[pte[2]], pte[1]), LAMBDA y :
                          IF y.ok THEN y ELSE [uvmunmap(y, new, 0, i, TRUE) EXCEPT !.ok = FALSE]))
    IN  For(npages(sz), [m EXCEPT !.ok = TRUE], Copy)

uvmclear(m, pagetable, va) ==
    With(walk(m, pagetable, va, FALSE).r, LAMBDA t :
      IF t = NoPage THEN Panic(m) ELSE [m EXCEPT !.tab[t][PX(0, va)][1] = "guard"])

\* copyout() of len bytes: page after page, until one is not the user's.
copyout(m, pagetable, dstva, len) ==
    LET first == dstva \div PGSIZE
        Put(x, k) ==
            IF ~x.ok THEN x
            ELSE With(walkaddr(x, pagetable, (first + k) * PGSIZE), LAMBDA pa :
                   IF pa = NoPage THEN [x EXCEPT !.ok = FALSE] ELSE [x EXCEPT !.val[pa] = "written"])
    IN  For((dstva + len - 1) \div PGSIZE - first + 1, [m EXCEPT !.ok = TRUE], Put)
========================================================================
