---------------------------- MODULE UserMem ----------------------------
(***************************************************************************)
(* The calls that build and take apart address spaces: fork(), exec(),     *)
(* sbrk(), wait() (kernel/proc.c, exec.c, sysfile.c, sysproc.c), on the    *)
(* allocator and the page tables of module Vm, with every allocation able  *)
(* to fail.                                                                *)
(*                                                                         *)
(* A system call is one step: a page table is used by one process only,    *)
(* and kmem.lock orders kalloc() and kfree().  Pipes take and return pages *)
(* between the steps, so that allocation may fail at any point of a call.  *)
(*                                                                         *)
(* Faulty variants of a definition stand right before it; they only serve  *)
(* to show that a property can fail.                                       *)
(***************************************************************************)
EXTENDS Vm

CONSTANTS
    Proc, InitProc,
    MAXARG,
    Execs,       \* calls of exec(), records of
                 \*  segs: vaddr, memsz and filesz of each segment of the file,
                 \*  short: the segment for which readi() is short, or 0,
                 \*  argc: the number of argument strings,
                 \*  fault: copying the last one from user memory fails,
                 \*  fit: they fit in the stack page
    Grow,        \* arguments of sbrk()
    MaxSz,       \* bound on p->sz where sbrk() can succeed
    MaxPipes     \* bound on the pages held by pipes

ASSUME UserMemAssumption == InitProc \in Proc /\ MAXARG \in Nat \ {0}

VARIABLES
    mem,     \* the memory of the machine
    procs,   \* pagetable, trapframe and sz of each process; 0 in an unused slot
    pipes,   \* the pages of pipes
    space    \* what the page table of each process maps: derived from mem and
             \* procs, a variable so that it is computed once in a state

vars == <<mem, procs, pipes, space>>

Settled(m) == [m EXCEPT !.r = NoPage, !.ok = TRUE]
Unused == [pagetable |-> NoPage, trapframe |-> NoPage, sz |-> 0]
------------------------------------------------------------------------
\* r: a page table with trampoline and trapframe, or NoPage
proc_pagetable(m, trapframe) ==
    LET Drop(x, pagetable) == [uvmfree(x, pagetable, 0) EXCEPT !.r = NoPage]
    IN  With(uvmcreate(m), LAMBDA m0 :
          IF m0.r = NoPage THEN m0
          ELSE With(mappages(m0, m0.r, TRAMPOLINE, trampoline, "kernel"), LAMBDA m1 :
                 IF ~m1.ok THEN Drop(m1, m0.r)
                 ELSE With(mappages(m1, m0.r, TRAPFRAME, trapframe, "kernel"), LAMBDA m2 :
                        IF m2.ok THEN [m2 EXCEPT !.r = m0.r]
                        ELSE Drop(uvmunmap(m2, m0.r, TRAMPOLINE, 1, FALSE), m0.r))))

proc_freepagetable(m, pagetable, sz) ==
    uvmfree(uvmunmap(uvmunmap(m, pagetable, TRAMPOLINE, 1, FALSE), pagetable, TRAPFRAME, 1, FALSE),
            pagetable, sz)

freeproc(m, p) ==
    With(IF p.trapframe # NoPage THEN kfree(m, p.trapframe) ELSE m, LAMBDA x :
      IF p.pagetable # NoPage THEN proc_freepagetable(x, p.pagetable, p.sz) ELSE x)

\* The new process is np; m.ok says whether there is one.
allocproc(m) ==
    LET Fail(x, np) == [m |-> [freeproc(x, np) EXCEPT !.ok = FALSE], np |-> Unused]
    IN  With(kalloc(m), LAMBDA tf :
          IF tf.r = NoPage THEN Fail(tf, Unused)
          ELSE With(proc_pagetable(tf, tf.r), LAMBDA pt :
                 With([pagetable |-> pt.r, trapframe |-> tf.r, sz |-> 0], LAMBDA np :
                   IF pt.r = NoPage THEN Fail(pt, np) ELSE [m |-> [pt EXCEPT !.ok = TRUE], np |-> np])))

Lives(p) == procs[p].pagetable # NoPage

\* The entries for the user memory of p, and what they map.
Leaves(p) ==
    IF ~Lives(p) THEN << >>
    ELSE [k \in 1 .. npages(procs[p].sz) |-> leaf(mem, procs[p].pagetable, (k - 1) * PGSIZE)]
SpaceOf(p) ==
    With(Leaves(p), LAMBDA s :
      [k \in DOMAIN s |-> [perm |-> s[k][1], val |-> IF s[k][2] \in Page THEN mem.val[s[k][2]] ELSE "none"]])
Mapped == [p \in Proc |-> SpaceOf(p)]

\* userinit() with uvmfirst(): one page of initcode.
Init ==
    \E a \in {allocproc([free |-> Page, tab |-> [pa \in Page |-> Junk], val |-> [pa \in Page |-> "junk"],
                         panic |-> FALSE, r |-> NoPage, ok |-> TRUE])} :
        /\ mem = Settled(addpage(a.m, a.np.pagetable, 0, "written", "user"))
        /\ procs = [p \in Proc |-> IF p = InitProc THEN [a.np EXCEPT !.sz = PGSIZE] ELSE Unused]
        /\ pipes = {}
        /\ space = Mapped
------------------------------------------------------------------------
\* sys_sbrk() with growproc(n), in the arithmetic of uint64.
growproc(p, n) ==
    LET pr == procs[p]
        newsz == (pr.sz + n) % UINT64
    IN  /\ Lives(p)
        /\ n > 0 /\ newsz > MaxSz => newsz > NPAGE * PGSIZE
        /\ \E m \in {IF n > 0 THEN uvmalloc(mem, pr.pagetable, pr.sz, newsz)
                     ELSE IF n < 0 THEN uvmdealloc(mem, pr.pagetable, pr.sz, newsz)
                     ELSE [mem EXCEPT !.r = pr.sz]} :
             /\ mem' = Settled(m)
             /\ procs' = IF n > 0 /\ m.r = 0 THEN procs ELSE [procs EXCEPT ![p].sz = m.r]
        /\ UNCHANGED pipes

\* fork() of p into the free slot q.
fork(p, q) ==
    /\ Lives(p) /\ ~Lives(q)
    /\ \E a \in {allocproc(mem)} :
         \/ /\ ~a.m.ok
            /\ mem' = Settled(a.m)
            /\ UNCHANGED procs
         \/ /\ a.m.ok
            /\ \E m \in {uvmcopy(a.m, procs[p].pagetable, a.np.pagetable, procs[p].sz)} :
                 \/ /\ ~m.ok
                    /\ mem' = Settled(freeproc(m, a.np))
                    /\ UNCHANGED procs
                 \/ /\ m.ok
                    /\ mem' = Settled(m)
                    /\ procs' = [procs EXCEPT ![q] = [a.np EXCEPT !.sz = procs[p].sz]]
    /\ UNCHANGED pipes

\* wait() of a process that has exited
wait(p) ==
    /\ Lives(p) /\ p # InitProc
    /\ mem' = Settled(freeproc(mem, procs[p]))
    /\ procs' = [procs EXCEPT ![p] = Unused]
    /\ UNCHANGED pipes

\* The pages of loadseg(), which stops at a readi() that is short.
loadseg(m, pagetable, seg, short) ==
    LET Load(x, k) ==
            IF ~x.ok THEN x
            ELSE With(walkaddr(x, pagetable, seg.vaddr + k * PGSIZE), LAMBDA pa :
                   IF pa = NoPage THEN Panic(x) ELSE [x EXCEPT !.val[pa] = "written", !.ok = ~short])
    IN  For(npages(seg.filesz), [m EXCEPT !.ok = TRUE], Load)

\* The loop over the program headers; r is sz.  A segment that is not well formed
\* or for which there is no memory, or a short readi(), ends it with ok false.
loadprogram(m, pagetable, prog) ==
    LET Add(x, seg, short) ==
            IF ~x.ok THEN x
            ELSE IF seg.memsz < seg.filesz \/ seg.vaddr % PGSIZE # 0 THEN [x EXCEPT !.ok = FALSE]
            ELSE With(uvmalloc(x, pagetable, x.r, seg.vaddr + seg.memsz), LAMBDA m1 :
                   IF m1.r = 0 THEN [m1 EXCEPT !.r = x.r, !.ok = FALSE]
                   ELSE [loadseg(m1, pagetable, seg, short) EXCEPT !.r = m1.r])
    IN  For(Len(prog.segs), [m EXCEPT !.r = 0, !.ok = TRUE],
            LAMBDA x, i : Add(x, prog.segs[i + 1], prog.short = i + 1))

\* np: the process after exec(), equal to pr if it fails.
exec(m, pr, call) ==
    LET Bad(x, pagetable, sz) == [m |-> proc_freepagetable(x, pagetable, sz), np |-> pr]
        Commit(x, pagetable, sz) ==
            [m |-> proc_freepagetable(x, pr.pagetable, pr.sz),
             np |-> [pr EXCEPT !.pagetable = pagetable, !.sz = sz]]
        Push(x, pagetable, sz) ==
            With(uvmclear(x, pagetable, sz - 2 * PGSIZE), LAMBDA y :
              With(copyout(y, pagetable, sz - PGSIZE, PGSIZE), LAMBDA z :
                IF call.fit /\ z.ok THEN Commit(z, pagetable, sz) ELSE Bad(z, pagetable, sz)))
        Stack(x, pagetable, sz) ==
            With(uvmalloc(x, pagetable, sz, sz + 2 * PGSIZE), LAMBDA y :
              IF y.r = 0 THEN Bad(y, pagetable, sz) ELSE Push(y, pagetable, y.r))
    IN  With(proc_pagetable(m, pr.trapframe), LAMBDA m1 :
          IF m1.r = NoPage THEN [m |-> m1, np |-> pr]
          ELSE With(loadprogram(m1, m1.r, call), LAMBDA m2 :
                 IF ~m2.ok THEN Bad(m2, m1.r, m2.r) ELSE Stack(m2, m1.r, PGROUNDUP(m2.r))))

\* sys_exec(): each argument string is in a page of its own while exec() runs.
sys_exec(p, call) ==
    LET n == call.argc
        Fetch(s, k) ==
            IF ~s.m.ok THEN s
            ELSE IF s.m.free = {} THEN [s EXCEPT !.m.ok = FALSE]
            ELSE With(kalloc(s.m), LAMBDA x :
                   [m |-> [x EXCEPT !.ok = ~(call.fault /\ k = n - 1)], argv |-> Append(s.argv, x.r)])
    IN  /\ Lives(p)
        /\ \E f \in {For(n, [m |-> mem, argv |-> << >>], Fetch)} :
           \E ran \in {IF f.m.ok /\ n < MAXARG THEN exec(f.m, procs[p], call)
                       ELSE [m |-> f.m, np |-> procs[p]]} :
             /\ mem' = Settled(For(Len(f.argv), ran.m, LAMBDA x, k : kfree(x, f.argv[k + 1])))
             /\ procs' = [procs EXCEPT ![p] = ran.np]
        /\ UNCHANGED pipes

\* A store by the program to the page at va, if it may.
store(p, va) ==
    /\ Lives(p) /\ walkaddr(mem, procs[p].pagetable, va) # NoPage
    /\ mem' = [mem EXCEPT !.val[walkaddr(mem, procs[p].pagetable, va)] = "written"]
    /\ UNCHANGED <<procs, pipes>>

\* sys_sysinfo(): copyout() of a struct that may lie across two pages.
sys_sysinfo(p, va) ==
    /\ Lives(p)
    /\ mem' = Settled(copyout(mem, procs[p].pagetable, va, PGSIZE))
    /\ UNCHANGED <<procs, pipes>>

\* pipealloc() and pipeclose()
pipealloc ==
    /\ Cardinality(pipes) < MaxPipes /\ mem.free # {}
    /\ mem' = Settled(kalloc(mem))
    /\ pipes' = pipes \cup {kalloc(mem).r}
    /\ UNCHANGED procs

pipeclose ==
    /\ \E pa \in pipes : mem' = kfree(mem, pa) /\ pipes' = pipes \ {pa}
    /\ UNCHANGED procs

Step ==
    \/ pipealloc \/ pipeclose
    \/ \E p \in Proc :
         \/ \E n \in Grow : growproc(p, n)
         \/ \E q \in Proc : fork(p, q)
         \/ \E call \in Execs : sys_exec(p, call)
         \/ wait(p)
         \/ store(p, 0)
         \/ sys_sysinfo(p, PGSIZE + 1)

Next == Step /\ space' = Mapped'

Spec == Init /\ [][Next]_vars
------------------------------------------------------------------------
\* The pages of a page table with the tables it points to, top down, as they
\* occur: a page that occurs twice is listed twice.
RECURSIVE Tables(_, _)
Tables(m, pagetable) ==
    LET Below(s, i) == LET pte == m.tab[pagetable][i]
                       IN  IF pte[1] = "table" THEN s \o Tables(m, pte[2]) ELSE s
    IN  For(FAN, <<pagetable>>, Below)

\* All pages in use, each as often as something refers to it.
InUse ==
    LET Of(s, p) == IF ~Lives(p) THEN s
                    ELSE s \o <<procs[p].trapframe>> \o Tables(mem, procs[p].pagetable)
                           \o [k \in DOMAIN Leaves(p) |-> Leaves(p)[k][2]]
    IN  FoldLeft(Of, SetToSeq(pipes), SetToSeq(Proc))

\* Every page is free or in use by one owner: nothing leaks and nothing is freed
\* twice or shared, whatever allocation failed in a fork(), exec() or sbrk() and
\* however it was undone.  So availmemory() reports what is really left.  No
\* panic of kalloc.c, vm.c and exec.c is reached.
PagesOwned ==
    /\ ~mem.panic
    /\ Len(InUse) + Cardinality(mem.free) = NPAGE
    /\ ToSet(InUse) = Page \ mem.free
    /\ availmemory(mem) = PGSIZE * (NPAGE - Len(InUse))

\* What exec() is to make of a program: its segments, a guard page, the stack.
ImageOf(prog) ==
    LET N == Max({npages(s.vaddr + s.memsz) : s \in ToSet(prog.segs)} \cup {0})
        Loaded(k) == \E s \in ToSet(prog.segs) : k * PGSIZE >= s.vaddr /\ k * PGSIZE < s.vaddr + s.filesz
    IN  [k \in 1 .. (N + 2) |->
            CASE k <= N -> [perm |-> "user", val |-> IF Loaded(k - 1) THEN "written" ELSE "zero"]
              [] k = N + 1 -> [perm |-> "guard", val |-> "zero"]
              [] k = N + 2 -> [perm |-> "user", val |-> "written"]]

Spaces == INSTANCE AddressSpace WITH
    Image <- {ImageOf(call) : call \in Execs},
    Zero <- "zero", Written <- "written", MaxGrow <- NPAGE

\* fork() gives the child a copy of its own, exec() makes the process its
\* program with a guard page below the stack, sbrk() adds zeroed pages or cuts
\* pages off, wait() takes all away; a call that fails changes no address space.
SpacesKept == Spaces!Spec

\* States up to the choice of pages.
View ==
    <<[p \in Proc |-> IF Lives(p) THEN <<procs[p].sz, space[p], Len(Tables(mem, procs[p].pagetable))>>
                       ELSE << >>],
      mem.panic, Cardinality(mem.free), Cardinality(pipes)>>
========================================================================
