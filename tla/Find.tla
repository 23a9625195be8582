------------------------------ MODULE Find ------------------------------
(***************************************************************************)
(* user/find.c: the walk through a directory tree that other processes     *)
(* change meanwhile.  A step is a system call with what find() computes    *)
(* from it; a path is followed anew in each call that is given one.        *)
(*                                                                         *)
(* A directory is a sequence of slots, each free or naming an inode.  "."  *)
(* and "..", which find() skips, are left out, and how a pattern matches   *)
(* is in module Grep.  The test for paths that do not fit in buf never     *)
(* fails, for open() takes no path of MAXPATH (128) characters.            *)
(* External: the kernel's open(), stat(), read(), create and unlink.       *)
(***************************************************************************)
EXTENDS Integers, Sequences, FiniteSets

CONSTANTS
    Trees,       \* the trees to start from: the slots of each directory
    File,        \* inodes that are files
    Name,        \* names that others give to files
    Wanted,      \* names that match the pattern
    NFD,         \* descriptors left to find(): NOFILE - 3
    MAXPATH,     \* the longest path that open() takes, here in names
    MaxChange    \* bound on the changes of others

VARIABLES
    slots,           \* the entries of each directory
    pc, path,        \* path is the argument of find() or stat()
    stack,           \* the calls of find() with a directory open: path, inum, slot
    out,             \* the paths printed
    always, ever,    \* paths that were those of files all the time, at some time
    change

fvars == <<slots, pc, path, stack, out, always, ever, change>>

Root == 1
Free == [name |-> "", inum |-> 0]

RECURSIVE Follow(_, _)
Follow(i, p) ==
    IF p = << >> \/ i = 0 THEN i
    ELSE IF i \in File THEN 0
    ELSE LET es == {k \in DOMAIN slots[i] : slots[i][k].inum # 0 /\ slots[i][k].name = Head(p)}
         IN  IF es = {} THEN 0 ELSE Follow(slots[i][CHOOSE k \in es : TRUE].inum, Tail(p))

\* The paths that begin in directory i, with what they lead to.
RECURSIVE Below(_, _)
Below(sl, i) ==
    UNION {LET e == sl[i][k] IN
             IF e.inum = 0 THEN {}
             ELSE {[path |-> <<e.name>>, inum |-> e.inum]} \cup
                  (IF e.inum \in File THEN {}
                   ELSE {[path |-> <<e.name>> \o b.path, inum |-> b.inum] : b \in Below(sl, e.inum)})
           : k \in DOMAIN sl[i]}
Files(sl) == {b.path : b \in {b \in Below(sl, Root) : b.inum \in File}}

Init ==
    /\ slots \in Trees
    /\ pc = "find" /\ path = << >> /\ stack = << >> /\ out = {}
    /\ always = Files(slots) /\ ever = Files(slots)
    /\ change = 0
------------------------------------------------------------------------
opens(p) == Len(stack) < NFD /\ Len(p) <= MAXPATH /\ Follow(Root, p) # 0

\* A call of find() returns to the loop of the one that made it.
return(st) == stack' = st /\ pc' = IF st = << >> THEN "done" ELSE "read"
world == <<slots, always, ever, change>>

\* open(), fstat() and the switch; a file is closed again.
find ==
    /\ pc = "find"
    /\ LET i == Follow(Root, path) IN
       IF ~opens(path) THEN return(stack) /\ UNCHANGED out
       ELSE IF i \in File
         THEN /\ out' = IF path[Len(path)] \in Wanted THEN out \cup {path} ELSE out
              /\ return(stack)
         ELSE return(Append(stack, [path |-> path, inum |-> i, slot |-> 1])) /\ UNCHANGED out
    /\ UNCHANGED <<world, path>>

\* read() of the next entry, or the end of the directory and close().
read ==
    /\ pc = "read"
    /\ LET n == Len(stack)
           top == stack[n]
       IN IF top.slot > Len(slots[top.inum])
            THEN return(SubSeq(stack, 1, n - 1)) /\ UNCHANGED path
            ELSE LET e == slots[top.inum][top.slot] IN
                 /\ stack' = [stack EXCEPT ![n].slot = @ + 1]
                 /\ IF e.inum = 0 THEN UNCHANGED <<pc, path>>
                    ELSE pc' = "stat" /\ path' = Append(top.path, e.name)
    /\ UNCHANGED <<world, out>>

stat ==
    /\ pc = "stat"
    /\ pc' = IF opens(path) THEN "find" ELSE "read"
    /\ UNCHANGED <<world, path, stack, out>>
------------------------------------------------------------------------
Changed ==
    /\ change < MaxChange /\ pc # "done" /\ change' = change + 1
    /\ always' = always \cap Files(slots') /\ ever' = ever \cup Files(slots')
    /\ UNCHANGED <<pc, path, stack, out>>

Reachable == {Root} \cup {b.inum : b \in Below(slots, Root)}

removable(i) == IF i \in File THEN TRUE ELSE \A k \in DOMAIN slots[i] : slots[i][k].inum = 0

\* unlink() of a file or of an empty directory.
unlink(d, k) ==
    /\ d \in Reachable /\ slots[d][k].inum # 0
    /\ removable(slots[d][k].inum)
    /\ slots' = [slots EXCEPT ![d][k] = Free]
    /\ Changed

\* A new file, in the first free slot.
create(d, f, name) ==
    /\ d \in Reachable /\ f \notin Reachable
    /\ \A k \in DOMAIN slots[d] : slots[d][k].name # name
    /\ \E k \in DOMAIN slots[d] :
         /\ slots[d][k] = Free /\ \A j \in 1 .. (k - 1) : slots[d][j] # Free
         /\ slots' = [slots EXCEPT ![d][k] = [name |-> name, inum |-> f]]
    /\ Changed

Next ==
    \/ find \/ read \/ stat
    \/ \E d \in DOMAIN slots : \E k \in DOMAIN slots[d] : unlink(d, k)
    \/ \E d \in DOMAIN slots, f \in File, name \in Name : create(d, f, name)

Spec == Init /\ [][Next]_fvars
------------------------------------------------------------------------
\* find prints only paths that match and were paths of files, and in the end all
\* those that were there all the time, whatever others changed meanwhile, down to
\* the depth where its descriptors or the length of a path run out.
FindPrints ==
    /\ \A p \in out : p \in ever /\ p[Len(p)] \in Wanted
    /\ pc = "done" =>
         \A p \in always : p[Len(p)] \in Wanted /\ Len(p) < NFD /\ Len(p) <= MAXPATH => p \in out
========================================================================
