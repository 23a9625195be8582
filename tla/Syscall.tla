---------------------------- MODULE Syscall ----------------------------
(***************************************************************************)
(* kernel/syscall.c with the two calls of sysproc.c that are not in other  *)
(* modules: trace(), whose mask a process hands on to its children, and    *)
(* sysinfo(), which counts the processes slot by slot while others run.    *)
(* A section under p->lock is one step.  Other calls stand for themselves  *)
(* as far as they change what these two see: fork(), exit() and wait()     *)
(* (module Proc has them in full).                                         *)
(*                                                                         *)
(* Faulty variants of a definition stand right before it (such as          *)
(* inheritNot); they only serve to show that a property can fail.          *)
(***************************************************************************)
EXTENDS Integers, FiniteSets

CONSTANTS
    NPROC,
    Masks,      \* what trace() is called with: sets of system calls
    Asker,      \* slots whose processes call sysinfo()
    None

VARIABLES
    state,      \* UNUSED, USED (fork() has not finished), RUNNABLE or ZOMBIE
    mask,       \* p->mask, which freeproc() leaves alone
    call,       \* the call that p is in
    np,         \* the local np of p's fork()
    scan,       \* i and *nproc of p's unsetprocnum(), with the slots that were
                \* in use all the time, and at some time, since it began
    returned,   \* the call that returned in the last step, and whose it was
    line,       \* the line that syscall() printed in the last step
    asked       \* what the process, or who forked it, last asked to be traced

sysvars == <<state, mask, call, np, scan, returned, line, asked>>

Slot == 1 .. NPROC
InUse(st) == {s \in Slot : st[s] # "UNUSED"}
NoScan == [i |-> 0, nproc |-> 0, always |-> {}, ever |-> {}]

Init ==
    /\ state = [s \in Slot |-> IF s = 1 THEN "RUNNABLE" ELSE "UNUSED"]
    /\ mask = [s \in Slot |-> {}] /\ asked = [s \in Slot |-> {}]
    /\ call = [s \in Slot |-> None] /\ np = [s \in Slot |-> None]
    /\ scan = [s \in Slot |-> NoScan]
    /\ returned = None /\ line = None

\* What the scans that are under way may have seen of the change to state'.
Seen == [s \in Slot |-> IF call[s] # "sysinfo" THEN scan[s]
                       ELSE [scan[s] EXCEPT !.always = @ \cap InUse(state'), !.ever = @ \cup InUse(state')]]

\* syscall() after the call: the mask is that of now.
returns(p, num) ==
    /\ returned' = [p |-> p, num |-> num]
    /\ line' = IF num \in mask'[p] THEN [p |-> p, num |-> num] ELSE None
continues == returned' = None /\ line' = None

InUser(p) == state[p] = "RUNNABLE" /\ call[p] = None
------------------------------------------------------------------------
sys_trace(p, m) ==
    /\ InUser(p)
    /\ mask' = [mask EXCEPT ![p] = m]
    /\ asked' = [asked EXCEPT ![p] = m]
    /\ returns(p, "trace")
    /\ UNCHANGED <<state, call, np, scan>>

\* fork(): allocproc() and the copies, under np->lock; later np is RUNNABLE.
inheritNot(p, s) == mask
inherit(p, s) == [mask EXCEPT ![s] = mask[p]]

fork(p) ==
    /\ InUser(p)
    /\ LET unused == Slot \ InUse(state)
           s == CHOOSE s \in unused : \A r \in unused : s <= r
       IN /\ unused # {}
          /\ state' = [state EXCEPT ![s] = "USED"]
          /\ mask' = inherit(p, s)
          /\ asked' = [asked EXCEPT ![s] = asked[p]]
          /\ call' = [call EXCEPT ![p] = "fork"]
          /\ np' = [np EXCEPT ![p] = s]
    /\ scan' = Seen
    /\ continues

\* No slot, or no memory: np->lock is held until freeproc() is done.
fork_fail(p) ==
    /\ InUser(p)
    /\ UNCHANGED <<state, mask, call, np, scan, asked>>
    /\ returns(p, "fork")

\* The child starts in forkret(), and so returns without passing syscall().
fork_run(p) ==
    /\ state[p] = "RUNNABLE" /\ call[p] = "fork"
    /\ state' = [state EXCEPT ![np[p]] = "RUNNABLE"]
    /\ call' = [call EXCEPT ![p] = None] /\ np' = [np EXCEPT ![p] = None]
    /\ UNCHANGED <<mask, scan, asked>>
    /\ returns(p, "fork")

\* exit() does not return.
exit(p) ==
    /\ p # 1 /\ InUser(p)
    /\ state' = [state EXCEPT ![p] = "ZOMBIE"]
    /\ continues
    /\ UNCHANGED <<mask, call, np, scan, asked>>

\* wait() frees a slot.
wait(p, s) ==
    /\ InUser(p) /\ state[s] = "ZOMBIE"
    /\ state' = [state EXCEPT ![s] = "UNUSED"]
    /\ scan' = Seen
    /\ UNCHANGED <<mask, call, np, asked>>
    /\ returns(p, "wait")
------------------------------------------------------------------------
sys_sysinfo(p) ==
    /\ p \in Asker /\ InUser(p)
    /\ call' = [call EXCEPT ![p] = "sysinfo"]
    /\ scan' = [scan EXCEPT ![p] = [i |-> 1, nproc |-> 0, always |-> InUse(state), ever |-> InUse(state)]]
    /\ continues
    /\ UNCHANGED <<state, mask, np, asked>>

\* One turn of the loop, under the lock of slot i.
unsetprocnum(p) ==
    /\ call[p] = "sysinfo" /\ scan[p].i \in Slot
    /\ scan' = [scan EXCEPT ![p].i = @ + 1,
                            ![p].nproc = IF state[scan[p].i] # "UNUSED" THEN @ + 1 ELSE @]
    /\ continues
    /\ UNCHANGED <<state, mask, call, np, asked>>

\* copyout() and the return, whether it worked or not.
sysinfo_end(p) ==
    /\ call[p] = "sysinfo" /\ scan[p].i > NPROC
    /\ call' = [call EXCEPT ![p] = None]
    /\ scan' = [scan EXCEPT ![p] = NoScan]
    /\ UNCHANGED <<state, mask, np, asked>>
    /\ returns(p, "sysinfo")

Next ==
    \/ \E p \in Slot : \/ fork(p) \/ fork_fail(p) \/ fork_run(p) \/ exit(p)
                       \/ sys_sysinfo(p) \/ unsetprocnum(p) \/ sysinfo_end(p)
    \/ \E p \in Slot, m \in Masks : sys_trace(p, m)
    \/ \E p, s \in Slot : wait(p, s)

Spec == Init /\ [][Next]_sysvars
------------------------------------------------------------------------
\* Although a slot keeps the mask of whoever had it before (freeproc() leaves it,
\* proc.c:155-172), a process has the mask that it or who forked it asked for,
\* and a line is printed for exactly the calls in it that return (syscall.c:175).
TracedAsAsked ==
    /\ \A p \in Slot : state[p] # "UNUSED" => mask[p] = asked[p]
    /\ line = IF returned # None /\ returned.num \in asked[returned.p] THEN returned ELSE None

\* sysinfo() counts no fewer processes than there were from its beginning to
\* its end and no more than there were at some time in between.
CountBetween ==
    \A p \in Slot : call[p] = "sysinfo" =>
        LET looked == 1 .. (scan[p].i - 1) IN
        /\ Cardinality(scan[p].always \cap looked) <= scan[p].nproc
        /\ scan[p].nproc <= Cardinality(scan[p].ever \cap looked)
========================================================================
