------------------------------ MODULE Proc ------------------------------
(***************************************************************************)
(* The life of a process (kernel/proc.c): fork(), exit(), wait(), kill(),  *)
(* reparent(), and the order in which they take wait_lock and p->lock.     *)
(*                                                                         *)
(* A section under p->lock is one step.  sleep(p, &wait_lock) releases the *)
(* lock and makes p SLEEPING in one step, which is what module Sched       *)
(* establishes for it.  RUNNING and RUNNABLE are not told apart here: a    *)
(* process in either takes its next step whenever the scheduler lets it.   *)
(*                                                                         *)
(* Faulty variants of a definition stand right before it (such as          *)
(* reparentNone); they only serve to show that a property can fail.        *)
(***************************************************************************)
EXTENDS Integers, FiniteSets

CONSTANTS
    NPROC,
    Victim,   \* pids that programs pass to kill()
    MaxPid    \* bound on nextpid

Proc == 1 .. NPROC
None == 0
initproc == 1

VARIABLES
    state, pid, parent, killed, xstate,  \* the fields of struct proc
    pc,         \* where the kernel thread of p is
    child,      \* the local np of p's fork()
    onstack,    \* the scheduler has not yet switched away from an exited p
    wait_lock,  \* holder of wait_lock
    nextpid,
    panic

fields == <<state, pid, parent, killed, xstate>>
threads == <<pc, child, onstack>>
vars == <<fields, threads, wait_lock, nextpid, panic>>

\* userinit() has made the first process; every other slot is free.
Init ==
    /\ state = [p \in Proc |-> IF p = initproc THEN "RUNNABLE" ELSE "UNUSED"]
    /\ pid = [p \in Proc |-> IF p = initproc THEN 1 ELSE 0]
    /\ parent = [p \in Proc |-> None]
    /\ killed = [p \in Proc |-> FALSE]
    /\ xstate = [p \in Proc |-> 0]
    /\ pc = [p \in Proc |-> "user"]
    /\ child = [p \in Proc |-> None]
    /\ onstack = [p \in Proc |-> FALSE]
    /\ wait_lock = None
    /\ nextpid = 2
    /\ panic = "none"

\* p may take a step at l.
At(p, l) == state[p] = "RUNNABLE" /\ pc[p] = l /\ panic = "none"
Goto(p, l) == pc' = [pc EXCEPT ![p] = l]

\* p is in user space; usertrap() makes a killed process exit instead.
User(p) == At(p, "user") /\ ~killed[p]

\* A section that takes p->lock waits for the scheduler to have left p's stack.
FreeAlways(p) == TRUE
Free(p) == ~onstack[p]

\* wakeup(chan), where only wait() sleeps: on the address of the process.
Awake(st, q) == IF q # None /\ st[q] = "SLEEPING" THEN [st EXCEPT ![q] = "RUNNABLE"] ELSE st
------------------------------------------------------------------------
(* fork() *)

\* The first UNUSED slot that allocproc() meets.
Unused == {q \in Proc : state[q] = "UNUSED"}
Slot == CHOOSE q \in Unused : \A r \in Unused : q <= r

allocpid == nextpid' = nextpid + 1

\* allocproc() and the copying, up to release(&np->lock).  When memory runs
\* out, freeproc() gives the slot back; the pid is used up.
fork_alloc(p, ok) ==
    /\ User(p)
    /\ nextpid <= MaxPid
    /\ IF Unused = {}
         THEN UNCHANGED <<fields, threads, nextpid>>
         ELSE /\ allocpid
              /\ IF ok
                   THEN /\ state' = [state EXCEPT ![Slot] = "USED"]
                        /\ pid' = [pid EXCEPT ![Slot] = nextpid]
                        /\ child' = [child EXCEPT ![p] = Slot]
                        /\ pc' = [pc EXCEPT ![p] = "fork_parent", ![Slot] = "user"]
                        /\ UNCHANGED <<parent, killed, xstate, onstack>>
                   ELSE /\ killed' = [killed EXCEPT ![Slot] = FALSE]
                        /\ UNCHANGED <<state, pid, parent, xstate, threads>>
    /\ UNCHANGED <<wait_lock, panic>>

fork_parent(p) ==
    /\ At(p, "fork_parent")
    /\ wait_lock = None
    /\ parent' = [parent EXCEPT ![child[p]] = p]
    /\ Goto(p, "fork_run")
    /\ UNCHANGED <<state, pid, killed, xstate, child, onstack, wait_lock, nextpid, panic>>

fork_run(p) ==
    /\ At(p, "fork_run")
    /\ state' = [state EXCEPT ![child[p]] = "RUNNABLE"]
    /\ child' = [child EXCEPT ![p] = None]
    /\ Goto(p, "user")
    /\ UNCHANGED <<pid, parent, killed, xstate, onstack, wait_lock, nextpid, panic>>
------------------------------------------------------------------------
(* exit() *)

\* Give p's children to init, and wake it if there are any.
reparentNone(p) == UNCHANGED <<parent, state>>
reparent(p) ==
    /\ parent' = [q \in Proc |-> IF parent[q] = p THEN initproc ELSE parent[q]]
    /\ state' = IF \E q \in Proc : parent[q] = p THEN Awake(state, initproc) ELSE state

\* By choice, or because usertrap() found p killed.  The files and the current
\* directory are released first; then acquire(&wait_lock) and reparent(p).
exit(p) ==
    /\ At(p, "user")
    /\ panic' = IF p = initproc THEN "init exiting" ELSE "none"
    /\ IF p = initproc
         THEN killed[p] /\ UNCHANGED <<fields, threads, wait_lock>>
         ELSE /\ wait_lock = None
              /\ wait_lock' = p
              /\ reparent(p)
              /\ Goto(p, "exit_wakeup")
              /\ UNCHANGED <<pid, killed, xstate, child, onstack>>
    /\ UNCHANGED nextpid

exit_wakeup(p) ==
    /\ At(p, "exit_wakeup")
    /\ state' = Awake(state, parent[p])
    /\ Goto(p, "exit_zombie")
    /\ UNCHANGED <<pid, parent, killed, xstate, child, onstack, wait_lock, nextpid, panic>>

\* acquire(&p->lock), the exit status, ZOMBIE, release(&wait_lock), sched().
exit_zombie(p) ==
    /\ At(p, "exit_zombie")
    /\ state' = [state EXCEPT ![p] = "ZOMBIE"]
    /\ xstate' = [xstate EXCEPT ![p] = pid[p]]
    /\ onstack' = [onstack EXCEPT ![p] = TRUE]
    /\ wait_lock' = None
    /\ Goto(p, "dead")
    /\ UNCHANGED <<pid, parent, killed, child, nextpid, panic>>

\* scheduler() is back on its own stack and releases p->lock.
swtch_away(p) ==
    /\ onstack[p]
    /\ onstack' = [onstack EXCEPT ![p] = FALSE]
    /\ UNCHANGED <<fields, pc, child, wait_lock, nextpid, panic>>
------------------------------------------------------------------------
(* wait() and kill() *)

ChildrenNotLast(p) == {q \in Proc : q < NPROC /\ parent[q] = p}
Children(p) == {q \in Proc : parent[q] = p}
Zombies(p) == {q \in Children(p) : state[q] = "ZOMBIE"}

\* What freeproc() leaves of slot q.
freeproc(q) ==
    /\ state' = [state EXCEPT ![q] = "UNUSED"]
    /\ pid' = [pid EXCEPT ![q] = 0]
    /\ parent' = [parent EXCEPT ![q] = None]
    /\ killed' = [killed EXCEPT ![q] = FALSE]
    /\ xstate' = [xstate EXCEPT ![q] = 0]

\* One turn of the for(;;) of wait(), under wait_lock: reap the first exited
\* child, unless copyout() of its status fails, or give up, or sleep.
wait(p, copied) ==
    /\ User(p) \/ At(p, "wait")
    /\ wait_lock = None
    /\ \A q \in Children(p) : Free(q)
    /\ IF Zombies(p) # {}
         THEN /\ IF copied
                   THEN freeproc(CHOOSE q \in Zombies(p) : \A r \in Zombies(p) : q <= r)
                   ELSE UNCHANGED fields
              /\ Goto(p, "user")
         ELSE /\ IF Children(p) = {} \/ killed[p]
                   THEN Goto(p, "user") /\ UNCHANGED state
                   ELSE Goto(p, "wait") /\ state' = [state EXCEPT ![p] = "SLEEPING"]
              /\ UNCHANGED <<pid, parent, killed, xstate>>
    /\ UNCHANGED <<child, onstack, wait_lock, nextpid, panic>>

\* The first slot whose pid matches.
kill(p, t) ==
    /\ User(p)
    /\ \E q \in Proc :
         /\ pid[q] = t /\ \A r \in Proc : pid[r] = t => q <= r
         /\ Free(q)
         /\ killed' = [killed EXCEPT ![q] = TRUE]
         /\ state' = Awake(state, q)
    /\ UNCHANGED <<pid, parent, xstate, threads, wait_lock, nextpid, panic>>
------------------------------------------------------------------------
Next ==
    \/ \E p \in Proc : \/ fork_parent(p) \/ fork_run(p) \/ exit(p) \/ exit_wakeup(p)
                       \/ exit_zombie(p) \/ swtch_away(p)
    \/ \E p \in Proc, ok \in BOOLEAN : fork_alloc(p, ok) \/ wait(p, ok)
    \/ \E p \in Proc, t \in Victim : kill(p, t)

Spec == Init /\ [][Next]_vars

(***************************************************************************)
(* The scheduler runs every process that can go on, init calls wait() in a *)
(* loop (user/init.c) with a null status pointer, and wait_lock is got in  *)
(* the end by a process that keeps trying.  At most one of the steps of    *)
(* goes(p) is possible at a time.                                          *)
(***************************************************************************)
goes(p) ==
    \/ fork_parent(p) \/ fork_run(p)
    \/ (killed[p] /\ exit(p)) \/ exit_wakeup(p) \/ exit_zombie(p) \/ swtch_away(p)
    \/ (pc[p] = "wait" /\ wait(p, TRUE))

Fairness == (\A p \in Proc : SF_vars(goes(p))) /\ SF_vars(wait(initproc, TRUE))

FairSpec == Spec /\ Fairness
------------------------------------------------------------------------
(* Properties. *)

\* Every variable stays in its domain, and a slot has pid 0 exactly when it is
\* UNUSED, which allocproc() and freeproc() keep true between them.
TypeOK ==
    /\ state \in [Proc -> {"UNUSED", "USED", "SLEEPING", "RUNNABLE", "ZOMBIE"}]
    /\ pid \in [Proc -> 0 .. MaxPid]
    /\ parent \in [Proc -> Proc \cup {None}]
    /\ killed \in [Proc -> BOOLEAN]
    /\ xstate \in [Proc -> 0 .. MaxPid]
    /\ pc \in [Proc -> {"user", "fork_parent", "fork_run", "exit_wakeup", "exit_zombie",
                        "dead", "wait"}]
    /\ child \in [Proc -> Proc \cup {None}]
    /\ onstack \in [Proc -> BOOLEAN]
    /\ wait_lock \in Proc \cup {None}
    /\ nextpid \in 1 .. (MaxPid + 1)
    /\ panic \in {"none", "init exiting"}
    /\ \A p \in Proc : pid[p] = 0 <=> state[p] = "UNUSED"

\* The process tree: outside a section under wait_lock, every process but init
\* has a parent that is alive, so that somebody can still wait() for it; only a
\* child whose fork() is not finished has none yet (proc.c:319-325, 373).  And
\* nobody sleeps in wait() with an exited child: exit() holds wait_lock from its
\* wakeup() to ZOMBIE (proc.c:370-383).
ParentAlive ==
    /\ \A p \in Proc : state[p] = "SLEEPING" => Zombies(p) = {}
    /\ wait_lock = None =>
         \A q \in Proc \ {initproc} :
             /\ state[q] \in {"SLEEPING", "RUNNABLE", "ZOMBIE"} =>
                  parent[q] # None /\ state[parent[q]] \in {"SLEEPING", "RUNNABLE"}
             /\ state[q] = "USED" => \E p \in Proc : child[p] = q /\ state[p] = "RUNNABLE"

\* wait() frees a process only when no CPU is on its kernel stack any more
\* ("make sure the child isn't still in exit() or swtch()", proc.c:406), and no
\* two processes have the same pid.
FreedOffStack ==
    /\ TypeOK
    /\ \A p \in Proc : onstack[p] => state[p] = "ZOMBIE"
    /\ \A p, q \in Proc : p # q /\ state[p] # "UNUSED" => pid[p] # pid[q]

\* An exited process that init has inherited is reaped, and kill() ends every
\* sleep in wait().
WaitsEnd ==
    /\ \A q \in Proc \ {initproc} :
         (state[q] = "ZOMBIE" /\ parent[q] = initproc) ~> state[q] = "UNUSED"
    /\ \A p \in Proc \ {initproc} : (pc[p] = "wait" /\ killed[p]) ~> pc[p] # "wait"
=========================================================================
