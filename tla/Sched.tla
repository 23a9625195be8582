----------------------------- MODULE Sched -----------------------------
(***************************************************************************)
(* CPUs, spin locks, the scheduler, sleep() and wakeup(), timer interrupts *)
(* (kernel/proc.c, spinlock.c, trap.c), and two of their clients: a        *)
(* sleep lock (sleeplock.c) and sys_sleep() with clockintr().              *)
(*                                                                         *)
(* A step runs up to the next acquire(), release() or swtch().  A section  *)
(* under one p->lock that neither switches nor takes another lock is one   *)
(* step.  Spin locks are numbered: p->lock is p, then tickslock, then the  *)
(* spin lock inside the sleep lock.                                        *)
(*                                                                         *)
(* Faulty variants of a definition stand right before it (such as          *)
(* wakeupNotLast); they only serve to show that a property can fail.       *)
(***************************************************************************)
EXTENDS Integers, FiniteSets

CONSTANTS
    NPROC, NCPU,
    Locker,      \* processes that use the sleep lock
    Sleeper,     \* processes that call sys_sleep()
    Killer,      \* processes that call kill()
    SleepTicks,  \* argument of sys_sleep()
    MaxTicks     \* bound: the tick counter stays at this value

Proc == 1 .. NPROC
Cpu == 1 .. NCPU
None == 0
tickslock == NPROC + 1
lk == NPROC + 2
Lock == 1 .. (NPROC + 2)

ASSUME SchedAssumption ==
    /\ NPROC \in Nat \ {0} /\ NCPU \in Nat \ {0}
    /\ Locker \subseteq Proc /\ Sleeper \subseteq Proc /\ Killer \subseteq Proc
    /\ SleepTicks \in Nat /\ MaxTicks \in Nat

VARIABLES
    state,   \* p->state
    chan,    \* p->chan, None or the spin lock that goes with the channel
    killed,  \* p->killed
    pc,      \* where the kernel thread of p is
    ret,     \* where an interrupted thread goes on after the trap
    slk,     \* the lk argument of p's sleep()
    saved,   \* the local intena of p's sched()
    widx,    \* loop variable of p's wakeup()
    lock,    \* lk->cpu of every spin lock
    proc,    \* c->proc
    spc,     \* where the scheduler thread of c is
    sidx,    \* its loop variable
    hpc,     \* where the interrupt handler on c is, if one runs
    hidx,    \* loop variable of its wakeup()
    noff,    \* c->noff
    intena,  \* c->intena
    intr,    \* interrupts are enabled on c
    locked,  \* the sleep lock's holder (its locked and pid)
    ticks,   \* trap.c's counter
    ticks0,  \* the local ticks0 of p's sys_sleep()
    panic

procVars == <<state, chan, killed, pc, ret, slk, saved, widx>>
spinVars == <<lock, noff, intena, intr, panic>>
cpuVars == <<proc, spc, sidx, hpc, hidx>>
clientVars == <<locked, ticks, ticks0>>
vars == <<procVars, spinVars, cpuVars, clientVars>>

\* main() has run procinit(); every process is a fork child not yet run.
Init ==
    /\ state = [p \in Proc |-> "RUNNABLE"]
    /\ chan = [p \in Proc |-> None]
    /\ killed = [p \in Proc |-> FALSE]
    /\ pc = [p \in Proc |-> "forkret"]
    /\ ret = [p \in Proc |-> "user"]
    /\ slk = [p \in Proc |-> None]
    /\ saved = [p \in Proc |-> FALSE]
    /\ widx = [p \in Proc |-> 1]
    /\ lock = [l \in Lock |-> None]
    /\ proc = [c \in Cpu |-> None]
    /\ spc = [c \in Cpu |-> "top"]
    /\ sidx = [c \in Cpu |-> 1]
    /\ hpc = [c \in Cpu |-> "none"]
    /\ hidx = [c \in Cpu |-> 1]
    /\ noff = [c \in Cpu |-> 0]
    /\ intena = [c \in Cpu |-> FALSE]
    /\ intr = [c \in Cpu |-> FALSE]
    /\ locked = None
    /\ ticks = 0
    /\ ticks0 = [p \in Proc |-> 0]
    /\ panic = "none"
------------------------------------------------------------------------
(* spinlock.c *)

holding(c, l) == lock[l] = c

push_offIntrOn(c) ==
    /\ intena' = IF noff[c] = 0 THEN [intena EXCEPT ![c] = intr[c]] ELSE intena
    /\ noff' = [noff EXCEPT ![c] = @ + 1]
    /\ UNCHANGED intr
push_off(c) ==
    /\ intena' = IF noff[c] = 0 THEN [intena EXCEPT ![c] = intr[c]] ELSE intena
    /\ noff' = [noff EXCEPT ![c] = @ + 1]
    /\ intr' = [intr EXCEPT ![c] = FALSE]

\* Waiting for the lock is the action not being enabled.
acquire(c, l) ==
    /\ lock[l] \in {None, c}
    /\ panic' = IF holding(c, l) THEN "acquire" ELSE panic
    /\ lock' = [lock EXCEPT ![l] = c]
    /\ push_off(c)

\* What release() on c finds wrong, its pop_off() included.
releasePanic(c, l) ==
    IF ~holding(c, l) THEN "release"
    ELSE IF intr[c] THEN "pop_off - interruptible"
    ELSE IF noff[c] < 1 THEN "pop_off"
    ELSE panic

\* pop_off() turns interrupts back on when the outermost push_off() found
\* them on; a return to user space turns them on anyway.
releaseTo(c, l, touser) ==
    /\ panic' = releasePanic(c, l)
    /\ lock' = [lock EXCEPT ![l] = None]
    /\ noff' = [noff EXCEPT ![c] = @ - 1]
    /\ intr' = [intr EXCEPT ![c] = touser \/ (noff[c] = 1 /\ intena[c])]
    /\ UNCHANGED intena

release(c, l) == releaseTo(c, l, FALSE)

\* acquire(), a section that ends at once, and release().
section(c, l) ==
    /\ lock[l] \in {None, c}
    /\ panic' = IF holding(c, l) THEN "acquire" ELSE panic
    /\ UNCHANGED <<lock, noff, intena, intr>>

\* c executes the kernel thread of p, or its own scheduler thread.
Runs(c, p) == proc[c] = p /\ hpc[c] = "none" /\ panic = "none"
------------------------------------------------------------------------
(* The scheduler thread. *)

\* The head of for(;;): devices may interrupt.
scheduler_topIntrAsIs(c) ==
    /\ Runs(c, None) /\ spc[c] = "top"
    /\ spc' = [spc EXCEPT ![c] = "scan"]
    /\ sidx' = [sidx EXCEPT ![c] = 1]
    /\ UNCHANGED <<procVars, spinVars, proc, hpc, hidx, clientVars>>
scheduler_top(c) ==
    /\ Runs(c, None)
    /\ spc[c] = "top"
    /\ intr' = [intr EXCEPT ![c] = TRUE]
    /\ spc' = [spc EXCEPT ![c] = "scan"]
    /\ sidx' = [sidx EXCEPT ![c] = 1]
    /\ UNCHANGED <<procVars, lock, noff, intena, panic, proc, hpc, hidx, clientVars>>

scheduler_acquire(c) ==
    /\ Runs(c, None)
    /\ spc[c] = "scan"
    /\ acquire(c, sidx[c])
    /\ spc' = [spc EXCEPT ![c] = "look"]
    /\ UNCHANGED <<procVars, proc, sidx, hpc, hidx, clientVars>>

\* release(&p->lock) and on to the next process, or to the head of for(;;).
nextProc(c) ==
    /\ release(c, sidx[c])
    /\ IF sidx[c] = NPROC
         THEN spc' = [spc EXCEPT ![c] = "top"] /\ UNCHANGED sidx
         ELSE spc' = [spc EXCEPT ![c] = "scan"] /\ sidx' = [sidx EXCEPT ![c] = @ + 1]

\* swtch() to a RUNNABLE process; its sched() then restores intena.
scheduler_lookStillRunnable(c) ==
    /\ Runs(c, None) /\ spc[c] = "look"
    /\ LET p == sidx[c] IN
       IF state[p] = "RUNNABLE"
         THEN /\ proc' = [proc EXCEPT ![c] = p]
              /\ spc' = [spc EXCEPT ![c] = "swtch"]
              /\ UNCHANGED <<sidx, lock, noff, intena, intr, panic>>
         ELSE nextProc(c) /\ UNCHANGED proc
    /\ UNCHANGED <<procVars, hpc, hidx, clientVars>>
scheduler_look(c) ==
    /\ Runs(c, None)
    /\ spc[c] = "look"
    /\ LET p == sidx[c] IN
       IF state[p] = "RUNNABLE"
         THEN /\ state' = [state EXCEPT ![p] = "RUNNING"]
              /\ proc' = [proc EXCEPT ![c] = p]
              /\ spc' = [spc EXCEPT ![c] = "swtch"]
              /\ intena' = IF pc[p] = "forkret" THEN intena ELSE [intena EXCEPT ![c] = saved[p]]
              /\ UNCHANGED <<sidx, lock, noff, intr, panic>>
         ELSE nextProc(c) /\ UNCHANGED <<state, proc>>
    /\ UNCHANGED <<chan, killed, pc, ret, slk, saved, widx, hpc, hidx, clientVars>>

\* The process has switched back.
scheduler_back(c) ==
    /\ Runs(c, None)
    /\ spc[c] = "swtch"
    /\ nextProc(c)
    /\ UNCHANGED <<procVars, proc, hpc, hidx, clientVars>>

\* sched(): the thread of p has its state set to s and will go on at "then".
schedPanic(c, p, s) ==
    IF ~holding(c, p) THEN "sched p->lock"
    ELSE IF noff[c] # 1 THEN "sched locks"
    ELSE IF s = "RUNNING" THEN "sched running"
    ELSE IF intr[c] THEN "sched interruptible"
    ELSE panic

sched(c, p, s, then) ==
    /\ state' = [state EXCEPT ![p] = s]
    /\ pc' = [pc EXCEPT ![p] = then]
    /\ saved' = [saved EXCEPT ![p] = intena[c]]
    /\ proc' = [proc EXCEPT ![c] = None]
    /\ panic' = schedPanic(c, p, s)
    /\ UNCHANGED <<lock, noff, intena, intr>>
------------------------------------------------------------------------
(* Kernel threads: getting started, giving up the CPU, exiting. *)

\* A thread moves on to place l.
Goto(p, l) == pc' = [pc EXCEPT ![p] = l]

forkret(c, p) ==
    /\ Runs(c, p)
    /\ pc[p] = "forkret"
    /\ releaseTo(c, p, TRUE)
    /\ Goto(p, "user")
    /\ UNCHANGED <<state, chan, killed, ret, slk, saved, widx, cpuVars, clientVars>>

\* The rest of yield(), after acquire(&p->lock) in the trap handler.
yield(c, p) ==
    /\ Runs(c, p)
    /\ pc[p] = "yield"
    /\ sched(c, p, "RUNNABLE", "trapret")
    /\ UNCHANGED <<chan, killed, ret, slk, widx, spc, sidx, hpc, hidx, clientVars>>

\* release(&p->lock) at the end of yield(), and the return from the trap.
trapret(c, p) ==
    /\ Runs(c, p)
    /\ pc[p] = "trapret"
    /\ releaseTo(c, p, TRUE)
    /\ Goto(p, ret[p])
    /\ UNCHANGED <<state, chan, killed, ret, slk, saved, widx, cpuVars, clientVars>>

\* usertrap() finds p killed, before intr_on() or after the system call; the
\* part of exit() that takes p->lock.
exit_acquire(c, p) ==
    /\ Runs(c, p)
    /\ pc[p] = "user"
    /\ killed[p]
    /\ lock[p] = None
    /\ lock' = [lock EXCEPT ![p] = c]
    /\ noff' = [noff EXCEPT ![c] = @ + 1]
    /\ intr' = [intr EXCEPT ![c] = FALSE]
    /\ \E on \in BOOLEAN : intena' = [intena EXCEPT ![c] = on]
    /\ Goto(p, "exit")
    /\ UNCHANGED <<state, chan, killed, ret, slk, saved, widx, panic, cpuVars, clientVars>>

exit(c, p) ==
    /\ Runs(c, p)
    /\ pc[p] = "exit"
    /\ sched(c, p, "ZOMBIE", "zombie")
    /\ UNCHANGED <<chan, killed, ret, slk, widx, spc, sidx, hpc, hidx, clientVars>>

\* kill(): q is made to leave sleep(), whatever it sleeps on.
kill(c, p, q) ==
    /\ Runs(c, p)
    /\ p \in Killer /\ pc[p] = "user" /\ ~killed[p]
    /\ section(c, q)
    /\ killed' = [killed EXCEPT ![q] = TRUE]
    /\ state' = IF state[q] = "SLEEPING" THEN [state EXCEPT ![q] = "RUNNABLE"] ELSE state
    /\ UNCHANGED <<chan, pc, ret, slk, saved, widx, cpuVars, clientVars>>
------------------------------------------------------------------------
(* sleep() and wakeup(). *)

\* Entry: the caller holds l; acquire(&p->lock).
sleep(c, p, l) ==
    /\ acquire(c, p)
    /\ slk' = [slk EXCEPT ![p] = l]
    /\ Goto(p, "sleep_release")

\* release(lk): from here on a waker may look at p, but not before p->lock is
\* released, by the scheduler, with p SLEEPING.
sleep_release(c, p) ==
    /\ Runs(c, p)
    /\ pc[p] = "sleep_release"
    /\ release(c, slk[p])
    /\ Goto(p, "sleep_sched")
    /\ UNCHANGED <<state, chan, killed, ret, slk, saved, widx, cpuVars, clientVars>>

sleep_sched(c, p) ==
    /\ Runs(c, p)
    /\ pc[p] = "sleep_sched"
    /\ chan' = [chan EXCEPT ![p] = slk[p]]
    /\ sched(c, p, "SLEEPING", "sleep_tidy")
    /\ UNCHANGED <<killed, ret, slk, widx, spc, sidx, hpc, hidx, clientVars>>

sleep_tidy(c, p) ==
    /\ Runs(c, p)
    /\ pc[p] = "sleep_tidy"
    /\ chan' = [chan EXCEPT ![p] = None]
    /\ release(c, p)
    /\ Goto(p, "sleep_reacquire")
    /\ UNCHANGED <<state, killed, ret, slk, saved, widx, cpuVars, clientVars>>

sleep_reacquire(c, p) ==
    /\ Runs(c, p)
    /\ pc[p] = "sleep_reacquire"
    /\ acquire(c, slk[p])
    /\ Goto(p, IF slk[p] = lk THEN "acquiresleep" ELSE "sys_sleep")
    /\ UNCHANGED <<state, chan, killed, ret, slk, saved, widx, cpuVars, clientVars>>

\* One turn of the loop of wakeup(ch) on c, at process q.
wakeupNotLast(c, q, ch) ==
    IF q \in {proc[c], NPROC}
      THEN UNCHANGED <<state, lock, noff, intena, intr, panic>>
      ELSE /\ section(c, q)
           /\ state' = IF state[q] = "SLEEPING" /\ chan[q] = ch
                         THEN [state EXCEPT ![q] = "RUNNABLE"] ELSE state
wakeup(c, q, ch) ==
    IF q = proc[c]
      THEN UNCHANGED <<state, lock, noff, intena, intr, panic>>
      ELSE /\ section(c, q)
           /\ state' = IF state[q] = "SLEEPING" /\ chan[q] = ch
                         THEN [state EXCEPT ![q] = "RUNNABLE"] ELSE state
------------------------------------------------------------------------
(* sleeplock.c *)

acquiresleep(c, p) ==
    /\ Runs(c, p)
    /\ p \in Locker /\ pc[p] = "user" /\ ~killed[p]
    /\ acquire(c, lk)
    /\ Goto(p, "acquiresleep")
    /\ UNCHANGED <<state, chan, killed, ret, slk, saved, widx, cpuVars, clientVars>>

\* The while loop: sleep, or take the lock.
acquiresleep_noTest(c, p) ==
    /\ Runs(c, p) /\ pc[p] = "acquiresleep"
    /\ locked' = p
    /\ release(c, lk)
    /\ Goto(p, "crit")
    /\ UNCHANGED <<state, chan, killed, ret, slk, saved, widx, cpuVars, ticks, ticks0>>
acquiresleep_test(c, p) ==
    /\ Runs(c, p)
    /\ pc[p] = "acquiresleep"
    /\ IF locked # None
         THEN sleep(c, p, lk) /\ UNCHANGED locked
         ELSE /\ locked' = p
              /\ release(c, lk)
              /\ Goto(p, "crit")
              /\ UNCHANGED slk
    /\ UNCHANGED <<state, chan, killed, ret, saved, widx, cpuVars, ticks, ticks0>>

releasesleep(c, p) ==
    /\ Runs(c, p)
    /\ pc[p] = "crit"
    /\ acquire(c, lk)
    /\ locked' = None
    /\ widx' = [widx EXCEPT ![p] = 1]
    /\ Goto(p, "releasesleep")
    /\ UNCHANGED <<state, chan, killed, ret, slk, saved, cpuVars, ticks, ticks0>>

\* wakeup(lk), then release(&lk->lk).
releasesleep_wakeup(c, p) ==
    /\ Runs(c, p)
    /\ pc[p] = "releasesleep"
    /\ IF widx[p] \in Proc
         THEN /\ wakeup(c, widx[p], lk)
              /\ widx' = [widx EXCEPT ![p] = @ + 1]
              /\ UNCHANGED pc
         ELSE /\ release(c, lk)
              /\ Goto(p, "user")
              /\ UNCHANGED <<state, widx>>
    /\ UNCHANGED <<chan, killed, ret, slk, saved, cpuVars, clientVars>>
------------------------------------------------------------------------
(* sys_sleep() *)

sys_sleep(c, p) ==
    /\ Runs(c, p)
    /\ p \in Sleeper /\ pc[p] = "user" /\ ~killed[p]
    /\ acquire(c, tickslock)
    /\ ticks0' = [ticks0 EXCEPT ![p] = ticks]
    /\ Goto(p, "sys_sleep")
    /\ UNCHANGED <<state, chan, killed, ret, slk, saved, widx, cpuVars, locked, ticks>>

\* The while loop.  killed() takes and drops p->lock before sleep() takes it
\* again.
Elapsed(p) == ticks - ticks0[p] >= SleepTicks

sys_sleep_test(c, p) ==
    /\ Runs(c, p)
    /\ pc[p] = "sys_sleep"
    /\ IF Elapsed(p)
         THEN release(c, tickslock) /\ Goto(p, "user")
         ELSE section(c, p) /\ Goto(p, IF killed[p] THEN "sys_sleep_fail" ELSE "sys_sleep_sleep")
    /\ UNCHANGED <<state, chan, killed, ret, slk, saved, widx, cpuVars, clientVars>>

sys_sleep_sleep(c, p) ==
    /\ Runs(c, p)
    /\ pc[p] = "sys_sleep_sleep"
    /\ sleep(c, p, tickslock)
    /\ UNCHANGED <<state, chan, killed, ret, saved, widx, cpuVars, clientVars>>

sys_sleep_fail(c, p) ==
    /\ Runs(c, p)
    /\ pc[p] = "sys_sleep_fail"
    /\ release(c, tickslock)
    /\ Goto(p, "user")
    /\ UNCHANGED <<state, chan, killed, ret, slk, saved, widx, cpuVars, clientVars>>
------------------------------------------------------------------------
(* Timer interrupts: usertrap(), kerneltrap(), devintr(), clockintr().    *)

\* The trap turns interrupts off; only the first CPU keeps the time.
interrupt(c) ==
    /\ hpc[c] = "none" /\ panic = "none"
    /\ intr[c]
    /\ intr' = [intr EXCEPT ![c] = FALSE]
    /\ hpc' = [hpc EXCEPT ![c] = IF c = 1 THEN "clockintr" ELSE "yield"]
    /\ UNCHANGED <<procVars, lock, noff, intena, panic, proc, spc, sidx, hidx, clientVars>>

clockintr(c) ==
    /\ hpc[c] = "clockintr" /\ panic = "none"
    /\ acquire(c, tickslock)
    /\ ticks' = IF ticks < MaxTicks THEN ticks + 1 ELSE ticks
    /\ hpc' = [hpc EXCEPT ![c] = "wakeup"]
    /\ hidx' = [hidx EXCEPT ![c] = 1]
    /\ UNCHANGED <<procVars, proc, spc, sidx, locked, ticks0>>

\* wakeup(&ticks), then release(&tickslock).
clockintr_wakeup(c) ==
    /\ hpc[c] = "wakeup" /\ panic = "none"
    /\ IF hidx[c] \in Proc
         THEN /\ wakeup(c, hidx[c], tickslock)
              /\ hidx' = [hidx EXCEPT ![c] = @ + 1]
              /\ UNCHANGED hpc
         ELSE /\ release(c, tickslock)
              /\ hpc' = [hpc EXCEPT ![c] = "yield"]
              /\ UNCHANGED <<state, hidx>>
    /\ UNCHANGED <<chan, killed, pc, ret, slk, saved, widx, proc, spc, sidx, clientVars>>

\* A process gives up the CPU; the scheduler thread returns from the trap.
interrupt_end(c) ==
    /\ hpc[c] = "yield" /\ panic = "none"
    /\ hpc' = [hpc EXCEPT ![c] = "none"]
    /\ LET p == proc[c] IN
       IF p # None /\ state[p] = "RUNNING"
         THEN /\ acquire(c, p)
              /\ ret' = [ret EXCEPT ![p] = pc[p]]
              /\ Goto(p, "yield")
         ELSE /\ intr' = [intr EXCEPT ![c] = TRUE]
              /\ UNCHANGED <<pc, ret, lock, noff, intena, panic>>
    /\ UNCHANGED <<state, chan, killed, slk, saved, widx, proc, spc, sidx, hidx, clientVars>>
------------------------------------------------------------------------
scheduler(c) == scheduler_top(c) \/ scheduler_acquire(c) \/ scheduler_look(c) \/ scheduler_back(c)

handler(c) == clockintr(c) \/ clockintr_wakeup(c) \/ interrupt_end(c)

\* The part of a trap that runs as the interrupted thread.
trap(c, p) == yield(c, p) \/ trapret(c, p)

\* What a thread does once it has entered the kernel.
thread(c, p) ==
    \/ forkret(c, p) \/ exit_acquire(c, p) \/ exit(c, p)
    \/ sleep_release(c, p) \/ sleep_sched(c, p) \/ sleep_tidy(c, p) \/ sleep_reacquire(c, p)
    \/ acquiresleep_test(c, p) \/ releasesleep(c, p) \/ releasesleep_wakeup(c, p)
    \/ sys_sleep_test(c, p) \/ sys_sleep_sleep(c, p) \/ sys_sleep_fail(c, p)

\* The system calls a user program may or may not make.
call(c, p) == acquiresleep(c, p) \/ sys_sleep(c, p) \/ \E q \in Proc : kill(c, p, q)

Next ==
    \/ \E c \in Cpu : scheduler(c) \/ interrupt(c) \/ handler(c)
    \/ \E c \in Cpu, p \in Proc : thread(c, p) \/ trap(c, p) \/ call(c, p)

Spec == Init /\ [][Next]_vars

(***************************************************************************)
(* A CPU keeps executing, and a time slice is long enough for the thread   *)
(* that has it to advance; a spin lock that is free again and again is got *)
(* in the end; a pending timer interrupt is taken when interrupts are on.  *)
(***************************************************************************)
Fairness ==
    /\ \A c \in Cpu : SF_vars(scheduler(c)) /\ SF_vars(handler(c)) /\ SF_vars(interrupt(c))
    /\ \A p \in Proc : /\ SF_vars(\E c \in Cpu : thread(c, p))
                     /\ SF_vars(\E c \in Cpu : trap(c, p))

FairSpec == Spec /\ Fairness
------------------------------------------------------------------------
(* Properties. *)

\* Every variable stays in its domain.
TypeOK ==
    /\ state \in [Proc -> {"RUNNABLE", "RUNNING", "SLEEPING", "ZOMBIE"}]
    /\ chan \in [Proc -> {None, tickslock, lk}]
    /\ killed \in [Proc -> BOOLEAN]
    /\ pc \in [Proc -> {"forkret", "user", "yield", "trapret", "exit", "zombie",
                        "sleep_release", "sleep_sched", "sleep_tidy", "sleep_reacquire",
                        "acquiresleep", "crit", "releasesleep",
                        "sys_sleep", "sys_sleep_sleep", "sys_sleep_fail"}]
    /\ ret \in [Proc -> {"user", "crit", "sleep_reacquire"}]
    /\ slk \in [Proc -> {None, tickslock, lk}]
    /\ saved \in [Proc -> BOOLEAN]
    /\ widx \in [Proc -> 1 .. (NPROC + 1)]
    /\ lock \in [Lock -> Cpu \cup {None}]
    /\ proc \in [Cpu -> Proc \cup {None}]
    /\ spc \in [Cpu -> {"top", "scan", "look", "swtch"}]
    /\ sidx \in [Cpu -> Proc]
    /\ hpc \in [Cpu -> {"none", "clockintr", "wakeup", "yield"}]
    /\ hidx \in [Cpu -> 1 .. (NPROC + 1)]
    /\ noff \in [Cpu -> 0 .. 2]
    /\ intena \in [Cpu -> BOOLEAN]
    /\ intr \in [Cpu -> BOOLEAN]
    /\ locked \in Proc \cup {None}
    /\ ticks \in 0 .. MaxTicks
    /\ ticks0 \in [Proc -> 0 .. MaxTicks]
    /\ panic \in {"none", "acquire", "release", "pop_off", "pop_off - interruptible",
                  "sched p->lock", "sched locks", "sched running", "sched interruptible"}

\* A process runs on one CPU at most, and whoever gets its p->lock while it is
\* not RUNNING knows that no CPU is on its kernel stack any more: sched()
\* hands p->lock over to the scheduler thread, which releases it only on its
\* own stack (proc.c:457-471).  No scan of the scheduler or of wakeup() runs off
\* the process table.
StackOwned ==
    /\ TypeOK
    /\ \A c, d \in Cpu : c # d /\ proc[c] # None => proc[c] # proc[d]
    /\ \A c \in Cpu, p \in Proc :
         proc[c] = p => lock[p] = c \/ state[p] = "RUNNING"

\* Interrupts are off on a CPU that holds a spin lock, and c->noff counts the
\* locks it holds although they pass from thread to thread in swtch().  No
\* assertion of acquire(), release(), pop_off() (spinlock.c:25, 49, 103-106) or
\* sched() (proc.c:489-496) fails, whichever CPU a thread resumes on and wherever
\* interrupts fall.
LocksCounted ==
    /\ panic = "none"
    /\ \A c \in Cpu : /\ noff[c] = Cardinality({l \in Lock : lock[l] = c})
                      /\ noff[c] > 0 => ~intr[c]

\* p is between acquiresleep() and releasesleep(), running or preempted.
InCrit(p) == "crit" \in {pc[p], ret[p]} /\ pc[p] \in {"crit", "yield", "trapret"}

\* The sleep lock excludes: only the process it names is past acquiresleep().
\* No wakeup is lost, although sleep() lets go of the condition's lock (proc.c:549-550).
\* Who sleeps on the sleep lock sleeps while it is taken, or while the releaser's
\* wakeup() has not reached it yet; who sleeps in sys_sleep() although its time
\* has come is about to be woken by the running clockintr().
SleepLockKept ==
    /\ \A p \in Proc : InCrit(p) => locked = p
    /\ \A p \in Proc : state[p] = "SLEEPING" =>
         /\ chan[p] = lk => \/ locked # None
                            \/ \E q \in Proc : pc[q] = "releasesleep" /\ widx[q] <= p
         /\ chan[p] = tickslock /\ Elapsed(p) => \E c \in Cpu : hpc[c] = "wakeup" /\ hidx[c] <= p

\* p is in sys_sleep().
InSysSleep(p) ==
    \/ pc[p] \in {"sys_sleep", "sys_sleep_sleep", "sleep_release", "sleep_sched", "sleep_tidy",
                  "sleep_reacquire"}
    \/ pc[p] \in {"yield", "trapret"} /\ ret[p] = "sleep_reacquire"

\* Who sleeps on the sleep lock runs again, and sys_sleep() returns once its ticks
\* have passed.
SleepersRun ==
    /\ \A p \in Proc : (state[p] = "SLEEPING" /\ chan[p] = lk) ~> state[p] = "RUNNING"
    /\ \A p \in Sleeper : (InSysSleep(p) /\ Elapsed(p)) ~> ~InSysSleep(p)

\* The clock keeps ticking even when no process can run: the first CPU does not
\* loop in scheduler() with interrupts off for ever (proc.c:454-455).
ClockTicks == <>(ticks = MaxTicks)
========================================================================
