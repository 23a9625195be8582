-------------------------- MODULE SchedProofs --------------------------
(***************************************************************************)
(* Proofs about Sched, for any number of processes and CPUs: a kernel      *)
(* stack is used by one CPU at a time, every assertion of the spin locks   *)
(* and of sched() holds, c->noff counts the locks of c, the sleep lock     *)
(* excludes, and no wakeup is lost.                                        *)
(***************************************************************************)
EXTENDS Sched, TLAPS

\* The spin locks that the CPU holds which runs p, by the place where p is.
ThreadLocks(p) ==
    IF pc[p] \in {"forkret", "yield", "trapret", "exit", "sleep_sched", "sleep_tidy"} THEN {p}
    ELSE IF pc[p] = "sleep_release" THEN {p, slk[p]}
    ELSE IF pc[p] \in {"acquiresleep", "releasesleep"} THEN {lk}
    ELSE IF pc[p] \in {"sys_sleep", "sys_sleep_sleep", "sys_sleep_fail"} THEN {tickslock}
    ELSE {}

\* The spin locks that c holds: those of its interrupt handler, of its
\* scheduler thread, or of the process it runs.
CpuLocks(c) ==
    IF hpc[c] # "none" THEN (IF hpc[c] = "wakeup" THEN {tickslock} ELSE {})
    ELSE IF proc[c] # None THEN ThreadLocks(proc[c])
    ELSE IF spc[c] \in {"look", "swtch"} THEN {sidx[c]} ELSE {}

\* A process is RUNNING exactly while a CPU has it, and one CPU has it; in every
\* other state it stands in sched(), or has not begun.
OneCpu == \A c, d \in Cpu : c # d /\ proc[c] # None => proc[c] # proc[d]
OnCpu == \A c \in Cpu : proc[c] # None =>
    state[proc[c]] = "RUNNING" /\ spc[c] = "swtch" /\ sidx[c] = proc[c]
HasCpu == \A p \in Proc : state[p] = "RUNNING" => \E c \in Cpu : proc[c] = p
StatePlace == \A p \in Proc :
    /\ state[p] = "RUNNABLE" => pc[p] \in {"forkret", "trapret", "sleep_tidy"}
    /\ state[p] = "SLEEPING" => pc[p] = "sleep_tidy"
    /\ state[p] = "ZOMBIE" <=> pc[p] = "zombie"
SleepsOn == \A p \in Proc :
    \/ pc[p] \in {"sleep_release", "sleep_sched", "sleep_tidy", "sleep_reacquire"}
    \/ pc[p] \in {"yield", "trapret"} /\ ret[p] = "sleep_reacquire"
    => slk[p] # None
RunInv == OneCpu /\ OnCpu /\ HasCpu /\ StatePlace /\ SleepsOn

\* A handler has interrupted a thread that holds no spin lock, with interrupts
\* off; the lock words, c->noff and the places of the threads agree.
LockInv ==
    /\ \A c \in Cpu : hpc[c] # "none" =>
         /\ proc[c] = None => spc[c] \in {"top", "scan"}
         /\ proc[c] # None => pc[proc[c]] \in {"user", "crit", "sleep_reacquire"}
         /\ ~intr[c] /\ (hpc[c] = "wakeup" => ~intena[c])
    /\ \A c \in Cpu, l \in Lock : lock[l] = c <=> l \in CpuLocks(c)
    /\ \A c \in Cpu : noff[c] = IF CpuLocks(c) = {} THEN 0
                                ELSE IF hpc[c] = "none" /\ proc[c] # None /\ pc[proc[c]] = "sleep_release"
                                     THEN 2 ELSE 1
    /\ \A c \in Cpu : noff[c] > 0 => ~intr[c]
    /\ panic = "none"

\* p sleeps on l, or is on its way and a waker cannot have passed it yet.
Waits(p, l) ==
    \/ state[p] = "SLEEPING" /\ chan[p] = l
    \/ pc[p] \in {"sleep_release", "sleep_sched"} /\ slk[p] = l

SleepInv ==
    /\ \A p \in Proc : InCrit(p) => locked = p
    /\ \A p \in Proc : Waits(p, lk) =>
         locked # None \/ \E q \in Proc : pc[q] = "releasesleep" /\ widx[q] <= p
    /\ \A p \in Proc : Waits(p, tickslock) /\ Elapsed(p) =>
         \E c \in Cpu : hpc[c] = "wakeup" /\ hidx[c] <= p
    /\ \A p \in Proc : pc[p] = "sys_sleep_sleep" => ~Elapsed(p)

SchedInv == TypeOK /\ RunInv /\ LockInv /\ SleepInv
------------------------------------------------------------------------
(* What the proofs use of the numbering, and of a step. *)

\* CPUs, processes and locks have numbers of their own, none of which is None.
LEMMA Ids ==
  /\ None \notin Proc /\ None \notin Cpu /\ None \notin Lock
  /\ tickslock \in Lock \ Proc /\ lk \in Lock \ Proc /\ tickslock # lk
  /\ tickslock # None /\ lk # None
  /\ Proc \subseteq Lock /\ 1 \in Proc
BY SchedAssumption DEF Proc, Cpu, Lock, None, tickslock, lk

\* c runs a process, or its scheduler.
LEMMA ProcType ==
  ASSUME TypeOK, NEW c \in Cpu
  PROVE  proc[c] # None => proc[c] \in Proc
<1>1. proc \in [Cpu -> Proc \cup {None}]
  BY Zenon DEF TypeOK
<1> QED
  BY <1>1

\* A step on c concerns c, the process that c runs, and the locks of c.
Local(c) ==
    /\ \A d \in Cpu : d # c =>
         /\ proc'[d] = proc[d] /\ spc'[d] = spc[d] /\ sidx'[d] = sidx[d]
         /\ hpc'[d] = hpc[d] /\ hidx'[d] = hidx[d] /\ noff'[d] = noff[d]
         /\ intr'[d] = intr[d] /\ intena'[d] = intena[d]
    /\ \A q \in Proc : q # proc[c] =>
         /\ pc'[q] = pc[q] /\ slk'[q] = slk[q] /\ ret'[q] = ret[q]
         /\ widx'[q] = widx[q] /\ chan'[q] = chan[q] /\ ticks0'[q] = ticks0[q]
    /\ \A l \in Lock : lock'[l] \in {lock[l], c, None} /\ (lock[l] \notin {c, None} => lock'[l] = lock[l])

\* What LockInv says of one CPU.
CpuOk(c) ==
    /\ hpc[c] # "none" =>
         /\ proc[c] = None => spc[c] \in {"top", "scan"}
         /\ proc[c] # None => pc[proc[c]] \in {"user", "crit", "sleep_reacquire"}
         /\ ~intr[c] /\ (hpc[c] = "wakeup" => ~intena[c])
    /\ \A l \in Lock : lock[l] = c <=> l \in CpuLocks(c)
    /\ noff[c] = IF CpuLocks(c) = {} THEN 0
                 ELSE IF hpc[c] = "none" /\ proc[c] # None /\ pc[proc[c]] = "sleep_release"
                      THEN 2 ELSE 1
    /\ noff[c] > 0 => ~intr[c]

\* LockInv is about one CPU at a time.
LEMMA LockInvCpu == LockInv <=> panic = "none" /\ \A c \in Cpu : CpuOk(c)
BY DEF LockInv, CpuOk

\* The locks of the other CPUs stay theirs.
LEMMA LockStep ==
  ASSUME SchedInv, TypeOK', NEW c \in Cpu, Local(c), CpuOk(c)', panic' = "none"
  PROVE  LockInv'
<1>1. ASSUME NEW d \in Cpu, d # c PROVE CpuOk(d)'
  <2>1. CpuOk(d)
    BY LockInvCpu DEF SchedInv
  <2>2. /\ proc'[d] = proc[d] /\ spc'[d] = spc[d] /\ sidx'[d] = sidx[d]
        /\ hpc'[d] = hpc[d] /\ noff'[d] = noff[d]
        /\ intr'[d] = intr[d] /\ intena'[d] = intena[d]
    BY <1>1 DEF Local
  <2>3. proc[d] # None => proc[d] \in Proc /\ proc[d] # proc[c]
    BY <1>1, ProcType DEF SchedInv, RunInv, OneCpu
  <2>4. proc[d] # None => pc'[proc[d]] = pc[proc[d]] /\ slk'[proc[d]] = slk[proc[d]]
    BY <2>3 DEF Local
  <2>5. CpuLocks(d)' = CpuLocks(d)
    BY Zenon, <2>2, <2>4 DEF CpuLocks, ThreadLocks
  <2>6. \A l \in Lock : lock'[l] = d <=> lock[l] = d
    BY <1>1, Ids DEF Local
  <2> QED
    BY <2>1, <2>2, <2>4, <2>5, <2>6 DEF CpuOk
<1>2. \A d \in Cpu : CpuOk(d)'
  BY <1>1
<1> QED
  BY Zenon, <1>2 DEF LockInv, CpuOk

\* A step that neither starts nor stops a process: at most it makes some
\* sleeping processes RUNNABLE.
LEMMA RunStep ==
  ASSUME SchedInv, TypeOK', NEW c \in Cpu, Local(c), proc' = proc,
         \A q \in Proc : state'[q] = state[q] \/ (state[q] = "SLEEPING" /\ state'[q] = "RUNNABLE"),
         proc[c] # None =>
           /\ spc'[c] = spc[c] /\ sidx'[c] = sidx[c] /\ pc'[proc[c]] # "zombie"
           /\ (\/ pc'[proc[c]] \in {"sleep_release", "sleep_sched", "sleep_tidy", "sleep_reacquire"}
               \/ pc'[proc[c]] \in {"yield", "trapret"} /\ ret'[proc[c]] = "sleep_reacquire")
                => slk'[proc[c]] # None
  PROVE  RunInv'
<1>1. \A d \in Cpu : proc[d] # None => proc[d] \in Proc /\ spc'[d] = spc[d] /\ sidx'[d] = sidx[d]
  BY ProcType DEF SchedInv, Local
<1>2. \A d, e \in Cpu : d # e /\ proc'[d] # None => proc'[d] # proc'[e]
  BY DEF SchedInv, RunInv, OneCpu
<1>3. \A d \in Cpu : proc'[d] # None =>
         state'[proc'[d]] = "RUNNING" /\ spc'[d] = "swtch" /\ sidx'[d] = proc'[d]
  BY <1>1 DEF SchedInv, RunInv, OnCpu
<1>4. \A q \in Proc : state'[q] = "RUNNING" => \E d \in Cpu : proc'[d] = q
  BY DEF SchedInv, RunInv, HasCpu
<1>5. ASSUME NEW q \in Proc
      PROVE  /\ state'[q] = "RUNNABLE" => pc'[q] \in {"forkret", "trapret", "sleep_tidy"}
             /\ state'[q] = "SLEEPING" => pc'[q] = "sleep_tidy"
             /\ state'[q] = "ZOMBIE" <=> pc'[q] = "zombie"
  <2>1. CASE q = proc[c]
    <3>1. state'[q] = "RUNNING" /\ pc'[q] # "zombie"
      BY <1>3, <2>1, Ids
    <3> QED
      BY <3>1
  <2>2. CASE q # proc[c]
    <3>1. pc'[q] = pc[q]
      BY Zenon, <2>2 DEF Local
    <3> QED
      BY <3>1 DEF SchedInv, RunInv, StatePlace
  <2> QED
    BY <2>1, <2>2
<1>6. ASSUME NEW q \in Proc,
             \/ pc'[q] \in {"sleep_release", "sleep_sched", "sleep_tidy", "sleep_reacquire"}
             \/ pc'[q] \in {"yield", "trapret"} /\ ret'[q] = "sleep_reacquire"
      PROVE  slk'[q] # None
  <2>1. CASE q = proc[c]
    BY Zenon, <1>6, <2>1, Ids
  <2>2. CASE q # proc[c]
    BY <1>6, <2>2 DEF Local, SchedInv, RunInv, SleepsOn
  <2> QED
    BY Zenon, <2>1, <2>2
<1> QED
  BY Zenon, <1>2, <1>3, <1>4, <1>5, <1>6 DEF RunInv, OneCpu, OnCpu, HasCpu, StatePlace, SleepsOn

\* A step that neither puts anybody on the way to sleep nor moves a waker.
LEMMA SleepStep ==
  ASSUME SchedInv, TypeOK',
         \A q \in Proc : /\ Waits(q, lk)' => Waits(q, lk)
                         /\ Waits(q, tickslock)' => Waits(q, tickslock)
                         /\ InCrit(q)' => InCrit(q)
                         /\ pc'[q] = "sys_sleep_sleep" => pc[q] = "sys_sleep_sleep"
                         /\ pc[q] = "releasesleep" => pc'[q] = "releasesleep" /\ widx'[q] = widx[q],
         \A d \in Cpu : hpc[d] = "wakeup" => hpc'[d] = "wakeup" /\ hidx'[d] = hidx[d],
         UNCHANGED clientVars
  PROVE  SleepInv'
<1>1. ASSUME NEW q \in Proc PROVE Elapsed(q)' <=> Elapsed(q)
  BY Zenon DEF clientVars, Elapsed
<1>2. \A q \in Proc : InCrit(q)' => locked' = q
  BY DEF SchedInv, SleepInv, clientVars
<1>3. ASSUME NEW q \in Proc, Waits(q, lk)'
      PROVE  locked' # None \/ \E r \in Proc : pc'[r] = "releasesleep" /\ widx'[r] <= q
  BY <1>3 DEF SchedInv, SleepInv, clientVars
<1>4. ASSUME NEW q \in Proc, Waits(q, tickslock)', Elapsed(q)'
      PROVE  \E d \in Cpu : hpc'[d] = "wakeup" /\ hidx'[d] <= q
  BY Zenon, <1>1, <1>4 DEF SchedInv, SleepInv
<1>5. \A q \in Proc : pc'[q] = "sys_sleep_sleep" => ~Elapsed(q)'
  BY Zenon, <1>1 DEF SchedInv, SleepInv
<1> QED
  BY Zenon, <1>2, <1>3, <1>4, <1>5 DEF SleepInv
------------------------------------------------------------------------
(* acquire(), release(), sections and sched() find nothing wrong. *)

\* The part of the type invariant that is about spin locks.
SpinType ==
    /\ lock \in [Lock -> Cpu \cup {None}]
    /\ noff \in [Cpu -> 0 .. 2]
    /\ intena \in [Cpu -> BOOLEAN]
    /\ intr \in [Cpu -> BOOLEAN]

\* A step on c takes or drops locks for c only; afterwards c holds those in S.
LockMoves(c, S) ==
    /\ \A m \in Lock : lock'[m] \in {lock[m], c, None} /\ (lock[m] \notin {c, None} => lock'[m] = lock[m])
    /\ \A m \in Lock : lock'[m] = c <=> m \in S
    /\ \A d \in Cpu : d # c => noff'[d] = noff[d] /\ intr'[d] = intr[d] /\ intena'[d] = intena[d]

\* The same when c holds no lock afterwards.
NoLocks(c) ==
    /\ \A m \in Lock : lock'[m] \in {lock[m], None} /\ (lock[m] \notin {c, None} => lock'[m] = lock[m])
    /\ \A m \in Lock : lock'[m] # c
    /\ \A d \in Cpu : d # c => noff'[d] = noff[d] /\ intr'[d] = intr[d] /\ intena'[d] = intena[d]

\* A spin lock that c does not hold is got only when it is free.
LEMMA AcquireOk ==
  ASSUME SchedInv, NEW c \in Cpu, NEW l \in Lock, l \notin CpuLocks(c), noff[c] < 2, acquire(c, l),
         NEW S, S = CpuLocks(c) \cup {l}
  PROVE  /\ SpinType' /\ panic' = "none"
         /\ lock[l] = None /\ LockMoves(c, S)
         /\ noff'[c] = noff[c] + 1 /\ ~intr'[c] /\ (noff[c] = 0 => intena'[c] = intr[c])
<1>1. SpinType
  BY Zenon DEF SchedInv, TypeOK, SpinType
<1>2. lock[l] # c /\ panic = "none"
  BY Zenon DEF SchedInv, LockInv
<1>3. noff' \in [Cpu -> 0 .. 2]
  <2>1. noff[c] + 1 \in 0 .. 2
    BY <1>1 DEF SpinType
  <2> QED
    BY <1>1, <2>1 DEF SpinType, acquire, push_off
<1>4. intena' \in [Cpu -> BOOLEAN] /\ intr' \in [Cpu -> BOOLEAN]
  BY <1>1 DEF SpinType, acquire, push_off
<1>5. lock[l] = None /\ lock' = [lock EXCEPT ![l] = c]
  BY <1>2 DEF acquire
<1>6. LockMoves(c, S)
  <2>1. \A m \in Lock : lock[m] = c <=> m \in CpuLocks(c)
    BY Zenon DEF SchedInv, LockInv
  <2> QED
    BY <1>1, <1>5, <2>1, Ids DEF SpinType, LockMoves, acquire, push_off
<1> QED
  BY <1>1, <1>2, <1>3, <1>4, <1>5, <1>6 DEF SpinType, acquire, push_off, holding

\* A spin lock is released by the CPU that holds it, with interrupts off.
LEMMA ReleaseOk ==
  ASSUME SchedInv, NEW c \in Cpu, NEW l \in Lock, l \in CpuLocks(c),
         NEW touser \in BOOLEAN, releaseTo(c, l, touser), NEW S, S = CpuLocks(c) \ {l}
  PROVE  /\ SpinType' /\ panic' = "none"
         /\ LockMoves(c, S)
         /\ noff'[c] = noff[c] - 1 /\ (~touser /\ noff[c] # 1 => ~intr'[c])
<1>1. SpinType
  BY Zenon DEF SchedInv, TypeOK, SpinType
<1>2. lock[l] = c /\ panic = "none" /\ noff[c] \in 1 .. 2 /\ ~intr[c]
  BY <1>1 DEF SchedInv, LockInv, SpinType
<1>3. noff' \in [Cpu -> 0 .. 2]
  <2>1. noff[c] - 1 \in 0 .. 2
    BY <1>2
  <2> QED
    BY <1>1, <2>1 DEF SpinType, releaseTo
<1>4. intena' \in [Cpu -> BOOLEAN] /\ intr' \in [Cpu -> BOOLEAN]
  BY <1>1 DEF SpinType, releaseTo
<1>5. panic' = "none"
  BY <1>2 DEF releaseTo, releasePanic, holding
<1>6. LockMoves(c, S)
  <2>1. \A m \in Lock : lock[m] = c <=> m \in CpuLocks(c)
    BY Zenon DEF SchedInv, LockInv
  <2> QED
    BY <1>1, <2>1, Ids DEF SpinType, LockMoves, releaseTo
<1> QED
  BY Zenon, <1>1, <1>2, <1>3, <1>4, <1>5, <1>6 DEF SpinType, releaseTo

\* The same for a release() that stays in the kernel.
LEMMA ReleaseInKernel ==
  ASSUME SchedInv, NEW c \in Cpu, NEW l \in Lock, l \in CpuLocks(c), release(c, l),
         NEW S, S = CpuLocks(c) \ {l}
  PROVE  /\ SpinType' /\ panic' = "none"
         /\ LockMoves(c, S)
         /\ noff'[c] = noff[c] - 1 /\ (noff[c] # 1 => ~intr'[c])
<1>1. FALSE \in BOOLEAN /\ releaseTo(c, l, FALSE)
  BY Zenon DEF release
<1> QED
  BY Zenon, <1>1, ReleaseOk

\* The same for a release() on the way to user space.
LEMMA ReleaseToUser ==
  ASSUME SchedInv, NEW c \in Cpu, NEW l \in Lock, l \in CpuLocks(c), releaseTo(c, l, TRUE),
         NEW S, S = CpuLocks(c) \ {l}
  PROVE  /\ SpinType' /\ panic' = "none"
         /\ LockMoves(c, S)
         /\ noff'[c] = noff[c] - 1
<1>1. TRUE \in BOOLEAN
  OBVIOUS
<1>2. /\ SpinType' /\ panic' = "none"
      /\ LockMoves(c, S)
      /\ noff'[c] = noff[c] - 1 /\ (~TRUE /\ noff[c] # 1 => ~intr'[c])
  BY <1>1, ReleaseOk, Zenon
<1> QED
  BY <1>2

\* acquire() of a first lock.
LEMMA FirstAcquire ==
  ASSUME SchedInv, NEW c \in Cpu, NEW l \in Lock, CpuLocks(c) = {}, noff[c] = 0, acquire(c, l)
  PROVE  /\ SpinType' /\ panic' = "none"
         /\ lock[l] = None /\ LockMoves(c, {l})
         /\ noff'[c] = 1 /\ ~intr'[c] /\ intena'[c] = intr[c]
<1>1. {l} = CpuLocks(c) \cup {l} /\ l \notin CpuLocks(c) /\ noff[c] < 2
  OBVIOUS
<1>2. /\ SpinType' /\ panic' = "none"
      /\ lock[l] = None /\ LockMoves(c, {l})
      /\ noff'[c] = noff[c] + 1 /\ ~intr'[c] /\ (noff[c] = 0 => intena'[c] = intr[c])
  BY <1>1, AcquireOk, Zenon
<1> QED
  BY <1>2

\* release() of the only lock, within the kernel.
LEMMA LastRelease ==
  ASSUME SchedInv, NEW c \in Cpu, NEW l \in Lock, CpuLocks(c) = {l}, noff[c] = 1, release(c, l)
  PROVE  SpinType' /\ panic' = "none" /\ NoLocks(c) /\ noff'[c] = 0
<1>1. l \in CpuLocks(c) /\ CpuLocks(c) \ {l} = {}
  OBVIOUS
<1>2. /\ SpinType' /\ panic' = "none" /\ LockMoves(c, CpuLocks(c) \ {l})
      /\ noff'[c] = noff[c] - 1
  BY <1>1, ReleaseInKernel, Zenon
<1>3. NoLocks(c)
  BY Zenon, <1>1, <1>2 DEF LockMoves, NoLocks
<1> QED
  BY <1>2, <1>3

\* release() of the only lock, on the way to user space.
LEMMA LastReleaseToUser ==
  ASSUME SchedInv, NEW c \in Cpu, NEW l \in Lock, CpuLocks(c) = {l}, noff[c] = 1, releaseTo(c, l, TRUE)
  PROVE  SpinType' /\ panic' = "none" /\ NoLocks(c) /\ noff'[c] = 0
<1>1. l \in CpuLocks(c) /\ CpuLocks(c) \ {l} = {}
  OBVIOUS
<1>2. /\ SpinType' /\ panic' = "none" /\ LockMoves(c, CpuLocks(c) \ {l})
      /\ noff'[c] = noff[c] - 1
  BY <1>1, ReleaseToUser, Zenon
<1>3. NoLocks(c)
  BY Zenon, <1>1, <1>2 DEF LockMoves, NoLocks
<1> QED
  BY <1>2, <1>3

\* A section under a lock that c does not hold waits until it is free.
LEMMA SectionOk ==
  ASSUME SchedInv, NEW c \in Cpu, NEW l \in Lock, l \notin CpuLocks(c), section(c, l)
  PROVE  /\ SpinType' /\ panic' = "none"
         /\ lock[l] = None /\ LockMoves(c, CpuLocks(c))
         /\ noff'[c] = noff[c] /\ intr'[c] = intr[c] /\ intena'[c] = intena[c]
<1>1. SpinType
  BY Zenon DEF SchedInv, TypeOK, SpinType
<1>2. lock[l] # c /\ panic = "none"
  BY Zenon DEF SchedInv, LockInv
<1>3. \A m \in Lock : lock[m] = c <=> m \in CpuLocks(c)
  BY Zenon DEF SchedInv, LockInv
<1> QED
  BY <1>1, <1>2, <1>3 DEF SpinType, LockMoves, section, holding

\* What holds where c runs the thread of p.
LEMMA Here ==
  ASSUME SchedInv, NEW c \in Cpu, NEW p \in Proc, Runs(c, p)
  PROVE  /\ proc[c] = p /\ hpc[c] = "none" /\ state[p] = "RUNNING" /\ pc[p] # "zombie"
         /\ spc[c] = "swtch" /\ sidx[c] = p
         /\ CpuLocks(c) = ThreadLocks(p) /\ CpuOk(c) /\ panic = "none"
         /\ \A d \in Cpu : d # c => proc[d] # p
<1>1. proc[c] = p /\ hpc[c] = "none" /\ p # None
  BY Ids DEF Runs
<1>2. CpuOk(c) /\ panic = "none"
  BY LockInvCpu DEF SchedInv
<1>3. state[p] = "RUNNING" /\ spc[c] = "swtch" /\ sidx[c] = p
  BY <1>1 DEF SchedInv, RunInv, OnCpu
<1>4. pc[p] # "zombie"
  BY <1>3 DEF SchedInv, RunInv, StatePlace
<1>5. \A d \in Cpu : d # c => proc[d] # p
  BY <1>1 DEF SchedInv, RunInv, OneCpu
<1>6. CpuLocks(c) = ThreadLocks(p)
  BY <1>1 DEF CpuLocks
<1> QED
  BY <1>1, <1>2, <1>3, <1>4, <1>5, <1>6

\* sched() is called with p->lock only, and with interrupts off.
LEMMA SchedOk ==
  ASSUME SchedInv, NEW c \in Cpu, NEW p \in Proc, Runs(c, p), NEW s, s # "RUNNING", NEW then,
         pc[p] \in {"yield", "exit", "sleep_sched"}, sched(c, p, s, then)
  PROVE  panic' = "none"
<1>1. /\ CpuLocks(c) = {p} /\ CpuOk(c) /\ panic = "none" /\ hpc[c] = "none" /\ proc[c] = p
  BY Zenon, Here DEF ThreadLocks
<1>2. lock[p] = c /\ noff[c] = 1 /\ ~intr[c]
  BY <1>1, Ids DEF CpuOk
<1> QED
  BY Zenon, <1>1, <1>2 DEF sched, schedPanic, holding
------------------------------------------------------------------------
(* The steps of a process, one lemma each. *)

\* The values of the variables of a process.
LEMMA Fields ==
  ASSUME TypeOK, NEW p \in Proc
  PROVE  /\ slk[p] \in {None, tickslock, lk} /\ ret[p] \in {"user", "crit", "sleep_reacquire"}
         /\ state \in [Proc -> {"RUNNABLE", "RUNNING", "SLEEPING", "ZOMBIE"}]
         /\ widx[p] \in 1 .. (NPROC + 1) /\ locked \in Proc \cup {None}
         /\ widx \in [Proc -> 1 .. (NPROC + 1)]
         /\ DOMAIN pc = Proc /\ DOMAIN slk = Proc /\ DOMAIN ret = Proc
         /\ DOMAIN chan = Proc /\ DOMAIN ticks0 = Proc
<1>1. slk \in [Proc -> {None, tickslock, lk}]
  BY Zenon DEF TypeOK
<1>2. ret \in [Proc -> {"user", "crit", "sleep_reacquire"}]
  BY Zenon DEF TypeOK
<1>3. widx \in [Proc -> 1 .. (NPROC + 1)]
  BY Zenon DEF TypeOK
<1>4. state \in [Proc -> {"RUNNABLE", "RUNNING", "SLEEPING", "ZOMBIE"}]
  BY Zenon DEF TypeOK
<1>5. locked \in Proc \cup {None}
  BY Zenon DEF TypeOK
<1>6. DOMAIN pc = Proc /\ DOMAIN chan = Proc /\ DOMAIN ticks0 = Proc
  BY Zenon DEF TypeOK
<1> QED
  BY Zenon, <1>1, <1>2, <1>3, <1>4, <1>5, <1>6

\* A step of p leaves the other threads alone.
Others(p) == \A q \in Proc : q # p =>
    /\ pc'[q] = pc[q] /\ slk'[q] = slk[q] /\ ret'[q] = ret[q]
    /\ widx'[q] = widx[q] /\ chan'[q] = chan[q] /\ ticks0'[q] = ticks0[q]

\* A step of p on c whose locks fit the place that p comes to.
LEMMA ThreadStep ==
  ASSUME SchedInv, TypeOK', NEW c \in Cpu, NEW p \in Proc, Runs(c, p), UNCHANGED cpuVars, Others(p),
         panic' = "none", NEW S, S = ThreadLocks(p)', LockMoves(c, S),
         noff'[c] = IF S = {} THEN 0 ELSE IF pc'[p] = "sleep_release" THEN 2 ELSE 1,
         noff'[c] > 0 => ~intr'[c],
         \A q \in Proc : state'[q] = state[q] \/ (state[q] = "SLEEPING" /\ state'[q] = "RUNNABLE"),
         pc'[p] # "zombie",
         slk'[p] = None => /\ pc'[p] \notin {"sleep_release", "sleep_sched", "sleep_tidy", "sleep_reacquire"}
                           /\ pc'[p] \in {"yield", "trapret"} => ret'[p] # "sleep_reacquire"
  PROVE  LockInv' /\ RunInv'
<1>1. proc[c] = p /\ hpc[c] = "none"
  BY Zenon DEF Runs
<1>2. proc' = proc /\ hpc' = hpc /\ spc' = spc /\ sidx' = sidx /\ hidx' = hidx
  BY Zenon DEF cpuVars
<1>3. Local(c)
  BY Zenon, <1>1, <1>2 DEF Local, Others, LockMoves
<1>4. CpuOk(c)'
  BY Zenon, <1>1, <1>2, Ids DEF CpuOk, CpuLocks, LockMoves
<1>5. LockInv'
  BY Zenon, <1>3, <1>4, LockStep
<1>6. RunInv'
  BY Zenon, <1>1, <1>2, <1>3, RunStep
<1> QED
  BY Zenon, <1>5, <1>6

\* A step of p on c after which it holds no lock.
LEMMA FreeStep ==
  ASSUME SchedInv, TypeOK', NEW c \in Cpu, NEW p \in Proc, Runs(c, p), UNCHANGED cpuVars, Others(p),
         panic' = "none", ThreadLocks(p)' = {}, NoLocks(c), noff'[c] = 0,
         \A q \in Proc : state'[q] = state[q] \/ (state[q] = "SLEEPING" /\ state'[q] = "RUNNABLE"),
         pc'[p] # "zombie",
         slk'[p] = None => /\ pc'[p] \notin {"sleep_release", "sleep_sched", "sleep_tidy", "sleep_reacquire"}
                           /\ pc'[p] \in {"yield", "trapret"} => ret'[p] # "sleep_reacquire"
  PROVE  LockInv' /\ RunInv'
<1>1. LockMoves(c, ThreadLocks(p)')
  BY Zenon DEF LockMoves, NoLocks
<1>2. noff'[c] = IF ThreadLocks(p)' = {} THEN 0 ELSE IF pc'[p] = "sleep_release" THEN 2 ELSE 1
  BY Zenon
<1>3. ~(noff'[c] > 0)
  OBVIOUS
<1> QED
  BY <1>1, <1>2, <1>3, ThreadStep, Zenon

\* A step of p that neither begins to sleep nor concerns a waker.
LEMMA QuietStep ==
  ASSUME SchedInv, TypeOK', NEW c \in Cpu, NEW p \in Proc, Runs(c, p), UNCHANGED <<cpuVars, clientVars>>,
         Others(p),
         \A q \in Proc : state'[q] = state[q] \/ (state[q] = "SLEEPING" /\ state'[q] = "RUNNABLE"),
         pc[p] # "releasesleep", pc'[p] \notin {"sleep_release", "sys_sleep_sleep"},
         InCrit(p)' => InCrit(p),
         pc'[p] = "sleep_sched" => pc[p] = "sleep_release" /\ slk'[p] = slk[p]
  PROVE  SleepInv'
<1>1. proc[c] = p /\ hpc[c] = "none" /\ state[p] = "RUNNING"
  BY Zenon, Here
<1>2. hpc' = hpc /\ hidx' = hidx /\ UNCHANGED clientVars
  BY Zenon DEF cpuVars
<1>3. ASSUME NEW q \in Proc
      PROVE  /\ Waits(q, lk)' => Waits(q, lk)
             /\ Waits(q, tickslock)' => Waits(q, tickslock)
             /\ InCrit(q)' => InCrit(q)
             /\ pc'[q] = "sys_sleep_sleep" => pc[q] = "sys_sleep_sleep"
             /\ pc[q] = "releasesleep" => pc'[q] = "releasesleep" /\ widx'[q] = widx[q]
  <2>1. CASE q = p
    BY Zenon, <1>1, <2>1 DEF Waits
  <2>2. CASE q # p
    <3>1. /\ pc'[q] = pc[q] /\ slk'[q] = slk[q] /\ ret'[q] = ret[q]
          /\ widx'[q] = widx[q] /\ chan'[q] = chan[q]
      BY Zenon, <2>2 DEF Others
    <3> QED
      BY Zenon, <3>1 DEF Waits, InCrit
  <2> QED
    BY Zenon, <2>1, <2>2
<1> QED
  BY Zenon, <1>2, <1>3, SleepStep

\* sleep() lets go of the lock of its condition, but not yet of p->lock.
LEMMA SleepReleaseInv ==
  ASSUME SchedInv, NEW c \in Cpu, NEW p \in Proc, sleep_release(c, p)
  PROVE  SchedInv'
<1>1. Runs(c, p) /\ pc[p] = "sleep_release" /\ slk[p] \in {tickslock, lk}
  <2>1. slk[p] \in {None, tickslock, lk}
    BY Zenon, Fields DEF SchedInv
  <2>2. Runs(c, p) /\ pc[p] = "sleep_release"
    BY Zenon DEF sleep_release
  <2> QED
    BY Zenon, <2>1, <2>2 DEF SchedInv, RunInv, SleepsOn
<1>2. CpuLocks(c) = {p, slk[p]} /\ slk[p] \in Lock \ {p} /\ noff[c] = 2
  BY <1>1, Here, Ids DEF ThreadLocks, CpuOk
<1>3. release(c, slk[p])
  BY Zenon DEF sleep_release
<1>4. /\ SpinType' /\ panic' = "none"
      /\ LockMoves(c, {p}) /\ noff'[c] = 1 /\ ~intr'[c]
  <2>1. {p} = CpuLocks(c) \ {slk[p]}
    BY Zenon, <1>2
  <2> QED
    BY <1>2, <1>3, <2>1, ReleaseInKernel
<1>5. TypeOK'
  BY Zenon, <1>4 DEF SchedInv, TypeOK, SpinType, sleep_release, Goto, cpuVars, clientVars
<1>6. /\ pc'[p] = "sleep_sched" /\ slk' = slk /\ state' = state
      /\ Others(p) /\ UNCHANGED <<cpuVars, clientVars>>
  BY Zenon, Fields DEF SchedInv, sleep_release, Goto, Others, clientVars
<1>7. ThreadLocks(p)' = {p}
  BY Zenon, <1>6 DEF ThreadLocks
<1>8. LockInv' /\ RunInv'
  BY Zenon, <1>1, <1>4, <1>5, <1>6, <1>7, Ids, ThreadStep
<1>9. SleepInv'
  BY Zenon, <1>1, <1>5, <1>6, QuietStep DEF InCrit
<1> QED
  BY <1>5, <1>8, <1>9 DEF SchedInv

\* A new process lets go of its own lock and goes to user space.
LEMMA ForkretInv ==
  ASSUME SchedInv, NEW c \in Cpu, NEW p \in Proc, forkret(c, p)
  PROVE  SchedInv'
<1>1. Runs(c, p) /\ pc[p] = "forkret"
  BY Zenon DEF forkret
<1>2. CpuLocks(c) = {p} /\ p \in Lock /\ noff[c] = 1
  BY <1>1, Here, Ids DEF ThreadLocks, CpuOk
<1>3. releaseTo(c, p, TRUE)
  BY Zenon DEF forkret
<1>4. SpinType' /\ panic' = "none" /\ NoLocks(c) /\ noff'[c] = 0
  BY <1>2, <1>3, LastReleaseToUser, Zenon
<1>5. TypeOK'
  BY Zenon, <1>4 DEF SchedInv, TypeOK, SpinType, forkret, Goto, cpuVars, clientVars
<1>6. /\ pc'[p] = "user" /\ slk' = slk /\ state' = state
      /\ Others(p) /\ UNCHANGED <<cpuVars, clientVars>>
  BY Zenon, Fields DEF SchedInv, forkret, Goto, Others, clientVars
<1>7. ThreadLocks(p)' = {}
  BY Zenon, <1>6 DEF ThreadLocks
<1>8. LockInv' /\ RunInv'
  BY Zenon, <1>1, <1>4, <1>5, <1>6, <1>7, FreeStep
<1>9. SleepInv'
  BY Zenon, <1>1, <1>5, <1>6, QuietStep DEF InCrit
<1> QED
  BY <1>5, <1>8, <1>9 DEF SchedInv

\* sleep() has returned from sched() and lets go of p->lock.
LEMMA SleepTidyInv ==
  ASSUME SchedInv, NEW c \in Cpu, NEW p \in Proc, sleep_tidy(c, p)
  PROVE  SchedInv'
<1>1. Runs(c, p) /\ pc[p] = "sleep_tidy"
  BY Zenon DEF sleep_tidy
<1>2. CpuLocks(c) = {p} /\ p \in Lock /\ noff[c] = 1
  BY <1>1, Here, Ids DEF ThreadLocks, CpuOk
<1>3. release(c, p)
  BY Zenon DEF sleep_tidy
<1>4. SpinType' /\ panic' = "none" /\ NoLocks(c) /\ noff'[c] = 0
  BY Zenon, <1>2, <1>3, LastRelease
<1>5. TypeOK'
  BY Zenon, <1>4 DEF SchedInv, TypeOK, SpinType, sleep_tidy, Goto, cpuVars, clientVars
<1>6. /\ pc'[p] = "sleep_reacquire" /\ slk' = slk /\ state' = state
      /\ Others(p) /\ UNCHANGED <<cpuVars, clientVars>>
  BY Zenon, Fields DEF SchedInv, sleep_tidy, Goto, Others, clientVars
<1>7. ThreadLocks(p)' = {}
  BY Zenon, <1>6 DEF ThreadLocks
<1>8. LockInv' /\ RunInv'
  <2>1. slk[p] # None
    BY Zenon, <1>1 DEF SchedInv, RunInv, SleepsOn
  <2> QED
    BY Zenon, <1>1, <1>4, <1>5, <1>6, <1>7, <2>1, FreeStep
<1>9. SleepInv'
  BY Zenon, <1>1, <1>5, <1>6, QuietStep DEF InCrit
<1> QED
  BY <1>5, <1>8, <1>9 DEF SchedInv

\* acquiresleep() takes the spin lock of the sleep lock.
LEMMA AcquiresleepInv ==
  ASSUME SchedInv, NEW c \in Cpu, NEW p \in Proc, acquiresleep(c, p)
  PROVE  SchedInv'
<1>1. Runs(c, p) /\ pc[p] = "user"
  BY Zenon DEF acquiresleep
<1>2. CpuLocks(c) = {} /\ lk \in Lock /\ noff[c] = 0
  BY <1>1, Here, Ids DEF ThreadLocks, CpuOk
<1>3. acquire(c, lk)
  BY Zenon DEF acquiresleep
<1>4. SpinType' /\ panic' = "none" /\ LockMoves(c, {lk}) /\ noff'[c] = 1 /\ ~intr'[c]
  BY Zenon, <1>2, <1>3, FirstAcquire
<1>5. TypeOK'
  BY Zenon, <1>4 DEF SchedInv, TypeOK, SpinType, acquiresleep, Goto, cpuVars, clientVars
<1>6. /\ pc'[p] = "acquiresleep" /\ slk' = slk /\ state' = state
      /\ Others(p) /\ UNCHANGED <<cpuVars, clientVars>>
  BY Zenon, Fields DEF SchedInv, acquiresleep, Goto, Others, clientVars
<1>7. ThreadLocks(p)' = {lk}
  BY Zenon, <1>6 DEF ThreadLocks
<1>8. LockInv' /\ RunInv'
  BY Zenon, <1>1, <1>4, <1>5, <1>6, <1>7, Ids, ThreadStep
<1>9. SleepInv'
  BY Zenon, <1>1, <1>5, <1>6, QuietStep DEF InCrit
<1> QED
  BY <1>5, <1>8, <1>9 DEF SchedInv

\* sys_sleep() of a killed process lets go of tickslock.
LEMMA SysSleepFailInv ==
  ASSUME SchedInv, NEW c \in Cpu, NEW p \in Proc, sys_sleep_fail(c, p)
  PROVE  SchedInv'
<1>1. Runs(c, p) /\ pc[p] = "sys_sleep_fail"
  BY Zenon DEF sys_sleep_fail
<1>2. CpuLocks(c) = {tickslock} /\ tickslock \in Lock /\ noff[c] = 1
  BY <1>1, Here, Ids DEF ThreadLocks, CpuOk
<1>3. release(c, tickslock)
  BY Zenon DEF sys_sleep_fail
<1>4. SpinType' /\ panic' = "none" /\ NoLocks(c) /\ noff'[c] = 0
  BY Zenon, <1>2, <1>3, LastRelease
<1>5. TypeOK'
  BY Zenon, <1>4 DEF SchedInv, TypeOK, SpinType, sys_sleep_fail, Goto, cpuVars, clientVars
<1>6. /\ pc'[p] = "user" /\ slk' = slk /\ state' = state
      /\ Others(p) /\ UNCHANGED <<cpuVars, clientVars>>
  BY Zenon, Fields DEF SchedInv, sys_sleep_fail, Goto, Others, clientVars
<1>7. ThreadLocks(p)' = {}
  BY <1>6 DEF ThreadLocks
<1>8. LockInv' /\ RunInv'
  BY Zenon, <1>1, <1>4, <1>5, <1>6, <1>7, FreeStep
<1>9. SleepInv'
  BY Zenon, <1>1, <1>5, <1>6, QuietStep DEF InCrit
<1> QED
  BY <1>5, <1>8, <1>9 DEF SchedInv

\* yield() is over: p lets go of p->lock and goes on where it was interrupted.
LEMMA TrapretInv ==
  ASSUME SchedInv, NEW c \in Cpu, NEW p \in Proc, trapret(c, p)
  PROVE  SchedInv'
<1>1. Runs(c, p) /\ pc[p] = "trapret" /\ ret[p] \in {"user", "crit", "sleep_reacquire"}
  BY Zenon, Fields DEF SchedInv, trapret
<1>2. CpuLocks(c) = {p} /\ p \in Lock /\ p \in CpuLocks(c) /\ noff[c] = 1
  BY <1>1, Here, Ids DEF ThreadLocks, CpuOk
<1>3. releaseTo(c, p, TRUE)
  BY Zenon DEF trapret
<1>4. SpinType' /\ panic' = "none" /\ NoLocks(c) /\ noff'[c] = 0
  BY <1>2, <1>3, LastReleaseToUser, Zenon
<1>5. TypeOK'
  BY Zenon, <1>1, <1>4 DEF SchedInv, TypeOK, SpinType, trapret, Goto, cpuVars, clientVars
<1>6. /\ pc'[p] = ret[p] /\ slk' = slk /\ ret' = ret /\ state' = state
      /\ Others(p) /\ UNCHANGED <<cpuVars, clientVars>>
  BY Zenon, Fields DEF SchedInv, trapret, Goto, Others, clientVars
<1>7. ThreadLocks(p)' = {}
  BY Zenon, <1>1, <1>6 DEF ThreadLocks
<1>8. LockInv' /\ RunInv'
  <2>1. ret[p] = "sleep_reacquire" => slk[p] # None
    BY Zenon, <1>1 DEF SchedInv, RunInv, SleepsOn
  <2> QED
    BY Zenon, <1>1, <1>4, <1>5, <1>6, <1>7, <2>1, FreeStep
<1>9. SleepInv'
  BY Zenon, <1>1, <1>5, <1>6, QuietStep DEF InCrit
<1> QED
  BY <1>5, <1>8, <1>9 DEF SchedInv

\* A killed process takes p->lock in exit().
LEMMA ExitAcquireInv ==
  ASSUME SchedInv, NEW c \in Cpu, NEW p \in Proc, exit_acquire(c, p)
  PROVE  SchedInv'
<1>1. Runs(c, p) /\ pc[p] = "user"
  BY Zenon DEF exit_acquire
<1>2. CpuLocks(c) = {} /\ p \in Lock /\ noff[c] = 0 /\ panic = "none"
  BY <1>1, Here, Ids DEF ThreadLocks, CpuOk
<1>3. SpinType /\ \A m \in Lock : lock[m] # c
  BY Zenon, <1>2 DEF SchedInv, LockInv, TypeOK, SpinType
<1>4. SpinType' /\ panic' = "none" /\ LockMoves(c, {p}) /\ noff'[c] = 1 /\ ~intr'[c]
  <2>1. noff[c] + 1 \in 0 .. 2 /\ noff[c] + 1 = 1
    BY <1>2
  <2>2. SpinType'
    BY <1>2, <1>3, <2>1 DEF SpinType, exit_acquire
  <2>3. LockMoves(c, {p})
    BY <1>2, <1>3, Ids DEF SpinType, LockMoves, exit_acquire
  <2> QED
    BY ZenonT(30), <1>2, <1>3, <2>1, <2>2, <2>3 DEF SpinType, exit_acquire
<1>5. TypeOK'
  BY Zenon, <1>4 DEF SchedInv, TypeOK, SpinType, exit_acquire, Goto, cpuVars, clientVars
<1>6. /\ pc'[p] = "exit" /\ slk' = slk /\ state' = state
      /\ Others(p) /\ UNCHANGED <<cpuVars, clientVars>>
  BY Zenon, Fields DEF SchedInv, exit_acquire, Goto, Others, clientVars
<1>7. ThreadLocks(p)' = {p}
  BY Zenon, <1>6 DEF ThreadLocks
<1>8. LockInv' /\ RunInv'
  BY Zenon, <1>1, <1>4, <1>5, <1>6, <1>7, Ids, ThreadStep
<1>9. SleepInv'
  BY Zenon, <1>1, <1>5, <1>6, QuietStep DEF InCrit
<1> QED
  BY <1>5, <1>8, <1>9 DEF SchedInv

\* kill() marks q, and makes it RUNNABLE when it sleeps.
LEMMA KillInv ==
  ASSUME SchedInv, NEW c \in Cpu, NEW p \in Proc, NEW q \in Proc, kill(c, p, q)
  PROVE  SchedInv'
<1>1. Runs(c, p) /\ pc[p] = "user" /\ section(c, q)
  BY Zenon DEF kill
<1>2. CpuLocks(c) = {} /\ q \in Lock /\ noff[c] = 0
  BY <1>1, Here, Ids DEF ThreadLocks, CpuOk
<1>3. SpinType' /\ panic' = "none" /\ NoLocks(c) /\ noff'[c] = 0
  <2>1. SpinType' /\ panic' = "none" /\ LockMoves(c, CpuLocks(c)) /\ noff'[c] = noff[c]
    BY Zenon, <1>1, <1>2, SectionOk
  <2> QED
    BY Zenon, <1>2, <2>1 DEF LockMoves, NoLocks
<1>4. state \in [Proc -> {"RUNNABLE", "RUNNING", "SLEEPING", "ZOMBIE"}]
  BY Zenon, Fields DEF SchedInv
<1>5. /\ state' \in [Proc -> {"RUNNABLE", "RUNNING", "SLEEPING", "ZOMBIE"}]
      /\ \A r \in Proc : state'[r] = state[r] \/ (state[r] = "SLEEPING" /\ state'[r] = "RUNNABLE")
  BY Zenon, <1>4 DEF kill
<1>6. TypeOK'
  BY Zenon, <1>3, <1>5 DEF SchedInv, TypeOK, SpinType, kill, cpuVars, clientVars
<1>7. /\ pc' = pc /\ slk' = slk /\ ret' = ret
      /\ Others(p) /\ UNCHANGED <<cpuVars, clientVars>>
  BY Zenon DEF kill, Others, clientVars
<1>8. ThreadLocks(p)' = {}
  BY Zenon, <1>1, <1>7 DEF ThreadLocks
<1>9. LockInv' /\ RunInv'
  BY Zenon, <1>1, <1>3, <1>5, <1>6, <1>7, <1>8, FreeStep
<1>10. SleepInv'
  BY Zenon, <1>1, <1>5, <1>6, <1>7, QuietStep DEF InCrit
<1> QED
  BY <1>6, <1>9, <1>10 DEF SchedInv

\* sleep() takes the lock of its condition again.
LEMMA SleepReacquireInv ==
  ASSUME SchedInv, NEW c \in Cpu, NEW p \in Proc, sleep_reacquire(c, p)
  PROVE  SchedInv'
<1>1. Runs(c, p) /\ pc[p] = "sleep_reacquire" /\ slk[p] \in {tickslock, lk}
  <2>1. slk[p] \in {None, tickslock, lk}
    BY Fields DEF SchedInv
  <2>2. Runs(c, p) /\ pc[p] = "sleep_reacquire"
    BY Zenon DEF sleep_reacquire
  <2> QED
    BY Zenon, <2>1, <2>2 DEF SchedInv, RunInv, SleepsOn
<1>2. CpuLocks(c) = {} /\ slk[p] \in Lock /\ noff[c] = 0
  BY <1>1, Here, Ids DEF ThreadLocks, CpuOk
<1>3. acquire(c, slk[p])
  BY Zenon DEF sleep_reacquire
<1>4. SpinType' /\ panic' = "none" /\ LockMoves(c, {slk[p]}) /\ noff'[c] = 1 /\ ~intr'[c]
  BY Zenon, <1>2, <1>3, FirstAcquire
<1>5. TypeOK'
  BY Zenon, <1>4 DEF SchedInv, TypeOK, SpinType, sleep_reacquire, Goto, cpuVars, clientVars
<1>6. /\ pc'[p] = (IF slk[p] = lk THEN "acquiresleep" ELSE "sys_sleep")
      /\ slk' = slk /\ state' = state
      /\ Others(p) /\ UNCHANGED <<cpuVars, clientVars>>
  BY Zenon, Fields DEF SchedInv, sleep_reacquire, Goto, Others, clientVars
<1>7. ThreadLocks(p)' = {slk[p]}
  BY Zenon, <1>1, <1>6, Ids DEF ThreadLocks
<1>8. LockInv' /\ RunInv'
  BY Zenon, <1>1, <1>4, <1>5, <1>6, <1>7, Ids, ThreadStep
<1>9. SleepInv'
  BY Zenon, <1>1, <1>5, <1>6, QuietStep DEF InCrit
<1> QED
  BY <1>5, <1>8, <1>9 DEF SchedInv
------------------------------------------------------------------------
(* The steps that begin to sleep, or concern a waker. *)

\* What SleepInv reads of the other processes stays as it is.
LEMMA OtherWaits ==
  ASSUME NEW p \in Proc, Others(p), ticks' = ticks,
         \A q \in Proc : state'[q] = state[q] \/ (state[q] = "SLEEPING" /\ state'[q] = "RUNNABLE")
  PROVE  \A q \in Proc : q # p =>
           /\ Waits(q, lk)' => Waits(q, lk)
           /\ Waits(q, tickslock)' => Waits(q, tickslock)
           /\ InCrit(q)' <=> InCrit(q)
           /\ Elapsed(q)' <=> Elapsed(q)
           /\ pc'[q] = pc[q] /\ widx'[q] = widx[q]
<1>1. ASSUME NEW q \in Proc, q # p
      PROVE  /\ Waits(q, lk)' => Waits(q, lk)
             /\ Waits(q, tickslock)' => Waits(q, tickslock)
             /\ InCrit(q)' <=> InCrit(q)
             /\ Elapsed(q)' <=> Elapsed(q)
             /\ pc'[q] = pc[q] /\ widx'[q] = widx[q]
  <2>1. /\ pc'[q] = pc[q] /\ slk'[q] = slk[q] /\ ret'[q] = ret[q]
        /\ widx'[q] = widx[q] /\ chan'[q] = chan[q] /\ ticks0'[q] = ticks0[q]
    BY Zenon, <1>1 DEF Others
  <2> QED
    BY Zenon, <2>1 DEF Waits, InCrit, Elapsed
<1> QED
  BY Zenon, <1>1

\* Nobody is between taking p->lock and sched() in sleep() while p->lock is free.
LEMMA FreeLock ==
  ASSUME SchedInv, NEW q \in Proc, lock[q] = None
  PROVE  pc[q] \notin {"sleep_release", "sleep_sched"}
<1> SUFFICES ASSUME pc[q] \in {"sleep_release", "sleep_sched"} PROVE FALSE
  BY Zenon
<1>1. state[q] \in {"RUNNABLE", "RUNNING", "SLEEPING", "ZOMBIE"}
  BY Zenon, Fields DEF SchedInv
<1>2. state[q] = "RUNNING"
  BY Zenon, <1>1 DEF SchedInv, RunInv, StatePlace
<1>3. PICK d \in Cpu : proc[d] = q
  BY Zenon, <1>2 DEF SchedInv, RunInv, HasCpu
<1>4. hpc[d] = "none"
  BY Zenon, <1>3, Ids DEF SchedInv, LockInv
<1>5. q \in CpuLocks(d)
  BY Zenon, <1>3, <1>4, Ids DEF CpuLocks, ThreadLocks
<1>6. lock[q] = d
  BY Zenon, <1>5, Ids DEF SchedInv, LockInv
<1> QED
  BY Zenon, <1>6, Ids

\* The while loop of acquiresleep() goes to sleep only while the lock is taken,
\* and takes it only when it is free.
LEMMA AcquiresleepTestInv ==
  ASSUME SchedInv, NEW c \in Cpu, NEW p \in Proc, acquiresleep_test(c, p)
  PROVE  SchedInv'
<1>1. Runs(c, p) /\ pc[p] = "acquiresleep" /\ state[p] = "RUNNING" /\ UNCHANGED cpuVars
  BY Zenon, Here DEF acquiresleep_test
<1>2. CpuLocks(c) = {lk} /\ lk \in Lock /\ p \in Lock \ {lk} /\ noff[c] = 1
  BY <1>1, Here, Ids DEF ThreadLocks, CpuOk
<1>3. hpc' = hpc /\ hidx' = hidx /\ ticks' = ticks /\ state' = state
  BY Zenon DEF acquiresleep_test, cpuVars
<1>4. CASE locked # None
  <2>1. acquire(c, p) /\ locked' = locked
    BY Zenon, <1>4 DEF acquiresleep_test, sleep
  <2>2. SpinType' /\ panic' = "none" /\ LockMoves(c, {p, lk}) /\ noff'[c] = 2 /\ ~intr'[c]
    <3>1. {p, lk} = CpuLocks(c) \cup {p}
      BY <1>2
    <3> QED
      BY <1>2, <2>1, <3>1, AcquireOk
  <2>3. TypeOK'
    BY ZenonT(30), <1>4, <2>2 DEF SchedInv, TypeOK, SpinType, acquiresleep_test, sleep, Goto, cpuVars
  <2>4. pc'[p] = "sleep_release" /\ slk'[p] = lk /\ Others(p)
    BY ZenonT(30), <1>4, Fields DEF SchedInv, acquiresleep_test, sleep, Goto, Others
  <2>5. ThreadLocks(p)' = {p, lk}
    BY Zenon, <2>4 DEF ThreadLocks
  <2>6. LockInv' /\ RunInv'
    BY Zenon, <1>1, <1>3, <2>2, <2>3, <2>4, <2>5, Ids, ThreadStep
  <2>7. \A q \in Proc : q # p =>
           /\ Waits(q, tickslock)' => Waits(q, tickslock)
           /\ InCrit(q)' <=> InCrit(q)
           /\ Elapsed(q)' <=> Elapsed(q)
           /\ pc'[q] = pc[q]
    BY Zenon, <1>3, <2>4, OtherWaits
  <2>8. ~InCrit(p)' /\ ~Waits(p, tickslock)' /\ pc'[p] # "sys_sleep_sleep"
    BY Zenon, <1>1, <1>3, <2>4, Ids DEF InCrit, Waits
  <2>9. SleepInv'
    BY Zenon, <1>3, <1>4, <2>1, <2>7, <2>8 DEF SchedInv, SleepInv
  <2> QED
    BY <2>3, <2>6, <2>9 DEF SchedInv
<1>5. CASE locked = None
  <2>1. release(c, lk) /\ locked' = p
    BY Zenon, <1>5 DEF acquiresleep_test
  <2>2. SpinType' /\ panic' = "none" /\ NoLocks(c) /\ noff'[c] = 0
    BY Zenon, <1>2, <2>1, LastRelease
  <2>3. TypeOK'
    BY ZenonT(60), <1>5, <2>2 DEF SchedInv, TypeOK, SpinType, acquiresleep_test, Goto, cpuVars
  <2>4. pc'[p] = "crit" /\ slk' = slk /\ Others(p)
    BY Zenon, <1>5, Fields DEF SchedInv, acquiresleep_test, Goto, Others
  <2>5. ThreadLocks(p)' = {}
    BY Zenon, <2>4 DEF ThreadLocks
  <2>6. LockInv' /\ RunInv'
    BY Zenon, <1>1, <1>3, <2>2, <2>3, <2>4, <2>5, FreeStep
  <2>7. \A q \in Proc : q # p =>
           /\ Waits(q, tickslock)' => Waits(q, tickslock)
           /\ InCrit(q)' <=> InCrit(q)
           /\ Elapsed(q)' <=> Elapsed(q)
           /\ pc'[q] = pc[q]
    BY Zenon, <1>3, <2>4, OtherWaits
  <2>8. ~Waits(p, tickslock)' /\ pc'[p] # "sys_sleep_sleep" /\ locked' # None
    BY Zenon, <1>1, <1>3, <2>1, <2>4, Ids DEF Waits
  <2>9. \A q \in Proc : ~InCrit(q)
    BY Zenon, <1>5, Ids DEF SchedInv, SleepInv
  <2>10. SleepInv'
    BY Zenon, <1>3, <2>1, <2>7, <2>8, <2>9 DEF SchedInv, SleepInv
  <2> QED
    BY <2>3, <2>6, <2>10 DEF SchedInv
<1> QED
  BY <1>4, <1>5

\* releasesleep() frees the lock, and its wakeup() is yet to reach every sleeper.
LEMMA ReleasesleepInv ==
  ASSUME SchedInv, NEW c \in Cpu, NEW p \in Proc, releasesleep(c, p)
  PROVE  SchedInv'
<1>1. Runs(c, p) /\ pc[p] = "crit" /\ state[p] = "RUNNING" /\ UNCHANGED cpuVars
  BY Zenon, Here DEF releasesleep
<1>2. CpuLocks(c) = {} /\ lk \in Lock /\ noff[c] = 0
  BY <1>1, Here, Ids DEF ThreadLocks, CpuOk
<1>3. hpc' = hpc /\ hidx' = hidx /\ ticks' = ticks /\ state' = state /\ locked' = None /\ slk' = slk
  BY Zenon DEF releasesleep, cpuVars
<1>4. acquire(c, lk)
  BY Zenon DEF releasesleep
<1>5. SpinType' /\ panic' = "none" /\ LockMoves(c, {lk}) /\ noff'[c] = 1 /\ ~intr'[c]
  BY <1>2, <1>4, FirstAcquire
<1>6. widx' \in [Proc -> 1 .. (NPROC + 1)]
  <2>1. widx \in [Proc -> 1 .. (NPROC + 1)] /\ 1 \in 1 .. (NPROC + 1)
    BY Fields, SchedAssumption DEF SchedInv
  <2> QED
    BY Zenon, <2>1 DEF releasesleep
<1>7. TypeOK'
  BY Zenon, <1>5, <1>6 DEF SchedInv, TypeOK, SpinType, releasesleep, Goto, cpuVars
<1>8. pc'[p] = "releasesleep" /\ widx'[p] = 1 /\ Others(p)
  BY Zenon, Fields DEF SchedInv, releasesleep, Goto, Others
<1>9. ThreadLocks(p)' = {lk}
  BY Zenon, <1>8 DEF ThreadLocks
<1>10. LockInv' /\ RunInv'
  BY Zenon, <1>1, <1>3, <1>5, <1>7, <1>8, <1>9, Ids, ThreadStep
<1>11. \A q \in Proc : q # p =>
         /\ Waits(q, tickslock)' => Waits(q, tickslock)
         /\ InCrit(q)' <=> InCrit(q)
         /\ Elapsed(q)' <=> Elapsed(q)
         /\ pc'[q] = pc[q]
  BY Zenon, <1>3, <1>8, OtherWaits
<1>12. ~InCrit(p)' /\ ~Waits(p, tickslock)' /\ pc'[p] # "sys_sleep_sleep"
  BY Zenon, <1>1, <1>3, <1>8 DEF InCrit, Waits
<1>13. \A q \in Proc : ~InCrit(q)'
  <2>1. InCrit(p)
    BY Zenon, <1>1 DEF InCrit
  <2> QED
    BY Zenon, <1>11, <1>12, <2>1 DEF SchedInv, SleepInv
<1>14. \A q \in Proc : widx'[p] <= q
  BY <1>8, SchedAssumption DEF Proc
<1>15. SleepInv'
  BY Zenon, <1>3, <1>8, <1>11, <1>12, <1>13, <1>14 DEF SchedInv, SleepInv
<1> QED
  BY <1>7, <1>10, <1>15 DEF SchedInv

\* One turn of wakeup(ch): process q does not wait on ch afterwards.
LEMMA WakeupOk ==
  ASSUME SchedInv, NEW c \in Cpu, NEW q \in Proc, NEW ch, q \notin CpuLocks(c), wakeup(c, q, ch),
         UNCHANGED <<pc, chan, slk>>,
         q = proc[c] => pc[q] \notin {"sleep_release", "sleep_sched"}
  PROVE  /\ SpinType' /\ panic' = "none" /\ LockMoves(c, CpuLocks(c))
         /\ noff'[c] = noff[c] /\ intr'[c] = intr[c] /\ intena'[c] = intena[c]
         /\ state' \in [Proc -> {"RUNNABLE", "RUNNING", "SLEEPING", "ZOMBIE"}]
         /\ \A r \in Proc : state'[r] = state[r] \/ (state[r] = "SLEEPING" /\ state'[r] = "RUNNABLE")
         /\ ~Waits(q, ch)'
<1>1. state \in [Proc -> {"RUNNABLE", "RUNNING", "SLEEPING", "ZOMBIE"}]
  BY Zenon, Fields DEF SchedInv
<1>2. CASE q = proc[c]
  <2>1. UNCHANGED <<state, lock, noff, intena, intr, panic>>
    BY Zenon, <1>2 DEF wakeup
  <2>2. SpinType' /\ panic' = "none"
    BY Zenon, <2>1 DEF SchedInv, TypeOK, SpinType, LockInv
  <2>3. LockMoves(c, CpuLocks(c))
    BY Zenon, <2>1 DEF SchedInv, LockInv, LockMoves
  <2>4. state[q] = "RUNNING"
    BY Zenon, <1>2, Ids DEF SchedInv, RunInv, OnCpu
  <2> QED
    BY Zenon, <1>1, <1>2, <2>1, <2>2, <2>3, <2>4 DEF Waits
<1>3. CASE q # proc[c]
  <2>1. section(c, q) /\ q \in Lock
    BY Zenon, <1>3, Ids DEF wakeup
  <2>2. /\ SpinType' /\ panic' = "none" /\ lock[q] = None /\ LockMoves(c, CpuLocks(c))
        /\ noff'[c] = noff[c] /\ intr'[c] = intr[c] /\ intena'[c] = intena[c]
    BY Zenon, <2>1, SectionOk
  <2>3. pc[q] \notin {"sleep_release", "sleep_sched"}
    BY Zenon, <2>2, FreeLock
  <2>4. state' = IF state[q] = "SLEEPING" /\ chan[q] = ch THEN [state EXCEPT ![q] = "RUNNABLE"] ELSE state
    BY Zenon, <1>3 DEF wakeup
  <2> QED
    BY Zenon, <1>1, <2>2, <2>3, <2>4 DEF Waits
<1> QED
  BY Zenon, <1>2, <1>3

\* The wakeup() of releasesleep() passes a process only when it does not wait.
LEMMA ReleasesleepWakeupInv ==
  ASSUME SchedInv, NEW c \in Cpu, NEW p \in Proc, releasesleep_wakeup(c, p)
  PROVE  SchedInv'
<1>1. Runs(c, p) /\ pc[p] = "releasesleep" /\ proc[c] = p /\ state[p] = "RUNNING"
  BY ZenonT(30), Here DEF releasesleep_wakeup
<1>2. CpuLocks(c) = {lk} /\ lk \in Lock /\ lk \notin Proc /\ noff[c] = 1 /\ ~intr[c]
  BY <1>1, Here, Ids DEF ThreadLocks, CpuOk
<1>3. /\ hpc' = hpc /\ hidx' = hidx /\ ticks' = ticks /\ locked' = locked
      /\ slk' = slk /\ chan' = chan /\ UNCHANGED cpuVars
  BY Zenon DEF releasesleep_wakeup, cpuVars, clientVars
<1>4. widx \in [Proc -> 1 .. (NPROC + 1)] /\ widx[p] \in 1 .. (NPROC + 1) /\ NPROC \in Nat
  BY Zenon, Fields, SchedAssumption DEF SchedInv
<1>5. CASE widx[p] \in Proc
  <2>1. PICK w \in Proc : w = widx[p]
    BY Zenon, <1>5
  <2>2. wakeup(c, w, lk) /\ pc' = pc /\ widx' = [widx EXCEPT ![p] = @ + 1]
    BY Zenon, <1>5, <2>1 DEF releasesleep_wakeup
  <2>3. widx' \in [Proc -> 1 .. (NPROC + 1)] /\ widx'[p] = widx[p] + 1
    <3>1. widx[p] + 1 \in 1 .. (NPROC + 1)
      BY <1>4, <1>5 DEF Proc
    <3> QED
      BY Zenon, <1>4, <2>2, <3>1
  <2>4. /\ SpinType' /\ panic' = "none" /\ LockMoves(c, {lk}) /\ noff'[c] = 1 /\ ~intr'[c]
        /\ state' \in [Proc -> {"RUNNABLE", "RUNNING", "SLEEPING", "ZOMBIE"}]
        /\ \A r \in Proc : state'[r] = state[r] \/ (state[r] = "SLEEPING" /\ state'[r] = "RUNNABLE")
        /\ ~Waits(w, lk)'
    BY ZenonT(30), <1>1, <1>2, <1>3, <1>5, <2>2, WakeupOk
  <2>5. TypeOK'
    BY Zenon, <2>2, <2>3, <2>4 DEF SchedInv, TypeOK, SpinType, releasesleep_wakeup, cpuVars, clientVars
  <2>6. Others(p)
    BY Zenon, <1>4, <2>2 DEF releasesleep_wakeup, Others, clientVars
  <2>7. ThreadLocks(p)' = {lk}
    BY Zenon, <1>1, <2>2 DEF ThreadLocks
  <2>8. LockInv' /\ RunInv'
    BY Zenon, <1>1, <1>3, <2>2, <2>4, <2>5, <2>6, <2>7, Ids, ThreadStep
  <2>9. \A q \in Proc : q # p =>
           /\ Waits(q, lk)' => Waits(q, lk)
           /\ Waits(q, tickslock)' => Waits(q, tickslock)
           /\ InCrit(q)' <=> InCrit(q)
           /\ Elapsed(q)' <=> Elapsed(q)
           /\ pc'[q] = pc[q] /\ widx'[q] = widx[q]
    BY Zenon, <1>3, <2>4, <2>6, OtherWaits
  <2>10. ~InCrit(p)' /\ ~Waits(p, lk)' /\ ~Waits(p, tickslock)' /\ pc'[p] = "releasesleep"
    BY Zenon, <1>1, <2>2, <2>4 DEF InCrit, Waits
  <2>11. ASSUME NEW r \in Proc, Waits(r, lk)'
         PROVE  locked' # None \/ \E q \in Proc : pc'[q] = "releasesleep" /\ widx'[q] <= r
    <3>1. Waits(r, lk) /\ r # w
      BY Zenon, <2>4, <2>9, <2>10, <2>11
    <3>2. locked # None \/ \E q \in Proc : pc[q] = "releasesleep" /\ widx[q] <= r
      BY Zenon, <3>1 DEF SchedInv, SleepInv
    <3>3. widx[p] <= r => widx'[p] <= r
      BY <1>4, <2>3, <2>1, <3>1, SchedAssumption DEF Proc
    <3> QED
      BY Zenon, <1>3, <2>9, <2>10, <3>2, <3>3
  <2>12. SleepInv'
    <3>1. \A q \in Proc : InCrit(q)' => locked' = q
      BY Zenon, <1>3, <2>9, <2>10 DEF SchedInv, SleepInv
    <3>2. \A q \in Proc : Waits(q, tickslock)' /\ Elapsed(q)' =>
            \E d \in Cpu : hpc'[d] = "wakeup" /\ hidx'[d] <= q
      BY Zenon, <1>3, <2>9, <2>10 DEF SchedInv, SleepInv
    <3>3. \A q \in Proc : pc'[q] = "sys_sleep_sleep" => ~Elapsed(q)'
      BY Zenon, <2>9, <2>10 DEF SchedInv, SleepInv
    <3> QED
      BY Zenon, <2>11, <3>1, <3>2, <3>3 DEF SleepInv
  <2> QED
    BY <2>5, <2>8, <2>12 DEF SchedInv
<1>6. CASE widx[p] \notin Proc
  <2>1. release(c, lk) /\ state' = state /\ widx' = widx
    BY Zenon, <1>6 DEF releasesleep_wakeup
  <2>2. SpinType' /\ panic' = "none" /\ NoLocks(c) /\ noff'[c] = 0
    BY Zenon, <1>2, <2>1, LastRelease
  <2>3. TypeOK'
    BY ZenonT(30), <1>6, <2>2 DEF SchedInv, TypeOK, SpinType, releasesleep_wakeup, Goto, cpuVars, clientVars
  <2>4. pc'[p] = "user" /\ Others(p)
    BY Zenon, <1>6, Fields DEF SchedInv, releasesleep_wakeup, Goto, Others, clientVars
  <2>5. ThreadLocks(p)' = {}
    BY Zenon, <2>4 DEF ThreadLocks
  <2>6. LockInv' /\ RunInv'
    BY Zenon, <1>1, <1>3, <2>1, <2>2, <2>3, <2>4, <2>5, FreeStep
  <2>7. \A q \in Proc : q # p =>
           /\ Waits(q, lk)' => Waits(q, lk)
           /\ Waits(q, tickslock)' => Waits(q, tickslock)
           /\ InCrit(q)' <=> InCrit(q)
           /\ Elapsed(q)' <=> Elapsed(q)
           /\ pc'[q] = pc[q] /\ widx'[q] = widx[q]
    BY Zenon, <1>3, <2>1, <2>4, OtherWaits
  <2>8. ~InCrit(p)' /\ ~Waits(p, lk)' /\ ~Waits(p, tickslock)' /\ pc'[p] # "sys_sleep_sleep"
    BY Zenon, <1>1, <2>1, <2>4 DEF InCrit, Waits
  <2>9. \A r \in Proc : ~(widx[p] <= r)
    BY <1>4, <1>6, SchedAssumption DEF Proc
  <2>10. SleepInv'
    BY ZenonT(30), <1>3, <2>7, <2>8, <2>9 DEF SchedInv, SleepInv
  <2> QED
    BY <2>3, <2>6, <2>10 DEF SchedInv
<1> QED
  BY Zenon, <1>5, <1>6

\* sys_sleep() takes tickslock and notes the time.
LEMMA SysSleepInv ==
  ASSUME SchedInv, NEW c \in Cpu, NEW p \in Proc, sys_sleep(c, p)
  PROVE  SchedInv'
<1>1. Runs(c, p) /\ pc[p] = "user" /\ state[p] = "RUNNING" /\ UNCHANGED cpuVars
  BY Zenon, Here DEF sys_sleep
<1>2. CpuLocks(c) = {} /\ tickslock \in Lock /\ noff[c] = 0
  BY SMTT(30), <1>1, Here, Ids DEF ThreadLocks, CpuOk
<1>3. /\ hpc' = hpc /\ hidx' = hidx /\ ticks' = ticks /\ state' = state /\ locked' = locked
      /\ slk' = slk /\ widx' = widx /\ acquire(c, tickslock)
  BY Zenon DEF sys_sleep, cpuVars
<1>4. SpinType' /\ panic' = "none" /\ LockMoves(c, {tickslock}) /\ noff'[c] = 1 /\ ~intr'[c]
  BY Zenon, <1>2, <1>3, FirstAcquire
<1>5. TypeOK'
  BY Zenon, <1>4 DEF SchedInv, TypeOK, SpinType, sys_sleep, Goto, cpuVars
<1>6. pc'[p] = "sys_sleep" /\ Others(p)
  BY Zenon, Fields DEF SchedInv, sys_sleep, Goto, Others
<1>7. ThreadLocks(p)' = {tickslock}
  BY Zenon, <1>6 DEF ThreadLocks
<1>8. LockInv' /\ RunInv'
  BY Zenon, <1>1, <1>3, <1>4, <1>5, <1>6, <1>7, Ids, ThreadStep
<1>9. \A q \in Proc : q # p =>
         /\ Waits(q, lk)' => Waits(q, lk)
         /\ Waits(q, tickslock)' => Waits(q, tickslock)
         /\ InCrit(q)' <=> InCrit(q)
         /\ Elapsed(q)' <=> Elapsed(q)
         /\ pc'[q] = pc[q] /\ widx'[q] = widx[q]
  BY Zenon, <1>3, <1>6, OtherWaits
<1>10. ~InCrit(p)' /\ ~Waits(p, lk)' /\ ~Waits(p, tickslock)' /\ pc'[p] # "sys_sleep_sleep"
  BY Zenon, <1>1, <1>3, <1>6 DEF InCrit, Waits
<1>11. SleepInv'
  BY Zenon, <1>1, <1>3, <1>9, <1>10 DEF SchedInv, SleepInv
<1> QED
  BY <1>5, <1>8, <1>11 DEF SchedInv

\* The while loop of sys_sleep() goes on to sleep only before its time has come.
LEMMA SysSleepTestInv ==
  ASSUME SchedInv, NEW c \in Cpu, NEW p \in Proc, sys_sleep_test(c, p)
  PROVE  SchedInv'
<1>1. Runs(c, p) /\ pc[p] = "sys_sleep" /\ state[p] = "RUNNING" /\ UNCHANGED <<cpuVars, clientVars>>
  BY Zenon, Here DEF sys_sleep_test, clientVars
<1>2. CpuLocks(c) = {tickslock} /\ tickslock \in Lock /\ p \in Lock \ {tickslock} /\ noff[c] = 1 /\ ~intr[c]
  BY <1>1, Here, Ids DEF ThreadLocks, CpuOk
<1>3. /\ hpc' = hpc /\ hidx' = hidx /\ ticks' = ticks /\ ticks0' = ticks0 /\ state' = state
      /\ locked' = locked /\ slk' = slk /\ widx' = widx
  BY Zenon DEF sys_sleep_test, cpuVars, clientVars
<1>4. CASE Elapsed(p)
  <2>1. release(c, tickslock) /\ Goto(p, "user")
    BY Zenon, <1>4 DEF sys_sleep_test
  <2>2. SpinType' /\ panic' = "none" /\ NoLocks(c) /\ noff'[c] = 0
    BY Zenon, <1>2, <2>1, LastRelease
  <2>3. TypeOK'
    BY Zenon, <2>1, <2>2 DEF SchedInv, TypeOK, SpinType, sys_sleep_test, Goto, cpuVars, clientVars
  <2>4. pc'[p] = "user" /\ Others(p)
    BY Zenon, <2>1, Fields DEF SchedInv, sys_sleep_test, Goto, Others, clientVars
  <2>5. ThreadLocks(p)' = {}
    BY <2>4 DEF ThreadLocks
  <2>6. LockInv' /\ RunInv'
    BY Zenon, <1>1, <1>3, <2>2, <2>3, <2>4, <2>5, FreeStep
  <2>7. SleepInv'
    BY Zenon, <1>1, <1>3, <2>3, <2>4, QuietStep DEF InCrit
  <2> QED
    BY <2>3, <2>6, <2>7 DEF SchedInv
<1>5. CASE ~Elapsed(p)
  <2>1. section(c, p) /\ Goto(p, IF killed[p] THEN "sys_sleep_fail" ELSE "sys_sleep_sleep")
    BY Zenon, <1>5 DEF sys_sleep_test
  <2>2. SpinType' /\ panic' = "none" /\ LockMoves(c, {tickslock}) /\ noff'[c] = 1 /\ ~intr'[c]
    BY Zenon, <1>2, <2>1, SectionOk
  <2>3. TypeOK'
    BY Zenon, <2>1, <2>2 DEF SchedInv, TypeOK, SpinType, sys_sleep_test, Goto, cpuVars, clientVars
  <2>4. pc'[p] \in {"sys_sleep_fail", "sys_sleep_sleep"} /\ Others(p)
    BY Zenon, <2>1, Fields DEF SchedInv, sys_sleep_test, Goto, Others, clientVars
  <2>5. ThreadLocks(p)' = {tickslock}
    BY Zenon, <2>4 DEF ThreadLocks
  <2>6. LockInv' /\ RunInv'
    BY Zenon, <1>1, <1>3, <2>2, <2>3, <2>4, <2>5, Ids, ThreadStep
  <2>7. \A q \in Proc : q # p =>
           /\ Waits(q, lk)' => Waits(q, lk)
           /\ Waits(q, tickslock)' => Waits(q, tickslock)
           /\ InCrit(q)' <=> InCrit(q)
           /\ Elapsed(q)' <=> Elapsed(q)
           /\ pc'[q] = pc[q] /\ widx'[q] = widx[q]
    BY Zenon, <1>3, <2>4, OtherWaits
  <2>8. ~InCrit(p)' /\ ~Waits(p, lk)' /\ ~Waits(p, tickslock)' /\ ~Elapsed(p)'
    BY Zenon, <1>1, <1>3, <1>5, <2>4 DEF InCrit, Waits, Elapsed
  <2>9. SleepInv'
    BY ZenonT(30), <1>1, <1>3, <2>7, <2>8 DEF SchedInv, SleepInv
  <2> QED
    BY <2>3, <2>6, <2>9 DEF SchedInv
<1> QED
  BY <1>4, <1>5

\* sys_sleep() calls sleep() with tickslock, before its time has come.
LEMMA SysSleepSleepInv ==
  ASSUME SchedInv, NEW c \in Cpu, NEW p \in Proc, sys_sleep_sleep(c, p)
  PROVE  SchedInv'
<1>1. Runs(c, p) /\ pc[p] = "sys_sleep_sleep" /\ state[p] = "RUNNING" /\ UNCHANGED cpuVars
  BY Zenon, Here DEF sys_sleep_sleep
<1>2. CpuLocks(c) = {tickslock} /\ p \in Lock \ {tickslock} /\ noff[c] = 1
  BY <1>1, Here, Ids DEF ThreadLocks, CpuOk
<1>3. /\ hpc' = hpc /\ hidx' = hidx /\ ticks' = ticks /\ ticks0' = ticks0 /\ state' = state
      /\ locked' = locked /\ widx' = widx /\ acquire(c, p)
  BY Zenon DEF sys_sleep_sleep, sleep, cpuVars, clientVars
<1>4. SpinType' /\ panic' = "none" /\ LockMoves(c, {p, tickslock}) /\ noff'[c] = 2 /\ ~intr'[c]
  <2>1. {p, tickslock} = CpuLocks(c) \cup {p}
    BY Zenon, <1>2
  <2> QED
    BY <1>2, <1>3, <2>1, AcquireOk
<1>5. TypeOK'
  BY Zenon, <1>4 DEF SchedInv, TypeOK, SpinType, sys_sleep_sleep, sleep, Goto, cpuVars, clientVars
<1>6. pc'[p] = "sleep_release" /\ slk'[p] = tickslock /\ Others(p)
  BY Zenon, Fields DEF SchedInv, sys_sleep_sleep, sleep, Goto, Others, clientVars
<1>7. ThreadLocks(p)' = {p, tickslock}
  BY Zenon, <1>6 DEF ThreadLocks
<1>8. LockInv' /\ RunInv'
  BY Zenon, <1>1, <1>3, <1>4, <1>5, <1>6, <1>7, Ids, ThreadStep
<1>9. \A q \in Proc : q # p =>
         /\ Waits(q, lk)' => Waits(q, lk)
         /\ Waits(q, tickslock)' => Waits(q, tickslock)
         /\ InCrit(q)' <=> InCrit(q)
         /\ Elapsed(q)' <=> Elapsed(q)
         /\ pc'[q] = pc[q] /\ widx'[q] = widx[q]
  BY Zenon, <1>3, <1>6, OtherWaits
<1>10. ~Elapsed(p)'
  BY Zenon, <1>1, <1>3 DEF SchedInv, SleepInv, Elapsed
<1>11. ~InCrit(p)' /\ ~Waits(p, lk)' /\ pc'[p] # "sys_sleep_sleep"
  BY Zenon, <1>1, <1>3, <1>6, Ids DEF InCrit, Waits
<1>12. SleepInv'
  BY Zenon, <1>1, <1>3, <1>9, <1>10, <1>11 DEF SchedInv, SleepInv
<1> QED
  BY <1>5, <1>8, <1>12 DEF SchedInv
------------------------------------------------------------------------
(* The steps of the scheduler and of the interrupt handlers. *)

\* A step on c leaves the other CPUs alone.
OtherCpus(c) == \A d \in Cpu : d # c =>
    /\ proc'[d] = proc[d] /\ spc'[d] = spc[d] /\ sidx'[d] = sidx[d]
    /\ hpc'[d] = hpc[d] /\ hidx'[d] = hidx[d]

\* The variables of the CPUs are functions, and every place is one of Sched's.
LEMMA CpuFields ==
  ASSUME TypeOK, NEW c \in Cpu
  PROVE  /\ proc \in [Cpu -> Proc \cup {None}] /\ hpc \in [Cpu -> {"none", "clockintr", "wakeup", "yield"}]
         /\ sidx \in [Cpu -> Proc] /\ hidx \in [Cpu -> 1 .. (NPROC + 1)]
         /\ spc \in [Cpu -> {"top", "scan", "look", "swtch"}] /\ intr \in [Cpu -> BOOLEAN]
         /\ \A p \in Proc : pc[p] \in {"forkret", "user", "yield", "trapret", "exit", "zombie",
                        "sleep_release", "sleep_sched", "sleep_tidy", "sleep_reacquire",
                        "acquiresleep", "crit", "releasesleep",
                        "sys_sleep", "sys_sleep_sleep", "sys_sleep_fail"}
<1>1. pc \in [Proc -> {"forkret", "user", "yield", "trapret", "exit", "zombie",
                        "sleep_release", "sleep_sched", "sleep_tidy", "sleep_reacquire",
                        "acquiresleep", "crit", "releasesleep",
                        "sys_sleep", "sys_sleep_sleep", "sys_sleep_fail"}]
  BY Zenon DEF TypeOK
<1>2. /\ proc \in [Cpu -> Proc \cup {None}] /\ hpc \in [Cpu -> {"none", "clockintr", "wakeup", "yield"}]
      /\ sidx \in [Cpu -> Proc] /\ hidx \in [Cpu -> 1 .. (NPROC + 1)]
      /\ spc \in [Cpu -> {"top", "scan", "look", "swtch"}] /\ intr \in [Cpu -> BOOLEAN]
  BY Zenon DEF TypeOK
<1> QED
  BY Zenon, <1>1, <1>2

\* A step of the scheduler or of a handler on c that moves no thread, and after
\* which the locks of c fit the place of the code that c executes.
LEMMA CpuStep ==
  ASSUME SchedInv, TypeOK', NEW c \in Cpu, OtherCpus(c), panic' = "none",
         UNCHANGED <<proc, pc, ret, slk, widx, chan, ticks0>>,
         NEW S, S = CpuLocks(c)', LockMoves(c, S), noff'[c] = (IF S = {} THEN 0 ELSE 1),
         noff'[c] > 0 => ~intr'[c],
         proc[c] = None /\ hpc'[c] # "none" => spc'[c] \in {"top", "scan"},
         proc[c] # None => /\ pc[proc[c]] \in {"user", "crit", "sleep_reacquire"}
                           /\ spc'[c] = spc[c] /\ sidx'[c] = sidx[c],
         hpc'[c] # "none" => ~intr'[c], hpc'[c] = "wakeup" => ~intena'[c],
         \A q \in Proc : state'[q] = state[q] \/ (state[q] = "SLEEPING" /\ state'[q] = "RUNNABLE")
  PROVE  LockInv' /\ RunInv'
<1>1. Local(c)
  BY DEF Local, OtherCpus, LockMoves
<1>2. CpuOk(c)'
  <2>1. \A l \in Lock : lock'[l] = c <=> l \in CpuLocks(c)'
    BY Zenon DEF LockMoves
  <2>2. proc[c] # None => pc'[proc'[c]] # "sleep_release"
    BY Zenon
  <2> QED
    BY Zenon, <2>1, <2>2 DEF CpuOk
<1>3. LockInv'
  BY Zenon, <1>1, <1>2, LockStep
<1>4. proc[c] # None =>
           /\ spc'[c] = spc[c] /\ sidx'[c] = sidx[c] /\ pc'[proc[c]] # "zombie"
           /\ (\/ pc'[proc[c]] \in {"sleep_release", "sleep_sched", "sleep_tidy", "sleep_reacquire"}
               \/ pc'[proc[c]] \in {"yield", "trapret"} /\ ret'[proc[c]] = "sleep_reacquire")
                => slk'[proc[c]] # None
  <2>1. proc[c] # None => proc[c] \in Proc
    BY Zenon, ProcType DEF SchedInv
  <2> QED
    BY Zenon, <2>1 DEF SchedInv, RunInv, SleepsOn
<1>5. RunInv'
  BY Zenon, <1>1, <1>4, RunStep
<1> QED
  BY <1>3, <1>5

\* The same when c holds no lock afterwards.
LEMMA FreeCpuStep ==
  ASSUME SchedInv, TypeOK', NEW c \in Cpu, OtherCpus(c), panic' = "none",
         UNCHANGED <<proc, pc, ret, slk, widx, chan, ticks0>>,
         CpuLocks(c)' = {}, NoLocks(c), noff'[c] = 0,
         proc[c] = None /\ hpc'[c] # "none" => spc'[c] \in {"top", "scan"},
         proc[c] # None => /\ pc[proc[c]] \in {"user", "crit", "sleep_reacquire"}
                           /\ spc'[c] = spc[c] /\ sidx'[c] = sidx[c],
         hpc'[c] # "none" => ~intr'[c] /\ hpc'[c] # "wakeup",
         \A q \in Proc : state'[q] = state[q] \/ (state[q] = "SLEEPING" /\ state'[q] = "RUNNABLE")
  PROVE  LockInv' /\ RunInv'
<1>1. LockMoves(c, CpuLocks(c)')
  BY Zenon DEF LockMoves, NoLocks
<1>2. noff'[c] = (IF CpuLocks(c)' = {} THEN 0 ELSE 1)
  BY Zenon
<1>3. ~(noff'[c] > 0) /\ (hpc'[c] # "none" => ~intr'[c]) /\ (hpc'[c] = "wakeup" => ~intena'[c])
  OBVIOUS
<1> QED
  BY Zenon, <1>1, <1>2, <1>3, CpuStep

\* Such a step that neither advances a waker nor the clock.
LEMMA IdleStep ==
  ASSUME SchedInv, TypeOK', UNCHANGED <<pc, ret, slk, widx, chan, clientVars>>,
         \A q \in Proc : state'[q] = state[q] \/ (state[q] = "SLEEPING" /\ state'[q] = "RUNNABLE"),
         \A d \in Cpu : hpc[d] = "wakeup" => hpc'[d] = "wakeup" /\ hidx'[d] = hidx[d]
  PROVE  SleepInv'
<1>1. ASSUME NEW q \in Proc
      PROVE  /\ Waits(q, lk)' => Waits(q, lk)
             /\ Waits(q, tickslock)' => Waits(q, tickslock)
             /\ InCrit(q)' => InCrit(q)
             /\ pc'[q] = "sys_sleep_sleep" => pc[q] = "sys_sleep_sleep"
             /\ pc[q] = "releasesleep" => pc'[q] = "releasesleep" /\ widx'[q] = widx[q]
  BY Zenon DEF Waits, InCrit
<1> QED
  BY Zenon, <1>1, SleepStep

\* What holds where c runs its scheduler thread.
LEMMA AtScheduler ==
  ASSUME SchedInv, NEW c \in Cpu, Runs(c, None)
  PROVE  /\ proc[c] = None /\ hpc[c] = "none" /\ panic = "none" /\ CpuOk(c)
         /\ sidx[c] \in Proc /\ sidx[c] \in Lock
         /\ CpuLocks(c) = IF spc[c] \in {"look", "swtch"} THEN {sidx[c]} ELSE {}
         /\ noff[c] = IF spc[c] \in {"look", "swtch"} THEN 1 ELSE 0
<1>1. proc[c] = None /\ hpc[c] = "none" /\ panic = "none"
  BY DEF Runs
<1>2. CpuOk(c)
  BY LockInvCpu DEF SchedInv
<1>3. sidx[c] \in Proc /\ sidx[c] \in Lock
  BY CpuFields, Ids DEF SchedInv
<1>4. CpuLocks(c) = IF spc[c] \in {"look", "swtch"} THEN {sidx[c]} ELSE {}
  BY <1>1 DEF CpuLocks
<1> QED
  BY Zenon, <1>1, <1>2, <1>3, <1>4 DEF CpuOk

\* The head of the scheduler's loop turns interrupts on, holding no lock.
LEMMA SchedulerTopInv ==
  ASSUME SchedInv, NEW c \in Cpu, scheduler_top(c)
  PROVE  SchedInv'
<1>1. Runs(c, None) /\ spc[c] = "top"
  BY DEF scheduler_top
<1>2. proc[c] = None /\ hpc[c] = "none" /\ panic = "none" /\ CpuOk(c) /\ CpuLocks(c) = {} /\ noff[c] = 0
  BY Zenon, <1>1, AtScheduler
<1>3. /\ UNCHANGED <<state, proc, pc, ret, slk, widx, chan, lock, noff, panic, hpc, hidx, clientVars>>
      /\ ticks0' = ticks0
  BY DEF scheduler_top, procVars, clientVars
<1>4. TypeOK'
  BY Zenon, Ids DEF SchedInv, TypeOK, scheduler_top, procVars, clientVars
<1>5. OtherCpus(c) /\ spc'[c] = "scan" /\ NoLocks(c)
  BY Zenon, <1>2, CpuFields DEF SchedInv, scheduler_top, OtherCpus, NoLocks, CpuOk
<1>6. CpuLocks(c)' = {}
  BY Zenon, <1>2, <1>3, <1>5 DEF CpuLocks
<1>7. LockInv' /\ RunInv'
  BY Zenon, <1>2, <1>3, <1>4, <1>5, <1>6, FreeCpuStep
<1>8. SleepInv'
  BY Zenon, <1>3, <1>4, IdleStep
<1> QED
  BY <1>4, <1>7, <1>8 DEF SchedInv

\* The scheduler takes the lock of the process it looks at.
LEMMA SchedulerAcquireInv ==
  ASSUME SchedInv, NEW c \in Cpu, scheduler_acquire(c)
  PROVE  SchedInv'
<1>1. Runs(c, None) /\ spc[c] = "scan" /\ acquire(c, sidx[c])
  BY DEF scheduler_acquire
<1>2. /\ proc[c] = None /\ hpc[c] = "none" /\ CpuLocks(c) = {} /\ noff[c] = 0
      /\ sidx[c] \in Proc /\ sidx[c] \in Lock
  BY Zenon, <1>1, AtScheduler
<1>3. /\ UNCHANGED <<state, proc, pc, ret, slk, widx, chan, sidx, hpc, hidx, clientVars>>
      /\ ticks0' = ticks0
  BY DEF scheduler_acquire, procVars, clientVars
<1>4. SpinType' /\ panic' = "none" /\ LockMoves(c, {sidx[c]}) /\ noff'[c] = 1 /\ ~intr'[c]
  BY Zenon, <1>1, <1>2, FirstAcquire
<1>5. TypeOK'
  BY Zenon, <1>4 DEF SchedInv, TypeOK, SpinType, scheduler_acquire, procVars, clientVars
<1>6. OtherCpus(c) /\ spc'[c] = "look"
  BY Zenon, CpuFields DEF SchedInv, scheduler_acquire, OtherCpus
<1>7. CpuLocks(c)' = {sidx[c]}
  BY Zenon, <1>2, <1>3, <1>6 DEF CpuLocks
<1>8. LockInv' /\ RunInv'
  BY Zenon, <1>2, <1>3, <1>4, <1>5, <1>6, <1>7, CpuStep
<1>9. SleepInv'
  BY Zenon, <1>3, <1>5, IdleStep
<1> QED
  BY <1>5, <1>8, <1>9 DEF SchedInv

\* The scheduler lets go of that lock and goes on to the next process.
LEMMA NextProcInv ==
  ASSUME SchedInv, NEW c \in Cpu, Runs(c, None), spc[c] \in {"look", "swtch"}, nextProc(c),
         UNCHANGED <<procVars, proc, hpc, hidx, clientVars>>
  PROVE  SchedInv'
<1>1. /\ proc[c] = None /\ hpc[c] = "none" /\ CpuLocks(c) = {sidx[c]} /\ noff[c] = 1
      /\ sidx[c] \in Proc /\ sidx[c] \in Lock
  BY Zenon, AtScheduler
<1>2. /\ UNCHANGED <<state, proc, pc, ret, slk, widx, chan, hpc, hidx, clientVars>>
      /\ ticks0' = ticks0
  BY DEF procVars, clientVars
<1>3. SpinType' /\ panic' = "none" /\ NoLocks(c) /\ noff'[c] = 0
  BY Zenon, <1>1, LastRelease DEF nextProc
<1>4. /\ spc' \in [Cpu -> {"top", "scan", "look", "swtch"}] /\ spc'[c] \in {"top", "scan"}
      /\ sidx' \in [Cpu -> Proc] /\ OtherCpus(c)
  <2>1. /\ sidx \in [Cpu -> Proc] /\ spc \in [Cpu -> {"top", "scan", "look", "swtch"}]
    BY Zenon, CpuFields DEF SchedInv
  <2>2. sidx[c] # NPROC => sidx[c] + 1 \in Proc
    BY <1>1, SchedAssumption DEF Proc
  <2> QED
    BY Zenon, <1>2, <2>1, <2>2 DEF nextProc, OtherCpus
<1>5. TypeOK'
  BY Zenon, <1>3, <1>4 DEF SchedInv, TypeOK, SpinType, procVars, clientVars
<1>6. CpuLocks(c)' = {}
  BY Zenon, <1>1, <1>2, <1>4 DEF CpuLocks
<1>7. LockInv' /\ RunInv'
  BY Zenon, <1>1, <1>2, <1>3, <1>4, <1>5, <1>6, FreeCpuStep
<1>8. SleepInv'
  BY Zenon, <1>2, <1>5, IdleStep
<1> QED
  BY <1>5, <1>7, <1>8 DEF SchedInv

\* The scheduler passes over a process, or starts it with p->lock held.
LEMMA SchedulerLookInv ==
  ASSUME SchedInv, NEW c \in Cpu, scheduler_look(c)
  PROVE  SchedInv'
<1>1. Runs(c, None) /\ spc[c] = "look" /\ sidx[c] \in Proc
  BY Zenon, AtScheduler DEF scheduler_look
<1>2. PICK p \in Proc : p = sidx[c]
  BY Zenon, <1>1
<1>3. CASE state[p] # "RUNNABLE"
  <2>1. nextProc(c) /\ UNCHANGED <<procVars, proc, hpc, hidx, clientVars>>
    BY Zenon, <1>2, <1>3 DEF scheduler_look, procVars
  <2> QED
    BY Zenon, <1>1, <2>1, NextProcInv
<1>4. CASE state[p] = "RUNNABLE"
  <2>1. /\ proc[c] = None /\ hpc[c] = "none" /\ panic = "none" /\ CpuOk(c)
        /\ CpuLocks(c) = {p} /\ noff[c] = 1 /\ ~intr[c]
    BY <1>1, <1>2, AtScheduler DEF CpuOk
  <2>2. /\ state' = [state EXCEPT ![p] = "RUNNING"] /\ proc' = [proc EXCEPT ![c] = p]
        /\ spc' = [spc EXCEPT ![c] = "swtch"]
        /\ intena' = IF pc[p] = "forkret" THEN intena ELSE [intena EXCEPT ![c] = saved[p]]
        /\ UNCHANGED <<sidx, lock, noff, intr, panic, pc, ret, slk, widx, chan, hpc, hidx, clientVars>>
        /\ UNCHANGED <<killed, saved>>
    BY Zenon, <1>2, <1>4 DEF scheduler_look
  <2>3. intena' \in [Cpu -> BOOLEAN]
    <3>1. intena \in [Cpu -> BOOLEAN] /\ saved[p] \in BOOLEAN
      BY Zenon DEF SchedInv, TypeOK
    <3> QED
      BY Zenon, <2>2, <3>1
  <2>4. TypeOK'
    BY Zenon, <2>2, <2>3 DEF SchedInv, TypeOK, clientVars
  <2>5. /\ proc'[c] = p /\ spc'[c] = "swtch" /\ state'[p] = "RUNNING" /\ sidx[c] = p
        /\ \A q \in Proc : q # p => state'[q] = state[q]
        /\ \A d \in Cpu : d # c => proc'[d] = proc[d] /\ spc'[d] = spc[d]
    BY <1>2, <2>2, CpuFields, Fields DEF SchedInv
  <2>6. pc[p] \in {"forkret", "trapret", "sleep_tidy"}
    BY Zenon, <1>4 DEF SchedInv, RunInv, StatePlace
  <2>7. Local(c)
    <3>1. \A d \in Cpu : d # c => intena'[d] = intena[d]
      BY ZenonT(30), <2>2 DEF SchedInv, TypeOK
    <3> QED
      BY Zenon, <2>2, <2>5, <3>1 DEF Local, clientVars
  <2>8. CpuOk(c)'
    <3>1. CpuLocks(c)' = {p}
      BY <2>1, <2>2, <2>5, <2>6, Ids DEF CpuLocks, ThreadLocks
    <3>2. hpc'[c] = "none" /\ noff'[c] = 1 /\ ~intr'[c] /\ pc'[proc'[c]] # "sleep_release"
      BY Zenon, <2>1, <2>2, <2>5, <2>6
    <3>3. \A l \in Lock : lock'[l] = c <=> l \in {p}
      BY Zenon, <2>1, <2>2 DEF CpuOk
    <3> QED
      BY Zenon, <3>1, <3>2, <3>3 DEF CpuOk
  <2>9. LockInv'
    BY <2>1, <2>2, <2>4, <2>7, <2>8, LockStep
  <2>10. \A d \in Cpu : proc[d] # p
    BY <1>4, Ids DEF SchedInv, RunInv, OnCpu
  <2>11. RunInv'
    <3>1. \A d, e \in Cpu : d # e /\ proc'[d] # None => proc'[d] # proc'[e]
      BY <2>5, <2>10, Ids DEF SchedInv, RunInv, OneCpu
    <3>2. \A d \in Cpu : proc'[d] # None =>
            state'[proc'[d]] = "RUNNING" /\ spc'[d] = "swtch" /\ sidx'[d] = proc'[d]
      <4>1. \A d \in Cpu : proc[d] # None => proc[d] \in Proc
        BY ProcType DEF SchedInv
      <4> QED
        BY <2>2, <2>5, <2>10, <4>1 DEF SchedInv, RunInv, OnCpu
    <3>3. \A q \in Proc : state'[q] = "RUNNING" => \E d \in Cpu : proc'[d] = q
      <4>1. ASSUME NEW q \in Proc, q # p, state'[q] = "RUNNING" PROVE \E d \in Cpu : proc'[d] = q
        <5>1. PICK d \in Cpu : proc[d] = q
          BY Zenon, <2>5, <4>1 DEF SchedInv, RunInv, HasCpu
        <5>2. d # c
          BY Zenon, <2>1, <5>1, Ids
        <5> QED
          BY Zenon, <2>5, <5>1, <5>2
      <4> QED
        BY Zenon, <2>5, <4>1
    <3>4. \A q \in Proc : /\ state'[q] = "RUNNABLE" => pc'[q] \in {"forkret", "trapret", "sleep_tidy"}
                          /\ state'[q] = "SLEEPING" => pc'[q] = "sleep_tidy"
                          /\ state'[q] = "ZOMBIE" <=> pc'[q] = "zombie"
      BY <2>2, <2>5, <2>6 DEF SchedInv, RunInv, StatePlace
    <3>5. \A q \in Proc : \/ pc'[q] \in {"sleep_release", "sleep_sched", "sleep_tidy", "sleep_reacquire"}
                          \/ pc'[q] \in {"yield", "trapret"} /\ ret'[q] = "sleep_reacquire"
                          => slk'[q] # None
      BY Zenon, <2>2 DEF SchedInv, RunInv, SleepsOn
    <3> QED
      BY Zenon, <3>1, <3>2, <3>3, <3>4, <3>5 DEF RunInv, OneCpu, OnCpu, HasCpu, StatePlace, SleepsOn
  <2>12. SleepInv'
    <3>1. ASSUME NEW q \in Proc
          PROVE  /\ Waits(q, lk)' => Waits(q, lk)
                 /\ Waits(q, tickslock)' => Waits(q, tickslock)
                 /\ InCrit(q)' => InCrit(q)
      <4>1. state'[q] = "SLEEPING" => state[q] = "SLEEPING"
        BY Zenon, <2>5
      <4> QED
        BY Zenon, <2>2, <4>1 DEF Waits, InCrit
    <3> QED
      BY Zenon, <2>2, <2>4, <3>1, SleepStep
  <2> QED
    BY <2>4, <2>9, <2>11, <2>12 DEF SchedInv
<1> QED
  BY <1>3, <1>4

\* The scheduler is back on its own stack, with the lock of the process that
\* switched.
LEMMA SchedulerBackInv ==
  ASSUME SchedInv, NEW c \in Cpu, scheduler_back(c)
  PROVE  SchedInv'
BY Zenon, NextProcInv DEF scheduler_back

\* The three ways in which p calls sched(): what it becomes, and where it goes on.
Stops(p, s, then) ==
    \/ s = "RUNNABLE" /\ then = "trapret" /\ (ret[p] = "sleep_reacquire" => slk[p] # None)
    \/ s = "ZOMBIE" /\ then = "zombie"
    \/ s = "SLEEPING" /\ then = "sleep_tidy" /\ slk[p] # None

\* sched(): the lock of p passes to the scheduler thread of c.
LEMMA StopStep ==
  ASSUME SchedInv, TypeOK', NEW c \in Cpu, NEW p \in Proc, Runs(c, p), NEW s, NEW then,
         pc[p] \in {"yield", "exit", "sleep_sched"}, sched(c, p, s, then),
         Stops(p, s, then),
         UNCHANGED <<slk, ret, widx, spc, sidx, hpc, hidx, clientVars>>,
         \A q \in Proc : q # p => chan'[q] = chan[q]
  PROVE  /\ LockInv' /\ RunInv'
         /\ state'[p] = s /\ pc'[p] = then
         /\ \A q \in Proc : q # p => pc'[q] = pc[q] /\ state'[q] = state[q]
<1>1. /\ proc[c] = p /\ hpc[c] = "none" /\ spc[c] = "swtch" /\ sidx[c] = p /\ CpuOk(c)
      /\ CpuLocks(c) = {p} /\ noff[c] = 1 /\ ~intr[c] /\ \A d \in Cpu : d # c => proc[d] # p
  BY Here, Ids DEF ThreadLocks, CpuOk
<1>2. panic' = "none"
  BY SchedOk DEF Stops
<1>3. /\ state'[p] = s /\ pc'[p] = then
      /\ \A q \in Proc : q # p => pc'[q] = pc[q] /\ state'[q] = state[q]
  BY Zenon, Fields DEF SchedInv, sched
<1>4. proc'[c] = None /\ \A d \in Cpu : d # c => proc'[d] = proc[d]
  BY Zenon, CpuFields DEF SchedInv, sched
<1>5. UNCHANGED <<lock, noff, intr, intena, ticks0>>
  BY Zenon DEF sched, clientVars
<1>6. Local(c)
  BY Zenon, <1>1, <1>3, <1>4, <1>5 DEF Local
<1>7. CpuOk(c)'
  <2>1. CpuLocks(c)' = {p}
    BY Zenon, <1>1, <1>4 DEF CpuLocks
  <2>2. \A l \in Lock : lock'[l] = c <=> l \in {p}
    BY Zenon, <1>1, <1>5 DEF CpuOk
  <2> QED
    BY Zenon, <1>1, <1>4, <1>5, <2>1, <2>2 DEF CpuOk
<1>8. LockInv'
  BY Zenon, <1>2, <1>6, <1>7, LockStep
<1>9. RunInv'
  <2>1. \A d, e \in Cpu : d # e /\ proc'[d] # None => proc'[d] # proc'[e]
    BY ZenonT(30), <1>4 DEF SchedInv, RunInv, OneCpu
  <2>2. \A d \in Cpu : proc'[d] # None =>
          state'[proc'[d]] = "RUNNING" /\ spc'[d] = "swtch" /\ sidx'[d] = proc'[d]
    <3>1. \A d \in Cpu : proc[d] # None => proc[d] \in Proc
      BY Zenon, ProcType DEF SchedInv
    <3>2. ASSUME NEW d \in Cpu, proc'[d] # None
          PROVE  state'[proc'[d]] = "RUNNING" /\ spc'[d] = "swtch" /\ sidx'[d] = proc'[d]
      <4>1. d # c /\ proc'[d] = proc[d] /\ proc[d] # None
        BY Zenon, <1>4, <3>2
      <4>2. proc[d] \in Proc /\ proc[d] # p
        BY Zenon, <1>1, <3>1, <4>1
      <4>3. state[proc[d]] = "RUNNING" /\ spc[d] = "swtch" /\ sidx[d] = proc[d]
        BY Zenon, <4>1 DEF SchedInv, RunInv, OnCpu
      <4>4. spc' = spc /\ sidx' = sidx
        OBVIOUS
      <4> QED
        BY Zenon, <1>3, <4>1, <4>2, <4>3, <4>4
    <3> QED
      BY Zenon, <3>2
  <2>3. \A q \in Proc : state'[q] = "RUNNING" => \E d \in Cpu : proc'[d] = q
    <3>1. ASSUME NEW q \in Proc, state'[q] = "RUNNING" PROVE \E d \in Cpu : proc'[d] = q
      <4>1. q # p /\ state[q] = "RUNNING"
        BY Zenon, <1>3, <3>1 DEF Stops
      <4>2. PICK d \in Cpu : proc[d] = q
        BY Zenon, <4>1 DEF SchedInv, RunInv, HasCpu
      <4> QED
        BY Zenon, <1>1, <1>4, <4>1, <4>2
    <3> QED
      BY Zenon, <3>1
  <2>4. \A q \in Proc : /\ state'[q] = "RUNNABLE" => pc'[q] \in {"forkret", "trapret", "sleep_tidy"}
                        /\ state'[q] = "SLEEPING" => pc'[q] = "sleep_tidy"
                        /\ state'[q] = "ZOMBIE" <=> pc'[q] = "zombie"
    BY ZenonT(30), <1>3 DEF SchedInv, RunInv, StatePlace, Stops
  <2>5. \A q \in Proc : \/ pc'[q] \in {"sleep_release", "sleep_sched", "sleep_tidy", "sleep_reacquire"}
                        \/ pc'[q] \in {"yield", "trapret"} /\ ret'[q] = "sleep_reacquire"
                        => slk'[q] # None
    BY Zenon, <1>3 DEF SchedInv, RunInv, SleepsOn, Stops
  <2> QED
    BY Zenon, <2>1, <2>2, <2>3, <2>4, <2>5 DEF RunInv, OneCpu, OnCpu, HasCpu, StatePlace, SleepsOn
<1> QED
  BY Zenon, <1>3, <1>8, <1>9

\* yield(): p goes back to RUNNABLE.
LEMMA YieldInv ==
  ASSUME SchedInv, NEW c \in Cpu, NEW p \in Proc, yield(c, p)
  PROVE  SchedInv'
<1>1. Runs(c, p) /\ pc[p] = "yield" /\ sched(c, p, "RUNNABLE", "trapret") /\ state[p] = "RUNNING"
  BY Zenon, Here DEF yield
<1>2. UNCHANGED <<slk, ret, widx, spc, sidx, hpc, hidx, clientVars>> /\ chan' = chan
  BY Zenon DEF yield
<1>3. ret[p] = "sleep_reacquire" => slk[p] # None
  BY Zenon, <1>1 DEF SchedInv, RunInv, SleepsOn
<1>4. panic' = "none"
  BY <1>1, SchedOk
<1>5. TypeOK'
  BY Zenon, <1>4 DEF SchedInv, TypeOK, yield, sched, clientVars
<1>6. /\ LockInv' /\ RunInv'
      /\ state'[p] = "RUNNABLE" /\ pc'[p] = "trapret"
      /\ \A q \in Proc : q # p => pc'[q] = pc[q] /\ state'[q] = state[q]
  <2>1. Stops(p, "RUNNABLE", "trapret")
    BY Zenon, <1>3 DEF Stops
  <2> QED
    BY <1>1, <1>2, <1>5, <2>1, StopStep
<1>7. ASSUME NEW q \in Proc
      PROVE  /\ Waits(q, lk)' => Waits(q, lk)
             /\ Waits(q, tickslock)' => Waits(q, tickslock)
             /\ InCrit(q)' => InCrit(q)
             /\ pc'[q] = "sys_sleep_sleep" => pc[q] = "sys_sleep_sleep"
             /\ pc[q] = "releasesleep" => pc'[q] = "releasesleep" /\ widx'[q] = widx[q]
  <2>1. CASE q = p
    BY Zenon, <1>1, <1>2, <1>6, <2>1 DEF Waits, InCrit
  <2>2. CASE q # p
    BY Zenon, <1>2, <1>6, <2>2 DEF Waits, InCrit
  <2> QED
    BY Zenon, <2>1, <2>2
<1>8. SleepInv'
  BY Zenon, <1>2, <1>5, <1>7, SleepStep
<1> QED
  BY Zenon, <1>5, <1>6, <1>8 DEF SchedInv

\* exit(): p becomes a ZOMBIE.
LEMMA ExitInv ==
  ASSUME SchedInv, NEW c \in Cpu, NEW p \in Proc, exit(c, p)
  PROVE  SchedInv'
<1>1. Runs(c, p) /\ pc[p] = "exit" /\ sched(c, p, "ZOMBIE", "zombie") /\ state[p] = "RUNNING"
  BY Zenon, Here DEF exit
<1>2. UNCHANGED <<slk, ret, widx, spc, sidx, hpc, hidx, clientVars>> /\ chan' = chan
  BY Zenon DEF exit
<1>3. panic' = "none"
  BY <1>1, SchedOk
<1>4. TypeOK'
  BY Zenon, <1>3 DEF SchedInv, TypeOK, exit, sched, clientVars
<1>5. /\ LockInv' /\ RunInv'
      /\ state'[p] = "ZOMBIE" /\ pc'[p] = "zombie"
      /\ \A q \in Proc : q # p => pc'[q] = pc[q] /\ state'[q] = state[q]
  <2>1. Stops(p, "ZOMBIE", "zombie")
    BY Zenon DEF Stops
  <2> QED
    BY <1>1, <1>2, <1>4, <2>1, StopStep
<1>6. ASSUME NEW q \in Proc
      PROVE  /\ Waits(q, lk)' => Waits(q, lk)
             /\ Waits(q, tickslock)' => Waits(q, tickslock)
             /\ InCrit(q)' => InCrit(q)
             /\ pc'[q] = "sys_sleep_sleep" => pc[q] = "sys_sleep_sleep"
             /\ pc[q] = "releasesleep" => pc'[q] = "releasesleep" /\ widx'[q] = widx[q]
  <2>1. CASE q = p
    BY Zenon, <1>1, <1>2, <1>5, <2>1 DEF Waits, InCrit
  <2>2. CASE q # p
    BY Zenon, <1>2, <1>5, <2>2 DEF Waits, InCrit
  <2> QED
    BY Zenon, <2>1, <2>2
<1>7. SleepInv'
  BY <1>2, <1>4, <1>6, SleepStep
<1> QED
  BY Zenon, <1>4, <1>5, <1>7 DEF SchedInv

\* sleep(): p becomes SLEEPING on the channel of the lock it let go of.
LEMMA SleepSchedInv ==
  ASSUME SchedInv, NEW c \in Cpu, NEW p \in Proc, sleep_sched(c, p)
  PROVE  SchedInv'
<1>1. Runs(c, p) /\ pc[p] = "sleep_sched" /\ sched(c, p, "SLEEPING", "sleep_tidy") /\ state[p] = "RUNNING"
  BY Zenon, Here DEF sleep_sched
<1>2. /\ UNCHANGED <<slk, ret, widx, spc, sidx, hpc, hidx, clientVars>>
      /\ chan'[p] = slk[p] /\ \A q \in Proc : q # p => chan'[q] = chan[q]
  BY Zenon, Fields DEF SchedInv, sleep_sched
<1>3. slk[p] # None /\ slk[p] \in {None, tickslock, lk}
  BY Zenon, <1>1, Fields DEF SchedInv, RunInv, SleepsOn
<1>4. panic' = "none"
  BY <1>1, SchedOk
<1>5. TypeOK'
  BY Zenon, <1>3, <1>4 DEF SchedInv, TypeOK, sleep_sched, sched, clientVars
<1>6. /\ LockInv' /\ RunInv'
      /\ state'[p] = "SLEEPING" /\ pc'[p] = "sleep_tidy"
      /\ \A q \in Proc : q # p => pc'[q] = pc[q] /\ state'[q] = state[q]
  <2>1. Stops(p, "SLEEPING", "sleep_tidy")
    BY Zenon, <1>3 DEF Stops
  <2> QED
    BY <1>1, <1>2, <1>5, <2>1, StopStep
<1>7. ASSUME NEW q \in Proc
      PROVE  /\ Waits(q, lk)' => Waits(q, lk)
             /\ Waits(q, tickslock)' => Waits(q, tickslock)
             /\ InCrit(q)' => InCrit(q)
             /\ pc'[q] = "sys_sleep_sleep" => pc[q] = "sys_sleep_sleep"
             /\ pc[q] = "releasesleep" => pc'[q] = "releasesleep" /\ widx'[q] = widx[q]
  <2>1. CASE q = p
    BY Zenon, <1>1, <1>2, <1>6, <2>1 DEF Waits, InCrit
  <2>2. CASE q # p
    BY Zenon, <1>2, <1>6, <2>2 DEF Waits, InCrit
  <2> QED
    BY Zenon, <2>1, <2>2
<1>8. SleepInv'
  BY Zenon, <1>2, <1>5, <1>7, SleepStep
<1> QED
  BY Zenon, <1>5, <1>6, <1>8 DEF SchedInv

\* An interrupt finds c without spin locks.
LEMMA InterruptInv ==
  ASSUME SchedInv, NEW c \in Cpu, interrupt(c)
  PROVE  SchedInv'
<1>1. hpc[c] = "none" /\ panic = "none" /\ intr[c] /\ CpuOk(c)
  BY Zenon, LockInvCpu DEF SchedInv, interrupt
<1>2. CpuLocks(c) = {} /\ noff[c] = 0
  <2>1. noff[c] \in 0 .. 2
    BY Zenon DEF SchedInv, TypeOK
  <2> QED
    BY <1>1, <2>1 DEF CpuOk
<1>3. /\ UNCHANGED <<state, proc, pc, ret, slk, widx, chan, lock, noff, panic, spc, sidx, hidx, clientVars>>
      /\ ticks0' = ticks0
  BY Zenon DEF interrupt, procVars, clientVars
<1>4. TypeOK'
  BY Zenon DEF SchedInv, TypeOK, interrupt, procVars, clientVars
<1>5. /\ hpc'[c] \in {"clockintr", "yield"} /\ ~intr'[c] /\ OtherCpus(c)
      /\ \A d \in Cpu : d # c => intr'[d] = intr[d] /\ intena'[d] = intena[d]
  BY Zenon, CpuFields DEF SchedInv, interrupt, OtherCpus
<1>6. CpuLocks(c)' = {} /\ NoLocks(c)
  <2>1. CpuLocks(c)' = {}
    BY Zenon, <1>5 DEF CpuLocks
  <2> QED
    BY Zenon, <1>1, <1>2, <1>3, <1>5, <2>1, CpuFields DEF SchedInv, NoLocks, CpuOk
<1>7. /\ proc[c] = None => spc[c] \in {"top", "scan"}
      /\ proc[c] # None => pc[proc[c]] \in {"user", "crit", "sleep_reacquire"}
  <2>1. proc[c] = None => spc[c] \in {"top", "scan"}
    <3>1. spc[c] \in {"top", "scan", "look", "swtch"}
      BY Zenon, CpuFields DEF SchedInv
    <3> QED
      BY <1>1, <1>2, <3>1 DEF CpuLocks
  <2>2. ASSUME proc[c] # None PROVE pc[proc[c]] \in {"user", "crit", "sleep_reacquire"}
    <3>1. proc[c] \in Proc /\ Runs(c, proc[c])
      BY Zenon, <1>1, <2>2, ProcType DEF SchedInv, Runs
    <3>2. PICK p \in Proc : p = proc[c]
      BY Zenon, <3>1
    <3>3. pc[p] # "zombie" /\ ThreadLocks(p) = {}
      BY <1>2, <3>1, <3>2, Here
    <3>4. pc[p] \in {"forkret", "user", "yield", "trapret", "exit", "zombie",
                        "sleep_release", "sleep_sched", "sleep_tidy", "sleep_reacquire",
                        "acquiresleep", "crit", "releasesleep",
                        "sys_sleep", "sys_sleep_sleep", "sys_sleep_fail"}
      BY Zenon, CpuFields DEF SchedInv
    <3> QED
      BY <3>2, <3>3, <3>4 DEF ThreadLocks
  <2> QED
    BY Zenon, <2>1, <2>2
<1>8. LockInv' /\ RunInv'
  <2>1. /\ noff'[c] = 0 /\ panic' = "none" /\ spc'[c] = spc[c] /\ sidx'[c] = sidx[c]
        /\ ~intr'[c] /\ hpc'[c] # "wakeup"
    BY Zenon, <1>1, <1>2, <1>3, <1>5
  <2>2. /\ UNCHANGED <<proc, pc, ret, slk, widx, chan, ticks0>>
        /\ OtherCpus(c) /\ CpuLocks(c)' = {} /\ NoLocks(c)
        /\ proc[c] = None => spc'[c] \in {"top", "scan"}
        /\ \A q \in Proc : state'[q] = state[q]
    BY Zenon, <1>3, <1>5, <1>6, <1>7, <2>1
  <2>3. proc[c] = None /\ hpc'[c] # "none" => spc'[c] \in {"top", "scan"}
    BY Zenon, <2>2
  <2>4. proc[c] # None => /\ pc[proc[c]] \in {"user", "crit", "sleep_reacquire"}
                          /\ spc'[c] = spc[c] /\ sidx'[c] = sidx[c]
    BY Zenon, <1>7, <2>1
  <2>5. hpc'[c] # "none" => ~intr'[c] /\ hpc'[c] # "wakeup"
    BY Zenon, <2>1
  <2>6. \A q \in Proc : state'[q] = state[q] \/ (state[q] = "SLEEPING" /\ state'[q] = "RUNNABLE")
    BY Zenon, <2>2
  <2>7. /\ UNCHANGED <<proc, pc, ret, slk, widx, chan, ticks0>>
        /\ OtherCpus(c) /\ CpuLocks(c)' = {} /\ NoLocks(c)
        /\ noff'[c] = 0 /\ panic' = "none"
    BY Zenon, <2>1, <2>2
  <2> QED
    BY Zenon, <1>4, <2>3, <2>4, <2>5, <2>6, <2>7, FreeCpuStep
<1>9. SleepInv'
  <2>1. \A d \in Cpu : hpc[d] = "wakeup" => hpc'[d] = "wakeup" /\ hidx'[d] = hidx[d]
    BY Zenon, <1>1, <1>3, <1>5 DEF OtherCpus
  <2> QED
    BY Zenon, <1>3, <1>4, <2>1, IdleStep
<1> QED
  BY <1>4, <1>8, <1>9 DEF SchedInv

\* What holds where c runs an interrupt handler.
LEMMA InHandler ==
  ASSUME SchedInv, NEW c \in Cpu, hpc[c] # "none"
  PROVE  /\ CpuOk(c) /\ ~intr[c] /\ (hpc[c] = "wakeup" => ~intena[c]) /\ panic = "none"
         /\ proc[c] = None => spc[c] \in {"top", "scan"}
         /\ proc[c] # None => proc[c] \in Proc /\ pc[proc[c]] \in {"user", "crit", "sleep_reacquire"}
         /\ CpuLocks(c) = IF hpc[c] = "wakeup" THEN {tickslock} ELSE {}
         /\ noff[c] = IF hpc[c] = "wakeup" THEN 1 ELSE 0
<1>1. CpuOk(c) /\ panic = "none"
  BY Zenon, LockInvCpu DEF SchedInv
<1>2. CpuLocks(c) = IF hpc[c] = "wakeup" THEN {tickslock} ELSE {}
  BY Zenon DEF CpuLocks
<1>3. proc[c] # None => proc[c] \in Proc
  BY Zenon, ProcType DEF SchedInv
<1> QED
  BY Zenon, <1>1, <1>2, <1>3 DEF CpuOk

\* Nobody is about to sleep in sys_sleep() while tickslock is free.
LEMMA FreeTicks ==
  ASSUME SchedInv, NEW q \in Proc, lock[tickslock] = None
  PROVE  pc[q] # "sys_sleep_sleep"
<1> SUFFICES ASSUME pc[q] = "sys_sleep_sleep" PROVE FALSE
  OBVIOUS
<1>1. state[q] \in {"RUNNABLE", "RUNNING", "SLEEPING", "ZOMBIE"}
  BY Zenon, Fields DEF SchedInv
<1>2. state[q] = "RUNNING"
  BY Zenon, <1>1 DEF SchedInv, RunInv, StatePlace
<1>3. PICK d \in Cpu : proc[d] = q
  BY Zenon, <1>2 DEF SchedInv, RunInv, HasCpu
<1>4. hpc[d] = "none"
  BY Zenon, <1>3, Ids DEF SchedInv, LockInv
<1>5. tickslock \in CpuLocks(d)
  BY Zenon, <1>3, <1>4, Ids DEF CpuLocks, ThreadLocks
<1>6. lock[tickslock] = d
  BY <1>5, Ids DEF SchedInv, LockInv
<1> QED
  BY Zenon, <1>6, Ids

\* clockintr() advances the clock, and its wakeup() is yet to reach every sleeper.
LEMMA ClockintrInv ==
  ASSUME SchedInv, NEW c \in Cpu, clockintr(c)
  PROVE  SchedInv'
<1>1. hpc[c] = "clockintr" /\ acquire(c, tickslock) /\ tickslock \in Lock
  BY Zenon, Ids DEF clockintr
<1>2. /\ CpuLocks(c) = {} /\ noff[c] = 0 /\ ~intr[c]
      /\ proc[c] = None => spc[c] \in {"top", "scan"}
      /\ proc[c] # None => pc[proc[c]] \in {"user", "crit", "sleep_reacquire"}
  BY Zenon, <1>1, InHandler
<1>3. UNCHANGED <<state, proc, pc, ret, slk, widx, chan, spc, sidx, locked, ticks0>>
  BY Zenon DEF clockintr, procVars
<1>4. /\ SpinType' /\ panic' = "none" /\ LockMoves(c, {tickslock}) /\ noff'[c] = 1 /\ ~intr'[c]
      /\ lock[tickslock] = None /\ ~intena'[c]
  BY Zenon, <1>1, <1>2, FirstAcquire
<1>5. hidx' \in [Cpu -> 1 .. (NPROC + 1)] /\ ticks' \in 0 .. MaxTicks
  <2>1. hidx \in [Cpu -> 1 .. (NPROC + 1)] /\ 1 \in 1 .. (NPROC + 1)
    BY CpuFields, SchedAssumption DEF SchedInv
  <2>2. ticks \in 0 .. MaxTicks /\ MaxTicks \in Nat
    BY Zenon, SchedAssumption DEF SchedInv, TypeOK
  <2> QED
    BY <2>1, <2>2 DEF clockintr
<1>6. TypeOK'
  BY Zenon, <1>4, <1>5 DEF SchedInv, TypeOK, SpinType, clockintr, procVars
<1>7. OtherCpus(c) /\ hpc'[c] = "wakeup" /\ hidx'[c] = 1
  BY Zenon, CpuFields DEF SchedInv, clockintr, OtherCpus
<1>8. CpuLocks(c)' = {tickslock}
  BY Zenon, <1>7 DEF CpuLocks
<1>9. LockInv' /\ RunInv'
  <2>1. LockMoves(c, CpuLocks(c)') /\ noff'[c] = (IF CpuLocks(c)' = {} THEN 0 ELSE 1)
    BY Zenon, <1>4, <1>8
  <2> QED
    BY Zenon, <1>2, <1>3, <1>4, <1>6, <1>7, <2>1, CpuStep
<1>10. \A q \in Proc : (InCrit(q)' <=> InCrit(q)) /\ (Waits(q, lk)' <=> Waits(q, lk))
  BY Zenon, <1>3 DEF InCrit, Waits
<1>11. \A q \in Proc : pc'[q] # "sys_sleep_sleep" /\ hidx'[c] <= q
  BY <1>3, <1>4, <1>7, FreeTicks, SchedAssumption DEF Proc
<1>12. SleepInv'
  BY Zenon, <1>3, <1>7, <1>10, <1>11 DEF SchedInv, SleepInv
<1> QED
  BY <1>6, <1>9, <1>12 DEF SchedInv

\* The wakeup() of clockintr() passes a process only when it does not wait.
LEMMA ClockintrWakeupInv ==
  ASSUME SchedInv, NEW c \in Cpu, clockintr_wakeup(c)
  PROVE  SchedInv'
<1>1. hpc[c] = "wakeup" /\ tickslock \in Lock /\ tickslock \notin Proc
  BY Zenon, Ids DEF clockintr_wakeup
<1>2. /\ CpuLocks(c) = {tickslock} /\ noff[c] = 1 /\ ~intr[c] /\ ~intena[c]
      /\ proc[c] = None => spc[c] \in {"top", "scan"}
      /\ proc[c] # None => proc[c] \in Proc /\ pc[proc[c]] \in {"user", "crit", "sleep_reacquire"}
  BY Zenon, <1>1, InHandler
<1>3. /\ UNCHANGED <<proc, pc, ret, slk, widx, chan, spc, sidx, locked, ticks, ticks0>>
      /\ UNCHANGED clientVars
  BY Zenon DEF clockintr_wakeup, clientVars
<1>4. /\ hidx \in [Cpu -> 1 .. (NPROC + 1)] /\ hpc \in [Cpu -> {"none", "clockintr", "wakeup", "yield"}]
      /\ NPROC \in Nat
  BY Zenon, CpuFields, SchedAssumption DEF SchedInv
<1>5. CASE hidx[c] \in Proc
  <2>1. PICK w \in Proc : w = hidx[c]
    BY <1>5
  <2>2. wakeup(c, w, tickslock) /\ hpc' = hpc /\ hidx' = [hidx EXCEPT ![c] = @ + 1]
    BY Zenon, <1>5, <2>1 DEF clockintr_wakeup
  <2>3. hidx' \in [Cpu -> 1 .. (NPROC + 1)] /\ hidx'[c] = hidx[c] + 1 /\ OtherCpus(c)
    <3>1. hidx[c] + 1 \in 1 .. (NPROC + 1)
      BY <1>4, <1>5 DEF Proc
    <3> QED
      BY Zenon, <1>3, <1>4, <2>2, <3>1 DEF OtherCpus
  <2>4. /\ SpinType' /\ panic' = "none" /\ LockMoves(c, {tickslock}) /\ noff'[c] = 1 /\ ~intr'[c]
        /\ ~intena'[c] /\ state' \in [Proc -> {"RUNNABLE", "RUNNING", "SLEEPING", "ZOMBIE"}]
        /\ \A r \in Proc : state'[r] = state[r] \/ (state[r] = "SLEEPING" /\ state'[r] = "RUNNABLE")
        /\ ~Waits(w, tickslock)'
    BY ZenonT(30), <1>1, <1>2, <1>3, <2>2, Ids, WakeupOk
  <2>5. TypeOK'
    BY ZenonT(30), <2>2, <2>3, <2>4 DEF SchedInv, TypeOK, SpinType, clockintr_wakeup, clientVars
  <2>6. CpuLocks(c)' = {tickslock}
    BY Zenon, <1>1, <2>2 DEF CpuLocks
  <2>7. LockInv' /\ RunInv'
    <3>1. LockMoves(c, CpuLocks(c)') /\ noff'[c] = (IF CpuLocks(c)' = {} THEN 0 ELSE 1)
      BY Zenon, <2>4, <2>6
    <3> QED
      BY Zenon, <1>2, <1>3, <2>3, <2>4, <2>5, <3>1, CpuStep
  <2>8. \A q \in Proc : /\ InCrit(q)' <=> InCrit(q)
                        /\ Waits(q, lk)' => Waits(q, lk)
                        /\ Waits(q, tickslock)' => Waits(q, tickslock)
                        /\ Elapsed(q)' <=> Elapsed(q)
    <3>1. \A q \in Proc : state'[q] = "SLEEPING" => state[q] = "SLEEPING"
      BY Zenon, <2>4
    <3> QED
      BY Zenon, <1>3, <3>1 DEF InCrit, Waits, Elapsed
  <2>9. ASSUME NEW r \in Proc, Waits(r, tickslock)', Elapsed(r)'
        PROVE  \E d \in Cpu : hpc'[d] = "wakeup" /\ hidx'[d] <= r
    <3>1. PICK d \in Cpu : hpc[d] = "wakeup" /\ hidx[d] <= r
      BY Zenon, <2>8, <2>9 DEF SchedInv, SleepInv
    <3>2. r # w
      BY Zenon, <2>4, <2>9
    <3>3. CASE d = c
      <4>1. hidx'[c] <= r
        BY <1>4, <2>1, <2>3, <3>1, <3>2, <3>3, SchedAssumption DEF Proc
      <4> QED
        BY Zenon, <1>1, <2>2, <4>1
    <3>4. CASE d # c
      BY Zenon, <2>3, <3>1, <3>4 DEF OtherCpus
    <3> QED
      BY Zenon, <3>3, <3>4
  <2>10. SleepInv'
    BY ZenonT(30), <1>3, <2>8, <2>9 DEF SchedInv, SleepInv
  <2> QED
    BY Zenon, <2>5, <2>7, <2>10 DEF SchedInv
<1>6. CASE hidx[c] \notin Proc
  <2>1. release(c, tickslock) /\ state' = state /\ hidx' = hidx /\ hpc' = [hpc EXCEPT ![c] = "yield"]
    BY Zenon, <1>6 DEF clockintr_wakeup
  <2>2. SpinType' /\ panic' = "none" /\ NoLocks(c) /\ noff'[c] = 0
    BY Zenon, <1>1, <1>2, <2>1, LastRelease
  <2>3. TypeOK'
    BY Zenon, <2>1, <2>2 DEF SchedInv, TypeOK, SpinType, clockintr_wakeup, clientVars
  <2>4. hpc'[c] = "yield" /\ OtherCpus(c)
    BY Zenon, <1>3, <1>4, <2>1 DEF OtherCpus
  <2>5. CpuLocks(c)' = {}
    BY Zenon, <2>4 DEF CpuLocks
  <2>6. ~intr'[c]
    <3>1. intr' = [intr EXCEPT ![c] = FALSE \/ (noff[c] = 1 /\ intena[c])] /\ intr \in [Cpu -> BOOLEAN]
      BY Zenon, <2>1, CpuFields DEF SchedInv, release, releaseTo
    <3> QED
      BY Zenon, <1>2, <3>1
  <2>7. LockInv' /\ RunInv'
    BY ZenonT(30), <1>2, <1>3, <2>1, <2>2, <2>3, <2>4, <2>5, <2>6, FreeCpuStep
  <2>8. \A q \in Proc : /\ InCrit(q)' <=> InCrit(q)
                        /\ Waits(q, lk)' <=> Waits(q, lk)
                        /\ Waits(q, tickslock)' <=> Waits(q, tickslock)
                        /\ Elapsed(q)' <=> Elapsed(q)
    BY Zenon, <1>3, <2>1 DEF InCrit, Waits, Elapsed
  <2>9. \A r \in Proc : ~(hidx[c] <= r)
    BY <1>4, <1>6, SchedAssumption DEF Proc
  <2>10. \A d \in Cpu : d # c => hpc'[d] = hpc[d] /\ hidx'[d] = hidx[d]
    BY Zenon, <2>4 DEF OtherCpus
  <2>11. SleepInv'
    BY Zenon, <1>3, <2>8, <2>9, <2>10 DEF SchedInv, SleepInv
  <2> QED
    BY <2>3, <2>7, <2>11 DEF SchedInv
<1> QED
  BY Zenon, <1>5, <1>6

\* The timer interrupt of a process goes on to yield(), that of the scheduler
\* returns.
LEMMA InterruptEndInv ==
  ASSUME SchedInv, NEW c \in Cpu, interrupt_end(c)
  PROVE  SchedInv'
<1>1. hpc[c] = "yield"
  BY Zenon DEF interrupt_end
<1>2. /\ CpuLocks(c) = {} /\ noff[c] = 0 /\ panic = "none" /\ CpuOk(c)
      /\ proc[c] # None => proc[c] \in Proc /\ pc[proc[c]] \in {"user", "crit", "sleep_reacquire"}
  BY Zenon, <1>1, InHandler
<1>3. UNCHANGED <<state, slk, widx, chan, proc, spc, sidx, hidx, clientVars>> /\ UNCHANGED <<killed, saved>>
  BY Zenon DEF interrupt_end
<1>4. hpc' = [hpc EXCEPT ![c] = "none"] /\ hpc'[c] = "none" /\ OtherCpus(c)
  BY Zenon, <1>3, CpuFields DEF SchedInv, interrupt_end, OtherCpus
<1>5. \A d \in Cpu : hpc[d] = "wakeup" => hpc'[d] = "wakeup" /\ hidx'[d] = hidx[d]
  BY Zenon, <1>1, <1>3, <1>4 DEF OtherCpus
<1>6. CASE proc[c] # None
  <2>1. PICK p \in Proc : p = proc[c]
    BY Zenon, <1>2, <1>6
  <2>2. state[p] = "RUNNING" /\ pc[p] \in {"user", "crit", "sleep_reacquire"}
    BY Zenon, <1>2, <1>6, <2>1 DEF SchedInv, RunInv, OnCpu
  <2>3. acquire(c, p) /\ ret' = [ret EXCEPT ![p] = pc[p]] /\ Goto(p, "yield")
    BY Zenon, <1>6, <2>1, <2>2 DEF interrupt_end
  <2>4. SpinType' /\ panic' = "none" /\ LockMoves(c, {p}) /\ noff'[c] = 1 /\ ~intr'[c]
    BY Zenon, <1>2, <2>3, Ids, FirstAcquire
  <2>5. TypeOK'
    BY ZenonT(30), <1>3, <1>4, <2>2, <2>3, <2>4 DEF SchedInv, TypeOK, SpinType, Goto, clientVars
  <2>6. pc'[p] = "yield" /\ ret'[p] = pc[p] /\ Others(p)
    BY Zenon, <1>3, <2>3, Fields DEF SchedInv, Goto, Others, clientVars
  <2>7. Local(c)
    BY ZenonT(30), <1>4, <2>1, <2>4, <2>6 DEF Local, OtherCpus, Others, LockMoves
  <2>8. proc'[c] = p /\ ThreadLocks(p)' = {p}
    BY Zenon, <1>3, <2>1, <2>6 DEF ThreadLocks
  <2>9. CpuOk(c)'
    BY Zenon, <1>4, <2>4, <2>6, <2>8, Ids DEF CpuOk, CpuLocks, LockMoves
  <2>10. LockInv'
    BY Zenon, <2>4, <2>5, <2>7, <2>9, LockStep
  <2>11. RunInv'
    <3>1. pc[p] = "sleep_reacquire" => slk'[p] # None
      BY Zenon, <1>3 DEF SchedInv, RunInv, SleepsOn
    <3> QED
      BY Zenon, <1>3, <2>1, <2>5, <2>6, <2>7, <3>1, RunStep
  <2>12. ASSUME NEW q \in Proc
        PROVE  /\ Waits(q, lk)' => Waits(q, lk)
               /\ Waits(q, tickslock)' => Waits(q, tickslock)
               /\ InCrit(q)' => InCrit(q)
               /\ pc'[q] = "sys_sleep_sleep" => pc[q] = "sys_sleep_sleep"
               /\ pc[q] = "releasesleep" => pc'[q] = "releasesleep" /\ widx'[q] = widx[q]
    <3>1. CASE q = p
      BY Zenon, <1>3, <2>2, <2>6, <3>1 DEF Waits, InCrit
    <3>2. CASE q # p
      BY Zenon, <1>3, <2>6, <3>2 DEF Waits, InCrit, Others
    <3> QED
      BY Zenon, <3>1, <3>2
  <2>13. SleepInv'
    BY Zenon, <1>3, <1>5, <2>5, <2>12, SleepStep
  <2> QED
    BY <2>5, <2>10, <2>11, <2>13 DEF SchedInv
<1>7. CASE proc[c] = None
  <2>1. intr' = [intr EXCEPT ![c] = TRUE] /\ UNCHANGED <<pc, ret, lock, noff, intena, panic>>
    BY Zenon, <1>7 DEF interrupt_end
  <2>2. TypeOK'
    BY ZenonT(30), <1>3, <1>4, <2>1 DEF SchedInv, TypeOK, clientVars
  <2>3. CpuLocks(c)' = {}
    BY Zenon, <1>1, <1>3, <1>4, <1>7, InHandler DEF CpuLocks
  <2>4. NoLocks(c)
    BY Zenon, <1>2, <2>1, CpuFields DEF SchedInv, NoLocks, CpuOk
  <2>5. LockInv' /\ RunInv'
    <3>1. UNCHANGED <<proc, pc, ret, slk, widx, chan, ticks0>> /\ panic' = "none" /\ noff'[c] = 0
      BY Zenon, <1>2, <1>3, <2>1 DEF clientVars
    <3> QED
      BY Zenon, <1>3, <1>4, <1>7, <2>2, <2>3, <2>4, <3>1, FreeCpuStep
  <2>6. SleepInv'
    BY Zenon, <1>3, <1>5, <2>1, <2>2, IdleStep
  <2> QED
    BY <2>2, <2>5, <2>6 DEF SchedInv
<1> QED
  BY Zenon, <1>6, <1>7
------------------------------------------------------------------------
(* The theorems. *)

\* The state that main() leaves.
LEMMA InitInv == Init => SchedInv
<1> SUFFICES ASSUME Init PROVE SchedInv
  OBVIOUS
<1>1. /\ 1 \in Proc /\ 1 \in 1 .. (NPROC + 1) /\ 0 \in 0 .. MaxTicks /\ 0 \in 0 .. 2
  BY SchedAssumption DEF Proc
<1>2. TypeOK
  BY Zenon, <1>1 DEF Init, TypeOK
<1>3. RunInv
  BY Zenon DEF Init, RunInv, OneCpu, OnCpu, HasCpu, StatePlace, SleepsOn
<1>4. \A c \in Cpu : CpuLocks(c) = {}
  BY Zenon DEF Init, CpuLocks
<1>5. LockInv
  BY Zenon, <1>4, Ids DEF Init, LockInv
<1>6. SleepInv
  BY Zenon DEF Init, SleepInv, InCrit, Waits
<1> QED
  BY <1>2, <1>3, <1>5, <1>6 DEF SchedInv

\* Every step keeps the invariant.
LEMMA NextInv == SchedInv /\ [Next]_vars => SchedInv'
<1> SUFFICES ASSUME SchedInv, [Next]_vars PROVE SchedInv'
  OBVIOUS
<1>1. CASE UNCHANGED vars
  <2>1. UNCHANGED <<procVars, spinVars, cpuVars, clientVars>>
    BY Zenon, <1>1 DEF vars
  <2>2. TypeOK'
    BY Zenon, <2>1 DEF SchedInv, TypeOK, procVars, spinVars, cpuVars, clientVars
  <2>3. RunInv'
    <3>1. UNCHANGED <<state, pc, ret, slk, proc, spc, sidx>>
      BY Zenon, <2>1 DEF procVars, cpuVars
    <3>2. OneCpu' /\ OnCpu' /\ HasCpu'
      BY ZenonT(30), <3>1 DEF SchedInv, RunInv, OneCpu, OnCpu, HasCpu
    <3>3. StatePlace' /\ SleepsOn'
      BY Zenon, <3>1 DEF SchedInv, RunInv, StatePlace, SleepsOn
    <3> QED
      BY Zenon, <3>2, <3>3 DEF RunInv
  <2>4. LockInv'
    <3>1. UNCHANGED <<pc, slk, proc, spc, sidx, hpc, lock, noff, intr, intena, panic>>
      BY Zenon, <2>1 DEF procVars, spinVars, cpuVars
    <3>2. \A c \in Cpu : CpuLocks(c)' = CpuLocks(c)
      BY ZenonT(30), <3>1 DEF CpuLocks, ThreadLocks
    <3>3. \A c \in Cpu : CpuOk(c)'
      BY <3>1, <3>2, LockInvCpu DEF SchedInv, CpuOk
    <3> QED
      BY Zenon, <3>1, <3>3 DEF LockInv, CpuOk, SchedInv
  <2>5. SleepInv'
    BY Zenon, <2>1 DEF SchedInv, SleepInv, InCrit, Waits, Elapsed, procVars, cpuVars, clientVars
  <2> QED
    BY Zenon, <2>2, <2>3, <2>4, <2>5 DEF SchedInv
<1>2. ASSUME NEW c \in Cpu, scheduler(c) \/ interrupt(c) \/ handler(c) PROVE SchedInv'
  BY Zenon, <1>2, SchedulerTopInv, SchedulerAcquireInv, SchedulerLookInv, SchedulerBackInv, InterruptInv,
     ClockintrInv, ClockintrWakeupInv, InterruptEndInv DEF scheduler, handler
<1>3. ASSUME NEW c \in Cpu, NEW p \in Proc, thread(c, p) PROVE SchedInv'
  BY Zenon, <1>3, ForkretInv, ExitAcquireInv, ExitInv, SleepReleaseInv, SleepSchedInv, SleepTidyInv,
     SleepReacquireInv, AcquiresleepTestInv, ReleasesleepInv, ReleasesleepWakeupInv,
     SysSleepTestInv, SysSleepSleepInv, SysSleepFailInv DEF thread
<1>4. ASSUME NEW c \in Cpu, NEW p \in Proc, trap(c, p) \/ call(c, p) PROVE SchedInv'
  BY Zenon, <1>4, YieldInv, TrapretInv, AcquiresleepInv, SysSleepInv, KillInv DEF trap, call
<1> QED
  BY Zenon, <1>1, <1>2, <1>3, <1>4 DEF Next

\* The invariant holds throughout.
LEMMA AlwaysInv == Spec => []SchedInv
BY InitInv, NextInv, PTL DEF Spec

INSTANCE FiniteSetTheorems

\* c->noff is the number of spin locks that c holds.
LEMMA InvCounts == SchedInv => LocksCounted
<1> SUFFICES ASSUME SchedInv PROVE LocksCounted
  BY Zenon
<1>1. ASSUME NEW c \in Cpu PROVE noff[c] = Cardinality({l \in Lock : lock[l] = c})
  <2>1. CpuOk(c) /\ CpuLocks(c) \subseteq Lock
    <3>1. CpuOk(c)
      BY Zenon, LockInvCpu DEF SchedInv
    <3>2. \A p \in Proc : ThreadLocks(p) \subseteq Lock
      <4>1. ASSUME NEW p \in Proc PROVE ThreadLocks(p) \subseteq Lock
        <5>1. slk[p] \in {None, tickslock, lk}
          BY Zenon, Fields DEF SchedInv
        <5>2. pc[p] = "sleep_release" => slk[p] # None
          BY Zenon DEF SchedInv, RunInv, SleepsOn
        <5> QED
          BY Zenon, <5>1, <5>2, Ids DEF ThreadLocks
      <4> QED
        BY Zenon, <4>1
    <3>3. sidx[c] \in Proc /\ (proc[c] # None => proc[c] \in Proc)
      BY Zenon, CpuFields, ProcType DEF SchedInv
    <3> QED
      BY Zenon, <3>1, <3>2, <3>3, Ids DEF CpuLocks
  <2>2. {l \in Lock : lock[l] = c} = CpuLocks(c)
    BY Zenon, <2>1 DEF CpuOk
  <2>3. noff[c] = Cardinality(CpuLocks(c))
    <3>1. CASE hpc[c] = "none" /\ proc[c] # None /\ pc[proc[c]] = "sleep_release"
      <4>1. PICK p \in Proc : p = proc[c]
        BY Zenon, <3>1, ProcType DEF SchedInv
      <4>2. CpuLocks(c) = {p, slk[p]} /\ noff[c] = 2 /\ slk[p] # p
        <5>1. slk[p] \in {None, tickslock, lk}
          BY Fields DEF SchedInv
        <5> QED
          BY ZenonT(30), <2>1, <3>1, <4>1, <5>1, Ids DEF CpuLocks, ThreadLocks, CpuOk
      <4>3. IsFiniteSet({p}) /\ Cardinality({p}) = 1
        BY Zenon, FS_Singleton
      <4>4. Cardinality({p} \cup {slk[p]}) = 2
        <5>1. slk[p] \notin {p}
          BY Zenon, <4>2
        <5>2. Cardinality({p} \cup {slk[p]}) = Cardinality({p}) + 1
          BY Zenon, <4>3, <5>1, FS_AddElement
        <5> QED
          BY <4>3, <5>2
      <4>5. {p} \cup {slk[p]} = {p, slk[p]}
        BY Zenon
      <4> QED
        BY Zenon, <4>2, <4>4, <4>5
    <3>2. CASE CpuLocks(c) = {}
      BY Zenon, <2>1, <3>2, FS_EmptySet DEF CpuOk
    <3>3. CASE /\ ~(hpc[c] = "none" /\ proc[c] # None /\ pc[proc[c]] = "sleep_release")
               /\ CpuLocks(c) # {}
      <4>1. noff[c] = 1
        BY Zenon, <2>1, <3>3 DEF CpuOk
      <4>2. \E l : CpuLocks(c) = {l}
        BY Zenon, <3>3 DEF CpuLocks, ThreadLocks
      <4> QED
        BY Zenon, <4>1, <4>2, FS_Singleton
    <3> QED
      BY Zenon, <3>1, <3>2, <3>3
  <2> QED
    BY Zenon, <2>2, <2>3
<1> QED
  BY Zenon, <1>1 DEF LocksCounted, SchedInv, LockInv

\* The kernel stack of a process that is not RUNNING is free to whoever gets
\* p->lock, and no scan runs off the process table (swtch() in scheduler() and
\* sched()).
THEOREM StackHandedOver == Spec => []StackOwned
<1>1. ASSUME SchedInv PROVE StackOwned
  <2>1. OneCpu /\ OnCpu /\ TypeOK
    BY Zenon, <1>1 DEF SchedInv, RunInv
  <2>2. \A c \in Cpu, p \in Proc : proc[c] = p => state[p] = "RUNNING"
    BY <2>1, Ids DEF OnCpu
  <2> QED
    BY <2>1, <2>2 DEF StackOwned, OneCpu
<1> QED
  BY <1>1, AlwaysInv, PTL

\* No assertion of acquire(), release(), pop_off() or sched() fails, and c->noff
\* counts the locks of c.
THEOREM LockCountKept == Spec => []LocksCounted
BY AlwaysInv, InvCounts, PTL

\* The sleep lock excludes, and neither releasesleep() nor clockintr() misses a
\* process that sleeps on its channel.
THEOREM NoLostWakeup == Spec => []SleepLockKept
<1>1. SchedInv => SleepLockKept
  BY Zenon DEF SchedInv, SleepInv, SleepLockKept, Waits
<1> QED
  BY <1>1, AlwaysInv, PTL
========================================================================
