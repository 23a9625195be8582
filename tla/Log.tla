------------------------------ MODULE Log ------------------------------
(***************************************************************************)
(* The write-ahead log of kernel/log.c: group commit of concurrent         *)
(* file-system calls, the pinning of logged buffers in the block cache,    *)
(* crashes at any point, and recovery at boot.                             *)
(*                                                                         *)
(* A critical section under log.lock is one step.  Every write of one disk *)
(* block is one step, and a crash may fall between any two steps.  The     *)
(* block cache (kernel/bio.c) appears as far as the log uses it: a buffer  *)
(* is cached or not, locked by one process or not, and may be recycled     *)
(* whenever its reference count is zero.                                   *)
(*                                                                         *)
(* Faulty variants of a definition stand right before it (such as          *)
(* mustSleepAnyTime); they only serve to show that a property can fail.    *)
(***************************************************************************)
EXTENDS Integers, Sequences, FiniteSets

CONSTANTS
    Proc,         \* processes that call into the file system
    Reader,       \* those of them that also read outside a transaction
    Block,        \* home blocks (everything but the log itself)
    Data,         \* contents of a block
    Zero,         \* what mkfs writes into the log blocks
    NoBuf,        \* the block has no valid buffer in the cache
    NoProc,       \* nobody holds the buffer's sleep lock
    LOGSIZE,      \* entries of struct logheader
    NLOG,         \* log.size = sb->nlog: log blocks on disk, header included
    MAXOPBLOCKS,  \* blocks begin_op() reserves for one call
    OPBLOCKS      \* distinct blocks one call really writes, at most

ASSUME ProcAssumption == IsFiniteSet(Proc) /\ NoProc \notin Proc
ASSUME ReaderAssumption == Reader \subseteq Proc
ASSUME BlockAssumption == IsFiniteSet(Block)
ASSUME DataAssumption == Zero \in Data /\ NoBuf \notin Data
ASSUME SizeAssumption ==
    /\ LOGSIZE \in Nat /\ NLOG \in Nat \ {0}
    /\ MAXOPBLOCKS \in Nat /\ OPBLOCKS \in Nat
    /\ MAXOPBLOCKS <= LOGSIZE

\* The blocks that hold data in the on-disk log (the header is block 0).
LogSlot == 1 .. (NLOG - 1)

VARIABLES
    disk,         \* home blocks on disk
    logdata,      \* data blocks of the on-disk log
    header,       \* on-disk log header: the block numbers 0..n-1
    buf,          \* cached contents of each home block, or NoBuf
    lock,         \* holder of each buffer's sleep lock
    pins,         \* references to the buffer taken by bpin()
    dirty,        \* buffers modified since the last log_write()
    lh,           \* log.lh, the in-memory header
    outstanding,  \* log.outstanding
    committing,   \* log.committing
    pc,           \* where each process is
    touched,      \* blocks the process has passed to log_write() in this call
    phase,        \* progress of commit() or recover_from_log()
    tail,         \* their loop counter, from 1
    panic         \* the message of the panic() that stopped the machine

diskVars == <<disk, logdata, header>>
cacheVars == <<buf, lock, pins, dirty>>
opVars == <<outstanding, pc, touched>>
logVars == <<lh, committing, phase, tail, panic>>
vars == <<diskVars, cacheVars, opVars, logVars>>

RecoverPhase == {"read_head", "rinstall", "rerase"}
CommitPhase == {"write_log", "write_head", "install", "erase", "done"}

\* The block numbers a header names.
Logged(h) == {h[i] : i \in 1 .. Len(h)}

\* What bread() returns for a block.
Contents(b) == IF buf[b] = NoBuf THEN disk[b] ELSE buf[b]

\* Buffers p has modified and not yet logged.
Dirty(p) == {b \in dirty : lock[b] = p}

\* The kernel is past initlog() and has not panicked.
Running == phase \notin RecoverPhase /\ panic = "none"

\* initlog() runs at boot, on the image mkfs wrote: an empty log of zeroes.
Init ==
    /\ disk \in [Block -> Data]
    /\ logdata = [i \in LogSlot |-> Zero]
    /\ header = << >>
    /\ buf = [b \in Block |-> NoBuf]
    /\ lock = [b \in Block |-> NoProc]
    /\ pins = [b \in Block |-> 0]
    /\ dirty = {}
    /\ lh = << >>
    /\ outstanding = 0
    /\ committing = FALSE
    /\ pc = [p \in Proc |-> "idle"]
    /\ touched = [p \in Proc |-> {}]
    /\ phase = "read_head"
    /\ tail = 1
    /\ panic = "none"
------------------------------------------------------------------------
(* The block cache, as the file system uses it.                           *)

\* bread(): get the buffer and its sleep lock.  Reads outside a transaction
\* (fileread(), filestat()) take the same path.
bread(p, b) ==
    /\ Running
    /\ pc[p] = "op" \/ (pc[p] = "idle" /\ p \in Reader)
    /\ lock[b] = NoProc
    /\ lock' = [lock EXCEPT ![b] = p]
    /\ buf' = [buf EXCEPT ![b] = Contents(b)]
    /\ UNCHANGED <<diskVars, pins, dirty, opVars, logVars>>

\* A file-system call changes bp->data; it writes at most OPBLOCKS blocks.
modify(p, b, d) ==
    /\ Running
    /\ pc[p] = "op"
    /\ lock[b] = p
    /\ Cardinality(touched[p] \cup Dirty(p) \cup {b}) <= OPBLOCKS
    /\ buf' = [buf EXCEPT ![b] = d]
    /\ dirty' = dirty \cup {b}
    /\ UNCHANGED <<diskVars, lock, pins, opVars, logVars>>

brelse(p, b) ==
    /\ Running
    /\ lock[b] = p
    /\ b \notin dirty
    /\ lock' = [lock EXCEPT ![b] = NoProc]
    /\ UNCHANGED <<diskVars, buf, pins, dirty, opVars, logVars>>

\* bget() recycles a buffer that nobody references.
recycle(b) ==
    /\ panic = "none"
    /\ buf[b] # NoBuf
    /\ lock[b] = NoProc
    /\ pins[b] = 0
    /\ buf' = [buf EXCEPT ![b] = NoBuf]
    /\ UNCHANGED <<diskVars, lock, pins, dirty, opVars, logVars>>
------------------------------------------------------------------------
(* The calls a file-system operation makes.                               *)

\* wakeup(&log), then p goes to state s.
WakeAllThen(p, s) ==
    [q \in Proc |-> IF q = p THEN s
                    ELSE IF pc[q] = "asleep" THEN "woken" ELSE pc[q]]

\* The conditions under which begin_op() waits: a commit is running, or this
\* call could exhaust the log.
mustSleepAnyTime == Len(lh) + (outstanding + 1) * MAXOPBLOCKS > LOGSIZE
mustSleep == committing \/ Len(lh) + (outstanding + 1) * MAXOPBLOCKS > LOGSIZE

\* One turn of the loop: either sleep on &log or reserve space and go.
begin_op(p) ==
    /\ Running
    /\ pc[p] \in {"idle", "woken"}
    /\ \A b \in Block : lock[b] # p
    /\ IF mustSleep
         THEN /\ pc' = [pc EXCEPT ![p] = "asleep"]
              /\ UNCHANGED <<outstanding, touched>>
         ELSE /\ pc' = [pc EXCEPT ![p] = "op"]
              /\ outstanding' = outstanding + 1
              /\ touched' = [touched EXCEPT ![p] = {}]
    /\ UNCHANGED <<diskVars, cacheVars, logVars>>

\* The panic() that log_write() meets before it records anything.
log_writePanic ==
    IF Len(lh) >= LOGSIZE \/ Len(lh) >= NLOG - 1 THEN "too big a transaction"
    ELSE IF outstanding < 1 THEN "log_write outside of trans"
    ELSE "none"

\* The search for b in the header: absorbed, or added and its buffer pinned.
recordNoAbsorb(b) ==
    /\ lh' = Append(lh, b)
    /\ pins' = [pins EXCEPT ![b] = @ + 1]
record(b) ==
    IF b \in Logged(lh)
      THEN UNCHANGED <<lh, pins>>
      ELSE /\ lh' = Append(lh, b)
           /\ pins' = [pins EXCEPT ![b] = @ + 1]

log_write(p, b) ==
    /\ Running
    /\ pc[p] = "op"
    /\ lock[b] = p
    /\ b \in dirty
    /\ panic' = log_writePanic
    /\ IF panic' # "none"
         THEN UNCHANGED <<lh, pins, dirty, touched>>
         ELSE /\ record(b)
              /\ dirty' = dirty \ {b}
              /\ touched' = [touched EXCEPT ![p] = @ \cup {b}]
    /\ UNCHANGED <<diskVars, buf, lock, outstanding, pc, committing, phase, tail>>

\* The last call out becomes the committer, every other one wakes begin_op().
end_op(p) ==
    /\ Running
    /\ pc[p] = "op"
    /\ \A b \in Block : lock[b] # p
    /\ outstanding' = outstanding - 1
    /\ panic' = IF committing THEN "log.committing" ELSE "none"
    /\ IF committing \/ outstanding' # 0
         THEN /\ pc' = IF committing THEN pc ELSE WakeAllThen(p, "idle")
              /\ UNCHANGED <<committing, phase, tail>>
         ELSE /\ pc' = [pc EXCEPT ![p] = "commit"]
              /\ committing' = TRUE
              /\ phase' = IF Len(lh) > 0 THEN "write_log" ELSE "done"
              /\ tail' = 1
    /\ UNCHANGED <<diskVars, cacheVars, lh, touched>>
------------------------------------------------------------------------
(* commit(), run by the process that made log.outstanding zero.  It holds *)
(* no spin lock, so reads outside a transaction interleave with it.        *)

\* The loop counter after one turn, and the phase that follows the loop.
NextTurn(loop, after) ==
    IF tail < Len(lh) THEN phase' = loop /\ tail' = tail + 1
                      ELSE phase' = after /\ tail' = 1

\* Copy one buffer to its log block.
write_log(p) ==
    /\ Running
    /\ pc[p] = "commit"
    /\ phase = "write_log"
    /\ lock[lh[tail]] = NoProc
    /\ buf' = [buf EXCEPT ![lh[tail]] = Contents(lh[tail])]
    /\ logdata' = [logdata EXCEPT ![tail] = Contents(lh[tail])]
    /\ NextTurn("write_log", "write_head")
    /\ UNCHANGED <<disk, header, lock, pins, dirty, opVars, lh, committing, panic>>

\* The commit point: one write of the header block.
write_headNoInstall(p) ==
    /\ Running /\ pc[p] = "commit" /\ phase = "write_head"
    /\ header' = lh
    /\ phase' = "erase"
    /\ UNCHANGED <<disk, logdata, cacheVars, opVars, lh, committing, tail, panic>>
write_head(p) ==
    /\ Running
    /\ pc[p] = "commit"
    /\ phase = "write_head"
    /\ header' = lh
    /\ phase' = "install"
    /\ UNCHANGED <<disk, logdata, cacheVars, opVars, lh, committing, tail, panic>>

\* Copy one log block home and drop its pin.
install_trans(p) ==
    /\ Running
    /\ pc[p] = "commit"
    /\ phase = "install"
    /\ lock[lh[tail]] = NoProc
    /\ buf' = [buf EXCEPT ![lh[tail]] = logdata[tail]]
    /\ disk' = [disk EXCEPT ![lh[tail]] = logdata[tail]]
    /\ pins' = [pins EXCEPT ![lh[tail]] = @ - 1]
    /\ NextTurn("install", "erase")
    /\ UNCHANGED <<logdata, header, lock, dirty, opVars, lh, committing, panic>>

\* log.lh.n = 0 and the second write_head().
erase(p) ==
    /\ Running
    /\ pc[p] = "commit"
    /\ phase = "erase"
    /\ lh' = << >>
    /\ header' = << >>
    /\ phase' = "done"
    /\ UNCHANGED <<disk, logdata, cacheVars, opVars, committing, tail, panic>>

\* The end of end_op(): let waiting calls in.
finishStillCommitting(p) ==
    /\ Running /\ pc[p] = "commit" /\ phase = "done"
    /\ pc' = WakeAllThen(p, "idle")
    /\ phase' = "none"
    /\ UNCHANGED <<diskVars, cacheVars, outstanding, touched, lh, committing, tail, panic>>
finish(p) ==
    /\ Running
    /\ pc[p] = "commit"
    /\ phase = "done"
    /\ committing' = FALSE
    /\ pc' = WakeAllThen(p, "idle")
    /\ phase' = "none"
    /\ UNCHANGED <<diskVars, cacheVars, outstanding, touched, lh, tail, panic>>
------------------------------------------------------------------------
(* Crash and recovery.                                                    *)

\* Power is lost, or the machine is reset after a panic: only the disk stays.
Crash ==
    /\ buf' = [b \in Block |-> NoBuf]
    /\ lock' = [b \in Block |-> NoProc]
    /\ pins' = [b \in Block |-> 0]
    /\ dirty' = {}
    /\ lh' = << >>
    /\ outstanding' = 0
    /\ committing' = FALSE
    /\ pc' = [p \in Proc |-> "idle"]
    /\ touched' = [p \in Proc |-> {}]
    /\ phase' = "read_head"
    /\ tail' = 1
    /\ panic' = "none"
    /\ UNCHANGED diskVars

read_head ==
    /\ phase = "read_head"
    /\ lh' = header
    /\ phase' = IF Len(header) > 0 THEN "rinstall" ELSE "rerase"
    /\ UNCHANGED <<diskVars, cacheVars, opVars, committing, tail, panic>>

\* install_trans(1): the same copy, on buffers that were never pinned.
recover_install ==
    /\ phase = "rinstall"
    /\ buf' = [buf EXCEPT ![lh[tail]] = logdata[tail]]
    /\ disk' = [disk EXCEPT ![lh[tail]] = logdata[tail]]
    /\ NextTurn("rinstall", "rerase")
    /\ UNCHANGED <<logdata, header, lock, pins, dirty, opVars, lh, committing, panic>>

recover_erase ==
    /\ phase = "rerase"
    /\ lh' = << >>
    /\ header' = << >>
    /\ phase' = "none"
    /\ UNCHANGED <<disk, logdata, cacheVars, opVars, committing, tail, panic>>
------------------------------------------------------------------------
commit(p) == write_log(p) \/ write_head(p) \/ install_trans(p) \/ erase(p) \/ finish(p)

recover_from_log == read_head \/ recover_install \/ recover_erase

Next ==
    \/ \E p \in Proc : begin_op(p) \/ end_op(p) \/ commit(p)
    \/ \E p \in Proc, b \in Block : bread(p, b) \/ log_write(p, b) \/ brelse(p, b)
    \/ \E p \in Proc, b \in Block, d \in Data : modify(p, b, d)
    \/ \E b \in Block : recycle(b)
    \/ recover_from_log
    \/ Crash

Spec == Init /\ [][Next]_vars

(***************************************************************************)
(* A call executes a bounded number of block operations: it logs what it   *)
(* modified, keeps coming back to the point where it holds no buffer, and  *)
(* does not stay there for ever without ending.  The scheduler runs the    *)
(* committer, every woken process and the recovery; and a committer that   *)
(* waits for a buffer which readers take again and again gets it in the    *)
(* end, which acquiresleep() leaves to the scheduler.                      *)
(***************************************************************************)
Fairness ==
    /\ \A p \in Proc :
         /\ []<>(\A b \in Block : lock[b] # p)
         /\ SF_vars(end_op(p))
         /\ SF_vars(commit(p))
         /\ WF_vars(pc[p] = "woken" /\ begin_op(p))
    /\ WF_vars(recover_from_log)

FairSpec == Spec /\ Fairness
------------------------------------------------------------------------
(* Properties.                                                            *)

\* Every variable stays in its domain: no reference count or loop counter of the
\* log becomes negative, and every header names blocks only.
TypeOK ==
    /\ disk \in [Block -> Data]
    /\ logdata \in [LogSlot -> Data]
    /\ header \in Seq(Block)
    /\ buf \in [Block -> Data \cup {NoBuf}]
    /\ lock \in [Block -> Proc \cup {NoProc}]
    /\ pins \in [Block -> Nat]
    /\ dirty \subseteq Block
    /\ lh \in Seq(Block)
    /\ outstanding \in Nat
    /\ committing \in BOOLEAN
    /\ pc \in [Proc -> {"idle", "asleep", "woken", "op", "commit"}]
    /\ touched \in [Proc -> SUBSET Block]
    /\ phase \in RecoverPhase \cup CommitPhase \cup {"none"}
    /\ tail \in Nat \ {0}
    /\ panic \in {"none", "too big a transaction", "log_write outside of trans",
                  "log.committing"}

\* None of the panic() calls of log.c is reached: begin_op()'s reservation
\* leaves room for every block the admitted calls log (log.c:220), a block is
\* only logged inside a transaction (log.c:222), and no call is still open
\* while a commit runs (log.c:153).
NoPanic == panic = "none"

\* What a reboot in this state would recover: a block named by the on-disk
\* header comes from the log, every other one from its home location.
Slot(h, b) == CHOOSE i \in 1 .. Len(h) : h[i] = b
Recovered(h, l, d) ==
    [b \in Block |-> IF b \in Logged(h) THEN l[Slot(h, b)] ELSE d[b]]
Durable == Recovered(header, logdata, disk)

\* The blocks as file-system code sees them through bread().
Mem == [b \in Block |-> IF buf[b] = NoBuf THEN Durable[b] ELSE buf[b]]

\* The processes between begin_op() and end_op().
Active == {p \in Proc : pc[p] = "op"}

\* The log implements atomic, crash-safe transactions: commit() makes the
\* updates of whole calls durable at one point, the header write (log.c:112),
\* installing, recycling of buffers and recovery change nothing visible, and a
\* crash at any step brings back exactly the last committed contents.
Txn == INSTANCE TxnDisk WITH mem <- Mem, durable <- Durable, active <- Active
Atomicity == Txn!Spec

\* When no call is open and no commit is running, everything calls have
\* written is at its home location, the log is empty and no pin is left: a
\* call that was alone is durable when its end_op() returns.
QuietIsDurable ==
    (phase = "none" /\ outstanding = 0)
        => /\ lh = << >> /\ header = << >>
           /\ \A b \in Block : pins[b] = 0 /\ Contents(b) = disk[b]

\* Until its copy is installed, the only up-to-date copy of a logged block is
\* its buffer, so bpin() must keep bget() from recycling it (log.c:231).
LoggedStaysCached ==
    phase \in {"none", "write_log", "write_head"}
        => \A b \in Logged(lh) : buf[b] # NoBuf /\ pins[b] = 1

\* The cache holds "cached copies of disk block contents" (bio.c:4): a buffer
\* differs from its home block only while its holder is modifying it or while
\* the log carries the new contents.
CacheIsCopy ==
    \A b \in Block : b \notin Logged(lh) /\ b \notin dirty => buf[b] \in {NoBuf, disk[b]}

\* A call asleep in begin_op() has somebody left to wake it: a committer, or
\* an open call whose end_op() will (log.c:132-136, 159-162, 172).
SleeperHasWaker ==
    (\E p \in Proc : pc[p] = "asleep") => committing \/ outstanding > 0

\* A commit, once begun, finishes, and nobody sleeps in begin_op() for ever.
CallsEnd ==
    /\ committing ~> ~committing
    /\ \A p \in Proc : pc[p] = "asleep" ~> pc[p] # "asleep"
========================================================================
