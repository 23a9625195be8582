# Verification of the xv6 kernel

TLA+ models of the system under `src/` (xv6 for RISC-V with the system calls `trace`
and `sysinfo` and the programs `find`, `xargs` and `primes`), TLC configurations that
check them on small instances, and TLAPS proofs of what its concurrent core promises: the
write-ahead log, the buffer cache, the disk driver, pipes, and the scheduler with its
locks. `PROJECT.json` is the index: components, runs, mutants, the map from definitions
to source lines, hazards and theorems.

## 1. The system and its models

A multiprocessor kernel. Every CPU runs its scheduler thread or the kernel thread of one
process; timer and device interrupts come in wherever interrupts are on. Spin locks
protect data, `sleep()`/`wakeup()` wait for conditions, sleep locks are built on these. A
file-system call is bracketed by `begin_op()`/`end_op()` of the log, which sits on the
buffer cache, which sits on the driver of a virtio disk.

| part | modules | abstract specification | proofs |
|---|---|---|---|
| spin locks, scheduler, sleep/wakeup, sleep locks, clock (spinlock.c, proc.c, sleeplock.c, trap.c, sys_sleep) | `Sched` | | `SchedSteps`, `SchedProofs` |
| write-ahead log (log.c) | `Log`, `LogInv` | `TxnDisk`: atomic, crash-safe group transactions | `LogProofs`, `LogRefinement` |
| buffer cache (bio.c) | `Bio` | `BlockStore`: one copy and one holder of each block | `BioProofs` |
| disk driver (virtio_disk.c) | `VirtioDisk` | `BlockDevice`: one transfer per call | `VirtioProofs` |
| pipes (pipe.c) | `Pipe` | `ByteQueue`: a bounded queue with two ends | `PipeProofs` |
| names, inodes, open files (fs.c, file.c, sysfile.c) | `Fs` | | |
| contents of files (fs.c, file.c, mkfs.c) | `FileData` | | |
| console, UART (console.c, uart.c) | `Uart`, `Console` | `ByteQueue` for output, `LineQueue` for input | |
| memory (kalloc.c, vm.c, exec.c, proc.c) | `Vm`, `UserMem` | `AddressSpace`: calls that happen completely or not at all | |
| life of a process (proc.c) | `Proc` | | |
| dispatch, trace, sysinfo (syscall.c, sysproc.c) | `Syscall` | | |
| user programs (sh.c, init.c, umalloc.c, grep.c, primes.c, xargs.c, find.c) | `Shell`, `Umalloc`, `Grep`, `Primes`, `Xargs`, `Find` | | |

The models lean on each other in the order of the code. `Sched` shows, at the level of
single lock operations, that `sleep(chan, lk)` lets go of `lk` and sleeps without losing a
wakeup, and that `acquiresleep()` excludes; the others use "release and sleep", and
"take the sleep lock when it is free", as one step. `VirtioDisk` implements one transfer
per call, the step with which `Bio` and `Log` write a block. `Log` implements transactions
that survive a crash or vanish, which is how `Fs` and `FileData` crash: back to a moment when
no call was open. `Pipe` implements the queue that the user programs use.

A definition that stands right before the one it varies (`notifyNever` before `notify`) is
a faulty variant. No specification uses it; the mutants of `PROJECT.json` put it in the
place of the right one to show that a property would notice.

### Sched
Locks are numbered: `p->lock` is `p`, then `tickslock`, then the spin lock inside the sleep
lock. A step runs to the next `acquire()`, `release()` or `swtch()`. `proc[c]` is the process
CPU `c` runs; when it is `None` the scheduler thread runs; `hpc[c]` is the interrupt
handler on top of either. `p->lock` is acquired in the scheduler and released by the
process, and the other way round, as in the code; the assertions of `acquire`, `release`,
`pop_off` and `sched` set `panic`. `exit` is its last part, the step to ZOMBIE.

### Log
One action is one section under `log.lock` or one write of a disk block. `write_log`,
`write_head`, `install_trans`, `erase` and `finish` are the turns and steps of `commit()` and
the end of `end_op()`; `read_head`, `recover_install` and `recover_erase` those of recovery.
`Crash` keeps only the disk and may follow any step, recovery included. `Reader` processes
also read outside a transaction, as `fileread()` and `filestat()` do. `OPBLOCKS` is what a
call really writes, `MAXOPBLOCKS` what `begin_op()` reserves.

### Bio
What runs under `bcache.lock` is one step: the two scans of `bget()`, the second half of
`brelse()`, `bpin()`, `bunpin()`. `list` is the list in order of use, from most recent.
`logged` are the blocks the log has pinned; a commit writes and unpins them.

### VirtioDisk
A request is named by its buffer, which is locked while it lasts. `format` is
`alloc3_desc()` and the formatting, `publish` the increment of `avail->idx` between the
barriers, `notify` the notification and the sleep. `virtio_disk_intr()` is one step per
turn of its loop, so that the device works in between. The device, external, takes chains
in ring order once notified, completes them in any order, writes data and status before it
adds to the used ring, and reports no errors.

### Pipe
One turn of a loop under `pi->lock` is one step, so `kill()` can fall between two bytes. The
counters are numbers modulo `UINT`, a multiple of `PIPESIZE`; `left` is `n - i`. The mapping
to `ByteQueue` reads the ring from `nread` to `nwrite`.

### Fs, FileData
In `Fs` a step goes from one inode lock to the next, and sections under `itable.lock` and
`ftable.lock` are steps of their own; inodes have reference and link counts, directories
have entries, processes have descriptors and a current directory. `adrift` are directories
removed while a process still stands in them. In `FileData` a block is `BSIZE` words, one
`balloc()`, `bfree()` or copy into a block is a step, and each chunk of `filewrite()` is a
transaction; the initial states are the images `mkfs` can lay out.

### Console, Uart
Output is the ring between `uartputc()` and the UART, which `uartstart()` empties from both
sides; `uartputc_sync()` goes past the lock, so reading LSR and writing THR are steps of their
own. Input is `cons.buf` with its three indices. The UART and the keyboard are external. `load`
picks which processes and keys a behaviour has.

### Vm, UserMem
`Vm` writes the functions of kalloc.c and vm.c as operators on a record of free pages,
tables and contents. A system call of `UserMem` is one step: a page table is used by its process
only, and `kmem.lock` orders the allocator. Pipes take pages between the steps, so that
memory can run out at any point of any call.

### Processes and user programs
`Proc` has `fork`, `exit`, `wait`, `kill` with the order of `wait_lock` and `p->lock`; `onstack` says
that an exited process has not switched away yet. `Syscall` has the dispatch, the trace
mask and the slot-by-slot count of `sysinfo()`. `Shell` parses tokens and runs trees of commands;
`Umalloc` is the circular list, one turn of a loop per step; `Grep` the buffer and the
matcher; `Primes`, `Xargs` and `Find` the three programs of the labs, system call by system call.

## 2. Runs

| run | instance | shows | distinct states |
|---|---|---|---|
| `sched` | 2 CPUs, 2 processes, a sleep lock, a sleeper | assertions of the lock code, kernel stacks, lock counts, exclusion, wakeups | 537,789 |
| `sched_live` | 1 CPU, 2 processes, kill() | sleepers run, sys_sleep() ends, the clock ticks | 39,824 |
| `log` | 2 processes, 2 blocks, 2 values, crashes | atomicity (refinement of `TxnDisk`), coherence of the cache, no panic, calls end | 167,466 |
| `bio` | 2 processes, 3 buffers, 4 blocks | counts, pins, list, panic only when all buffers are taken; refinement of `BlockStore` | 278,524 |
| `virtio` | 2 requests, 6 descriptors | descriptors, no completion missed; refinement of `BlockDevice` | 551,808 |
| `virtio_live` | 3 requests, 5 descriptors | requests return, waiters for descriptors are woken | 30,267 |
| `pipe` | 2 writers, 1 reader, a ring of 2 bytes, kill() | refinement of `ByteQueue`, wakeups, free; calls end | 67,176 |
| `fs` | 2 processes, 3 inodes, 2 names, crashes | reference and link counts, the tree, panics, lock order | 630,213 |
| `filedata` | 2 processes, 2 files, 5 blocks, crashes | bitmap, block maps, contents, size of a transaction | 1,219,735 |
| `console` | 3 loads of readers, writers and keys | refinement of `ByteQueue` and `LineQueue`, no needless sleep, output moves | 210,545 |
| `usermem` | 2 processes, 20 pages | each page has one owner whatever fails; refinement of `AddressSpace` | 9,504 |
| `user` | one of `Proc`, `Syscall`, `Shell`, `Umalloc`, `Grep`, `Primes`, `Xargs`, `Find` in each behaviour | process tree, stacks, trace, commands, heap, output; waits and calls end | 32,850 |

Each property of each run has a mutant in `PROJECT.json`: a plausible fault in a mapped
definition under which TLC finds the property violated.

**Bounds.** Two processes and two blocks are enough for `log`: a commit of two blocks has a
crash point between every pair of writes, and one call can be open while another waits. In
`bio` there are more blocks than buffers, so buffers are recycled while others are pinned.
In `pipe` the ring has two bytes and the counters four values, in the virtio runs `UINT16`
is twice `NUM`, in `console` the rings have one and two places: all wrap many times. No run
has a shortage of descriptors together with two requests in flight; the proof covers that
case. `MaxTicks` keeps the clock at its last value. `sched` has no kill(), `sched_live` has; with
kill() on two CPUs the invariants hold too, on 2,987,189 states, too many for a regular run.
In `user` `Proc` has four slots and `MaxPid` allows as many pids. In `usermem` twenty pages
hold the tables and the memory of both processes only while these are small; the mutant that
does not give pages back after a failure shows that memory does run out inside a call. The
views of `MCPipe`, `MCVirtioDisk`, `FileData` and `MCUser` leave out values that are
overwritten before they are read again; that of `UserMem` identifies states that differ only in
which pages are used. Symmetry (`MCBio`, `MCFs`) is used
with safety properties only.

**Fairness** is assumed only where liveness is checked.

* `Sched`: strong fairness of each CPU's scheduler, interrupts and handlers and of each thread.
  A CPU executes on, a time slice is long enough to get on, and a spin lock that is free again
  and again is got in the end, which is what the atomic swap gives in practice.
* `Log`: a call ends (`SF` of `end_op`, and it holds no buffer for ever); woken processes and
  recovery go on (`WF`); the committer goes on (`SF`): `acquiresleep()` has no queue, so
  the committer gets a buffer that readers take again and again only with luck.
* `VirtioDisk`: the device works on what it has, interrupts are delivered, `vdisk_lock` is got
  in the end. The steps of a call are one fairness condition, since they follow each other.
* `Pipe`, `Proc`: a process in a call goes on, its lock is got in the end, a killed process
  leaves, and init calls wait() in a loop (user/init.c).
* `Console`: the UART transmits, interrupts are handled, processes go on (`WF`).
* the other modules of `user`: the program goes on (`WF`).

Deadlock is checked except in `pipe`, `console` and `user`, where everybody may be done.

## 3. Proofs

TLAPS proves the following for every value of the constants that satisfies the assumptions
named in the component's module.

| theorem | states | for |
|---|---|---|
| `SchedProofs!StackHandedOver` | `Spec => []StackOwned` | any number of CPUs and processes, with kill() |
| `SchedProofs!LockCountKept` | `Spec => []LocksCounted` | the same |
| `SchedProofs!NoLostWakeup` | `Spec => []SleepLockKept` | the same |
| `LogProofs!TypeCorrect`, `LoggedBlocksCached`, `CacheCoherent`, `QuietDurable`, `SleepersHaveWakers` | `Spec => []TypeOK`, `LoggedStaysCached`, `CacheIsCopy`, `QuietIsDurable`, `SleeperHasWaker` | any finite sets of processes and blocks, any log size |
| `LogRefinement!LogImplementsTxnDisk` | `Spec => Atomicity` | the same |
| `LogRefinement!ReservationSuffices` | `LogRoom` implies `Spec => []NoPanic` | the same |
| `BioProofs!CacheKept` | `Spec => []CacheInv` | any finite sets of buffers and processes, any blocks |
| `BioProofs!CacheIsStore` | `Spec => StoreRefined` | the same |
| `VirtioProofs!DescriptorsKept` | `Spec => []DescOwned` | any requests, any `NUM >= 3` that divides `UINT16` |
| `VirtioProofs!DriverIsDevice` | `Spec => TransfersOnce` | the same |
| `PipeProofs!WakeupsKept`, `FreedLast`, `PipeIsQueue` | `Spec => []WakeupNotLost`, `[]FreedUnused`, `Fifo` | any readers and writers, any `PIPESIZE` that divides `UINT` |

None of the invariants is inductive as it stands. Each proof adds what the code relies on
and does not say, has one lemma per action, and ends with the temporal step. Every
inductive invariant was checked by TLC before it was proved.

* **Sched** (`SchedInv`). `CpuLocks(c)` computes from the places of the threads which spin locks
  CPU `c` must hold; `LockInv` says that the lock words agree with it, that `noff` is their
  number, and that a handler interrupted a thread without locks. `RunInv` ties `state` to the CPU
  that runs a process and to its place in `sched()`. `SleepInv` extends the claim about sleepers
  to those who are on their way to sleep and still hold the condition's lock. Lemmas about
  `acquire`, `release`, `sched` and one turn of `wakeup` (`SchedSteps`) carry the actions.
* **Log** (`LogInv!Inv`). How the header on disk follows the one in memory through the phases of
  commit and recovery, that there is one committer and no open call meanwhile, which positions are
  still pinned, and which log blocks, buffers and home blocks agree already. In the refinement
  `write_head` is the abstract commit; every other step of commit and recovery leaves what
  a reboot would recover unchanged. Log space is a counting argument: an open call owns
  `MAXOPBLOCKS` tokens and gives one up for each block it logs first (`RoomInv`).
  `LogRoom` is a hypothesis: mkfs makes the log `LOGSIZE` blocks with the header, one less
  than `begin_op()` counts on, so a call must write fewer blocks than it reserves. The
  kernel's numbers satisfy it: `filewrite()` cuts writes into pieces that log at most 7 of the
  10 blocks reserved, which `filedata` checks on a small disk (`ChunkFits`).
* **Bio** (`BioInv`). Between `bget()` and `bread()`, and between the halves of `brelse()`, a
  process has a buffer in its hands that it may not have locked (`PlaceInv`); a valid buffer
  that is neither dirty nor pinned is a copy of its block (`CopyInv`). That recycling
  needs no wait for the sleep lock follows because a reference count of 0 means no such
  process. For the panic, the buffers map into the pins and the pairs of `InHand`.
* **VirtioDisk** (`VirtioInv`). The indices wrap, so `RingInv` speaks of the numbers of entries
  ever put into and taken out of each ring; they exist in every reachable state, and the
  indices are their remainders. Entries that wait in a ring, and chains the device works
  on, belong to different open requests; so there are fewer than `NUM` of them, and the next
  slot is never one that is still needed (`Room`). `ChainInv` keeps the chains formatted and
  apart. In the refinement `dev_complete` is the transfer and the last part of
  `virtio_disk_rw()` the return; all other steps leave the phases alone.
* **Pipe** (`PipeInv`). Whoever sleeps has reason to, or the process that holds `pi->lock` is at
  a place from which it will call `wakeup()`. The number of bytes between the counters is
  taken modulo `UINT`, whence lemmas about remainders.

**Only model-checked.** All liveness properties (fairness and ENABLED are out of the
prover's reach). `Fs`, `FileData`, `Console` and `UserMem`: their invariants rest on
sequences of slots, paths and rings and on functions that recur over page tables and block
maps, where a proof needs induction over data, which the prover cannot do. The modules of
`user` share one run; `Shell`, `Grep` and `Find` are recursive definitions checked
against a reference on bounded inputs.

## 4. What reading and modelling the code brought up

None of these contradicts a statement of the repository; they bound what the properties
can say.

* A writer killed in mid-write returns from `pipewrite()` without `wakeup(&pi->nread)`
  (pipe.c:84): readers may sleep on although bytes are there, until the next write or close.
  `WakeupNotLost` makes an exception for it. A failed `copyout()` loses a byte (pipe.c:123).
* `writei()` leaves a buffer half changed and unlogged when `copyin()` fails on the second of two
  pages (fs.c:522). `FileData` has the torn word; `MaxTorn` bounds how many.
* `iput()` (fs.c:331-360) tests `ref == 1` and `nlink == 0` under `itable.lock` and frees under
  the inode's lock; `Fs` has both steps. A directory removed while it is somebody's current
  directory stays until they leave.
* `kill(0)` matches an unused slot (proc.c:594).
* With `NBUF = LOGSIZE` the cache could run out of buffers; `CacheInv` says exactly when.
* mkfs sizes the root directory one block too large when its entries fill a block exactly.
* Shell: `a & b` is a syntax error ("leftovers"); the first of two redirections wins; when fork
  fails in a pipeline the left side stays behind; when it fails in main the shell ends and init
  starts another.
* grep never prints a last line without newline, and ends silently at a line that fills its
  buffer. xargs drops a last line without newline, and when `exec()` fails its child goes on
  reading. primes keeps the read ends of earlier pipes open, which limits the
  row to what NOFILE allows.

## 5. Not modelled

Boot, saving and restoring of registers, the kernel's own page table, the layout of bits in
page-table entries, `copyin()` and `copyinstr()` (calls that use them may fail), formatted output, the string and user libraries, the RAM
disk (not built), programs of one or two system calls, and the tests. Within modelled parts:
running out of in-memory inodes, an offset shared by several processes (in `FileData` each has
an open file of its own), device errors, exec's check for overflowing segment addresses,
requests of `malloc()` beyond the range of int, lines longer than xargs' buffer, the lock of
`printf()`, the PLIC beyond "one handler at a time".
