------------------------------ MODULE Pipe ------------------------------
(***************************************************************************)
(* A pipe (kernel/pipe.c) between the processes that have one of its ends  *)
(* open: the ring buffer with its wrapping counters, sleeping and waking,  *)
(* closing, kill(), and failing copies from and to user memory.            *)
(*                                                                         *)
(* One turn of a loop under pi->lock is one step.  sleep(chan, &pi->lock)  *)
(* releases the lock and puts the process to sleep in one step, which is   *)
(* what module Sched establishes for it.                                   *)
(*                                                                         *)
(* Faulty variants of a definition stand right before it (such as          *)
(* FullLate); they only serve to show that a property can fail.            *)
(***************************************************************************)
EXTENDS Integers, Sequences, FiniteSets

CONSTANTS
    Writer, Reader,  \* processes with the write end, the read end, open
    Killable,        \* processes that somebody may kill
    MaxKills,        \* bound on how many are
    Byte,
    NoProc,
    PIPESIZE,
    UINT,            \* values of an unsigned int: 2^32 in the kernel
    MaxN             \* bound on the bytes asked for by one call

ASSUME PipeAssumption ==
    /\ Writer \cap Reader = {} /\ NoProc \notin Writer \cup Reader
    /\ Killable \subseteq Writer \cup Reader
    /\ PIPESIZE \in Nat \ {0} /\ UINT \in Nat /\ PIPESIZE < UINT /\ UINT % PIPESIZE = 0
    /\ MaxN \in Nat /\ MaxKills \in Nat

Proc == Writer \cup Reader

VARIABLES
    data, nread, nwrite, readopen, writeopen,  \* struct pipe
    freed,    \* kfree() of the pipe has happened
    lk,       \* holder of pi->lock
    pc,       \* where each process is
    left,     \* n - i of its call: the bytes it has still to transfer
    open,     \* processes that still have their end open
    killed    \* processes that have been killed

ring == <<data, nread, nwrite>>
ends == <<readopen, writeopen, freed, open>>
calls == <<pc, left>>
vars == <<ring, ends, lk, calls, killed>>

\* pipealloc()
Init ==
    /\ data \in [0 .. (PIPESIZE - 1) -> Byte]
    /\ nread = 0 /\ nwrite = 0
    /\ readopen = TRUE /\ writeopen = TRUE
    /\ freed = FALSE
    /\ lk = NoProc
    /\ pc = [p \in Proc |-> "user"]
    /\ left = [p \in Proc |-> 0]
    /\ open = Proc
    /\ killed = {}

Empty == nread = nwrite
FullLate == nwrite = (nread + PIPESIZE + 1) % UINT
Full == nwrite = (nread + PIPESIZE) % UINT

\* wakeup(chan): those asleep at s wait for pi->lock again; then p is at l.
WakeThen(s, woken, p, l) ==
    pc' = [q \in Proc |-> IF q = p THEN l ELSE IF pc[q] = s THEN woken ELSE pc[q]]
Goto(p, l) == pc' = [pc EXCEPT ![p] = l]
WakeNobodyThen(p, l) == Goto(p, l)
WakeReadersThen(p, l) == WakeThen("sleep on nread", "acquire to read", p, l)
WakeWritersThen(p, l) == WakeThen("sleep on nwrite", "acquire to write", p, l)

\* usertrap() looks at p->killed before a system call; kill() may come later.
Calls(p) == pc[p] = "user" /\ p \in open /\ p \notin killed

\* release(&pi->lock) and the end of p's call.
returns(p) == lk' = NoProc /\ left' = [left EXCEPT ![p] = 0]

\* p is inside its call, with pi->lock.
Holds(p, l) == lk = p /\ pc[p] = l
------------------------------------------------------------------------
pipewrite(p, m) ==
    /\ p \in Writer /\ Calls(p)
    /\ left' = [left EXCEPT ![p] = m]
    /\ Goto(p, "acquire to write")
    /\ UNCHANGED <<ring, ends, lk, killed>>

\* The three ways through the body of while(i < n).
pipewrite_fail(p) ==
    /\ Holds(p, "write") /\ left[p] > 0
    /\ ~readopen \/ p \in killed
    /\ returns(p)
    /\ Goto(p, "user")
    /\ UNCHANGED <<ring, ends, killed>>

pipewrite_full(p) ==
    /\ Holds(p, "write") /\ left[p] > 0
    /\ readopen /\ p \notin killed
    /\ Full
    /\ WakeReadersThen(p, "sleep on nwrite")
    /\ lk' = NoProc
    /\ UNCHANGED <<ring, ends, left, killed>>

\* copyin() of one byte, which may fail and end the loop.
pipewrite_put(p, ch) ==
    /\ Holds(p, "write") /\ left[p] > 0
    /\ readopen /\ p \notin killed
    /\ ~Full
    /\ data' = [data EXCEPT ![nwrite % PIPESIZE] = ch]
    /\ nwrite' = (nwrite + 1) % UINT
    /\ left' = [left EXCEPT ![p] = @ - 1]
    /\ UNCHANGED <<nread, ends, lk, pc, killed>>

pipewrite_fault(p) ==
    /\ Holds(p, "write") /\ left[p] > 0
    /\ readopen /\ p \notin killed
    /\ ~Full
    /\ Goto(p, "write end")
    /\ UNCHANGED <<ring, ends, lk, left, killed>>

pipewrite_end(p) ==
    /\ Holds(p, "write end") \/ (Holds(p, "write") /\ left[p] = 0)
    /\ WakeReadersThen(p, "user")
    /\ returns(p)
    /\ UNCHANGED <<ring, ends, killed>>
------------------------------------------------------------------------
piperead(p, m) ==
    /\ p \in Reader /\ Calls(p)
    /\ left' = [left EXCEPT ![p] = m]
    /\ Goto(p, "acquire to read")
    /\ UNCHANGED <<ring, ends, lk, killed>>

\* The while loop: wait for a byte, or for the end of all writers.
piperead_wait(p) ==
    /\ Holds(p, "read")
    /\ IF ~(Empty /\ writeopen) THEN Goto(p, "copy") /\ UNCHANGED <<lk, left>>
       ELSE IF p \in killed THEN Goto(p, "user") /\ returns(p)
       ELSE Goto(p, "sleep on nread") /\ lk' = NoProc /\ UNCHANGED left
    /\ UNCHANGED <<ring, ends, killed>>

\* One turn of the for loop; the byte is taken before copyout() may fail.
piperead_get(p, copied) ==
    /\ Holds(p, "copy") /\ left[p] > 0
    /\ ~Empty
    /\ nread' = (nread + 1) % UINT
    /\ IF copied
         THEN left' = [left EXCEPT ![p] = @ - 1] /\ UNCHANGED pc
         ELSE Goto(p, "read end") /\ UNCHANGED left
    /\ UNCHANGED <<data, nwrite, ends, lk, killed>>

piperead_end(p) ==
    /\ Holds(p, "read end") \/ (Holds(p, "copy") /\ (left[p] = 0 \/ Empty))
    /\ WakeWritersThen(p, "user")
    /\ returns(p)
    /\ UNCHANGED <<ring, ends, killed>>
------------------------------------------------------------------------
\* acquire(&pi->lock) at the start of a call, and at the end of sleep().
acquire(p) ==
    /\ pc[p] \in {"acquire to read", "acquire to write"}
    /\ lk = NoProc /\ lk' = p
    /\ Goto(p, IF pc[p] = "acquire to read" THEN "read" ELSE "write")
    /\ UNCHANGED <<ring, ends, left, killed>>

\* kill() ends a sleep, whatever it waits for.
killNoWake(p) ==
    /\ p \in Killable \ killed /\ Cardinality(killed) < MaxKills
    /\ killed' = killed \cup {p}
    /\ UNCHANGED <<ring, ends, lk, calls>>

kill(p) ==
    /\ p \in Killable \ killed /\ Cardinality(killed) < MaxKills
    /\ killed' = killed \cup {p}
    /\ pc' = [pc EXCEPT ![p] = IF @ = "sleep on nread" THEN "acquire to read"
                               ELSE IF @ = "sleep on nwrite" THEN "acquire to write" ELSE @]
    /\ UNCHANGED <<ring, ends, lk, left>>

\* The processes that share p's end of the pipe, through one struct file.
Side(p) == IF p \in Writer THEN Writer ELSE Reader

\* The last reference to an end goes on to pipeclose(), outside ftable.lock.
fileclose(p) ==
    /\ pc[p] = "user" /\ p \in open
    /\ open' = open \ {p}
    /\ Goto(p, IF open' \cap Side(p) = {} THEN "close" ELSE "closed")
    /\ UNCHANGED <<ring, readopen, writeopen, freed, lk, left, killed>>

pipecloseFreeFirst(p) ==
    /\ pc[p] = "close"
    /\ lk = NoProc
    /\ IF p \in Writer
         THEN writeopen' = FALSE /\ UNCHANGED readopen /\ WakeReadersThen(p, "closed")
         ELSE readopen' = FALSE /\ UNCHANGED writeopen /\ WakeWritersThen(p, "closed")
    /\ freed' = (~readopen' \/ ~writeopen')
    /\ UNCHANGED <<ring, open, lk, left, killed>>

pipeclose(p) ==
    /\ pc[p] = "close"
    /\ lk = NoProc
    /\ IF p \in Writer
         THEN writeopen' = FALSE /\ UNCHANGED readopen /\ WakeReadersThen(p, "closed")
         ELSE readopen' = FALSE /\ UNCHANGED writeopen /\ WakeWritersThen(p, "closed")
    /\ freed' = (~readopen' /\ ~writeopen')
    /\ UNCHANGED <<ring, open, lk, left, killed>>
------------------------------------------------------------------------
write(p) == pipewrite_fail(p) \/ pipewrite_full(p) \/ pipewrite_fault(p) \/ pipewrite_end(p)
                \/ \E ch \in Byte : pipewrite_put(p, ch)

read(p) == piperead_wait(p) \/ piperead_end(p) \/ \E ok \in BOOLEAN : piperead_get(p, ok)

Next ==
    \/ \E p \in Proc :
        write(p) \/ read(p) \/ acquire(p) \/ kill(p) \/ fileclose(p) \/ pipeclose(p)
    \/ \E p \in Proc, m \in 0 .. MaxN : pipewrite(p, m) \/ piperead(p, m)

Spec == Init /\ [][Next]_vars

(***************************************************************************)
(* A process inside a call goes on, one that waits for pi->lock gets it in *)
(* the end, and one that has been killed exits, which closes its files.    *)
(* At most one of these steps of a process is possible at a time, so that  *)
(* one condition stands for one on each.                                   *)
(***************************************************************************)
goes(p) ==
    write(p) \/ read(p) \/ acquire(p) \/ (p \in killed /\ fileclose(p)) \/ pipeclose(p)

Fairness == \A p \in Proc : SF_vars(goes(p))

FairSpec == Spec /\ Fairness
------------------------------------------------------------------------
Place == {"user", "write", "write end", "sleep on nwrite", "acquire to write",
          "read", "copy", "read end", "sleep on nread", "acquire to read", "close", "closed"}

\* Every variable stays in its domain: the counters stay unsigned ints, which
\* wrap around, and the index they give stays inside pi->data.
TypeOK ==
    /\ data \in [0 .. (PIPESIZE - 1) -> Byte]
    /\ nread \in 0 .. (UINT - 1) /\ nwrite \in 0 .. (UINT - 1)
    /\ readopen \in BOOLEAN /\ writeopen \in BOOLEAN /\ freed \in BOOLEAN
    /\ lk \in Proc \cup {NoProc}
    /\ pc \in [Proc -> Place]
    /\ left \in [Proc -> 0 .. MaxN]
    /\ open \subseteq Proc /\ killed \subseteq Proc

\* The bytes between the two counters, oldest first, across both wrap-arounds.
Count == (nwrite - nread) % UINT
Contents == [k \in 1 .. Count |-> data[(nread + k - 1) % PIPESIZE]]

Queue == INSTANCE ByteQueue WITH q <- Contents

\* The pipe is a bounded first-in first-out queue: pipewrite() appends at the
\* tail, piperead() takes from the head, no byte is overwritten before it is
\* read, none is read twice, and none is written once the read end is closed.
Fifo == Queue!Spec

\* The counters stay unsigned ints, which wrap around, and the index they give
\* stays inside pi->data.  Whenever pi->lock is free, a writer sleeps only on a
\* full pipe that can still be read, and a reader only on an empty pipe that can
\* still be written, however sleeps, writes, reads and closes interleaved.  A
\* writer that is killed in mid-write returns without wakeup(&pi->nread)
\* (pipe.c:84-87), so nothing is said of readers after that.
WakeupNotLost ==
    /\ TypeOK
    /\ lk = NoProc =>
         \A p \in Proc :
             /\ pc[p] = "sleep on nwrite" => Full /\ readopen
             /\ pc[p] = "sleep on nread" => (Empty /\ writeopen) \/ killed \cap Writer # {}

\* pipeclose() frees the pipe when nobody is, or will be, inside it: no process
\* has an end open, and none is between dropping its reference and pipeclose().
FreedUnused == freed => open = {} /\ lk = NoProc /\ \A p \in Proc : pc[p] = "closed"

\* Once the last writer has closed its end every reader returns, once the last
\* reader has closed its end every writer returns, and a killed process leaves
\* its call, asleep or not, and closes its end.
CallsEnd ==
    /\ \A p \in Reader : ~writeopen ~> pc[p] \in {"user", "close", "closed"}
    /\ \A p \in Writer : ~readopen ~> pc[p] \in {"user", "close", "closed"}
    /\ \A p \in Killable : p \in killed ~> pc[p] = "closed"
========================================================================
