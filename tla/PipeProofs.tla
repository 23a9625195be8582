--------------------------- MODULE PipeProofs ---------------------------
(***************************************************************************)
(* Proofs about Pipe, for any number of readers and writers, any size of   *)
(* the ring and of its counters, and any number of kills: no wakeup is     *)
(* lost, the pipe is freed when the last process has left it, and the ring *)
(* with its wrapping counters is a first-in first-out queue.               *)
(***************************************************************************)
EXTENDS Pipe, Rings

\* Where a process is inside a call, by the end of the pipe that it uses, and
\* where it has pi->lock.
Writing == {"write", "write end", "sleep on nwrite", "acquire to write"}
Reading == {"read", "copy", "read end", "sleep on nread", "acquire to read"}
Locked == {"write", "write end", "read", "copy", "read end"}

\* A process uses the end it has open, one at most has the lock, and the end is
\* given up by the last of its side, when all others have left.
PlaceInv ==
    /\ \A p \in Proc : pc[p] \in Writing => p \in Writer
    /\ \A p \in Proc : pc[p] \in Reading => p \in Reader
    /\ \A p \in Proc : lk = p <=> pc[p] \in Locked
    /\ \A p \in Proc : p \in open <=> pc[p] \notin {"close", "closed"}
    /\ \A p, q \in Proc : pc[p] = "close" /\ q \in Side(p) /\ q # p => pc[q] = "closed"
    /\ ~readopen => \A p \in Reader : pc[p] = "closed"
    /\ ~writeopen => \A p \in Writer : pc[p] = "closed"
    /\ freed => ~readopen /\ ~writeopen

\* Whoever sleeps has reason to, or the process that has the lock will wake it.
SleepInv ==
    /\ \A p \in Proc : pc[p] = "sleep on nwrite" =>
         \/ Full /\ readopen
         \/ lk # NoProc /\ pc[lk] \in {"copy", "read end"}
    /\ \A p \in Proc : pc[p] = "sleep on nread" =>
         \/ Empty /\ writeopen
         \/ lk # NoProc /\ pc[lk] \in {"write", "write end"}
         \/ killed \cap Writer # {}

PipeInv == TypeOK /\ PlaceInv /\ SleepInv

------------------------------------------------------------------------
\* What the proofs use of the constants.
LEMMA Sizes ==
  /\ PIPESIZE \in Nat \ {0} /\ UINT \in Nat \ {0} /\ PIPESIZE < UINT
  /\ MaxN \in Nat /\ 0 \in 0 .. MaxN
  /\ Writer \cap Reader = {} /\ NoProc \notin Proc /\ Killable \subseteq Proc
BY PipeAssumption DEF Proc

\* A counter stays an unsigned int, and gives an index of pi->data.
LEMMA CounterRange ==
  ASSUME NEW n \in 0 .. (UINT - 1)
  PROVE  (n + 1) % UINT \in 0 .. (UINT - 1) /\ n % PIPESIZE \in 0 .. (PIPESIZE - 1)
BY Sizes, ModBase

USE DEF ring, ends, calls, Proc, Goto, Holds, Calls, returns

\* One byte less is left to transfer.
LEMMA LeftLess ==
  ASSUME TypeOK, NEW p \in Proc, left[p] > 0
  PROVE  left[p] - 1 \in 0 .. MaxN
<1>1. left[p] \in 0 .. MaxN
  BY DEF TypeOK
<1> QED
  BY <1>1, Sizes

\* pipealloc() makes an empty pipe with nobody in it.
LEMMA InitInv == Init => PipeInv
<1> SUFFICES ASSUME Init PROVE PipeInv
  OBVIOUS
<1>1. TypeOK
  <2>1. 0 \in 0 .. (UINT - 1) /\ 0 \in 0 .. MaxN
    BY Sizes
  <2> QED
    BY <2>1, Zenon DEF Init, TypeOK, Place
<1>2. PlaceInv
  BY Zenon, Sizes DEF Init, PlaceInv, Writing, Reading, Locked
<1>3. SleepInv
  BY Zenon DEF Init, SleepInv
<1> QED
  BY <1>1, <1>2, <1>3 DEF PipeInv

\* pipewrite() begins a call.
LEMMA PipewriteInv ==
  ASSUME PipeInv, NEW p \in Proc, NEW m \in 0 .. MaxN, pipewrite(p, m)
  PROVE  PipeInv'
<1> USE Sizes DEF PipeInv, pipewrite
<1>1. TypeOK'
  BY Zenon DEF TypeOK, Place
<1>2. PlaceInv'
  BY Zenon DEF TypeOK, PlaceInv, Writing, Reading, Locked, Side
<1>3. SleepInv'
  BY Zenon DEF TypeOK, PlaceInv, SleepInv, Writing, Reading, Locked, Full, Empty
<1> QED
  BY Zenon, <1>1, <1>2, <1>3

\* A write that is given up wakes nobody: there is no reader, or the writer was killed.
LEMMA PipewriteFailInv ==
  ASSUME PipeInv, NEW p \in Proc, pipewrite_fail(p)
  PROVE  PipeInv'
<1> USE Sizes DEF PipeInv, pipewrite_fail
<1>1. TypeOK'
  BY Zenon DEF TypeOK, Place
<1>2. PlaceInv'
  BY Zenon DEF TypeOK, PlaceInv, Writing, Reading, Locked, Side
<1>3. SleepInv'
  BY Zenon DEF TypeOK, PlaceInv, SleepInv, Writing, Reading, Locked, Full, Empty
<1> QED
  BY <1>1, <1>2, <1>3

\* A full pipe: the readers are woken and the writer sleeps.
LEMMA PipewriteFullInv ==
  ASSUME PipeInv, NEW p \in Proc, pipewrite_full(p)
  PROVE  PipeInv'
<1> USE Sizes DEF PipeInv, pipewrite_full
<1>1. TypeOK'
  BY Zenon DEF TypeOK, Place, WakeReadersThen, WakeThen
<1>2. PlaceInv'
  BY Zenon DEF TypeOK, PlaceInv, Writing, Reading, Locked, Side, WakeReadersThen, WakeThen
<1>3. SleepInv'
  BY Zenon DEF TypeOK, PlaceInv, SleepInv, Writing, Reading, Locked, Full, Empty, WakeReadersThen, WakeThen
<1> QED
  BY Zenon, <1>1, <1>2, <1>3

\* A byte is put in: no writer sleeps, since the pipe was not full.
LEMMA PipewritePutInv ==
  ASSUME PipeInv, NEW p \in Proc, NEW ch \in Byte, pipewrite_put(p, ch)
  PROVE  PipeInv'
<1> USE Sizes DEF PipeInv, pipewrite_put
<1>1. TypeOK'
  <2>1. left[p] - 1 \in 0 .. MaxN
    BY LeftLess
  <2>2. (nwrite + 1) % UINT \in 0 .. (UINT - 1)
    BY Zenon, CounterRange DEF TypeOK
  <2> QED
    BY Zenon, <2>1, <2>2 DEF TypeOK, Place
<1>2. PlaceInv'
  BY Zenon DEF TypeOK, PlaceInv, Writing, Reading, Locked, Side
<1>3. SleepInv'
  BY Zenon DEF TypeOK, PlaceInv, SleepInv, Writing, Reading, Locked, Full, Empty
<1> QED
  BY <1>1, <1>2, <1>3

\* A copy that fails ends the loop.
LEMMA PipewriteFaultInv ==
  ASSUME PipeInv, NEW p \in Proc, pipewrite_fault(p)
  PROVE  PipeInv'
<1> USE Sizes DEF PipeInv, pipewrite_fault
<1>1. TypeOK'
  BY Zenon DEF TypeOK, Place
<1>2. PlaceInv'
  BY Zenon DEF TypeOK, PlaceInv, Writing, Reading, Locked, Side
<1>3. SleepInv'
  BY Zenon DEF TypeOK, PlaceInv, SleepInv, Writing, Reading, Locked, Full, Empty
<1> QED
  BY Zenon, <1>1, <1>2, <1>3

\* The end of a write wakes every reader.
LEMMA PipewriteEndInv ==
  ASSUME PipeInv, NEW p \in Proc, pipewrite_end(p)
  PROVE  PipeInv'
<1>1. /\ lk = p /\ pc[p] \in {"write", "write end"} /\ lk' = NoProc
      /\ \A q \in Proc : pc'[q] = IF q = p THEN "user"
                                  ELSE IF pc[q] = "sleep on nread" THEN "acquire to read" ELSE pc[q]
      /\ UNCHANGED <<ring, ends, killed>>
  BY Zenon DEF pipewrite_end, WakeReadersThen, WakeThen
<1>2. TypeOK'
  BY Zenon, Sizes DEF PipeInv, pipewrite_end, TypeOK, Place, WakeReadersThen, WakeThen
<1>3. PlaceInv'
  <2>1. /\ \A q \in Proc : pc'[q] \in Writing => q \in Writer
        /\ \A q \in Proc : pc'[q] \in Reading => q \in Reader
    BY Zenon, <1>1, Sizes DEF PipeInv, TypeOK, PlaceInv, Writing, Reading, Locked
  <2>2. \A q \in Proc : lk' = q <=> pc'[q] \in Locked
    BY Zenon, <1>1, Sizes DEF PipeInv, TypeOK, PlaceInv, Locked
  <2>3. \A q \in Proc : q \in open' <=> pc'[q] \notin {"close", "closed"}
    BY Zenon, <1>1, Sizes DEF PipeInv, TypeOK, PlaceInv
  <2>4. /\ \A q \in Proc : pc[q] \in {"close", "closed"} => pc'[q] = pc[q]
        /\ \A q \in Proc : pc'[q] = "close" => pc[q] = "close"
    BY Zenon, <1>1, Sizes DEF PipeInv, TypeOK, PlaceInv
  <2>5. \A q, r \in Proc : pc'[q] = "close" /\ r \in Side(q) /\ r # q => pc'[r] = "closed"
    BY Zenon, <2>4 DEF PipeInv, PlaceInv
  <2> QED
    BY Zenon, <1>1, Sizes, <2>1, <2>2, <2>3, <2>4, <2>5 DEF PipeInv, PlaceInv, Side
<1>4. SleepInv'
  BY Zenon, <1>1, Sizes DEF PipeInv, TypeOK, PlaceInv, SleepInv, Writing, Reading, Locked, Full, Empty
<1> QED
  BY <1>2, <1>3, <1>4 DEF PipeInv

\* piperead() begins a call.
LEMMA PipereadInv ==
  ASSUME PipeInv, NEW p \in Proc, NEW m \in 0 .. MaxN, piperead(p, m)
  PROVE  PipeInv'
<1> USE Sizes DEF PipeInv, piperead
<1>1. TypeOK'
  BY Zenon DEF TypeOK, Place
<1>2. PlaceInv'
  BY ZenonT(30) DEF TypeOK, PlaceInv, Writing, Reading, Locked, Side
<1>3. SleepInv'
  BY Zenon DEF TypeOK, PlaceInv, SleepInv, Writing, Reading, Locked, Full, Empty
<1> QED
  BY Zenon, <1>1, <1>2, <1>3

\* A reader sleeps when the pipe is empty and can still be written.
LEMMA PipereadWaitInv ==
  ASSUME PipeInv, NEW p \in Proc, piperead_wait(p)
  PROVE  PipeInv'
<1>1. CASE ~(Empty /\ writeopen)
  <2>1. lk = p /\ pc[p] = "read" /\ pc' = [pc EXCEPT ![p] = "copy"] /\ lk' = lk
        /\ UNCHANGED <<ring, ends, killed>>
    BY <1>1 DEF piperead_wait
  <2>2. left' \in [Proc -> 0 .. MaxN]
    BY Zenon, <1>1, Sizes DEF PipeInv, TypeOK, piperead_wait
  <2>3. TypeOK'
    BY Zenon, <2>1, <2>2, Sizes DEF PipeInv, TypeOK, Place
  <2>4. PlaceInv'
    BY Zenon, <2>1, Sizes DEF PipeInv, TypeOK, PlaceInv, Writing, Reading, Locked, Side
  <2>5. SleepInv'
    BY Zenon, <1>1, <2>1, Sizes DEF PipeInv, TypeOK, PlaceInv, SleepInv, Writing, Reading, Locked, Full, Empty
  <2> QED
    BY <2>3, <2>4, <2>5 DEF PipeInv
<1>2. CASE Empty /\ writeopen /\ p \in killed
  <2>1. lk = p /\ pc[p] = "read" /\ pc' = [pc EXCEPT ![p] = "user"] /\ lk' = NoProc
        /\ UNCHANGED <<ring, ends, killed>>
    BY <1>2 DEF piperead_wait
  <2>2. left' \in [Proc -> 0 .. MaxN]
    BY Zenon, <1>2, Sizes DEF PipeInv, TypeOK, piperead_wait
  <2>3. TypeOK'
    BY Zenon, <2>1, <2>2, Sizes DEF PipeInv, TypeOK, Place
  <2>4. PlaceInv'
    BY Zenon, <2>1, Sizes DEF PipeInv, TypeOK, PlaceInv, Writing, Reading, Locked, Side
  <2>5. SleepInv'
    BY Zenon, <1>2, <2>1, Sizes DEF PipeInv, TypeOK, PlaceInv, SleepInv, Writing, Reading, Locked, Full, Empty
  <2> QED
    BY <2>3, <2>4, <2>5 DEF PipeInv
<1>3. CASE Empty /\ writeopen /\ p \notin killed
  <2>1. lk = p /\ pc[p] = "read" /\ pc' = [pc EXCEPT ![p] = "sleep on nread"] /\ lk' = NoProc
        /\ UNCHANGED <<ring, ends, killed>>
    BY Zenon, <1>3 DEF piperead_wait
  <2>2. left' \in [Proc -> 0 .. MaxN]
    BY Zenon, <1>3, Sizes DEF PipeInv, TypeOK, piperead_wait
  <2>3. TypeOK'
    BY Zenon, <2>1, <2>2, Sizes DEF PipeInv, TypeOK, Place
  <2>4. PlaceInv'
    BY Zenon, <2>1, Sizes DEF PipeInv, TypeOK, PlaceInv, Writing, Reading, Locked, Side
  <2>5. SleepInv'
    BY Zenon, <1>3, <2>1, Sizes DEF PipeInv, TypeOK, PlaceInv, SleepInv, Writing, Reading, Locked, Full, Empty
  <2> QED
    BY <2>3, <2>4, <2>5 DEF PipeInv
<1> QED
  BY <1>1, <1>2, <1>3

\* A byte is taken out: no reader sleeps, unless a writer was killed.
LEMMA PipereadGetInv ==
  ASSUME PipeInv, NEW p \in Proc, NEW ok \in BOOLEAN, piperead_get(p, ok)
  PROVE  PipeInv'
<1> USE Sizes DEF PipeInv, piperead_get
<1>1. TypeOK'
  <2>1. left[p] - 1 \in 0 .. MaxN
    BY Zenon, LeftLess
  <2>2. (nread + 1) % UINT \in 0 .. (UINT - 1)
    BY Zenon, CounterRange DEF TypeOK
  <2>3. pc' \in [Proc -> Place] /\ left' \in [Proc -> 0 .. MaxN]
    BY ZenonT(30), <2>1 DEF TypeOK, Place
  <2> QED
    BY Zenon, <2>2, <2>3 DEF TypeOK
<1>2. PlaceInv'
  <2>1. /\ \A q \in Proc : pc'[q] \in Writing => q \in Writer
        /\ \A q \in Proc : pc'[q] \in Reading => q \in Reader
    BY Zenon, Sizes DEF PipeInv, TypeOK, PlaceInv, Writing, Reading, Locked
  <2>2. \A q \in Proc : lk' = q <=> pc'[q] \in Locked
    BY Zenon, Sizes DEF PipeInv, TypeOK, PlaceInv, Locked
  <2>3. \A q \in Proc : q \in open' <=> pc'[q] \notin {"close", "closed"}
    BY Zenon, Sizes DEF PipeInv, TypeOK, PlaceInv
  <2>4. /\ \A q \in Proc : pc[q] \in {"close", "closed"} => pc'[q] = pc[q]
        /\ \A q \in Proc : pc'[q] = "close" => pc[q] = "close"
    BY Zenon, Sizes DEF PipeInv, TypeOK, PlaceInv
  <2>5. \A q, r \in Proc : pc'[q] = "close" /\ r \in Side(q) /\ r # q => pc'[r] = "closed"
    BY Zenon, <2>4 DEF PipeInv, PlaceInv
  <2> QED
    BY Zenon, Sizes, <2>1, <2>2, <2>3, <2>4, <2>5 DEF PipeInv, PlaceInv, Side
<1>3. SleepInv'
  BY ZenonT(30) DEF TypeOK, PlaceInv, SleepInv, Writing, Reading, Locked, Full, Empty
<1> QED
  BY Zenon, <1>1, <1>2, <1>3

\* The end of a read wakes every writer.
LEMMA PipereadEndInv ==
  ASSUME PipeInv, NEW p \in Proc, piperead_end(p)
  PROVE  PipeInv'
<1>1. /\ lk = p /\ pc[p] \in {"copy", "read end"} /\ lk' = NoProc
      /\ \A q \in Proc : pc'[q] = IF q = p THEN "user"
                                  ELSE IF pc[q] = "sleep on nwrite" THEN "acquire to write" ELSE pc[q]
      /\ UNCHANGED <<ring, ends, killed>>
  BY Zenon DEF piperead_end, WakeWritersThen, WakeThen
<1>2. TypeOK'
  BY Zenon, Sizes DEF PipeInv, piperead_end, TypeOK, Place, WakeWritersThen, WakeThen
<1>3. PlaceInv'
  <2>1. /\ \A q \in Proc : pc'[q] \in Writing => q \in Writer
        /\ \A q \in Proc : pc'[q] \in Reading => q \in Reader
    BY Zenon, <1>1, Sizes DEF PipeInv, TypeOK, PlaceInv, Writing, Reading, Locked
  <2>2. \A q \in Proc : lk' = q <=> pc'[q] \in Locked
    BY ZenonT(30), <1>1, Sizes DEF PipeInv, TypeOK, PlaceInv, Locked
  <2>3. \A q \in Proc : q \in open' <=> pc'[q] \notin {"close", "closed"}
    BY Zenon, <1>1, Sizes DEF PipeInv, TypeOK, PlaceInv
  <2>4. /\ \A q \in Proc : pc[q] \in {"close", "closed"} => pc'[q] = pc[q]
        /\ \A q \in Proc : pc'[q] = "close" => pc[q] = "close"
    BY Zenon, <1>1, Sizes DEF PipeInv, TypeOK, PlaceInv
  <2>5. \A q, r \in Proc : pc'[q] = "close" /\ r \in Side(q) /\ r # q => pc'[r] = "closed"
    BY <2>4 DEF PipeInv, PlaceInv
  <2> QED
    BY Zenon, <1>1, Sizes, <2>1, <2>2, <2>3, <2>4, <2>5 DEF PipeInv, PlaceInv, Side
<1>4. SleepInv'
  BY ZenonT(30), <1>1, Sizes DEF PipeInv, TypeOK, PlaceInv, SleepInv, Writing, Reading, Locked, Full, Empty
<1> QED
  BY <1>2, <1>3, <1>4 DEF PipeInv

\* The lock is taken only when it is free.
LEMMA AcquireInv ==
  ASSUME PipeInv, NEW p \in Proc, acquire(p)
  PROVE  PipeInv'
<1> USE Sizes DEF PipeInv, acquire
<1>1. TypeOK'
  BY Zenon DEF TypeOK, Place
<1>2. PlaceInv'
  BY ZenonT(30) DEF TypeOK, PlaceInv, Writing, Reading, Locked, Side
<1>3. SleepInv'
  BY Zenon DEF TypeOK, PlaceInv, SleepInv, Writing, Reading, Locked, Full, Empty
<1> QED
  BY Zenon, <1>1, <1>2, <1>3

\* kill() takes a process out of its sleep.
LEMMA KillInv ==
  ASSUME PipeInv, NEW p \in Proc, kill(p)
  PROVE  PipeInv'
<1> USE Sizes DEF PipeInv, kill
<1>1. TypeOK'
  BY Zenon DEF TypeOK, Place
<1>2. PlaceInv'
  BY ZenonT(30) DEF TypeOK, PlaceInv, Writing, Reading, Locked, Side
<1>3. SleepInv'
  BY ZenonT(30) DEF TypeOK, PlaceInv, SleepInv, Writing, Reading, Locked, Full, Empty
<1> QED
  BY Zenon, <1>1, <1>2, <1>3

\* The last process of a side goes on to pipeclose().
LEMMA FilecloseInv ==
  ASSUME PipeInv, NEW p \in Proc, fileclose(p)
  PROVE  PipeInv'
<1> USE Sizes DEF PipeInv, fileclose
<1>1. TypeOK'
  BY Zenon DEF TypeOK, Place
<1>2. PlaceInv'
  BY ZenonT(30) DEF TypeOK, PlaceInv, Writing, Reading, Locked, Side
<1>3. SleepInv'
  BY ZenonT(30) DEF TypeOK, PlaceInv, SleepInv, Writing, Reading, Locked, Full, Empty
<1> QED
  BY <1>1, <1>2, <1>3

\* pipeclose() wakes the other side, and frees the pipe with its second end.
LEMMA PipecloseInv ==
  ASSUME PipeInv, NEW p \in Proc, pipeclose(p)
  PROVE  PipeInv'
<1>1. CASE p \in Writer
  <2>1. /\ pc[p] = "close" /\ lk = NoProc /\ lk' = lk
        /\ writeopen' = FALSE /\ readopen' = readopen /\ freed' = ~readopen
        /\ \A q \in Proc : pc'[q] = IF q = p THEN "closed"
                                    ELSE IF pc[q] = "sleep on nread" THEN "acquire to read" ELSE pc[q]
        /\ pc' \in [Proc -> Place]
        /\ UNCHANGED <<ring, open, left, killed>>
    BY Zenon, <1>1 DEF PipeInv, TypeOK, Place, pipeclose, WakeReadersThen, WakeThen
  <2>2. TypeOK'
    BY Zenon, <2>1 DEF PipeInv, TypeOK
  <2>3. PlaceInv'
    BY ZenonT(30), <1>1, <2>1, Sizes DEF PipeInv, TypeOK, PlaceInv, Writing, Reading, Locked, Side
  <2>4. SleepInv'
    BY Zenon, <1>1, <2>1, Sizes DEF PipeInv, TypeOK, PlaceInv, SleepInv, Writing, Reading, Locked, Full, Empty
  <2> QED
    BY <2>2, <2>3, <2>4 DEF PipeInv
<1>2. CASE p \notin Writer
  <2>1. /\ pc[p] = "close" /\ lk = NoProc /\ lk' = lk
        /\ readopen' = FALSE /\ writeopen' = writeopen /\ freed' = ~writeopen
        /\ \A q \in Proc : pc'[q] = IF q = p THEN "closed"
                                    ELSE IF pc[q] = "sleep on nwrite" THEN "acquire to write" ELSE pc[q]
        /\ pc' \in [Proc -> Place]
        /\ UNCHANGED <<ring, open, left, killed>>
    BY Zenon, <1>2 DEF PipeInv, TypeOK, Place, pipeclose, WakeWritersThen, WakeThen
  <2>2. TypeOK'
    BY Zenon, <2>1 DEF PipeInv, TypeOK
  <2>3. PlaceInv'
    BY ZenonT(30), <1>2, <2>1, Sizes DEF PipeInv, TypeOK, PlaceInv, Writing, Reading, Locked, Side
  <2>4. SleepInv'
    BY Zenon, <1>2, <2>1, Sizes DEF PipeInv, TypeOK, PlaceInv, SleepInv, Writing, Reading, Locked, Full, Empty
  <2> QED
    BY <2>2, <2>3, <2>4 DEF PipeInv
<1> QED
  BY <1>1, <1>2

\* Every step of every process keeps the invariant.
LEMMA NextInv == PipeInv /\ [Next]_vars => PipeInv'
<1> SUFFICES ASSUME PipeInv, [Next]_vars PROVE PipeInv'
  OBVIOUS
<1>1. CASE UNCHANGED vars
  BY Zenon, <1>1 DEF vars, PipeInv, TypeOK, PlaceInv, SleepInv, Side, Full, Empty
<1>2. ASSUME NEW p \in Proc, write(p) PROVE PipeInv'
  BY <1>2, PipewriteFailInv, PipewriteFullInv, PipewriteFaultInv, PipewriteEndInv, PipewritePutInv DEF write
<1>3. ASSUME NEW p \in Proc, read(p) PROVE PipeInv'
  BY <1>3, PipereadWaitInv, PipereadEndInv, PipereadGetInv DEF read
<1> QED
  BY <1>1, <1>2, <1>3, AcquireInv, KillInv, FilecloseInv, PipecloseInv, PipewriteInv, PipereadInv DEF Next

\* While nobody has the lock, whoever sleeps has reason to.
LEMMA InvWakes == PipeInv => WakeupNotLost
BY Zenon, Sizes DEF PipeInv, PlaceInv, SleepInv, WakeupNotLost

\* With both ends closed everybody is past pipeclose(), so nobody has the lock.
LEMMA InvFreed == PipeInv => FreedUnused
BY Zenon, Sizes DEF PipeInv, TypeOK, PlaceInv, FreedUnused, Locked

\* The invariant holds in every state of a pipe.
LEMMA AlwaysInv == Spec => []PipeInv
BY InitInv, NextInv, PTL DEF Spec

\* Nobody sleeps on the pipe without reason (pipe.c:88-90, 113-118), whatever
\* reads, writes, closes and kills come together.
THEOREM WakeupsKept == Spec => []WakeupNotLost
BY AlwaysInv, InvWakes, PTL

\* The pipe is freed only when everybody has left it (pipe.c:69-73).
THEOREM FreedLast == Spec => []FreedUnused
BY AlwaysInv, InvFreed, PTL
------------------------------------------------------------------------
\* The ring never holds more than its size.
Bounded == Count <= PIPESIZE

\* What the lemmas about rings ask for.
LEMMA Wraps == PIPESIZE \in Nat \ {0} /\ UINT \in Nat \ {0} /\ UINT % PIPESIZE = 0 /\ PIPESIZE < UINT
BY PipeAssumption

\* The counters before and after a step, and the number of bytes they give.
LEMMA Counters ==
  ASSUME TypeOK, TypeOK'
  PROVE  /\ nread \in 0 .. (UINT - 1) /\ nwrite \in 0 .. (UINT - 1)
         /\ nread' \in 0 .. (UINT - 1) /\ nwrite' \in 0 .. (UINT - 1)
         /\ Apart(UINT, nread, nwrite, Count) /\ Apart(UINT, nread', nwrite', Count')
         /\ Count \in Nat /\ Count' \in Nat
<1>1. /\ nread \in 0 .. (UINT - 1) /\ nwrite \in 0 .. (UINT - 1)
      /\ nread' \in 0 .. (UINT - 1) /\ nwrite' \in 0 .. (UINT - 1)
  BY Zenon DEF TypeOK
<1>2. Apart(UINT, nread, nwrite, Count) /\ Apart(UINT, nread', nwrite', Count')
  BY Zenon, <1>1, Wraps, AheadValue DEF Count, Ahead
<1>3. Count \in Nat /\ Count' \in Nat
  BY <1>2 DEF Apart
<1> QED
  BY Zenon, <1>1, <1>2, <1>3

\* pi->nwrite == pi->nread + PIPESIZE (pipe.c:88) says that the ring holds
\* PIPESIZE bytes, and pi->nread == pi->nwrite (pipe.c:113) that it holds none.
LEMMA FullEmpty ==
  ASSUME TypeOK, TypeOK'
  PROVE  (Count = PIPESIZE => Full) /\ (Empty <=> Count = 0)
<1>1. Same((nread + Count) % UINT, nwrite)
  BY Zenon, Counters, Wraps, CounterAhead
<1>2. Count = PIPESIZE => Full
  BY Zenon, <1>1 DEF Full, Same
<1>3. Empty <=> Count = 0
  BY Sizes, Counters DEF Empty, Apart
<1> QED
  BY Zenon, <1>2, <1>3

\* The bytes that the pipe holds, before and after a step.
LEMMA ContentsSeq ==
  ASSUME TypeOK, TypeOK'
  PROVE  /\ Contents = Cells(UINT, PIPESIZE, data, nread, nwrite)
         /\ Contents' = Cells(UINT, PIPESIZE, data', nread', nwrite')
         /\ Contents \in Seq(Byte) /\ Len(Contents) = Count
<1>1. /\ Contents = Cells(UINT, PIPESIZE, data, nread, nwrite)
      /\ Contents' = Cells(UINT, PIPESIZE, data', nread', nwrite')
  BY Zenon DEF Contents, Count, Cells, Ahead
<1>2. \A i \in 0 .. (PIPESIZE - 1) : data[i] \in Byte
  BY Zenon DEF TypeOK
<1>3. Lists(Cells(UINT, PIPESIZE, data, nread, nwrite), Byte, Count, PIPESIZE, data, nread)
  BY Zenon, <1>2, Counters, Wraps, CellsList
<1> QED
  BY Zenon, <1>1, <1>3 DEF Lists

\* A byte put in lands behind all others, and in the place of none of them.
LEMMA PutIsAppend ==
  ASSUME PipeInv, Bounded, NEW p \in Proc, NEW ch \in Byte, pipewrite_put(p, ch)
  PROVE  Count < PIPESIZE /\ Count' = Count + 1 /\ Contents' = Append(Contents, ch)
<1>1. /\ TypeOK /\ TypeOK' /\ nwrite' = (nwrite + 1) % UINT /\ nread' = nread
      /\ data' = [data EXCEPT ![nwrite % PIPESIZE] = ch] /\ ~Full
  BY Zenon, PipewritePutInv DEF PipeInv, pipewrite_put
<1>2. Count \in Nat /\ Count < PIPESIZE /\ Count < UINT - 1
  BY <1>1, Sizes, Counters, FullEmpty DEF Bounded
<1>3. Follows(UINT, nwrite, nwrite')
  BY Zenon, <1>1, Counters, Wraps, CounterNext
<1>4. Count' = Count + 1
  <2>1. Apart(UINT, nread, nwrite', Count + 1)
    BY Zenon, <1>1, <1>2, <1>3, Counters, Wraps, AheadNext
  <2>2. Same(Count', Count + 1)
    BY Zenon, <1>1, <2>1, Counters, Wraps, ApartOnce
  <2> QED
    BY Zenon, <2>2 DEF Same
<1>5. Contents' = Append(Contents, ch)
  <2>1. PICK d : d = data'
    BY Zenon
  <2>2. nwrite % PIPESIZE \in 0 .. (PIPESIZE - 1)
    BY Zenon, <1>1, Counters, CounterRange
  <2>3. /\ d[nwrite % PIPESIZE] = ch
        /\ \A i \in 0 .. (PIPESIZE - 1) : i # nwrite % PIPESIZE => d[i] = data[i]
    BY Zenon, <1>1, <2>1, <2>2 DEF TypeOK
  <2>4. Same(Cells(UINT, PIPESIZE, d, nread, nwrite'),
             Append(Cells(UINT, PIPESIZE, data, nread, nwrite), d[nwrite % PIPESIZE]))
    BY Zenon, <1>1, <1>2, <1>3, <2>3, Counters, Wraps, CellsPut
  <2> QED
    BY Zenon, <1>1, <2>1, <2>3, <2>4, ContentsSeq DEF Same
<1> QED
  BY Zenon, <1>2, <1>4, <1>5

\* A byte taken out is the oldest one.
LEMMA GetIsTail ==
  ASSUME PipeInv, Bounded, NEW p \in Proc, NEW ok \in BOOLEAN, piperead_get(p, ok)
  PROVE  Count > 0 /\ Count' = Count - 1 /\ Contents' = Tail(Contents)
<1>1. TypeOK /\ TypeOK' /\ nread' = (nread + 1) % UINT /\ nwrite' = nwrite /\ data' = data /\ ~Empty
  BY Zenon, PipereadGetInv DEF PipeInv, piperead_get
<1>2. Count > 0
  BY <1>1, Counters, FullEmpty
<1>3. nread # nwrite
  BY Zenon, <1>1 DEF Empty
<1>4. Follows(UINT, nread, nread')
  BY Zenon, <1>1, Counters, Wraps, CounterNext
<1>5. Count' = Count - 1
  <2>1. Apart(UINT, nread', nwrite, Count - 1)
    BY Zenon, <1>1, <1>3, <1>4, Counters, Wraps, AheadLess
  <2>2. Same(Count', Count - 1)
    BY Zenon, <1>1, <2>1, Counters, Wraps, ApartOnce
  <2> QED
    BY Zenon, <2>2 DEF Same
<1>6. Contents' = Tail(Contents)
  <2>1. Same(Cells(UINT, PIPESIZE, data, nread', nwrite), Tail(Cells(UINT, PIPESIZE, data, nread, nwrite)))
    BY Zenon, <1>1, <1>3, <1>4, Counters, Wraps, CellsGet
  <2> QED
    BY Zenon, <1>1, <2>1, ContentsSeq DEF Same
<1> QED
  BY Zenon, <1>2, <1>5, <1>6

\* A step that leaves the ring alone leaves the queue alone.
LEMMA RingKept ==
  ASSUME UNCHANGED ring
  PROVE  Count' = Count /\ Contents' = Contents
BY DEF Count, Contents

\* Only a byte put in or taken out changes the ring, and only pipeclose() an end.
LEMMA RingSteps ==
  ASSUME [Next]_vars
  PROVE  \/ \E p \in Proc, ch \in Byte : pipewrite_put(p, ch)
         \/ \E p \in Proc, ok \in BOOLEAN : piperead_get(p, ok)
         \/ \E p \in Proc : pipeclose(p)
         \/ UNCHANGED <<ring, readopen, writeopen>>
<1>1. ASSUME NEW p \in Proc, write(p)
      PROVE  (\E ch \in Byte : pipewrite_put(p, ch)) \/ UNCHANGED <<ring, readopen, writeopen>>
  BY Zenon, <1>1 DEF write, pipewrite_fail, pipewrite_full, pipewrite_fault, pipewrite_end
<1>2. ASSUME NEW p \in Proc, read(p)
      PROVE  (\E ok \in BOOLEAN : piperead_get(p, ok)) \/ UNCHANGED <<ring, readopen, writeopen>>
  BY Zenon, <1>2 DEF read, piperead_wait, piperead_end
<1>3. ASSUME NEW p \in Proc, NEW m \in 0 .. MaxN, pipewrite(p, m) \/ piperead(p, m)
      PROVE  UNCHANGED <<ring, readopen, writeopen>>
  BY Zenon, <1>3 DEF pipewrite, piperead
<1>4. ASSUME NEW p \in Proc, acquire(p) \/ kill(p) \/ fileclose(p)
      PROVE  UNCHANGED <<ring, readopen, writeopen>>
  BY Zenon, <1>4 DEF acquire, kill, fileclose
<1>5. CASE UNCHANGED vars
  BY <1>5 DEF vars
<1> QED
  BY Zenon, <1>1, <1>2, <1>3, <1>4, <1>5 DEF Next

\* The ring never holds more than its size.
LEMMA NextBounded ==
  ASSUME PipeInv, Bounded, [Next]_vars
  PROVE  Bounded'
<1>1. ASSUME NEW p \in Proc, NEW ch \in Byte, pipewrite_put(p, ch) PROVE Bounded'
  <2>1. Count < PIPESIZE /\ Count' = Count + 1 /\ Count \in Nat
    BY <1>1, PutIsAppend, PipewritePutInv, Counters DEF PipeInv
  <2> QED
    BY <2>1, Sizes DEF Bounded
<1>2. ASSUME NEW p \in Proc, NEW ok \in BOOLEAN, piperead_get(p, ok) PROVE Bounded'
  <2>1. Count' = Count - 1 /\ Count \in Nat
    BY <1>2, GetIsTail, PipereadGetInv, Counters DEF PipeInv
  <2> QED
    BY <2>1, Sizes DEF Bounded
<1>3. CASE UNCHANGED ring
  BY <1>3, RingKept DEF Bounded
<1>4. ASSUME NEW p \in Proc, pipeclose(p) PROVE UNCHANGED ring
  BY <1>4 DEF pipeclose
<1> QED
  BY <1>1, <1>2, <1>3, <1>4, RingSteps

\* A new pipe is an empty queue.
LEMMA InitQueue == Init => Bounded /\ Queue!Init
<1> SUFFICES ASSUME Init PROVE Bounded /\ Queue!Init
  OBVIOUS
<1>1. nread = 0 /\ nwrite = 0 /\ readopen = TRUE /\ writeopen = TRUE
  BY DEF Init
<1>2. Count = 0
  <2>1. 0 \in 0 .. (UINT - 1)
    BY Sizes
  <2>2. Apart(UINT, 0, 0, (0 - 0) % UINT) /\ Apart(UINT, 0, 0, 0)
    BY Zenon, <2>1, Wraps, AheadValue, ApartSelf DEF Ahead
  <2>3. Same((0 - 0) % UINT, 0)
    BY Zenon, <2>1, <2>2, Wraps, ApartOnce
  <2> QED
    BY Zenon, <1>1, <2>3 DEF Count, Same
<1>3. Contents = << >>
  BY <1>2 DEF Contents
<1> QED
  BY <1>1, <1>2, <1>3, Sizes DEF Bounded, Queue!Init

\* Every step of the pipe is a step of the queue or leaves it alone: a process
\* that writes has its end open, so the queue does too.
LEMMA NextQueue ==
  ASSUME PipeInv, Bounded, [Next]_vars
  PROVE  [Queue!Next]_(Queue!vars)
<1>1. ASSUME NEW p \in Proc, NEW ch \in Byte, pipewrite_put(p, ch) PROVE Queue!Put(ch)
  <2>1. Count < PIPESIZE /\ Contents' = Append(Contents, ch) /\ Len(Contents) = Count
    BY Zenon, <1>1, PutIsAppend, PipewritePutInv, ContentsSeq DEF PipeInv
  <2>2. readopen /\ UNCHANGED <<readopen, writeopen>> /\ pc[p] = "write"
    BY Zenon, <1>1 DEF pipewrite_put
  <2>3. writeopen
    BY Zenon, <2>2 DEF PipeInv, PlaceInv, Writing
  <2> QED
    BY <2>1, <2>2, <2>3 DEF Queue!Put
<1>2. ASSUME NEW p \in Proc, NEW ok \in BOOLEAN, piperead_get(p, ok) PROVE Queue!Get
  <2>1. Count > 0 /\ Contents' = Tail(Contents) /\ Len(Contents) = Count
    BY Zenon, <1>2, GetIsTail, PipereadGetInv, ContentsSeq DEF PipeInv
  <2>2. UNCHANGED <<readopen, writeopen>> /\ pc[p] = "copy"
    BY Zenon, <1>2 DEF piperead_get
  <2>3. readopen
    BY Zenon, <2>2 DEF PipeInv, PlaceInv, Reading
  <2> QED
    BY <2>1, <2>2, <2>3 DEF Queue!Get
<1>3. ASSUME NEW p \in Proc, pipeclose(p) PROVE Queue!CloseRead \/ Queue!CloseWrite
  <2>1. pc[p] = "close" /\ Contents' = Contents
    BY <1>3, RingKept DEF pipeclose
  <2>2. CASE p \in Writer
    <3>1. writeopen /\ writeopen' = FALSE /\ readopen' = readopen
      BY Zenon, <1>3, <2>1, <2>2 DEF pipeclose, PipeInv, PlaceInv
    <3> QED
      BY <2>1, <3>1 DEF Queue!CloseWrite
  <2>3. CASE p \notin Writer
    <3>1. readopen /\ readopen' = FALSE /\ writeopen' = writeopen
      BY Zenon, <1>3, <2>1, <2>3 DEF pipeclose, PipeInv, PlaceInv
    <3> QED
      BY <2>1, <3>1 DEF Queue!CloseRead
  <2> QED
    BY <2>2, <2>3
<1>4. CASE UNCHANGED <<ring, readopen, writeopen>>
  BY <1>4, RingKept DEF Queue!vars
<1> QED
  BY Zenon, <1>1, <1>2, <1>3, <1>4, RingSteps DEF Queue!Next

\* The pipe implements a bounded first-in first-out queue (pipe.c:76-134): no
\* byte is lost, repeated or overtaken, across both wrap-arounds, for any size.
THEOREM PipeIsQueue == Spec => Fifo
<1>1. Spec => []Bounded
  BY InitQueue, NextBounded, AlwaysInv, PTL DEF Spec
<1> QED
  BY <1>1, InitQueue, NextQueue, AlwaysInv, PTL DEF Spec, Fifo, Queue!Spec
=========================================================================
