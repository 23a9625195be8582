------------------------------- MODULE Bio ------------------------------
(***************************************************************************)
(* The buffer cache (kernel/bio.c) under the processes that read, modify   *)
(* and write blocks through it: the list in order of use, the reference    *)
(* counts, recycling, the sleep-lock of each buffer, and the log's pins.   *)
(*                                                                         *)
(* What runs under bcache.lock is one step.  A sleep-lock is taken in one  *)
(* step once it is free, which is what module Sched establishes; a disk    *)
(* transfer is one step, which is what VirtioDisk establishes.             *)
(*                                                                         *)
(* Faulty variants of a definition stand right before it (such as          *)
(* cachedValid); they only serve to show that a property can fail.         *)
(***************************************************************************)
EXTENDS Integers, FiniteSets, Functions

CONSTANTS
    Proc, Buf, Data,
    Block,      \* numbers of the blocks that are used
    LogBlock,   \* the blocks of the on-disk log: written by commit() only
    Written,    \* the home blocks that are ever modified
    Nest,       \* processes that may have a second buffer locked
    None,       \* nobody, and the number of a buffer that was never used
    MaxPins     \* bound on the blocks in the log header: LOGSIZE - 1

ASSUME BioAssumption ==
    /\ IsFiniteSet(Proc) /\ IsFiniteSet(Buf) /\ Nest \subseteq Proc
    /\ Block \subseteq Nat /\ LogBlock \subseteq Block /\ Written \subseteq Block \ LogBlock
    /\ None \notin Block \cup Proc \cup Buf
    /\ MaxPins \in Nat

VARIABLES
    list,                                 \* bcache.head: the buffers, most recently used first
    blockno, valid, refcnt, data, lock,   \* struct buf
    disk,                                 \* contents of the blocks on the disk
    pc, cur,                              \* where each process is, and with which buffer
    dirty,                                \* buffers changed since their last write or log_write()
    logged,                               \* blocks in the log header, hence pinned
    panic

bufVars == <<blockno, valid, refcnt, data, lock>>
vars == <<list, bufVars, disk, pc, cur, dirty, logged, panic>>

\* binit(); the names of the buffers carry no meaning, so any order will do.
Init ==
    /\ list \in Bijection(1 .. Cardinality(Buf), Buf)
    /\ blockno = [b \in Buf |-> None]
    /\ valid = [b \in Buf |-> FALSE]
    /\ refcnt = [b \in Buf |-> 0]
    /\ \E d \in Data : disk = [n \in Block |-> d] /\ data = [b \in Buf |-> d]
    /\ lock = [b \in Buf |-> None]
    /\ pc = [p \in Proc |-> "run"]
    /\ cur = [p \in Proc |-> None]
    /\ dirty = {} /\ logged = {}
    /\ panic = FALSE

Held(p) == {b \in Buf : lock[b] = p}

At(p, l) == pc[p] = l /\ ~panic
Goto(p, l) == pc' = [pc EXCEPT ![p] = l]

\* The orders in which the code locks two buffers: write_log() and
\* install_trans() have a log block and get a home block; bmap() has the
\* indirect block when balloc() gets the bitmap block and the new block.
\* Both go from a lower to a higher number here.
MayGet(p, n) ==
    \/ Held(p) = {}
    \/ /\ p \in Nest /\ Cardinality(Held(p)) = 1
       /\ \A b \in Held(p) : blockno[b] < n
------------------------------------------------------------------------
cachedValid(n) == {b \in Buf : blockno[b] = n /\ valid[b]}
cached(n) == {b \in Buf : blockno[b] = n}

\* The two ways through bget() before it waits for the buffer's lock, each
\* under bcache.lock, and its panic.
bget_hit(p, n, b) ==
    /\ b \in cached(n)
    /\ refcnt' = [refcnt EXCEPT ![b] = @ + 1]
    /\ cur' = [cur EXCEPT ![p] = b]
    /\ Goto(p, "acquire")
    /\ UNCHANGED <<list, blockno, valid, data, lock, disk, dirty, logged, panic>>

\* The walk from bcache.head.prev: the least recently used buffer that
\* nobody uses.
LRU(b) ==
    \E i \in DOMAIN list :
        /\ list[i] = b /\ refcnt[b] = 0
        /\ \A j \in DOMAIN list : j > i => refcnt[list[j]] > 0

bget_recycleValid(p, n, b) ==
    /\ cached(n) = {} /\ LRU(b)
    /\ blockno' = [blockno EXCEPT ![b] = n]
    /\ refcnt' = [refcnt EXCEPT ![b] = 1]
    /\ cur' = [cur EXCEPT ![p] = b]
    /\ Goto(p, "acquire")
    /\ UNCHANGED <<list, valid, data, lock, disk, dirty, logged, panic>>

bget_recycle(p, n, b) ==
    /\ cached(n) = {} /\ LRU(b)
    /\ blockno' = [blockno EXCEPT ![b] = n]
    /\ valid' = [valid EXCEPT ![b] = FALSE]
    /\ refcnt' = [refcnt EXCEPT ![b] = 1]
    /\ cur' = [cur EXCEPT ![p] = b]
    /\ Goto(p, "acquire")
    /\ UNCHANGED <<list, data, lock, disk, dirty, logged, panic>>

bget_panic(n) ==
    /\ cached(n) = {} /\ \A b \in Buf : refcnt[b] > 0
    /\ panic' = TRUE
    /\ UNCHANGED <<list, bufVars, disk, pc, cur, dirty, logged>>

bget(p, n) ==
    /\ At(p, "run") /\ MayGet(p, n)
    /\ (\E b \in Buf : bget_hit(p, n, b) \/ bget_recycle(p, n, b)) \/ bget_panic(n)

acquiresleep(p) ==
    /\ At(p, "acquire") /\ lock[cur[p]] = None
    /\ lock' = [lock EXCEPT ![cur[p]] = p]
    /\ Goto(p, "read")
    /\ UNCHANGED <<list, blockno, valid, refcnt, data, disk, cur, dirty, logged, panic>>

\* The rest of bread().
bread(p) ==
    LET b == cur[p] IN
    /\ At(p, "read")
    /\ data' = [data EXCEPT ![b] = IF valid[b] THEN @ ELSE disk[blockno[b]]]
    /\ valid' = [valid EXCEPT ![b] = TRUE]
    /\ Goto(p, "run")
    /\ cur' = [cur EXCEPT ![p] = None]
    /\ UNCHANGED <<list, blockno, refcnt, lock, disk, dirty, logged, panic>>

\* The owner changes the bytes, and calls log_write() or bwrite() before it
\* lets go of the buffer; begin_op() has kept room in the log for the block.
Logging == {blockno[b] : b \in dirty} \ LogBlock
modify(p, b, d) ==
    /\ At(p, "run") /\ b \in Held(p)
    /\ \/ blockno[b] \in LogBlock
       \/ blockno[b] \in Written /\ Cardinality(logged \cup Logging \cup {blockno[b]}) <= MaxPins
    /\ data' = [data EXCEPT ![b] = d]
    /\ dirty' = dirty \cup {b}
    /\ UNCHANGED <<list, blockno, valid, refcnt, lock, disk, pc, cur, logged, panic>>

bpin(b) == refcnt' = [refcnt EXCEPT ![b] = @ + 1]

\* log_write(): a block that is in the log header already is absorbed.
log_write(p, b) ==
    /\ At(p, "run") /\ b \in Held(p) \cap dirty /\ blockno[b] \notin LogBlock
    /\ IF blockno[b] \in logged THEN UNCHANGED refcnt ELSE bpin(b)
    /\ logged' = logged \cup {blockno[b]}
    /\ dirty' = dirty \ {b}
    /\ UNCHANGED <<list, blockno, valid, data, lock, disk, pc, cur, panic>>

\* commit() writes blocks of the log, and home blocks once they are logged.
bwrite(p, b) ==
    /\ At(p, "run") /\ b \in Held(p)
    /\ blockno[b] \in LogBlock \cup logged /\ (blockno[b] \in logged => b \notin dirty)
    /\ disk' = [disk EXCEPT ![blockno[b]] = data[b]]
    /\ dirty' = dirty \ {b}
    /\ UNCHANGED <<list, bufVars, pc, cur, logged, panic>>

\* install_trans(), after its bwrite().
bunpin(p, b) ==
    /\ At(p, "run") /\ b \in Held(p) \ dirty /\ blockno[b] \in logged
    /\ disk[blockno[b]] = data[b]
    /\ refcnt' = [refcnt EXCEPT ![b] = @ - 1]
    /\ logged' = logged \ {blockno[b]}
    /\ UNCHANGED <<list, blockno, valid, data, lock, disk, pc, cur, dirty, panic>>

\* brelse() gives the sleep-lock back first ...
releasesleep(p, b) ==
    /\ At(p, "run") /\ b \in Held(p) \ dirty
    /\ lock' = [lock EXCEPT ![b] = None]
    /\ cur' = [cur EXCEPT ![p] = b]
    /\ Goto(p, "put")
    /\ UNCHANGED <<list, blockno, valid, refcnt, data, disk, dirty, logged, panic>>

\* ... and then, under bcache.lock, the reference.
toHead(b) ==
    LET i == CHOOSE i \in DOMAIN list : list[i] = b
    IN  [k \in DOMAIN list |-> IF k = 1 THEN b ELSE IF k <= i THEN list[k - 1] ELSE list[k]]

brelse(p) ==
    LET b == cur[p] IN
    /\ At(p, "put")
    /\ refcnt' = [refcnt EXCEPT ![b] = @ - 1]
    /\ list' = IF refcnt'[b] = 0 THEN toHead(b) ELSE list
    /\ Goto(p, "run")
    /\ cur' = [cur EXCEPT ![p] = None]
    /\ UNCHANGED <<blockno, valid, data, lock, disk, dirty, logged, panic>>

\* panic() loops for ever.
panicked == panic /\ UNCHANGED vars

Next ==
    \/ panicked
    \/ \E p \in Proc :
           \/ \E n \in Block : bget(p, n)
           \/ acquiresleep(p) \/ bread(p) \/ brelse(p)
           \/ \E b \in Buf :
                 \/ log_write(p, b) \/ bwrite(p, b) \/ bunpin(p, b) \/ releasesleep(p, b)
                 \/ \E d \in Data : modify(p, b, d)

Spec == Init /\ [][Next]_vars
------------------------------------------------------------------------
\* The references to b that the code still has to give back: a process that
\* waits for it, has it or is about to drop it, and the pin of the log.
Users(b) == {p \in Proc : lock[b] = p \/ cur[p] = b}
Pins(b) == IF blockno[b] \in logged THEN 1 ELSE 0

\* What the processes have in hand: the buffers they wait for, have or are about
\* to drop.
InHand == {pb \in Proc \X Buf : pb[1] \in Users(pb[2])}

\* At most one buffer caches a block, the list holds every buffer once, a
\* reference count is exactly the number of those who still use the buffer
\* plus its pin, and a locked buffer has its lock from a process that counts:
\* bget() may recycle a buffer without waiting for its lock.  bget() panics only
\* when the pins of the log and what the processes have in hand really take all
\* buffers; hence never if NBUF exceeds LOGSIZE - 1 and the locks held at one time.
CacheInv ==
    /\ \A b, c \in Buf : blockno[b] = blockno[c] /\ blockno[b] # None => b = c
    /\ list \in Bijection(1 .. Cardinality(Buf), Buf)
    /\ \A b \in Buf : refcnt[b] = Cardinality(Users(b)) + Pins(b)
    /\ \A n \in logged : \E b \in Buf : blockno[b] = n /\ valid[b]
    /\ \A b \in dirty : valid[b] /\ lock[b] # None
    /\ panic => Cardinality(Buf) <= Cardinality(logged) + Cardinality(InHand)

\* Processes see one block store: whatever is cached, recycled or pinned, a
\* block changes only by its holder, and keeps what was last put into it.
TheBuf(n) == CHOOSE b \in Buf : blockno[b] = n
Content == [n \in Block |-> IF cached(n) # {} /\ valid[TheBuf(n)] THEN data[TheBuf(n)] ELSE disk[n]]
Holder == [n \in Block |-> IF cached(n) # {} THEN lock[TheBuf(n)] ELSE None]
Store == INSTANCE BlockStore WITH content <- Content, holder <- Holder
StoreRefined == Store!Spec
=========================================================================
