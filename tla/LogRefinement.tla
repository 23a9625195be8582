-------------------------- MODULE LogRefinement --------------------------
(***************************************************************************)
(* Two further proofs about Log: it implements TxnDisk, and begin_op()'s   *)
(* reservation keeps log_write() from running out of log space.            *)
(***************************************************************************)
EXTENDS LogProofs

USE DEF diskVars, cacheVars, opVars, logVars, mustSleep, record

\* A header that names each block once determines the slot of each block.
LEMMA SlotUnique ==
  ASSUME NEW h \in Seq(Block), HeaderShape(h), NEW i \in 1 .. Len(h)
  PROVE  Slot(h, h[i]) = i /\ h[i] \in Logged(h)
<1>1. \A j \in 1 .. Len(h) : h[j] = h[i] => j = i
  BY DEF HeaderShape
<1> QED
  BY Zenon, <1>1 DEF Slot, Logged

\* What recovery makes of a block, given a header, the log and the home blocks.
LEMMA RecoveredValue ==
  ASSUME NEW h \in Seq(Block), HeaderShape(h), NEW l, NEW d, NEW b \in Block
  PROVE  /\ \A i \in 1 .. Len(h) : h[i] = b => Recovered(h, l, d)[b] = l[i]
         /\ b \notin Logged(h) => Recovered(h, l, d)[b] = d[b]
BY SlotUnique DEF Recovered

\* The same for the current header, log and home blocks.
LEMMA DurableValue ==
  ASSUME Inv, NEW b \in Block
  PROVE  /\ \A i \in 1 .. Len(header) : header[i] = b => Durable[b] = logdata[i]
         /\ b \notin Logged(header) => Durable[b] = disk[b]
<1>1. header \in Seq(Block) /\ HeaderShape(header)
  BY Zenon DEF Inv, TypeOK, HeaderInv
<1> QED
  BY <1>1, RecoveredValue DEF Durable

\* A buffer that may be recycled holds what is durable.
LEMMA RecyclableIsDurable ==
  ASSUME Inv, NEW b \in Block, buf[b] # NoBuf, lock[b] = NoProc, pins[b] = 0
  PROVE  buf[b] = Durable[b]
<1> USE DEF RecoverPhase, CommitPhase
<1>1. b \notin dirty
  BY DEF Inv, LockInv
<1>2. phase # "read_head"
  BY DEF Inv, RecoverInv
<1>3. Len(lh) \in Nat
  BY LhSlot DEF Inv
<1>4. CASE phase \in {"none", "write_log", "write_head", "done"}
  <2>1. b \notin Logged(lh)
    BY <1>4 DEF Inv, PinInv, PinnedSlots, Logged, HeaderInv
  <2>2. header = << >>
    BY <1>4 DEF Inv, HeaderInv
  <2>3. Durable[b] = disk[b]
    BY <2>2, DurableValue DEF Logged
  <2> QED
    BY <1>1, <2>1, <2>3 DEF Inv, CacheIsCopy
<1>5. CASE phase \in {"install", "erase", "rinstall", "rerase"}
  <2>1. header = lh
    BY <1>5 DEF Inv, HeaderInv
  <2>2. CASE b \notin Logged(lh)
    BY <1>1, <2>1, <2>2, DurableValue DEF Inv, CacheIsCopy
  <2>3. CASE b \in Logged(lh)
    <3>1. PICK i \in 1 .. Len(lh) : lh[i] = b
      BY <2>3 DEF Logged
    <3>2. Durable[b] = logdata[i]
      BY <2>1, <3>1, DurableValue
    <3>3. i \in InstalledSlots
      <4>1. CASE phase = "install"
        <5>1. i \notin tail .. Len(lh)
          BY <3>1, <4>1 DEF Inv, PinInv, PinnedSlots
        <5>2. tail \in Nat
          BY Zenon DEF Inv, TypeOK
        <5> QED
          BY <1>3, <4>1, <5>1, <5>2 DEF InstalledSlots
      <4>2. CASE phase = "rinstall"
        <5>1. i \notin tail .. Len(lh)
          BY <3>1, <4>2 DEF Inv, CopyInv
        <5>2. tail \in Nat
          BY Zenon DEF Inv, TypeOK
        <5> QED
          BY <1>3, <4>2, <5>1, <5>2 DEF InstalledSlots
      <4>3. CASE phase \in {"erase", "rerase"}
        BY <4>3 DEF InstalledSlots
      <4> QED
        BY <1>5, <4>1, <4>2, <4>3
    <3>4. buf[b] = logdata[i]
      BY <3>1, <3>3 DEF Inv, CopyInv
    <3> QED
      BY <3>2, <3>4
  <2> QED
    BY <2>2, <2>3
<1> QED
  BY Zenon, <1>2, <1>4, <1>5 DEF Inv, TypeOK

\* A block that is not cached can be read from its home location.
LEMMA UncachedIsHome ==
  ASSUME Inv, NEW b \in Block, buf[b] = NoBuf, phase \notin RecoverPhase
  PROVE  Durable[b] = disk[b]
<1> USE DEF RecoverPhase, CommitPhase
<1>1. Len(lh) \in Nat /\ tail \in Nat
  BY Zenon, LhSlot DEF Inv, TypeOK
<1>2. CASE phase \in {"none", "write_log", "write_head", "done"}
  <2>1. header = << >>
    BY <1>2 DEF Inv, HeaderInv
  <2> QED
    BY <2>1, DurableValue DEF Logged
<1>3. CASE phase \in {"install", "erase"}
  <2>1. header = lh
    BY <1>3 DEF Inv, HeaderInv
  <2>2. CASE b \in Logged(lh)
    <3>1. PICK i \in 1 .. Len(lh) : lh[i] = b
      BY <2>2 DEF Logged
    <3>2. i \notin PinnedSlots
      BY <3>1 DEF Inv, PinInv
    <3>3. i \in InstalledSlots
      BY <1>1, <1>3, <3>2 DEF PinnedSlots, InstalledSlots
    <3> QED
      BY Zenon, <2>1, <3>1, <3>3, DurableValue DEF Inv, CopyInv
  <2> QED
    BY <2>1, <2>2, DurableValue
<1> QED
  BY Zenon, <1>2, <1>3 DEF Inv, TypeOK

\* Steps of the cache and of an open call.
LEMMA CacheSteps ==
  ASSUME Inv, NEW p \in Proc, NEW b \in Block
  PROVE  /\ bread(p, b) => UNCHANGED <<Mem, Durable, Active>>
         /\ brelse(p, b) => UNCHANGED <<Mem, Durable, Active>>
         /\ log_write(p, b) => UNCHANGED <<Mem, Durable, Active>>
         /\ \A d \in Data : modify(p, b, d) => Txn!Write(p, b, d)
<1>1. ASSUME bread(p, b) PROVE UNCHANGED <<Mem, Durable, Active>>
  <2>1. Durable' = Durable /\ Active' = Active
    BY <1>1 DEF bread, Durable, Active
  <2>2. buf' = [buf EXCEPT ![b] = Contents(b)] /\ buf \in [Block -> Data \cup {NoBuf}]
    BY Zenon, <1>1 DEF bread, Inv, TypeOK
  <2>3. buf[b] = NoBuf => Contents(b) = Durable[b]
    BY <1>1, UncachedIsHome DEF bread, Running, Contents
  <2> QED
    BY <2>1, <2>2, <2>3 DEF Mem, Contents
<1>2. ASSUME brelse(p, b) PROVE UNCHANGED <<Mem, Durable, Active>>
  BY <1>2 DEF brelse, Mem, Durable, Active
<1>3. ASSUME log_write(p, b) PROVE UNCHANGED <<Mem, Durable, Active>>
  BY <1>3 DEF log_write, Mem, Durable, Active
<1>4. ASSUME NEW d \in Data, modify(p, b, d) PROVE Txn!Write(p, b, d)
  <2>1. Durable' = Durable /\ Active' = Active /\ p \in Active
    BY <1>4 DEF modify, Durable, Active
  <2>2. buf' = [buf EXCEPT ![b] = d] /\ buf \in [Block -> Data \cup {NoBuf}]
    BY Zenon, <1>4 DEF modify, Inv, TypeOK
  <2>3. Mem' = [Mem EXCEPT ![b] = d]
    BY Zenon, <2>1, <2>2, DataAssumption DEF Mem
  <2> QED
    BY <2>1, <2>3 DEF Txn!Write
<1> QED
  BY <1>1, <1>2, <1>3, <1>4

\* begin_op() and end_op().
LEMMA CallSteps ==
  ASSUME Inv, NEW p \in Proc
  PROVE  /\ begin_op(p) => Txn!Begin(p) \/ UNCHANGED <<Mem, Durable, Active>>
         /\ end_op(p) => Txn!End(p)
<1>1. ASSUME begin_op(p) PROVE Txn!Begin(p) \/ UNCHANGED <<Mem, Durable, Active>>
  <2>1. Mem' = Mem /\ Durable' = Durable
    BY Zenon, <1>1 DEF begin_op, Mem, Durable
  <2>2. p \notin Active /\ (Active' = Active \/ Active' = Active \cup {p})
    <3>1. pc \in [Proc -> {"idle", "asleep", "woken", "op", "commit"}]
      BY Zenon DEF Inv, TypeOK
    <3>2. /\ pc[p] # "op"
          /\ pc' = [pc EXCEPT ![p] = "asleep"] \/ pc' = [pc EXCEPT ![p] = "op"]
      BY <1>1 DEF begin_op
    <3> QED
      BY <3>1, <3>2 DEF Active
  <2> QED
    BY <2>1, <2>2 DEF Txn!Begin
<1>2. ASSUME end_op(p) PROVE Txn!End(p)
  <2>1. Mem' = Mem /\ Durable' = Durable
    BY <1>2 DEF end_op, Mem, Durable
  <2>2. p \in Active /\ ~committing
    BY Zenon, <1>2 DEF end_op, Active, Inv, CommitInv
  <2>3. \A q \in Proc : pc'[q] = "op" <=> (pc[q] = "op" /\ q # p)
    BY Zenon, <1>2, <2>2 DEF end_op, WakeAllThen, Inv, TypeOK
  <2>4. Active' = Active \ {p}
    BY <2>3 DEF Active
  <2> QED
    BY <2>1, <2>2, <2>4 DEF Txn!End
<1> QED
  BY <1>1, <1>2

\* The header write commits; the other steps of commit() change nothing visible.
LEMMA CommitSteps ==
  ASSUME Inv, Inv', NEW p \in Proc
  PROVE  /\ write_log(p) => UNCHANGED <<Mem, Durable, Active>>
         /\ write_head(p) => Txn!Commit
         /\ install_trans(p) => UNCHANGED <<Mem, Durable, Active>>
         /\ erase(p) => UNCHANGED <<Mem, Durable, Active>>
         /\ finish(p) => UNCHANGED <<Mem, Durable, Active>>
<1> USE DEF RecoverPhase, CommitPhase
<1>1. ASSUME write_log(p) PROVE UNCHANGED <<Mem, Durable, Active>>
  <2>1. header = << >> /\ UNCHANGED <<header, disk, pc>>
    BY Zenon, <1>1 DEF write_log, Inv, HeaderInv
  <2>2. Durable' = Durable
    BY <2>1 DEF Durable, Recovered, Logged
  <2>3. lh[tail] \in Block /\ tail \in 1 .. Len(lh)
    BY Zenon, <1>1, TailSlot DEF Inv, write_log
  <2>4. buf[lh[tail]] # NoBuf
    <3>1. pins[lh[tail]] = 1
      BY Zenon, <1>1, <2>3 DEF write_log, Inv, PinInv, PinnedSlots
    <3> QED
      BY <2>3, <3>1 DEF Inv, PinInv
  <2>5. buf' = buf
    BY Zenon, <1>1, <2>3, <2>4 DEF write_log, Contents, Inv, TypeOK
  <2> QED
    BY <2>1, <2>2, <2>5 DEF Mem, Active
<1>2. ASSUME write_head(p) PROVE Txn!Commit
  <2>1. /\ phase = "write_head" /\ header' = lh /\ header = << >>
        /\ UNCHANGED <<disk, logdata, buf, pc>>
    BY Zenon, <1>2 DEF write_head, Inv, HeaderInv
  <2>2. Active = {} /\ Active' = {}
    BY Zenon, <2>1 DEF Inv, CommitInv, Active
  <2>3. lh \in Seq(Block) /\ HeaderShape(lh)
    BY Zenon DEF Inv, TypeOK, HeaderInv
  <2>4. \A b \in Block : Durable'[b] = Mem[b] /\ Mem'[b] = Mem[b]
    <3> SUFFICES ASSUME NEW b \in Block PROVE Durable'[b] = Mem[b] /\ Mem'[b] = Mem[b]
      OBVIOUS
    <3>1. Durable[b] = disk[b]
      BY <2>1, DurableValue DEF Logged
    <3>2. Mem[b] = IF buf[b] = NoBuf THEN Durable[b] ELSE buf[b]
      BY DEF Mem
    <3>3. Mem'[b] = IF buf[b] = NoBuf THEN Durable'[b] ELSE buf[b]
      BY <2>1 DEF Mem
    <3>4. CASE b \notin Logged(lh)
      <4>1. b \notin dirty
        BY Zenon, <2>2, ProcAssumption DEF Inv, LockInv, Active, TypeOK
      <4>2. buf[b] \in {NoBuf, disk[b]}
        BY Zenon, <3>4, <4>1 DEF Inv, CacheIsCopy
      <4>3. Durable'[b] = disk[b]
        BY <2>1, <2>3, <3>4, RecoveredValue DEF Durable
      <4> QED
        BY <3>1, <3>2, <3>3, <4>2, <4>3
    <3>5. CASE b \in Logged(lh)
      <4>1. PICK i \in 1 .. Len(lh) : lh[i] = b
        BY <3>5 DEF Logged
      <4>2. logdata[i] = buf[b]
        BY Zenon, <2>1, <4>1 DEF Inv, CopyInv, WrittenSlots
      <4>3. Durable'[b] = logdata[i]
        BY <2>1, <2>3, <4>1, RecoveredValue DEF Durable
      <4>4. buf[b] # NoBuf
        <5>1. pins[b] = 1
          BY Zenon, <2>1, <4>1 DEF Inv, PinInv, PinnedSlots
        <5> QED
          BY <5>1 DEF Inv, PinInv
      <4> QED
        BY Zenon, <3>2, <3>3, <4>2, <4>3, <4>4
    <3> QED
      BY <3>4, <3>5
  <2>5. Durable' = Mem /\ Mem' = Mem
    BY Zenon, <2>4 DEF Durable, Recovered, Mem
  <2> QED
    BY <2>2, <2>5 DEF Txn!Commit
<1>3. ASSUME install_trans(p) PROVE UNCHANGED <<Mem, Durable, Active>>
  <2>1. /\ phase = "install" /\ header = lh
        /\ buf' = [buf EXCEPT ![lh[tail]] = logdata[tail]]
        /\ disk' = [disk EXCEPT ![lh[tail]] = logdata[tail]]
        /\ UNCHANGED <<header, logdata, pc>>
    BY Zenon, <1>3 DEF install_trans, Inv, HeaderInv
  <2>2. lh[tail] \in Block /\ tail \in 1 .. Len(lh) /\ Len(lh) \in Nat
    BY <2>1, TailSlot DEF Inv
  <2>3. lh[tail] \in Logged(lh)
    BY <2>2 DEF Logged
  <2>4. disk \in [Block -> Data] /\ buf \in [Block -> Data \cup {NoBuf}]
    BY Zenon DEF Inv, TypeOK
  <2>5. Durable' = Durable
    BY Zenon, <2>1, <2>3, <2>4 DEF Durable, Recovered
  <2>6. buf[lh[tail]] = logdata[tail]
    BY <2>1, <2>2 DEF Inv, CopyInv, WrittenSlots
  <2>7. buf' = buf
    BY <2>1, <2>2, <2>4, <2>6
  <2> QED
    BY Zenon, <2>1, <2>5, <2>7 DEF Mem, Active
<1>4. ASSUME erase(p) PROVE UNCHANGED <<Mem, Durable, Active>>
  <2>1. phase = "erase" /\ header = lh /\ header' = << >> /\ UNCHANGED <<disk, logdata, buf, pc>>
    BY Zenon, <1>4 DEF erase, Inv, HeaderInv
  <2>2. \A b \in Block : Durable[b] = disk[b]
    <3>1. \A i \in 1 .. Len(lh) : disk[lh[i]] = logdata[i]
      BY Zenon, <2>1 DEF Inv, CopyInv, InstalledSlots
    <3> QED
      BY <2>1, <3>1, DurableValue DEF Inv, Logged
  <2>3. Durable' = Durable
    BY <2>1, <2>2 DEF Durable, Recovered, Logged
  <2> QED
    BY <2>1, <2>3 DEF Mem, Active
<1>5. ASSUME finish(p) PROVE UNCHANGED <<Mem, Durable, Active>>
  <2>1. Mem' = Mem /\ Durable' = Durable
    BY Zenon, <1>5 DEF finish, Mem, Durable
  <2>2. Active' = Active
    BY <1>5 DEF finish, WakeAllThen, Active
  <2> QED
    BY <2>1, <2>2
<1> QED
  BY <1>1, <1>2, <1>3, <1>4, <1>5

\* A crash falls back to what is durable, and recovery only re-installs it.
LEMMA RecoverySteps ==
  ASSUME Inv
  PROVE  /\ Crash => Txn!Crash
         /\ recover_from_log => UNCHANGED <<Mem, Durable, Active>>
<1> USE DEF RecoverPhase, CommitPhase
<1>1. ASSUME Crash PROVE Txn!Crash
  <2>1. Durable' = Durable /\ Active' = {}
    BY <1>1 DEF Crash, Durable, Active
  <2>2. Mem' = Durable
    BY Zenon, <1>1, <2>1 DEF Crash, Mem, Durable, Recovered
  <2> QED
    BY <2>1, <2>2 DEF Txn!Crash
<1>2. ASSUME read_head PROVE UNCHANGED <<Mem, Durable, Active>>
  BY Zenon, <1>2 DEF read_head, Mem, Durable, Active
<1>3. ASSUME recover_install PROVE UNCHANGED <<Mem, Durable, Active>>
  <2>1. /\ phase = "rinstall" /\ header = lh
        /\ buf' = [buf EXCEPT ![lh[tail]] = logdata[tail]]
        /\ disk' = [disk EXCEPT ![lh[tail]] = logdata[tail]]
        /\ UNCHANGED <<header, logdata, pc>>
    BY Zenon, <1>3 DEF recover_install, Inv, HeaderInv
  <2>2. /\ lh[tail] \in Block /\ tail \in 1 .. Len(lh) /\ Len(lh) \in Nat
        /\ logdata[tail] \in Data
    BY <2>1, TailSlot DEF Inv
  <2>3. lh[tail] \in Logged(lh)
    BY <2>2 DEF Logged
  <2>4. disk \in [Block -> Data] /\ buf \in [Block -> Data \cup {NoBuf}]
    BY Zenon DEF Inv, TypeOK
  <2>5. Durable' = Durable
    BY Zenon, <2>1, <2>3, <2>4 DEF Durable, Recovered
  <2>6. Durable[lh[tail]] = logdata[tail]
    BY Zenon, <2>1, <2>2, DurableValue
  <2>7. buf[lh[tail]] = NoBuf
    BY <2>1, <2>2 DEF Inv, CopyInv
  <2>8. Mem' = Mem
    BY Zenon, <2>1, <2>2, <2>4, <2>5, <2>6, <2>7 DEF Mem
  <2> QED
    BY <2>1, <2>5, <2>8 DEF Active
<1>4. ASSUME recover_erase PROVE UNCHANGED <<Mem, Durable, Active>>
  <2>1. phase = "rerase" /\ header = lh /\ header' = << >> /\ UNCHANGED <<disk, logdata, buf, pc>>
    BY Zenon, <1>4 DEF recover_erase, Inv, HeaderInv
  <2>2. \A b \in Block : Durable[b] = disk[b]
    BY <2>1, DurableValue DEF Inv, CopyInv, InstalledSlots, Logged
  <2>3. Durable' = Durable
    BY <2>1, <2>2 DEF Durable, Recovered, Logged
  <2> QED
    BY Zenon, <2>1, <2>3 DEF Mem, Active
<1> QED
  BY <1>1, <1>2, <1>3, <1>4 DEF recover_from_log

\* The log implements the transactional disk: every behaviour of log.c, with
\* crashes anywhere, is one of TxnDisk under the mapping Mem, Durable, Active.
THEOREM LogImplementsTxnDisk == Spec => Atomicity
<1>1. Init => Txn!Init
  <2> SUFFICES ASSUME Init PROVE Txn!Init
    OBVIOUS
  <2>1. Durable = disk
    BY DEF Init, Durable, Recovered, Logged
  <2>2. Mem = Durable
    BY <2>1 DEF Init, Mem
  <2>3. Active = {}
    BY DEF Init, Active
  <2> QED
    BY <2>1, <2>2, <2>3 DEF Init, Txn!Init
<1>2. ASSUME Inv, Inv', [Next]_vars
      PROVE  [Txn!Next]_(Txn!vars)
  <2> USE <1>2
  <2>1. SUFFICES Txn!Next \/ UNCHANGED <<Mem, Durable, Active>>
    BY DEF Txn!vars
  <2>2. CASE UNCHANGED vars
    BY Zenon, <2>2 DEF vars, Mem, Durable, Active
  <2>3. ASSUME NEW p \in Proc, begin_op(p) \/ end_op(p) \/ commit(p)
        PROVE  Txn!Next \/ UNCHANGED <<Mem, Durable, Active>>
    BY Zenon, <2>3, CallSteps, CommitSteps DEF commit, Txn!Next
  <2>4. ASSUME NEW p \in Proc, NEW b \in Block, bread(p, b) \/ log_write(p, b) \/ brelse(p, b)
        PROVE  Txn!Next \/ UNCHANGED <<Mem, Durable, Active>>
    BY <2>4, CacheSteps
  <2>5. ASSUME NEW p \in Proc, NEW b \in Block, NEW d \in Data, modify(p, b, d)
        PROVE  Txn!Next \/ UNCHANGED <<Mem, Durable, Active>>
    BY <2>5, CacheSteps DEF Txn!Next
  <2>6. ASSUME NEW b \in Block, recycle(b)
        PROVE  Txn!Next \/ UNCHANGED <<Mem, Durable, Active>>
    <3>1. Durable' = Durable /\ Active' = Active
      BY Zenon, <2>6 DEF recycle, Durable, Active
    <3>2. buf' = [buf EXCEPT ![b] = NoBuf] /\ buf \in [Block -> Data \cup {NoBuf}]
      BY Zenon, <2>6 DEF recycle, Inv, TypeOK
    <3>3. buf[b] = Durable[b]
      BY Zenon, <2>6, RecyclableIsDurable DEF recycle
    <3> QED
      BY Zenon, <3>1, <3>2, <3>3 DEF Mem
  <2>7. CASE recover_from_log \/ Crash
    BY <2>7, RecoverySteps DEF Txn!Next
  <2> QED
    BY Zenon, <2>2, <2>3, <2>4, <2>5, <2>6, <2>7 DEF Next
<1> QED
  BY <1>1, <1>2, Invariance, PTL DEF Spec, Atomicity, Txn!Spec
--------------------------------------------------------------------------
(* Under LogRoom no panic() of log.c is reached. *)

\* Sets of blocks are finite, so their cardinalities are numbers.
LEMMA BlockSets ==
  ASSUME NEW S \in SUBSET Block
  PROVE  IsFiniteSet(S) /\ Cardinality(S) \in Nat
BY BlockAssumption, FS_Subset, FS_CardinalityType

\* At most MAXOPBLOCKS tokens per open call.
LEMMA UnclaimedBound ==
  ASSUME NEW A \in SUBSET Proc, NEW U \in SUBSET (A \X (1 .. MAXOPBLOCKS))
  PROVE  /\ IsFiniteSet(U) /\ Cardinality(U) \in Nat
         /\ Cardinality(U) <= Cardinality(A) * MAXOPBLOCKS
<1>1. IsFiniteSet(A) /\ Cardinality(A) \in Nat
  BY ProcAssumption, FS_Subset, FS_CardinalityType
<1>2. IsFiniteSet(1 .. MAXOPBLOCKS) /\ Cardinality(1 .. MAXOPBLOCKS) = MAXOPBLOCKS
  BY SizeAssumption, FS_Interval
<1>3. /\ IsFiniteSet(A \X (1 .. MAXOPBLOCKS))
      /\ Cardinality(A \X (1 .. MAXOPBLOCKS)) = Cardinality(A) * MAXOPBLOCKS
  BY Zenon, <1>1, <1>2, FS_Product
<1> QED
  BY <1>3, FS_Subset, FS_CardinalityType

\* The tokens of a call that has logged k blocks.
LEMMA TokensOfCall ==
  ASSUME NEW p, NEW k \in Nat, k <= MAXOPBLOCKS
  PROVE  Cardinality({p} \X ((k + 1) .. MAXOPBLOCKS)) = MAXOPBLOCKS - k
<1>1. /\ IsFiniteSet((k + 1) .. MAXOPBLOCKS)
      /\ Cardinality((k + 1) .. MAXOPBLOCKS) = MAXOPBLOCKS - k
  <2>1. k + 1 \in Int /\ MAXOPBLOCKS \in Int /\ MAXOPBLOCKS \in Nat
    BY SizeAssumption
  <2>2. /\ IsFiniteSet((k + 1) .. MAXOPBLOCKS)
        /\ Cardinality((k + 1) .. MAXOPBLOCKS)
             = IF k + 1 > MAXOPBLOCKS THEN 0 ELSE MAXOPBLOCKS - (k + 1) + 1
    BY <2>1, FS_Interval
  <2> QED
    BY <2>1, <2>2
<1>2. IsFiniteSet({p}) /\ Cardinality({p}) = 1
  BY FS_Singleton
<1>3. Cardinality({p} \X ((k + 1) .. MAXOPBLOCKS)) = 1 * (MAXOPBLOCKS - k)
  <2> DEFINE T == (k + 1) .. MAXOPBLOCKS
  <2>1. IsFiniteSet(T) /\ Cardinality(T) = MAXOPBLOCKS - k
    BY <1>1
  <2> HIDE DEF T
  <2>2. Cardinality({p} \X T) = Cardinality({p}) * Cardinality(T)
    BY <1>2, <2>1, FS_Product
  <2>3. Cardinality({p} \X T) = 1 * (MAXOPBLOCKS - k)
    BY <1>2, <2>1, <2>2
  <2> QED
    BY <2>3 DEF T
<1> QED
  BY <1>3, SizeAssumption

\* The unclaimed tokens form a finite set.
LEMMA UnclaimedFinite ==
  /\ Active \in SUBSET Proc
  /\ Unclaimed \in SUBSET (Active \X (1 .. MAXOPBLOCKS))
  /\ IsFiniteSet(Unclaimed) /\ Cardinality(Unclaimed) \in Nat
<1>1. Active \in SUBSET Proc
  BY DEF Active
<1>2. Unclaimed \in SUBSET (Active \X (1 .. MAXOPBLOCKS))
  BY DEF Unclaimed
<1> QED
  BY <1>1, <1>2, UnclaimedBound

\* Both headers fit struct logheader, whose array has LOGSIZE entries.
LEMMA HeaderLengths ==
  ASSUME Inv, RoomInv
  PROVE  /\ Len(lh) \in Nat /\ Len(lh) <= LOGSIZE
         /\ Len(header) \in Nat /\ Len(header) <= LOGSIZE
         /\ Len(<< >>) = 0
<1>1. lh \in Seq(Block) /\ header \in Seq(Block)
  BY Zenon DEF Inv, TypeOK
<1>2. Len(lh) \in Nat /\ Len(header) \in Nat /\ Len(<< >>) = 0
  BY <1>1
<1>3. Len(lh) + Cardinality(Unclaimed) <= LOGSIZE /\ Len(header) <= LOGSIZE
  BY DEF RoomInv
<1>4. Cardinality(Unclaimed) \in Nat
  BY UnclaimedFinite
<1>5. Len(lh) <= LOGSIZE
  BY <1>2, <1>3, <1>4, SizeAssumption
<1> QED
  BY <1>2, <1>3, <1>5

\* A call about to log a block still owns a token, and the log has room.
LEMMA RoomToLog ==
  ASSUME LogRoom, Inv, RoomInv, NEW p \in Active, NEW b \in dirty, lock[b] = p
  PROVE  /\ Cardinality(touched[p] \cup {b}) <= OPBLOCKS
         /\ Cardinality(touched[p]) \in Nat /\ Cardinality(touched[p]) <= OPBLOCKS
         /\ Len(lh) < LOGSIZE /\ Len(lh) < NLOG - 1
<1> DEFINE k == Cardinality(touched[p])
<1>1. p \in Proc /\ b \in Block /\ touched[p] \in SUBSET Block /\ dirty \in SUBSET Block
  BY Zenon DEF Inv, TypeOK, Active
<1>2. /\ touched[p] \cup {b} \in SUBSET (touched[p] \cup Dirty(p))
      /\ touched[p] \in SUBSET (touched[p] \cup {b})
      /\ touched[p] \cup Dirty(p) \in SUBSET Block
      /\ touched[p] \cup {b} \in SUBSET Block
  BY <1>1 DEF Dirty
<1>3. /\ Cardinality(touched[p] \cup {b}) <= Cardinality(touched[p] \cup Dirty(p))
      /\ k <= Cardinality(touched[p] \cup {b})
  BY Zenon, <1>2, BlockSets, FS_Subset
<1>4. /\ k \in Nat /\ Cardinality(touched[p] \cup {b}) \in Nat
      /\ Cardinality(touched[p] \cup Dirty(p)) \in Nat
  BY Zenon, <1>1, <1>2, BlockSets
<1>5. Cardinality(touched[p] \cup Dirty(p)) <= OPBLOCKS
  BY Zenon, <1>1 DEF RoomInv
<1>6. Cardinality(touched[p] \cup {b}) <= OPBLOCKS /\ k <= OPBLOCKS
  BY <1>3, <1>4, <1>5, SizeAssumption
<1>7. MAXOPBLOCKS - k <= Cardinality(Unclaimed)
  <2>1. {p} \X ((k + 1) .. MAXOPBLOCKS) \in SUBSET Unclaimed
    BY <1>4, SizeAssumption DEF Unclaimed
  <2>a. k <= MAXOPBLOCKS
    BY <1>4, <1>6, SizeAssumption DEF LogRoom
  <2>2. Cardinality({p} \X ((k + 1) .. MAXOPBLOCKS)) = MAXOPBLOCKS - k
    BY Zenon, <1>4, <2>a, TokensOfCall
  <2>3. Cardinality({p} \X ((k + 1) .. MAXOPBLOCKS)) <= Cardinality(Unclaimed)
    BY Zenon, <2>1, UnclaimedFinite, FS_Subset
  <2> QED
    BY Zenon, <2>2, <2>3
<1>8. Len(lh) + Cardinality(Unclaimed) <= LOGSIZE /\ Len(lh) \in Nat
  BY Zenon, LhSlot DEF RoomInv, Inv
<1>9. Len(lh) < LOGSIZE /\ Len(lh) < NLOG - 1
  BY <1>4, <1>6, <1>7, <1>8, UnclaimedFinite, SizeAssumption DEF LogRoom
<1> QED
  BY <1>4, <1>6, <1>9

\* With the cache and the calls' own state unchanged, log space is kept by any
\* step that does not lengthen the header.
LEMMA RoomFrame ==
  ASSUME Inv, RoomInv, UNCHANGED <<pc, touched, dirty>>,
         \A b \in dirty : lock'[b] = lock[b], UNCHANGED <<lh, header>>
  PROVE  RoomInv'
<1>1. \A p \in Proc : Dirty(p)' = Dirty(p)
  BY DEF Dirty
<1>2. Active' = Active /\ Unclaimed' = Unclaimed /\ Logged(lh)' = Logged(lh)
  BY Zenon DEF Active, Unclaimed, Logged
<1> QED
  BY Zenon, <1>1, <1>2 DEF RoomInv

\* A set of tokens that only shrinks does not grow in number.
LEMMA FewerTokens ==
  ASSUME NEW U, U \subseteq Unclaimed
  PROVE  Cardinality(U) \in Nat /\ Cardinality(U) <= Cardinality(Unclaimed)
BY UnclaimedFinite, FS_Subset, FS_CardinalityType

\* Nothing is unclaimed when no call is open.
LEMMA NoCallNoToken ==
  ASSUME Active = {}
  PROVE  Unclaimed = {} /\ Cardinality(Unclaimed) = 0
BY FS_EmptySet DEF Unclaimed

\* Init claims nothing.
LEMMA InitRoom ==
  ASSUME Init
  PROVE  RoomInv
<1>1. Active = {} /\ \A p \in Proc : touched[p] \cup Dirty(p) = {}
  BY DEF Init, Active, Dirty
<1>2. Len(lh) = 0 /\ Len(header) = 0
  BY DEF Init
<1>3. Cardinality({}) = 0
  BY FS_EmptySet
<1>4. \A p \in Proc : Cardinality(touched[p] \cup Dirty(p)) = 0
  BY Zenon, <1>1, <1>3
<1>5. Cardinality(Unclaimed) = 0
  BY Zenon, <1>1, NoCallNoToken
<1> QED
  BY <1>1, <1>2, <1>4, <1>5, SizeAssumption DEF RoomInv

\* modify() is limited to OPBLOCKS blocks by the code of each call.
LEMMA ModifyRoom ==
  ASSUME Inv, RoomInv, NEW p \in Proc, NEW b \in Block, NEW d \in Data, modify(p, b, d)
  PROVE  RoomInv'
<1>1. \A q \in Proc : (touched[q] \cup Dirty(q))'
        = IF q = p THEN touched[p] \cup Dirty(p) \cup {b} ELSE touched[q] \cup Dirty(q)
  BY Zenon DEF modify, Dirty
<1>2. Active' = Active /\ Unclaimed' = Unclaimed /\ Logged(lh)' = Logged(lh)
  BY Zenon DEF modify, Active, Unclaimed, Logged
<1>3. UNCHANGED <<lh, header, touched>>
  BY Zenon DEF modify
<1>4. Cardinality(touched[p] \cup Dirty(p) \cup {b}) <= OPBLOCKS
  BY Zenon DEF modify
<1> QED
  BY Zenon, <1>1, <1>2, <1>3, <1>4 DEF RoomInv

\* begin_op() admits a call only if MAXOPBLOCKS more entries still fit.
LEMMA BeginOpRoom ==
  ASSUME Inv, RoomInv, NEW p \in Proc, begin_op(p)
  PROVE  RoomInv'
<1>1. CASE committing \/ Len(lh) + (outstanding + 1) * MAXOPBLOCKS > LOGSIZE
  <2>1. Active' = Active
    BY Zenon, <1>1 DEF begin_op, Active, Inv, TypeOK
  <2>2. Unclaimed' = Unclaimed /\ Logged(lh)' = Logged(lh)
    BY Zenon, <1>1, <2>1 DEF begin_op, Unclaimed, Logged
  <2>3. UNCHANGED <<lh, header, touched>> /\ \A q \in Proc : Dirty(q)' = Dirty(q)
    BY Zenon, <1>1 DEF begin_op, Dirty
  <2> QED
    BY Zenon, <2>1, <2>2, <2>3 DEF RoomInv
<1>2. CASE ~(committing \/ Len(lh) + (outstanding + 1) * MAXOPBLOCKS > LOGSIZE)
  <2>0. touched \in [Proc -> SUBSET Block] /\ pc \in [Proc -> {"idle", "asleep", "woken", "op", "commit"}]
    BY Zenon DEF Inv, TypeOK
  <2>1. Active' = Active \cup {p} /\ p \notin Active
    BY Zenon, <1>2, <2>0 DEF begin_op, Active
  <2>2. UNCHANGED <<lh, header>> /\ touched' = [touched EXCEPT ![p] = {}]
    BY Zenon, <1>2 DEF begin_op
  <2>3. \A q \in Proc : Dirty(q)' = Dirty(q)
    BY Zenon, <1>2 DEF begin_op, Dirty
  <2>4. \A q \in Proc : (touched[q] \cup Dirty(q))'
          = IF q = p THEN Dirty(p) ELSE touched[q] \cup Dirty(q)
    BY Zenon, <2>0, <2>2, <2>3
  <2>5. Dirty(p) = {}
    BY Zenon DEF begin_op, Dirty, Inv, TypeOK
  <2>6. \A q \in Proc : Cardinality(touched[q] \cup Dirty(q))' <= OPBLOCKS
    <3>1. Cardinality({}) <= OPBLOCKS
      BY FS_EmptySet, SizeAssumption
    <3>2. \A q \in Proc : Cardinality(touched[q] \cup Dirty(q)) <= OPBLOCKS
      BY Zenon DEF RoomInv
    <3>3. SUFFICES ASSUME NEW q \in Proc
                   PROVE  Cardinality((touched[q] \cup Dirty(q))') <= OPBLOCKS
      OBVIOUS
    <3>4. CASE q = p
      BY Zenon, <2>4, <2>5, <3>1, <3>4
    <3>5. CASE q # p
      BY Zenon, <2>4, <3>2, <3>5
    <3> QED
      BY Zenon, <3>4, <3>5
  <2>7. \A q \in Active' : touched'[q] \subseteq Logged(lh)'
    BY <2>0, <2>1, <2>2 DEF RoomInv, Logged, Active
  <2>8. Cardinality(Active') = outstanding + 1 /\ outstanding \in Nat
    <3>1. outstanding = Cardinality(Active) /\ outstanding \in Nat
      BY Zenon DEF Inv, CommitInv, TypeOK
    <3> QED
      BY Zenon, <2>1, <3>1, ActiveCard, FS_AddElement
  <2>9. Len(lh) + Cardinality(Unclaimed') <= LOGSIZE
    <3>1. Active' \in SUBSET Proc /\ Unclaimed' \in SUBSET (Active' \X (1 .. MAXOPBLOCKS))
      BY <2>1 DEF Unclaimed, Active
    <3>2. /\ Cardinality(Unclaimed') \in Nat
          /\ Cardinality(Unclaimed') <= Cardinality(Active') * MAXOPBLOCKS
      BY Zenon, <3>1, UnclaimedBound
    <3>3. Cardinality(Unclaimed') <= (outstanding + 1) * MAXOPBLOCKS
      BY <3>2, <2>8
    <3>4. Len(lh) \in Nat /\ (outstanding + 1) * MAXOPBLOCKS \in Nat
      BY <2>8, LhSlot, SizeAssumption DEF Inv
    <3> DEFINE need == (outstanding + 1) * MAXOPBLOCKS
    <3>5. ~(Len(lh) + need > LOGSIZE)
      BY <1>2
    <3> HIDE DEF need
    <3>6. need \in Nat /\ Cardinality(Unclaimed') <= need
      BY <3>3, <3>4 DEF need
    <3> QED
      BY <3>2, <3>4, <3>5, <3>6, SizeAssumption
  <2> QED
    BY Zenon, <2>2, <2>6, <2>7, <2>9 DEF RoomInv
<1> QED
  BY <1>1, <1>2

\* A new entry uses up one token of its call; an absorbed one needs none.
LEMMA LogWriteRoom ==
  ASSUME LogRoom, Inv, RoomInv, NEW p \in Proc, NEW b \in Block, log_write(p, b)
  PROVE  RoomInv' /\ panic' = "none"
<1> DEFINE k == Cardinality(touched[p])
<1>1. p \in Active /\ b \in dirty /\ lock[b] = p
  BY Zenon DEF log_write, Active
<1>2. /\ Cardinality(touched[p] \cup {b}) <= OPBLOCKS
      /\ k \in Nat /\ k <= OPBLOCKS
      /\ Len(lh) < LOGSIZE /\ Len(lh) < NLOG - 1
  BY Zenon, <1>1, RoomToLog
<1>3. Len(lh) \in Nat
  BY LhSlot DEF Inv
<1>4. ~(outstanding < 1)
  <2>1. Active # {}
    BY <1>1
  <2>2. outstanding = Cardinality(Active)
    BY Zenon DEF Inv, CommitInv
  <2> QED
    BY <2>1, <2>2, ActiveCard
<1>5. panic' = "none"
  <2>1. ~(Len(lh) >= LOGSIZE \/ Len(lh) >= NLOG - 1)
    BY <1>2, <1>3, SizeAssumption
  <2> QED
    BY Zenon, <1>4, <2>1 DEF log_write, log_writePanic
<1>6. touched \in [Proc -> SUBSET Block] /\ lh \in Seq(Block)
  BY Zenon DEF Inv, TypeOK
<1>7. touched' = [touched EXCEPT ![p] = @ \cup {b}] /\ dirty' = dirty \ {b}
  BY Zenon, <1>5 DEF log_write
<1>8. Active' = Active /\ header' = header /\ lock' = lock
  BY Zenon DEF log_write, Active
<1>9. \A q \in Proc : (touched[q] \cup Dirty(q))' = touched[q] \cup Dirty(q)
  BY <1>1, <1>6, <1>7, <1>8 DEF Dirty
<1>10. Logged(lh)' = Logged(lh) \cup {b}
  <2>1. CASE b \in Logged(lh)
    BY <1>5, <2>1 DEF log_write, Logged
  <2>2. CASE b \notin Logged(lh)
    <3>1. lh' = Append(lh, b)
      BY Zenon, <1>5, <2>2 DEF log_write
    <3>2. /\ Len(lh') = Len(lh) + 1 /\ lh'[Len(lh) + 1] = b
          /\ \A i \in 1 .. Len(lh) : lh'[i] = lh[i]
      BY <1>6, <3>1
    <3> QED
      BY <1>3, <3>2 DEF Logged
  <2> QED
    BY <2>1, <2>2
<1>11. \A q \in Active' : touched'[q] \subseteq Logged(lh)'
  BY Zenon, <1>6, <1>7, <1>8, <1>10 DEF RoomInv, Active
<1>12. k <= Cardinality(touched[p] \cup {b}) /\ Cardinality(touched[p] \cup {b}) \in Nat
  <2>1. touched[p] \cup {b} \in SUBSET Block /\ touched[p] \subseteq touched[p] \cup {b}
    BY <1>6
  <2> QED
    BY Zenon, <2>1, BlockSets, FS_Subset
<1>13. \A q \in Active : Cardinality(touched'[q])
         = IF q = p THEN Cardinality(touched[p] \cup {b}) ELSE Cardinality(touched[q])
  BY <1>6, <1>7 DEF Active
<1>14. Unclaimed' \subseteq Unclaimed
  <2>1. ASSUME NEW t \in Unclaimed' PROVE t \in Unclaimed
    <3>1. /\ t \in Active \X (1 .. MAXOPBLOCKS)
          /\ t[2] > Cardinality(touched'[t[1]])
      BY Zenon, <1>8, <2>1 DEF Unclaimed
    <3>2. t[1] \in Active /\ t[2] \in 1 .. MAXOPBLOCKS
      BY <3>1
    <3>3. t[2] > Cardinality(touched[t[1]])
      <4>1. CASE t[1] = p
        <5>1. t[2] > Cardinality(touched[p] \cup {b})
          BY Zenon, <1>13, <3>1, <3>2, <4>1
        <5> QED
          BY <1>2, <1>12, <3>2, <4>1, <5>1
      <4>2. CASE t[1] # p
        BY Zenon, <1>13, <3>1, <3>2, <4>2
      <4> QED
        BY <4>1, <4>2
    <3> QED
      BY Zenon, <3>1, <3>3 DEF Unclaimed
  <2> QED
    BY <2>1
<1>15. Len(lh') + Cardinality(Unclaimed') <= LOGSIZE
  <2>0. Len(lh) + Cardinality(Unclaimed) <= LOGSIZE /\ Cardinality(Unclaimed) \in Nat
    BY Zenon, UnclaimedFinite DEF RoomInv
  <2>1. CASE b \in Logged(lh)
    <3>1. lh' = lh
      BY Zenon, <1>5, <2>1 DEF log_write
    <3>2. Cardinality(Unclaimed') \in Nat /\ Cardinality(Unclaimed') <= Cardinality(Unclaimed)
      BY <1>14, FewerTokens
    <3> QED
      BY <1>3, <2>0, <3>1, <3>2, SizeAssumption
  <2>2. CASE b \notin Logged(lh)
    <3>1. Len(lh') = Len(lh) + 1
      BY <1>5, <1>6, <2>2 DEF log_write
    <3>2. b \notin touched[p]
      BY Zenon, <1>1, <2>2 DEF RoomInv
    <3>3. Cardinality(touched[p] \cup {b}) = k + 1
      <4>1. IsFiniteSet(touched[p])
        BY Zenon, <1>6, BlockSets
      <4> QED
        BY Zenon, <3>2, <4>1, FS_AddElement
    <3>4. <<p, k + 1>> \in Unclaimed
      BY <1>1, <1>2, SizeAssumption DEF Unclaimed, LogRoom
    <3>5. <<p, k + 1>> \notin Unclaimed'
      <4>1. Cardinality(touched'[p]) = k + 1
        BY Zenon, <1>1, <1>13, <3>3
      <4> QED
        BY <1>2, <4>1 DEF Unclaimed
    <3> DEFINE tok == <<p, k + 1>>
               V == Unclaimed \ {tok}
    <3>7. Unclaimed' \subseteq V /\ tok \in Unclaimed
      BY Zenon, <1>14, <3>4, <3>5
    <3> HIDE DEF tok
    <3>6. Cardinality(V) = Cardinality(Unclaimed) - 1 /\ IsFiniteSet(V)
      BY Zenon, <3>7, UnclaimedFinite, FS_RemoveElement
    <3> HIDE DEF V
    <3>8. Cardinality(Unclaimed') \in Nat /\ Cardinality(Unclaimed') <= Cardinality(V)
      BY Zenon, <3>6, <3>7, FS_Subset, FS_CardinalityType
    <3> QED
      BY <1>3, <2>0, <3>1, <3>6, <3>8, SizeAssumption
  <2> QED
    BY <2>1, <2>2
<1>16. \A q \in Proc : Cardinality(touched[q] \cup Dirty(q))' <= OPBLOCKS
  BY Zenon, <1>9 DEF RoomInv
<1> QED
  BY Zenon, <1>5, <1>8, <1>11, <1>15, <1>16 DEF RoomInv

\* end_op() takes the tokens of its call away and logs nothing.
LEMMA EndOpRoom ==
  ASSUME Inv, RoomInv, NEW p \in Proc, end_op(p)
  PROVE  RoomInv'
<1>1. UNCHANGED <<lh, header, touched, dirty, lock>>
  BY Zenon DEF end_op
<1>2. pc \in [Proc -> {"idle", "asleep", "woken", "op", "commit"}]
  BY Zenon DEF Inv, TypeOK
<1>3. Active' \subseteq Active
  BY Zenon, <1>2 DEF end_op, Active, WakeAllThen
<1>4. Unclaimed' \subseteq Unclaimed
  BY <1>1, <1>3 DEF Unclaimed
<1>5. Cardinality(Unclaimed') \in Nat /\ Cardinality(Unclaimed') <= Cardinality(Unclaimed)
  BY <1>4, FewerTokens
<1>6. Len(lh') + Cardinality(Unclaimed') <= LOGSIZE
  <2>1. lh' = lh /\ Len(lh) \in Nat /\ Cardinality(Unclaimed) \in Nat
    BY Zenon, <1>1, HeaderLengths, UnclaimedFinite
  <2>2. Len(lh) + Cardinality(Unclaimed) <= LOGSIZE
    BY Zenon DEF RoomInv
  <2> QED
    BY <1>5, <2>1, <2>2, SizeAssumption
<1>7. \A q \in Proc : (touched[q] \cup Dirty(q))' = touched[q] \cup Dirty(q)
  BY Zenon, <1>1 DEF Dirty
<1> QED
  BY Zenon, <1>1, <1>3, <1>6, <1>7 DEF RoomInv, Logged

\* While a commit or a recovery runs no call is open, so the space left over
\* is what the header in memory and the one on disk leave.
LEMMA CommitRoom ==
  ASSUME Inv, RoomInv, NEW p \in Proc, commit(p)
  PROVE  RoomInv'
<1>0. pc \in [Proc -> {"idle", "asleep", "woken", "op", "commit"}] /\ Active = {}
  BY Zenon DEF commit, write_log, write_head, install_trans, erase, finish, Inv, TypeOK, CommitInv
<1>1. UNCHANGED <<touched, dirty, lock>>
  BY Zenon DEF commit, write_log, write_head, install_trans, erase, finish
<1>2. Active' = {}
  BY Zenon, <1>0 DEF commit, write_log, write_head, install_trans, erase, finish, Active, WakeAllThen
<1>3. Cardinality(Unclaimed') = 0
  <2>1. Unclaimed' = {}
    BY <1>2 DEF Unclaimed
  <2> QED
    BY <2>1, FS_EmptySet
<1>4. \A q \in Proc : (touched[q] \cup Dirty(q))' = touched[q] \cup Dirty(q)
  BY Zenon, <1>1 DEF Dirty
<1>5. lh' \in {lh, << >>} /\ header' \in {header, lh, << >>}
  BY Zenon DEF commit, write_log, write_head, install_trans, erase, finish
<1>6. Len(lh) \in Nat /\ Len(lh) <= LOGSIZE /\ Len(header) <= LOGSIZE
  BY HeaderLengths
<1>6a. Len(<< >>) \in Nat /\ Len(<< >>) <= LOGSIZE
  BY SizeAssumption
<1>7. Len(lh') <= LOGSIZE /\ Len(header') <= LOGSIZE /\ Len(lh') \in Nat
  BY Zenon, <1>5, <1>6, <1>6a
<1>8. Len(lh') + Cardinality(Unclaimed') <= LOGSIZE
  BY <1>3, <1>7, SizeAssumption
<1>9. \A q \in Proc : Cardinality((touched[q] \cup Dirty(q))') <= OPBLOCKS
  BY Zenon, <1>4 DEF RoomInv
<1> QED
  BY Zenon, <1>2, <1>7, <1>8, <1>9 DEF RoomInv

\* Recovery copies a header that was committed, and a crash forgets all calls.
LEMMA RecoveryRoom ==
  ASSUME Inv, RoomInv, recover_from_log \/ Crash
  PROVE  RoomInv'
<1>1. Active' = {}
  <2>1. CASE recover_from_log
    BY Zenon, <2>1 DEF recover_from_log, read_head, recover_install, recover_erase,
                Active, Inv, RecoverInv, RecoverPhase
  <2>2. CASE Crash
    BY Zenon, <2>2 DEF Crash, Active
  <2> QED
    BY <2>1, <2>2
<1>2. Cardinality(Unclaimed') = 0
  <2>1. Unclaimed' = {}
    BY <1>1 DEF Unclaimed
  <2> QED
    BY <2>1, FS_EmptySet
<1>3. \A q \in Proc : Cardinality(touched[q] \cup Dirty(q))' <= OPBLOCKS
  <2>1. CASE recover_from_log
    <3>1. \A q \in Proc : (touched[q] \cup Dirty(q))' = touched[q] \cup Dirty(q)
      BY Zenon, <2>1 DEF recover_from_log, read_head, recover_install, recover_erase, Dirty
    <3> QED
      BY Zenon, <3>1 DEF RoomInv
  <2>2. CASE Crash
    <3>1. \A q \in Proc : (touched[q] \cup Dirty(q))' = {}
      BY Zenon, <2>2 DEF Crash, Dirty
    <3> QED
      BY <3>1, FS_EmptySet, SizeAssumption
  <2> QED
    BY Zenon, <2>1, <2>2
<1>4. lh' \in {lh, header, << >>} /\ header' \in {header, << >>}
  BY Zenon DEF recover_from_log, read_head, recover_install, recover_erase, Crash
<1>5. /\ Len(lh) \in Nat /\ Len(lh) <= LOGSIZE
      /\ Len(header) \in Nat /\ Len(header) <= LOGSIZE /\ Len(<< >>) = 0
  BY HeaderLengths
<1>6. Len(lh') <= LOGSIZE /\ Len(header') <= LOGSIZE /\ Len(lh') \in Nat
  BY <1>4, <1>5, SizeAssumption
<1>7. Len(lh') + Cardinality(Unclaimed') <= LOGSIZE
  BY <1>2, <1>6, SizeAssumption
<1>8. (\A q \in Active : touched[q] \subseteq Logged(lh))'
  BY Zenon, <1>1
<1>9. (\A q \in Proc : Cardinality(touched[q] \cup Dirty(q)) <= OPBLOCKS)'
  BY Zenon, <1>3
<1>10. (Len(lh) + Cardinality(Unclaimed) <= LOGSIZE)' /\ (Len(header) <= LOGSIZE)'
  BY Zenon, <1>6, <1>7
<1> QED
  BY ONLY <1>8, <1>9, <1>10 DEF RoomInv

\* Only log_write() and end_op() set panic, and neither does with room left.
LEMMA StepRoom ==
  ASSUME LogRoom, Inv, RoomInv, NoPanic, [Next]_vars
  PROVE  RoomInv' /\ NoPanic'
<1>1. ASSUME NEW p \in Proc, NEW b \in Block, bread(p, b) \/ brelse(p, b)
      PROVE  RoomInv' /\ NoPanic'
  <2>1. UNCHANGED <<pc, touched, dirty, lh, header, panic>>
    BY Zenon, <1>1 DEF bread, brelse
  <2>2. \A c \in dirty : lock'[c] = lock[c]
    BY Zenon, <1>1 DEF bread, brelse, Inv, TypeOK, LockInv
  <2> QED
    BY Zenon, <2>1, <2>2, RoomFrame DEF NoPanic
<1>2. ASSUME NEW b \in Block, recycle(b) PROVE RoomInv' /\ NoPanic'
  BY Zenon, <1>2, RoomFrame DEF recycle, NoPanic
<1>3. ASSUME UNCHANGED vars PROVE RoomInv' /\ NoPanic'
  BY Zenon, <1>3, RoomFrame DEF vars, NoPanic
<1>4. ASSUME NEW p \in Proc, NEW b \in Block, log_write(p, b) PROVE RoomInv' /\ NoPanic'
  BY Zenon, <1>4, LogWriteRoom DEF NoPanic
<1>5. ASSUME NEW p \in Proc, NEW b \in Block, NEW d \in Data, modify(p, b, d)
      PROVE  RoomInv' /\ NoPanic'
  BY Zenon, <1>5, ModifyRoom DEF modify, NoPanic
<1>6. ASSUME NEW p \in Proc, begin_op(p) PROVE RoomInv' /\ NoPanic'
  BY Zenon, <1>6, BeginOpRoom DEF begin_op, NoPanic
<1>7. ASSUME NEW p \in Proc, end_op(p) PROVE RoomInv' /\ NoPanic'
  <2>1. ~committing
    BY Zenon, <1>7 DEF end_op, Inv, CommitInv, Active
  <2> QED
    BY Zenon, <1>7, <2>1, EndOpRoom DEF end_op, NoPanic
<1>8. ASSUME NEW p \in Proc, commit(p) PROVE RoomInv' /\ NoPanic'
  BY Zenon, <1>8, CommitRoom DEF commit, write_log, write_head, install_trans, erase, finish, NoPanic
<1>9. ASSUME recover_from_log \/ Crash PROVE RoomInv' /\ NoPanic'
  BY Zenon, <1>9, RecoveryRoom
  DEF recover_from_log, read_head, recover_install, recover_erase, Crash, NoPanic
<1> QED
  BY Zenon, <1>1, <1>2, <1>3, <1>4, <1>5, <1>6, <1>7, <1>8, <1>9 DEF Next

\* NoPanic for every number of processes and blocks: with the kernel's
\* constants (LogRoom) neither log_write() (log.c:220, 222) nor end_op()
\* (log.c:153) ever panics.
THEOREM ReservationSuffices ==
  ASSUME LogRoom
  PROVE  Spec => []NoPanic
<1>1. Init => RoomInv /\ NoPanic
  BY Zenon, InitRoom DEF Init, NoPanic
<1>2. Inv /\ RoomInv /\ NoPanic /\ [Next]_vars => RoomInv' /\ NoPanic'
  BY StepRoom
<1> QED
  BY <1>1, <1>2, Invariance, PTL DEF Spec
==========================================================================
